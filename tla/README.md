# A TLA+ verification of async-wal-db

`async-wal-db` is an in-memory key-value store with transactions, made durable
by a write-ahead log (WAL): many tasks append records to a lock-free queue, one
background task writes them to a file in batches, `commit()` waits for its
record to be on disk, and `recover()` replays the file after a restart. This
directory holds TLA+ modules of that program, the TLC runs that check them and
the theorems TLAPS proves about them. Line numbers refer to `src/src/`.

## 1. The system

| Component | State | Operations | Hard part |
|---|---|---|---|
| **WalStorage** (`wal_storage.rs`) | `pending` queue, `pending_count`, `max_queue_size`, `space_available`, `flush_notify`, file behind a mutex | `append`, `drain_and_flush`, `flush` | appends, drains and counts interleave without a lock; any number of drains run at once; I/O errors in the middle of a batch; lost wakeups; polling with a time budget |
| **Flusher lifecycle** (`wal_storage.rs`) | `shutdown`, `flusher_handle` | `start_flusher`, `stop_flusher` | flag, permit and final drain race with appends; the handle is stored by another task |
| **Transaction** (`transaction.rs`) | id, buffered operations | `new`, `append_op`, `commit`, `abort`, `apply_to_store` | operations enter the WAL long before the commit; the Commit record is durable before the operations are applied, one lock each |
| **Database** (`database.rs`) | the `HashMap` store, the WAL, global `NEXT_TX_ID` | `build`, `begin_transaction`, `recover`, `shutdown` | crashes at any step; partial batches and torn records; transaction ids over restarts |
| **Checkpointing** (`database.rs`, `wal_storage.rs`) | marker file | `checkpoint`, scheduler, `set_checkpoint`, `get_last_checkpoint`, `truncate_wal` | reads the file beside the flusher, replays into a live store under its write lock, rewrites the marker in place without fsync |
| **Record format** (`lib.rs`) and its readers | header: length, CRC32, version | `to_bytes`, `from_bytes`, `validate`, the scan loops of `recover` and `checkpoint` | what a torn record, and records appended behind it, look like to a reader |
| **LmdbStorage** (`lmdb_storage.rs`) | an LMDB environment | `new`, `get`, `put`, `delete`, `batch_write` | concurrent callers, a failure in the middle of a batch; not used by the database |
| **Demo** (`main.rs`) | - | recover, scheduler, two tasks, checkpoint, verify | ends without `shutdown()`; run again on the same files |
| **Benchmarks** (`examples/`) | - | closed loops of transactions | none of their own |

How they interact: a `Transaction` calls `append()` once per operation and once
for its Commit or Abort record, then `flush()`. `append()` reserves a slot by a
compare-exchange on `pending_count`, pushes, and leaves a permit in
`flush_notify`. The flusher wakes on the permit or on its interval, pops
everything that is queued, takes the file mutex, writes, fsyncs, subtracts the
batch from `pending_count` and wakes the writers that wait for a slot.
`flush()` polls `pending_count` up to 100 times and then runs a drain of its
own. `commit()` then applies the operations to the store. `recover()` reads the
file up to the first invalid record, applies the committed transactions in
ascending id order and raises `NEXT_TX_ID`. `checkpoint()` reads the same file
while all this goes on, waits for the store's write lock, replays what it has
read and rewrites the marker before it lets go of the lock; the scheduler task
calls it on a timer. `LmdbStorage` stands by itself.

What makes each part correct:

* the queue: bounded, exactly counted, nothing lost, repeated or reordered on
  its way to a batch; `pending_count = 0` means that all is on disk;
* progress: what is queued reaches the disk, waiting writers are woken, every
  `flush()` and `stop_flusher()` returns, shutdown drains;
* transactions: an acknowledged commit survives every crash, completely; what
  was rolled back never shows; nothing is visible that a crash can take back;
* recovery: rebuilds the store the clients saw; no id that is left in the file is
  given out again, as long as no record is torn;
* the reader of the file: finds what was written in front of the first damage,
  makes nothing up, and fails only when there is damage;
* checkpoints: bring only committed values into the store, never undo what it
  has moved on to, never block the commits for good;
* LmdbStorage: every call happens at one instant or, if it fails, not at all.

The hazards these properties are aimed at are listed, each at its line, in
`PROJECT.json`.

## 2. The modules

```
 RecordFile --EXTENDS--> Replay <--EXTENDS-- Database <--EXTENDS-- Checkpoint <--EXTENDS-- Demo
                                               | INSTANCE
                        WalStorage --implements--> WalLog
                       LmdbStorage --implements--> KvStore
```

MCWalStorage, MCDatabase, MCCheckpoint and MCDemo add what TLC needs; SeqFacts,
ReplayFacts, WalStorageProofs, DatabaseProofs, RecoveryProofs, CheckpointProofs,
DemoProofs and LmdbProofs hold the proofs (section 4).

**WalStorage** models `wal_storage.rs` one atomic operation per step. `pc[t]` is
the line a task is at; the names of its values are those of the steps below.

| Code | Actions | Notes |
|---|---|---|
| `append` 171-197 | `AppendCall`, `AppendLoad`, `AppendPark`, `AppendCas`, `AppendPush`, `AppendNotify` | load, `notified()`, CAS, push and notify are separate steps; a failed CAS loads again |
| `drain_and_flush` 276-319 | `DrainPop`, `DrainPopNone`, `DrainLock`, `DrainWrite`, `DrainSync`, `DrainRelease`, `DrainWake`, `DrainFail` | one entry per pop; `lockq` is the FIFO tokio mutex, its first element the holder |
| `flush` 333-350 | `FlushCall`, `FlushPoll`, `FlushRecheck`, then the drain | `retries` counts polls up to `MaxRetries` |
| `start_flusher` 217-258 | `StartFlusher`, `StoreHandle`, `FlusherTick`, `FlusherNotified`, `FlusherCheck` | `exiting` is the flusher's knowledge that the next drain is the final one |
| `stop_flusher` 364-376 | `StopCall`, `StopNotify`, `StopTake`, `StopJoin` | a stopper keeps the handle's lock while it joins |

`space_available.notify_waiters()` wakes exactly the writers that are `parked`
at that moment; `flush_notify.notify_one()` sets the one permit of a tokio
`Notify`. `appended`, `flushed`, `lost`, `errors` and `atStop` are history
variables and guard only the bounds. An entry is `<<writer, n>>`. A failed
write leaves any prefix of the batch in the file and perhaps a torn record;
this assumes that a batch fits the 8 KiB `BufWriter`, so that a failure leaves
nothing behind for a later drain to write.

**WalLog** is what WalStorage promises to its users: `Push`, `Pop`, `Write`,
`Sync`, `Fail` and `Ack`, without counts, waits or retries. Its `MayAck` is
weak on purpose: a `flush()` that returns Ok promises that the caller's entries
have left the queue, not that they are on disk. `ImplementsWalLog` in
WalStorage is the refinement; the mapping is in the `Contract` instance (an
entry leaves its batch, for the contract, at the fsync; `writing` is the drain
between write and fsync).

**Replay** is `recover_with_validation()` as operators on sequences of records:
`Readable` (stop at the first invalid record), `ActionOf`, `CommittedIds`,
`ReplayedTx` and `Replayed` (the loops over the records of a transaction and over
the transactions), `Newer` (what `checkpoint()` keeps of what it reads),
`CounterAfter`. The loops are functions from the number of rounds to the state
after them.

**Database** composes transactions, the store and recovery with an instance of
WalLog, and adds crashes.

| Code | Actions |
|---|---|
| `build` + `recover` (`database.rs` 95-102, 153-329) | `Recover` |
| process or machine crash | `Crash`: any prefix beyond `synced` survives, perhaps with a torn record |
| `Transaction::new`, `append_op`, `add_entry` | `Begin`, `AppendOp`, `AddEntry` (buffered, never logged; only where `AddsEntries` is TRUE) |
| `commit`, `abort` (`transaction.rs` 121-169) | `CommitCall`, `AbortCall` (append the record), `FlushOk` or `FlushErr`, then `Apply` once per operation and `CommitOk` |
| a `Transaction` that is dropped | `GiveUp` |
| flusher, forced drains | `Drain(d)`, `FlusherFail` |

The value every operation of a transaction writes is the transaction's serial
number, a history value that is never reused, so that the store and the file
tell who wrote what even where ids could clash. `PollExpires` says whether the
environment lets a `flush()` run out of its 100 polls, which take about 100 ms or
more (a tokio sleep lasts a millisecond at least): when it is FALSE a flush
returns only with everything on disk and only the flusher drains; when it is TRUE
the weak promise of WalLog is all there is. After an I/O error every `flush()`
runs out of them, as `pending_count` keeps the slots of the lost batch
(`PollsMayExpire`).
`TornWrites` says whether a crash can cut a record. `Recover` runs before any
transaction, as in `main.rs`; a `recover()` that fails its validation leaves the
process down, as `?` does there. `append_op()` buffers and queues in one step
since nothing reads the buffer in between, and queue capacity is left to
WalStorage.

`KeysOf` gives each client its keys: `OwnKeys` (as in the demo and the
benchmarks) or `SharedKeys`.

**Checkpoint** extends Database with tasks that call `checkpoint()`.

| Code | Actions |
|---|---|
| `checkpoint` (`database.rs` 348-429) | `CheckpointCall` (marker read), `Scan` or `ScanFails` (the file), `ReplayScan` (lock and replay), `TruncateMarker`, `WriteMarker` or `SetCheckpointFails` |
| `set_checkpoint`, `get_last_checkpoint` (`wal_storage.rs` 389-424) | the last three; `MarkerParses` |
| `apply_to_store` beside a checkpoint | `LockedApply`: waits while a checkpoint holds the store's lock, which it does until the marker is written |
| crash | `CrashAll`: Database's crash, and one of `survivors` as the marker |

The scan is one step. What a real reader, which takes time, finds is what some
instant between its first and its last read would have shown: the file only
grows, and `shown` makes what successive readers see of a batch that is being
written monotone. The marker is never fsynced, so every content it had since
the last crash may survive one, the empty file included.

**Demo** is `main.rs` over Checkpoint: `main` says where the main task is. The
program runs until `main()` returns, with the error of its own checkpoint too, or
ends by the `unwrap()` of a task's handle (`JoinFails`); it is then run again on the
files as the end of the process leaves them. A task whose `commit()` returns the
error of its `flush()` panics (`Panic`), and `main()` finds out when it gets to that
task's handle: `Handles` is the order in which it awaits them.

**RecordFile** is the file byte by byte: `Bytes` of a record (header and body),
records cut at every byte by a failed write or a crash, or zero-filled by one,
more records behind them, and `Scan`, the loop of `recover_with_validation()`
in the order of its early exits, with those that make `checkpoint()` fail. Bytes are numbers below `Base`, the CRC32 is one cell and
free of collisions on the few bodies there are. It justifies Replay's
`Readable`: what the reader returns in front of the first torn record is what
was written. One thing it shows that Replay leaves out: a torn record can come
back as it was, when the bytes written behind it are those it lacks.

**KvStore** is a linearizable dictionary: a call takes effect at one instant
between call and return, or fails without effect, and a crash loses what has not
taken effect. **LmdbStorage** is `lmdb_storage.rs` over what LMDB gives (one
write transaction at a time, snapshots for readers, atomic durable commits;
external, from how the code uses heed): `Open`, `Call`, `ReadTxn`, `Get`,
`WriteTxn`, `Change` (one key of a batch at a time), `Commit`, `Fails` at any
step, `Crash`. A `get()` takes effect with its snapshot, the others at commit.

The MC modules give symmetry sets (writers, clients with their own keys,
checkpointers: nothing distinguishes them, and no run with a liveness property
uses symmetry; nor does Demo, where `main()` tells the tasks apart) and the sets of keys and operation kinds.

Definitions named `X_Something` next to a definition `X` are mutants: plausible
bugs of that code, each of which must break the property it is listed with in
`PROJECT.json`. No specification uses them.

## 3. The runs

All bounds are constants of the modules and named in the cfg files. The real
defaults (10,000 entries, 100 polls) are replaced by 1 or 2 entries and by 1 poll
in WalStorageDrains, where polling can both succeed and expire, none in
WalStorageProgress and WriterResumes, where `flush()` goes on to its last look at
`pending_count` at once. What matters is that the queue fills and wraps through
full and empty with two writers and three drains. The safety theorems cover every
other value; the liveness properties are checked without a poll only, which a
`flush()` leaves after finitely many in any case.

| Run | Instance | Shows |
|---|---|---|
| WalStorageDrains | 2 writers, queue of 2, 2 appends each, 1 I/O error, 1 poll before a forced drain | type, bound, exact count, `ZeroMeansDurable`, `ExactlyOnce`, `PoppedInOrder`, `FlushLeavesNothingQueued`, `SlotsFreedWhenDurable`, and the refinement of WalLog |
| WalStorageProgress | 2 writers, a stopper, queue of 1, 1 append each | `ShutdownDrains` and four liveness properties under `FairSpec` |
| Database | 2 clients on keys of their own, 2 transactions of up to 2 inserts or deletes, 2 crashes, no poll expires | recovery rebuilds the live store, commits are durable, nothing volatile is visible, no id in the file is given out again |
| DatabaseIds | 2 clients on one key, inserts, updates and unlogged entries, polls expire, torn writes, 1 I/O error, 1 crash | nothing rolled back returns; among the records recovery can read ids are unique, although ids behind a torn record are given out again |
| Checkpoints | 2 clients, 2 checkpointers with a call each per process, 1 crash | only logged and committed values reach the store, the marker names a committed transaction, a checkpoint disturbs nothing unless the store has moved on |
| Demo | the two tasks of `main.rs`, the scheduler and main with a checkpoint each, 2 I/O errors; a second run on the same files, with a transaction left for it when the first one panicked early | it prints both keys if it gets there, and its tasks never all wait for each other; `DemoPrintsAll` proves the first of these for any number of runs |
| RecordFile | 2 records of 2 or 3 bytes, lengths of 3 bytes, 2 faults | the reader is right about every file, `checkpoint()` fails when it should |
| Lmdb | 2 callers, 2 keys | linearizability of the four operations under failures and crashes |

Two transactions are enough for two clients to race, and with two crashes for
one to come after a recovery and be followed by another; every pair of
operations of different kinds on a key occurs. Where a third transaction
matters (an id taken by somebody else's records) the theorems IdsUnique and
ReadableIdsUnique cover all.

The properties of Database and Checkpoints hold under assumptions about the
environment that the constants state. This is what happens in `Database.cfg`
when one is dropped:

| Change | Violated | Why |
|---|---|---|
| `PollExpires = TRUE` | `CommittedIsDurable` | `flush()` gives up (after some 100 ms of polling) while another drain is between pop and fsync, finds the queue empty and returns Ok |
| `MaxIoErrors = 1` | `CommittedIsDurable`, `VisibleIsDurable`, `ReplayMatchesStore` | the flusher drops a batch, and the commits in it are acknowledged and applied |
| `MaxIoErrors = 1`, `MaxTxs = 3`, `MaxOps = 1` | `IdsAreUnique` | the failed write leaves a torn record; see the next row |
| `TornWrites = TRUE`, `MaxTxs = 3` (and `MaxOps = 1` for the second) | `CommittedIsDurable`, `IdsAreUnique` | records appended behind a torn tail are unreadable for every later recovery, which gives the ids of those transactions out again: both are then in the file, against `transaction.rs` 24 and `database.rs` 145 |
| `KeysOf <- SharedKeys` | `ReplayMatchesStore` | transactions commit in another order than they began; replay goes by id |
| `AddsEntries = TRUE` | `ReplayMatchesStore` | `add_entry()` logs nothing |
| `Kinds <- InsertsUpdates` | `ReplayMatchesStore` | an Update of a missing key fails the commit after its record is durable, and replay inserts it |

Four runs find a behaviour that contradicts a statement of the code's own
documentation, quoted in `PROJECT.json` under "findings":

| Run | Counterexample |
|---|---|
| WriterResumes | a drain between the load of `pending_count` (174) and `notified()` (178): the writer sleeps beside an empty queue |
| IoErrorLosesOps | the flusher drops a batch on an I/O error, and the commit in it is acknowledged |
| CheckpointStale | a checkpoint replays what it read before a commit was applied, over that commit, in the live store |
| TornHeader | a length torn by a failed write and the next header behind it form one length no buffer can have: every later recovery aborts |

Behaviours the models have that no property speaks of:

* `stop_flusher()` before the handle is stored (256) returns with the flusher
  running; entries appended after shutdown stay queued until a `flush()`;
* a forced drain that gets the file mutex ahead of the flusher can put a Commit
  record on disk before the operations of its transaction, and a crash in between
  leaves the transaction committed without them
  (`IMPLEMENTATION_CRASH_RECOVERY.md` 90: "Ensures atomicity (all-or-nothing for
  each transaction)"). While the flusher alone drains, the queue keeps them in order;
* with a committed empty key `Recover` is disabled for ever;
* an empty marker left by a crash makes every later `checkpoint()` fail, and one
  that is ahead of the file makes checkpoints skip what is committed later;
* the slower of two checkpoints moves the marker backwards (`wal_storage.rs` 380:
  "stores the highest transaction ID that has been checkpointed"), and a commit
  with an id below the marker is skipped by every later checkpoint: no recovery
  reads the marker, so neither loses anything.

**Fairness.** `FairSpec` asks weak fairness of every step a running task can
take by itself: a writer inside `append()` or `flush()`, each drain, the
flusher when its permit is set, `build()`'s start of the flusher, a stopper
inside its call. That is what a tokio runtime with a worker thread gives. It
does not ask that a caller ever starts an operation, nor that the interval
ticks: `QueuedReachesDisk` therefore shows that the permit alone suffices. The
mutex is FIFO in the model as in tokio, so it needs no strong fairness.
`TickingSpec` adds the interval, and is used where the property fails even
with it (WriterResumes). A drain cannot pop for ever since appends are bounded,
in the code by `max_queue_size`, as slots return only after the fsync.
`DemoSpec` needs no fairness: `DemoNeverStuck` says that somebody can go on until
`main()` ends, without another tick of the scheduler, and every step uses up one of
the bounds.

**Deadlock.** WalStorageDrains checks for it (the flusher never stops there).
So does Lmdb. Runs with a stopper and runs of Database, Checkpoint, Demo and
RecordFile really end, when the flusher has stopped or the bounds on
transactions, records and crashes are used up, and switch it off; that no task
is stuck is what the liveness properties and `DemoNeverStuck` say.

## 4. The proofs

`WalStorageProofs` proves, for every set of writers and stoppers, every
`MaxQueueSize`, `MaxRetries` and every bound, from `ConstantsAssumption` (the
bounds are naturals) and `TasksAssumption` (finitely many writers; tasks and
the torn record are distinct):

* `TypeCorrect`: `Spec => []TypeOK`
* `Backpressure`: `Spec => []Capacity`, `pending_count <= max_queue_size`
* `CountIsExact`: `Spec => []CountIsHeld`, so `fetch_sub` never wraps
* `ZeroIsSafe`: `Spec => []ZeroMeansDurable`, what `flush()` trusts
* `SlotsAreSafe`: `Spec => SlotsFreedWhenDurable`, an action property

None is inductive alone. The inductive invariant `IInv` is a conjunction of
layers, each preserved with the help of those above it:

1. `TypeOK`;
2. `LockOK`: `lockq` holds exactly the drains at or inside the mutex, once each,
   and one past its write is first. Without it two drains could both be between
   write and release, and `synced` would say nothing about either batch;
3. `PlaceOK`, `HeldOK`: reserved, queued, batched and lost entries are disjoint,
   repeated nowhere, only of numbers already handed out, and `count` is their
   cardinality. Each step moves entries between these places, so the proof is
   about the elements of sequences and the cardinality of unions (SeqFacts);
4. `CapacityOK`: a writer about to CAS has seen a count below the bound;
   the CAS succeeds only if that is still the count;
5. `DurableOK`: every accepted entry is in `Held` or durable, the batch at
   `sync` is in the file, the batch at `release` is durable.

`Induction` combines them; every step lemma has one step per group of actions.
The lemmas of `SeqFacts` (elements of Append, Tail, concatenation and prefix,
cardinality of the elements of a sequence without repetition) are general.

Its last part proves, from the same assumptions, what becomes of each entry:

* `ProgramOrder`: `Spec => []PoppedInOrder`
* `OnlyOnce`: `Spec => []ExactlyOnce`
* `FlushIsComplete`: `Spec => []FlushLeavesNothingQueued`
* `ShutdownIsClean`: `Spec => []ShutdownDrains`

The invariant `PathInv` adds to `IInv` and `CallsOK` (see below): the queue and
every batch keep the order of each writer, and no batch has an entry newer than
one of the same writer that is still queued, whichever drains pop (`OrderOK`);
what the last `flush()` => Ok of a writer covers is neither queued nor in its own
batch (`FlushedOK`); the flusher has seen the shutdown flag before its last drain,
so nothing accepted before the flag is queued once that drain is past its pops
(`StopOK`); and the file repeats no entry, has none that is still queued, and
none of a batch before its write (`FileOK`).

`WalStorageProofs` also proves `Refinement`: `Spec => ImplementsWalLog`, from the
same assumptions (one of them is that no drain is called "nobody"). It needs one
more invariant, `CallsOK`: a drain past its pops has a batch to write, and
nothing of its own task is queued, which is what lets its `flush()` return.
There is one lemma per kind of step: a push, a pop, a write, an fsync and a
failure are that step of WalLog, the end of a drain of a writer and a recheck
that reads zero are `Ack`, everything else changes nothing of it. With this,
what is proved of Database about any WalLog holds over WalStorage.

`DatabaseProofs` proves, for any clients, keys, operations and bounds, from
`DatabaseAssumption`:

* `ReadableIdsUnique`: `Spec => []ReadableIdsAreUnique`, with torn writes, expired
  polls, I/O errors and `add_entry()`. `IdsInv` adds that everything queued or
  batched was appended in this process (`CarriedOK`), that the counter is past every
  id that can be read or is in use and no two open transactions share one
  (`CounterOK`), and that a record with the id of an open transaction is of that
  transaction (`OwnerOK`). What can be read only shrinks in a crash
  (`ReadablePrefix`), and a write adds only what was queued (`ReadableConcat`);
  `CounterIsPast` is about `fetch_max` and rests on the existence of the maximum of
  a finite set. It is about what recovery can read, no more: behind a torn record
  ids are given out again.
* `IdsUnique`: `Spec => []IdsAreUnique`, which is about every record in the file,
  assuming `~TornWrites` and `MaxIoErrors = 0`: then nothing in the file is torn
  (`NothingTorn`) and all of it can be read. The second table of section 3 shows
  that neither assumption can be dropped.
* `Durable`: `Spec => []CommittedIsDurable` assuming `~TornWrites` and `Punctual`,
  which is `~PollExpires` and no I/O error. `DurInv`: only
  the flusher drains, all of the file but its current batch is on disk, and
  every appended record is queued, in its batch or in the file. The second table
  of section 3 shows that none of the assumptions can be dropped.
* `TypeCorrect`: `Spec => []TypeOK`, the store included.
* `RollbackIsFinal`: `Spec => []RolledBackStaysOut`, unconditionally. `OutInv`
  adds to `IdsInv` who wrote what: every record anywhere, also behind a torn one
  where nobody reads it today, has the serial of a transaction begun
  (`SerialOK`), and no serial with a Commit record is rolled back, nor is one
  whose transaction is open and may still get one (`OutcomeOK`). `StoreOK`: a
  value in the store is the serial of a transaction past its `commit()`.
* `NoDirtyReads`: `Spec => []VisibleIsDurable` under the assumptions of
  `Durable`. `SeenInv` adds to them that a transaction in `commit()` has
  appended its Commit record (`CommittingOK`) and that a process that is down
  has no part of the file that is not on disk: recovery reads only what a second
  crash leaves.

That recovery puts only values of committed transactions into the store is an
induction over its loops. The library's induction theorems cannot be used, but
the least element of a set of naturals can: `SetInduction` of ReplayFacts is
induction on a set given by its elements, and `LoopRuns` derives from it that a
loop written as a recursive function computes what its rounds say.
`ReplayedLoop`, `ReplayedTxLoop` and `NewerLoop` are the rules for the three loops
of Replay: what holds before the first round and is kept by each holds of the
result. `ReplayedStays` and `NewerIs` say what they keep, `ReplayedIs` exactly what replay
computes when the writes of each key are in the order of the transaction ids: of
every key the last write of a committed transaction (`LastWrite`, `Leaves`).
`DatabaseAssumption` says, for this, that the mark of an absent key is not a
value (`Missing \notin Nat`): a `HashMap` has no such value at all.

`RecoveryProofs` proves `RecoveryAgrees`: `Spec => []ReplayMatchesStore`, assuming
`Punctual`, `~TornWrites`, `~AddsEntries`, inserts and deletes only, and clients on
keys of their own; the second table of section 3 has a counterexample for each of
these. The file, what the flusher has not written of its batch, and the queue are one
`Line`, which grows at its end, is moved along by the flusher and cut by a crash
(`LineCases` says what each step does to it). `RecInv` has the invariants of Database
below it (`Base`) and adds that the writes of a key are in the order of the ids
(`OrderOK`), for which the owner of a key is the only one to write it and its newest
transaction has the highest id (`OwnedOK`, `OpsOK`); that what an active transaction
holds and what it has put into the line end in the same write of each key
(`BufferedOK`), which is where `append_op()` and `commit()` have to agree; and that the
replay of the line leaves of each key what its owner's operations still to be
applied leave of it in the store (`RebuiltOK`). With nothing under way the latter
is the theorem.

`CheckpointProofs` proves, for any clients, checkpointers and bounds:

* `CkptTypeCorrect`: `CkptSpec => []CkptTypeOK`
* `RollbackSurvivesCheckpoints`: `CkptSpec => []RolledBackStaysOut`
* `MarkerNamesCommitted`: `CkptSpec => []MarkerIsCommitted`
* `ShownIsLogged`: `CkptSpec => []VisibleIsLogged` assuming `Punctual` and
  `~TornWrites`
* `CheckpointIsQuiet`: `CkptSpec => QuietCheckpoint`, an action property, under the
  assumptions of `RecoveryAgrees`

Every step of `CkptNext` is a step of Database, one of a checkpointer that leaves
Database alone, `ReplayScan` or a crash (`CkptCases`), so the invariants of
Database carry over and the work is in the last two. `CkptInv` adds that a drain
which is writing has its batch at the end of the file (`WritingOK`: a reader finds
a part of the file, and `VisibleReadable` says no valid record that recovery
would not), that what a checkpoint has read is still in the file, where recovery
reads it, with a commit among it (`ScanOK`; the file only grows, `GrownFile`), and
that the marker names a Commit record there (`MarkerLogged`). A transaction with
a Commit record has no Abort record (`OutcomeOK`), so it stays committed in every
longer file. `ShownIsLogged` keeps beside it that the store holds serials with a
Commit record in the file.

`CheckpointIsQuiet` is about replays that nothing has overtaken (`stale` and `overtaken`
of the model; the run `CheckpointStale` shows what the others do). A checkpoint reads
the file ahead of its fsync, so what it finds committed may be a `commit()` that is
still polling, and what it does not find may be committed already. `QuietInv` therefore
adds to the invariants of RecoveryProofs, about the same `Line`:

* a transaction's Commit record is its last (`CommitsLastOK`), so what is found
  committed is found whole (`GroupWhole`);
* a Commit record that is not on disk is that of a client inside its `flush()`
  (`UnsyncedOK`; `ReachOK` says what of the file is on disk while it is written), so
  what a reader misses is of such a client (`NotFound`);
* until some reader has found it, nothing of such a commit is in the store: its keys
  are what replay leaves without it (`UnappliedOK`). `shown`, what readers have found,
  only grows, and without it a second checkpoint could undo what a first has applied;
* what was read and not overtaken ends for each key in the value the store has, or in
  a write its client is about to apply (`FreshOK`; `ScanSees` establishes it, by cases
  on whether the key's owner is missed, from `UnappliedOK` or from `RebuiltOK`).

With `ReplayedIs` the last gives the theorem, and that `RebuiltOK` and `UnappliedOK`
survive such a replay (`ReplayRebuilt`); after a stale one they are claimed no more
until the next crash.

`LmdbProofs` proves, for any callers, keys and values: `TypeCorrect`,
`WorkIsCurrent` (what an open write transaction has worked out is the committed
state with its changes so far, since no other can commit) and, with it,
`Refinement`: `Spec => ImplementsKvStore`.

`DemoProofs` proves `DemoPrintsAll`: `DemoSpec => []DemoVerifies`, for any number of
tasks that insert a key of their own (`DemoProgram`), any number of runs on the same
files and any checkpoints beside them, also with torn records, I/O errors, expired
polls and an unreadable marker. `DemoInv` adds to `CkptInv` that nothing ever logged deletes a key
(`InsertsOK`), that the key of a task that did not panic is in the store from its last insert on
until the process ends (`TasksOK`), and that main has joined both before its checkpoint
(`MainOK`). A replay keeps every key it finds when no record deletes one
(`ReplayKeeps`).

Only model-checked: the safety properties of RecordFile. Its `Scan` reads byte by byte, and what such a recursion computes for every file
needs an induction over its result that the installed provers cannot state. Out of
their reach altogether: liveness under fairness (`WalStorageProgress`) and ENABLED
(`DemoNeverStuck`).

## 5. What is not modelled

* `truncate_wal`: nothing in the repository calls it. It takes `&mut self`, which
  the `Arc` of a `Database` does not give; a user of the crate could call it on a
  clone of the public `Database.wal` (`WalStorage` is `Clone`), and would find the
  hazard listed in `PROJECT.json`.
* `RecoveryStats`: recovery only prints and returns it. `partial_writes` is 1 for
  every file with a record that ends cleanly (`database.rs` 189-194), where `lib.rs`
  98 calls it "Partial writes detected and truncated" and the sample output of
  `IMPLEMENTATION_CRASH_RECOVERY.md` 113-120 has 0 for four transactions.
* The benchmarks: closed loops of transactions on keys of their own, then
  timing; the clients of `Database.cfg` do what they do.
* Time: a tick or the end of the polling budget may come at any moment.
* Commit and Abort entries passed to `add_entry()`, which `apply_to_store`
  refuses; what a reader of the store sees between two operations of a commit
  (the code promises no isolation).
* Cancelled futures (a `commit()` dropped at an await point), several
  `start_flusher()` calls on one storage, two databases in one process (they
  share `NEXT_TX_ID`), a second `recover()` on a live database.
* `max_queue_size = 0` (every append waits for ever) and batches larger than
  the 8 KiB `BufWriter`.
* Collisions of CRC32, bincode's own errors beyond "does not parse", logging.

## 6. Plan

Done: every component but the two at the top of section 5. What is left worth
doing:

1. Proofs: a scan of RecordFile written as a function of the place, of which
   `ScanIsReadable` can be proved.
2. An abstract transactional store (commit as one step) that Database
   implements within the polling budget.
3. Drains of batches larger than the write buffer, of which an error leaves
   bytes behind for the next drain to write.
