----------------------------- MODULE WalStorage -----------------------------
(***************************************************************************)
(* The write-ahead log of src/src/wal_storage.rs at the grain of its       *)
(* atomic operations: a lock-free queue bounded by a CAS on pending_count, *)
(* a background flusher, flush() with its polling loop and forced drain,   *)
(* and stop_flusher().  Every load, compare-exchange, push, pop, notify,   *)
(* lock and file operation other tasks can interleave with is a step.      *)
(*                                                                         *)
(* An entry is <<w, n>>, the n-th entry writer w gets into the queue.      *)
(* Time is abstracted: a tick or a poll timeout may happen at any moment.  *)
(* A batch is assumed to fit the 8 KiB BufWriter, so a failed write leaves *)
(* in the file a prefix of the batch and perhaps one torn record.          *)
(***************************************************************************)
EXTENDS Integers, Sequences, FiniteSets, SequencesExt

CONSTANTS
    Writers,        \* tasks that call append() and flush()
    Stoppers,       \* tasks that call stop_flusher(), once each
    Flusher,        \* the task start_flusher() spawns
    MaxQueueSize,   \* max_queue_size of with_config()
    MaxRetries,     \* polls of flush() before it drains itself (100)
    Torn,           \* an incomplete record in the file
    MaxAppends,     \* bound: appends per writer
    MaxIoErrors     \* bound: failed writes or fsyncs

ASSUME ConstantsAssumption ==
    /\ MaxQueueSize \in Nat
    /\ MaxRetries \in Nat
    /\ MaxAppends \in Nat
    /\ MaxIoErrors \in Nat

ASSUME TasksAssumption ==
    /\ IsFiniteSet(Writers)
    /\ Flusher \notin Writers
    /\ Flusher \notin Stoppers
    /\ Writers \cap Stoppers = {}
    /\ Torn \notin Writers \X (Nat \ {0})
    /\ "nobody" \notin Writers \cup {Flusher}

VARIABLES
    pc,         \* where each task is
    count,      \* pending_count
    seen,       \* current_count, as append() of each writer last loaded it
    retries,    \* polls made by flush() of each writer
    queue,      \* pending: the SegQueue
    batch,      \* the entries each drain popped and has not accounted for
    lockq,      \* the file mutex: its holder, then its waiters in order
    file,       \* the records of the WAL file
    synced,     \* how many of them the last sync_all() covered
    permit,     \* flush_notify holds a permit
    shutdown,   \* the shutdown flag
    exiting,    \* the flusher has read shutdown as true
    handle,     \* flusher_handle: "none", "running" (not stored yet), "some", "taken"
    appended,   \* history: entries each writer pushed
    flushed,    \* history: of those, how many its last flush() => Ok covers
    lost,       \* history: entries of batches that failed
    errors,     \* history: number of failed I/O operations
    atStop      \* history: appended when stop_flusher() was first called

control == <<permit, shutdown, exiting, handle>>
history == <<appended, flushed, lost, errors, atStop>>
disk    == <<file, synced>>
vars    == <<pc, count, seen, retries, queue, batch, lockq, disk, control, history>>

Drainers == Writers \cup {Flusher}
Tasks    == Drainers \cup Stoppers
Entry    == Writers \X (Nat \ {0})

Goto(t, l) == pc' = [pc EXCEPT ![t] = l]

Init ==
    /\ pc = [t \in Tasks |-> IF t = Flusher THEN "absent" ELSE "idle"]
    /\ count = 0
    /\ seen = [w \in Writers |-> 0]
    /\ retries = [w \in Writers |-> 0]
    /\ queue = <<>>
    /\ batch = [d \in Drainers |-> <<>>]
    /\ lockq = <<>>
    /\ file = <<>>
    /\ synced = 0
    /\ permit = FALSE
    /\ shutdown = FALSE
    /\ exiting = FALSE
    /\ handle = "none"
    /\ appended = [w \in Writers |-> 0]
    /\ flushed = [w \in Writers |-> 0]
    /\ lost = {}
    /\ errors = 0
    /\ atStop = [w \in Writers |-> 0]

-----------------------------------------------------------------------------
(* append() *)

AppendCall(w) ==
    /\ pc[w] = "idle"
    /\ appended[w] < MaxAppends
    /\ Goto(w, "load")
    /\ UNCHANGED <<count, seen, retries, queue, batch, lockq, disk, control, history>>

\* Load pending_count; a full queue sends the writer to wait.
AppendLoad(w) ==
    /\ pc[w] = "load"
    /\ \/ count >= MaxQueueSize /\ Goto(w, "park") /\ UNCHANGED seen
       \/ count < MaxQueueSize /\ Goto(w, "cas") /\ seen' = [seen EXCEPT ![w] = count]
    /\ UNCHANGED <<count, retries, queue, batch, lockq, disk, control, history>>

\* notified() registers the waiter; notify_waiters() leaves no permit for
\* one that registers later.
AppendPark(w) ==
    /\ pc[w] = "park"
    /\ Goto(w, "parked")
    /\ UNCHANGED <<count, seen, retries, queue, batch, lockq, disk, control, history>>

\* Mutant: fetch_add instead of compare_exchange.
AppendCas_FetchAdd(w) ==
    /\ pc[w] = "cas"
    /\ count' = count + 1
    /\ Goto(w, "push")
    /\ seen' = [seen EXCEPT ![w] = 0]
    /\ UNCHANGED <<retries, queue, batch, lockq, disk, control, history>>

\* compare_exchange on pending_count: reserve a slot, or load again.  The
\* loaded value is a local of the loop body: it is forgotten either way.
AppendCas(w) ==
    /\ pc[w] = "cas"
    /\ \/ count = seen[w] /\ count' = count + 1 /\ Goto(w, "push")
       \/ count # seen[w] /\ UNCHANGED count /\ Goto(w, "load")
    /\ seen' = [seen EXCEPT ![w] = 0]
    /\ UNCHANGED <<retries, queue, batch, lockq, disk, control, history>>

AppendPush(w) ==
    /\ pc[w] = "push"
    /\ appended' = [appended EXCEPT ![w] = @ + 1]
    /\ queue' = Append(queue, <<w, appended'[w]>>)
    /\ Goto(w, "notify")
    /\ UNCHANGED <<count, seen, retries, batch, lockq, disk, control,
                   flushed, lost, errors, atStop>>

\* Mutant: append() leaves the flusher asleep.
AppendNotify_Silent(w) ==
    /\ pc[w] = "notify"
    /\ Goto(w, "idle")
    /\ UNCHANGED <<count, seen, retries, queue, batch, lockq, disk, control, history>>

\* flush_notify.notify_one(), then append() returns Ok.
AppendNotify(w) ==
    /\ pc[w] = "notify"
    /\ permit' = TRUE
    /\ Goto(w, "idle")
    /\ UNCHANGED <<count, seen, retries, queue, batch, lockq, disk,
                   shutdown, exiting, handle, history>>

-----------------------------------------------------------------------------
(* drain_and_flush(), called by the flusher and by flush() *)

\* Where a drain returns to.
ReturnOf(d) == IF d \in Writers THEN "idle"
               ELSE IF exiting THEN "done" ELSE "check"

\* A drain of a writer that returns Ok ends its flush() with Ok.
Acknowledge(d) ==
    flushed' = IF d \in Writers THEN [flushed EXCEPT ![d] = appended[d]] ELSE flushed

\* Mutant: the queue is a stack.
DrainPop_Newest(d) ==
    /\ pc[d] = "pop"
    /\ queue # <<>>
    /\ batch' = [batch EXCEPT ![d] = Append(@, Last(queue))]
    /\ queue' = Front(queue)
    /\ UNCHANGED <<pc, count, seen, retries, lockq, disk, control, history>>

\* Mutant: a drain writes one entry and leaves the rest queued.
DrainPop_OneOnly(d) ==
    /\ pc[d] = "pop"
    /\ queue # <<>>
    /\ batch' = [batch EXCEPT ![d] = <<Head(queue)>>]
    /\ queue' = Tail(queue)
    /\ Goto(d, "lock")
    /\ UNCHANGED <<count, seen, retries, lockq, disk, control, history>>

DrainPop(d) ==
    /\ pc[d] = "pop"
    /\ queue # <<>>
    /\ batch' = [batch EXCEPT ![d] = Append(@, Head(queue))]
    /\ queue' = Tail(queue)
    /\ UNCHANGED <<pc, count, seen, retries, lockq, disk, control, history>>

\* pop() returned None: an empty batch returns Ok at once.
DrainPopNone(d) ==
    /\ pc[d] = "pop"
    /\ queue = <<>>
    /\ \/ batch[d] = <<>> /\ Goto(d, ReturnOf(d)) /\ Acknowledge(d)
       \/ batch[d] # <<>> /\ Goto(d, "lock") /\ UNCHANGED flushed
    /\ UNCHANGED <<count, seen, retries, queue, batch, lockq, disk, control,
                   appended, lost, errors, atStop>>

\* The tokio mutex serves its waiters in the order they asked.
DrainLock(d) ==
    /\ pc[d] = "lock"
    /\ lockq' = Append(lockq, d)
    /\ Goto(d, "write")
    /\ UNCHANGED <<count, seen, retries, queue, batch, disk, control, history>>

\* Mutant: sync_all() is not called.
DrainWrite_NoSync(d) ==
    /\ pc[d] = "write"
    /\ Head(lockq) = d
    /\ file' = file \o batch[d]
    /\ Goto(d, "release")
    /\ UNCHANGED <<count, seen, retries, queue, batch, lockq, synced, control, history>>

DrainWrite(d) ==
    /\ pc[d] = "write"
    /\ Head(lockq) = d
    /\ file' = file \o batch[d]
    /\ Goto(d, "sync")
    /\ UNCHANGED <<count, seen, retries, queue, batch, lockq, synced, control, history>>

DrainSync(d) ==
    /\ pc[d] = "sync"
    /\ synced' = Len(file)
    /\ Goto(d, "release")
    /\ UNCHANGED <<count, seen, retries, queue, batch, lockq, file, control, history>>

\* Mutant: pending_count.store(0) instead of fetch_sub(batch_size).
DrainRelease_StoreZero(d) ==
    /\ pc[d] = "release"
    /\ count' = 0
    /\ batch' = [batch EXCEPT ![d] = <<>>]
    /\ Goto(d, "wake")
    /\ UNCHANGED <<seen, retries, queue, lockq, disk, control, history>>

DrainRelease(d) ==
    /\ pc[d] = "release"
    /\ count' = count - Len(batch[d])
    /\ batch' = [batch EXCEPT ![d] = <<>>]
    /\ Goto(d, "wake")
    /\ UNCHANGED <<seen, retries, queue, lockq, disk, control, history>>

\* Mutant: notify_waiters() is not called.
DrainWake_NoNotify(d) ==
    /\ pc[d] = "wake"
    /\ lockq' = Tail(lockq)
    /\ Goto(d, ReturnOf(d))
    /\ Acknowledge(d)
    /\ UNCHANGED <<count, seen, retries, queue, batch, disk, control,
                   appended, lost, errors, atStop>>

\* notify_waiters(), then the file mutex is released and Ok returned.
DrainWake(d) ==
    /\ pc[d] = "wake"
    /\ lockq' = Tail(lockq)
    /\ pc' = [t \in Tasks |-> IF t = d THEN ReturnOf(d)
                              ELSE IF pc[t] = "parked" THEN "load" ELSE pc[t]]
    /\ Acknowledge(d)
    /\ UNCHANGED <<count, seen, retries, queue, batch, disk, control,
                   appended, lost, errors, atStop>>

\* What a failed write may leave in the file.
WrittenPart(b) ==
    LET whole == { SubSeq(b, 1, k) : k \in 0..(Len(b) - 1) }
    IN  {b} \cup whole \cup { p \o <<Torn>> : p \in whole }

\* Mutant: an I/O error gives the slots of the batch back.
DrainFail_FreesSlots(d) ==
    /\ pc[d] = "sync" /\ Head(lockq) = d
    /\ errors < MaxIoErrors
    /\ count' = count - Len(batch[d])
    /\ lost' = lost \cup ToSet(batch[d])
    /\ errors' = errors + 1
    /\ batch' = [batch EXCEPT ![d] = <<>>]
    /\ lockq' = Tail(lockq)
    /\ Goto(d, ReturnOf(d))
    /\ UNCHANGED <<seen, retries, queue, disk, control, appended, flushed, atStop>>

\* Mutant: an I/O error puts the batch back into the queue for a retry.
DrainFail_Requeues(d) ==
    /\ pc[d] = "sync" /\ Head(lockq) = d
    /\ errors < MaxIoErrors
    /\ queue' = batch[d] \o queue
    /\ errors' = errors + 1
    /\ batch' = [batch EXCEPT ![d] = <<>>]
    /\ lockq' = Tail(lockq)
    /\ Goto(d, ReturnOf(d))
    /\ UNCHANGED <<count, seen, retries, disk, control, appended, flushed, lost, atStop>>

\* `?` on a write, flush or sync_all: the batch is gone, pending_count and
\* the waiters are left as they are, the mutex is released.
DrainFail(d) ==
    /\ pc[d] \in {"write", "sync"} /\ Head(lockq) = d
    /\ errors < MaxIoErrors
    /\ \/ pc[d] = "write" /\ \E part \in WrittenPart(batch[d]) : file' = file \o part
       \/ pc[d] = "sync" /\ UNCHANGED file
    /\ lost' = lost \cup ToSet(batch[d])
    /\ errors' = errors + 1
    /\ batch' = [batch EXCEPT ![d] = <<>>]
    /\ lockq' = Tail(lockq)
    /\ Goto(d, ReturnOf(d))
    /\ UNCHANGED <<count, seen, retries, queue, synced, control,
                   appended, flushed, atStop>>

DrainStep(d) ==
    \/ DrainPop(d) \/ DrainPopNone(d) \/ DrainLock(d) \/ DrainWrite(d)
    \/ DrainSync(d) \/ DrainRelease(d) \/ DrainWake(d)

-----------------------------------------------------------------------------
(* flush() *)

FlushCall(w) ==
    /\ pc[w] = "idle"
    /\ permit' = TRUE
    /\ Goto(w, "poll")
    /\ UNCHANGED <<count, seen, retries, queue, batch, lockq, disk,
                   shutdown, exiting, handle, history>>

\* Mutant: `<=` in the loop condition.
FlushPoll_OneMore(w) ==
    /\ pc[w] = "poll"
    /\ \/ /\ count > 0 /\ retries[w] <= MaxRetries
          /\ retries' = [retries EXCEPT ![w] = @ + 1] /\ UNCHANGED pc
       \/ /\ count = 0 \/ retries[w] > MaxRetries
          /\ retries' = [retries EXCEPT ![w] = 0] /\ Goto(w, "recheck")
    /\ UNCHANGED <<count, seen, queue, batch, lockq, disk, control, history>>

FlushPoll(w) ==
    /\ pc[w] = "poll"
    /\ \/ /\ count > 0 /\ retries[w] < MaxRetries
          /\ retries' = [retries EXCEPT ![w] = @ + 1] /\ UNCHANGED pc
       \/ /\ count = 0 \/ retries[w] = MaxRetries
          /\ retries' = [retries EXCEPT ![w] = 0] /\ Goto(w, "recheck")
    /\ UNCHANGED <<count, seen, queue, batch, lockq, disk, control, history>>

\* Mutant: no forced drain after the poll budget.
FlushRecheck_GivesUp(w) ==
    /\ pc[w] = "recheck"
    /\ Goto(w, "idle") /\ Acknowledge(w)
    /\ UNCHANGED <<count, seen, retries, queue, batch, lockq, disk, control,
                   appended, lost, errors, atStop>>

\* Mutant: flush() polls until somebody else has drained.
FlushRecheck_PollsOn(w) ==
    /\ pc[w] = "recheck"
    /\ \/ count > 0 /\ Goto(w, "poll") /\ UNCHANGED flushed
       \/ count = 0 /\ Goto(w, "idle") /\ Acknowledge(w)
    /\ UNCHANGED <<count, seen, retries, queue, batch, lockq, disk, control,
                   appended, lost, errors, atStop>>

FlushRecheck(w) ==
    /\ pc[w] = "recheck"
    /\ \/ count > 0 /\ Goto(w, "pop") /\ UNCHANGED flushed
       \/ count = 0 /\ Goto(w, "idle") /\ Acknowledge(w)
    /\ UNCHANGED <<count, seen, retries, queue, batch, lockq, disk, control,
                   appended, lost, errors, atStop>>

-----------------------------------------------------------------------------
(* start_flusher() and the task it spawns *)

\* tokio::spawn of the flusher; the handle is stored by a second task.
StartFlusher ==
    /\ pc[Flusher] = "absent"
    /\ Goto(Flusher, "select")
    /\ handle' = "running"
    /\ UNCHANGED <<count, seen, retries, queue, batch, lockq, disk,
                   permit, shutdown, exiting, history>>

\* The second task gets the handle lock, which a stopper only keeps while it
\* joins a handle that is already stored.
StoreHandle ==
    /\ handle = "running"
    /\ handle' = "some"
    /\ UNCHANGED <<pc, count, seen, retries, queue, batch, lockq, disk,
                   permit, shutdown, exiting, history>>

FlusherTick ==
    /\ pc[Flusher] = "select"
    /\ Goto(Flusher, "pop")
    /\ UNCHANGED <<count, seen, retries, queue, batch, lockq, disk, control, history>>

FlusherNotified ==
    /\ pc[Flusher] = "select"
    /\ permit
    /\ permit' = FALSE
    /\ Goto(Flusher, "pop")
    /\ UNCHANGED <<count, seen, retries, queue, batch, lockq, disk,
                   shutdown, exiting, handle, history>>

\* Mutant: the flusher stops without its final drain.
FlusherCheck_NoFinalDrain ==
    /\ pc[Flusher] = "check"
    /\ exiting' = shutdown
    /\ Goto(Flusher, IF shutdown THEN "done" ELSE "select")
    /\ UNCHANGED <<count, seen, retries, queue, batch, lockq, disk,
                   permit, shutdown, handle, history>>

FlusherCheck ==
    /\ pc[Flusher] = "check"
    /\ \/ shutdown /\ exiting' = TRUE /\ Goto(Flusher, "pop")
       \/ ~shutdown /\ UNCHANGED exiting /\ Goto(Flusher, "select")
    /\ UNCHANGED <<count, seen, retries, queue, batch, lockq, disk,
                   permit, shutdown, handle, history>>

-----------------------------------------------------------------------------
(* stop_flusher() *)

StopCall(s) ==
    /\ pc[s] = "idle"
    /\ shutdown' = TRUE
    /\ atStop' = IF shutdown THEN atStop ELSE appended
    /\ Goto(s, "snotify")
    /\ UNCHANGED <<count, seen, retries, queue, batch, lockq, disk,
                   permit, exiting, handle, appended, flushed, lost, errors>>

\* Mutant: stop_flusher() does not wake the flusher.
StopNotify_Silent(s) ==
    /\ pc[s] = "snotify"
    /\ Goto(s, "take")
    /\ UNCHANGED <<count, seen, retries, queue, batch, lockq, disk, control, history>>

StopNotify(s) ==
    /\ pc[s] = "snotify"
    /\ permit' = TRUE
    /\ Goto(s, "take")
    /\ UNCHANGED <<count, seen, retries, queue, batch, lockq, disk,
                   shutdown, exiting, handle, history>>

\* lock().await.take(): the guard lives until the join is over, so another
\* stopper waits for it.  Without a handle the call returns Ok at once.
StopTake(s) ==
    /\ pc[s] = "take"
    /\ \A r \in Stoppers : pc[r] # "join"
    /\ \/ handle = "some" /\ handle' = "taken" /\ Goto(s, "join")
       \/ handle # "some" /\ UNCHANGED handle /\ Goto(s, "stopped")
    /\ UNCHANGED <<count, seen, retries, queue, batch, lockq, disk,
                   permit, shutdown, exiting, history>>

StopJoin(s) ==
    /\ pc[s] = "join"
    /\ pc[Flusher] = "done"
    /\ Goto(s, "stopped")
    /\ UNCHANGED <<count, seen, retries, queue, batch, lockq, disk, control, history>>

-----------------------------------------------------------------------------
WriterStep(w) ==
    \/ AppendLoad(w) \/ AppendPark(w) \/ AppendCas(w) \/ AppendPush(w)
    \/ AppendNotify(w) \/ FlushPoll(w) \/ FlushRecheck(w)

StopStep(s) == StopNotify(s) \/ StopTake(s) \/ StopJoin(s)

Next ==
    \/ \E w \in Writers : AppendCall(w) \/ FlushCall(w) \/ WriterStep(w)
    \/ \E d \in Drainers : DrainStep(d) \/ DrainFail(d)
    \/ StartFlusher \/ StoreHandle
    \/ FlusherTick \/ FlusherNotified \/ FlusherCheck
    \/ \E s \in Stoppers : StopCall(s) \/ StopStep(s)

Spec == Init /\ [][Next]_vars

\* The runtime keeps polling every task that can go on and build() starts
\* the flusher.  No caller has to start an operation, and the interval is not
\* needed: notify_one() alone must get the flusher going.
Fairness ==
    /\ \A w \in Writers : WF_vars(WriterStep(w))
    /\ \A d \in Drainers : WF_vars(DrainStep(d))
    /\ WF_vars(StartFlusher) /\ WF_vars(StoreHandle)
    /\ WF_vars(FlusherNotified) /\ WF_vars(FlusherCheck)
    /\ \A s \in Stoppers : WF_vars(StopStep(s))

FairSpec == Spec /\ Fairness

\* The interval ticks too.
TickingSpec == FairSpec /\ WF_vars(FlusherTick)
-----------------------------------------------------------------------------
(* Properties *)

Durable      == ToSet(SubSeq(file, 1, synced))
Batched      == UNION { ToSet(batch[d]) : d \in Drainers }
Accepted     == { e \in Entry : e[2] <= appended[e[1]] }
UpTo(upper)  == UNION { { <<w, n>> : n \in 1..upper[w] } : w \in Writers }
Reserved     == { <<w, appended[w] + 1>> : w \in { v \in Writers : pc[v] = "push" } }

\* What pending_count stands for: reserved slots, queued entries, entries of
\* drains under way and, for ever, the entries of drains that failed.
Held == Reserved \cup ToSet(queue) \cup Batched \cup lost

Labels == {"idle", "load", "park", "parked", "cas", "push", "notify",
           "poll", "recheck", "pop", "lock", "write", "sync", "release", "wake",
           "absent", "select", "check", "done", "snotify", "take", "join", "stopped"}

TypeOK ==
    /\ pc \in [Tasks -> Labels]
    /\ count \in Int
    /\ seen \in [Writers -> Int]
    /\ retries \in [Writers -> 0..MaxRetries]
    /\ queue \in Seq(Entry)
    /\ batch \in [Drainers -> Seq(Entry)]
    /\ lockq \in Seq(Drainers)
    /\ file \in Seq(Entry \cup {Torn})
    /\ synced \in 0..Len(file)
    /\ permit \in BOOLEAN /\ shutdown \in BOOLEAN /\ exiting \in BOOLEAN
    /\ handle \in {"none", "running", "some", "taken"}
    /\ appended \in [Writers -> Nat]
    /\ flushed \in [Writers -> Nat]
    /\ lost \subseteq Entry
    /\ errors \in Nat
    /\ atStop \in [Writers -> Nat]

\* The backpressure bound: however the CAS of append() races with other
\* appends and with the fetch_sub of a drain, pending_count never passes
\* max_queue_size.
Capacity == count <= MaxQueueSize

\* pending_count is exactly the number of entries it stands for; in
\* particular the fetch_sub of drain_and_flush() never wraps below zero, and
\* two concurrent drains never subtract the same entry.
CountIsHeld == count = Cardinality(Held)

\* What the polling loop of flush() relies on: pending_count is zero only
\* when every entry append() has queued is on disk, even after I/O errors.
ZeroMeansDurable == count = 0 => UpTo(appended) \subseteq Durable

\* No entry is lost or duplicated between queue, batches and file: an
\* accepted entry waits in exactly one place, or was written exactly once.
Waiting == [d \in Drainers |-> IF pc[d] \in {"sync", "release"} THEN <<>> ELSE batch[d]]
CopiesOf(e) ==
    Cardinality({ i \in DOMAIN queue : queue[i] = e })
    + Cardinality({ i \in DOMAIN file : file[i] = e })
    + Cardinality({ di \in Drainers \X (1..MaxQueueSize) :
                      di[2] \in DOMAIN Waiting[di[1]] /\ Waiting[di[1]][di[2]] = e })
ExactlyOnce ==
    \A e \in UpTo(appended) :
        IF e \in lost THEN CopiesOf(e) <= 1 ELSE CopiesOf(e) = 1

\* The entries of one writer leave the queue in the order it appended them,
\* whichever drains pop them: each batch, and behind it the queue, keeps it.
InProgramOrder(s) ==
    \A i, j \in DOMAIN s : i < j /\ s[i][1] = s[j][1] => s[i][2] < s[j][2]
PoppedInOrder == \A d \in Drainers : InProgramOrder(batch[d] \o queue)

\* What flush() => Ok does give its caller: none of the caller's entries is
\* left in the queue, each is on disk, or in the batch of a drain of another
\* task, or was lost to an I/O error another drain ran into.
FlushLeavesNothingQueued ==
    \A w \in Writers : \A n \in 1..flushed[w] :
        /\ <<w, n>> \notin ToSet(queue)
        /\ <<w, n>> \in Durable \cup lost
                       \cup UNION { ToSet(batch[d]) : d \in Drainers \ {w} }

\* The final drain of the flusher: when it has terminated, what was appended
\* before the first stop_flusher() is on disk, in the batch of a drain a
\* flush() runs, or lost to an I/O error.
ShutdownDrains ==
    pc[Flusher] = "done" =>
        UpTo(atStop) \subseteq Durable \cup lost \cup UNION { ToSet(batch[w]) : w \in Writers }

\* A drain returns queue slots only for entries that are on disk: a writer
\* that gets a slot because of it never overtakes an entry still at risk.
SlotsFreedWhenDurable ==
    [][ \A d \in Drainers :
          batch[d] # <<>> /\ batch'[d] = <<>> /\ count' < count
              => ToSet(batch[d]) \subseteq Durable' ]_vars

\* Without I/O errors, an entry queued before shutdown reaches the disk even
\* if the interval never ticks again and nobody calls flush(): the permit of
\* notify_one() is never lost.
QueuedReachesDisk ==
    \A w \in Writers : \A n \in 1..MaxAppends :
        (n <= appended[w] /\ ~shutdown) ~> (<<w, n>> \in Durable \cup lost)

\* Every flush() returns: the poll budget, the forced drain and the FIFO
\* mutex leave it nothing to wait for, whatever the flusher does.
FlushReturns == \A w \in Writers : pc[w] = "poll" ~> pc[w] = "idle"

\* A writer that waits while a live entry holds a slot is woken by the drain
\* of that entry, for as long as the flusher runs.
WaitersAreWoken ==
    \A w \in Writers :
        (pc[w] = "parked" /\ Cardinality(lost) < count /\ ~shutdown)
            ~> (pc[w] # "parked" \/ shutdown)

\* Every stop_flusher() returns: the flusher always sees the flag, and its
\* final drain always ends.
StopReturns == \A s \in Stoppers : pc[s] = "snotify" ~> pc[s] = "stopped"

-----------------------------------------------------------------------------
(* The promise to the layers above *)

BatchNow == [d \in Drainers |-> IF pc[d] = "release" THEN <<>> ELSE batch[d]]
Syncing(p) ==
    IF \E d \in Drainers : p[d] = "sync" THEN CHOOSE d \in Drainers : p[d] = "sync"
    ELSE "nobody"
FirstOf(upper) == [w \in Writers |-> { <<w, n>> : n \in 1..upper[w] }]

Contract == INSTANCE WalLog WITH
    Clients <- Writers,
    Entry   <- Writers \X (1..MaxAppends),
    Nobody  <- "nobody",
    batch   <- BatchNow,
    writing <- Syncing(pc),
    mine    <- FirstOf(appended),
    acked   <- FirstOf(flushed)

\* WalStorage implements WalLog: backpressure, notifications, the polling
\* flush and concurrent drains neither lose, repeat nor reorder an entry on
\* its way through queue and batch, batches reach the file whole or fail, and
\* flush() => Ok is only returned when the caller has nothing left to write.
ImplementsWalLog == Contract!LogSpec

-----------------------------------------------------------------------------
(* What the documentation says and the code does not do *)

\* wal_storage.rs:164: "Writers automatically resume when space available".
WritersResume == \A w \in Writers : pc[w] = "park" ~> pc[w] \notin {"park", "parked"}
=============================================================================
