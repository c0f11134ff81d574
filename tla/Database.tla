------------------------------ MODULE Database ------------------------------
(***************************************************************************)
(* Transactions (src/src/transaction.rs), the in-memory store, the WAL     *)
(* below it and recovery (src/src/database.rs), with crashes.              *)
(*                                                                         *)
(* The WAL is the one WalLog promises, which WalStorage implements.  A     *)
(* process starts by building the database and recovering it, as main.rs   *)
(* does, before any client begins a transaction.  Every transaction writes *)
(* its own serial number, so a value tells who wrote it.                   *)
(***************************************************************************)
EXTENDS Replay

CONSTANTS
    Clients,        \* tasks that run transactions, one at a time each
    Flusher,        \* the background flusher
    Nobody,
    EmptyKey,       \* the key "", legal in a transaction, rejected by recovery
    KeysOf,         \* the keys each client writes
    Kinds,          \* the operations the clients use
    AddsEntries,    \* environment: clients also call add_entry()
    PollExpires,    \* environment: flush() may run out of its polling budget at any time
    TornWrites,     \* environment: a crash may cut a record in two
    MaxTxs,         \* bound: transactions begun
    MaxOps,         \* bound: operations of a transaction
    MaxCrashes,     \* bound: crashes
    MaxIoErrors     \* bound: failed writes or fsyncs

TxKinds == OpKinds \cup {"commit", "abort"}
Records == [tx : Nat, kind : TxKinds, key : Keys \cup {Missing}, value : Nat]

ASSUME DatabaseAssumption ==
    /\ Nobody \notin Clients \cup {Flusher} /\ Flusher \notin Clients
    /\ Torn \notin Records
    /\ Missing \notin Nat          \* a value is never mistaken for none
    /\ Kinds \subseteq OpKinds
    /\ KeysOf \in [Clients -> SUBSET Keys]
    /\ AddsEntries \in BOOLEAN /\ PollExpires \in BOOLEAN /\ TornWrites \in BOOLEAN
    /\ MaxTxs \in Nat /\ MaxOps \in Nat /\ MaxCrashes \in Nat /\ MaxIoErrors \in Nat

VARIABLES
    queue, batch, writing, file, synced, mine, acked,   \* of WalLog
    mode,       \* "down", or "up" once recovered
    store,      \* the HashMap
    nextId,     \* NEXT_TX_ID
    pc,         \* where each client is
    tx,         \* its Transaction: id, entries, and the serial it writes
    serial,     \* history: transactions begun so far, over all processes
    promised,   \* history: the records of transactions whose commit() returned Ok
    rolledBack, \* history: serials of transactions aborted or given up
    crashes, errors

walVars == <<queue, batch, writing, file, synced, mine, acked>>
history == <<serial, promised, rolledBack, crashes, errors>>
vars == <<walVars, mode, store, nextId, pc, tx, history>>

NoTx == [id |-> 0, ops |-> <<>>, serial |-> 0]

Record ==
    [tx : 1..MaxTxs, kind : TxKinds,
     key : Keys \cup {Missing}, value : 1..MaxTxs]

Wal == INSTANCE WalLog WITH Entry <- Record

EndRecord(t, kind) == [tx |-> t.id, kind |-> kind, key |-> Missing, value |-> t.serial]

Init ==
    /\ Wal!LogInit
    /\ mode = "down"
    /\ store = EmptyStore
    /\ nextId = 1
    /\ pc = [c \in Clients |-> "idle"]
    /\ tx = [c \in Clients |-> NoTx]
    /\ serial = 0
    /\ promised = {}
    /\ rolledBack = {}
    /\ crashes = 0
    /\ errors = 0

-----------------------------------------------------------------------------
(* The process: start, crash *)

\* recover() returns an error, and the store is of no use, with an empty key.
Valid(recovered) == EmptyKey \in Keys => recovered[EmptyKey] = Missing

\* build(), then recover(): replay, validate, restore the counter.
Recover ==
    /\ mode = "down"
    /\ LET recs == Readable(file)
       IN  /\ store' = Replayed(EmptyStore, recs)
           /\ Valid(store')
           /\ nextId' = CounterAfter(nextId, recs)
    /\ mode' = "up"
    /\ UNCHANGED <<walVars, pc, tx, history>>

\* Power loss or kill: beyond the last fsync any prefix of the file survives,
\* perhaps with a torn record at its end; all memory is gone.
Crash ==
    /\ mode = "up"
    /\ crashes < MaxCrashes
    /\ crashes' = crashes + 1
    /\ \E k \in synced..Len(file) :
          \/ file' = SubSeq(file, 1, k)
          \/ TornWrites /\ k < Len(file) /\ file' = SubSeq(file, 1, k) \o <<Torn>>
    /\ synced' = Len(file')
    /\ queue' = <<>>
    /\ batch' = [d \in Wal!Drainers |-> <<>>]
    /\ writing' = Nobody
    /\ mine' = [c \in Clients |-> {}]
    /\ acked' = [c \in Clients |-> {}]
    /\ mode' = "down"
    /\ store' = EmptyStore
    /\ nextId' = 1
    /\ pc' = [c \in Clients |-> "idle"]
    /\ tx' = [c \in Clients |-> NoTx]
    /\ UNCHANGED <<serial, promised, rolledBack, errors>>

-----------------------------------------------------------------------------
(* Transactions *)

Begin(c) ==
    /\ mode = "up"
    /\ pc[c] = "idle"
    /\ serial < MaxTxs
    /\ serial' = serial + 1
    /\ tx' = [tx EXCEPT ![c] = [id |-> nextId, ops |-> <<>>, serial |-> serial']]
    /\ nextId' = nextId + 1
    /\ pc' = [pc EXCEPT ![c] = "active"]
    /\ UNCHANGED <<walVars, mode, store, promised, rolledBack, crashes, errors>>

\* An operation goes into the transaction's buffer.
Buffer(c, op) ==
    /\ pc[c] = "active"
    /\ Len(tx[c].ops) < MaxOps
    /\ tx' = [tx EXCEPT ![c].ops = Append(@, op)]

NewOps(c) ==
    { [tx |-> tx[c].id, kind |-> kind, key |-> key, value |-> tx[c].serial] :
        kind \in Kinds, key \in KeysOf[c] }

\* append_op(): into the buffer and at once into the WAL.
AppendOp(c) ==
    /\ \E op \in NewOps(c) : Buffer(c, op) /\ Wal!Push(c, op)
    /\ UNCHANGED <<mode, store, nextId, pc, history>>

\* add_entry(): into the buffer only.
AddEntry(c) ==
    /\ AddsEntries
    /\ \E op \in NewOps(c) : Buffer(c, op)
    /\ UNCHANGED <<walVars, mode, store, nextId, pc, history>>

\* Mutant: commit() returns to the caller's store without a flush().
CommitCall_NoFlush(c) ==
    /\ pc[c] = "active"
    /\ Wal!Push(c, EndRecord(tx[c], "commit"))
    /\ pc' = [pc EXCEPT ![c] = "applying"]
    /\ UNCHANGED <<mode, store, nextId, tx, history>>

\* commit() and abort() append their record and call flush().
CommitCall(c) ==
    /\ pc[c] = "active"
    /\ Wal!Push(c, EndRecord(tx[c], "commit"))
    /\ pc' = [pc EXCEPT ![c] = "committing"]
    /\ UNCHANGED <<mode, store, nextId, tx, history>>

AbortCall(c) ==
    /\ pc[c] = "active"
    /\ Wal!Push(c, EndRecord(tx[c], "abort"))
    /\ pc' = [pc EXCEPT ![c] = "aborting"]
    /\ rolledBack' = rolledBack \cup {tx[c].serial}
    /\ UNCHANGED <<mode, store, nextId, tx, serial, promised, crashes, errors>>

\* The Transaction is dropped without either.
GiveUp(c) ==
    /\ pc[c] = "active"
    /\ pc' = [pc EXCEPT ![c] = "idle"]
    /\ tx' = [tx EXCEPT ![c] = NoTx]
    /\ rolledBack' = rolledBack \cup {tx[c].serial}
    /\ UNCHANGED <<walVars, mode, store, nextId, serial, promised, crashes, errors>>

\* A failed batch keeps pending_count above zero: every flush() after it runs out
\* of its polling budget.
PollsMayExpire == PollExpires \/ errors > 0

\* Mutant: flush() goes by the queue alone, not by pending_count.
FlushOk_QueueEmpty(c) ==
    /\ pc[c] \in {"committing", "aborting"}
    /\ Wal!Ack(c)
    /\ \/ pc[c] = "committing" /\ pc' = [pc EXCEPT ![c] = "applying"] /\ UNCHANGED tx
       \/ pc[c] = "aborting" /\ pc' = [pc EXCEPT ![c] = "idle"] /\ tx' = [tx EXCEPT ![c] = NoTx]
    /\ UNCHANGED <<mode, store, nextId, history>>

\* flush() => Ok.  Within its polling budget it waits for pending_count to
\* reach zero; after it, WalLog's weaker promise is all there is.
FlushOk(c) ==
    /\ pc[c] \in {"committing", "aborting"}
    /\ PollsMayExpire \/ (queue = <<>> /\ \A d \in Wal!Drainers : batch[d] = <<>>)
    /\ Wal!Ack(c)
    /\ \/ pc[c] = "committing" /\ pc' = [pc EXCEPT ![c] = "applying"] /\ UNCHANGED tx
       \/ pc[c] = "aborting" /\ pc' = [pc EXCEPT ![c] = "idle"] /\ tx' = [tx EXCEPT ![c] = NoTx]
    /\ UNCHANGED <<mode, store, nextId, history>>

\* The forced drain of flush() fails: commit() or abort() returns the error.
FlushErr(c) ==
    /\ pc[c] \in {"committing", "aborting"}
    /\ errors < MaxIoErrors
    /\ Wal!Fail(c)
    /\ errors' = errors + 1
    /\ pc' = [pc EXCEPT ![c] = "idle"]
    /\ tx' = [tx EXCEPT ![c] = NoTx]
    /\ UNCHANGED <<mode, store, nextId, serial, promised, rolledBack, crashes>>

\* commit() applies the operations one by one, each under its own write lock.
\* An Update of a missing key makes it return Err with the rest unapplied.
\* `ops' is what is left to apply.
Apply(c) ==
    /\ pc[c] = "applying"
    /\ tx[c].ops # <<>>
    /\ LET op == Head(tx[c].ops)
       IN  \/ /\ op.kind = "update" => store[op.key] # Missing
              /\ store' = Upsert(store, op)
              /\ tx' = [tx EXCEPT ![c].ops = Tail(@)]
              /\ UNCHANGED pc
           \/ /\ op.kind = "update" /\ store[op.key] = Missing
              /\ pc' = [pc EXCEPT ![c] = "idle"]
              /\ tx' = [tx EXCEPT ![c] = NoTx]
              /\ UNCHANGED store
    /\ UNCHANGED <<walVars, mode, nextId, history>>

CommitOk(c) ==
    /\ pc[c] = "applying"
    /\ tx[c].ops = <<>>
    /\ pc' = [pc EXCEPT ![c] = "idle"]
    /\ tx' = [tx EXCEPT ![c] = NoTx]
    /\ promised' = promised \cup { r \in mine[c] : r.value = tx[c].serial }
    /\ UNCHANGED <<walVars, mode, store, nextId, serial, rolledBack, crashes, errors>>

-----------------------------------------------------------------------------
(* Drains: the flusher at any time, a client once its flush() stops polling *)

\* Mutant: build() forgets start_flusher().
MayDrain_NoFlusher(d) ==
    /\ mode = "up"
    /\ d \in Clients /\ PollsMayExpire /\ pc[d] \in {"committing", "aborting"}

MayDrain(d) ==
    /\ mode = "up"
    /\ d \in Clients => PollsMayExpire /\ pc[d] \in {"committing", "aborting"}

Drain(d) ==
    /\ MayDrain(d)
    /\ Wal!Pop(d) \/ Wal!Write(d) \/ Wal!Sync(d)
    /\ UNCHANGED <<mode, store, nextId, pc, tx, history>>

\* The flusher only prints the error.
FlusherFail ==
    /\ mode = "up"
    /\ errors < MaxIoErrors
    /\ Wal!Fail(Flusher)
    /\ errors' = errors + 1
    /\ UNCHANGED <<mode, store, nextId, pc, tx, serial, promised, rolledBack, crashes>>

\* The steps that neither end the process nor touch the live store.
Elsewhere ==
    \/ FlusherFail
    \/ \E c \in Clients :
          \/ Begin(c) \/ AppendOp(c) \/ AddEntry(c) \/ CommitCall(c) \/ AbortCall(c) \/ GiveUp(c)
          \/ FlushErr(c) \/ FlushOk(c) \/ CommitOk(c)
    \/ \E d \in Wal!Drainers : Drain(d)

Next == Recover \/ Crash \/ Elsewhere \/ \E c \in Clients : Apply(c)

Spec == Init /\ [][Next]_vars
-----------------------------------------------------------------------------
(* Properties *)

OnDisk   == Readable(SubSeq(file, 1, synced))
Quiet    == queue = <<>> /\ \A d \in Wal!Drainers : batch[d] = <<>>

TypeOK ==
    /\ queue \in Seq(Records)
    /\ batch \in [Wal!Drainers -> Seq(Records)]
    /\ writing \in Wal!Drainers \cup {Nobody}
    /\ file \in Seq(Records \cup {Torn})
    /\ synced \in 0..Len(file)
    /\ mine \in [Clients -> SUBSET Records]
    /\ acked \in [Clients -> SUBSET Records]
    /\ mode \in {"down", "up"}
    /\ store \in [Keys -> Nat \cup {Missing}]
    /\ nextId \in Nat
    /\ pc \in [Clients -> {"idle", "active", "committing", "aborting", "applying"}]
    /\ tx \in [Clients -> [id : Nat, ops : Seq(Records), serial : Nat]]
    /\ serial \in 0..MaxTxs
    /\ promised \subseteq Records
    /\ rolledBack \subseteq 1..serial
    /\ crashes \in 0..MaxCrashes
    /\ errors \in 0..MaxIoErrors

\* commit() => Ok is for good: every operation of the transaction and its
\* Commit record are where every later recovery reads them.
CommittedIsDurable == promised \subseteq ToSet(OnDisk)

\* Nobody reads what a crash can take back: the writer of every value in the
\* store has its Commit record on disk.
VisibleIsDurable ==
    \A k \in Keys : store[k] # Missing =>
        \E i \in DOMAIN OnDisk :
            OnDisk[i].kind = "commit" /\ OnDisk[i].value = store[k]

\* What abort() was called on, or what was dropped, is never seen: not in the
\* store, not after any number of crashes and recoveries.
RolledBackStaysOut == \A k \in Keys : store[k] \notin rolledBack

\* Of some records no two that share an id are of different transactions, nor
\* does an open transaction share its id with those of another.
UniqueAmong(recs) ==
    /\ \A r, s \in recs : r.tx = s.tx => r.value = s.value
    /\ \A r \in recs, c \in Clients : r.tx = tx[c].id => r.value = tx[c].serial

Appended == UNION { mine[c] : c \in Clients }

\* No transaction id is given out again while a record with it is left anywhere
\* in the file (transaction.rs:24: "ensuring uniqueness across all transactions
\* (even after recovery)").  That takes a file without torn records.
IdsAreUnique == UniqueAmong((ToSet(file) \ {Torn}) \cup Appended)

\* What is left of it with torn records: recovery never takes the records of two
\* transactions for one, as among those it can read, and those of this process,
\* ids are unique.  The ids of committed transactions behind a torn record are
\* past its reach, and it does give them out again.
ReadableIdsAreUnique == UniqueAmong(ToSet(Readable(file)) \cup Appended)

\* Recovery would rebuild the store the clients see: when nothing is under
\* way, replaying the file gives the live store.
ReplayMatchesStore ==
    (mode = "up" /\ Quiet /\ \A c \in Clients : pc[c] \in {"idle", "active"})
        => store = Replayed(EmptyStore, Readable(file))

-----------------------------------------------------------------------------
(* What the documentation says and the code does not do *)

\* transaction.rs:109-114: commit() "Flushes the WAL to disk"; "After commit,
\* changes are durable".  After an I/O error in the flusher, an acknowledged
\* record need not even be on its way.
AcknowledgedIsKept ==
    crashes = 0 =>
        promised \subseteq ToSet(file) \cup ToSet(queue)
                            \cup UNION { ToSet(batch[d]) : d \in Wal!Drainers }
=============================================================================
