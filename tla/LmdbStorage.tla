---------------------------- MODULE LmdbStorage ----------------------------
(***************************************************************************)
(* src/src/lmdb_storage.rs step by step: every call opens a transaction of *)
(* the LMDB environment, works in it and commits or, on any error, drops   *)
(* it.  LMDB itself (the heed library) lets one write transaction in at a  *)
(* time, gives readers a snapshot, and commits durably.                    *)
(***************************************************************************)
CONSTANTS Callers, Keys, Values, Missing, Keep, NoCall,
    Nobody      \* no write transaction is open

ASSUME LmdbAssumption ==
    /\ Missing \notin Values
    /\ Keep \notin Values \cup {Missing}
    /\ Nobody \notin Callers

VARIABLES
    opened,     \* new() has succeeded in this process
    dict,       \* the committed state of the database
    writer,     \* the caller whose write transaction is open
    phase,      \* "idle", "called", "working" (in a transaction), "done"
    req,        \* the call's arguments
    ret,        \* its result
    txn,        \* the database as the caller's transaction sees it
    todo        \* keys the write transaction has yet to change

lmdbVars == <<opened, dict, writer, phase, req, ret, txn, todo>>

Reading(c) == phase[c] = "working" /\ req[c].op = "get"
Writing(c) == phase[c] = "working" /\ req[c].op # "get"

\* A get() has its answer with its snapshot; the others happen at commit.
Kv == INSTANCE KvStore WITH
    phase <- [c \in Callers |->
                IF Reading(c) THEN "done" ELSE IF Writing(c) THEN "called" ELSE phase[c]],
    ret <- [c \in Callers |->
                IF Reading(c) THEN txn[c][req[c].key]
                ELSE IF phase[c] = "done" THEN ret[c] ELSE "none"]

Closed == [k \in Keys |-> Missing]

\* Mutant: a batch also changes the keys it leaves alone.
Touched_All(r) == Keys

Touched(r) == { k \in Keys : r.writes[k] # Keep }

Init ==
    /\ opened = FALSE
    /\ dict = [k \in Keys |-> Missing]
    /\ writer = Nobody
    /\ phase = [c \in Callers |-> "idle"]
    /\ req = [c \in Callers |-> NoCall]
    /\ ret = [c \in Callers |-> "none"]
    /\ txn = [c \in Callers |-> Closed]
    /\ todo = [c \in Callers |-> {}]

\* The call is over, and its transaction with it.
Done(c, answer) ==
    /\ phase' = [phase EXCEPT ![c] = "done"]
    /\ ret' = [ret EXCEPT ![c] = answer]
    /\ txn' = [txn EXCEPT ![c] = Closed]
    /\ todo' = [todo EXCEPT ![c] = {}]
    /\ UNCHANGED <<opened, req>>

\* new(): the environment, and a write transaction that creates the database.
Open ==
    /\ ~opened
    /\ opened' = TRUE
    /\ UNCHANGED <<dict, writer, phase, req, ret, txn, todo>>

Call(c) ==
    /\ opened
    /\ phase[c] = "idle"
    /\ \E r \in Kv!Requests : Kv!Legal(r) /\ req' = [req EXCEPT ![c] = r]
    /\ phase' = [phase EXCEPT ![c] = "called"]
    /\ UNCHANGED <<opened, dict, writer, ret, txn, todo>>

ReadTxn(c) ==
    /\ phase[c] = "called" /\ req[c].op = "get"
    /\ phase' = [phase EXCEPT ![c] = "working"]
    /\ txn' = [txn EXCEPT ![c] = dict]
    /\ UNCHANGED <<opened, dict, writer, req, ret, todo>>

Get(c) ==
    /\ Reading(c)
    /\ Done(c, txn[c][req[c].key])
    /\ UNCHANGED <<dict, writer>>

\* Mutant: a write transaction begins beside an open one.
WriteTxn_NoWait(c) ==
    /\ phase[c] = "called" /\ req[c].op # "get"
    /\ writer' = c
    /\ phase' = [phase EXCEPT ![c] = "working"]
    /\ txn' = [txn EXCEPT ![c] = dict]
    /\ todo' = [todo EXCEPT ![c] = Touched(req[c])]
    /\ ret' = [ret EXCEPT ![c] = "ok"]
    /\ UNCHANGED <<opened, dict, req>>

WriteTxn(c) ==
    /\ phase[c] = "called" /\ req[c].op # "get"
    /\ writer = Nobody
    /\ writer' = c
    /\ phase' = [phase EXCEPT ![c] = "working"]
    /\ txn' = [txn EXCEPT ![c] = dict]
    /\ todo' = [todo EXCEPT ![c] = Touched(req[c])]
    /\ ret' = [ret EXCEPT ![c] = "ok"]
    /\ UNCHANGED <<opened, dict, req>>

\* db.put() or db.delete(), in a batch one after the other in any order.
Change(c) ==
    /\ Writing(c)
    /\ \E k \in todo[c] :
          /\ txn' = [txn EXCEPT ![c][k] = req[c].writes[k]]
          /\ todo' = [todo EXCEPT ![c] = @ \ {k}]
          /\ ret' = IF req[c].op = "delete" THEN [ret EXCEPT ![c] = Kv!Found(txn[c][k])] ELSE ret
    /\ UNCHANGED <<opened, dict, writer, phase, req>>

\* Mutant: it may commit with some of the changes still to come.
Commit_Early(c) ==
    /\ Writing(c)
    /\ dict' = txn[c]
    /\ writer' = Nobody
    /\ Done(c, ret[c])

Commit(c) ==
    /\ Writing(c)
    /\ todo[c] = {}
    /\ dict' = txn[c]
    /\ writer' = Nobody
    /\ Done(c, ret[c])

\* Any step may fail (a full map, an error of the batch's closure): the `?'
\* drops the transaction.
Fails(c) ==
    /\ phase[c] \in {"called", "working"}
    /\ writer' = IF Writing(c) THEN Nobody ELSE writer
    /\ Done(c, "error")
    /\ UNCHANGED dict

Return(c) ==
    /\ phase[c] = "done"
    /\ phase' = [phase EXCEPT ![c] = "idle"]
    /\ req' = [req EXCEPT ![c] = NoCall]
    /\ ret' = [ret EXCEPT ![c] = "none"]
    /\ UNCHANGED <<opened, dict, writer, txn, todo>>

Crash ==
    /\ opened
    /\ opened' = FALSE
    /\ writer' = Nobody
    /\ phase' = [c \in Callers |-> "idle"]
    /\ req' = [c \in Callers |-> NoCall]
    /\ ret' = [c \in Callers |-> "none"]
    /\ txn' = [c \in Callers |-> Closed]
    /\ todo' = [c \in Callers |-> {}]
    /\ UNCHANGED dict

Next ==
    \/ Open \/ Crash
    \/ \E c \in Callers :
          \/ Call(c) \/ ReadTxn(c) \/ Get(c) \/ WriteTxn(c) \/ Change(c) \/ Commit(c)
          \/ Fails(c) \/ Return(c)

Spec == Init /\ [][Next]_lmdbVars
-----------------------------------------------------------------------------
(* Properties *)

Contents == [Keys -> Values \cup {Missing}]

TypeOK ==
    /\ opened \in BOOLEAN
    /\ dict \in Contents
    /\ writer \in Callers \cup {Nobody}
    /\ phase \in [Callers -> {"idle", "called", "working", "done"}]
    /\ req \in [Callers -> Kv!Requests \cup {NoCall}]
    /\ \A c \in Callers : phase[c] # "idle" => req[c] \in Kv!Requests /\ Kv!Legal(req[c])
    /\ ret \in [Callers -> Values \cup {Missing, "none", "ok", "error", "absent", "deleted"}]
    /\ txn \in [Callers -> Contents]
    /\ todo \in [Callers -> SUBSET Keys]

\* put(), delete() and batch_write() hold the only write transaction: what one of
\* them has worked out is still the committed state with its changes so far, and
\* delete()'s answer is about the state it will replace.
Worked(c) ==
    /\ writer = c
    /\ todo[c] \subseteq Touched(req[c])
    /\ txn[c] = [k \in Keys |->
                    IF k \in todo[c] THEN dict[k] ELSE Kv!Written(dict, req[c].writes)[k]]
    /\ (req[c].op = "delete" => todo[c] = {}) => ret[c] = Kv!Answer(dict, req[c])

WorkOK == \A c \in Callers : Writing(c) => Worked(c)

\* A get(), put(), delete() or batch_write() that returns Ok has happened at one
\* instant, whatever other calls and crashes do; one that fails has changed
\* nothing.
ImplementsKvStore == Kv!KvSpec
=============================================================================
