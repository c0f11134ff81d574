------------------------------ MODULE KvStore ------------------------------
(***************************************************************************)
(* What LmdbStorage (src/src/lmdb_storage.rs) promises: every call that    *)
(* returns Ok has happened at one instant between its start and its        *)
(* return, all of it or, when it returns an error, nothing of it; a crash  *)
(* loses nothing that was committed.                                       *)
(***************************************************************************)
CONSTANTS
    Callers,    \* threads that use the storage
    Keys, Values,
    Missing,    \* the key is not in the storage
    Keep,       \* a transaction leaves the key alone
    NoCall

VARIABLES
    dict,       \* what is stored
    phase,      \* each caller: "idle", "called", "done"
    req,        \* what it has called, NoCall when it is idle
    ret         \* its answer once it is done, "none" before

kvVars == <<dict, phase, req, ret>>

\* Of the writes of a transaction the last one on a key counts.
Changes == [Keys -> Values \cup {Missing, Keep}]
Requests == [op : {"get", "put", "delete", "batch"}, key : Keys, writes : Changes]

Nothing == [k \in Keys |-> Keep]

\* get(), put() and delete() concern one key; batch_write() any number.
Legal(r) ==
    CASE r.op = "get"    -> r.writes = Nothing
      [] r.op = "put"    -> \E v \in Values : r.writes = [Nothing EXCEPT ![r.key] = v]
      [] r.op = "delete" -> r.writes = [Nothing EXCEPT ![r.key] = Missing]
      [] r.op = "batch"  -> TRUE

Written(d, w) == [k \in Keys |-> IF w[k] = Keep THEN d[k] ELSE w[k]]

Found(value) == IF value = Missing THEN "absent" ELSE "deleted"

Answer(d, r) ==
    CASE r.op = "get"    -> d[r.key]
      [] r.op = "delete" -> Found(d[r.key])
      [] OTHER           -> "ok"

KvInit ==
    /\ dict = [k \in Keys |-> Missing]
    /\ phase = [c \in Callers |-> "idle"]
    /\ req = [c \in Callers |-> NoCall]
    /\ ret = [c \in Callers |-> "none"]

Call(c, r) ==
    /\ phase[c] = "idle"
    /\ Legal(r)
    /\ phase' = [phase EXCEPT ![c] = "called"]
    /\ req' = [req EXCEPT ![c] = r]
    /\ UNCHANGED <<dict, ret>>

Perform(c) ==
    /\ phase[c] = "called"
    /\ phase' = [phase EXCEPT ![c] = "done"]
    /\ dict' = Written(dict, req[c].writes)
    /\ ret' = [ret EXCEPT ![c] = Answer(dict, req[c])]
    /\ UNCHANGED req

\* An error; a get() that has read may still return one.
Refuse(c) ==
    /\ phase[c] = "called" \/ (phase[c] = "done" /\ req[c].op = "get")
    /\ phase' = [phase EXCEPT ![c] = "done"]
    /\ ret' = [ret EXCEPT ![c] = "error"]
    /\ UNCHANGED <<dict, req>>

Return(c) ==
    /\ phase[c] = "done"
    /\ phase' = [phase EXCEPT ![c] = "idle"]
    /\ req' = [req EXCEPT ![c] = NoCall]
    /\ ret' = [ret EXCEPT ![c] = "none"]
    /\ UNCHANGED dict

KvCrash ==
    /\ phase' = [c \in Callers |-> "idle"]
    /\ req' = [c \in Callers |-> NoCall]
    /\ ret' = [c \in Callers |-> "none"]
    /\ UNCHANGED dict

KvNext ==
    \/ \E c \in Callers :
          Perform(c) \/ Refuse(c) \/ Return(c) \/ \E r \in Requests : Call(c, r)
    \/ KvCrash

KvSpec == KvInit /\ [][KvNext]_kvVars
=============================================================================
