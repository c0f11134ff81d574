----------------------------- MODULE Checkpoint -----------------------------
(***************************************************************************)
(* checkpoint() of src/src/database.rs, called by the scheduler and by the *)
(* program itself, beside running transactions and crashes, with the       *)
(* marker file it keeps (src/src/wal_storage.rs).                          *)
(*                                                                         *)
(* A checkpoint reads the marker, reads the WAL file, waits for the store's *)
(* write lock, replays what it has read into the live store and rewrites   *)
(* the marker, truncating it first, before it lets go of the lock.         *)
(***************************************************************************)
EXTENDS Database

CONSTANTS
    Checkpointers,  \* tasks that call checkpoint(): the scheduler, the program
    Unreadable,     \* a marker file without a number in it
    MaxCheckpoints  \* bound: calls of each in one process

ASSUME CheckpointAssumption == MaxCheckpoints \in Nat

VARIABLES
    marker,     \* what the marker file holds, 0 when there is none
    survivors,  \* the contents a power loss may leave: it is never fsynced
    ckpt,       \* each checkpointer: where it is, the marker and records it read
    calls,
    shown,      \* how many records of the file some reader has found in it
    overtaken,  \* history: checkpointers whose records the store has moved past
    stale       \* history: one of those has replayed them

ckptVars == <<marker, survivors, ckpt, calls, shown, overtaken, stale>>
allVars == <<vars, ckptVars>>

Resting == [at |-> "idle", from |-> 0, seen |-> <<>>]
Locking == {"truncating", "writing"}

\* A task at one of these holds the write lock of the store.
StoreLocked == \E k \in Checkpointers : ckpt[k].at \in Locking

CkptInit ==
    /\ Init
    /\ marker = 0
    /\ survivors = {0}
    /\ ckpt = [k \in Checkpointers |-> Resting]
    /\ calls = [k \in Checkpointers |-> 0]
    /\ shown = 0
    /\ overtaken = {}
    /\ stale = FALSE

Return(k) == ckpt' = [ckpt EXCEPT ![k] = Resting]

\* get_last_checkpoint(): a file without a number is an error.
MarkerParses == marker # Unreadable

\* Mutant: an empty marker is taken as it is.
CheckpointCall_NoParse(k) ==
    /\ mode = "up"
    /\ ckpt[k].at = "idle"
    /\ calls[k] < MaxCheckpoints
    /\ calls' = [calls EXCEPT ![k] = @ + 1]
    /\ ckpt' = [ckpt EXCEPT ![k] = [Resting EXCEPT !.at = "reading", !.from = marker]]
    /\ UNCHANGED <<vars, marker, survivors, shown, overtaken, stale>>

\* checkpoint() begins with a look at the marker, which another checkpoint or a
\* crash may have left empty.
CheckpointCall(k) ==
    /\ mode = "up"
    /\ ckpt[k].at = "idle"
    /\ calls[k] < MaxCheckpoints
    /\ calls' = [calls EXCEPT ![k] = @ + 1]
    /\ IF MarkerParses
       THEN ckpt' = [ckpt EXCEPT ![k] = [Resting EXCEPT !.at = "reading", !.from = marker]]
       ELSE UNCHANGED ckpt
    /\ UNCHANGED <<vars, marker, survivors, shown, overtaken, stale>>

Whole(f) == IF f # <<>> /\ Last(f) = Torn THEN Len(f) - 1 ELSE Len(f)

\* What a reader finds in the file: of a batch that is being written, any part,
\* but never less than a reader before it.
Visible ==
    IF writing = Nobody THEN {file}
    ELSE LET old == SubSeq(file, 1, Len(file) - Len(batch[writing]))
         IN  { f \in { old \o part : part \in Wal!PartOf(batch[writing]) } : Whole(f) >= shown }

\* The loop over the file.  A record cut in its header looks like the end.
Scan(k) ==
    /\ ckpt[k].at = "reading"
    /\ \E f \in Visible :
          LET recs == Newer(Readable(f), ckpt[k].from)
          IN  /\ \A i \in (Len(Readable(f)) + 1)..Len(f) : f[i] = Torn
              /\ IF CommittedIds(recs) = {} THEN Return(k)     \* NoNewCheckpoints
                 ELSE ckpt' = [ckpt EXCEPT ![k].at = "locking", ![k].seen = recs]
              /\ shown' = Whole(f)
    /\ overtaken' = overtaken \ {k}
    /\ UNCHANGED <<vars, marker, survivors, calls, stale>>

\* Any other invalid bytes make it return an error.
ScanFails(k) ==
    /\ ckpt[k].at = "reading"
    /\ \E f \in Visible : Torn \in ToSet(f) /\ shown' = Whole(f)
    /\ Return(k)
    /\ UNCHANGED <<vars, marker, survivors, calls, overtaken, stale>>

\* The write lock, and the replay into the live store.
ReplayScan(k) ==
    /\ ckpt[k].at = "locking"
    /\ ~StoreLocked
    /\ store' = Replayed(store, ckpt[k].seen)
    /\ ckpt' = [ckpt EXCEPT ![k].at = "truncating"]
    /\ overtaken' = overtaken \cup { o \in Checkpointers : ckpt[o].at = "locking" }
    /\ stale' = (stale \/ k \in overtaken)
    /\ UNCHANGED <<walVars, mode, nextId, pc, tx, history, marker, survivors, calls, shown>>

\* set_checkpoint(): open with truncation, then write.
TruncateMarker(k) ==
    /\ ckpt[k].at = "truncating"
    /\ marker' = Unreadable
    /\ survivors' = survivors \cup {marker'}
    /\ ckpt' = [ckpt EXCEPT ![k].at = "writing"]
    /\ UNCHANGED <<vars, calls, shown, overtaken, stale>>

\* Mutant: the highest id in the file, committed or not.
NewMarker_AnyId(recs) == Max(TxIds(recs))

NewMarker(recs) == Max(CommittedIds(recs))

WriteMarker(k) ==
    /\ ckpt[k].at = "writing"
    /\ marker' = NewMarker(ckpt[k].seen)
    /\ survivors' = survivors \cup {marker'}
    /\ Return(k)
    /\ UNCHANGED <<vars, calls, shown, overtaken, stale>>

\* Opening or writing the marker fails: the error is returned, the lock freed.
SetCheckpointFails(k) ==
    /\ ckpt[k].at \in Locking
    /\ Return(k)
    /\ UNCHANGED <<vars, marker, survivors, calls, shown, overtaken, stale>>

\* commit() takes the write lock for each operation it applies.
LockedApply(c) ==
    /\ ~StoreLocked
    /\ Apply(c)
    /\ overtaken' = overtaken \cup { k \in Checkpointers : ckpt[k].at = "locking" }
    /\ UNCHANGED <<marker, survivors, ckpt, calls, shown, stale>>

CrashAll ==
    /\ Crash
    /\ marker' \in survivors
    /\ survivors' = {marker'}
    /\ ckpt' = [k \in Checkpointers |-> Resting]
    /\ shown' = 0
    /\ overtaken' = {}
    /\ stale' = FALSE
    /\ calls' = [k \in Checkpointers |-> 0]

CkptStep(k) ==
    Scan(k) \/ ScanFails(k) \/ ReplayScan(k) \/ TruncateMarker(k) \/ WriteMarker(k)

CkptNext ==
    \/ CrashAll
    \/ (Recover \/ Elsewhere) /\ UNCHANGED ckptVars
    \/ \E c \in Clients : LockedApply(c)
    \/ \E k \in Checkpointers : CheckpointCall(k) \/ CkptStep(k) \/ SetCheckpointFails(k)

CkptSpec == CkptInit /\ [][CkptNext]_allVars
-----------------------------------------------------------------------------
(* Properties *)

CkptTypeOK ==
    /\ TypeOK
    /\ marker \in Nat \cup {Unreadable}
    /\ survivors \subseteq Nat \cup {Unreadable} /\ marker \in survivors
    /\ ckpt \in [Checkpointers ->
          [at : {"idle", "reading", "locking"} \cup Locking, from : Nat, seen : Seq(Records)]]
    /\ calls \in [Checkpointers -> 0..MaxCheckpoints]
    /\ shown \in 0..Len(file)
    /\ overtaken \subseteq Checkpointers
    /\ stale \in BOOLEAN

\* checkpoint() sees records no fsync has confirmed and transactions that may
\* still abort; even so, what anybody can read in the store was written by a
\* transaction with its Commit record in the file.
VisibleIsLogged ==
    \A k \in Keys : store[k] # Missing =>
        \E i \in DOMAIN Readable(file) :
            file[i].kind = "commit" /\ file[i].value = store[k]

\* Until a crash, the marker names a transaction that the file shows as
\* committed: everything a later checkpoint skips up to it was decided or begun
\* before it.
MarkerIsCommitted ==
    crashes = 0 /\ marker \notin {0, Unreadable} => marker \in CommittedIds(Readable(file))

\* Unless the store has moved on since the file was read, a checkpoint changes
\* nothing in it but what a commit under way is about to change.
QuietCheckpoint ==
    [][\A k \in Checkpointers : ReplayScan(k) /\ ~stale /\ k \notin overtaken =>
          \A key \in Keys : store'[key] # store[key] =>
              \E c \in Clients, i \in DOMAIN ckpt[k].seen :
                  /\ pc[c] \in {"committing", "applying"}
                  /\ ckpt[k].seen[i].tx = tx[c].id
                  /\ ckpt[k].seen[i].key = key]_allVars
=============================================================================
