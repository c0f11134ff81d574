------------------------------- MODULE Replay -------------------------------
(***************************************************************************)
(* What recover_with_validation() of src/src/database.rs computes from the *)
(* records of a WAL file, as operators.                                    *)
(*                                                                         *)
(* A record is [tx, kind, key, value]; Torn stands for bytes that do not   *)
(* form a record (a short header or body, a checksum mismatch).  A store   *)
(* maps every key to its value or to Missing.                              *)
(***************************************************************************)
EXTENDS Integers, Sequences, FiniteSets, SequencesExt

CONSTANTS
    Keys,
    Missing,    \* the key is not in the store
    Torn

OpKinds == {"insert", "update", "delete"}
IsOp(r) == r.kind \in OpKinds

EmptyStore == [k \in Keys |-> Missing]

\* Reading stops at the first bytes that are not a valid record.
Readable(file) ==
    LET bad == { i \in DOMAIN file : file[i] = Torn }
    IN  IF bad = {} THEN file ELSE SubSeq(file, 1, Min(bad) - 1)

TxIds(recs) == { recs[i].tx : i \in DOMAIN recs }

\* Mutant: a transaction without Abort counts as committed.
ActionOf_Optimistic(recs, t) ==
    LET ends == { i \in DOMAIN recs : recs[i].tx = t /\ recs[i].kind = "abort" }
    IN  IF ends = {} THEN "commit" ELSE "abort"

\* tx_actions: the last Commit or Abort of a transaction decides.
ActionOf(recs, t) ==
    LET ends == { i \in DOMAIN recs : recs[i].tx = t /\ ~IsOp(recs[i]) }
    IN  IF ends = {} THEN "incomplete" ELSE recs[Max(ends)].kind

CommittedIds(recs) == { t \in TxIds(recs) : ActionOf(recs, t) = "commit" }

\* Recovery inserts for an Update too, whether or not the key exists.
Upsert(store, r) ==
    [store EXCEPT ![r.key] = IF r.kind = "delete" THEN Missing ELSE r.value]

\* tx_entries of one transaction without the end records, in file order.
ReplayedTx(store, recs, t) ==
    LET after[i \in 0..Len(recs)] ==
            IF i = 0 THEN store
            ELSE IF recs[i].tx = t /\ IsOp(recs[i]) THEN Upsert(after[i - 1], recs[i])
            ELSE after[i - 1]
    IN  after[Len(recs)]

LastId(recs) == Max({0} \cup TxIds(recs))

\* Mutant: the newest transaction is applied first.
Replayed_Descending(store, recs) ==
    LET ids == CommittedIds(recs)
        last == LastId(recs)
        after[n \in 0..last + 1] ==
            IF n = 0 THEN store
            ELSE IF last + 1 - n \in ids THEN ReplayedTx(after[n - 1], recs, last + 1 - n)
            ELSE after[n - 1]
    IN  after[last + 1]

\* The committed transactions in ascending id.
Replayed(store, recs) ==
    LET ids == CommittedIds(recs)
        last == LastId(recs)
        after[n \in 0..last + 1] ==
            IF n = 0 THEN store
            ELSE IF n - 1 \in ids THEN ReplayedTx(after[n - 1], recs, n - 1)
            ELSE after[n - 1]
    IN  after[last + 1]

\* What checkpoint() keeps of the records it reads: `continue' skips a
\* transaction up to the marker.
Newer(recs, from) ==
    LET kept[i \in 0..Len(recs)] ==
            IF i = 0 THEN <<>>
            ELSE IF recs[i].tx > from THEN Append(kept[i - 1], recs[i])
            ELSE kept[i - 1]
    IN  kept[Len(recs)]

\* Mutant: fetch_max(max_tx_id).
CounterAfter_SameId(counter, recs) == Max({counter} \cup TxIds(recs))

\* NEXT_TX_ID.fetch_max(max_tx_id + 1)
CounterAfter(counter, recs) == Max({counter} \cup { t + 1 : t \in TxIds(recs) })
=============================================================================
