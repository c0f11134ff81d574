--------------------------- MODULE RecoveryProofs ---------------------------
(***************************************************************************)
(* Recovery rebuilds the store the clients see, for clients that write keys *)
(* of their own, while flush() stays within its polling budget and crashes *)
(* tear no record.  The records of the file, of the flusher's batch and of *)
(* the queue form one line that grows at its end; replay takes of each key *)
(* the last committed write in it, and so do the clients, one operation at *)
(* a time, once their commits are on disk.                                 *)
(***************************************************************************)
EXTENDS DatabaseProofs

-----------------------------------------------------------------------------
(* The line of records *)

Unwritten == IF writing = Flusher THEN <<>> ELSE batch[Flusher]

Line == file \o (Unwritten \o queue)

LEMMA LineTypes ==
    ASSUME OutInv, DurInv
    PROVE  /\ file \in Seq(Records) /\ Unwritten \in Seq(Records) /\ queue \in Seq(Records)
           /\ Line \in Seq(Records) /\ Readable(file) = file
           /\ ToSet(Line) \subseteq Kept
<1>1. Typed /\ FlusherOnlyOK /\ CarriedOK
  BY DEF OutInv, IdsInv, DurInv
<1>2. file \in Seq(Records) /\ Readable(file) = file
  <2>1. file \in Seq(Records \cup {Torn}) /\ \A i \in 1..Len(file) : file[i] # Torn
    BY <1>1 DEF Typed, LogTyped, FlusherOnlyOK, ToSet
  <2>2. DOMAIN file = 1..Len(file)
    BY <2>1
  <2>3. Readable(file) = file
    BY <2>1, <2>2 DEF Readable
  <2>4. \A i \in 1..Len(file) : file[i] \in Records
    BY <2>1
  <2>. QED
    BY <2>1, <2>3, <2>4
<1>3. queue \in Seq(Records) /\ batch[Flusher] \in Seq(Records)
  BY <1>1 DEF Typed, LogTyped, Drainers
<1>4. Unwritten \in Seq(Records)
  BY <1>3 DEF Unwritten
<1>5. Line \in Seq(Records)
  BY <1>2, <1>3, <1>4, LineMoves DEF Line
<1>6. ToSet(Line) \subseteq Kept
  <2>1. ToSet(Unwritten \o queue) = ToSet(Unwritten) \cup ToSet(queue)
    BY <1>3, <1>4, ConcatElements
  <2>2. Unwritten \o queue \in Seq(Records)
    BY <1>3, <1>4
  <2>3. ToSet(Line) = ToSet(file) \cup ToSet(Unwritten \o queue)
    <3>. DEFINE rest == Unwritten \o queue
    <3>1. Line = file \o rest
      BY DEF Line
    <3>. HIDE DEF rest
    <3>2. rest \in Seq(Records)
      BY <2>2 DEF rest
    <3>3. ToSet(Line) = ToSet(file) \cup ToSet(rest)
      BY <1>2, <3>1, <3>2, ConcatElements
    <3>. QED
      BY <3>3 DEF rest
  <2>4. ToSet(Unwritten) \subseteq ToSet(batch[Flusher])
    BY NothingElements DEF Unwritten
  <2>. QED
    BY <1>1, <1>2, <2>1, <2>3, <2>4 DEF Kept, CarriedOK, Drainers
<1>. QED
  BY <1>2, <1>3, <1>4, <1>5, <1>6

\* append() puts an entry at the end of the line.
LEMMA LinePushed ==
    ASSUME OutInv, DurInv, NEW c \in Clients, NEW e \in Records, Wal!Push(c, e)
    PROVE  Line' = Append(Line, e)
<1>1. queue' = Append(queue, e) /\ UNCHANGED <<batch, writing, file>>
  BY DEF Wal!Push
<1>2. Unwritten' = Unwritten
  BY <1>1 DEF Unwritten
<1>3. file \o (Unwritten \o Append(queue, e)) = Append(file \o (Unwritten \o queue), e)
  <2>1. file \in Seq(Records) /\ Unwritten \in Seq(Records) /\ queue \in Seq(Records)
    BY LineTypes
  <2>2. ASSUME NEW f \in Seq(Records), NEW b \in Seq(Records), NEW q \in Seq(Records)
        PROVE  f \o (b \o Append(q, e)) = Append(f \o (b \o q), e)
    BY ONLY <2>2, e \in Records
  <2>. QED
    BY <2>1, <2>2, Zenon
<1>. QED
  BY <1>1, <1>2, <1>3 DEF Line

\* The flusher moves entries along it.
LEMMA LineDrained ==
    ASSUME OutInv, DurInv, Wal!Pop(Flusher) \/ Wal!Write(Flusher) \/ Wal!Sync(Flusher)
    PROVE  Line' = Line
<1>0. /\ Flusher \in DOMAIN batch /\ Nobody # Flusher
      /\ file \in Seq(Records) /\ queue \in Seq(Records) /\ Unwritten \in Seq(Records)
  BY LineTypes, DatabaseAssumption DEF DurInv, Typed, LogTyped, Drainers
<1>1. CASE Wal!Pop(Flusher)
  <2>1. /\ queue # <<>> /\ writing # Flusher /\ queue' = Tail(queue) /\ UNCHANGED <<file, writing>>
        /\ batch'[Flusher] = Append(batch[Flusher], Head(queue))
    BY <1>0, <1>1 DEF Wal!Pop
  <2>2. Unwritten = batch[Flusher] /\ Unwritten' = Append(Unwritten, Head(queue))
    BY <2>1 DEF Unwritten
  <2>3. file \o (Append(Unwritten, Head(queue)) \o Tail(queue)) = file \o (Unwritten \o queue)
    <3>1. ASSUME NEW f \in Seq(Records), NEW b \in Seq(Records), NEW q \in Seq(Records), q # <<>>
          PROVE  f \o (Append(b, Head(q)) \o Tail(q)) = f \o (b \o q)
      <4>1. Append(b, Head(q)) \o Tail(q) = b \o q
        BY ONLY <3>1, b \in Seq(Records), q \in Seq(Records)
      <4>. QED
        BY ONLY <4>1
    <3>. QED
      BY <1>0, <2>1, <3>1, Zenon
  <2>. QED
    BY <2>1, <2>2, <2>3 DEF Line
<1>2. CASE Wal!Write(Flusher)
  <2>1. /\ writing # Flusher /\ writing' = Flusher /\ file' = file \o batch[Flusher] /\ queue' = queue
    BY <1>0, <1>2 DEF Wal!Write
  <2>2. Unwritten = batch[Flusher] /\ Unwritten' = <<>>
    BY <2>1 DEF Unwritten
  <2>. QED
    BY <1>0, <2>1, <2>2, LineMoves DEF Line
<1>3. CASE Wal!Sync(Flusher)
  <2>1. /\ writing = Flusher /\ writing' = Nobody /\ batch'[Flusher] = <<>> /\ UNCHANGED <<file, queue>>
    BY <1>0, <1>3 DEF Wal!Sync
  <2>2. Unwritten = <<>> /\ Unwritten' = <<>>
    BY <1>0, <2>1 DEF Unwritten
  <2>. QED
    BY <2>1, <2>2 DEF Line
<1>. QED
  BY <1>1, <1>2, <1>3

\* A crash cuts it.
LEMMA LineCut ==
    ASSUME OutInv, DurInv, Crash, ~TornWrites
    PROVE  \E k \in 0..Len(Line) : Line' = SubSeq(Line, 1, k)
<1>1. PICK k \in synced..Len(file) : file' = SubSeq(file, 1, k)
  BY DEF Crash
<1>2. /\ file \in Seq(Records) /\ Unwritten \o queue \in Seq(Records) /\ k \in 0..Len(file)
  <2>1. synced \in Nat
    BY DEF DurInv, Typed, LogTyped
  <2>. QED
    BY <1>1, <2>1, LineTypes
<1>3. queue' = <<>> /\ Unwritten' = <<>>
  BY DrainersAre, DatabaseAssumption DEF Crash, Unwritten, Drainers
<1>4. Line' = SubSeq(file, 1, k)
  <2>1. SubSeq(file, 1, k) \in Seq(Records)
    BY <1>2, SubSeqProperties
  <2>. QED
    BY <1>1, <1>3, <2>1 DEF Line
<1>5. k \in 0..Len(Line) /\ SubSeq(Line, 1, k) = SubSeq(file, 1, k)
  <2>. DEFINE rest == Unwritten \o queue
  <2>1. Line = file \o rest
    BY DEF Line
  <2>. HIDE DEF rest
  <2>. QED
    BY <1>2, <2>1 DEF rest
<1>. QED
  BY <1>4, <1>5

\* In a process that is down there is only the file.
LEMMA LineDown ==
    ASSUME OutInv, DurInv, ToSet(queue) = {}, ToSet(batch[Flusher]) = {}
    PROVE  Line = file
<1>1. queue \in Seq(Records) /\ Unwritten \in Seq(Records) /\ file \in Seq(Records)
  BY LineTypes
<1>2. ToSet(Unwritten) = {}
  BY NothingElements DEF Unwritten
<1>3. ASSUME NEW s \in Seq(Records), ToSet(s) = {} PROVE s = <<>>
  <2>1. ~(1 \in DOMAIN s)
    BY <1>3 DEF ToSet
  <2>. QED
    BY <2>1
<1>4. queue = <<>> /\ Unwritten = <<>>
  BY <1>1, <1>2, <1>3
<1>. QED
  BY <1>1, <1>4 DEF Line

-----------------------------------------------------------------------------
(* What a step does to the line, to the store and to the clients *)

\* The world of ReplayMatchesStore: every client writes keys of its own, by
\* append_op() only and without Update, no batch fails, flush() stays within its
\* polling budget and crashes tear no record.
Steady ==
    /\ Punctual /\ ~TornWrites /\ ~AddsEntries
    /\ Kinds \subseteq {"insert", "delete"}
    /\ \A c, d \in Clients : c # d => KeysOf[c] \cap KeysOf[d] = {}

Base == OutInv /\ DurInv /\ StoreOK

Cut == Crash /\ \E k \in 0..Len(Line) : Line' = SubSeq(Line, 1, k)

Recovers == Recover /\ Line' = Line /\ Line = file

Begins(c) == Begin(c) /\ Line' = Line

Buffers(c, op) == Buffer(c, op) /\ Line' = Append(Line, op) /\ UNCHANGED <<mode, store, pc>>

Ends(c, kind) ==
    /\ pc[c] = "active"
    /\ pc' = [pc EXCEPT ![c] = IF kind = "commit" THEN "committing" ELSE "aborting"]
    /\ Line' = Append(Line, EndRecord(tx[c], kind))
    /\ UNCHANGED <<mode, store, tx>>

Applies(c) == Apply(c) /\ Line' = Line

\* A client goes on, is done, or has its Commit record on disk.
Settles(c) ==
    \/ pc'[c] = pc[c] /\ tx'[c] = tx[c]
    \/ /\ pc'[c] = "idle"
       /\ pc[c] \in {"active", "aborting"} \/ (pc[c] = "applying" /\ tx[c].ops = <<>>)
    \/ pc[c] = "committing" /\ pc'[c] = "applying" /\ tx'[c] = tx[c]

Calm == UNCHANGED <<mode, store>> /\ Line' = Line /\ \A c \in Clients : Settles(c)

LEMMA LineCases ==
    ASSUME Base, Steady, [Next]_vars
    PROVE  \/ Cut \/ Recovers \/ Calm
           \/ \E c \in Clients : \/ Begins(c) \/ Applies(c)
                                 \/ \E op \in NewOps(c) : Buffers(c, op)
                                 \/ \E kind \in {"commit", "abort"} : Ends(c, kind)
<1>. USE DrainersAre
<1>0. /\ OutInv /\ DurInv /\ Typed /\ CarriedOK
      /\ ~PollsMayExpire /\ ~TornWrites /\ ~AddsEntries /\ ~(errors < MaxIoErrors)
  BY DEF Base, OutInv, IdsInv, DurInv, Steady, Punctual, PollsMayExpire
<1>1. ASSUME UNCHANGED walVars PROVE Line' = Line
  BY <1>1 DEF walVars, Line, Unwritten
<1>2. CASE Recover
  <2>1. All = {}
    BY <1>0, <1>2 DEF CarriedOK, Recover
  <2>2. ToSet(queue) = {} /\ ToSet(batch[Flusher]) = {}
    BY <1>0, <2>1 DEF CarriedOK, Drainers
  <2>. QED
    BY <1>0, <1>1, <1>2, <2>2, LineDown DEF Recovers, Recover
<1>3. CASE Crash
  BY <1>0, <1>3, LineCut DEF Cut
<1>4. CASE UNCHANGED vars
  BY <1>1, <1>4 DEF vars, Calm, Settles
<1>5. CASE FlusherFail
  BY <1>0, <1>5 DEF FlusherFail
<1>6. ASSUME NEW d \in Drainers, Drain(d) PROVE Calm
  <2>1. d = Flusher
    BY <1>0, <1>6 DEF Drain, MayDrain, Drainers
  <2>. QED
    BY <1>0, <1>6, <2>1, LineDrained DEF Drain, Calm, Settles
<1>7. ASSUME NEW c \in Clients, Begin(c) PROVE Begins(c)
  BY <1>1, <1>7 DEF Begin, Begins
<1>8. ASSUME NEW c \in Clients, AppendOp(c) PROVE \E op \in NewOps(c) : Buffers(c, op)
  <2>1. PICK op \in NewOps(c) : Buffer(c, op) /\ Wal!Push(c, op)
    BY <1>8 DEF AppendOp
  <2>2. op \in Records
    BY <1>0, NewRecords
  <2>. QED
    BY <1>0, <1>8, <2>1, <2>2, LinePushed DEF AppendOp, Buffers
<1>9. ASSUME NEW c \in Clients, AddEntry(c) PROVE FALSE
  BY <1>0, <1>9 DEF AddEntry
<1>10. ASSUME NEW c \in Clients, CommitCall(c) PROVE Ends(c, "commit")
  <2>1. EndRecord(tx[c], "commit") \in Records
    BY <1>0, NewRecords
  <2>. QED
    BY <1>0, <1>10, <2>1, LinePushed DEF CommitCall, Ends
<1>11. ASSUME NEW c \in Clients, AbortCall(c) PROVE Ends(c, "abort")
  <2>1. EndRecord(tx[c], "abort") \in Records
    BY <1>0, NewRecords
  <2>. QED
    BY <1>0, <1>11, <2>1, LinePushed DEF AbortCall, Ends
<1>12. ASSUME NEW c \in Clients, FlushErr(c) PROVE FALSE
  BY <1>0, <1>12 DEF FlushErr
<1>13. ASSUME NEW c \in Clients, GiveUp(c) \/ FlushOk(c) \/ CommitOk(c) PROVE Calm
  <2>1. UNCHANGED <<queue, batch, writing, file>>
    BY <1>13 DEF GiveUp, FlushOk, CommitOk, Wal!Ack, Wal!log, walVars
  <2>2. Line' = Line
    BY <2>1 DEF Line, Unwritten
  <2>3. UNCHANGED <<mode, store>>
    BY <1>13 DEF GiveUp, FlushOk, CommitOk
  <2>4. \A o \in Clients \ {c} : pc'[o] = pc[o] /\ tx'[o] = tx[o]
    BY <1>0, <1>13 DEF GiveUp, FlushOk, CommitOk, Typed
  <2>5. Settles(c)
    <3>1. CASE GiveUp(c)
      <4>1. pc'[c] = "idle" /\ pc[c] = "active"
        BY <1>0, <3>1 DEF GiveUp, Typed
      <4>. QED
        BY <4>1 DEF Settles
    <3>2. CASE CommitOk(c)
      <4>1. pc'[c] = "idle" /\ pc[c] = "applying" /\ tx[c].ops = <<>>
        BY <1>0, <3>2 DEF CommitOk, Typed
      <4>. QED
        BY <4>1 DEF Settles
    <3>3. CASE FlushOk(c)
      <4>1. \/ pc[c] = "committing" /\ pc'[c] = "applying" /\ tx'[c] = tx[c]
            \/ pc[c] = "aborting" /\ pc'[c] = "idle"
        BY <1>0, <3>3 DEF FlushOk, Typed
      <4>. QED
        BY <4>1 DEF Settles
    <3>. QED
      BY <1>13, <3>1, <3>2, <3>3
  <2>. QED
    BY <2>2, <2>3, <2>4, <2>5 DEF Calm, Settles
<1>14. ASSUME NEW c \in Clients, Apply(c) PROVE Applies(c)
  BY <1>1, <1>14 DEF Apply, Applies
<1>. QED
  BY <1>2, <1>3, <1>4, <1>5, <1>6, <1>7, <1>8, <1>9, <1>10, <1>11, <1>12, <1>13, <1>14
     DEF Next, Elsewhere

-----------------------------------------------------------------------------
(* The order of the line and the operations of the clients *)

\* Nobody writes a key for a transaction older than one that has written it.
OrderOK == InOrder(Line)

\* In the line only its owner's transactions write a key, in ascending id.
OwnedOK ==
    \A c \in Clients : pc[c] # "idle" => \A i \in 1..Len(Line) : IsOp(Line[i]) =>
        /\ Line[i].tx = tx[c].id => Line[i].key \in KeysOf[c]
        /\ Line[i].key \in KeysOf[c] => Line[i].tx <= tx[c].id

\* So do the operations a transaction holds.
OpsOK ==
    \A c \in Clients : pc[c] # "idle" => \A op \in ToSet(tx[c].ops) :
        IsOp(op) /\ op.kind # "update" /\ op.tx = tx[c].id /\ op.key \in KeysOf[c]

\* The last write of each key an active transaction holds is its last in the line.
BufferedOK ==
    \A c \in Clients : pc[c] = "active" =>
        \A k \in Keys : Match(Line, tx[c].ops, {tx[c].id}, k)

OrderInv == OrderOK /\ OwnedOK /\ OpsOK /\ BufferedOK

LEMMA LineIn ==
    ASSUME Base
    PROVE  /\ Line \in Seq(Records) /\ Len(Line) \in Nat
           /\ \A i \in 1..Len(Line) : Line[i] \in Records /\ Line[i] \in Kept
<1>1. Line \in Seq(Records) /\ ToSet(Line) \subseteq Kept
  BY LineTypes DEF Base
<1>. QED
  BY <1>1 DEF ToSet

\* The line in a transaction's first moment.
LEMMA BeginsNew ==
    ASSUME Base, NEW c \in Clients, Begins(c)
    PROVE  /\ tx'[c] = [id |-> nextId, ops |-> <<>>, serial |-> serial'] /\ pc'[c] = "active"
           /\ nextId \in Nat
           /\ \A i \in 1..Len(Line) : Line[i].tx \in Nat /\ Line[i].tx < nextId
           /\ \A o \in Clients \ {c} : pc'[o] = pc[o] /\ tx'[o] = tx[o]
           /\ UNCHANGED <<mode, store>> /\ Line' = Line /\ pc[c] = "idle" /\ mode = "up"
<1>1. Typed /\ CounterOK
  BY DEF Base, OutInv, IdsInv
<1>2. mode = "up" /\ Kept \subseteq Records /\ \A r \in Records : r.tx \in Nat
  BY <1>1, KeptTypes DEF Begins, Begin
<1>3. \A i \in 1..Len(Line) : Line[i].tx \in Nat /\ Line[i].tx < nextId
  BY <1>1, <1>2, LineIn DEF CounterOK
<1>4. /\ tx'[c] = [id |-> nextId, ops |-> <<>>, serial |-> serial'] /\ pc'[c] = "active"
      /\ \A o \in Clients \ {c} : pc'[o] = pc[o] /\ tx'[o] = tx[o]
      /\ pc[c] = "idle" /\ UNCHANGED <<mode, store>> /\ Line' = Line /\ nextId \in Nat
  BY <1>1 DEF Begins, Begin, Typed
<1>. QED
  BY <1>2, <1>3, <1>4

LEMMA BuffersNew ==
    ASSUME Base, Steady, NEW c \in Clients, NEW op \in NewOps(c), Buffers(c, op)
    PROVE  /\ op \in Records /\ IsOp(op) /\ op.kind # "update" /\ op.tx = tx[c].id /\ op.key \in KeysOf[c]
           /\ pc[c] = "active" /\ UNCHANGED <<mode, store, pc>> /\ Line' = Append(Line, op)
           /\ tx'[c].id = tx[c].id /\ tx'[c].ops = Append(tx[c].ops, op) /\ tx[c].ops \in Seq(Records)
           /\ \A o \in Clients \ {c} : tx'[o] = tx[o]
           /\ \A o \in Clients \ {c} : pc[o] # "idle" => tx[o].id # tx[c].id
<1>1. Typed /\ CounterOK /\ Kinds \subseteq {"insert", "delete"}
  BY DEF Base, OutInv, IdsInv, Steady
<1>2. op \in Records /\ op.tx = tx[c].id
  BY <1>1, NewRecords
<1>3. op.kind \in Kinds /\ op.key \in KeysOf[c]
  BY DEF NewOps
<1>4. IsOp(op) /\ op.kind # "update"
  BY <1>1, <1>3 DEF IsOp, OpKinds
<1>5. /\ pc[c] = "active" /\ UNCHANGED <<mode, store, pc>> /\ Line' = Append(Line, op)
      /\ tx'[c].id = tx[c].id /\ tx'[c].ops = Append(tx[c].ops, op) /\ tx[c].ops \in Seq(Records)
      /\ \A o \in Clients \ {c} : tx'[o] = tx[o]
  BY <1>1 DEF Buffers, Buffer, Typed
<1>6. \A o \in Clients \ {c} : pc[o] # "idle" => tx[o].id # tx[c].id
  BY <1>1, <1>5 DEF CounterOK
<1>. QED
  BY <1>2, <1>3, <1>4, <1>5, <1>6

LEMMA EndsNew ==
    ASSUME Base, NEW c \in Clients, NEW kind \in {"commit", "abort"}, Ends(c, kind)
    PROVE  /\ EndRecord(tx[c], kind) \in Records /\ ~IsOp(EndRecord(tx[c], kind))
           /\ EndRecord(tx[c], kind).tx = tx[c].id
           /\ Line' = Append(Line, EndRecord(tx[c], kind)) /\ UNCHANGED <<mode, store, tx>>
           /\ pc[c] = "active" /\ pc'[c] = IF kind = "commit" THEN "committing" ELSE "aborting"
           /\ \A o \in Clients \ {c} : pc'[o] = pc[o]
<1>1. Typed
  BY DEF Base, OutInv, IdsInv
<1>2. EndRecord(tx[c], kind) \in Records /\ EndRecord(tx[c], kind).tx = tx[c].id
  BY <1>1, NewRecords
<1>3. ~IsOp(EndRecord(tx[c], kind))
  BY DEF IsOp, OpKinds, EndRecord
<1>4. /\ Line' = Append(Line, EndRecord(tx[c], kind)) /\ UNCHANGED <<mode, store, tx>>
      /\ pc[c] = "active" /\ pc'[c] = IF kind = "commit" THEN "committing" ELSE "aborting"
      /\ \A o \in Clients \ {c} : pc'[o] = pc[o]
  BY <1>1 DEF Ends, Typed
<1>. QED
  BY <1>2, <1>3, <1>4

LEMMA AppliesNew ==
    ASSUME Base, Steady, OpsOK, NEW c \in Clients, Applies(c)
    PROVE  /\ pc[c] = "applying" /\ tx[c].ops # <<>> /\ tx[c].ops \in Seq(Records)
           /\ UNCHANGED <<mode, pc>> /\ Line' = Line
           /\ store' = Upsert(store, Head(tx[c].ops))
           /\ tx'[c].id = tx[c].id /\ tx'[c].ops = Tail(tx[c].ops)
           /\ Head(tx[c].ops) \in ToSet(tx[c].ops)
           /\ ToSet(tx'[c].ops) \subseteq ToSet(tx[c].ops)
           /\ \A o \in Clients \ {c} : tx'[o] = tx[o]
<1>1. Typed
  BY DEF Base, OutInv, IdsInv
<1>2. pc[c] = "applying" /\ tx[c].ops # <<>> /\ tx[c].ops \in Seq(Records)
  BY <1>1 DEF Applies, Apply, Typed
<1>3. /\ Head(tx[c].ops) \in ToSet(tx[c].ops) /\ ToSet(Tail(tx[c].ops)) \subseteq ToSet(tx[c].ops)
  BY <1>2, TailElements
<1>4. Head(tx[c].ops).kind # "update"
  BY <1>2, <1>3 DEF OpsOK
<1>5. /\ store' = Upsert(store, Head(tx[c].ops)) /\ UNCHANGED <<mode, pc>> /\ Line' = Line
      /\ tx' = [tx EXCEPT ![c].ops = Tail(@)]
  BY <1>4 DEF Applies, Apply
<1>6. /\ tx'[c].id = tx[c].id /\ tx'[c].ops = Tail(tx[c].ops)
      /\ \A o \in Clients \ {c} : tx'[o] = tx[o]
  BY <1>1, <1>5 DEF Typed
<1>. QED
  BY <1>2, <1>3, <1>5, <1>6

\* A crash and a recovery leave no transaction under way.
LEMMA NoneUnderWay ==
    ASSUME Base, Cut \/ Recovers
    PROVE  \A c \in Clients : pc'[c] = "idle"
BY DEF Base, OutInv, IdsInv, CarriedOK, Cut, Crash, Recovers, Recover

LEMMA OrderStep ==
    ASSUME Base, Steady, OrderOK, OwnedOK, [Next]_vars
    PROVE  OrderOK'
<1>1. CASE UNCHANGED Line
  BY <1>1 DEF OrderOK
<1>2. CASE Cut
  <2>1. PICK k \in 0..Len(Line) : Line' = SubSeq(Line, 1, k)
    BY <1>2 DEF Cut
  <2>2. InOrder(SubSeq(Line, 1, k))
    BY LineIn, InOrderPrefix DEF OrderOK
  <2>. QED
    BY <2>1, <2>2 DEF OrderOK
<1>3. ASSUME NEW c \in Clients, NEW op \in NewOps(c), Buffers(c, op) PROVE OrderOK'
  <2>1. /\ op \in Records /\ op.tx = tx[c].id /\ op.key \in KeysOf[c] /\ pc[c] = "active"
        /\ Line' = Append(Line, op)
    BY <1>3, BuffersNew
  <2>2. \A i \in 1..Len(Line) : IsOp(Line[i]) /\ Line[i].key = op.key => Line[i].tx <= op.tx
    BY <2>1 DEF OwnedOK
  <2>3. InOrder(Append(Line, op))
    BY <2>1, <2>2, LineIn, InOrderAppend DEF OrderOK
  <2>. QED
    BY <2>1, <2>3 DEF OrderOK
<1>4. ASSUME NEW c \in Clients, NEW kind \in {"commit", "abort"}, Ends(c, kind) PROVE OrderOK'
  <2> DEFINE e == EndRecord(tx[c], kind)
  <2>1. e \in Records /\ ~IsOp(e) /\ Line' = Append(Line, e)
    BY <1>4, EndsNew
  <2>. HIDE DEF e
  <2>2. InOrder(Append(Line, e))
    BY <2>1, LineIn, InOrderAppend DEF OrderOK
  <2>. QED
    BY <2>1, <2>2 DEF OrderOK
<1>. QED
  BY <1>1, <1>2, <1>3, <1>4, LineCases DEF Recovers, Calm, Begins, Applies

\* Steps that add no operation to the line, and begin no transaction.
LEMMA OwnedStill ==
    ASSUME Base, OwnedOK,
           Line' = Line \/ \E e \in Records : ~IsOp(e) /\ Line' = Append(Line, e),
           \A c \in Clients : pc'[c] # "idle" => pc[c] # "idle" /\ tx'[c].id = tx[c].id
    PROVE  OwnedOK'
<1>1. ASSUME NEW c \in Clients, pc'[c] # "idle", NEW i \in 1..Len(Line'), IsOp(Line'[i])
      PROVE  i \in 1..Len(Line) /\ Line'[i] = Line[i]
  <2>1. ASSUME NEW e \in Records, ~IsOp(e), Line' = Append(Line, e)
        PROVE  i \in 1..Len(Line) /\ Line'[i] = Line[i]
    <3>1. /\ Len(Line') = Len(Line) + 1 /\ Line'[Len(Line) + 1] = e /\ Len(Line) \in Nat
          /\ \A j \in 1..Len(Line) : Line'[j] = Line[j]
      BY <2>1, LineIn, AppendProperties
    <3>. QED
      BY <1>1, <2>1, <3>1
  <2>. QED
    BY <1>1, <2>1
<1>. QED
  BY <1>1 DEF OwnedOK

LEMMA OwnedStep ==
    ASSUME Base, Steady, OwnedOK, OpsOK, [Next]_vars
    PROVE  OwnedOK'
<1>1. CASE Cut \/ Recovers
  BY <1>1, NoneUnderWay DEF OwnedOK
<1>2. CASE Calm
  BY <1>2, OwnedStill DEF Calm, Settles
<1>3. ASSUME NEW c \in Clients, Begins(c) PROVE OwnedOK'
  <2>1. /\ tx'[c].id = nextId /\ nextId \in Nat /\ Line' = Line
        /\ \A i \in 1..Len(Line) : Line[i].tx \in Nat /\ Line[i].tx < nextId
        /\ \A o \in Clients \ {c} : pc'[o] = pc[o] /\ tx'[o] = tx[o]
    BY <1>3, BeginsNew
  <2>2. \A i \in 1..Len(Line) : Line[i].tx # nextId /\ Line[i].tx <= nextId
    BY <2>1
  <2>. QED
    BY <2>1, <2>2 DEF OwnedOK
<1>4. ASSUME NEW c \in Clients, Applies(c) PROVE OwnedOK'
  BY <1>4, AppliesNew, OwnedStill
<1>5. ASSUME NEW c \in Clients, NEW kind \in {"commit", "abort"}, Ends(c, kind) PROVE OwnedOK'
  <2>1. \A o \in Clients : pc'[o] # "idle" => pc[o] # "idle"
    BY <1>5, EndsNew
  <2>. QED
    BY <1>5, <2>1, EndsNew, OwnedStill
<1>6. ASSUME NEW c \in Clients, NEW op \in NewOps(c), Buffers(c, op) PROVE OwnedOK'
  <2>1. /\ op \in Records /\ op.tx = tx[c].id /\ op.key \in KeysOf[c] /\ Line' = Append(Line, op)
        /\ \A o \in Clients : pc'[o] = pc[o] /\ tx'[o].id = tx[o].id
        /\ \A o \in Clients \ {c} : pc[o] # "idle" => tx[o].id # op.tx
    BY <1>6, BuffersNew
  <2>2. /\ Len(Line') = Len(Line) + 1 /\ Line'[Len(Line) + 1] = op /\ Len(Line) \in Nat
        /\ \A j \in 1..Len(Line) : Line'[j] = Line[j]
    BY <2>1, LineIn, AppendProperties
  <2>3. ASSUME NEW o \in Clients, pc[o] # "idle"
        PROVE  /\ op.tx = tx[o].id => op.key \in KeysOf[o]
               /\ op.key \in KeysOf[o] => op.tx <= tx[o].id
    <3>1. op.tx \in Nat
      BY <2>1 DEF Records
    <3>. QED
      BY <2>1, <2>3, <3>1 DEF Steady
  <2>4. ASSUME NEW o \in Clients, pc'[o] # "idle", NEW i \in 1..Len(Line'), IsOp(Line'[i])
        PROVE  /\ Line'[i].tx = tx'[o].id => Line'[i].key \in KeysOf[o]
               /\ Line'[i].key \in KeysOf[o] => Line'[i].tx <= tx'[o].id
    <3>0. pc[o] # "idle" /\ tx'[o].id = tx[o].id
      BY <2>1, <2>4
    <3>1. CASE i = Len(Line) + 1
      BY <2>2, <2>3, <3>0, <3>1
    <3>2. CASE i # Len(Line) + 1
      <4>1. i \in 1..Len(Line)
        BY <2>2, <3>2
      <4>2. Line'[i] = Line[i]
        BY <2>2, <4>1
      <4>. QED
        BY <2>4, <3>0, <4>1, <4>2 DEF OwnedOK
    <3>. QED
      BY <3>1, <3>2
  <2>. QED
    BY <2>4 DEF OwnedOK
<1>. QED
  BY <1>1, <1>2, <1>3, <1>4, <1>5, <1>6, LineCases

LEMMA OpsStep ==
    ASSUME Base, Steady, OpsOK, [Next]_vars
    PROVE  OpsOK'
<1>1. CASE Cut \/ Recovers
  BY <1>1, NoneUnderWay DEF OpsOK
<1>2. CASE Calm
  BY <1>2 DEF Calm, Settles, OpsOK
<1>3. ASSUME NEW c \in Clients, Begins(c) PROVE OpsOK'
  <2>1. ToSet(tx'[c].ops) = {}
    BY <1>3, BeginsNew, NothingElements
  <2>2. \A o \in Clients \ {c} : pc'[o] = pc[o] /\ tx'[o] = tx[o]
    BY <1>3, BeginsNew
  <2>. QED
    BY <2>1, <2>2 DEF OpsOK
<1>4. ASSUME NEW c \in Clients, Applies(c) PROVE OpsOK'
  BY <1>4, AppliesNew DEF OpsOK
<1>5. ASSUME NEW c \in Clients, NEW kind \in {"commit", "abort"}, Ends(c, kind) PROVE OpsOK'
  BY <1>5, EndsNew DEF OpsOK
<1>6. ASSUME NEW c \in Clients, NEW op \in NewOps(c), Buffers(c, op) PROVE OpsOK'
  <2>1. /\ op \in Records /\ IsOp(op) /\ op.kind # "update" /\ op.tx = tx[c].id /\ op.key \in KeysOf[c]
        /\ pc' = pc /\ pc[c] = "active"
        /\ tx'[c].id = tx[c].id /\ tx'[c].ops = Append(tx[c].ops, op) /\ tx[c].ops \in Seq(Records)
        /\ \A o \in Clients \ {c} : tx'[o] = tx[o]
    BY <1>6, BuffersNew
  <2>2. ToSet(tx'[c].ops) = ToSet(tx[c].ops) \cup {op}
    BY <2>1, AppendElements
  <2>3. ASSUME NEW o \in Clients, pc[o] # "idle", NEW x \in ToSet(tx'[o].ops)
        PROVE  IsOp(x) /\ x.kind # "update" /\ x.tx = tx'[o].id /\ x.key \in KeysOf[o]
    <3>1. CASE o = c
      <4>1. CASE x = op
        BY <2>1, <3>1, <4>1
      <4>2. CASE x \in ToSet(tx[c].ops)
        BY <2>1, <3>1, <4>2 DEF OpsOK
      <4>. QED
        BY <2>2, <2>3, <3>1, <4>1, <4>2
    <3>2. CASE o # c
      BY <2>1, <2>3, <3>2 DEF OpsOK
    <3>. QED
      BY <3>1, <3>2
  <2>. QED
    BY <2>1, <2>3 DEF OpsOK
<1>. QED
  BY <1>1, <1>2, <1>3, <1>4, <1>5, <1>6, LineCases

LEMMA BufferedStep ==
    ASSUME Base, Steady, OpsOK, BufferedOK, [Next]_vars
    PROVE  BufferedOK'
<1>0. Typed /\ Line \in Seq(Records)
  BY LineIn DEF Base, OutInv, IdsInv
<1>1. CASE Cut \/ Recovers
  BY <1>1, NoneUnderWay DEF BufferedOK
<1>2. CASE Calm
  BY <1>2 DEF Calm, Settles, BufferedOK
<1>3. ASSUME NEW c \in Clients, Begins(c) PROVE BufferedOK'
  <2>1. /\ tx'[c].id = nextId /\ tx'[c].ops = <<>> /\ nextId \in Nat /\ Line' = Line
        /\ \A i \in 1..Len(Line) : Line[i].tx \in Nat /\ Line[i].tx < nextId
        /\ \A o \in Clients \ {c} : pc'[o] = pc[o] /\ tx'[o] = tx[o]
    BY <1>3, BeginsNew
  <2>2. ASSUME NEW k \in Keys PROVE Match(Line, <<>>, {nextId}, k)
    <3>1. \A i \in 1..Len(Line) : Line[i].tx # nextId
      BY <2>1
    <3>2. Writes(Line, {nextId}, k) = {}
      BY <3>1 DEF Writes, WritesTo
    <3>3. Writes(<<>>, {nextId}, k) = {}
      BY DEF Writes, WritesTo
    <3>. QED
      BY <3>2, <3>3 DEF Match
  <2>. QED
    BY <2>1, <2>2 DEF BufferedOK
<1>4. ASSUME NEW c \in Clients, Applies(c) PROVE BufferedOK'
  BY <1>4, AppliesNew DEF BufferedOK
<1>5. ASSUME NEW c \in Clients, NEW kind \in {"commit", "abort"}, Ends(c, kind) PROVE BufferedOK'
  <2> DEFINE e == EndRecord(tx[c], kind)
  <2>1. /\ e \in Records /\ ~IsOp(e) /\ Line' = Append(Line, e) /\ tx' = tx
        /\ pc'[c] # "active" /\ \A o \in Clients \ {c} : pc'[o] = pc[o]
    BY <1>5, EndsNew
  <2>. HIDE DEF e
  <2>2. ASSUME NEW o \in Clients, pc'[o] = "active", NEW k \in Keys
        PROVE  Match(Line', tx'[o].ops, {tx'[o].id}, k)
    <3>1. pc[o] = "active" /\ tx[o].ops \in Seq(Records)
      BY <1>0, <2>1, <2>2 DEF Typed
    <3>2. Match(Line, tx[o].ops, {tx[o].id}, k)
      BY <3>1 DEF BufferedOK
    <3>3. Match(Append(Line, e), tx[o].ops, {tx[o].id}, k)
      BY <1>0, <2>1, <3>1, <3>2, MatchAppend
    <3>. QED
      BY <2>1, <3>3
  <2>. QED
    BY <2>2 DEF BufferedOK
<1>6. ASSUME NEW c \in Clients, NEW op \in NewOps(c), Buffers(c, op) PROVE BufferedOK'
  <2>1. /\ op \in Records /\ IsOp(op) /\ op.tx = tx[c].id /\ pc' = pc /\ Line' = Append(Line, op)
        /\ tx'[c].id = tx[c].id /\ tx'[c].ops = Append(tx[c].ops, op)
        /\ \A o \in Clients \ {c} : tx'[o] = tx[o]
        /\ \A o \in Clients \ {c} : pc[o] # "idle" => tx[o].id # op.tx
    BY <1>6, BuffersNew
  <2>2. ASSUME NEW o \in Clients, pc'[o] = "active", NEW k \in Keys
        PROVE  Match(Line', tx'[o].ops, {tx'[o].id}, k)
    <3>1. pc[o] = "active" /\ tx[o].ops \in Seq(Records)
      BY <1>0, <2>1, <2>2 DEF Typed
    <3>2. Match(Line, tx[o].ops, {tx[o].id}, k)
      BY <3>1 DEF BufferedOK
    <3>3. CASE o = c
      <4>1. Match(Append(Line, op), Append(tx[o].ops, op), {tx[o].id}, k)
        BY <1>0, <2>1, <3>1, <3>2, <3>3, MatchAppend
      <4>. QED
        BY <2>1, <3>3, <4>1
    <3>4. CASE o # c
      <4>1. op.tx # tx[o].id
        BY <2>1, <3>1, <3>4
      <4>2. Match(Append(Line, op), tx[o].ops, {tx[o].id}, k)
        BY <1>0, <2>1, <3>1, <3>2, <4>1, MatchAppend
      <4>. QED
        BY <2>1, <3>4, <4>2
    <3>. QED
      BY <3>3, <3>4
  <2>. QED
    BY <2>2 DEF BufferedOK
<1>. QED
  BY <1>1, <1>2, <1>3, <1>4, <1>5, <1>6, LineCases

-----------------------------------------------------------------------------
(* What replay makes of the line, and the clients of it *)

\* The transactions with a Commit record.
Commits(recs) == { recs[i].tx : i \in { j \in 1..Len(recs) : recs[j].kind = "commit" } }

\* The operations a client will have applied once its commit() returns.
Pending(c) == IF pc[c] \in {"committing", "applying"} THEN tx[c].ops ELSE <<>>

\* Replay of the line leaves v of a key, and so do the operations its owner has
\* still to apply; what nobody writes is there as it is.
Rebuilt(k, v) ==
    /\ Leaves(Line, Commits(Line), k, Missing, v)
    /\ \A c \in Clients : k \in KeysOf[c] => Leaves(Pending(c), {tx[c].id}, k, store[k], v)
    /\ (\A c \in Clients : k \notin KeysOf[c]) => v = store[k]

RebuiltOK == mode = "up" => \A k \in Keys : \E v : Rebuilt(k, v)

\* One Commit record is all it takes: a transaction with one has no Abort record.
LEMMA CommitsAre ==
    ASSUME OutInv, NEW recs \in Seq(Records), ToSet(recs) \subseteq Kept
    PROVE  CommittedIds(recs) = Commits(recs)
<1>1. Typed /\ OwnerOK /\ OutcomeOK /\ Kept \subseteq Logged /\ \A r \in Records : r.tx \in Nat
  BY LoggedFacts, KeptTypes DEF OutInv, IdsInv
<1>2. \A i \in 1..Len(recs) : recs[i] \in ToSet(recs)
  BY DEF ToSet
<1>3. ASSUME NEW t \in CommittedIds(recs) PROVE t \in Commits(recs)
  <2>1. PICK e \in ToSet(recs) : e.tx = t /\ e.kind = "commit"
    BY <1>1, CommittedHas
  <2>2. PICK i \in 1..Len(recs) : recs[i] = e
    BY DEF ToSet
  <2>. QED
    BY <2>1, <2>2 DEF Commits
<1>4. ASSUME NEW t \in Commits(recs) PROVE t \in CommittedIds(recs)
  <2>1. PICK i \in 1..Len(recs) : recs[i].kind = "commit" /\ recs[i].tx = t
    BY DEF Commits
  <2>2. recs[i] \in ToSet(recs) /\ recs[i].value \notin rolledBack
    BY <1>1, <1>2, <2>1 DEF OutcomeOK
  <2>3. ASSUME NEW r \in ToSet(recs), r.tx = t, ~IsOp(r) PROVE r.kind = "commit"
    <3>1. r.kind \in {"commit", "abort"}
      BY <1>1, <2>3, KeptTypes DEF Records, TxKinds, IsOp
    <3>2. r.value = recs[i].value
      BY <1>1, <2>1, <2>2, <2>3 DEF OwnerOK
    <3>3. r.kind # "abort"
      BY <1>1, <2>2, <3>2 DEF OutcomeOK
    <3>. QED
      BY <3>1, <3>3
  <2>. QED
    BY <2>1, <2>2, <2>3, CommittedIf
<1>. QED
  BY <1>3, <1>4

\* A transaction without its Commit record is not among them.
LEMMA ActiveUncommitted ==
    ASSUME Base, NEW c \in Clients, pc[c] = "active"
    PROVE  tx[c].id \notin Commits(Line)
<1>1. Typed /\ OwnerOK /\ OutcomeOK /\ Kept \subseteq Logged
  BY LoggedFacts DEF Base, OutInv, IdsInv
<1>. QED
  BY <1>1, LineIn DEF OwnerOK, OutcomeOK, Commits

LEMMA CommitsAppend ==
    ASSUME NEW s \in Seq(Records), NEW e \in Records
    PROVE  Commits(Append(s, e)) =
              IF e.kind = "commit" THEN Commits(s) \cup {e.tx} ELSE Commits(s)
<1> DEFINE q == Append(s, e)
           n == Len(s)
<1>1. n \in Nat /\ Len(q) = n + 1 /\ q[n + 1] = e /\ \A i \in 1..n : q[i] = s[i]
  BY AppendProperties
<1>. HIDE DEF q, n
<1>2. \A i : i \in 1..(n + 1) <=> i \in 1..n \/ i = n + 1
  BY <1>1
<1>3. { q[i].tx : i \in { j \in 1..(n + 1) : q[j].kind = "commit" } } =
         IF e.kind = "commit" THEN { s[i].tx : i \in { j \in 1..n : s[j].kind = "commit" } } \cup {e.tx}
         ELSE { s[i].tx : i \in { j \in 1..n : s[j].kind = "commit" } }
  BY <1>1, <1>2
<1>. QED
  BY <1>1, <1>3 DEF Commits, q, n

LEMMA NothingLeaves ==
    ASSUME NEW ids, NEW k, NEW old, NEW v
    PROVE  Leaves(<<>>, ids, k, old, v) <=> v = old
<1>1. Writes(<<>>, ids, k) = {}
  BY DEF Writes, WritesTo
<1>. QED
  BY <1>1 DEF Leaves, LastWrite, Writes

\* The Commit record makes the last writes of its transaction replay's, and the
\* client's to apply.
LEMMA CommitTakes ==
    ASSUME Base, OrderOK, OwnedOK, BufferedOK, NEW c \in Clients, pc[c] = "active",
           NEW k \in Keys, NEW v, Leaves(Line, Commits(Line), k, Missing, v)
    PROVE  \E w : /\ Leaves(Line, Commits(Line) \cup {tx[c].id}, k, Missing, w)
                  /\ Leaves(tx[c].ops, {tx[c].id}, k, v, w)
                  /\ k \notin KeysOf[c] => w = v
<1> DEFINE t == tx[c].id
           A == Writes(Line, {t}, k)
           B == Writes(tx[c].ops, {t}, k)
<1>1. /\ Len(Line) \in Nat /\ InOrder(Line) /\ t \in Nat /\ t \notin Commits(Line)
      /\ \A i \in 1..Len(Line) : Line[i].tx \in Nat
  BY LineIn, ActiveUncommitted DEF Base, OutInv, IdsInv, Typed, OrderOK, Records
<1>2. Match(Line, tx[c].ops, {t}, k)
  BY DEF BufferedOK
<1>3. ASSUME NEW j \in A
      PROVE  k \in KeysOf[c] /\ \A i \in Writes(Line, Commits(Line), k) : Line[i].tx < t
  <2>1. j \in 1..Len(Line) /\ IsOp(Line[j]) /\ Line[j].tx = t /\ Line[j].key = k
    BY DEF Writes, WritesTo
  <2>2. k \in KeysOf[c]
    BY <2>1 DEF OwnedOK
  <2>3. ASSUME NEW i \in Writes(Line, Commits(Line), k) PROVE Line[i].tx < t
    <3>1. i \in 1..Len(Line) /\ IsOp(Line[i]) /\ Line[i].tx \in Commits(Line) /\ Line[i].key = k
      BY DEF Writes, WritesTo
    <3>2. Line[i].tx <= t
      BY <2>2, <3>1 DEF OwnedOK
    <3>. QED
      BY <1>1, <3>1, <3>2
  <2>. QED
    BY <2>2, <2>3
<1>4. PICK w : Leaves(Line, {t}, k, v, w) /\ Leaves(tx[c].ops, {t}, k, v, w) /\ (A = {} => w = v)
  <2>1. CASE A = {} /\ B = {}
    BY <2>1 DEF Leaves, LastWrite, Writes
  <2>2. ASSUME NEW r, LastIn(Line, A, r), LastIn(tx[c].ops, B, r)
        PROVE  /\ Leaves(Line, {t}, k, v, ValueOf(r)) /\ Leaves(tx[c].ops, {t}, k, v, ValueOf(r))
               /\ A # {}
    BY <2>2 DEF LastIn, Leaves, LastWrite, Writes
  <2>. QED
    BY <1>2, <2>1, <2>2, MatchIs
<1>5. Leaves(Line, Commits(Line) \cup {t}, k, Missing, w)
  <2>1. \A i \in Writes(Line, Commits(Line), k), j \in A : Line[i].tx < t
    BY <1>3
  <2>. QED
    BY <1>1, <1>4, <2>1, LastWriteThen DEF Leaves, Writes
<1>6. k \notin KeysOf[c] => w = v
  BY <1>3, <1>4
<1>. QED
  BY <1>4, <1>5, <1>6

\* Steps that neither write the line nor the store, and settle no operation.
LEMMA RebuiltStill ==
    ASSUME RebuiltOK, UNCHANGED <<mode, store>>, Line' = Line,
           \A c \in Clients : \/ Pending(c)' = Pending(c) /\ tx'[c].id = tx[c].id
                              \/ Pending(c)' = <<>> /\ Pending(c) = <<>>
    PROVE  RebuiltOK'
<1>1. SUFFICES ASSUME mode = "up", NEW k \in Keys, NEW v, Rebuilt(k, v)
               PROVE  Rebuilt(k, v)'
  BY DEF RebuiltOK
<1>2. ASSUME NEW c \in Clients, k \in KeysOf[c]
      PROVE  Leaves(Pending(c), {tx[c].id}, k, store[k], v)'
  <2>1. Leaves(Pending(c), {tx[c].id}, k, store[k], v)
    BY <1>1, <1>2 DEF Rebuilt
  <2>2. CASE Pending(c)' = Pending(c) /\ tx'[c].id = tx[c].id
    BY <2>1, <2>2
  <2>3. CASE Pending(c)' = <<>> /\ Pending(c) = <<>>
    <3>0. Leaves(<<>>, {tx[c].id}, k, store[k], v)
      BY <2>1, <2>3
    <3>1. v = store[k]
      <4>1. \A ids, old : Leaves(<<>>, ids, k, old, v) => v = old
        BY NothingLeaves
      <4>. QED
        BY <3>0, <4>1, Zenon
    <3>2. Leaves(<<>>, {tx'[c].id}, k, store[k], v)
      BY <3>1, NothingLeaves, Zenon
    <3>. QED
      BY <2>3, <3>2
  <2>. QED
    BY <2>2, <2>3
<1>. QED
  BY <1>1, <1>2 DEF Rebuilt

LEMMA RebuiltRecovers ==
    ASSUME Base, OrderOK, Recovers
    PROVE  RebuiltOK'
<1>1. /\ file \in Seq(Records) /\ ToSet(file) \subseteq Kept /\ Readable(file) = file
      /\ Line = file /\ Line' = Line
  BY LineTypes DEF Base, Recovers
<1>2. \A c \in Clients : pc'[c] = "idle"
  BY NoneUnderWay
<1>3. store' = Replayed(EmptyStore, file) /\ CommittedIds(file) = Commits(file)
  <2>1. store' = Replayed(EmptyStore, Readable(file))
    BY DEF Recovers, Recover
  <2>. QED
    BY <1>1, <2>1, CommitsAre DEF Base
<1>4. ASSUME NEW k \in Keys PROVE Leaves(file, Commits(file), k, Missing, store'[k])
  <2> DEFINE V == Nat \cup {Missing}
  <2>1. InOrder(file)
    BY <1>1 DEF OrderOK
  <2>2. EmptyStore \in [Keys -> V] /\ EmptyStore[k] = Missing
    BY DEF EmptyStore
  <2>3. \A r \in Records : r.tx \in Nat /\ ValueOf(r) \in V
    BY DEF Records, ValueOf
  <2>. HIDE DEF V
  <2>4. LastWrite(file, Len(file), CommittedIds(file), k, EmptyStore[k], Replayed(EmptyStore, file)[k])
    BY <1>1, <2>1, <2>2, <2>3, ReplayedIs
  <2>. QED
    BY <1>3, <2>2, <2>4 DEF Leaves
<1>5. ASSUME NEW k \in Keys, NEW v, v = store'[k] PROVE Rebuilt(k, v)'
  <2>1. Leaves(Line', Commits(Line'), k, Missing, v)
    BY <1>1, <1>4, <1>5
  <2>2. \A c \in Clients : Pending(c)' = <<>>
    BY <1>2 DEF Pending
  <2>3. \A c \in Clients : Leaves(<<>>, {tx'[c].id}, k, v, v)
    BY LeavesNothing
  <2>4. \A c \in Clients : Leaves(Pending(c)', {tx'[c].id}, k, store'[k], v)
    BY <1>5, <2>2, <2>3
  <2>. QED
    BY <1>5, <2>1, <2>4 DEF Rebuilt
<1>. QED
  BY <1>5 DEF RebuiltOK

LEMMA RebuiltApplies ==
    ASSUME Base, Steady, OpsOK, RebuiltOK, NEW c \in Clients, Applies(c)
    PROVE  RebuiltOK'
<1> DEFINE h == Head(tx[c].ops)
<1>1. /\ pc[c] = "applying" /\ tx[c].ops # <<>> /\ tx[c].ops \in Seq(Records)
      /\ UNCHANGED <<mode, pc>> /\ Line' = Line /\ store' = Upsert(store, h)
      /\ tx'[c].id = tx[c].id /\ tx'[c].ops = Tail(tx[c].ops)
      /\ h \in ToSet(tx[c].ops) /\ \A o \in Clients \ {c} : tx'[o] = tx[o]
  BY AppliesNew
<1>2. IsOp(h) /\ h.tx = tx[c].id /\ h.key \in KeysOf[c] /\ h \in Records
  <2>1. \A i \in 1..Len(tx[c].ops) : tx[c].ops[i] \in Records
    BY <1>1
  <2>2. h \in Records
    BY <1>1, <2>1 DEF ToSet
  <2>. QED
    BY <1>1, <2>2 DEF OpsOK
<1>3. \A k \in Keys : store'[k] = IF h.key = k THEN ValueOf(h) ELSE store[k]
  <2> DEFINE V == Nat \cup {Missing}
  <2>1. store \in [Keys -> V] /\ ValueOf(h) \in V
    BY <1>2 DEF Base, StoreOK, Stores, Settled, OutInv, IdsInv, Typed, ValueOf, Records
  <2>. HIDE DEF V, h
  <2>2. \A k \in Keys : Upsert(store, h)[k] = IF k = h.key THEN ValueOf(h) ELSE store[k]
    BY <2>1, UpsertIs
  <2>. QED
    BY <1>1, <2>2
<1>. HIDE DEF h
<1>4. ASSUME mode = "up", NEW k \in Keys, NEW v, Rebuilt(k, v) PROVE Rebuilt(k, v)'
  <2>1. ASSUME NEW o \in Clients, k \in KeysOf[o]
        PROVE  Leaves(Pending(o)', {tx'[o].id}, k, store'[k], v)
    <3>1. Leaves(Pending(o), {tx[o].id}, k, store[k], v)
      BY <1>4, <2>1 DEF Rebuilt
    <3>2. CASE o = c
      <4>1. Leaves(tx[c].ops, {tx[c].id}, k, store[k], v) /\ Pending(o)' = Tail(tx[c].ops)
        BY <1>1, <3>1, <3>2 DEF Pending
      <4>2. Leaves(Tail(tx[c].ops), {tx[c].id}, k, IF h.key = k THEN ValueOf(h) ELSE store[k], v)
        BY <1>1, <1>2, <4>1, LeavesTail DEF h
      <4>. QED
        BY <1>1, <1>3, <3>2, <4>1, <4>2
    <3>3. CASE o # c
      <4>1. h.key # k
        BY <1>2, <2>1, <3>3 DEF Steady
      <4>2. store'[k] = store[k] /\ Pending(o)' = Pending(o) /\ tx'[o] = tx[o]
        BY <1>1, <1>3, <3>3, <4>1 DEF Pending
      <4>. QED
        BY <3>1, <4>2
    <3>. QED
      BY <3>2, <3>3
  <2>2. ASSUME \A o \in Clients : k \notin KeysOf[o] PROVE v = store'[k]
    BY <1>2, <1>3, <1>4, <2>2 DEF Rebuilt
  <2>. QED
    BY <1>1, <1>4, <2>1, <2>2 DEF Rebuilt
<1>. QED
  BY <1>1, <1>4 DEF RebuiltOK

\* A record that is no operation of a committed transaction changes nothing for replay.
LEMMA ReplayUnmoved ==
    ASSUME Base, NEW e \in Records, NEW ids, ~(IsOp(e) /\ e.tx \in ids),
           NEW k, NEW v, Leaves(Line, ids, k, Missing, v)
    PROVE  Leaves(Append(Line, e), ids, k, Missing, v)
<1>1. Leaves(Append(Line, e), ids, k, Missing,
             IF IsOp(e) /\ e.tx \in ids /\ e.key = k THEN ValueOf(e) ELSE v)
  BY LineIn, LeavesAppend
<1>. QED
  BY <1>1

LEMMA RebuiltBuffers ==
    ASSUME Base, Steady, RebuiltOK, NEW c \in Clients, NEW op \in NewOps(c), Buffers(c, op)
    PROVE  RebuiltOK'
<1>1. /\ op \in Records /\ IsOp(op) /\ op.tx = tx[c].id /\ pc[c] = "active"
      /\ UNCHANGED <<mode, store, pc>> /\ Line' = Append(Line, op)
      /\ \A o \in Clients \ {c} : tx'[o] = tx[o]
      /\ tx'[c].id = tx[c].id
  BY BuffersNew
<1>2. op.tx \notin Commits(Line) /\ Commits(Line') = Commits(Line)
  <2>1. op.kind # "commit"
    BY <1>1 DEF IsOp, OpKinds
  <2>. QED
    BY <1>1, <2>1, ActiveUncommitted, CommitsAppend, LineIn
<1>3. \A o \in Clients : Pending(o)' = Pending(o) /\ tx'[o].id = tx[o].id
  BY <1>1 DEF Pending
<1>4. ASSUME mode = "up", NEW k \in Keys, NEW v, Rebuilt(k, v) PROVE Rebuilt(k, v)'
  <2>1. Leaves(Append(Line, op), Commits(Line), k, Missing, v)
    BY <1>1, <1>2, <1>4, ReplayUnmoved DEF Rebuilt
  <2>. QED
    BY <1>1, <1>2, <1>3, <1>4, <2>1 DEF Rebuilt
<1>. QED
  BY <1>1, <1>4 DEF RebuiltOK

LEMMA RebuiltEnds ==
    ASSUME Base, Steady, OrderInv, RebuiltOK,
           NEW c \in Clients, NEW kind \in {"commit", "abort"}, Ends(c, kind)
    PROVE  RebuiltOK'
<1> DEFINE e == EndRecord(tx[c], kind)
           t == tx[c].id
<1>1. /\ e \in Records /\ ~IsOp(e) /\ e.tx = t /\ Line' = Append(Line, e)
      /\ UNCHANGED <<mode, store, tx>> /\ pc[c] = "active"
      /\ pc'[c] = IF kind = "commit" THEN "committing" ELSE "aborting"
      /\ \A o \in Clients \ {c} : pc'[o] = pc[o]
  BY EndsNew
<1>2. e.kind = kind
  BY DEF EndRecord
<1>. HIDE DEF e
<1>3. Commits(Line') = IF kind = "commit" THEN Commits(Line) \cup {t} ELSE Commits(Line)
  BY <1>1, <1>2, LineIn, CommitsAppend
<1>4. Pending(c) = <<>> /\ Pending(c)' = IF kind = "commit" THEN tx[c].ops ELSE <<>>
  BY <1>1 DEF Pending
<1>5. \A o \in Clients \ {c} : Pending(o)' = Pending(o)
  BY <1>1 DEF Pending
<1>6. ASSUME mode = "up", NEW k \in Keys, NEW v, Rebuilt(k, v), kind = "abort" PROVE Rebuilt(k, v)'
  <2>1. Leaves(Append(Line, e), Commits(Line), k, Missing, v)
    BY <1>1, <1>6, ReplayUnmoved DEF Rebuilt
  <2>2. \A o \in Clients : Pending(o)' = Pending(o) /\ tx'[o] = tx[o]
    BY <1>1, <1>4, <1>5, <1>6
  <2>. QED
    BY <1>1, <1>3, <1>6, <2>1, <2>2 DEF Rebuilt
<1>7. ASSUME mode = "up", NEW k \in Keys, NEW v, Rebuilt(k, v), kind = "commit"
      PROVE  \E w : Rebuilt(k, w)'
  <2>1. PICK w : /\ Leaves(Line, Commits(Line) \cup {t}, k, Missing, w)
                 /\ Leaves(tx[c].ops, {t}, k, v, w) /\ (k \notin KeysOf[c] => w = v)
    BY <1>1, <1>7, CommitTakes DEF OrderInv, Rebuilt
  <2>2. Leaves(Append(Line, e), Commits(Line) \cup {t}, k, Missing, w)
    BY <1>1, <2>1, ReplayUnmoved
  <2>3. ASSUME NEW o \in Clients, k \in KeysOf[o]
        PROVE  Leaves(Pending(o)', {tx'[o].id}, k, store'[k], w)
    <3>1. Leaves(Pending(o), {tx[o].id}, k, store[k], v)
      BY <1>7, <2>3 DEF Rebuilt
    <3>2. CASE o = c
      <4>1. Leaves(<<>>, {t}, k, store[k], v)
        BY <1>4, <3>1, <3>2
      <4>2. v = store[k]
        <5>1. \A ids, old : Leaves(<<>>, ids, k, old, v) => v = old
          BY NothingLeaves
        <5>. QED
          BY <4>1, <5>1, Zenon
      <4>. QED
        BY <1>1, <1>4, <1>7, <2>1, <3>2, <4>2
    <3>3. CASE o # c
      <4>1. w = v
        BY <2>1, <2>3, <3>3 DEF Steady
      <4>. QED
        BY <1>1, <1>5, <3>1, <3>3, <4>1
    <3>. QED
      BY <3>2, <3>3
  <2>4. ASSUME \A o \in Clients : k \notin KeysOf[o] PROVE w = store'[k]
    BY <1>1, <1>7, <2>1, <2>4 DEF Rebuilt
  <2>. QED
    BY <1>1, <1>3, <1>7, <2>2, <2>3, <2>4 DEF Rebuilt
<1>. QED
  BY <1>1, <1>6, <1>7 DEF RebuiltOK

LEMMA RebuiltStep ==
    ASSUME Base, Steady, OrderInv, RebuiltOK, [Next]_vars
    PROVE  RebuiltOK'
<1>1. CASE Cut
  BY <1>1 DEF Cut, Crash, RebuiltOK
<1>2. CASE Recovers
  BY <1>2, RebuiltRecovers DEF OrderInv
<1>3. CASE Calm
  <2>1. ASSUME NEW c \in Clients
        PROVE  \/ Pending(c)' = Pending(c) /\ tx'[c].id = tx[c].id
               \/ Pending(c)' = <<>> /\ Pending(c) = <<>>
    BY <1>3 DEF Calm, Settles, Pending
  <2>. QED
    BY <1>3, <2>1, RebuiltStill DEF Calm
<1>4. ASSUME NEW c \in Clients, Begins(c) PROVE RebuiltOK'
  <2>1. /\ pc'[c] = "active" /\ pc[c] = "idle" /\ UNCHANGED <<mode, store>> /\ Line' = Line
        /\ \A o \in Clients \ {c} : pc'[o] = pc[o] /\ tx'[o] = tx[o]
    BY <1>4, BeginsNew
  <2>2. ASSUME NEW o \in Clients
        PROVE  \/ Pending(o)' = Pending(o) /\ tx'[o].id = tx[o].id
               \/ Pending(o)' = <<>> /\ Pending(o) = <<>>
    BY <2>1 DEF Pending
  <2>. QED
    BY <2>1, <2>2, RebuiltStill
<1>5. ASSUME NEW c \in Clients, Applies(c) PROVE RebuiltOK'
  BY <1>5, RebuiltApplies DEF OrderInv
<1>6. ASSUME NEW c \in Clients, NEW op \in NewOps(c), Buffers(c, op) PROVE RebuiltOK'
  BY <1>6, RebuiltBuffers
<1>7. ASSUME NEW c \in Clients, NEW kind \in {"commit", "abort"}, Ends(c, kind) PROVE RebuiltOK'
  BY <1>7, RebuiltEnds
<1>. QED
  BY <1>1, <1>2, <1>3, <1>4, <1>5, <1>6, <1>7, LineCases

-----------------------------------------------------------------------------

RecInv == Base /\ OrderInv /\ RebuiltOK

LEMMA RecInit == Init => RecInv
<1>. SUFFICES ASSUME Init PROVE RecInv
  OBVIOUS
<1>1. Base
  BY OutInit, DurInit, StoreInit DEF Base
<1>2. \A c \in Clients : pc[c] = "idle"
  BY DEF Init
<1>3. InOrder(Line)
  <2>1. ToSet(queue) = {} /\ ToSet(batch[Flusher]) = {} /\ file = <<>>
    BY NothingElements, DrainersAre DEF Init, Wal!LogInit, Drainers
  <2>2. Line = <<>>
    BY <1>1, <2>1, LineDown DEF Base
  <2>. QED
    BY <2>2 DEF InOrder
<1>4. OrderInv
  BY <1>2, <1>3 DEF OrderInv, OrderOK, OwnedOK, OpsOK, BufferedOK
<1>5. RebuiltOK
  BY DEF Init, RebuiltOK
<1>. QED
  BY <1>1, <1>4, <1>5 DEF RecInv

LEMMA RecStep ==
    ASSUME Steady, RecInv, [Next]_vars
    PROVE  RecInv'
<1>1. Base'
  BY OutStep, DurStep, StoreStep DEF RecInv, Base, Steady
<1>. QED
  BY <1>1, OrderStep, OwnedStep, OpsStep, BufferedStep, RebuiltStep DEF RecInv, OrderInv

\* When nothing is under way the clients have applied all that replay would.
LEMMA RecMeaning ==
    ASSUME RecInv
    PROVE  ReplayMatchesStore
<1>1. SUFFICES ASSUME mode = "up", Quiet, \A c \in Clients : pc[c] \in {"idle", "active"}
               PROVE  store = Replayed(EmptyStore, Readable(file))
  BY DEF ReplayMatchesStore
<1> DEFINE V == Nat \cup {Missing}
           rebuilt == Replayed(EmptyStore, file)
<1>2. /\ file \in Seq(Records) /\ ToSet(file) \subseteq Kept /\ Readable(file) = file /\ Line = file
  <2>1. ToSet(queue) = {} /\ ToSet(batch[Flusher]) = {}
    BY <1>1, NothingElements, DrainersAre DEF Quiet, Drainers
  <2>2. Line = file
    BY <2>1, LineDown DEF RecInv, Base
  <2>. QED
    BY <2>2, LineTypes DEF RecInv, Base
<1>3. CommittedIds(file) = Commits(file)
  BY <1>2, CommitsAre DEF RecInv, Base
<1>4. store \in [Keys -> V]
  BY DEF RecInv, Base, StoreOK, Stores, Settled, OutInv, IdsInv, Typed
<1>5. /\ rebuilt \in [Keys -> V]
      /\ \A k \in Keys : Leaves(file, Commits(file), k, Missing, rebuilt[k])
  <2>1. InOrder(file)
    BY <1>2 DEF RecInv, OrderInv, OrderOK
  <2>2. EmptyStore \in [Keys -> V] /\ \A k \in Keys : EmptyStore[k] = Missing
    BY DEF EmptyStore
  <2>3. \A r \in Records : r.tx \in Nat /\ ValueOf(r) \in V
    BY DEF Records, ValueOf
  <2>. HIDE DEF V
  <2>4. /\ rebuilt \in [Keys -> V]
        /\ \A k \in Keys : LastWrite(file, Len(file), CommittedIds(file), k, EmptyStore[k], rebuilt[k])
    BY <1>2, <2>1, <2>2, <2>3, ReplayedIs
  <2>. QED
    BY <1>3, <2>2, <2>4 DEF Leaves
<1>. HIDE DEF rebuilt, V
<1>6. ASSUME NEW k \in Keys PROVE store[k] = rebuilt[k]
  <2>1. PICK v : Rebuilt(k, v)
    BY <1>1 DEF RecInv, RebuiltOK
  <2>2. \A c \in Clients : Pending(c) = <<>>
    BY <1>1 DEF Pending
  <2>3. v = store[k]
    <3>1. CASE \A c \in Clients : k \notin KeysOf[c]
      BY <2>1, <3>1 DEF Rebuilt
    <3>2. ASSUME NEW c \in Clients, k \in KeysOf[c] PROVE v = store[k]
      <4>1. Leaves(<<>>, {tx[c].id}, k, store[k], v)
        BY <2>1, <2>2, <3>2 DEF Rebuilt
      <4>2. \A ids, old : Leaves(<<>>, ids, k, old, v) => v = old
        BY NothingLeaves
      <4>. QED
        BY <4>1, <4>2, Zenon
    <3>. QED
      BY <3>1, <3>2
  <2>4. /\ LastWrite(file, Len(file), Commits(file), k, Missing, v)
        /\ LastWrite(file, Len(file), Commits(file), k, Missing, rebuilt[k])
    BY <1>2, <1>5, <2>1 DEF Rebuilt, Leaves
  <2>5. v = rebuilt[k]
    BY <1>2, <2>4, LastWriteUnique
  <2>. QED
    BY <2>3, <2>5
<1>7. store = rebuilt
  BY <1>4, <1>5, <1>6
<1>. QED
  BY <1>2, <1>7 DEF rebuilt

\* Recovery rebuilds the store the clients see: while nothing is under way,
\* recover_with_validation() on the file gives the live store, for any clients
\* that write keys of their own, after any number of crashes.  commit() applies
\* its operations one lock at a time after its flush() and recovery in the order
\* of the transaction ids; that the two agree takes the order of the line, and
\* that append_op() puts into the WAL what it puts into the transaction.
THEOREM RecoveryAgrees ==
    ASSUME Punctual, ~TornWrites, ~AddsEntries, Kinds \subseteq {"insert", "delete"},
           \A c, d \in Clients : c # d => KeysOf[c] \cap KeysOf[d] = {}
    PROVE  Spec => []ReplayMatchesStore
<1>1. Steady
  BY DEF Steady
<1>2. Init => RecInv
  BY RecInit
<1>3. RecInv /\ [Next]_vars => RecInv'
  BY <1>1, RecStep
<1>4. RecInv => ReplayMatchesStore
  BY RecMeaning
<1>. QED
  BY <1>2, <1>3, <1>4, PTL DEF Spec
=============================================================================
