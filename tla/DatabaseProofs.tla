--------------------------- MODULE DatabaseProofs ---------------------------
(***************************************************************************)
(* Database for any clients, keys, operations and bounds.  Whatever crashes,*)
(* torn records and I/O errors do, recovery mixes no two transactions and  *)
(* what was rolled back stays out of the store; ids are unique in the      *)
(* whole file while no record is torn.  While flush() stays within its     *)
(* polling budget and crashes tear no record, commits are durable and      *)
(* nobody reads what a crash can take back.                                *)
(***************************************************************************)
EXTENDS Database, ReplayFacts, TLAPS

Drainers == Clients \cup {Flusher}

\* The types that the log, the ids and the transactions have by themselves; the
\* store and the bounds take the invariants below.
LogTyped ==
    /\ queue \in Seq(Records)
    /\ batch \in [Drainers -> Seq(Records)]
    /\ writing \in Drainers \cup {Nobody}
    /\ file \in Seq(Records \cup {Torn})
    /\ synced \in 0..Len(file)
    /\ mine \in [Clients -> SUBSET Records]

Typed ==
    /\ LogTyped
    /\ mode \in {"down", "up"}
    /\ nextId \in Nat
    /\ pc \in [Clients -> {"idle", "active", "committing", "aborting", "applying"}]
    /\ tx \in [Clients -> [id : Nat, ops : Seq(Records), serial : Nat]]
    /\ serial \in Nat
    /\ promised \subseteq Records
    /\ errors \in Nat

-----------------------------------------------------------------------------
(* Types *)

LEMMA DrainersAre == Wal!Drainers = Drainers
BY DEF Wal!Drainers, Drainers

LEMMA PartType ==
    ASSUME NEW b \in Seq(Records), NEW part, part \in Wal!PartOf(b)
    PROVE  part \in Seq(Records \cup {Torn}) /\ ToSet(part) \subseteq ToSet(b) \cup {Torn}
<1> DEFINE Good == { x \in Seq(Records \cup {Torn}) : ToSet(x) \subseteq ToSet(b) \cup {Torn} }
<1>1. b \in Good
  OBVIOUS
<1>2. ASSUME NEW k \in 0..(Len(b) - 1)
      PROVE  SubSeq(b, 1, k) \in Good /\ SubSeq(b, 1, k) \o <<Torn>> \in Good
  <2>. DEFINE S == Records \cup {Torn}
              p == SubSeq(b, 1, k)
  <2>1. /\ p \in Seq(Records) /\ p \in Seq(S)
        /\ ToSet(p) = { b[i] : i \in 1..k } /\ k \in 0..Len(b)
    BY SubSeqProperties, PrefixElements
  <2>2. ToSet(p) \subseteq ToSet(b)
    BY <2>1 DEF ToSet
  <2>3. <<Torn>> \in Seq(S) /\ ToSet(<<Torn>>) = {Torn}
    BY DEF ToSet
  <2>4. p \o <<Torn>> \in Seq(S) /\ ToSet(p \o <<Torn>>) = ToSet(p) \cup ToSet(<<Torn>>)
    <3>. HIDE DEF S, p
    <3>. QED
      BY <2>1, <2>3, ConcatElements, ConcatProperties
  <2>. QED
    BY <2>1, <2>2, <2>3, <2>4
<1>. HIDE DEF Good
<1>3. part \in Good
  BY <1>1, <1>2 DEF Wal!PartOf
<1>. QED
  BY <1>3 DEF Good

LEMMA NewRecords ==
    ASSUME Typed, NEW c \in Clients
    PROVE  /\ \A op \in NewOps(c) :
                op \in Records /\ op.tx = tx[c].id /\ op.value = tx[c].serial
           /\ \A kind \in {"commit", "abort"} :
                /\ EndRecord(tx[c], kind) \in Records
                /\ EndRecord(tx[c], kind).tx = tx[c].id
                /\ EndRecord(tx[c], kind).value = tx[c].serial
BY DatabaseAssumption DEF Typed, NewOps, EndRecord, Records, TxKinds

LEMMA TypedInit == Init => Typed
<1> SUFFICES ASSUME Init PROVE Typed
  OBVIOUS
<1>1. /\ queue \in Seq(Records) /\ file \in Seq(Records \cup {Torn}) /\ synced \in 0..Len(file)
  BY DEF Init, Wal!LogInit
<1>2. batch \in [Drainers -> Seq(Records)]
  BY DrainersAre DEF Init, Wal!LogInit
<1>3. tx \in [Clients -> [id : Nat, ops : Seq(Records), serial : Nat]]
  BY DEF Init, NoTx
<1>. QED
  BY <1>1, <1>2, <1>3 DEF Init, Wal!LogInit, Typed, LogTyped

LEMMA LogTypes ==
    ASSUME LogTyped
    PROVE  /\ \A c \in Clients, e \in Records : Wal!Push(c, e) => LogTyped'
           /\ \A d \in Drainers : Wal!Pop(d) \/ Wal!Write(d) \/ Wal!Sync(d) \/ Wal!Fail(d) => LogTyped'
<1>1. ASSUME NEW c \in Clients, NEW e \in Records, Wal!Push(c, e) PROVE LogTyped'
  BY <1>1 DEF LogTyped, Wal!Push
<1>2. ASSUME NEW d \in Drainers, Wal!Pop(d) PROVE LogTyped'
  <2>1. Head(queue) \in Records /\ Tail(queue) \in Seq(Records)
    BY <1>2, TailElements DEF LogTyped, Wal!Pop
  <2>. QED
    BY <1>2, <2>1 DEF LogTyped, Wal!Pop
<1>3. ASSUME NEW d \in Drainers, Wal!Write(d) PROVE LogTyped'
  <2>1. batch[d] \in Seq(Records \cup {Torn})
    BY DEF LogTyped
  <2>2. file' \in Seq(Records \cup {Torn}) /\ synced \in 0..Len(file')
    BY <1>3, <2>1, ConcatProperties, PrefixOfConcat DEF LogTyped, Wal!Write
  <2>. QED
    BY <1>3, <2>2 DEF LogTyped, Wal!Write
<1>4. ASSUME NEW d \in Drainers, Wal!Sync(d) PROVE LogTyped'
  <2>1. Len(file) \in Nat
    BY DEF LogTyped
  <2>. QED
    BY <1>4, <2>1 DEF LogTyped, Wal!Sync
<1>5. ASSUME NEW d \in Drainers, Wal!Fail(d) PROVE LogTyped'
  <2>1. file' \in Seq(Records \cup {Torn}) /\ synced \in 0..Len(file')
    <3>1. CASE UNCHANGED file
      BY <3>1 DEF LogTyped
    <3>2. ASSUME NEW part \in Wal!PartOf(batch[d]), file' = file \o part
          PROVE  file' \in Seq(Records \cup {Torn}) /\ synced \in 0..Len(file')
      <4>1. part \in Seq(Records \cup {Torn})
        BY PartType DEF LogTyped
      <4>. QED
        BY <3>2, <4>1, ConcatProperties, PrefixOfConcat DEF LogTyped
    <3>. QED
      BY <1>5, <3>1, <3>2 DEF Wal!Fail
  <2>2. UNCHANGED <<queue, synced, mine>> /\ batch' = [batch EXCEPT ![d] = <<>>] /\ writing' = Nobody
    BY <1>5 DEF Wal!Fail
  <2>. QED
    BY <2>1, <2>2 DEF LogTyped
<1>. QED
  BY <1>1, <1>2, <1>3, <1>4, <1>5

LEMMA TypedStep ==
    ASSUME Typed, [Next]_vars
    PROVE  Typed'
<1>. USE DrainersAre
<1>1. CASE Recover
  <2>1. Readable(file) \in Seq(Records) /\ \A r \in Records : r.tx \in Nat
    BY ReadableElements DEF Typed, LogTyped, Records
  <2>2. nextId' \in Nat
    BY <1>1, <2>1, CounterIsPast DEF Recover, Typed
  <2>. QED
    BY <1>1, <2>2 DEF Recover, Typed, LogTyped, walVars, history
<1>2. CASE Crash
  <2>1. /\ file' \in Seq(Records \cup {Torn}) /\ synced' \in 0..Len(file')
    <3>1. PICK k \in synced..Len(file) :
             file' = SubSeq(file, 1, k) \/ file' = SubSeq(file, 1, k) \o <<Torn>>
      BY <1>2 DEF Crash
    <3>2. k \in 0..Len(file) /\ SubSeq(file, 1, k) \in Seq(Records \cup {Torn})
      BY SubSeqProperties DEF Typed, LogTyped
    <3>3. file' \in Seq(Records \cup {Torn})
      <4>1. <<Torn>> \in Seq(Records \cup {Torn})
        OBVIOUS
      <4>. QED
        BY <3>1, <3>2, <4>1, ConcatProperties
    <3>4. Len(file') \in Nat /\ synced' = Len(file')
      BY <1>2, <3>3 DEF Crash
    <3>. QED
      BY <3>3, <3>4
  <2>2. batch' \in [Drainers -> Seq(Records)] /\ mine' \in [Clients -> SUBSET Records]
    BY <1>2 DEF Crash
  <2>3. tx' \in [Clients -> [id : Nat, ops : Seq(Records), serial : Nat]]
    BY <1>2 DEF Crash, NoTx
  <2>. QED
    BY <1>2, <2>1, <2>2, <2>3 DEF Crash, Typed, LogTyped
<1>3. ASSUME NEW c \in Clients, Begin(c) PROVE Typed'
  BY <1>3 DEF Begin, Typed, LogTyped, walVars
<1>4. ASSUME NEW c \in Clients, NEW op \in NewOps(c), Buffer(c, op) PROVE
        tx' \in [Clients -> [id : Nat, ops : Seq(Records), serial : Nat]]
  <2>1. Append(tx[c].ops, op) \in Seq(Records)
    BY NewRecords, AppendProperties DEF Typed
  <2>. QED
    BY <1>4, <2>1 DEF Buffer, Typed
<1>5. ASSUME NEW c \in Clients, AppendOp(c) PROVE Typed'
  <2>1. PICK op \in NewOps(c) : Buffer(c, op) /\ Wal!Push(c, op)
    BY <1>5 DEF AppendOp
  <2>2. LogTyped'
    BY <2>1, NewRecords, LogTypes DEF Typed
  <2>. QED
    BY <1>4, <1>5, <2>1, <2>2 DEF AppendOp, Typed, history
<1>6. ASSUME NEW c \in Clients, AddEntry(c) PROVE Typed'
  BY <1>4, <1>6 DEF AddEntry, Typed, LogTyped, walVars, history
<1>7. ASSUME NEW c \in Clients, CommitCall(c) \/ AbortCall(c) PROVE Typed'
  <2>1. LogTyped'
    BY <1>7, NewRecords, LogTypes DEF CommitCall, AbortCall, Typed
  <2>. QED
    BY <1>7, <2>1 DEF CommitCall, AbortCall, Typed, history
<1>0. ASSUME NEW c \in Clients, tx' = [tx EXCEPT ![c] = NoTx]
      PROVE  tx' \in [Clients -> [id : Nat, ops : Seq(Records), serial : Nat]]
  BY <1>0 DEF NoTx, Typed
<1>8. ASSUME NEW c \in Clients, GiveUp(c) PROVE Typed'
  BY <1>0, <1>8 DEF GiveUp, Typed, LogTyped, walVars
<1>15. ASSUME NEW c \in Clients, CommitOk(c) PROVE Typed'
  <2>1. promised' \subseteq Records
    BY <1>15 DEF CommitOk, Typed, LogTyped
  <2>. QED
    BY <1>0, <1>15, <2>1 DEF CommitOk, Typed, LogTyped, walVars
<1>9. ASSUME NEW c \in Clients, FlushOk(c) PROVE Typed'
  <2>1. LogTyped'
    BY <1>9 DEF FlushOk, Wal!Ack, Wal!log, Typed, LogTyped
  <2>2. tx' \in [Clients -> [id : Nat, ops : Seq(Records), serial : Nat]]
    BY <1>0, <1>9 DEF FlushOk, Typed
  <2>. QED
    BY <1>9, <2>1, <2>2 DEF FlushOk, Typed, history
<1>10. ASSUME NEW c \in Clients, FlushErr(c) PROVE Typed'
  <2>1. LogTyped'
    BY <1>10, LogTypes DEF FlushErr, Typed, Drainers
  <2>. QED
    BY <1>10, <2>1 DEF FlushErr, Typed, NoTx
<1>11. ASSUME NEW c \in Clients, Apply(c) PROVE Typed'
  <2>1. Tail(tx[c].ops) \in Seq(Records)
    BY <1>11, HeadTailProperties DEF Apply, Typed
  <2>2. tx' \in [Clients -> [id : Nat, ops : Seq(Records), serial : Nat]]
    BY <1>0, <1>11, <2>1 DEF Apply, Typed
  <2>. QED
    BY <1>11, <2>2 DEF Apply, Typed, LogTyped, walVars, history
<1>12. ASSUME NEW d \in Drainers, Drain(d) PROVE Typed'
  <2>1. LogTyped'
    BY <1>12, LogTypes DEF Drain, Typed
  <2>. QED
    BY <1>12, <2>1 DEF Drain, Typed, history
<1>13. CASE FlusherFail
  <2>1. LogTyped'
    BY <1>13, LogTypes DEF FlusherFail, Typed, Drainers
  <2>. QED
    BY <1>13, <2>1 DEF FlusherFail, Typed
<1>14. CASE UNCHANGED vars
  BY <1>14 DEF vars, walVars, history, Typed, LogTyped
<1>. QED
  BY <1>1, <1>2, <1>3, <1>5, <1>6, <1>7, <1>8, <1>9, <1>10, <1>11, <1>12, <1>13, <1>14, <1>15
     DEF Next, Elsewhere

-----------------------------------------------------------------------------
(* Transaction ids *)

All  == UNION { mine[c] : c \in Clients }
Kept == ToSet(Readable(file)) \cup All

\* What is under way was appended; and after a crash nothing is.
CarriedOK ==
    /\ ToSet(queue) \subseteq All
    /\ \A d \in Drainers : ToSet(batch[d]) \subseteq All
    /\ mode = "down" => All = {} /\ \A c \in Clients : pc[c] = "idle"

\* The counter is past every id in use, on disk or in memory, and no two
\* transactions under way share one.
CounterOK ==
    /\ nextId >= 1
    /\ \A r \in Kept : r.tx >= 1 /\ (mode = "up" => r.tx < nextId)
    /\ \A c \in Clients :
          /\ pc[c] = "idle" => tx[c] = NoTx
          /\ pc[c] # "idle" => tx[c].id >= 1 /\ tx[c].id < nextId
    /\ \A c, d \in Clients :
          c # d /\ pc[c] # "idle" /\ pc[d] # "idle" => tx[c].id # tx[d].id

\* A record with the id of a transaction is of that transaction.
OwnerOK ==
    /\ \A r, s \in Kept : r.tx = s.tx => r.value = s.value
    /\ \A r \in Kept, c \in Clients :
          pc[c] # "idle" /\ r.tx = tx[c].id => r.value = tx[c].serial

IdsInv == Typed /\ CarriedOK /\ CounterOK /\ OwnerOK

LEMMA KeptTypes ==
    ASSUME Typed
    PROVE  Kept \subseteq Records /\ \A r \in Records : r.tx \in Nat
<1>1. ToSet(Readable(file)) \subseteq Records
  <2>1. Readable(file) \in Seq(Records)
    BY ReadableElements DEF Typed, LogTyped
  <2>. QED
    BY <2>1 DEF ToSet
<1>2. All \subseteq Records
  BY DEF All, Typed, LogTyped
<1>. QED
  BY <1>1, <1>2 DEF Kept, Records

\* An entry that is appended is the only one that joins what is kept.
LEMMA PushKeeps ==
    ASSUME Typed, CarriedOK, mode = "up", mode' = mode,
           NEW c \in Clients, NEW e \in Records, Wal!Push(c, e)
    PROVE  CarriedOK' /\ Kept' = Kept \cup {e}
<1>1. All' = All \cup {e}
  BY DEF Wal!Push, All, Typed, LogTyped
<1>2. ToSet(queue') = ToSet(queue) \cup {e}
  BY AppendElements DEF Wal!Push, Typed, LogTyped
<1>. QED
  BY <1>1, <1>2 DEF Wal!Push, CarriedOK, Kept

\* A drain moves entries to the file, or loses them, but adds none.
LEMMA DrainKeeps ==
    ASSUME Typed, CarriedOK, mode = "up", mode' = mode, NEW d \in Drainers,
           Wal!Pop(d) \/ Wal!Write(d) \/ Wal!Sync(d) \/ Wal!Fail(d)
    PROVE  CarriedOK' /\ Kept' \subseteq Kept
<1>1. All' = All
  BY DEF Wal!Pop, Wal!Write, Wal!Sync, Wal!Fail, All
<1>2. CASE Wal!Pop(d)
  <2>1. /\ Head(queue) \in Records /\ Tail(queue) \in Seq(Records)
        /\ ToSet(queue) = {Head(queue)} \cup ToSet(Tail(queue))
    BY <1>2, TailElements DEF Wal!Pop, Typed, LogTyped
  <2>2. ToSet(Append(batch[d], Head(queue))) = ToSet(batch[d]) \cup {Head(queue)}
    BY <2>1, AppendElements DEF Typed, LogTyped
  <2>. QED
    BY <1>1, <1>2, <2>1, <2>2 DEF Wal!Pop, CarriedOK, Kept, Typed, LogTyped
<1>3. ASSUME NEW part \in Seq(Records \cup {Torn}), file' = file \o part,
             ToSet(part) \subseteq ToSet(batch[d]) \cup {Torn}
      PROVE  Kept' \subseteq Kept
  <2>1. ToSet(Readable(file')) \subseteq ToSet(Readable(file)) \cup (ToSet(part) \ {Torn})
    BY <1>3, ReadableConcat DEF Typed, LogTyped
  <2>. QED
    BY <1>1, <1>3, <2>1 DEF Kept, CarriedOK
<1>4. CASE Wal!Write(d)
  <2>1. batch[d] \in Seq(Records \cup {Torn})
    BY DEF Typed, LogTyped
  <2>. QED
    BY <1>1, <1>3, <1>4, <2>1 DEF Wal!Write, CarriedOK
<1>5. ASSUME batch' = [batch EXCEPT ![d] = <<>>], UNCHANGED queue PROVE CarriedOK'
  <2>1. ToSet(<<>>) = {}
    BY DEF ToSet
  <2>. QED
    BY <1>1, <1>5, <2>1 DEF CarriedOK, Typed, LogTyped
<1>6. CASE Wal!Sync(d)
  BY <1>1, <1>5, <1>6 DEF Wal!Sync, Kept
<1>7. CASE Wal!Fail(d)
  <2>1. CASE UNCHANGED file
    BY <1>1, <1>5, <1>7, <2>1 DEF Wal!Fail, Kept
  <2>2. ASSUME NEW part, part \in Wal!PartOf(batch[d]), file' = file \o part
        PROVE  Kept' \subseteq Kept
    BY <1>3, <2>2, PartType DEF Typed, LogTyped
  <2>. QED
    BY <1>5, <1>7, <2>1, <2>2 DEF Wal!Fail
<1>. QED
  BY <1>2, <1>4, <1>6, <1>7

\* Steps after which the transactions under way are some of those before.
LEMMA IdsShrink ==
    ASSUME IdsInv, Kept' \subseteq Kept, UNCHANGED <<mode, nextId>>,
           \A c \in Clients :
              \/ pc'[c] = "idle" /\ tx'[c] = NoTx
              \/ /\ pc[c] # "idle" /\ pc'[c] # "idle"
                 /\ tx'[c].id = tx[c].id /\ tx'[c].serial = tx[c].serial
    PROVE  CounterOK' /\ OwnerOK'
<1>1. CounterOK'
  BY DEF IdsInv, CounterOK
<1>2. OwnerOK'
  BY DEF IdsInv, OwnerOK
<1>. QED
  BY <1>1, <1>2

\* append() by a transaction under way.
LEMMA IdsPush ==
    ASSUME IdsInv, mode = "up", UNCHANGED <<mode, nextId>>,
           NEW c \in Clients, pc[c] # "idle", NEW e \in Records, Kept' = Kept \cup {e},
           e.tx = tx[c].id, e.value = tx[c].serial,
           \A o \in Clients : /\ pc'[o] = "idle" <=> pc[o] = "idle"
                              /\ pc[o] = "idle" => tx'[o] = tx[o]
                              /\ tx'[o].id = tx[o].id /\ tx'[o].serial = tx[o].serial
    PROVE  CounterOK' /\ OwnerOK'
<1>1. tx[c].id \in Nat /\ tx[c].id >= 1 /\ tx[c].id < nextId
  BY DEF IdsInv, CounterOK, Typed
<1>2. CounterOK'
  BY <1>1 DEF IdsInv, CounterOK
<1>3. OwnerOK'
  <2>1. \A r \in Kept : r.tx = e.tx => r.value = e.value
    BY DEF IdsInv, OwnerOK
  <2>2. \A o \in Clients : pc[o] # "idle" /\ e.tx = tx[o].id => e.value = tx[o].serial
    BY DEF IdsInv, CounterOK
  <2>. QED
    BY <2>1, <2>2 DEF IdsInv, OwnerOK
<1>. QED
  BY <1>2, <1>3

LEMMA IdsInit == Init => IdsInv
<1> SUFFICES ASSUME Init PROVE IdsInv
  OBVIOUS
<1>1. Typed
  BY TypedInit
<1>2. All = {} /\ Readable(file) = <<>> /\ ToSet(<<>>) = {}
  <2>1. file = <<>> /\ All = {}
    BY DEF Init, Wal!LogInit, All
  <2>. QED
    BY <2>1 DEF Readable, ToSet
<1>3. CarriedOK
  BY <1>2, DrainersAre DEF Init, Wal!LogInit, CarriedOK
<1>4. Kept = {}
  BY <1>2 DEF Kept
<1>5. CounterOK /\ OwnerOK
  BY <1>4 DEF Init, CounterOK, OwnerOK
<1>. QED
  BY <1>1, <1>3, <1>5 DEF IdsInv

LEMMA IdsStep ==
    ASSUME IdsInv, [Next]_vars
    PROVE  IdsInv'
<1>. USE DrainersAre
<1>0. Typed /\ Typed' /\ CarriedOK /\ CounterOK /\ OwnerOK
  BY TypedStep DEF IdsInv
<1>1. CASE Recover
  <2>1. All = {} /\ \A c \in Clients : pc[c] = "idle"
    BY <1>0, <1>1 DEF CarriedOK, Recover
  <2>2. Kept = ToSet(Readable(file)) /\ Kept' = Kept /\ All' = All
    BY <1>1, <2>1 DEF Kept, All, Recover, walVars
  <2>3. nextId' >= nextId /\ \A r \in Kept : r.tx < nextId'
    <3>1. Readable(file) \in Seq(Records) /\ \A r \in Records : r.tx \in Nat
      BY <1>0, ReadableElements DEF Typed, LogTyped, Records
    <3>2. nextId' = CounterAfter(nextId, Readable(file)) /\ nextId \in Nat
      BY <1>0, <1>1 DEF Recover, Typed
    <3>. QED
      BY <2>2, <3>1, <3>2, CounterIsPast
  <2>4. nextId \in Nat /\ nextId' \in Nat
    BY <1>0 DEF Typed
  <2>5. CarriedOK'
    BY <1>0, <1>1, <2>2 DEF CarriedOK, Recover, walVars
  <2>6. CounterOK'
    BY <1>0, <1>1, <2>1, <2>2, <2>3, <2>4 DEF CounterOK, Recover
  <2>7. OwnerOK'
    BY <1>0, <1>1, <2>1, <2>2 DEF OwnerOK, Recover
  <2>. QED
    BY <1>0, <2>5, <2>6, <2>7 DEF IdsInv
<1>2. CASE Crash
  <2>1. PICK k \in synced..Len(file) :
           file' = SubSeq(file, 1, k) \/ file' = SubSeq(file, 1, k) \o <<Torn>>
    BY <1>2 DEF Crash
  <2>2. ToSet(Readable(file')) \subseteq ToSet(Readable(file))
    <3>1. k \in 0..Len(file)
      BY <1>0 DEF Typed, LogTyped
    <3>. QED
      BY <1>0, <2>1, <3>1, ReadablePrefix DEF Typed, LogTyped
  <2>3. All' = {} /\ Kept' \subseteq Kept
    BY <1>2, <2>2 DEF Crash, All, Kept
  <2>4. CarriedOK'
    <3>1. ToSet(<<>>) = {}
      BY DEF ToSet
    <3>. QED
      BY <1>2, <2>3, <3>1 DEF Crash, CarriedOK
  <2>5. CounterOK' /\ OwnerOK'
    BY <1>0, <1>2, <2>3 DEF Crash, CounterOK, OwnerOK
  <2>. QED
    BY <1>0, <2>4, <2>5 DEF IdsInv
<1>3. ASSUME NEW c \in Clients, Begin(c) PROVE IdsInv'
  <2>1. Kept' = Kept /\ All' = All /\ CarriedOK'
    BY <1>0, <1>3 DEF Begin, walVars, Kept, All, CarriedOK
  <2>2. /\ nextId' = nextId + 1 /\ nextId \in Nat /\ mode = "up" /\ mode' = mode
        /\ tx'[c].id = nextId /\ pc'[c] # "idle"
        /\ \A o \in Clients \ {c} : tx'[o] = tx[o] /\ pc'[o] = pc[o]
    BY <1>0, <1>3 DEF Begin, Typed
  <2>3. Kept \subseteq Records /\ \A r \in Kept : r.tx \in Nat
    BY <1>0, KeptTypes
  <2>4. \A o \in Clients : tx[o].id \in Nat
    BY <1>0 DEF Typed
  <2>5. CounterOK'
    BY <1>0, <2>1, <2>2, <2>3, <2>4 DEF CounterOK
  <2>6. OwnerOK'
    BY <1>0, <2>1, <2>2, <2>3 DEF CounterOK, OwnerOK
  <2>. QED
    BY <1>0, <2>1, <2>5, <2>6 DEF IdsInv
<1>4. ASSUME NEW c \in Clients, AppendOp(c) PROVE IdsInv'
  <2>1. PICK op \in NewOps(c) : Buffer(c, op) /\ Wal!Push(c, op)
    BY <1>4 DEF AppendOp
  <2>2. op \in Records /\ op.tx = tx[c].id /\ op.value = tx[c].serial
    BY <1>0, NewRecords
  <2>3. mode = "up"
    BY <1>0, <2>1 DEF Buffer, CarriedOK, Typed
  <2>4. CarriedOK' /\ Kept' = Kept \cup {op}
    BY <1>0, <1>4, <2>1, <2>2, <2>3, PushKeeps DEF AppendOp
  <2>5. \A o \in Clients : /\ tx'[o].id = tx[o].id /\ tx'[o].serial = tx[o].serial
                           /\ o # c => tx'[o] = tx[o]
    BY <1>0, <2>1 DEF Buffer, Typed
  <2>6. pc[c] # "idle" /\ UNCHANGED <<mode, nextId, pc>>
    BY <1>4, <2>1 DEF AppendOp, Buffer
  <2>7. CounterOK' /\ OwnerOK'
    BY <2>2, <2>3, <2>4, <2>5, <2>6, IdsPush
  <2>. QED
    BY <1>0, <2>4, <2>7 DEF IdsInv
<1>5. ASSUME NEW c \in Clients, CommitCall(c) \/ AbortCall(c) PROVE IdsInv'
  <2>1. PICK kind \in {"commit", "abort"} : Wal!Push(c, EndRecord(tx[c], kind))
    BY <1>5 DEF CommitCall, AbortCall
  <2>2. PICK e \in Records :
           e = EndRecord(tx[c], kind) /\ e.tx = tx[c].id /\ e.value = tx[c].serial
    BY <1>0, NewRecords
  <2>3. /\ mode = "up" /\ pc[c] # "idle" /\ UNCHANGED <<mode, nextId, tx>>
        /\ \A o \in Clients : pc'[o] = "idle" <=> pc[o] = "idle"
    BY <1>0, <1>5 DEF CommitCall, AbortCall, CarriedOK, Typed
  <2>4. CarriedOK' /\ Kept' = Kept \cup {e}
    BY <1>0, <2>1, <2>2, <2>3, PushKeeps
  <2>5. CounterOK' /\ OwnerOK'
    BY <2>2, <2>3, <2>4, IdsPush
  <2>. QED
    BY <1>0, <2>4, <2>5 DEF IdsInv
<1>6. ASSUME NEW c \in Clients, AddEntry(c) \/ GiveUp(c) \/ FlushOk(c) \/ Apply(c) \/ CommitOk(c)
      PROVE  IdsInv'
  <2>1. /\ UNCHANGED <<queue, batch, file, mine, mode, nextId>>
    BY <1>6 DEF AddEntry, GiveUp, FlushOk, Apply, CommitOk, Wal!Ack, Wal!log, walVars
  <2>2. Kept' = Kept /\ All' = All
    BY <2>1 DEF Kept, All
  <2>3. \A o \in Clients :
           \/ pc'[o] = "idle" /\ tx'[o] = NoTx
           \/ /\ pc[o] # "idle" /\ pc'[o] # "idle"
              /\ tx'[o].id = tx[o].id /\ tx'[o].serial = tx[o].serial
    <3>1. ASSUME NEW o \in Clients \ {c} PROVE pc'[o] = pc[o] /\ tx'[o] = tx[o]
      BY <1>0, <1>6 DEF AddEntry, Buffer, GiveUp, FlushOk, Apply, CommitOk, Typed
    <3>2. CASE AddEntry(c)
      BY <1>0, <3>1, <3>2 DEF AddEntry, Buffer, CounterOK, Typed
    <3>3. CASE GiveUp(c) \/ CommitOk(c)
      BY <1>0, <3>1, <3>3 DEF GiveUp, CommitOk, CounterOK, Typed
    <3>4. CASE FlushOk(c)
      BY <1>0, <3>1, <3>4 DEF FlushOk, CounterOK, Typed
    <3>5. CASE Apply(c)
      <4>1. pc[c] = "applying"
        BY <3>5 DEF Apply
      <4>2. CASE UNCHANGED pc /\ tx' = [tx EXCEPT ![c].ops = Tail(@)]
        <5>1. tx'[c].id = tx[c].id /\ tx'[c].serial = tx[c].serial
          BY <1>0, <4>2 DEF Typed
        <5>. QED
          BY <1>0, <3>1, <4>1, <4>2, <5>1 DEF CounterOK
      <4>3. CASE pc' = [pc EXCEPT ![c] = "idle"] /\ tx' = [tx EXCEPT ![c] = NoTx]
        <5>1. pc'[c] = "idle" /\ tx'[c] = NoTx
          BY <1>0, <4>3 DEF Typed
        <5>. QED
          BY <1>0, <3>1, <5>1 DEF CounterOK
      <4>. QED
        BY <3>5, <4>2, <4>3 DEF Apply
    <3>. QED
      BY <1>6, <3>2, <3>3, <3>4, <3>5
  <2>4. CarriedOK'
    BY <1>0, <2>1, <2>2, <2>3 DEF CarriedOK
  <2>. QED
    BY <1>0, <2>1, <2>2, <2>3, <2>4, IdsShrink DEF IdsInv
<1>7. ASSUME NEW d \in Drainers, Drain(d) PROVE IdsInv'
  <2>1. mode = "up" /\ UNCHANGED <<mode, nextId, pc, tx>>
    BY <1>7 DEF Drain, MayDrain
  <2>2. CarriedOK' /\ Kept' \subseteq Kept
    BY <1>0, <1>7, <2>1, DrainKeeps DEF Drain
  <2>. QED
    BY <1>0, <2>1, <2>2, IdsShrink DEF IdsInv, CounterOK
<1>8. ASSUME NEW d \in Drainers, Wal!Fail(d), mode = "up", UNCHANGED <<mode, nextId>>,
             \A c \in Clients : \/ pc'[c] = "idle" /\ tx'[c] = NoTx
                                \/ pc'[c] = pc[c] /\ tx'[c] = tx[c]
      PROVE  IdsInv'
  <2>1. CarriedOK' /\ Kept' \subseteq Kept
    BY <1>0, <1>8, DrainKeeps
  <2>. QED
    BY <1>0, <1>8, <2>1, IdsShrink DEF IdsInv, CounterOK
<1>9. ASSUME NEW c \in Clients, FlushErr(c) PROVE IdsInv'
  <2>1. mode = "up" /\ c \in Drainers
    BY <1>0, <1>9 DEF FlushErr, CarriedOK, Typed, Drainers
  <2>. QED
    BY <1>0, <1>8, <1>9, <2>1 DEF FlushErr, Typed
<1>10. CASE FlusherFail
  BY <1>8, <1>10 DEF FlusherFail, Drainers
<1>11. CASE UNCHANGED vars
  BY <1>0, <1>11 DEF vars, walVars, IdsInv, CarriedOK, CounterOK, OwnerOK, Kept, All
<1>. QED
  BY <1>1, <1>2, <1>3, <1>4, <1>5, <1>6, <1>7, <1>9, <1>10, <1>11 DEF Next, Elsewhere

LEMMA IdsMeaning == IdsInv => ReadableIdsAreUnique
<1> SUFFICES ASSUME IdsInv PROVE ReadableIdsAreUnique
  OBVIOUS
<1>1. ASSUME NEW r \in Kept, NEW c \in Clients, r.tx = tx[c].id PROVE r.value = tx[c].serial
  <2>1. pc[c] # "idle"
    <3>1. r.tx >= 1 /\ r.tx \in Nat
      BY KeptTypes DEF IdsInv, CounterOK
    <3>. QED
      BY <1>1, <3>1 DEF IdsInv, CounterOK, NoTx
  <2>. QED
    BY <1>1, <2>1 DEF IdsInv, OwnerOK
<1>. QED
  BY <1>1 DEF IdsInv, OwnerOK, ReadableIdsAreUnique, UniqueAmong, Appended, Kept, All

\* Recovery never takes the records of two transactions for one: begin_transaction()
\* and the fetch_max() of recovery keep NEXT_TX_ID past every id of a record that
\* can be read, whatever crashes, torn records and I/O errors do.
THEOREM ReadableIdsUnique == Spec => []ReadableIdsAreUnique
<1>1. Init => IdsInv
  BY IdsInit
<1>2. IdsInv /\ [Next]_vars => IdsInv'
  BY IdsStep
<1>3. IdsInv => ReadableIdsAreUnique
  BY IdsMeaning
<1>. QED
  BY <1>1, <1>2, <1>3, PTL DEF Spec

NothingTorn == Torn \notin ToSet(file)

\* Records are torn by failed writes and by crashes only.
LEMMA TornStep ==
    ASSUME ~TornWrites, MaxIoErrors = 0, Typed, NothingTorn, [Next]_vars
    PROVE  NothingTorn'
<1>0. /\ LogTyped /\ errors \in Nat /\ Torn \notin Records
  BY DatabaseAssumption DEF Typed
<1>1. CASE UNCHANGED file
  BY <1>1 DEF NothingTorn
<1>2. ASSUME NEW d \in Drainers, Wal!Write(d) PROVE NothingTorn'
  <2>1. /\ file \in Seq(Records \cup {Torn}) /\ batch[d] \in Seq(Records \cup {Torn})
        /\ Torn \notin ToSet(batch[d])
    BY <1>0 DEF LogTyped, ToSet
  <2>2. ToSet(file') = ToSet(file) \cup ToSet(batch[d])
    BY <1>2, <2>1, ConcatElements DEF Wal!Write
  <2>. QED
    BY <2>1, <2>2 DEF NothingTorn
<1>3. CASE Crash
  <2>1. PICK k \in synced..Len(file) : file' = SubSeq(file, 1, k)
    BY <1>3 DEF Crash
  <2>2. file \in Seq(Records \cup {Torn}) /\ k \in 0..Len(file)
    BY <1>0, <2>1 DEF LogTyped
  <2>3. ToSet(file') = { file[i] : i \in 1..k }
    BY <2>1, <2>2, PrefixElements
  <2>4. ToSet(file) = { file[i] : i \in 1..Len(file) } /\ 1..k \subseteq 1..Len(file)
    BY <2>2 DEF ToSet
  <2>. QED
    BY <2>3, <2>4 DEF NothingTorn
<1>4. ~FlusherFail /\ \A c \in Clients : ~FlushErr(c)
  BY <1>0 DEF FlusherFail, FlushErr
<1>5. ASSUME NEW c \in Clients,
             \/ Begin(c) \/ AppendOp(c) \/ AddEntry(c) \/ CommitCall(c) \/ AbortCall(c)
             \/ GiveUp(c) \/ FlushOk(c) \/ Apply(c) \/ CommitOk(c)
      PROVE  UNCHANGED file
  BY <1>5 DEF Begin, AppendOp, AddEntry, CommitCall, AbortCall, GiveUp, FlushOk, Apply, CommitOk,
              Wal!Push, Wal!Ack, Wal!log, walVars
<1>6. ASSUME NEW d \in Drainers, Drain(d) PROVE NothingTorn'
  <2>1. CASE Wal!Pop(d) \/ Wal!Sync(d)
    BY <1>1, <2>1 DEF Wal!Pop, Wal!Sync
  <2>. QED
    BY <1>2, <1>6, <2>1 DEF Drain
<1>7. CASE Recover \/ UNCHANGED vars
  BY <1>1, <1>7 DEF Recover, vars, walVars
<1>. QED
  BY <1>1, <1>3, <1>4, <1>5, <1>6, <1>7, DrainersAre DEF Next, Elsewhere

\* While no record is torn, neither by a crash nor by a failed write, no id is
\* given out again as long as a record with it is left in the file: what the doc of
\* Transaction::new() promises, under the condition it needs.
THEOREM IdsUnique ==
    ASSUME ~TornWrites, MaxIoErrors = 0
    PROVE  Spec => []IdsAreUnique
<1>1. Init => IdsInv /\ NothingTorn
  BY IdsInit DEF Init, Wal!LogInit, NothingTorn, ToSet
<1>2. IdsInv /\ NothingTorn /\ [Next]_vars => (IdsInv /\ NothingTorn)'
  BY IdsStep, TornStep DEF IdsInv
<1>3. IdsInv /\ NothingTorn => IdsAreUnique
  <2>1. ASSUME NothingTorn PROVE Readable(file) = file /\ ToSet(file) \ {Torn} = ToSet(file)
    BY <2>1 DEF NothingTorn, Readable, ToSet
  <2>. QED
    BY <2>1, IdsMeaning DEF ReadableIdsAreUnique, IdsAreUnique
<1>. QED
  BY <1>1, <1>2, <1>3, PTL DEF Spec

-----------------------------------------------------------------------------
(* Durability, while flush() stays within its polling budget and crashes   *)
(* tear no record                                                          *)

Synced == ToSet(SubSeq(file, 1, synced))

\* Only the flusher drains, and all of the file is on disk but for the batch it
\* is writing.
FlusherOnlyOK ==
    /\ \A c \in Clients : batch[c] = <<>>
    /\ writing \in {Nobody, Flusher}
    /\ writing = Nobody => synced = Len(file)
    /\ writing = Flusher => batch[Flusher] # <<>> /\ ToSet(batch[Flusher]) \subseteq ToSet(file)
    /\ Torn \notin ToSet(file)

\* An appended record is on its way or in the file; once its flush() has
\* returned it is on disk.
ArrivedOK ==
    /\ \A c \in Clients : mine[c] \subseteq ToSet(queue) \cup ToSet(batch[Flusher]) \cup ToSet(file)
    /\ \A c \in Clients : pc[c] = "applying" => mine[c] \subseteq Synced
    /\ promised \subseteq Synced

DurInv == Typed /\ FlusherOnlyOK /\ ArrivedOK /\ errors = 0

\* What keeps every flush() within its polling budget: a disk that is never too
\* slow for it, and no failed batch, after which pending_count is never zero.
Punctual == ~PollExpires /\ MaxIoErrors = 0

LEMMA NoErrorsStep ==
    ASSUME Punctual, errors = 0, [Next]_vars
    PROVE  errors' = 0
<1>1. ~FlusherFail /\ \A c \in Clients : ~FlushErr(c)
  BY DEF FlusherFail, FlushErr, Punctual
<1>2. ASSUME Recover \/ Crash \/ UNCHANGED vars PROVE UNCHANGED errors
  BY <1>2 DEF Recover, Crash, vars, history
<1>3. ASSUME NEW c \in Clients,
             Begin(c) \/ AppendOp(c) \/ AddEntry(c) \/ CommitCall(c) \/ AbortCall(c) \/ GiveUp(c)
             \/ FlushOk(c) \/ CommitOk(c) \/ Apply(c)
      PROVE  UNCHANGED errors
  BY <1>3 DEF Begin, AppendOp, AddEntry, CommitCall, AbortCall, GiveUp, FlushOk, CommitOk, Apply, history
<1>4. ASSUME NEW d \in Wal!Drainers, Drain(d) PROVE UNCHANGED errors
  BY <1>4 DEF Drain, history
<1>. QED
  BY <1>1, <1>2, <1>3, <1>4 DEF Next, Elsewhere

LEMMA SyncedFacts ==
    ASSUME Typed
    PROVE  Synced \subseteq ToSet(file) /\ (synced = Len(file) => Synced = ToSet(file))
<1>1. Synced = { file[i] : i \in 1..synced }
  BY PrefixElements DEF Synced, Typed, LogTyped
<1>2. ToSet(file) = { file[i] : i \in 1..Len(file) } /\ synced \in 0..Len(file) /\ Len(file) \in Nat
  BY DEF ToSet, Typed, LogTyped
<1>. QED
  BY <1>1, <1>2

LEMMA NothingElements == ToSet(<<>>) = {}
BY DEF ToSet

LEMMA DurInit == Init => DurInv
<1> SUFFICES ASSUME Init PROVE DurInv
  OBVIOUS
<1>1. Typed /\ ToSet(file) = {} /\ Synced \subseteq {}
  BY TypedInit, SyncedFacts, NothingElements DEF Init, Wal!LogInit
<1>2. FlusherOnlyOK
  BY <1>1, DrainersAre, DatabaseAssumption DEF Init, Wal!LogInit, FlusherOnlyOK, Drainers
<1>3. ArrivedOK
  BY <1>1 DEF Init, Wal!LogInit, ArrivedOK
<1>. QED
  BY <1>1, <1>2, <1>3 DEF Init, DurInv

\* Steps that leave the log alone.
LEMMA DurStill ==
    ASSUME DurInv, UNCHANGED <<queue, batch, writing, file, synced, mine>>,
           \A c \in Clients : pc'[c] = "applying" => pc[c] = "applying",
           promised' \subseteq promised \cup Synced
    PROVE  FlusherOnlyOK' /\ ArrivedOK'
<1>1. Synced' = Synced
  BY DEF Synced
<1>. QED
  BY <1>1 DEF DurInv, FlusherOnlyOK, ArrivedOK

\* append() by a transaction that is not applying its operations.
LEMMA DurPush ==
    ASSUME DurInv, NEW c \in Clients, NEW e \in Records, Wal!Push(c, e), pc[c] # "applying",
           \A o \in Clients : pc'[o] = "applying" => pc[o] = "applying",
           promised' = promised
    PROVE  FlusherOnlyOK' /\ ArrivedOK'
<1>1. /\ UNCHANGED <<batch, writing, file, synced>> /\ Synced' = Synced
      /\ ToSet(queue') = ToSet(queue) \cup {e}
      /\ \A o \in Clients : mine'[o] = IF o = c THEN mine[o] \cup {e} ELSE mine[o]
  <2>1. /\ UNCHANGED <<batch, writing, file, synced>> /\ queue' = Append(queue, e)
        /\ mine' = [mine EXCEPT ![c] = @ \cup {e}]
    BY DEF Wal!Push
  <2>2. queue \in Seq(Records) /\ mine \in [Clients -> SUBSET Records]
    BY DEF DurInv, Typed, LogTyped
  <2>3. ToSet(queue') = ToSet(queue) \cup {e}
    BY <2>1, <2>2, AppendElements
  <2>. QED
    BY <2>1, <2>2, <2>3 DEF Synced
<1>. QED
  BY <1>1 DEF DurInv, FlusherOnlyOK, ArrivedOK

LEMMA DurDrain ==
    ASSUME DurInv, Wal!Pop(Flusher) \/ Wal!Write(Flusher) \/ Wal!Sync(Flusher),
           UNCHANGED <<pc, promised>>
    PROVE  FlusherOnlyOK' /\ ArrivedOK'
<1>0. /\ Typed /\ FlusherOnlyOK /\ ArrivedOK /\ Flusher \in Drainers
      /\ Flusher \notin Clients /\ Nobody # Flusher
      /\ DOMAIN batch = Drainers /\ Clients \subseteq Drainers
  BY DatabaseAssumption DEF DurInv, Drainers, Typed, LogTyped
<1>1. CASE Wal!Pop(Flusher)
  <2>1. /\ UNCHANGED <<writing, file, synced, mine>> /\ Synced' = Synced /\ writing # Flusher
    BY <1>1 DEF Wal!Pop, Synced
  <2>2. /\ Head(queue) \in Records
        /\ ToSet(queue) = {Head(queue)} \cup ToSet(queue')
    BY <1>0, <1>1, TailElements DEF Wal!Pop, Typed, LogTyped
  <2>3. ToSet(batch'[Flusher]) = ToSet(batch[Flusher]) \cup {Head(queue)}
    BY <1>0, <1>1, <2>2, AppendElements DEF Wal!Pop, Typed, LogTyped
  <2>4. \A c \in Clients : batch'[c] = batch[c]
    BY <1>0, <1>1 DEF Wal!Pop
  <2>. QED
    BY <1>0, <2>1, <2>2, <2>3, <2>4 DEF FlusherOnlyOK, ArrivedOK
<1>2. CASE Wal!Write(Flusher)
  <2>1. batch[Flusher] \in Seq(Records \cup {Torn}) /\ Torn \notin ToSet(batch[Flusher])
    BY <1>0, DatabaseAssumption DEF Typed, LogTyped, ToSet
  <2>2. ToSet(file') = ToSet(file) \cup ToSet(batch[Flusher]) /\ Synced' = Synced
    BY <1>0, <1>2, <2>1, ConcatElements, PrefixOfConcat DEF Wal!Write, Synced, Typed, LogTyped
  <2>3. /\ UNCHANGED <<queue, batch, synced, mine>> /\ writing' = Flusher /\ batch[Flusher] # <<>>
    BY <1>2 DEF Wal!Write
  <2>. QED
    BY <1>0, <2>1, <2>2, <2>3 DEF FlusherOnlyOK, ArrivedOK
<1>3. CASE Wal!Sync(Flusher)
  <2>1. /\ UNCHANGED <<queue, file, mine>> /\ writing' = Nobody /\ synced' = Len(file)
        /\ writing = Flusher
        /\ batch'[Flusher] = <<>> /\ \A c \in Clients : batch'[c] = batch[c]
    BY <1>0, <1>3 DEF Wal!Sync
  <2>2. ToSet(SubSeq(file, 1, Len(file))) = ToSet(file) /\ Synced \subseteq ToSet(file)
    <3>1. SubSeq(file, 1, Len(file)) = file
      BY <1>0 DEF Typed, LogTyped
    <3>. QED
      BY <1>0, <3>1, SyncedFacts
  <2>3. Synced' = ToSet(file) /\ ToSet(batch'[Flusher]) = {}
    BY <2>1, <2>2, NothingElements DEF Synced
  <2>. QED
    BY <1>0, <2>1, <2>2, <2>3 DEF FlusherOnlyOK, ArrivedOK
<1>. QED
  BY <1>1, <1>2, <1>3

LEMMA DurCrash ==
    ASSUME DurInv, Crash, ~TornWrites
    PROVE  FlusherOnlyOK' /\ ArrivedOK'
<1>0. Typed /\ FlusherOnlyOK /\ ArrivedOK
  BY DEF DurInv
<1>1. PICK k \in synced..Len(file) : file' = SubSeq(file, 1, k)
  BY DEF Crash
<1>2. /\ file \in Seq(Records \cup {Torn}) /\ k \in 0..Len(file)
      /\ synced \in Nat /\ synced <= k /\ Len(file) \in Nat
  BY <1>0, <1>1 DEF Typed, LogTyped
<1>3. /\ file' \in Seq(Records \cup {Torn}) /\ Len(file') = k
      /\ ToSet(file') = { file[i] : i \in 1..k }
  BY <1>1, <1>2, SubSeqProperties, PrefixElements
<1>4. Synced = { file[i] : i \in 1..synced } /\ ToSet(file) = { file[i] : i \in 1..Len(file) }
  <2>1. synced \in 0..Len(file)
    BY <1>0 DEF Typed, LogTyped
  <2>2. Synced = { file[i] : i \in 1..synced }
    BY <1>2, <2>1, PrefixElements DEF Synced
  <2>. QED
    BY <1>2, <2>2 DEF ToSet
<1>5. Synced \subseteq ToSet(file') /\ ToSet(file') \subseteq ToSet(file)
  BY <1>2, <1>3, <1>4
<1>6. synced' = Len(file') /\ Synced' = ToSet(file')
  <2>1. synced' = Len(file') /\ SubSeq(file', 1, Len(file')) = file'
    BY <1>3 DEF Crash
  <2>. QED
    BY <2>1 DEF Synced
<1>7. FlusherOnlyOK'
  BY <1>0, <1>5, <1>6, DrainersAre, DatabaseAssumption DEF Crash, FlusherOnlyOK, Drainers
<1>8. ArrivedOK'
  BY <1>0, <1>5, <1>6 DEF Crash, ArrivedOK
<1>. QED
  BY <1>7, <1>8

LEMMA DurStep ==
    ASSUME DurInv, [Next]_vars, Punctual, ~TornWrites
    PROVE  DurInv'
<1>. USE DrainersAre
<1>0. Typed /\ Typed' /\ FlusherOnlyOK /\ ArrivedOK /\ errors = 0 /\ errors' = 0
  BY TypedStep, NoErrorsStep DEF DurInv
<1> SUFFICES FlusherOnlyOK' /\ ArrivedOK'
  BY <1>0 DEF DurInv
<1>1. CASE Recover \/ UNCHANGED vars
  BY <1>1, DurStill DEF Recover, vars, walVars, history
<1>2. CASE Crash
  BY <1>2, DurCrash
<1>3. ASSUME NEW c \in Clients, Begin(c) \/ AddEntry(c) \/ GiveUp(c) \/ Apply(c)
      PROVE  FlusherOnlyOK' /\ ArrivedOK'
  <2>1. UNCHANGED <<queue, batch, writing, file, synced, mine, promised>>
    BY <1>3 DEF Begin, AddEntry, GiveUp, Apply, walVars, history
  <2>2. \A o \in Clients : pc'[o] = "applying" => pc[o] = "applying"
    BY <1>0, <1>3 DEF Begin, AddEntry, Buffer, GiveUp, Apply, Typed
  <2>. QED
    BY <2>1, <2>2, DurStill
<1>4. ASSUME NEW c \in Clients, CommitOk(c) PROVE FlusherOnlyOK' /\ ArrivedOK'
  <2>1. UNCHANGED <<queue, batch, writing, file, synced, mine>>
    BY <1>4 DEF CommitOk, walVars
  <2>2. \A o \in Clients : pc'[o] = "applying" => pc[o] = "applying"
    BY <1>0, <1>4 DEF CommitOk, Typed
  <2>3. promised' \subseteq promised \cup Synced
    BY <1>0, <1>4 DEF CommitOk, ArrivedOK
  <2>. QED
    BY <2>1, <2>2, <2>3, DurStill
<1>5. ASSUME NEW c \in Clients, AppendOp(c) PROVE FlusherOnlyOK' /\ ArrivedOK'
  <2>1. PICK op \in NewOps(c) : Buffer(c, op) /\ Wal!Push(c, op)
    BY <1>5 DEF AppendOp
  <2>2. op \in Records /\ pc[c] # "applying" /\ pc' = pc /\ promised' = promised
    BY <1>0, <1>5, <2>1, NewRecords DEF AppendOp, Buffer, history
  <2>. QED
    BY <2>1, <2>2, DurPush
<1>6. ASSUME NEW c \in Clients, CommitCall(c) \/ AbortCall(c) PROVE FlusherOnlyOK' /\ ArrivedOK'
  <2>1. PICK kind \in {"commit", "abort"} : Wal!Push(c, EndRecord(tx[c], kind))
    BY <1>6 DEF CommitCall, AbortCall
  <2>2. EndRecord(tx[c], kind) \in Records
    BY <1>0, NewRecords
  <2>3. /\ pc[c] # "applying" /\ promised' = promised
        /\ \A o \in Clients : pc'[o] = "applying" => pc[o] = "applying"
    BY <1>0, <1>6 DEF CommitCall, AbortCall, Typed, history
  <2>. QED
    BY <2>1, <2>2, <2>3, DurPush
<1>7. ASSUME NEW c \in Clients, FlushOk(c) PROVE FlusherOnlyOK' /\ ArrivedOK'
  <2>1. /\ queue = <<>> /\ \A d \in Drainers : batch[d] = <<>>
        /\ UNCHANGED <<queue, batch, writing, file, synced, mine, promised>>
    BY <1>0, <1>7 DEF FlushOk, PollsMayExpire, Punctual, Wal!Ack, Wal!log, history
  <2>2. synced = Len(file) /\ ToSet(file) = Synced
    BY <1>0, <2>1, SyncedFacts DEF FlusherOnlyOK, Drainers
  <2>3. \A o \in Clients : mine[o] \subseteq Synced
    BY <1>0, <2>1, <2>2, NothingElements DEF ArrivedOK, Drainers
  <2>4. Synced' = Synced
    BY <2>1 DEF Synced
  <2>. QED
    BY <1>0, <2>1, <2>3, <2>4 DEF FlusherOnlyOK, ArrivedOK
<1>8. ASSUME NEW d \in Drainers, Drain(d) PROVE FlusherOnlyOK' /\ ArrivedOK'
  <2>1. d = Flusher
    BY <1>0, <1>8 DEF Drain, MayDrain, PollsMayExpire, Punctual, Drainers
  <2>2. UNCHANGED <<pc, promised>>
    BY <1>8 DEF Drain, history
  <2>. QED
    BY <1>8, <2>1, <2>2, DurDrain DEF Drain
<1>9. ~FlusherFail /\ \A c \in Clients : ~FlushErr(c)
  BY <1>0 DEF FlusherFail, FlushErr, Punctual
<1>. QED
  BY <1>1, <1>2, <1>3, <1>4, <1>5, <1>6, <1>7, <1>8, <1>9 DEF Next, Elsewhere

\* Without a torn record all that is synced is what recovery reads.
LEMMA OnDiskIs ==
    ASSUME DurInv
    PROVE  OnDisk = SubSeq(file, 1, synced) /\ ToSet(OnDisk) = Synced
<1>1. file \in Seq(Records \cup {Torn}) /\ synced \in 0..Len(file)
  BY DEF DurInv, Typed, LogTyped
<1>2. \A i \in 1..synced : SubSeq(file, 1, synced)[i] # Torn
  BY <1>1, SubSeqProperties DEF DurInv, FlusherOnlyOK, ToSet
<1>3. DOMAIN SubSeq(file, 1, synced) = 1..synced
  BY <1>1, SubSeqProperties
<1>. QED
  BY <1>2, <1>3 DEF OnDisk, Readable, Synced

LEMMA DurMeaning == DurInv => CommittedIsDurable
BY OnDiskIs DEF DurInv, ArrivedOK, CommittedIsDurable

\* commit() => Ok is for good: while no batch fails, flush() stays within its
\* polling budget and a crash tears no record, every record of every transaction
\* whose commit() has returned Ok is where all later recoveries read it.
THEOREM Durable ==
    ASSUME Punctual, ~TornWrites
    PROVE  Spec => []CommittedIsDurable
<1>1. Init => DurInv
  BY DurInit
<1>2. DurInv /\ [Next]_vars => DurInv'
  BY DurStep
<1>3. DurInv => CommittedIsDurable
  BY DurMeaning
<1>. QED
  BY <1>1, <1>2, <1>3, PTL DEF Spec

-----------------------------------------------------------------------------
(* Who wrote what: the records and the transactions of every serial *)

\* Every record there is: in memory, and in the file, also behind a torn record
\* where no recovery reads it.
Logged == (ToSet(file) \ {Torn}) \cup All

\* A serial is used once, by a transaction begun, and every record and every
\* operation still to be applied carries the serial of its transaction.
SerialOK ==
    /\ serial <= MaxTxs
    /\ \A r \in Logged : r.value \in 1..serial
    /\ \A c \in Clients : pc[c] # "idle" =>
          /\ tx[c].serial \in 1..serial
          /\ \A op \in ToSet(tx[c].ops) : op.value = tx[c].serial
    /\ \A c, d \in Clients :
          c # d /\ pc[c] # "idle" /\ pc[d] # "idle" => tx[c].serial # tx[d].serial

\* A transaction that was rolled back has no Commit record anywhere, one with
\* an Abort record was rolled back, and an active one has neither.
OutcomeOK ==
    /\ rolledBack \subseteq 1..serial
    /\ \A r \in Logged : /\ r.kind = "commit" => r.value \notin rolledBack
                         /\ r.kind = "abort" => r.value \in rolledBack
    /\ \A c \in Clients :
          /\ pc[c] \in {"active", "committing", "applying"} => tx[c].serial \notin rolledBack
          /\ pc[c] = "active" => \A r \in Logged : r.kind = "commit" => r.value # tx[c].serial

OutInv == IdsInv /\ SerialOK /\ OutcomeOK

LEMMA LoggedFacts ==
    ASSUME Typed
    PROVE  Logged \subseteq Records /\ Kept \subseteq Logged
<1>1. All \subseteq Records
  BY DEF All, Typed, LogTyped
<1>2. ToSet(file) \subseteq Records \cup {Torn}
  BY DEF ToSet, Typed, LogTyped
<1>3. ToSet(Readable(file)) \subseteq ToSet(file) \ {Torn}
  <2>1. /\ ToSet(Readable(file)) =
             { file[i] : i \in { j \in 1..Len(file) : \A h \in 1..j : file[h] # Torn } }
        /\ Readable(file) \in Seq(Records)
    BY ReadableElements DEF Typed, LogTyped
  <2>2. ToSet(Readable(file)) \subseteq Records
    BY <2>1 DEF ToSet
  <2>3. ToSet(Readable(file)) \subseteq ToSet(file)
    <3>1. DOMAIN file = 1..Len(file)
      BY DEF Typed, LogTyped
    <3>2. \A i \in 1..Len(file) : file[i] \in ToSet(file)
      BY <3>1 DEF ToSet
    <3>. QED
      BY <2>1, <3>2
  <2>. QED
    BY <2>2, <2>3, DatabaseAssumption
<1>. QED
  BY <1>1, <1>2, <1>3 DEF Logged, Kept

LEMMA LoggedPush ==
    ASSUME Typed, NEW c \in Clients, NEW e \in Records, Wal!Push(c, e)
    PROVE  Logged' = Logged \cup {e}
<1>1. All' = All \cup {e} /\ file' = file
  BY DEF Wal!Push, All, Typed, LogTyped
<1>. QED
  BY <1>1 DEF Logged

LEMMA LoggedDrain ==
    ASSUME Typed, CarriedOK, NEW d \in Drainers,
           Wal!Pop(d) \/ Wal!Write(d) \/ Wal!Sync(d) \/ Wal!Fail(d)
    PROVE  Logged' \subseteq Logged
<1>1. All' = All
  BY DEF Wal!Pop, Wal!Write, Wal!Sync, Wal!Fail, All
<1>2. ASSUME NEW part \in Seq(Records \cup {Torn}), file' = file \o part,
             ToSet(part) \subseteq ToSet(batch[d]) \cup {Torn}
      PROVE  Logged' \subseteq Logged
  <2>1. ToSet(file') = ToSet(file) \cup ToSet(part)
    BY <1>2, ConcatElements DEF Typed, LogTyped
  <2>. QED
    BY <1>1, <1>2, <2>1 DEF Logged, CarriedOK
<1>3. CASE UNCHANGED file
  BY <1>1, <1>3 DEF Logged
<1>4. CASE Wal!Write(d)
  <2>1. batch[d] \in Seq(Records \cup {Torn})
    BY DEF Typed, LogTyped
  <2>. QED
    BY <1>2, <1>4, <2>1 DEF Wal!Write
<1>5. ASSUME NEW part, part \in Wal!PartOf(batch[d]), file' = file \o part
      PROVE  Logged' \subseteq Logged
  BY <1>2, <1>5, PartType DEF Typed, LogTyped
<1>. QED
  BY <1>3, <1>4, <1>5 DEF Wal!Pop, Wal!Sync, Wal!Fail

LEMMA LoggedCrash ==
    ASSUME Typed, Crash
    PROVE  Logged' \subseteq Logged
<1>1. PICK k \in synced..Len(file) :
         file' = SubSeq(file, 1, k) \/ file' = SubSeq(file, 1, k) \o <<Torn>>
  BY DEF Crash
<1>2. All' = {}
  BY DEF Crash, All
<1> DEFINE S == Records \cup {Torn}
           p == SubSeq(file, 1, k)
           torn == <<Torn>>
<1>3. k \in 0..Len(file) /\ file \in Seq(S) /\ Len(file) \in Nat
  BY <1>1 DEF Typed, LogTyped
<1>4. p \in Seq(S) /\ ToSet(p) = { file[i] : i \in 1..k }
  BY <1>3, SubSeqProperties, PrefixElements
<1>5. ToSet(p) \subseteq ToSet(file)
  <2>1. \A i \in 1..k : i \in DOMAIN file
    BY <1>3
  <2>. QED
    BY <1>4, <2>1 DEF ToSet
<1>6. torn \in Seq(S) /\ ToSet(torn) = {Torn}
  BY DEF ToSet
<1>7. ToSet(p \o torn) = ToSet(p) \cup {Torn}
  <2>. HIDE DEF S, p, torn
  <2>. QED
    BY <1>4, <1>6, ConcatElements
<1>. QED
  BY <1>1, <1>2, <1>5, <1>7 DEF Logged

\* A transaction goes on: it keeps its serial, and buffers only its own.
Continues(c) ==
    /\ tx'[c].serial = tx[c].serial
    /\ \A op \in ToSet(tx'[c].ops) : op \in ToSet(tx[c].ops) \/ op.value = tx[c].serial

\* Steps that add no record and roll nothing back.
LEMMA OutShrink ==
    ASSUME SerialOK, OutcomeOK, Logged' \subseteq Logged, UNCHANGED <<serial, rolledBack>>,
           \A c \in Clients :
              \/ pc'[c] = "idle"
              \/ /\ pc[c] # "idle" /\ Continues(c)
                 /\ pc'[c] = "active" => pc[c] = "active"
                 /\ pc'[c] \in {"committing", "applying"} => pc[c] \in {"committing", "applying"}
    PROVE  SerialOK' /\ OutcomeOK'
<1>1. SerialOK'
  BY DEF SerialOK, Continues
<1>2. OutcomeOK'
  BY DEF OutcomeOK, Continues
<1>. QED
  BY <1>1, <1>2

\* The appends of an active transaction.
LEMMA OutPush ==
    ASSUME Typed, SerialOK, OutcomeOK, NEW c \in Clients, pc[c] = "active", UNCHANGED serial,
           NEW e \in Records, e.value = tx[c].serial, Logged' = Logged \cup {e},
           \A o \in Clients : Continues(o) /\ (o # c => pc'[o] = pc[o]),
           \/ IsOp(e) /\ pc'[c] = "active" /\ UNCHANGED rolledBack
           \/ e.kind = "commit" /\ pc'[c] = "committing" /\ UNCHANGED rolledBack
           \/ /\ e.kind = "abort" /\ pc'[c] = "aborting"
              /\ rolledBack' = rolledBack \cup {tx[c].serial}
    PROVE  SerialOK' /\ OutcomeOK'
<1>1. \A o \in Clients : pc'[o] # "idle" => pc[o] # "idle"
  OBVIOUS
<1>2. tx[c].serial \in 1..serial
  BY DEF SerialOK
<1>3. SerialOK'
  BY <1>1, <1>2 DEF SerialOK, Continues
<1>4. \A o \in Clients : o # c /\ pc[o] # "idle" => tx[o].serial # tx[c].serial
  BY DEF SerialOK
<1>5. \A o \in Clients : o # c => pc'[o] = pc[o] /\ tx'[o].serial = tx[o].serial
  BY DEF Continues
<1>6. tx'[c].serial = tx[c].serial
  BY DEF Continues
<1>7. tx[c].serial \notin rolledBack
  BY DEF OutcomeOK
<1>8. /\ rolledBack' \subseteq rolledBack \cup {tx[c].serial}
      /\ rolledBack \subseteq rolledBack'
      /\ e.kind = "commit" => tx[c].serial \notin rolledBack'
      /\ e.kind = "abort" => tx[c].serial \in rolledBack'
      /\ pc'[c] \in {"active", "committing", "applying"} => tx[c].serial \notin rolledBack'
      /\ pc'[c] = "active" => e.kind # "commit"
  BY <1>7 DEF IsOp, OpKinds
<1>9. rolledBack' \subseteq 1..serial'
  BY <1>2, <1>8 DEF OutcomeOK
<1>10. ASSUME NEW r \in Logged'
       PROVE  /\ r.kind = "commit" => r.value \notin rolledBack'
              /\ r.kind = "abort" => r.value \in rolledBack'
  <2>1. CASE r = e
    BY <1>8, <2>1
  <2>2. CASE r \in Logged
    BY <1>8, <2>2 DEF OutcomeOK
  <2>. QED
    BY <1>10, <2>1, <2>2
<1>11. ASSUME NEW o \in Clients
       PROVE  /\ pc'[o] \in {"active", "committing", "applying"} => tx'[o].serial \notin rolledBack'
              /\ pc'[o] = "active" =>
                    \A r \in Logged' : r.kind = "commit" => r.value # tx'[o].serial
  <2>1. CASE o = c
    <3>1. \A r \in Logged : r.kind = "commit" => r.value # tx[c].serial
      BY DEF OutcomeOK
    <3>. QED
      BY <1>6, <1>8, <2>1, <3>1
  <2>2. CASE o # c
    <3>1. pc'[o] = pc[o] /\ tx'[o].serial = tx[o].serial
      BY <1>5, <2>2
    <3>2. pc[o] # "idle" => tx[o].serial # tx[c].serial
      BY <1>4, <2>2
    <3>3. pc[o] \in {"active", "committing", "applying"} => tx[o].serial \notin rolledBack'
      BY <1>8, <3>2 DEF OutcomeOK
    <3>4. pc[o] = "active" => \A r \in Logged : r.kind = "commit" => r.value # tx[o].serial
      BY DEF OutcomeOK
    <3>. QED
      BY <3>1, <3>2, <3>3, <3>4
  <2>. QED
    BY <2>1, <2>2
<1>12. OutcomeOK'
  BY <1>9, <1>10, <1>11 DEF OutcomeOK
<1>. QED
  BY <1>3, <1>12

LEMMA OutInit == Init => OutInv
<1> SUFFICES ASSUME Init PROVE SerialOK /\ OutcomeOK
  BY IdsInit DEF OutInv
<1>1. Logged = {}
  <2>1. ToSet(<<>>) = {}
    BY DEF ToSet
  <2>. QED
    BY <2>1 DEF Init, Wal!LogInit, Logged, All
<1>2. 0 <= MaxTxs
  BY DatabaseAssumption
<1>. QED
  BY <1>1, <1>2 DEF Init, SerialOK, OutcomeOK

\* What a step buffers is an operation of its own transaction.
LEMMA BufferContinues ==
    ASSUME Typed, NEW c \in Clients, NEW op \in NewOps(c), Buffer(c, op)
    PROVE  \A o \in Clients : Continues(o)
<1>1. op \in Records /\ op.value = tx[c].serial
  BY NewRecords
<1>2. ToSet(Append(tx[c].ops, op)) = ToSet(tx[c].ops) \cup {op}
  BY <1>1, AppendElements DEF Typed
<1>3. \A o \in Clients : /\ o # c => tx'[o] = tx[o]
                         /\ tx'[c].ops = Append(tx[c].ops, op) /\ tx'[c].serial = tx[c].serial
  BY DEF Buffer, Typed
<1>. QED
  BY <1>1, <1>2, <1>3 DEF Continues

LEMMA OutStep ==
    ASSUME OutInv, [Next]_vars
    PROVE  OutInv'
<1>. USE DrainersAre
<1>0. /\ IdsInv /\ IdsInv' /\ SerialOK /\ OutcomeOK
      /\ Typed /\ Typed' /\ CarriedOK /\ CounterOK
  BY IdsStep DEF OutInv, IdsInv
<1> SUFFICES SerialOK' /\ OutcomeOK'
  BY <1>0 DEF OutInv
<1>1. CASE Recover \/ UNCHANGED vars
  <2>1. UNCHANGED <<file, mine, pc, tx, serial, rolledBack>>
    BY <1>1 DEF Recover, vars, walVars, history
  <2>2. Logged' = Logged /\ \A c \in Clients : Continues(c)
    BY <2>1 DEF Logged, All, Continues
  <2>. QED
    BY <1>0, <2>1, <2>2, OutShrink
<1>2. CASE Crash
  <2>1. Logged' \subseteq Logged /\ UNCHANGED <<serial, rolledBack>> /\ \A c \in Clients : pc'[c] = "idle"
    BY <1>0, <1>2, LoggedCrash DEF Crash
  <2>. QED
    BY <1>0, <2>1, OutShrink
<1>3. ASSUME NEW c \in Clients, Begin(c) PROVE SerialOK' /\ OutcomeOK'
  <2>1. /\ Logged' = Logged /\ serial' = serial + 1 /\ serial \in Nat /\ serial < MaxTxs
        /\ rolledBack' = rolledBack /\ MaxTxs \in Nat
        /\ tx'[c].serial = serial' /\ ToSet(tx'[c].ops) = {} /\ pc'[c] = "active"
        /\ \A o \in Clients \ {c} : tx'[o] = tx[o] /\ pc'[o] = pc[o]
    BY <1>0, <1>3, NothingElements, DatabaseAssumption
       DEF Begin, walVars, Logged, All, Typed
  <2>2. serial' \notin 1..serial /\ 1..serial \subseteq 1..serial' /\ serial' \in 1..serial' /\ serial' <= MaxTxs
    BY <2>1
  <2>3. SerialOK'
    BY <1>0, <2>1, <2>2 DEF SerialOK
  <2>4. OutcomeOK'
    <3>1. \A r \in Logged : r.value # serial'
      BY <1>0, <2>2 DEF SerialOK
    <3>. QED
      BY <1>0, <2>1, <2>2, <3>1 DEF OutcomeOK
  <2>. QED
    BY <2>3, <2>4
<1>4. ASSUME NEW c \in Clients, AppendOp(c) PROVE SerialOK' /\ OutcomeOK'
  <2>1. PICK op \in NewOps(c) : Buffer(c, op) /\ Wal!Push(c, op)
    BY <1>4 DEF AppendOp
  <2>2. op \in Records /\ op.value = tx[c].serial /\ IsOp(op)
    BY <1>0, NewRecords, DatabaseAssumption DEF NewOps, IsOp
  <2>3. pc[c] = "active" /\ UNCHANGED <<pc, serial, rolledBack>>
    BY <1>4, <2>1 DEF AppendOp, Buffer, history
  <2>4. Logged' = Logged \cup {op} /\ \A o \in Clients : Continues(o)
    BY <1>0, <2>1, <2>2, LoggedPush, BufferContinues
  <2>. QED
    BY <1>0, <2>2, <2>3, <2>4, OutPush
<1>5. ASSUME NEW c \in Clients, AddEntry(c) PROVE SerialOK' /\ OutcomeOK'
  <2>1. Logged' = Logged /\ UNCHANGED <<pc, serial, rolledBack>>
    BY <1>5 DEF AddEntry, walVars, history, Logged, All
  <2>2. \A o \in Clients : Continues(o)
    BY <1>0, <1>5, BufferContinues DEF AddEntry
  <2>. QED
    BY <1>0, <2>1, <2>2, OutShrink
<1>6. ASSUME NEW c \in Clients, CommitCall(c) PROVE SerialOK' /\ OutcomeOK'
  <2>1. PICK e \in Records : e = EndRecord(tx[c], "commit") /\ e.value = tx[c].serial
    BY <1>0, NewRecords
  <2>2. e.kind = "commit" /\ Logged' = Logged \cup {e}
    BY <1>0, <1>6, <2>1, LoggedPush DEF CommitCall, EndRecord
  <2>3. /\ pc[c] = "active" /\ UNCHANGED <<tx, serial, rolledBack>>
        /\ pc'[c] = "committing" /\ \A o \in Clients : o # c => pc'[o] = pc[o]
    BY <1>0, <1>6 DEF CommitCall, history, Typed
  <2>4. \A o \in Clients : Continues(o)
    BY <2>3 DEF Continues
  <2>. QED
    BY <1>0, <2>1, <2>2, <2>3, <2>4, OutPush
<1>7. ASSUME NEW c \in Clients, AbortCall(c) PROVE SerialOK' /\ OutcomeOK'
  <2>1. PICK e \in Records : e = EndRecord(tx[c], "abort") /\ e.value = tx[c].serial
    BY <1>0, NewRecords
  <2>2. e.kind = "abort" /\ Logged' = Logged \cup {e}
    BY <1>0, <1>7, <2>1, LoggedPush DEF AbortCall, EndRecord
  <2>3. /\ pc[c] = "active" /\ UNCHANGED <<tx, serial>>
        /\ rolledBack' = rolledBack \cup {tx[c].serial}
        /\ pc'[c] = "aborting" /\ \A o \in Clients : o # c => pc'[o] = pc[o]
    BY <1>0, <1>7 DEF AbortCall, Typed
  <2>4. \A o \in Clients : Continues(o)
    BY <2>3 DEF Continues
  <2>. QED
    BY <1>0, <2>1, <2>2, <2>3, <2>4, OutPush
<1>8. ASSUME NEW c \in Clients, GiveUp(c) PROVE SerialOK' /\ OutcomeOK'
  <2>1. /\ Logged' = Logged /\ UNCHANGED serial /\ pc[c] = "active" /\ pc'[c] = "idle"
        /\ rolledBack' = rolledBack \cup {tx[c].serial}
        /\ \A o \in Clients \ {c} : tx'[o] = tx[o] /\ pc'[o] = pc[o]
    BY <1>0, <1>8 DEF GiveUp, walVars, Logged, All, Typed
  <2>2. tx[c].serial \in 1..serial
    BY <1>0, <2>1 DEF SerialOK
  <2>3. SerialOK'
    BY <1>0, <2>1 DEF SerialOK
  <2>4. \A r \in Logged : r.kind = "commit" => r.value # tx[c].serial
    BY <1>0, <2>1 DEF OutcomeOK
  <2>5. \A o \in Clients \ {c} : pc[o] # "idle" => tx[o].serial # tx[c].serial
    BY <1>0, <2>1 DEF SerialOK
  <2>6. OutcomeOK'
    BY <1>0, <2>1, <2>2, <2>4, <2>5 DEF OutcomeOK
  <2>. QED
    BY <2>3, <2>6
<1>9. ASSUME NEW c \in Clients, FlushOk(c) \/ FlushErr(c) \/ CommitOk(c) PROVE SerialOK' /\ OutcomeOK'
  <2>1. Logged' \subseteq Logged
    <3>1. CASE FlushErr(c)
      BY <1>0, <3>1, LoggedDrain DEF FlushErr, Drainers
    <3>2. CASE FlushOk(c) \/ CommitOk(c)
      BY <3>2 DEF FlushOk, CommitOk, Wal!Ack, Wal!log, walVars, Logged, All
    <3>. QED
      BY <1>9, <3>1, <3>2
  <2>2. UNCHANGED <<serial, rolledBack>>
    BY <1>9 DEF FlushOk, FlushErr, CommitOk, history
  <2>3. \A o \in Clients \ {c} : pc'[o] = pc[o] /\ tx'[o] = tx[o]
    BY <1>0, <1>9 DEF FlushOk, FlushErr, CommitOk, Typed
  <2>4. \/ pc'[c] = "idle"
        \/ pc[c] = "committing" /\ pc'[c] = "applying" /\ tx'[c] = tx[c]
    BY <1>0, <1>9 DEF FlushOk, FlushErr, CommitOk, Typed
  <2>. QED
    BY <1>0, <2>1, <2>2, <2>3, <2>4, OutShrink DEF Continues
<1>10. ASSUME NEW c \in Clients, Apply(c) PROVE SerialOK' /\ OutcomeOK'
  <2>1. /\ Logged' = Logged /\ UNCHANGED <<serial, rolledBack>> /\ pc[c] = "applying"
        /\ \A o \in Clients \ {c} : pc'[o] = pc[o] /\ tx'[o] = tx[o]
    BY <1>0, <1>10 DEF Apply, walVars, history, Logged, All, Typed
  <2>2. \/ pc'[c] = "idle"
        \/ pc' = pc /\ tx'[c].serial = tx[c].serial /\ tx'[c].ops = Tail(tx[c].ops)
    <3>1. ASSUME tx' = [tx EXCEPT ![c].ops = Tail(@)]
          PROVE  tx'[c].serial = tx[c].serial /\ tx'[c].ops = Tail(tx[c].ops)
      BY <1>0, <3>1 DEF Typed
    <3>2. ASSUME pc' = [pc EXCEPT ![c] = "idle"] PROVE pc'[c] = "idle"
      BY <1>0, <3>2 DEF Typed
    <3>. QED
      BY <1>10, <3>1, <3>2 DEF Apply
  <2>3. ToSet(Tail(tx[c].ops)) \subseteq ToSet(tx[c].ops)
    BY <1>0, <1>10, TailElements DEF Apply, Typed
  <2>. QED
    BY <1>0, <2>1, <2>2, <2>3, OutShrink DEF Continues
<1>11. ASSUME NEW d \in Drainers, Wal!Pop(d) \/ Wal!Write(d) \/ Wal!Sync(d) \/ Wal!Fail(d),
              UNCHANGED <<pc, tx, serial, rolledBack>>
       PROVE  SerialOK' /\ OutcomeOK'
  <2>1. Logged' \subseteq Logged /\ \A o \in Clients : Continues(o)
    BY <1>0, <1>11, LoggedDrain DEF Continues
  <2>. QED
    BY <1>0, <1>11, <2>1, OutShrink
<1>12. ASSUME NEW d \in Drainers, Drain(d) PROVE SerialOK' /\ OutcomeOK'
  BY <1>11, <1>12 DEF Drain, history
<1>13. CASE FlusherFail
  BY <1>11, <1>13 DEF FlusherFail, Drainers
<1>. QED
  BY <1>1, <1>2, <1>3, <1>4, <1>5, <1>6, <1>7, <1>8, <1>9, <1>10, <1>12, <1>13 DEF Next, Elsewhere

-----------------------------------------------------------------------------
(* What can be in the store *)

\* The serials a value may have: of a transaction that is past its commit().
Settled == { v \in 1..serial :
                v \notin rolledBack /\ \A c \in Clients : pc[c] = "active" => v # tx[c].serial }

Stores(values) == [Keys -> values \cup {Missing}]

StoreOK == store \in Stores(Settled)

LEMMA UpsertStays ==
    ASSUME NEW values, NEW s \in Stores(values), NEW r, r.value \in values
    PROVE  Upsert(s, r) \in Stores(values)
BY DEF Upsert, Stores

\* A committed transaction wrote its Commit record with the serial of all its records.
LEMMA CommittedSerial ==
    ASSUME OutInv, NEW recs \in Seq(Records), ToSet(recs) \subseteq Kept,
           NEW r \in ToSet(recs), r.tx \in CommittedIds(recs)
    PROVE  \E e \in ToSet(recs) : e.kind = "commit" /\ e.tx = r.tx /\ e.value = r.value
<1>1. PICK e \in ToSet(recs) : e.tx = r.tx /\ e.kind = "commit"
  BY CommittedHas
<1>2. e.value = r.value
  BY <1>1 DEF OutInv, IdsInv, OwnerOK
<1>. QED
  BY <1>1, <1>2

\* Replay, by recovery or by a checkpoint, puts values of committed transactions
\* into the store.
LEMMA ReplayValues ==
    ASSUME OutInv, NEW recs \in Seq(Records), ToSet(recs) \subseteq Kept, NEW s, NEW values,
           s \in Stores(values),
           \A e \in ToSet(recs) : e.kind = "commit" => e.value \in values
    PROVE  Replayed(s, recs) \in Stores(values)
<1>1. ASSUME NEW r \in ToSet(recs), NEW x \in Stores(values), r.tx \in CommittedIds(recs)
      PROVE  Upsert(x, r) \in Stores(values)
  BY <1>1, CommittedSerial, UpsertStays
<1>2. \A r \in Records : r.tx \in Nat
  BY DEF Records
<1>. QED
  BY <1>1, <1>2, ReplayedStays

LEMMA CommitsSettled ==
    ASSUME OutInv
    PROVE  \A e \in Logged : e.kind = "commit" => e.value \in Settled
BY DEF OutInv, SerialOK, OutcomeOK, Settled

\* Only a crash makes a serial unsettled.
LEMMA SettledGrows ==
    ASSUME OutInv, [Next]_vars, ~Crash
    PROVE  Settled \subseteq Settled'
<1>. USE DrainersAre
<1>0. Typed /\ SerialOK /\ OutcomeOK
  BY DEF OutInv, IdsInv
<1>1. ASSUME UNCHANGED <<serial, rolledBack>>,
             \A c \in Clients : pc'[c] = "active" => pc[c] = "active" /\ tx'[c].serial = tx[c].serial
      PROVE  Settled \subseteq Settled'
  BY <1>1 DEF Settled
<1>2. CASE Recover \/ UNCHANGED vars \/ FlusherFail \/ \E d \in Drainers : Drain(d)
  <2>1. UNCHANGED <<serial, rolledBack, pc, tx>>
    BY <1>2 DEF Recover, FlusherFail, Drain, vars, history
  <2>. QED
    BY <1>1, <2>1
<1>3. ASSUME NEW c \in Clients, Begin(c) PROVE Settled \subseteq Settled'
  <2>1. /\ serial' = serial + 1 /\ serial \in Nat /\ rolledBack' = rolledBack
        /\ tx'[c].serial = serial'
        /\ \A o \in Clients \ {c} : tx'[o] = tx[o] /\ pc'[o] = pc[o]
    BY <1>0, <1>3 DEF Begin, Typed
  <2>2. serial' \notin 1..serial /\ 1..serial \subseteq 1..serial'
    BY <2>1
  <2>. QED
    BY <2>1, <2>2 DEF Settled
<1>4. ASSUME NEW c \in Clients, AbortCall(c) \/ GiveUp(c) PROVE Settled \subseteq Settled'
  <2>1. /\ serial' = serial /\ rolledBack' = rolledBack \cup {tx[c].serial} /\ pc[c] = "active"
        /\ pc'[c] # "active"
        /\ \A o \in Clients \ {c} : tx'[o] = tx[o] /\ pc'[o] = pc[o]
    BY <1>0, <1>4 DEF AbortCall, GiveUp, Typed
  <2>. QED
    BY <2>1 DEF Settled
<1>5. ASSUME NEW c \in Clients, NEW op \in NewOps(c), Buffer(c, op)
      PROVE  \A o \in Clients : tx'[o].serial = tx[o].serial
  BY <1>0, <1>5 DEF Buffer, Typed
<1>6. ASSUME NEW c \in Clients, AppendOp(c) \/ AddEntry(c) PROVE Settled \subseteq Settled'
  <2>1. UNCHANGED <<serial, rolledBack, pc>> /\ \A o \in Clients : tx'[o].serial = tx[o].serial
    BY <1>5, <1>6 DEF AppendOp, AddEntry, history
  <2>. QED
    BY <1>1, <2>1
<1>7. ASSUME NEW c \in Clients, CommitCall(c) \/ FlushErr(c) \/ FlushOk(c) \/ CommitOk(c) \/ Apply(c)
      PROVE  Settled \subseteq Settled'
  <2>1. UNCHANGED <<serial, rolledBack>>
    BY <1>7 DEF CommitCall, FlushErr, FlushOk, CommitOk, Apply, history
  <2>2. pc'[c] # "active" /\ \A o \in Clients \ {c} : tx'[o] = tx[o] /\ pc'[o] = pc[o]
    BY <1>0, <1>7 DEF CommitCall, FlushErr, FlushOk, CommitOk, Apply, Typed
  <2>. QED
    BY <1>1, <2>1, <2>2
<1>. QED
  BY <1>2, <1>3, <1>4, <1>6, <1>7 DEF Next, Elsewhere

\* An operation of a transaction that is applied has a settled value.
LEMMA AppliedSettled ==
    ASSUME OutInv, NEW c \in Clients, pc[c] = "applying", tx[c].ops # <<>>
    PROVE  Head(tx[c].ops).value = tx[c].serial /\ tx[c].serial \in Settled
<1>1. Head(tx[c].ops) \in ToSet(tx[c].ops)
  BY TailElements DEF OutInv, IdsInv, Typed
<1>. QED
  BY <1>1 DEF OutInv, SerialOK, OutcomeOK, Settled

LEMMA StoreStep ==
    ASSUME OutInv, StoreOK, [Next]_vars
    PROVE  StoreOK'
<1>0. Typed /\ Settled' = Settled' /\ StoreOK
  BY DEF OutInv, IdsInv
<1>1. CASE Recover
  <2>1. Settled \subseteq Settled'
    <3>1. ~Crash
      BY <1>1 DEF Recover, Crash
    <3>. QED
      BY <3>1, SettledGrows
  <2>2. Readable(file) \in Seq(Records) /\ ToSet(Readable(file)) \subseteq Kept
    BY <1>0, ReadableElements DEF Typed, LogTyped, Kept
  <2>3. EmptyStore \in Stores(Settled)
    BY DEF EmptyStore, Stores
  <2>4. \A e \in ToSet(Readable(file)) : e.kind = "commit" => e.value \in Settled
    BY <1>0, <2>2, CommitsSettled, LoggedFacts
  <2>5. store' \in Stores(Settled)
    BY <1>1, <2>2, <2>3, <2>4, ReplayValues DEF Recover
  <2>. QED
    BY <2>1, <2>5 DEF StoreOK, Stores
<1>2. CASE Crash
  BY <1>2 DEF Crash, StoreOK, Stores, EmptyStore
<1>3. ASSUME NEW c \in Clients, Apply(c) PROVE StoreOK'
  <2>1. Settled \subseteq Settled'
    <3>1. ~Crash
      <4>1. mode = "up" /\ UNCHANGED mode
        BY <1>3 DEF Apply, OutInv, IdsInv, CarriedOK, Typed
      <4>. QED
        BY <4>1 DEF Crash
    <3>. QED
      BY <3>1, SettledGrows
  <2>2. Head(tx[c].ops).value \in Settled
    BY <1>3, AppliedSettled DEF Apply
  <2>3. store' = store \/ store' = Upsert(store, Head(tx[c].ops))
    BY <1>3 DEF Apply
  <2>4. store' \in Stores(Settled)
    BY <2>2, <2>3, UpsertStays DEF StoreOK
  <2>. QED
    BY <2>1, <2>4 DEF StoreOK, Stores
<1>4. CASE UNCHANGED store /\ ~Crash
  <2>1. Settled \subseteq Settled'
    BY <1>4, SettledGrows
  <2>. QED
    BY <1>4, <2>1 DEF StoreOK, Stores
<1>5. CASE Elsewhere \/ UNCHANGED vars
  BY <1>2, <1>4, <1>5 DEF Elsewhere, Begin, AppendOp, AddEntry, CommitCall, AbortCall, GiveUp,
     FlushErr, FlushOk, CommitOk, Drain, FlusherFail, vars
<1>. QED
  BY <1>1, <1>2, <1>3, <1>5 DEF Next

LEMMA StoreInit == Init => StoreOK
BY DEF Init, EmptyStore, StoreOK, Stores

LEMMA StoreMeaning == OutInv /\ StoreOK => RolledBackStaysOut
<1>1. Missing \notin Nat
  BY DatabaseAssumption
<1>2. ASSUME OutInv, StoreOK PROVE RolledBackStaysOut
  <2>1. rolledBack \subseteq 1..serial /\ serial \in Nat
    BY <1>2 DEF OutInv, OutcomeOK, IdsInv, Typed
  <2>2. Missing \notin rolledBack
    <3>1. \A v \in 1..serial : v \in Nat
      BY <2>1
    <3>. QED
      BY <1>1, <2>1, <3>1, Zenon
  <2>3. \A k \in Keys : store[k] \in Settled \cup {Missing}
    BY <1>2 DEF StoreOK, Stores
  <2>. QED
    BY <2>2, <2>3 DEF Settled, RolledBackStaysOut
<1>. QED
  BY <1>2

\* What abort() was called on, or what was dropped, is never in the store, after
\* any number of crashes and recoveries: replay takes the transactions with a
\* Commit record, and neither abort() nor a drop leaves one behind, whatever is
\* torn, fails or returns before it is on disk.
THEOREM RollbackIsFinal == Spec => []RolledBackStaysOut
<1>1. Init => OutInv /\ StoreOK
  BY OutInit, StoreInit
<1>2. OutInv /\ StoreOK /\ [Next]_vars => (OutInv /\ StoreOK)'
  BY OutStep, StoreStep
<1>3. OutInv /\ StoreOK => RolledBackStaysOut
  BY StoreMeaning
<1>. QED
  BY <1>1, <1>2, <1>3, PTL DEF Spec

-----------------------------------------------------------------------------
(* The whole type invariant *)

BoundsOK ==
    /\ acked \in [Clients -> SUBSET Records]
    /\ crashes \in 0..MaxCrashes
    /\ errors \in 0..MaxIoErrors

TypeInv == OutInv /\ StoreOK /\ BoundsOK

LEMMA BoundsStep ==
    ASSUME Typed, BoundsOK, [Next]_vars
    PROVE  BoundsOK'
<1>0. MaxCrashes \in Nat /\ MaxIoErrors \in Nat
  BY DatabaseAssumption
<1>1. CASE Crash
  BY <1>0, <1>1 DEF Crash, BoundsOK
<1>2. CASE FlusherFail \/ \E c \in Clients : FlushErr(c)
  BY <1>0, <1>2 DEF FlusherFail, FlushErr, Wal!Fail, BoundsOK
<1>3. ASSUME NEW c \in Clients, FlushOk(c) PROVE BoundsOK'
  <2>1. acked' = [acked EXCEPT ![c] = mine[c]] /\ UNCHANGED <<crashes, errors>>
    BY <1>3 DEF FlushOk, Wal!Ack, history
  <2>2. mine[c] \subseteq Records
    BY DEF Typed, LogTyped
  <2>. QED
    BY <2>1, <2>2 DEF BoundsOK
<1>4. CASE UNCHANGED <<acked, crashes, errors>>
  BY <1>4 DEF BoundsOK
<1>5. ASSUME Recover \/ UNCHANGED vars PROVE UNCHANGED <<acked, crashes, errors>>
  BY <1>5 DEF Recover, vars, walVars, history
<1>6. ASSUME NEW c \in Clients, Begin(c) \/ AddEntry(c) \/ GiveUp(c) \/ CommitOk(c) \/ Apply(c)
      PROVE  UNCHANGED <<acked, crashes, errors>>
  BY <1>6 DEF Begin, AddEntry, GiveUp, CommitOk, Apply, walVars, history
<1>7. ASSUME NEW c \in Clients, AppendOp(c) \/ CommitCall(c) \/ AbortCall(c)
      PROVE  UNCHANGED <<acked, crashes, errors>>
  BY <1>7 DEF AppendOp, CommitCall, AbortCall, Wal!Push, history
<1>8. ASSUME NEW d \in Wal!Drainers, Drain(d) PROVE UNCHANGED <<acked, crashes, errors>>
  BY <1>8 DEF Drain, Wal!Pop, Wal!Write, Wal!Sync, history
<1>. QED
  BY <1>1, <1>2, <1>3, <1>4, <1>5, <1>6, <1>7, <1>8 DEF Next, Elsewhere

LEMMA TypeMeaning == TypeInv => TypeOK
<1> SUFFICES ASSUME TypeInv PROVE TypeOK
  OBVIOUS
<1>1. Typed /\ SerialOK /\ OutcomeOK /\ StoreOK /\ BoundsOK
  BY DEF TypeInv, OutInv, IdsInv
<1>2. serial \in 0..MaxTxs
  BY <1>1, DatabaseAssumption DEF Typed, SerialOK
<1>3. store \in [Keys -> Nat \cup {Missing}]
  <2>1. Settled \subseteq Nat
    BY <1>1 DEF Settled, Typed
  <2>. QED
    BY <1>1, <2>1 DEF StoreOK, Stores
<1>. QED
  BY <1>1, <1>2, <1>3, DrainersAre DEF Typed, LogTyped, OutcomeOK, BoundsOK, TypeOK

\* The type invariant of Database.  That the store holds values or nothing, after
\* every replay, takes the induction over the loops of recovery; that serials
\* rolled back were begun takes the invariant on who wrote what.
THEOREM TypeCorrect == Spec => []TypeOK
<1>1. Init => TypeInv
  <2>1. Init => BoundsOK
    BY DatabaseAssumption DEF Init, Wal!LogInit, BoundsOK
  <2>. QED
    BY <2>1, OutInit, StoreInit DEF TypeInv
<1>2. TypeInv /\ [Next]_vars => TypeInv'
  BY OutStep, StoreStep, BoundsStep DEF TypeInv, OutInv, IdsInv
<1>3. TypeInv => TypeOK
  BY TypeMeaning
<1>. QED
  BY <1>1, <1>2, <1>3, PTL DEF Spec

-----------------------------------------------------------------------------
(* What a reader sees is durable, while flush() stays within its polling   *)
(* budget and crashes tear no record                                       *)

\* The Commit record of a serial is on disk.
CommitSynced(v) == \E r \in Synced : r.kind = "commit" /\ r.value = v

\* A transaction in or past the flush() of its commit() has appended its Commit
\* record.
CommittingOK ==
    \A c \in Clients : pc[c] \in {"committing", "applying"} =>
        \E r \in mine[c] : r.kind = "commit" /\ r.value = tx[c].serial

\* The process that is down has only what is on disk; a value in the store has
\* its Commit record there.
SeenOK ==
    /\ mode = "down" => synced = Len(file)
    /\ \A k \in Keys : store[k] # Missing => CommitSynced(store[k])

SeenInv == TypeInv /\ DurInv /\ CommittingOK /\ SeenOK

LEMMA SeenInit == Init => SeenInv
<1> SUFFICES ASSUME Init PROVE SeenInv
  OBVIOUS
<1>1. TypeInv
  BY OutInit, StoreInit, DatabaseAssumption DEF TypeInv, Init, Wal!LogInit, BoundsOK
<1>2. CommittingOK /\ SeenOK
  BY DEF Init, Wal!LogInit, EmptyStore, CommittingOK, SeenOK
<1>. QED
  BY <1>1, <1>2, DurInit DEF SeenInv

\* What is on disk stays there, but for what a crash cuts off.
LEMMA SyncedGrows ==
    ASSUME DurInv, [Next]_vars, Punctual, ~Crash
    PROVE  Synced \subseteq Synced'
<1>. USE DrainersAre
<1>0. Typed /\ FlusherOnlyOK /\ synced \in 0..Len(file) /\ Len(file) \in Nat
  BY DEF DurInv, Typed, LogTyped
<1>1. CASE UNCHANGED <<file, synced>>
  BY <1>1 DEF Synced
<1>2. ASSUME Recover \/ UNCHANGED vars PROVE UNCHANGED <<file, synced>>
  BY <1>2 DEF Recover, vars, walVars
<1>3. ASSUME NEW c \in Clients, Begin(c) \/ AddEntry(c) \/ GiveUp(c) \/ CommitOk(c) \/ Apply(c)
      PROVE  UNCHANGED <<file, synced>>
  BY <1>3 DEF Begin, AddEntry, GiveUp, CommitOk, Apply, walVars
<1>4. ASSUME NEW c \in Clients, AppendOp(c) \/ CommitCall(c) \/ AbortCall(c) \/ FlushOk(c)
      PROVE  UNCHANGED <<file, synced>>
  BY <1>4 DEF AppendOp, CommitCall, AbortCall, FlushOk, Wal!Push, Wal!Ack, Wal!log
<1>5. ~FlusherFail /\ \A c \in Clients : ~FlushErr(c)
  BY DEF DurInv, FlusherFail, FlushErr, Punctual
<1>6. ASSUME NEW d \in Drainers, Drain(d) PROVE Synced \subseteq Synced'
  <2>1. CASE Wal!Pop(d)
    BY <1>1, <2>1 DEF Wal!Pop
  <2>2. CASE Wal!Write(d)
    <3>1. batch[d] \in Seq(Records \cup {Torn}) /\ file \in Seq(Records \cup {Torn})
      BY <1>0 DEF Typed, LogTyped
    <3>. QED
      BY <1>0, <2>2, <3>1, PrefixOfConcat DEF Wal!Write, Synced
  <2>3. CASE Wal!Sync(d)
    <3>1. SubSeq(file, 1, Len(file)) = file
      BY <1>0 DEF Typed, LogTyped
    <3>2. Synced' = ToSet(file)
      BY <2>3, <3>1 DEF Wal!Sync, Synced
    <3>. QED
      BY <1>0, <3>2, SyncedFacts
  <2>. QED
    BY <1>6, <2>1, <2>2, <2>3 DEF Drain
<1>. QED
  BY <1>1, <1>2, <1>3, <1>4, <1>5, <1>6 DEF Next, Elsewhere

LEMMA ModeDown ==
    ASSUME Typed, CarriedOK, [Next]_vars, ~Crash
    PROVE  mode' = "down" => mode = "down" /\ UNCHANGED <<file, synced>>
<1>. USE DrainersAre
<1>1. CASE Recover
  BY <1>1 DEF Recover
<1>2. CASE UNCHANGED vars
  BY <1>2 DEF vars, walVars
<1>3. ASSUME NEW c \in Clients,
             Begin(c) \/ AppendOp(c) \/ AddEntry(c) \/ CommitCall(c) \/ AbortCall(c) \/ GiveUp(c)
             \/ FlushErr(c) \/ FlushOk(c) \/ CommitOk(c) \/ Apply(c)
      PROVE  mode' = "up"
  <2>1. UNCHANGED mode
    BY <1>3 DEF Begin, AppendOp, AddEntry, CommitCall, AbortCall, GiveUp, FlushErr, FlushOk,
       CommitOk, Apply
  <2>2. pc[c] # "idle" \/ mode = "up"
    BY <1>3 DEF Begin, AppendOp, AddEntry, CommitCall, AbortCall, GiveUp, FlushErr, FlushOk,
       CommitOk, Apply, Buffer
  <2>. QED
    BY <2>1, <2>2 DEF CarriedOK, Typed
<1>4. CASE FlusherFail \/ \E d \in Drainers : Drain(d)
  BY <1>4 DEF FlusherFail, Drain, MayDrain
<1>. QED
  BY <1>1, <1>2, <1>3, <1>4 DEF Next, Elsewhere

\* The Commit records of the transactions under way.
LEMMA CommitsKept ==
    ASSUME OutInv, CommittingOK, [Next]_vars
    PROVE  CommittingOK'
<1>. USE DrainersAre
<1>0. Typed
  BY DEF OutInv, IdsInv
<1>1. ASSUME \A c \in Clients : /\ mine[c] \subseteq mine'[c]
                                /\ pc'[c] \in {"committing", "applying"} =>
                                      /\ pc[c] \in {"committing", "applying"}
                                      /\ tx'[c].serial = tx[c].serial
      PROVE  CommittingOK'
  BY <1>1 DEF CommittingOK
<1>2. CASE Recover \/ UNCHANGED vars \/ FlusherFail \/ \E d \in Drainers : Drain(d)
  <2>1. UNCHANGED <<mine, pc, tx>>
    BY <1>2 DEF Recover, FlusherFail, Drain, Wal!Pop, Wal!Write, Wal!Sync, Wal!Fail, vars, walVars
  <2>. QED
    BY <1>1, <2>1
<1>3. CASE Crash
  BY <1>3 DEF Crash, CommittingOK
<1>4. ASSUME NEW c \in Clients,
             Begin(c) \/ GiveUp(c) \/ AbortCall(c) \/ FlushErr(c) \/ FlushOk(c) \/ CommitOk(c) \/ Apply(c)
      PROVE  CommittingOK'
  <2>1. \A o \in Clients : mine[o] \subseteq mine'[o]
    <3>1. CASE AbortCall(c)
      <4>1. mine' = [mine EXCEPT ![c] = @ \cup {EndRecord(tx[c], "abort")}]
        BY <3>1 DEF AbortCall, Wal!Push
      <4>. QED
        BY <1>0, <4>1 DEF Typed, LogTyped
    <3>2. CASE ~AbortCall(c)
      <4>1. mine' = mine
        BY <1>4, <3>2 DEF Begin, GiveUp, FlushErr, FlushOk, CommitOk, Apply, walVars,
           Wal!Fail, Wal!Ack
      <4>. QED
        BY <4>1
    <3>. QED
      BY <3>1, <3>2
  <2>2. \A o \in Clients \ {c} : pc'[o] = pc[o] /\ tx'[o] = tx[o]
    BY <1>0, <1>4 DEF Begin, GiveUp, AbortCall, FlushErr, FlushOk, CommitOk, Apply, Typed
  <2>3. CASE ~Apply(c)
    <3>1. pc'[c] \in {"committing", "applying"} =>
             pc[c] \in {"committing", "applying"} /\ tx'[c] = tx[c]
      BY <1>0, <1>4, <2>3 DEF Begin, GiveUp, AbortCall, FlushErr, FlushOk, CommitOk, Typed
    <3>. QED
      BY <1>1, <2>1, <2>2, <3>1
  <2>4. CASE Apply(c)
    <3>1. ASSUME tx' = [tx EXCEPT ![c].ops = Tail(@)] PROVE tx'[c].serial = tx[c].serial
      BY <1>0, <3>1 DEF Typed
    <3>2. ASSUME pc' = [pc EXCEPT ![c] = "idle"] PROVE pc'[c] = "idle"
      BY <1>0, <3>2 DEF Typed
    <3>3. pc'[c] \in {"committing", "applying"} =>
             pc[c] \in {"committing", "applying"} /\ tx'[c].serial = tx[c].serial
      BY <2>4, <3>1, <3>2 DEF Apply
    <3>. QED
      BY <1>1, <2>1, <2>2, <3>3
  <2>. QED
    BY <2>3, <2>4
<1>5. ASSUME NEW c \in Clients, CommitCall(c)
      PROVE  CommittingOK'
  <2>1. /\ tx' = tx /\ mine'[c] = mine[c] \cup {EndRecord(tx[c], "commit")}
        /\ \A o \in Clients \ {c} : pc'[o] = pc[o] /\ mine'[o] = mine[o]
    BY <1>0, <1>5 DEF CommitCall, Wal!Push, Typed, LogTyped
  <2>2. EndRecord(tx[c], "commit").kind = "commit" /\ EndRecord(tx[c], "commit").value = tx[c].serial
    BY DEF EndRecord
  <2>. QED
    BY <2>1, <2>2 DEF CommittingOK
<1>6. ASSUME NEW c \in Clients, NEW op \in NewOps(c), Buffer(c, op)
      PROVE  \A o \in Clients : tx'[o].serial = tx[o].serial
  BY <1>0, <1>6 DEF Buffer, Typed
<1>7. ASSUME NEW c \in Clients, AppendOp(c) \/ AddEntry(c)
      PROVE  CommittingOK'
  <2>1. pc' = pc /\ \A o \in Clients : tx'[o].serial = tx[o].serial /\ mine[o] \subseteq mine'[o]
    BY <1>0, <1>6, <1>7 DEF AppendOp, AddEntry, Wal!Push, walVars, Typed, LogTyped
  <2>. QED
    BY <1>1, <2>1
<1>. QED
  BY <1>2, <1>3, <1>4, <1>5, <1>7 DEF Next, Elsewhere

LEMMA SeenStep ==
    ASSUME SeenInv, [Next]_vars, Punctual, ~TornWrites
    PROVE  SeenInv'
<1>0. /\ TypeInv /\ DurInv /\ CommittingOK /\ SeenOK /\ OutInv /\ Typed /\ CarriedOK /\ ArrivedOK /\ FlusherOnlyOK
      /\ StoreOK /\ BoundsOK
  BY DEF SeenInv, TypeInv, OutInv, IdsInv, DurInv
<1>1. TypeInv' /\ DurInv'
  BY <1>0, OutStep, StoreStep, BoundsStep, DurStep DEF TypeInv
<1>2. mode' = "down" => synced' = Len(file')
  <2>1. CASE Crash
    BY <2>1 DEF Crash
  <2>2. CASE ~Crash
    BY <1>0, <2>2, ModeDown DEF SeenOK
  <2>. QED
    BY <2>1, <2>2
<1>3. CommittingOK'
  BY <1>0, CommitsKept
<1>4. \A k \in Keys : store'[k] # Missing => (CommitSynced(store[k]))'
  <2>1. CASE Crash
    BY <2>1 DEF Crash, EmptyStore
  <2>2. CASE ~Crash
    <3> DEFINE G == { v \in Nat : CommitSynced(v) }
    <3>1. Synced \subseteq Synced'
      BY <1>0, <2>2, SyncedGrows
    <3>2. store \in Stores(G)
      <4>1. store \in [Keys -> Nat \cup {Missing}]
        BY <1>0, TypeMeaning DEF TypeOK
      <4>. QED
        BY <1>0, <4>1 DEF SeenOK, Stores
    <3>3. CASE Recover
      <4>1. synced = Len(file) /\ Synced = ToSet(file) /\ Torn \notin ToSet(file)
        BY <1>0, <3>3, SyncedFacts DEF SeenOK, Recover, FlusherOnlyOK
      <4>2. Readable(file) = file
        BY <4>1 DEF Readable, ToSet
      <4>3. file \in Seq(Records) /\ ToSet(file) \subseteq Kept
        <5>1. Readable(file) \in Seq(Records)
          BY <1>0, ReadableElements DEF Typed, LogTyped
        <5>. QED
          BY <4>2, <5>1 DEF Kept
      <4>4. \A e \in ToSet(file) : e.kind = "commit" => e.value \in G
        <5>1. \A e \in ToSet(file) : e.value \in Nat
          BY <1>0, <4>3, KeptTypes DEF Records
        <5>. QED
          BY <4>1, <5>1 DEF CommitSynced
      <4>5. EmptyStore \in Stores(G)
        BY DEF EmptyStore, Stores
      <4>6. store' \in Stores(G)
        <5>. HIDE DEF G
        <5>. QED
          BY <1>0, <3>3, <4>2, <4>3, <4>4, <4>5, ReplayValues DEF Recover
      <4>. QED
        BY <3>1, <4>6 DEF Stores, CommitSynced
    <3>4. ASSUME NEW c \in Clients, Apply(c) PROVE store' \in Stores(G)
      <4>1. \E r \in Synced : r.kind = "commit" /\ r.value = tx[c].serial
        <5>1. PICK r \in mine[c] : r.kind = "commit" /\ r.value = tx[c].serial
          BY <1>0, <3>4 DEF Apply, CommittingOK
        <5>2. mine[c] \subseteq Synced
          BY <1>0, <3>4 DEF Apply, ArrivedOK
        <5>. QED
          BY <5>1, <5>2
      <4>2. Head(tx[c].ops).value \in G
        <5>1. Head(tx[c].ops).value = tx[c].serial /\ tx[c].serial \in Nat
          BY <1>0, <3>4, AppliedSettled DEF Apply, Typed
        <5>. QED
          BY <4>1, <5>1 DEF CommitSynced
      <4>3. store' = store \/ store' = Upsert(store, Head(tx[c].ops))
        BY <3>4 DEF Apply
      <4>. HIDE DEF G
      <4>. QED
        BY <3>2, <4>2, <4>3, UpsertStays
    <3>5. CASE UNCHANGED store
      BY <3>1, <3>2, <3>5 DEF Stores, CommitSynced
    <3>6. ASSUME Elsewhere \/ UNCHANGED vars PROVE UNCHANGED store
      BY <3>6 DEF Elsewhere, Begin, AppendOp, AddEntry, CommitCall, AbortCall, GiveUp,
         FlushErr, FlushOk, CommitOk, Drain, FlusherFail, vars
    <3>7. CASE \E c \in Clients : Apply(c)
      <4>1. store' \in Stores(G)
        BY <3>4, <3>7
      <4>. QED
        BY <3>1, <4>1 DEF Stores, CommitSynced
    <3>. QED
      BY <2>2, <3>3, <3>5, <3>6, <3>7 DEF Next
  <2>. QED
    BY <2>1, <2>2
<1>5. SeenOK'
  BY <1>2, <1>4 DEF SeenOK, CommitSynced
<1>. QED
  BY <1>1, <1>3, <1>5 DEF SeenInv

\* Nobody reads what a crash can take back: while no batch fails, flush() stays
\* within its polling budget and a crash tears no record, whoever wrote a value
\* that is in the store, put there by commit() or by recovery, has its Commit
\* record on disk.  commit() has waited for pending_count to reach zero before it applies.
THEOREM NoDirtyReads ==
    ASSUME Punctual, ~TornWrites
    PROVE  Spec => []VisibleIsDurable
<1>1. Init => SeenInv
  BY SeenInit
<1>2. SeenInv /\ [Next]_vars => SeenInv'
  BY SeenStep
<1>3. SeenInv => VisibleIsDurable
  <2>1. ASSUME SeenInv, NEW k \in Keys, store[k] # Missing
        PROVE  \E i \in DOMAIN OnDisk : OnDisk[i].kind = "commit" /\ OnDisk[i].value = store[k]
    <3>1. PICK r \in Synced : r.kind = "commit" /\ r.value = store[k]
      BY <2>1 DEF SeenInv, SeenOK, CommitSynced
    <3>2. ToSet(OnDisk) = Synced
      BY <2>1, OnDiskIs DEF SeenInv
    <3>3. PICK i \in DOMAIN OnDisk : OnDisk[i] = r
      BY <3>1, <3>2 DEF ToSet
    <3>. QED
      BY <3>1, <3>3
  <2>. QED
    BY <2>1 DEF VisibleIsDurable
<1>. QED
  BY <1>1, <1>2, <1>3, PTL DEF Spec
=============================================================================
