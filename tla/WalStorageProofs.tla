-------------------------- MODULE WalStorageProofs --------------------------
(***************************************************************************)
(* Safety of WalStorage, that it implements WalLog, and where its entries  *)
(* go, for every number of writers and stoppers, every queue bound and     *)
(* every number of appends and I/O errors.                                 *)
(***************************************************************************)
EXTENDS WalStorage, SeqFacts

-----------------------------------------------------------------------------
(* The file mutex *)

InLock == {"write", "sync", "release", "wake"}

\* lockq holds exactly the drains that asked for the mutex, once each, and a
\* drain past its first file operation is the holder.
LockOK ==
    /\ \A d \in Drainers : pc[d] \in InLock <=> \E i \in 1..Len(lockq) : lockq[i] = d
    /\ \A i, j \in 1..Len(lockq) : lockq[i] = lockq[j] => i = j
    /\ \A d \in Drainers : pc[d] \in {"sync", "release", "wake"} => lockq[1] = d

\* Releasing the mutex leaves the other waiters in their order.
LEMMA TailOfLock ==
    ASSUME NEW S, NEW s \in Seq(S), s # <<>>
    PROVE  /\ Tail(s) \in Seq(S)
           /\ Len(Tail(s)) = Len(s) - 1
           /\ \A i \in 1..Len(Tail(s)) : Tail(s)[i] = s[i + 1]
  BY HeadTailProperties

LEMMA PartType ==
    ASSUME NEW b \in Seq(Entry), NEW part, part \in WrittenPart(b)
    PROVE  part \in Seq(Entry \cup {Torn})
<1>1. b \in Seq(Entry \cup {Torn}) /\ <<Torn>> \in Seq(Entry \cup {Torn})
  OBVIOUS
<1>2. ASSUME NEW k \in 0..(Len(b) - 1)
      PROVE  /\ SubSeq(b, 1, k) \in Seq(Entry \cup {Torn})
             /\ SubSeq(b, 1, k) \o <<Torn>> \in Seq(Entry \cup {Torn})
  BY <1>1, SubSeqProperties, ConcatProperties
<1> QED
  BY <1>1, <1>2 DEF WrittenPart

LEMMA TypesInit == Init => TypeOK /\ LockOK
<1> SUFFICES ASSUME Init PROVE TypeOK /\ LockOK
  OBVIOUS
<1>1. pc \in [Tasks -> Labels]
  BY DEF Init, Labels
<1>2. retries \in [Writers -> 0..MaxRetries]
  BY ConstantsAssumption DEF Init
<1>3. /\ queue \in Seq(Entry) /\ lockq \in Seq(Drainers)
      /\ file \in Seq(Entry \cup {Torn}) /\ synced \in 0..Len(file)
  BY DEF Init
<1>4. batch \in [Drainers -> Seq(Entry)]
  BY DEF Init
<1>5. /\ seen \in [Writers -> Int] /\ appended \in [Writers -> Nat]
      /\ flushed \in [Writers -> Nat] /\ atStop \in [Writers -> Nat]
  BY DEF Init
<1>6. permit \in BOOLEAN /\ shutdown \in BOOLEAN /\ exiting \in BOOLEAN
  BY Zenon DEF Init
<1>8. TypeOK
  BY <1>1, <1>2, <1>3, <1>4, <1>5, <1>6 DEF Init, TypeOK
<1>7. LockOK
  BY TasksAssumption DEF Init, LockOK, InLock, Tasks, Drainers
<1> QED
  BY <1>7, <1>8

LEMMA TypesStep == TypeOK /\ LockOK /\ [Next]_vars => TypeOK'
<1> SUFFICES ASSUME TypeOK, LockOK, [Next]_vars PROVE TypeOK'
  OBVIOUS
<1>a. ASSUME NEW d \in Drainers, pc[d] \in InLock PROVE lockq # <<>>
  BY <1>a DEF TypeOK, LockOK
<1>1. ASSUME NEW w \in Writers, AppendCall(w) PROVE TypeOK'
  BY <1>1 DEF AppendCall, Goto, TypeOK, Tasks, Drainers, Labels, disk, control, history
<1>2. ASSUME NEW w \in Writers, AppendLoad(w) PROVE TypeOK'
  <2>1. pc' \in [Tasks -> Labels]
    BY <1>2 DEF AppendLoad, Goto, TypeOK, Tasks, Drainers, Labels
  <2>2. seen' \in [Writers -> Int]
    BY <1>2 DEF AppendLoad, TypeOK
  <2> QED
    BY <1>2, <2>1, <2>2 DEF AppendLoad, TypeOK, disk, control, history
<1>3. ASSUME NEW w \in Writers, AppendPark(w) PROVE TypeOK'
  BY <1>3 DEF AppendPark, Goto, TypeOK, Tasks, Drainers, Labels, disk, control, history
<1>4. ASSUME NEW w \in Writers, AppendCas(w) PROVE TypeOK'
  <2>1. pc' \in [Tasks -> Labels]
    BY <1>4 DEF AppendCas, Goto, TypeOK, Tasks, Drainers, Labels
  <2>2. count' \in Int
    BY <1>4 DEF AppendCas, TypeOK
  <2>3. seen' \in [Writers -> Int]
    BY <1>4 DEF AppendCas, TypeOK
  <2> QED
    BY <1>4, <2>1, <2>2, <2>3 DEF AppendCas, TypeOK, disk, control, history
<1>5. ASSUME NEW w \in Writers, AppendPush(w) PROVE TypeOK'
  <2>1. pc' \in [Tasks -> Labels]
    BY <1>5 DEF AppendPush, Goto, TypeOK, Tasks, Drainers, Labels
  <2>2. appended' \in [Writers -> Nat]
    BY <1>5 DEF AppendPush, TypeOK
  <2>3. queue' \in Seq(Entry)
    BY <1>5, <2>2 DEF AppendPush, TypeOK, Entry
  <2> QED
    BY <1>5, <2>1, <2>2, <2>3 DEF AppendPush, TypeOK, disk, control, history
<1>6. ASSUME NEW w \in Writers, AppendNotify(w) PROVE TypeOK'
  BY <1>6 DEF AppendNotify, Goto, TypeOK, Tasks, Drainers, Labels, disk, control, history
<1>7. ASSUME NEW w \in Writers, FlushCall(w) PROVE TypeOK'
  BY <1>7 DEF FlushCall, Goto, TypeOK, Tasks, Drainers, Labels, disk, control, history
<1>8. ASSUME NEW w \in Writers, FlushPoll(w) PROVE TypeOK'
  <2>1. pc' \in [Tasks -> Labels]
    BY <1>8 DEF FlushPoll, Goto, TypeOK, Tasks, Drainers, Labels
  <2>2. retries' \in [Writers -> 0..MaxRetries]
    <3>1. retries[w] \in 0..MaxRetries /\ MaxRetries \in Nat
      BY ConstantsAssumption DEF TypeOK
    <3>2. [retries EXCEPT ![w] = 0] \in [Writers -> 0..MaxRetries]
      BY ConstantsAssumption DEF TypeOK
    <3>3. retries[w] < MaxRetries => [retries EXCEPT ![w] = @ + 1] \in [Writers -> 0..MaxRetries]
      BY <3>1 DEF TypeOK
    <3> QED
      BY <1>8, <3>2, <3>3 DEF FlushPoll
  <2> QED
    BY <1>8, <2>1, <2>2 DEF FlushPoll, TypeOK, disk, control, history
<1>9. ASSUME NEW w \in Writers, FlushRecheck(w) PROVE TypeOK'
  <2>1. pc' \in [Tasks -> Labels]
    BY <1>9 DEF FlushRecheck, Goto, Acknowledge, TypeOK, Tasks, Drainers, Labels
  <2>2. flushed' \in [Writers -> Nat]
    BY <1>9 DEF FlushRecheck, Acknowledge, TypeOK
  <2> QED
    BY <1>9, <2>1, <2>2 DEF FlushRecheck, TypeOK, disk, control, history
<1>10. ASSUME NEW d \in Drainers, DrainPop(d) PROVE TypeOK'
  <2>1. queue' \in Seq(Entry)
    BY <1>10 DEF DrainPop, TypeOK, Entry
  <2>2. batch' \in [Drainers -> Seq(Entry)]
    BY <1>10 DEF DrainPop, TypeOK, Drainers
  <2> QED
    BY <1>10, <2>1, <2>2 DEF DrainPop, TypeOK, disk, control, history
<1>11. ASSUME NEW d \in Drainers, DrainPopNone(d) PROVE TypeOK'
  BY <1>11 DEF DrainPopNone, Goto, Acknowledge, ReturnOf, TypeOK, Tasks, Drainers, Labels, disk, control, history
<1>12. ASSUME NEW d \in Drainers, DrainLock(d) PROVE TypeOK'
  <2>1. pc' \in [Tasks -> Labels]
    BY <1>12 DEF DrainLock, Goto, TypeOK, Tasks, Drainers, Labels
  <2>2. lockq' \in Seq(Drainers)
    BY <1>12 DEF DrainLock, TypeOK
  <2> QED
    BY <1>12, <2>1, <2>2 DEF DrainLock, TypeOK, disk, control, history
<1>13. ASSUME NEW d \in Drainers, DrainWrite(d) PROVE TypeOK'
  <2>1. pc' \in [Tasks -> Labels]
    BY <1>13 DEF DrainWrite, Goto, TypeOK, Tasks, Drainers, Labels
  <2>2. file' \in Seq(Entry \cup {Torn})
    BY <1>13 DEF DrainWrite, TypeOK
  <2>3. synced' \in 0..Len(file')
    BY <1>13, ConstantsAssumption DEF DrainWrite, TypeOK
  <2> QED
    BY <1>13, <2>1, <2>2, <2>3 DEF DrainWrite, TypeOK, disk, control, history
<1>14. ASSUME NEW d \in Drainers, DrainSync(d) PROVE TypeOK'
  <2>1. pc' \in [Tasks -> Labels]
    BY <1>14 DEF DrainSync, Goto, TypeOK, Tasks, Drainers, Labels
  <2>2. synced' \in 0..Len(file')
    BY <1>14, ConstantsAssumption DEF DrainSync, TypeOK
  <2> QED
    BY <1>14, <2>1, <2>2 DEF DrainSync, TypeOK, disk, control, history
<1>15. ASSUME NEW d \in Drainers, DrainRelease(d) PROVE TypeOK'
  <2>1. pc' \in [Tasks -> Labels]
    BY <1>15 DEF DrainRelease, Goto, TypeOK, Tasks, Drainers, Labels
  <2>2. count' \in Int
    BY <1>15 DEF DrainRelease, TypeOK
  <2>3. batch' \in [Drainers -> Seq(Entry)]
    BY <1>15 DEF DrainRelease, TypeOK, Drainers
  <2> QED
    BY <1>15, <2>1, <2>2, <2>3 DEF DrainRelease, TypeOK, disk, control, history
<1>16. ASSUME NEW d \in Drainers, DrainWake(d) PROVE TypeOK'
  <2>1. pc' \in [Tasks -> Labels]
    BY <1>16 DEF DrainWake, Goto, Acknowledge, ReturnOf, TypeOK, Tasks, Drainers, Labels
  <2>2. lockq' \in Seq(Drainers)
    BY <1>16, <1>a, TailOfLock DEF DrainWake, TypeOK, InLock
  <2>3. flushed' \in [Writers -> Nat]
    BY <1>16 DEF DrainWake, Acknowledge, ReturnOf, TypeOK
  <2> QED
    BY <1>16, <2>1, <2>2, <2>3 DEF DrainWake, TypeOK, disk, control, history
<1>17. ASSUME NEW d \in Drainers, DrainFail(d) PROVE TypeOK'
  <2>1. pc' \in [Tasks -> Labels]
    BY <1>17 DEF DrainFail, Goto, ReturnOf, TypeOK, Tasks, Drainers, Labels
  <2>2. file' \in Seq(Entry \cup {Torn})
    <3>1. batch[d] \in Seq(Entry)
      BY DEF TypeOK
    <3>2. ASSUME NEW part \in WrittenPart(batch[d])
          PROVE  file \o part \in Seq(Entry \cup {Torn})
      BY <3>1, PartType DEF TypeOK
    <3> QED
      BY <1>17, <3>2 DEF DrainFail, TypeOK
  <2>3. synced' \in 0..Len(file')
    BY <1>17, ConstantsAssumption DEF DrainFail, TypeOK
  <2>4. lost' \subseteq Entry
    BY <1>17 DEF DrainFail, TypeOK, ToSet
  <2>5. errors' \in Nat
    BY <1>17 DEF DrainFail, TypeOK
  <2>6. batch' \in [Drainers -> Seq(Entry)]
    BY <1>17 DEF DrainFail, TypeOK, Drainers
  <2>7. lockq' \in Seq(Drainers)
    BY <1>17, <1>a, TailOfLock DEF DrainFail, TypeOK, InLock
  <2> QED
    BY <1>17, <2>1, <2>2, <2>3, <2>4, <2>5, <2>6, <2>7 DEF DrainFail, TypeOK, disk, control, history
<1>18. ASSUME StartFlusher PROVE TypeOK'
  BY <1>18 DEF StartFlusher, Goto, TypeOK, Tasks, Drainers, Labels, disk, control, history
<1>19. ASSUME StoreHandle PROVE TypeOK'
  BY <1>19 DEF StoreHandle, Goto, TypeOK, Tasks, Drainers, Labels, disk, control, history
<1>20. ASSUME FlusherTick PROVE TypeOK'
  BY <1>20 DEF FlusherTick, Goto, TypeOK, Tasks, Drainers, Labels, disk, control, history
<1>21. ASSUME FlusherNotified PROVE TypeOK'
  BY <1>21 DEF FlusherNotified, Goto, TypeOK, Tasks, Drainers, Labels, disk, control, history
<1>22. ASSUME FlusherCheck PROVE TypeOK'
  BY <1>22 DEF FlusherCheck, Goto, TypeOK, Tasks, Drainers, Labels, disk, control, history
<1>23. ASSUME NEW s \in Stoppers, StopCall(s) PROVE TypeOK'
  BY <1>23 DEF StopCall, Goto, TypeOK, Tasks, Drainers, Labels, disk, control, history
<1>24. ASSUME NEW s \in Stoppers, StopNotify(s) PROVE TypeOK'
  BY <1>24 DEF StopNotify, Goto, TypeOK, Tasks, Drainers, Labels, disk, control, history
<1>25. ASSUME NEW s \in Stoppers, StopTake(s) PROVE TypeOK'
  BY <1>25 DEF StopTake, Goto, TypeOK, Tasks, Drainers, Labels, disk, control, history
<1>26. ASSUME NEW s \in Stoppers, StopJoin(s) PROVE TypeOK'
  BY <1>26 DEF StopJoin, Goto, TypeOK, Tasks, Drainers, Labels, disk, control, history
<1>27. CASE UNCHANGED vars
  BY <1>27 DEF vars, TypeOK, disk, control, history
<1> QED
  BY <1>1, <1>2, <1>3, <1>4, <1>5, <1>6, <1>7, <1>8, <1>9, <1>10, <1>11, <1>12, <1>13, <1>14, <1>15, <1>16, <1>17, <1>18, <1>19, <1>20, <1>21, <1>22, <1>23, <1>24, <1>25, <1>26, <1>27
  DEF Next, WriterStep, DrainStep, StopStep

\* The holder leaves, every other drain keeps its place.
LEMMA LockRelease ==
    \A d \in Drainers :
        /\ lockq \in Seq(Drainers) /\ lockq # <<>> /\ LockOK /\ lockq[1] = d
        /\ lockq' = Tail(lockq) /\ pc'[d] \notin InLock
        /\ \A o \in Drainers \ {d} : \/ pc'[o] = pc[o]
                                     \/ pc[o] \notin InLock /\ pc'[o] \notin InLock
        => LockOK'
<1> SUFFICES
    ASSUME NEW d \in Drainers,
           lockq \in Seq(Drainers), lockq # <<>>, LockOK, lockq[1] = d,
           lockq' = Tail(lockq), pc'[d] \notin InLock,
           \A o \in Drainers \ {d} : \/ pc'[o] = pc[o]
                                     \/ pc[o] \notin InLock /\ pc'[o] \notin InLock
    PROVE  LockOK'
  OBVIOUS
<1>1. /\ Len(lockq') = Len(lockq) - 1
      /\ \A i \in 1..Len(lockq') : lockq'[i] = lockq[i + 1]
  BY TailOfLock
<1>2. Len(lockq) \in Nat \ {0}
  OBVIOUS
<1>3. ASSUME NEW o \in Drainers
      PROVE  pc'[o] \in InLock <=> \E i \in 1..Len(lockq') : lockq'[i] = o
  <2>1. CASE o = d
    BY <1>1, <1>2, <2>1 DEF LockOK
  <2>2. CASE o # d
    <3>1. pc'[o] \in InLock <=> \E i \in 1..Len(lockq) : lockq[i] = o
      BY <2>2 DEF LockOK
    <3>2. ASSUME NEW i \in 1..Len(lockq), lockq[i] = o
          PROVE  \E j \in 1..Len(lockq') : lockq'[j] = o
      <4>1. i # 1 /\ i - 1 \in 1..Len(lockq')
        BY <1>1, <1>2, <2>2, <3>2
      <4>2. lockq'[i - 1] = lockq[(i - 1) + 1] /\ (i - 1) + 1 = i
        BY <1>1, <4>1
      <4> QED
        BY <3>2, <4>1, <4>2
    <3> QED
      BY <1>1, <1>2, <3>1, <3>2
  <2> QED
    BY <2>1, <2>2
<1>4. \A i, j \in 1..Len(lockq') : lockq'[i] = lockq'[j] => i = j
  BY <1>1, <1>2 DEF LockOK
<1>5. \A o \in Drainers : pc'[o] \notin {"sync", "release", "wake"}
  BY DEF LockOK, InLock
<1> QED
  BY <1>3, <1>4, <1>5 DEF LockOK

LEMMA LockStep == TypeOK /\ LockOK /\ [Next]_vars => LockOK'
<1> SUFFICES ASSUME TypeOK, LockOK, [Next]_vars PROVE LockOK'
  OBVIOUS
<1>a. pc \in [Tasks -> Labels] /\ lockq \in Seq(Drainers)
  BY DEF TypeOK
<1>1. ASSUME NEW w \in Writers, AppendCall(w) PROVE LockOK'
  BY <1>a, <1>1, TasksAssumption
  DEF AppendCall, Goto, LockOK, Tasks, Drainers, InLock
<1>2. ASSUME NEW w \in Writers, AppendLoad(w) PROVE LockOK'
  BY <1>a, <1>2, TasksAssumption
  DEF AppendLoad, Goto, LockOK, Tasks, Drainers, InLock
<1>3. ASSUME NEW w \in Writers, AppendPark(w) PROVE LockOK'
  BY <1>a, <1>3, TasksAssumption
  DEF AppendPark, Goto, LockOK, Tasks, Drainers, InLock
<1>4. ASSUME NEW w \in Writers, AppendCas(w) PROVE LockOK'
  BY <1>a, <1>4, TasksAssumption
  DEF AppendCas, Goto, LockOK, Tasks, Drainers, InLock
<1>5. ASSUME NEW w \in Writers, AppendPush(w) PROVE LockOK'
  BY <1>a, <1>5, TasksAssumption
  DEF AppendPush, Goto, LockOK, Tasks, Drainers, InLock
<1>6. ASSUME NEW w \in Writers, AppendNotify(w) PROVE LockOK'
  BY <1>a, <1>6, TasksAssumption
  DEF AppendNotify, Goto, LockOK, Tasks, Drainers, InLock
<1>7. ASSUME NEW w \in Writers, FlushCall(w) PROVE LockOK'
  BY <1>a, <1>7, TasksAssumption
  DEF FlushCall, Goto, LockOK, Tasks, Drainers, InLock
<1>8. ASSUME NEW w \in Writers, FlushPoll(w) PROVE LockOK'
  BY <1>a, <1>8, TasksAssumption
  DEF FlushPoll, Goto, LockOK, Tasks, Drainers, InLock
<1>9. ASSUME NEW w \in Writers, FlushRecheck(w) PROVE LockOK'
  BY <1>a, <1>9, TasksAssumption
  DEF FlushRecheck, Goto, Acknowledge, LockOK, Tasks, Drainers, InLock
<1>10. ASSUME NEW d \in Drainers, DrainPop(d) PROVE LockOK'
  BY <1>a, <1>10, TasksAssumption
  DEF DrainPop, Goto, LockOK, Tasks, Drainers, InLock
<1>11. ASSUME NEW d \in Drainers, DrainPopNone(d) PROVE LockOK'
  BY <1>a, <1>11, TasksAssumption
  DEF DrainPopNone, Goto, Acknowledge, ReturnOf, LockOK, Tasks, Drainers, InLock
<1>12. ASSUME NEW d \in Drainers, DrainLock(d) PROVE LockOK'
  BY <1>a, <1>12, TasksAssumption
  DEF DrainLock, Goto, LockOK, Tasks, Drainers, InLock
<1>13. ASSUME NEW d \in Drainers, DrainWrite(d) PROVE LockOK'
  BY <1>a, <1>13, TasksAssumption
  DEF DrainWrite, Goto, LockOK, Tasks, Drainers, InLock
<1>14. ASSUME NEW d \in Drainers, DrainSync(d) PROVE LockOK'
  BY <1>a, <1>14, TasksAssumption
  DEF DrainSync, Goto, LockOK, Tasks, Drainers, InLock
<1>15. ASSUME NEW d \in Drainers, DrainRelease(d) PROVE LockOK'
  BY <1>a, <1>15, TasksAssumption
  DEF DrainRelease, Goto, LockOK, Tasks, Drainers, InLock
<1>16. ASSUME NEW d \in Drainers, DrainWake(d) PROVE LockOK'
  <2>1. lockq # <<>> /\ lockq[1] = d /\ pc[d] \in InLock
    BY <1>a, <1>16 DEF DrainWake, LockOK, InLock
  <2>2. lockq' = Tail(lockq)
    BY <1>16 DEF DrainWake
  <2>3. pc'[d] \notin InLock
    BY <1>a, <1>16, TasksAssumption DEF DrainWake, Goto, ReturnOf, Tasks, Drainers, InLock
  <2>4. \A o \in Drainers \ {d} : \/ pc'[o] = pc[o]
                                  \/ pc[o] \notin InLock /\ pc'[o] \notin InLock
    BY <1>a, <1>16 DEF DrainWake, Goto, Tasks, Drainers, InLock
  <2> QED
    BY <1>a, <2>1, <2>2, <2>3, <2>4, LockRelease
<1>17. ASSUME NEW d \in Drainers, DrainFail(d) PROVE LockOK'
  <2>1. lockq # <<>> /\ lockq[1] = d /\ pc[d] \in InLock
    BY <1>a, <1>17 DEF DrainFail, LockOK, InLock
  <2>2. lockq' = Tail(lockq)
    BY <1>17 DEF DrainFail
  <2>3. pc'[d] \notin InLock
    BY <1>a, <1>17, TasksAssumption DEF DrainFail, Goto, ReturnOf, Tasks, Drainers, InLock
  <2>4. \A o \in Drainers \ {d} : \/ pc'[o] = pc[o]
                                  \/ pc[o] \notin InLock /\ pc'[o] \notin InLock
    BY <1>a, <1>17 DEF DrainFail, Goto, Tasks, Drainers, InLock
  <2> QED
    BY <1>a, <2>1, <2>2, <2>3, <2>4, LockRelease
<1>18. ASSUME StartFlusher PROVE LockOK'
  BY <1>a, <1>18, TasksAssumption
  DEF StartFlusher, Goto, LockOK, Tasks, Drainers, InLock
<1>19. ASSUME StoreHandle PROVE LockOK'
  BY <1>a, <1>19, TasksAssumption
  DEF StoreHandle, Goto, LockOK, Tasks, Drainers, InLock
<1>20. ASSUME FlusherTick PROVE LockOK'
  BY <1>a, <1>20, TasksAssumption
  DEF FlusherTick, Goto, LockOK, Tasks, Drainers, InLock
<1>21. ASSUME FlusherNotified PROVE LockOK'
  BY <1>a, <1>21, TasksAssumption
  DEF FlusherNotified, Goto, LockOK, Tasks, Drainers, InLock
<1>22. ASSUME FlusherCheck PROVE LockOK'
  BY <1>a, <1>22, TasksAssumption
  DEF FlusherCheck, Goto, LockOK, Tasks, Drainers, InLock
<1>23. ASSUME NEW s \in Stoppers, StopCall(s) PROVE LockOK'
  BY <1>a, <1>23, TasksAssumption
  DEF StopCall, Goto, LockOK, Tasks, Drainers, InLock
<1>24. ASSUME NEW s \in Stoppers, StopNotify(s) PROVE LockOK'
  BY <1>a, <1>24, TasksAssumption
  DEF StopNotify, Goto, LockOK, Tasks, Drainers, InLock
<1>25. ASSUME NEW s \in Stoppers, StopTake(s) PROVE LockOK'
  BY <1>a, <1>25, TasksAssumption
  DEF StopTake, Goto, LockOK, Tasks, Drainers, InLock
<1>26. ASSUME NEW s \in Stoppers, StopJoin(s) PROVE LockOK'
  BY <1>a, <1>26, TasksAssumption
  DEF StopJoin, Goto, LockOK, Tasks, Drainers, InLock
<1>27. CASE UNCHANGED vars
  BY <1>27 DEF vars, LockOK
<1> QED
  BY <1>1, <1>2, <1>3, <1>4, <1>5, <1>6, <1>7, <1>8, <1>9, <1>10, <1>11, <1>12, <1>13, <1>14, <1>15, <1>16, <1>17, <1>18, <1>19, <1>20, <1>21, <1>22, <1>23, <1>24, <1>25, <1>26, <1>27
  DEF Next, WriterStep, DrainStep, StopStep

-----------------------------------------------------------------------------
(* pending_count is what it stands for *)

\* Every entry is in one place, and only between its first pop and its
\* fetch_sub does a drain hold a batch.
PlaceOK ==
    /\ \A d \in Drainers :
          batch[d] # <<>> => pc[d] \in {"pop", "lock", "write", "sync", "release"}
    /\ IsInjective(queue)
    /\ \A d \in Drainers : IsInjective(batch[d])
    /\ \A d \in Drainers : ToSet(queue) \cap ToSet(batch[d]) = {}
    /\ \A d, e \in Drainers : d # e => ToSet(batch[d]) \cap ToSet(batch[e]) = {}
    /\ \A d \in Drainers : lost \cap ToSet(batch[d]) = {}
    /\ lost \cap ToSet(queue) = {}
    /\ ToSet(queue) \cup Batched \cup lost \subseteq Accepted

HeldOK == IsFiniteSet(Held) /\ CountIsHeld

LEMMA HeldInit == Init => PlaceOK /\ HeldOK
<1> SUFFICES ASSUME Init PROVE PlaceOK /\ HeldOK
  OBVIOUS
<1>1. ToSet(queue) = {} /\ lost = {} /\ \A d \in Drainers : batch[d] = <<>> /\ ToSet(batch[d]) = {}
  BY DEF Init, ToSet
<1>2. \A w \in Writers : pc[w] # "push"
  BY TasksAssumption DEF Init, Tasks, Drainers
<1>3. Held = {}
  BY <1>1, <1>2 DEF Held, Reserved, Batched
<1>4. PlaceOK
  BY <1>1 DEF Init, PlaceOK, Batched, IsInjective
<1> QED
  BY <1>3, <1>4, FS_EmptySet DEF Init, HeldOK, CountIsHeld

\* A step that moves no entry, no slot and no reservation.
LEMMA HeldFrame ==
    ASSUME PlaceOK, HeldOK,
           UNCHANGED <<count, queue, batch, lost, appended>>,
           \A w \in Writers : pc'[w] = "push" <=> pc[w] = "push",
           \A d \in Drainers : batch[d] # <<>> =>
               pc'[d] \in {"pop", "lock", "write", "sync", "release"}
    PROVE  PlaceOK' /\ HeldOK'
<1>1. PlaceOK'
  BY DEF PlaceOK, Batched, Accepted
<1>2. Reserved' = Reserved
  BY DEF Reserved
<1>3. Held' = Held
  BY <1>2 DEF Held, Batched
<1> QED
  BY <1>1, <1>3 DEF HeldOK, CountIsHeld

LEMMA HeldStep == TypeOK /\ LockOK /\ PlaceOK /\ HeldOK /\ [Next]_vars => PlaceOK' /\ HeldOK'
<1> SUFFICES ASSUME TypeOK, LockOK, PlaceOK, HeldOK, [Next]_vars PROVE PlaceOK' /\ HeldOK'
  OBVIOUS
<1>a. pc \in [Tasks -> Labels]
  BY DEF TypeOK
<1>b. \A d \in Drainers : batch[d] # <<>> => pc[d] \in {"pop", "lock", "write", "sync", "release"}
  BY DEF PlaceOK
<1>q1. ASSUME NEW w \in Writers,
             AppendCall(w) \/ AppendLoad(w) \/ AppendPark(w) \/ AppendNotify(w)
      PROVE  PlaceOK' /\ HeldOK'
  <2>1. UNCHANGED <<count, queue, batch, lost, appended>>
    BY <1>q1 DEF AppendCall, AppendLoad, AppendPark, AppendNotify, control, disk, history
  <2>2. \A v \in Writers : pc'[v] = "push" <=> pc[v] = "push"
    BY <1>a, <1>q1, TasksAssumption DEF AppendCall, AppendLoad, AppendPark, AppendNotify, Goto, Tasks, Drainers
  <2>3. \A e \in Drainers : batch[e] # <<>> =>
            pc'[e] \in {"pop", "lock", "write", "sync", "release"}
    BY <1>a, <1>b, <1>q1, TasksAssumption DEF AppendCall, AppendLoad, AppendPark, AppendNotify, Goto, Tasks, Drainers
  <2> QED
    BY <2>1, <2>2, <2>3, HeldFrame
<1>q2. ASSUME NEW w \in Writers, FlushCall(w) \/ FlushPoll(w) \/ FlushRecheck(w)
      PROVE  PlaceOK' /\ HeldOK'
  <2>1. UNCHANGED <<count, queue, batch, lost, appended>>
    BY <1>q2 DEF FlushCall, FlushPoll, FlushRecheck, control, disk, history
  <2>2. \A v \in Writers : pc'[v] = "push" <=> pc[v] = "push"
    BY <1>a, <1>q2, TasksAssumption DEF FlushCall, FlushPoll, FlushRecheck, Goto, Tasks, Drainers
  <2>3. \A e \in Drainers : batch[e] # <<>> =>
            pc'[e] \in {"pop", "lock", "write", "sync", "release"}
    BY <1>a, <1>b, <1>q2, TasksAssumption DEF FlushCall, FlushPoll, FlushRecheck, Goto, Tasks, Drainers
  <2> QED
    BY <2>1, <2>2, <2>3, HeldFrame
<1>q3. ASSUME NEW d \in Drainers,
             DrainPopNone(d) \/ DrainLock(d) \/ DrainWrite(d) \/ DrainSync(d) \/ DrainWake(d)
      PROVE  PlaceOK' /\ HeldOK'
  <2>1. UNCHANGED <<count, queue, batch, lost, appended>>
    BY <1>q3 DEF DrainPopNone, DrainLock, DrainWrite, DrainSync, DrainWake, ReturnOf, control, disk, history
  <2>2. \A v \in Writers : pc'[v] = "push" <=> pc[v] = "push"
    BY <1>a, <1>q3, TasksAssumption DEF DrainPopNone, DrainLock, DrainWrite, DrainSync, DrainWake, ReturnOf, Goto, Tasks, Drainers
  <2>3. \A e \in Drainers : batch[e] # <<>> =>
            pc'[e] \in {"pop", "lock", "write", "sync", "release"}
    BY <1>a, <1>b, <1>q3, TasksAssumption DEF DrainPopNone, DrainLock, DrainWrite, DrainSync, DrainWake, ReturnOf, Goto, Tasks, Drainers
  <2> QED
    BY <2>1, <2>2, <2>3, HeldFrame
<1>q4. ASSUME StartFlusher \/ StoreHandle \/ FlusherTick \/ FlusherNotified \/ FlusherCheck
      PROVE  PlaceOK' /\ HeldOK'
  <2>1. UNCHANGED <<count, queue, batch, lost, appended>>
    BY <1>q4 DEF StartFlusher, StoreHandle, FlusherTick, FlusherNotified, FlusherCheck, control, disk, history
  <2>2. \A v \in Writers : pc'[v] = "push" <=> pc[v] = "push"
    BY <1>a, <1>q4, TasksAssumption DEF StartFlusher, StoreHandle, FlusherTick, FlusherNotified, FlusherCheck, Goto, Tasks, Drainers
  <2>3. \A e \in Drainers : batch[e] # <<>> =>
            pc'[e] \in {"pop", "lock", "write", "sync", "release"}
    BY <1>a, <1>b, <1>q4, TasksAssumption DEF StartFlusher, StoreHandle, FlusherTick, FlusherNotified, FlusherCheck, Goto, Tasks, Drainers
  <2> QED
    BY <2>1, <2>2, <2>3, HeldFrame
<1>q5. ASSUME NEW s \in Stoppers, StopCall(s) \/ StopNotify(s) \/ StopTake(s) \/ StopJoin(s)
      PROVE  PlaceOK' /\ HeldOK'
  <2>1. UNCHANGED <<count, queue, batch, lost, appended>>
    BY <1>q5 DEF StopCall, StopNotify, StopTake, StopJoin, control, disk, history
  <2>2. \A v \in Writers : pc'[v] = "push" <=> pc[v] = "push"
    BY <1>a, <1>q5, TasksAssumption DEF StopCall, StopNotify, StopTake, StopJoin, Goto, Tasks, Drainers
  <2>3. \A e \in Drainers : batch[e] # <<>> =>
            pc'[e] \in {"pop", "lock", "write", "sync", "release"}
    BY <1>a, <1>b, <1>q5, TasksAssumption DEF StopCall, StopNotify, StopTake, StopJoin, Goto, Tasks, Drainers
  <2> QED
    BY <2>1, <2>2, <2>3, HeldFrame
<1>1. ASSUME NEW w \in Writers, AppendCas(w) PROVE PlaceOK' /\ HeldOK'
  <2>1. UNCHANGED <<queue, batch, lost, appended>>
    BY <1>1 DEF AppendCas, history
  <2>2. \A d \in Drainers : batch[d] # <<>> =>
            pc'[d] \in {"pop", "lock", "write", "sync", "release"}
    BY <1>a, <1>b, <1>1 DEF AppendCas, Goto, Tasks, Drainers
  <2>3. CASE count # seen[w]
    <3>1. UNCHANGED count /\ \A v \in Writers : pc'[v] = "push" <=> pc[v] = "push"
      BY <1>a, <1>1, <2>3 DEF AppendCas, Goto, Tasks, Drainers
    <3> QED
      BY <2>1, <2>2, <3>1, HeldFrame
  <2>4. CASE count = seen[w]
    <3> DEFINE e == <<w, appended[w] + 1>>
    <3>1. count' = count + 1 /\ pc[w] = "cas" /\ pc' = [pc EXCEPT ![w] = "push"]
      BY <1>1, <2>4 DEF AppendCas, Goto
    <3>2. { v \in Writers : pc'[v] = "push" } = { v \in Writers : pc[v] = "push" } \cup {w}
      BY <1>a, <3>1 DEF Tasks, Drainers
    <3>3. Reserved' = Reserved \cup {e}
      BY <2>1, <3>2 DEF Reserved
    <3>4. Held' = Held \cup {e}
      BY <2>1, <3>3 DEF Held, Batched
    <3>5. e \notin ToSet(queue) \cup Batched \cup lost
      <4>1. appended[w] \in Nat
        BY DEF TypeOK
      <4>2. e \notin Accepted
        BY <4>1 DEF Accepted
      <4> QED
        BY <4>2 DEF PlaceOK
    <3>6. e \notin Reserved
      BY <3>1 DEF Reserved
    <3>7. e \notin Held
      BY <3>5, <3>6 DEF Held
    <3>8. HeldOK'
      BY <3>1, <3>4, <3>7, FS_AddElement DEF HeldOK, CountIsHeld
    <3>9. Batched' = Batched /\ Accepted' = Accepted
      BY <2>1 DEF Batched, Accepted
    <3>10. PlaceOK'
      BY <2>1, <2>2, <3>9 DEF PlaceOK
    <3> QED
      BY <3>8, <3>10
  <2> QED
    BY <2>3, <2>4
<1>2. ASSUME NEW w \in Writers, AppendPush(w) PROVE PlaceOK' /\ HeldOK'
  <2> DEFINE e == <<w, appended[w] + 1>>
  <2>0. appended[w] \in Nat /\ queue \in Seq(Entry) /\ appended \in [Writers -> Nat]
    BY DEF TypeOK
  <2>1. /\ UNCHANGED <<count, batch, lost>>
        /\ appended' = [appended EXCEPT ![w] = @ + 1]
        /\ pc[w] = "push" /\ pc' = [pc EXCEPT ![w] = "notify"]
    BY <1>2 DEF AppendPush, Goto, history
  <2>2. queue' = Append(queue, e) /\ e \in Entry
    BY <1>2, <2>0 DEF AppendPush, Entry
  <2>3. e \notin Accepted /\ e \in Accepted' /\ Accepted \subseteq Accepted'
    BY <2>0, <2>1, <2>2 DEF Accepted, Entry
  <2>4. e \notin ToSet(queue) /\ e \notin lost /\ \A d \in Drainers : e \notin ToSet(batch[d])
    BY <2>3 DEF PlaceOK, Batched
  <2>5. ToSet(queue') = ToSet(queue) \cup {e} /\ IsInjective(queue')
    BY <2>0, <2>2, <2>4, AppendElements DEF PlaceOK
  <2>6. \A d \in Drainers : batch[d] # <<>> =>
            pc'[d] \in {"pop", "lock", "write", "sync", "release"}
    BY <1>a, <1>b, <2>1 DEF Tasks, Drainers
  <2>7. PlaceOK'
    <3>1. Batched' = Batched
      BY <2>1 DEF Batched
    <3>2. \A d \in Drainers : ToSet(queue') \cap ToSet(batch'[d]) = {}
      BY <2>1, <2>4, <2>5 DEF PlaceOK
    <3>3. lost' \cap ToSet(queue') = {} /\ ToSet(queue') \cup Batched' \cup lost' \subseteq Accepted'
      BY <2>1, <2>3, <2>4, <2>5, <3>1 DEF PlaceOK
    <3> QED
      BY <2>1, <2>5, <2>6, <3>2, <3>3 DEF PlaceOK
  <2>8. { v \in Writers : pc'[v] = "push" } = { v \in Writers : pc[v] = "push" } \ {w}
    BY <1>a, <2>1 DEF Tasks, Drainers
  <2>9. \A v \in Writers \ {w} : appended'[v] = appended[v]
    BY <2>0, <2>1
  <2>10. Reserved' = Reserved \ {e} /\ e \in Reserved
    BY <2>1, <2>8, <2>9 DEF Reserved
  <2>11. Held' = Held
    BY <2>1, <2>5, <2>10 DEF Held, Batched
  <2> QED
    BY <2>1, <2>7, <2>11 DEF HeldOK, CountIsHeld
<1>3. ASSUME NEW d \in Drainers, DrainPop(d) PROVE PlaceOK' /\ HeldOK'
  <2> DEFINE e == Head(queue)
  <2>0. queue \in Seq(Entry) /\ batch \in [Drainers -> Seq(Entry)] /\ batch[d] \in Seq(Entry)
    BY DEF TypeOK
  <2>1. /\ UNCHANGED <<pc, count, lost, appended>> /\ queue # <<>> /\ pc[d] = "pop"
        /\ queue' = Tail(queue)
        /\ batch' = [batch EXCEPT ![d] = Append(batch[d], e)]
    BY <1>3 DEF DrainPop, history
  <2>2. /\ ToSet(queue) = {e} \cup ToSet(queue') /\ e \in Entry
        /\ IsInjective(queue') /\ e \notin ToSet(queue')
    BY <2>0, <2>1, TailElements DEF PlaceOK
  <2>3. e \notin ToSet(batch[d])
    BY <2>2 DEF PlaceOK
  <2>4. batch'[d] = Append(batch[d], e) /\ \A o \in Drainers \ {d} : batch'[o] = batch[o]
    BY <2>0, <2>1
  <2>5. ToSet(batch'[d]) = ToSet(batch[d]) \cup {e} /\ IsInjective(batch'[d])
    BY <2>0, <2>2, <2>3, <2>4, AppendElements DEF PlaceOK
  <2>6. Batched' = Batched \cup {e}
    BY <2>4, <2>5 DEF Batched
  <2>7. PlaceOK'
    <3>1. \A o \in Drainers : /\ batch'[o] # <<>> => pc'[o] \in {"pop", "lock", "write", "sync", "release"}
                              /\ IsInjective(batch'[o])
      BY <1>b, <2>1, <2>4, <2>5 DEF PlaceOK
    <3>2. \A o \in Drainers : /\ ToSet(queue') \cap ToSet(batch'[o]) = {}
                              /\ lost' \cap ToSet(batch'[o]) = {}
      BY <2>1, <2>2, <2>4, <2>5 DEF PlaceOK
    <3>3. \A o, r \in Drainers : o # r => ToSet(batch'[o]) \cap ToSet(batch'[r]) = {}
      BY <2>2, <2>4, <2>5 DEF PlaceOK
    <3>4. lost' \cap ToSet(queue') = {} /\ ToSet(queue') \cup Batched' \cup lost' \subseteq Accepted'
      BY <2>1, <2>2, <2>6 DEF PlaceOK, Accepted
    <3> QED
      BY <2>2, <3>1, <3>2, <3>3, <3>4 DEF PlaceOK
  <2>8. Held' = Held
    BY <2>1, <2>2, <2>6 DEF Held, Reserved
  <2> QED
    BY <2>1, <2>7, <2>8 DEF HeldOK, CountIsHeld
<1>4. ASSUME NEW d \in Drainers, DrainRelease(d) PROVE PlaceOK' /\ HeldOK'
  <2>0. batch \in [Drainers -> Seq(Entry)] /\ batch[d] \in Seq(Entry)
    BY DEF TypeOK
  <2>1. /\ UNCHANGED <<queue, lost, appended>> /\ count' = count - Len(batch[d])
        /\ batch' = [batch EXCEPT ![d] = <<>>]
        /\ pc[d] = "release" /\ pc' = [pc EXCEPT ![d] = "wake"]
    BY <1>4 DEF DrainRelease, Goto, history
  <2>2. batch'[d] = <<>> /\ ToSet(batch'[d]) = {} /\ \A o \in Drainers \ {d} : batch'[o] = batch[o]
    BY <2>0, <2>1 DEF ToSet
  <2>3. \A o \in Drainers \ {d} : ToSet(batch[o]) \cap ToSet(batch[d]) = {}
    BY DEF PlaceOK
  <2>4. Batched' = Batched \ ToSet(batch[d]) /\ ToSet(batch[d]) \subseteq Batched
    BY <2>2, <2>3 DEF Batched
  <2>5. PlaceOK'
    <3>1. \A o \in Drainers : /\ batch'[o] # <<>> => pc'[o] \in {"pop", "lock", "write", "sync", "release"}
                              /\ IsInjective(batch'[o])
      BY <1>a, <1>b, <2>1, <2>2 DEF PlaceOK, IsInjective, Tasks, Drainers
    <3>2. \A o \in Drainers : /\ ToSet(queue') \cap ToSet(batch'[o]) = {}
                              /\ lost' \cap ToSet(batch'[o]) = {}
      BY <2>1, <2>2 DEF PlaceOK
    <3>3. \A o, r \in Drainers : o # r => ToSet(batch'[o]) \cap ToSet(batch'[r]) = {}
      BY <2>2 DEF PlaceOK
    <3>4. lost' \cap ToSet(queue') = {} /\ ToSet(queue') \cup Batched' \cup lost' \subseteq Accepted'
      BY <2>1, <2>4 DEF PlaceOK, Accepted
    <3> QED
      BY <2>1, <3>1, <3>2, <3>3, <3>4 DEF PlaceOK
  <2>6. Reserved' = Reserved
    BY <1>a, <2>1 DEF Reserved, Tasks, Drainers
  <2>7. Reserved \cap ToSet(batch[d]) = {}
    <3>1. \A w \in Writers : <<w, appended[w] + 1>> \notin Accepted
      BY DEF TypeOK, Accepted
    <3> QED
      BY <2>4, <3>1 DEF PlaceOK, Reserved
  <2>8. Held' = Held \ ToSet(batch[d]) /\ ToSet(batch[d]) \subseteq Held
    BY <2>1, <2>4, <2>6, <2>7 DEF Held, PlaceOK
  <2>9. Cardinality(ToSet(batch[d])) = Len(batch[d])
    BY <2>0, CountElements DEF PlaceOK
  <2>10. Held \cap ToSet(batch[d]) = ToSet(batch[d])
    BY <2>8
  <2>11. /\ IsFiniteSet(Held \ ToSet(batch[d]))
         /\ Cardinality(Held \ ToSet(batch[d])) = Cardinality(Held) - Len(batch[d])
    <3>1. IsFiniteSet(Held)
      BY DEF HeldOK
    <3> DEFINE B == ToSet(batch[d])
    <3>2. /\ IsFiniteSet(Held \ B)
          /\ Cardinality(Held \ B) = Cardinality(Held) - Cardinality(Held \cap B)
      <4> HIDE DEF B
      <4> QED
        BY <3>1, FS_Difference
    <3> QED
      BY <2>9, <2>10, <3>2
  <2> QED
    BY <2>1, <2>5, <2>8, <2>11 DEF HeldOK, CountIsHeld
<1>5. ASSUME NEW d \in Drainers, DrainFail(d) PROVE PlaceOK' /\ HeldOK'
  <2>0. batch \in [Drainers -> Seq(Entry)] /\ batch[d] \in Seq(Entry)
    BY DEF TypeOK
  <2>1. /\ UNCHANGED <<count, queue, appended>> /\ lost' = lost \cup ToSet(batch[d])
        /\ batch' = [batch EXCEPT ![d] = <<>>] /\ pc[d] \in {"write", "sync"}
        /\ pc' = [pc EXCEPT ![d] = ReturnOf(d)]
    BY <1>5 DEF DrainFail, Goto
  <2>2. batch'[d] = <<>> /\ ToSet(batch'[d]) = {} /\ \A o \in Drainers \ {d} : batch'[o] = batch[o]
    BY <2>0, <2>1 DEF ToSet
  <2>3. Batched' \cup lost' = Batched \cup lost
    BY <2>1, <2>2 DEF Batched
  <2>4. PlaceOK'
    <3>1. \A o \in Drainers : /\ batch'[o] # <<>> => pc'[o] \in {"pop", "lock", "write", "sync", "release"}
                              /\ IsInjective(batch'[o])
      BY <1>a, <1>b, <2>1, <2>2 DEF PlaceOK, IsInjective, Tasks, Drainers
    <3>2. \A o \in Drainers : /\ ToSet(queue') \cap ToSet(batch'[o]) = {}
                              /\ lost' \cap ToSet(batch'[o]) = {}
      BY <2>1, <2>2 DEF PlaceOK
    <3>3. \A o, r \in Drainers : o # r => ToSet(batch'[o]) \cap ToSet(batch'[r]) = {}
      BY <2>2 DEF PlaceOK
    <3>4. lost' \cap ToSet(queue') = {} /\ ToSet(queue') \cup Batched' \cup lost' \subseteq Accepted'
      BY <2>1, <2>3 DEF PlaceOK, Accepted
    <3> QED
      BY <2>1, <3>1, <3>2, <3>3, <3>4 DEF PlaceOK
  <2>5. Reserved' = Reserved
    BY <1>a, <2>1, TasksAssumption DEF Reserved, ReturnOf, Tasks, Drainers
  <2>6. Held' = Held
    BY <2>1, <2>3, <2>5 DEF Held
  <2> QED
    BY <2>1, <2>4, <2>6 DEF HeldOK, CountIsHeld
<1>6. CASE UNCHANGED vars
  BY <1>6, <1>b, HeldFrame DEF vars, history
<1> QED
  BY <1>1, <1>2, <1>3, <1>4, <1>5, <1>6, <1>q1, <1>q2, <1>q3, <1>q4, <1>q5
  DEF Next, WriterStep, DrainStep, StopStep

-----------------------------------------------------------------------------
(* The backpressure bound *)

\* A reservation is made against a loaded value below the bound.
CapacityOK ==
    /\ Capacity
    /\ \A w \in Writers : pc[w] = "cas" => seen[w] < MaxQueueSize

LEMMA CapacityInit == Init => CapacityOK
  BY ConstantsAssumption, TasksAssumption DEF Init, CapacityOK, Capacity, Tasks, Drainers

LEMMA CapacityStep == TypeOK /\ CapacityOK /\ [Next]_vars => CapacityOK'
<1> SUFFICES ASSUME TypeOK, CapacityOK, [Next]_vars PROVE CapacityOK'
  OBVIOUS
<1>a. /\ pc \in [Tasks -> Labels] /\ count \in Int /\ seen \in [Writers -> Int]
      /\ batch \in [Drainers -> Seq(Entry)] /\ MaxQueueSize \in Nat
  BY ConstantsAssumption DEF TypeOK
<1>1. ASSUME NEW w \in Writers, AppendLoad(w) PROVE CapacityOK'
  BY <1>a, <1>1 DEF AppendLoad, Goto, CapacityOK, Capacity, Tasks, Drainers
<1>2. ASSUME NEW w \in Writers, AppendCas(w) PROVE CapacityOK'
  <2>1. count' <= MaxQueueSize
    BY <1>a, <1>2 DEF AppendCas, CapacityOK, Capacity
  <2>2. /\ \A v \in Writers \ {w} : pc'[v] = pc[v] /\ seen'[v] = seen[v]
        /\ pc'[w] # "cas"
    BY <1>a, <1>2 DEF AppendCas, Goto, Tasks, Drainers
  <2> QED
    BY <2>1, <2>2 DEF CapacityOK, Capacity
<1>3. ASSUME NEW d \in Drainers, DrainRelease(d) PROVE CapacityOK'
  <2>1. Len(batch[d]) \in Nat
    BY <1>a
  <2> QED
    BY <1>a, <1>3, <2>1 DEF DrainRelease, Goto, CapacityOK, Capacity, Tasks, Drainers
<1>4. ASSUME UNCHANGED <<count, seen>>, \A w \in Writers : pc'[w] = "cas" => pc[w] = "cas"
      PROVE  CapacityOK'
  BY <1>4 DEF CapacityOK, Capacity
<1>5. ASSUME NEW w \in Writers,
             AppendCall(w) \/ AppendPark(w) \/ AppendPush(w) \/ AppendNotify(w)
      PROVE  CapacityOK'
  BY <1>a, <1>4, <1>5
  DEF AppendCall, AppendPark, AppendPush, AppendNotify, Goto, Tasks, Drainers
<1>6. ASSUME NEW w \in Writers, FlushCall(w) \/ FlushPoll(w) \/ FlushRecheck(w)
      PROVE  CapacityOK'
  BY <1>a, <1>4, <1>6 DEF FlushCall, FlushPoll, FlushRecheck, Goto, Tasks, Drainers
<1>7. ASSUME NEW d \in Drainers,
             \/ DrainPop(d) \/ DrainPopNone(d) \/ DrainLock(d) \/ DrainWrite(d)
             \/ DrainSync(d) \/ DrainWake(d) \/ DrainFail(d)
      PROVE  CapacityOK'
  BY <1>a, <1>4, <1>7
  DEF DrainPop, DrainPopNone, DrainLock, DrainWrite, DrainSync, DrainWake, DrainFail,
      ReturnOf, Goto, Tasks, Drainers
<1>8. ASSUME StartFlusher \/ StoreHandle \/ FlusherTick \/ FlusherNotified \/ FlusherCheck
      PROVE  CapacityOK'
  BY <1>a, <1>4, <1>8, TasksAssumption
  DEF StartFlusher, StoreHandle, FlusherTick, FlusherNotified, FlusherCheck, Goto, Tasks, Drainers
<1>9. ASSUME NEW s \in Stoppers, StopCall(s) \/ StopNotify(s) \/ StopTake(s) \/ StopJoin(s)
      PROVE  CapacityOK'
  BY <1>a, <1>4, <1>9, TasksAssumption
  DEF StopCall, StopNotify, StopTake, StopJoin, Goto, Tasks, Drainers
<1>10. CASE UNCHANGED vars
  BY <1>4, <1>10 DEF vars
<1> QED
  BY <1>1, <1>2, <1>3, <1>5, <1>6, <1>7, <1>8, <1>9, <1>10
  DEF Next, WriterStep, DrainStep, StopStep

-----------------------------------------------------------------------------
(* Nothing that was accepted disappears *)

\* An accepted entry is queued, in a batch, lost to an I/O error or on disk; a
\* drain past its write has its batch in the file, past its fsync on disk.
DurableOK ==
    /\ Accepted \subseteq ToSet(queue) \cup Batched \cup lost \cup Durable
    /\ \A d \in Drainers : pc[d] = "sync" => ToSet(batch[d]) \subseteq ToSet(file)
    /\ \A d \in Drainers : pc[d] = "release" => ToSet(batch[d]) \subseteq Durable

LEMMA DurableInit == Init => DurableOK
<1> SUFFICES ASSUME Init PROVE DurableOK
  OBVIOUS
<1>1. Accepted = {}
  BY DEF Init, Accepted, Entry
<1>2. \A d \in Drainers : pc[d] \notin {"sync", "release"}
  BY DEF Init, Tasks, Drainers
<1> QED
  BY <1>1, <1>2 DEF DurableOK

\* A step that leaves entries and file alone.
LEMMA DurableFrame ==
    ASSUME DurableOK,
           UNCHANGED <<queue, batch, lost, appended, file, synced>>,
           \A d \in Drainers : pc'[d] \in {"sync", "release"} => pc'[d] = pc[d]
    PROVE  DurableOK'
  BY DEF DurableOK, Batched, Accepted, Durable

LEMMA DurableStep ==
    TypeOK /\ LockOK /\ PlaceOK /\ DurableOK /\ [Next]_vars => DurableOK'
<1> SUFFICES ASSUME TypeOK, LockOK, PlaceOK, DurableOK, [Next]_vars PROVE DurableOK'
  OBVIOUS
<1>a. /\ pc \in [Tasks -> Labels] /\ queue \in Seq(Entry)
      /\ batch \in [Drainers -> Seq(Entry)] /\ appended \in [Writers -> Nat]
      /\ file \in Seq(Entry \cup {Torn}) /\ synced \in 0..Len(file)
  BY DEF TypeOK
<1>1. ASSUME NEW w \in Writers, AppendPush(w) PROVE DurableOK'
  <2> DEFINE e == <<w, appended[w] + 1>>
  <2>1. /\ UNCHANGED <<batch, lost, file, synced>>
        /\ appended' = [appended EXCEPT ![w] = @ + 1]
        /\ pc' = [pc EXCEPT ![w] = "notify"]
    BY <1>1 DEF AppendPush, Goto, disk
  <2>2. queue' = Append(queue, e) /\ e \in Entry
    BY <1>1, <1>a DEF AppendPush, Entry
  <2>3. ToSet(queue') = ToSet(queue) \cup {e}
    <3>. HIDE DEF e
    <3>. QED
      BY <1>a, <2>2, AppendElements
  <2>4. Accepted' \subseteq Accepted \cup {e}
    BY <1>a, <2>1 DEF Accepted, Entry
  <2>5. Batched' = Batched /\ Durable' = Durable
    BY <2>1 DEF Batched, Durable
  <2>6. \A d \in Drainers : pc'[d] \in {"sync", "release"} => pc'[d] = pc[d]
    BY <1>a, <2>1 DEF Tasks, Drainers
  <2> QED
    BY <2>1, <2>3, <2>4, <2>5, <2>6 DEF DurableOK
<1>2. ASSUME NEW d \in Drainers, DrainPop(d) PROVE DurableOK'
  <2> DEFINE e == Head(queue)
  <2>1. /\ UNCHANGED <<pc, lost, appended, file, synced>> /\ queue # <<>> /\ pc[d] = "pop"
        /\ queue' = Tail(queue) /\ batch' = [batch EXCEPT ![d] = Append(batch[d], e)]
    BY <1>2 DEF DrainPop, disk, history
  <2>2. ToSet(queue) = {e} \cup ToSet(queue') /\ e \in Entry
    BY <1>a, <2>1, TailElements
  <2>3. batch'[d] = Append(batch[d], e) /\ \A o \in Drainers \ {d} : batch'[o] = batch[o]
    BY <1>a, <2>1
  <2>4. ToSet(batch'[d]) = ToSet(batch[d]) \cup {e}
    BY <1>a, <2>2, <2>3, AppendElements
  <2>5. Batched' = Batched \cup {e}
    BY <2>3, <2>4 DEF Batched
  <2>6. Accepted' = Accepted /\ Durable' = Durable
    BY <2>1 DEF Accepted, Durable
  <2> QED
    BY <2>1, <2>2, <2>3, <2>5, <2>6 DEF DurableOK
<1>3. ASSUME NEW d \in Drainers, DrainWrite(d) PROVE DurableOK'
  <2>1. /\ UNCHANGED <<queue, batch, lost, appended, synced>>
        /\ file' = file \o batch[d] /\ pc' = [pc EXCEPT ![d] = "sync"]
    BY <1>3 DEF DrainWrite, Goto, history
  <2>2. batch[d] \in Seq(Entry \cup {Torn})
    BY <1>a
  <2>3. Durable' = Durable
    BY <1>a, <2>1, <2>2, PrefixOfConcat DEF Durable
  <2>4. ToSet(file') = ToSet(file) \cup ToSet(batch[d])
    BY <1>a, <2>1, <2>2, ConcatElements
  <2>5. Batched' = Batched /\ Accepted' = Accepted
    BY <2>1 DEF Batched, Accepted
  <2>6. \A o \in Drainers \ {d} : pc'[o] = pc[o]
    BY <1>a, <2>1 DEF Tasks, Drainers
  <2>7. pc'[d] = "sync"
    BY <1>a, <2>1 DEF Tasks, Drainers
  <2> QED
    BY <2>1, <2>3, <2>4, <2>5, <2>6, <2>7 DEF DurableOK
<1>4. ASSUME NEW d \in Drainers, DrainSync(d) PROVE DurableOK'
  <2>1. /\ UNCHANGED <<queue, batch, lost, appended, file>> /\ synced' = Len(file)
        /\ pc[d] = "sync" /\ pc' = [pc EXCEPT ![d] = "release"]
    BY <1>4 DEF DrainSync, Goto, history
  <2>2. Durable = { file[i] : i \in 1..synced } /\ Durable' = { file[i] : i \in 1..Len(file) }
    <3>1. Len(file) \in 0..Len(file)
      BY <1>a
    <3> QED
      BY <1>a, <2>1, <3>1, PrefixElements DEF Durable
  <2>3. Durable \subseteq Durable' /\ Durable' = ToSet(file)
    BY <1>a, <2>2 DEF ToSet
  <2>4. Batched' = Batched /\ Accepted' = Accepted
    BY <2>1 DEF Batched, Accepted
  <2>5. \A o \in Drainers \ {d} : pc'[o] = pc[o]
    BY <1>a, <2>1 DEF Tasks, Drainers
  <2>6. pc'[d] = "release" /\ ToSet(batch[d]) \subseteq ToSet(file)
    BY <1>a, <2>1 DEF DurableOK, Tasks, Drainers
  <2> QED
    BY <2>1, <2>3, <2>4, <2>5, <2>6 DEF DurableOK
<1>5. ASSUME NEW d \in Drainers, DrainRelease(d) PROVE DurableOK'
  <2>1. /\ UNCHANGED <<queue, lost, appended, file, synced>>
        /\ batch' = [batch EXCEPT ![d] = <<>>]
        /\ pc[d] = "release" /\ pc' = [pc EXCEPT ![d] = "wake"]
    BY <1>5 DEF DrainRelease, Goto, disk, history
  <2>2. \A o \in Drainers \ {d} : batch'[o] = batch[o] /\ pc'[o] = pc[o]
    BY <1>a, <2>1 DEF Tasks, Drainers
  <2>3. pc'[d] = "wake" /\ ToSet(batch[d]) \subseteq Durable
    BY <1>a, <2>1 DEF DurableOK, Tasks, Drainers
  <2>4. Batched \subseteq Batched' \cup ToSet(batch[d])
    BY <2>2 DEF Batched
  <2>5. Accepted' = Accepted /\ Durable' = Durable
    BY <2>1 DEF Accepted, Durable
  <2> QED
    BY <2>1, <2>2, <2>3, <2>4, <2>5 DEF DurableOK
<1>6. ASSUME NEW d \in Drainers, DrainFail(d) PROVE DurableOK'
  <2>1. /\ UNCHANGED <<queue, appended, synced>> /\ lost' = lost \cup ToSet(batch[d])
        /\ batch' = [batch EXCEPT ![d] = <<>>]
        /\ pc' = [pc EXCEPT ![d] = ReturnOf(d)]
    BY <1>6 DEF DrainFail, Goto
  <2>2. \A o \in Drainers \ {d} : batch'[o] = batch[o] /\ pc'[o] = pc[o]
    BY <1>a, <2>1 DEF Tasks, Drainers
  <2>3. pc'[d] \notin {"sync", "release"}
    BY <1>a, <2>1 DEF ReturnOf, Tasks, Drainers
  <2>4. Batched \cup lost \subseteq Batched' \cup lost'
    BY <2>1, <2>2 DEF Batched
  <2>5. Durable' = Durable /\ ToSet(file) \subseteq ToSet(file')
    <3>1. CASE UNCHANGED file
      BY <2>1, <3>1 DEF Durable
    <3>2. CASE \E part \in WrittenPart(batch[d]) : file' = file \o part
      <4>1. PICK part \in WrittenPart(batch[d]) : file' = file \o part
        BY <3>2
      <4>2. part \in Seq(Entry \cup {Torn})
        BY <1>a, PartType
      <4> QED
        BY <1>a, <2>1, <4>1, <4>2, PrefixOfConcat, ConcatElements DEF Durable
    <3> QED
      BY <1>6, <3>1, <3>2 DEF DrainFail
  <2>6. Accepted' = Accepted
    BY <2>1 DEF Accepted
  <2> QED
    BY <2>1, <2>2, <2>3, <2>4, <2>5, <2>6 DEF DurableOK
<1>7. ASSUME NEW w \in Writers,
             \/ AppendCall(w) \/ AppendLoad(w) \/ AppendPark(w) \/ AppendCas(w)
             \/ AppendNotify(w) \/ FlushCall(w) \/ FlushPoll(w) \/ FlushRecheck(w)
      PROVE  DurableOK'
  <2>1. UNCHANGED <<queue, batch, lost, appended, file, synced>>
    BY <1>7 DEF AppendCall, AppendLoad, AppendPark, AppendCas, AppendNotify, FlushCall,
                FlushPoll, FlushRecheck, disk, history
  <2>2. \A d \in Drainers : pc'[d] \in {"sync", "release"} => pc'[d] = pc[d]
    BY <1>a, <1>7 DEF AppendCall, AppendLoad, AppendPark, AppendCas, AppendNotify, FlushCall,
                      FlushPoll, FlushRecheck, Goto, Tasks, Drainers
  <2> QED
    BY <2>1, <2>2, DurableFrame
<1>8. ASSUME NEW d \in Drainers, DrainPopNone(d) \/ DrainLock(d) \/ DrainWake(d)
      PROVE  DurableOK'
  <2>1. UNCHANGED <<queue, batch, lost, appended, file, synced>>
    BY <1>8 DEF DrainPopNone, DrainLock, DrainWake, disk, history
  <2>2. \A o \in Drainers : pc'[o] \in {"sync", "release"} => pc'[o] = pc[o]
    BY <1>a, <1>8 DEF DrainPopNone, DrainLock, DrainWake, ReturnOf, Goto, Tasks, Drainers
  <2> QED
    BY <2>1, <2>2, DurableFrame
<1>9. ASSUME \/ StartFlusher \/ StoreHandle \/ FlusherTick \/ FlusherNotified \/ FlusherCheck
             \/ \E s \in Stoppers : StopCall(s) \/ StopNotify(s) \/ StopTake(s) \/ StopJoin(s)
      PROVE  DurableOK'
  <2>1. UNCHANGED <<queue, batch, lost, appended, file, synced>>
    BY <1>9 DEF StartFlusher, StoreHandle, FlusherTick, FlusherNotified, FlusherCheck,
                StopCall, StopNotify, StopTake, StopJoin, disk, history
  <2>2. \A d \in Drainers : pc'[d] \in {"sync", "release"} => pc'[d] = pc[d]
    BY <1>a, <1>9, TasksAssumption
    DEF StartFlusher, StoreHandle, FlusherTick, FlusherNotified, FlusherCheck,
        StopCall, StopNotify, StopTake, StopJoin, Goto, Tasks, Drainers
  <2> QED
    BY <2>1, <2>2, DurableFrame
<1>10. CASE UNCHANGED vars
  BY <1>10, DurableFrame DEF vars, disk, history
<1> QED
  BY <1>1, <1>2, <1>3, <1>4, <1>5, <1>6, <1>7, <1>8, <1>9, <1>10
  DEF Next, WriterStep, DrainStep, StopStep

-----------------------------------------------------------------------------
(* The theorems *)

IInv == TypeOK /\ LockOK /\ PlaceOK /\ HeldOK /\ CapacityOK /\ DurableOK

LEMMA Induction == Spec => []IInv
<1>1. Init => IInv
  BY TypesInit, HeldInit, CapacityInit, DurableInit DEF IInv
<1>2. IInv /\ [Next]_vars => IInv'
  BY TypesStep, LockStep, HeldStep, CapacityStep, DurableStep DEF IInv
<1> QED
  BY <1>1, <1>2, PTL DEF Spec

\* Every variable keeps its type, for any number of tasks and any bounds.
THEOREM TypeCorrect == Spec => []TypeOK
<1>1. IInv => TypeOK
  BY DEF IInv
<1> QED
  BY <1>1, Induction, PTL

\* append() never lets more than max_queue_size entries be pending.
THEOREM Backpressure == Spec => []Capacity
<1>1. IInv => Capacity
  BY DEF IInv, CapacityOK
<1> QED
  BY <1>1, Induction, PTL

\* pending_count is the number of entries it stands for: fetch_sub never
\* wraps and no two drains account for the same entry.
THEOREM CountIsExact == Spec => []CountIsHeld
<1>1. IInv => CountIsHeld
  BY DEF IInv, HeldOK
<1> QED
  BY <1>1, Induction, PTL

\* A flush() that reads pending_count as zero may return Ok: every entry
\* queued so far is on disk.
THEOREM ZeroIsSafe == Spec => []ZeroMeansDurable
<1>1. IInv => ZeroMeansDurable
  <2> SUFFICES ASSUME IInv, count = 0 PROVE UpTo(appended) \subseteq Durable
    BY DEF ZeroMeansDurable
  <2>1. Held = {}
    BY FS_EmptySet DEF IInv, HeldOK, CountIsHeld
  <2>2. ToSet(queue) \cup Batched \cup lost = {}
    BY <2>1 DEF Held
  <2>3. UpTo(appended) \subseteq Accepted
    BY DEF IInv, TypeOK, UpTo, Accepted, Entry
  <2> QED
    BY <2>2, <2>3 DEF IInv, DurableOK
<1> QED
  BY <1>1, Induction, PTL

\* A slot of the queue is returned only for an entry that is on disk.
THEOREM SlotsAreSafe == Spec => SlotsFreedWhenDurable
<1>1. ASSUME IInv, [Next]_vars, NEW d \in Drainers,
             batch[d] # <<>>, batch'[d] = <<>>, count' < count
      PROVE  ToSet(batch[d]) \subseteq Durable'
  <2>a. /\ pc \in [Tasks -> Labels] /\ count \in Int /\ batch \in [Drainers -> Seq(Entry)]
    BY <1>1 DEF IInv, TypeOK
  <2>1. PICK o \in Drainers : DrainRelease(o)
    <3>1. ASSUME NEW w \in Writers, AppendCas(w) PROVE FALSE
      BY <1>1, <2>a, <3>1 DEF AppendCas
    <3>2. ASSUME UNCHANGED count PROVE FALSE
      BY <1>1, <2>a, <3>2
    <3>3. ASSUME NEW w \in Writers,
                 \/ AppendCall(w) \/ FlushCall(w) \/ AppendLoad(w) \/ AppendPark(w)
                 \/ AppendPush(w) \/ AppendNotify(w) \/ FlushPoll(w) \/ FlushRecheck(w)
          PROVE  FALSE
      BY <3>2, <3>3 DEF AppendCall, FlushCall, AppendLoad, AppendPark, AppendPush,
                        AppendNotify, FlushPoll, FlushRecheck
    <3>4. ASSUME NEW o \in Drainers,
                 \/ DrainPop(o) \/ DrainPopNone(o) \/ DrainLock(o) \/ DrainWrite(o)
                 \/ DrainSync(o) \/ DrainWake(o) \/ DrainFail(o)
          PROVE  FALSE
      BY <3>2, <3>4 DEF DrainPop, DrainPopNone, DrainLock, DrainWrite, DrainSync,
                        DrainWake, DrainFail
    <3>5. ASSUME \/ StartFlusher \/ StoreHandle \/ FlusherTick \/ FlusherNotified \/ FlusherCheck
                 \/ \E s \in Stoppers : StopCall(s) \/ StopNotify(s) \/ StopTake(s) \/ StopJoin(s)
          PROVE  FALSE
      BY <3>2, <3>5 DEF StartFlusher, StoreHandle, FlusherTick, FlusherNotified,
                        FlusherCheck, StopCall, StopNotify, StopTake, StopJoin
    <3>6. CASE UNCHANGED vars
      BY <3>2, <3>6 DEF vars
    <3> QED
      BY <1>1, <3>1, <3>3, <3>4, <3>5, <3>6 DEF Next, WriterStep, DrainStep, StopStep
  <2>2. o = d
    BY <1>1, <2>a, <2>1 DEF DrainRelease
  <2>3. ToSet(batch[d]) \subseteq Durable /\ Durable' = Durable
    BY <1>1, <2>1, <2>2 DEF DrainRelease, IInv, DurableOK, Durable, disk
  <2> QED
    BY <2>3
<1>2. IInv /\ [Next]_vars =>
        [\A d \in Drainers : batch[d] # <<>> /\ batch'[d] = <<>> /\ count' < count
              => ToSet(batch[d]) \subseteq Durable']_vars
  BY <1>1
<1> QED
  BY <1>2, Induction, PTL DEF Spec, SlotsFreedWhenDurable

-----------------------------------------------------------------------------
(* WalStorage implements WalLog *)


Appending == {"load", "park", "parked", "cas", "push"}
Writing   == {"lock", "write", "sync", "release"}

\* A writer only starts an append() within its bound; a drain past its pops has
\* something to write, and left nothing of its own task in the queue.
CallsOK ==
    /\ \A w \in Writers : pc[w] \in Appending => appended[w] < MaxAppends
    /\ \A w \in Writers : pc[w] \in Writing \cup {"wake"} => \A e \in ToSet(queue) : e[1] # w
    /\ \A d \in Drainers : pc[d] \in Writing => batch[d] # <<>>

LEMMA CallsInit == Init => CallsOK
BY TasksAssumption DEF Init, CallsOK, Appending, Writing, Tasks, Drainers

LEMMA CallsFrame ==
    ASSUME CallsOK, UNCHANGED <<queue, batch, appended>>,
           \A d \in Drainers :
              /\ pc'[d] \in Appending => pc[d] \in Appending
              /\ pc'[d] \in Writing => pc[d] \in Writing
              /\ pc'[d] \in Writing \cup {"wake"} => pc[d] \in Writing \cup {"wake"}
    PROVE  CallsOK'
BY DEF CallsOK, Drainers

LEMMA ReturnLabels == \A d : ReturnOf(d) \in {"idle", "done", "check"}
BY DEF ReturnOf

LEMMA CallsStep == TypeOK /\ CallsOK /\ [Next]_vars => CallsOK'
<1> SUFFICES ASSUME TypeOK, CallsOK, [Next]_vars PROVE CallsOK'
  OBVIOUS
<1>a. /\ pc \in [Tasks -> Labels] /\ appended \in [Writers -> Nat]
      /\ batch \in [Drainers -> Seq(Entry)] /\ queue \in Seq(Entry)
      /\ Drainers \subseteq Tasks /\ Writers \subseteq Drainers /\ MaxAppends \in Nat
      /\ Flusher \in Tasks /\ Stoppers \subseteq Tasks /\ Stoppers \cap Drainers = {}
  BY TasksAssumption, ConstantsAssumption DEF TypeOK, Tasks, Drainers
<1>1. ASSUME NEW w \in Writers, AppendCall(w) PROVE CallsOK'
  BY <1>a, <1>1 DEF AppendCall, Goto, history, CallsOK, Appending, Writing
<1>2. ASSUME NEW w \in Writers, AppendLoad(w) \/ AppendPark(w) PROVE CallsOK'
  BY <1>a, <1>2, CallsFrame DEF AppendLoad, AppendPark, Goto, history, Appending, Writing
<1>3. ASSUME NEW w \in Writers, AppendCas(w) PROVE CallsOK'
  BY <1>a, <1>3, CallsFrame DEF AppendCas, Goto, history, Appending, Writing
<1>4. ASSUME NEW w \in Writers, AppendPush(w) PROVE CallsOK'
  <2>1. <<w, appended'[w]>> \in Entry /\ queue' = Append(queue, <<w, appended'[w]>>)
    BY <1>a, <1>4 DEF AppendPush, Entry
  <2>2. \A e \in ToSet(queue') : e \in ToSet(queue) \/ e[1] = w
    BY <1>a, <2>1, AppendElements
  <2>3. /\ \A o \in Writers \ {w} : appended'[o] = appended[o]
        /\ \A t \in Tasks \ {w} : pc'[t] = pc[t]
        /\ pc'[w] = "notify" /\ batch' = batch
    BY <1>a, <1>4 DEF AppendPush, Goto
  <2>. QED
    BY <1>a, <2>2, <2>3 DEF CallsOK, Appending, Writing
<1>5. ASSUME NEW w \in Writers, AppendNotify(w) \/ FlushCall(w) \/ FlushPoll(w) \/ FlushRecheck(w)
      PROVE  CallsOK'
  BY <1>a, <1>5, CallsFrame
     DEF AppendNotify, FlushCall, FlushPoll, FlushRecheck, Goto, history, Appending, Writing
<1>6. ASSUME NEW d \in Drainers, DrainPop(d) PROVE CallsOK'
  <2>1. ToSet(queue') \subseteq ToSet(queue)
    BY <1>a, <1>6, TailElements DEF DrainPop
  <2>2. pc' = pc /\ pc[d] \notin Writing /\ \A o \in Drainers \ {d} : batch'[o] = batch[o]
    BY <1>a, <1>6 DEF DrainPop, Writing
  <2>. QED
    BY <1>a, <1>6, <2>1, <2>2 DEF CallsOK, DrainPop, history
<1>7. ASSUME NEW d \in Drainers, DrainPopNone(d) PROVE CallsOK'
  <2>1. ToSet(queue') = {} /\ UNCHANGED <<batch, appended>>
    BY <1>7 DEF DrainPopNone, ToSet
  <2>2. \/ pc'[d] = ReturnOf(d)
        \/ pc'[d] = "lock" /\ batch[d] # <<>>
    BY <1>a, <1>7 DEF DrainPopNone, Goto
  <2>3. \A t \in Tasks \ {d} : pc'[t] = pc[t]
    BY <1>a, <1>7 DEF DrainPopNone, Goto
  <2>. QED
    BY <1>a, <2>1, <2>2, <2>3, ReturnLabels DEF CallsOK, Appending, Writing
<1>8. ASSUME NEW d \in Drainers, DrainLock(d) \/ DrainWrite(d) \/ DrainSync(d) PROVE CallsOK'
  BY <1>a, <1>8, CallsFrame DEF DrainLock, DrainWrite, DrainSync, Goto, history, Appending, Writing
<1>9. ASSUME NEW d \in Drainers, DrainRelease(d) PROVE CallsOK'
  <2>1. /\ UNCHANGED <<queue, appended>> /\ pc[d] = "release" /\ pc'[d] = "wake"
        /\ \A t \in Tasks \ {d} : pc'[t] = pc[t]
        /\ \A o \in Drainers \ {d} : batch'[o] = batch[o]
    BY <1>a, <1>9 DEF DrainRelease, Goto, history
  <2>. QED
    BY <1>a, <2>1 DEF CallsOK, Appending, Writing
<1>10. ASSUME NEW d \in Drainers, DrainWake(d) PROVE CallsOK'
  BY <1>a, <1>10, CallsFrame, ReturnLabels DEF DrainWake, Appending, Writing
<1>11. ASSUME NEW d \in Drainers, DrainFail(d) PROVE CallsOK'
  <2>1. /\ UNCHANGED <<queue, appended>> /\ pc'[d] = ReturnOf(d)
        /\ \A t \in Tasks \ {d} : pc'[t] = pc[t]
        /\ \A o \in Drainers \ {d} : batch'[o] = batch[o]
    BY <1>a, <1>11 DEF DrainFail, Goto
  <2>. QED
    BY <1>a, <2>1, ReturnLabels DEF CallsOK, Appending, Writing
<1>12. CASE StartFlusher \/ StoreHandle \/ FlusherTick \/ FlusherNotified \/ FlusherCheck
  BY <1>a, <1>12, CallsFrame
     DEF StartFlusher, StoreHandle, FlusherTick, FlusherNotified, FlusherCheck, Goto,
         Appending, Writing, history
<1>13. ASSUME NEW s \in Stoppers, StopCall(s) \/ StopNotify(s) \/ StopTake(s) \/ StopJoin(s)
       PROVE  CallsOK'
  BY <1>a, <1>13, CallsFrame
     DEF StopCall, StopNotify, StopTake, StopJoin, Goto, Appending, Writing, history
<1>14. CASE UNCHANGED vars
  BY <1>14 DEF vars, history, CallsOK
<1>. QED
  BY <1>1, <1>2, <1>3, <1>4, <1>5, <1>6, <1>7, <1>8, <1>9, <1>10, <1>11, <1>12, <1>13, <1>14
     DEF Next, WriterStep, DrainStep, StopStep

-----------------------------------------------------------------------------
(* Every step is a step of the contract or changes nothing of it *)

LEMMA SyncingIs ==
    ASSUME NEW p, \A d, e \in Drainers : p[d] = "sync" /\ p[e] = "sync" => d = e
    PROVE  /\ \A d \in Drainers : p[d] = "sync" => Syncing(p) = d
           /\ (\A d \in Drainers : p[d] # "sync") => Syncing(p) = "nobody"
BY DEF Syncing

LEMMA OneSyncs ==
    LockOK => \A d, e \in Drainers : pc[d] = "sync" /\ pc[e] = "sync" => d = e
BY DEF LockOK

\* Steps that neither move an entry nor let a flush() return Ok.
LEMMA Still ==
    ASSUME LockOK, LockOK', UNCHANGED <<queue, batch, file, synced, appended, flushed>>,
           \A d \in Drainers : /\ pc'[d] = "sync" <=> pc[d] = "sync"
                               /\ pc'[d] = "release" <=> pc[d] = "release"
    PROVE  UNCHANGED Contract!logVars
<1>1. BatchNow' = BatchNow
  BY DEF BatchNow
<1>2. Syncing(pc') = Syncing(pc)
  <2>1. \A d, e \in Drainers : pc'[d] = "sync" /\ pc'[e] = "sync" => d = e
    BY DEF LockOK
  <2>2. /\ \A d \in Drainers : pc'[d] = "sync" => Syncing(pc') = d
        /\ (\A d \in Drainers : pc'[d] # "sync") => Syncing(pc') = "nobody"
    BY <2>1, SyncingIs
  <2>. QED
    BY <2>2, OneSyncs, SyncingIs
<1>. QED
  BY <1>1, <1>2 DEF Contract!logVars, Contract!log

\* flush() of a writer returns Ok and nothing else changes.
LEMMA Acks ==
    ASSUME TypeOK, LockOK, LockOK', NEW w \in Writers, Acknowledge(w),
           UNCHANGED <<queue, batch, file, synced, appended>>,
           \A d \in Drainers : /\ pc'[d] = "sync" <=> pc[d] = "sync"
                               /\ pc'[d] = "release" <=> pc[d] = "release",
           \A e \in ToSet(queue) : e[1] # w,
           batch[w] = <<>>
    PROVE  Contract!Ack(w)
<1>1. UNCHANGED <<BatchNow, Syncing(pc)>>
  <2>1. \A d, e \in Drainers : pc'[d] = "sync" /\ pc'[e] = "sync" => d = e
    BY DEF LockOK
  <2>2. /\ \A d \in Drainers : pc'[d] = "sync" => Syncing(pc') = d
        /\ (\A d \in Drainers : pc'[d] # "sync") => Syncing(pc') = "nobody"
    BY <2>1, SyncingIs
  <2>. QED
    BY <2>2, OneSyncs, SyncingIs DEF BatchNow
<1>2. ToSet(queue) \cap FirstOf(appended)[w] = {} /\ BatchNow[w] = <<>>
  BY DEF FirstOf, BatchNow, Drainers
<1>3. FirstOf(flushed)' = [FirstOf(flushed) EXCEPT ![w] = FirstOf(appended)[w]]
  BY DEF Acknowledge, FirstOf, TypeOK
<1>4. FirstOf(appended)' = FirstOf(appended)
  OBVIOUS
<1>5. UNCHANGED Contract!log
  BY <1>1 DEF Contract!log
<1>6. Contract!MayAck(w)
  BY <1>2 DEF Contract!MayAck, Contract!ToSet, ToSet
<1>. QED
  BY <1>3, <1>4, <1>5, <1>6 DEF Contract!Ack

LEMMA PushStep ==
    ASSUME IInv, IInv', CallsOK, NEW w \in Writers, AppendPush(w)
    PROVE  Contract!LogNext
<1>0. /\ TypeOK /\ LockOK /\ LockOK' /\ pc \in [Tasks -> Labels] /\ appended \in [Writers -> Nat]
      /\ Drainers \subseteq Tasks /\ w \in Drainers /\ w \in Tasks /\ MaxAppends \in Nat
  BY ConstantsAssumption DEF IInv, TypeOK, Tasks, Drainers
<1> DEFINE e == <<w, appended[w] + 1>>
<1>1. e \in Writers \X (1..MaxAppends)
  BY <1>0 DEF AppendPush, CallsOK, Appending
<1>2. \A o \in Writers : e \notin FirstOf(appended)[o]
  BY <1>0 DEF FirstOf
<1>3. UNCHANGED <<BatchNow, Syncing(pc), file, synced, flushed>>
  <2>1. UNCHANGED <<batch, file, synced, flushed>>
        /\ \A d \in Drainers : /\ pc'[d] = "sync" <=> pc[d] = "sync"
                               /\ pc'[d] = "release" <=> pc[d] = "release"
    BY <1>0 DEF AppendPush, Goto, disk
  <2>2. \A d, f \in Drainers : pc'[d] = "sync" /\ pc'[f] = "sync" => d = f
    BY <1>0 DEF LockOK
  <2>3. /\ \A d \in Drainers : pc'[d] = "sync" => Syncing(pc') = d
        /\ (\A d \in Drainers : pc'[d] # "sync") => Syncing(pc') = "nobody"
    BY <2>2, SyncingIs
  <2>. QED
    BY <1>0, <2>1, <2>3, OneSyncs, SyncingIs DEF BatchNow
<1>4. queue' = Append(queue, e)
  BY <1>0 DEF AppendPush
<1>5. FirstOf(appended)' = [FirstOf(appended) EXCEPT ![w] = @ \cup {e}]
  <2>1. \A o \in Writers : appended'[o] = IF o = w THEN appended[o] + 1 ELSE appended[o]
    BY <1>0 DEF AppendPush
  <2>2. { <<w, n>> : n \in 1..(appended[w] + 1) } = { <<w, n>> : n \in 1..appended[w] } \cup {e}
    <3>1. 1..(appended[w] + 1) = 1..appended[w] \cup {appended[w] + 1}
      BY <1>0
    <3>. QED
      BY <3>1
  <2>. HIDE DEF e
  <2>. QED
    BY <1>0, <2>1, <2>2 DEF FirstOf
<1>. HIDE DEF e
<1>6. Contract!Push(w, e)
  BY <1>3, <1>4, <1>5 DEF Contract!Push
<1>. QED
  BY <1>1, <1>2, <1>6 DEF Contract!LogNext

LEMMA PopStep ==
    ASSUME IInv, IInv', NEW d \in Drainers, DrainPop(d)
    PROVE  Contract!LogNext
<1>0. /\ LockOK /\ pc \in [Tasks -> Labels] /\ d \in Tasks /\ batch \in [Drainers -> Seq(Entry)]
  BY DEF IInv, TypeOK, Tasks, Drainers
<1>1. UNCHANGED <<pc, file, synced, appended, flushed>> /\ Syncing(pc') = Syncing(pc)
  BY DEF DrainPop, disk, history
<1>2. Syncing(pc) # d
  <2>1. pc[d] # "sync"
    BY DEF DrainPop
  <2>2. CASE \E o \in Drainers : pc[o] = "sync"
    BY <1>0, <2>1, <2>2, OneSyncs, SyncingIs
  <2>3. CASE \A o \in Drainers : pc[o] # "sync"
    <3>1. Syncing(pc) = "nobody"
      BY <2>3, SyncingIs
    <3>. QED
      BY <3>1, TasksAssumption DEF Drainers
  <2>. QED
    BY <2>2, <2>3
<1>3. BatchNow' = [BatchNow EXCEPT ![d] = Append(@, Head(queue))]
  BY <1>0, <1>1 DEF DrainPop, BatchNow
<1>4. Contract!Pop(d)
  BY <1>1, <1>2, <1>3 DEF Contract!Pop, DrainPop
<1>. QED
  BY <1>4 DEF Contract!LogNext, Contract!Drainers, Drainers

LEMMA WriteStep ==
    ASSUME IInv, IInv', CallsOK, NEW d \in Drainers, DrainWrite(d)
    PROVE  Contract!LogNext
<1>0. /\ TypeOK /\ LockOK /\ LockOK' /\ pc \in [Tasks -> Labels] /\ d \in Tasks
      /\ lockq \in Seq(Drainers) /\ batch \in [Drainers -> Seq(Entry)]
  BY DEF IInv, TypeOK, Tasks, Drainers
<1>1. /\ pc'[d] = "sync" /\ \A o \in Drainers \ {d} : pc'[o] = pc[o]
      /\ pc[d] = "write" /\ lockq[1] = d
  <2>1. lockq # <<>>
    BY <1>0 DEF LockOK, InLock, DrainWrite
  <2>. QED
    BY <1>0, <2>1 DEF DrainWrite, Goto, Tasks, Drainers
<1>2. Syncing(pc) = "nobody"
  <2>1. \A o \in Drainers : pc[o] # "sync"
    BY <1>0, <1>1 DEF LockOK
  <2>. QED
    BY <2>1, SyncingIs
<1>3. Syncing(pc') = d
  <2>1. \A o, e \in Drainers : pc'[o] = "sync" /\ pc'[e] = "sync" => o = e
    BY <1>0 DEF LockOK
  <2>. QED
    BY <1>1, <2>1, SyncingIs
<1>4. UNCHANGED <<queue, batch, synced, appended, flushed>> /\ file' = file \o batch[d]
  BY DEF DrainWrite, history
<1>5. BatchNow' = BatchNow /\ BatchNow[d] = batch[d] /\ batch[d] # <<>>
  BY <1>0, <1>1, <1>4 DEF BatchNow, CallsOK, Writing
<1>6. Contract!Write(d)
  BY <1>2, <1>3, <1>4, <1>5 DEF Contract!Write
<1>. QED
  BY <1>6 DEF Contract!LogNext, Contract!Drainers, Drainers

\* A step that takes the drain d out of "sync" leaves nobody writing.
LEMMA NobodyAfter ==
    ASSUME LockOK, NEW d \in Drainers, lockq[1] = d, pc'[d] # "sync",
           \A o \in Drainers \ {d} : pc'[o] = "sync" => pc[o] = "sync"
    PROVE  Syncing(pc') = "nobody"
<1>1. \A o \in Drainers : pc'[o] # "sync"
  BY DEF LockOK
<1>. QED
  BY <1>1, SyncingIs

LEMMA SyncStep ==
    ASSUME IInv, IInv', NEW d \in Drainers, DrainSync(d)
    PROVE  Contract!LogNext
<1>0. /\ LockOK /\ pc \in [Tasks -> Labels] /\ d \in Tasks /\ batch \in [Drainers -> Seq(Entry)]
  BY DEF IInv, TypeOK, Tasks, Drainers
<1>1. /\ pc[d] = "sync" /\ pc'[d] = "release" /\ \A o \in Drainers \ {d} : pc'[o] = pc[o]
      /\ lockq[1] = d
  BY <1>0 DEF DrainSync, Goto, Tasks, Drainers, LockOK
<1>2. Syncing(pc) = d /\ Syncing(pc') = "nobody"
  BY <1>0, <1>1, OneSyncs, SyncingIs, NobodyAfter
<1>3. BatchNow' = [BatchNow EXCEPT ![d] = <<>>]
  BY <1>0, <1>1 DEF BatchNow, DrainSync
<1>4. UNCHANGED <<queue, file, appended, flushed>> /\ synced' = Len(file)
  BY DEF DrainSync, history
<1>5. Contract!Sync(d)
  BY <1>2, <1>3, <1>4 DEF Contract!Sync
<1>. QED
  BY <1>5 DEF Contract!LogNext, Contract!Drainers, Drainers

LEMMA FailStep ==
    ASSUME IInv, IInv', CallsOK, NEW d \in Drainers, DrainFail(d)
    PROVE  Contract!LogNext
<1>0. /\ LockOK /\ pc \in [Tasks -> Labels] /\ d \in Tasks /\ lockq \in Seq(Drainers)
      /\ batch \in [Drainers -> Seq(Entry)]
  BY DEF IInv, TypeOK, Tasks, Drainers
<1>1. /\ pc[d] \in {"write", "sync"} /\ pc'[d] \in {"idle", "done", "check"}
      /\ \A o \in Drainers \ {d} : pc'[o] = pc[o]
      /\ lockq[1] = d
  <2>1. lockq # <<>>
    BY <1>0 DEF LockOK, InLock, DrainFail
  <2>. QED
    BY <1>0, <2>1, ReturnLabels DEF DrainFail, Goto, Tasks, Drainers
<1>2. Syncing(pc') = "nobody"
  BY <1>0, <1>1, NobodyAfter
<1>3. /\ pc[d] = "sync" => Syncing(pc) = d
      /\ pc[d] = "write" => Syncing(pc) = "nobody"
  <2>1. pc[d] = "write" => \A o \in Drainers : pc[o] # "sync"
    BY <1>0, <1>1 DEF LockOK
  <2>. QED
    BY <1>0, <2>1, OneSyncs, SyncingIs
<1>4. BatchNow[d] = batch[d] /\ batch[d] # <<>>
  BY <1>0, <1>1 DEF BatchNow, CallsOK, Writing
<1>5. BatchNow' = [BatchNow EXCEPT ![d] = <<>>]
  <2>1. \A o \in Drainers : batch'[o] = IF o = d THEN <<>> ELSE batch[o]
    BY <1>0 DEF DrainFail
  <2>. QED
    BY <1>0, <1>1, <2>1 DEF BatchNow
<1>6. UNCHANGED <<queue, synced, appended, flushed>>
  BY DEF DrainFail
<1>7. \/ pc[d] = "write" /\ \E part \in Contract!PartOf(BatchNow[d]) : file' = file \o part
      \/ pc[d] = "sync" /\ UNCHANGED file
  <2>1. Contract!PartOf(batch[d]) = WrittenPart(batch[d])
    BY DEF Contract!PartOf, WrittenPart
  <2>. QED
    BY <1>4, <2>1 DEF DrainFail
<1>8. Contract!Fail(d)
  BY <1>2, <1>3, <1>4, <1>5, <1>6, <1>7 DEF Contract!Fail
<1>. QED
  BY <1>8 DEF Contract!LogNext, Contract!Drainers, Drainers

\* The end of a drain without an error; flush() of a writer returns with it.
LEMMA AckStep ==
    ASSUME IInv, IInv', NEW d \in Drainers, Acknowledge(d),
           UNCHANGED <<queue, batch, file, synced, appended>>,
           \A o \in Drainers : /\ pc'[o] = "sync" <=> pc[o] = "sync"
                               /\ pc'[o] = "release" <=> pc[o] = "release",
           d \in Writers => (\A e \in ToSet(queue) : e[1] # d) /\ batch[d] = <<>>
    PROVE  Contract!LogNext \/ UNCHANGED Contract!logVars
<1>1. CASE d \in Writers
  <2>1. Contract!Ack(d)
    BY <1>1, Acks DEF IInv
  <2>. QED
    BY <1>1, <2>1 DEF Contract!LogNext
<1>2. CASE d \notin Writers
  BY <1>2, Still DEF IInv, Acknowledge
<1>. QED
  BY <1>1, <1>2

LEMMA PopNoneStep ==
    ASSUME IInv, IInv', NEW d \in Drainers, DrainPopNone(d)
    PROVE  Contract!LogNext \/ UNCHANGED Contract!logVars
<1>0. pc \in [Tasks -> Labels] /\ d \in Tasks /\ ToSet(<<>>) = {}
  BY DEF IInv, TypeOK, Tasks, Drainers, ToSet
<1>1. /\ UNCHANGED <<queue, batch, file, synced, appended>> /\ queue = <<>>
      /\ \A o \in Drainers : /\ pc'[o] = "sync" <=> pc[o] = "sync"
                             /\ pc'[o] = "release" <=> pc[o] = "release"
  BY <1>0, ReturnLabels DEF DrainPopNone, Goto, disk, Drainers, Tasks
<1>2. CASE batch[d] = <<>> /\ Acknowledge(d)
  BY <1>0, <1>1, <1>2, AckStep
<1>3. CASE UNCHANGED flushed
  BY <1>1, <1>3, Still DEF IInv
<1>. QED
  BY <1>2, <1>3 DEF DrainPopNone

LEMMA WakeStep ==
    ASSUME IInv, IInv', CallsOK, NEW d \in Drainers, DrainWake(d)
    PROVE  Contract!LogNext \/ UNCHANGED Contract!logVars
<1>1. /\ UNCHANGED <<queue, batch, file, synced, appended>> /\ Acknowledge(d) /\ pc[d] = "wake"
      /\ \A o \in Drainers : /\ pc'[o] = "sync" <=> pc[o] = "sync"
                             /\ pc'[o] = "release" <=> pc[o] = "release"
  BY ReturnLabels DEF DrainWake, disk, Tasks, Drainers
<1>2. d \in Writers => (\A e \in ToSet(queue) : e[1] # d) /\ batch[d] = <<>>
  BY <1>1 DEF CallsOK, IInv, PlaceOK
<1>. QED
  BY <1>1, <1>2, AckStep

LEMMA RecheckStep ==
    ASSUME IInv, IInv', NEW w \in Writers, FlushRecheck(w)
    PROVE  Contract!LogNext \/ UNCHANGED Contract!logVars
<1>0. pc \in [Tasks -> Labels] /\ w \in Tasks /\ w \in Drainers
  BY DEF IInv, TypeOK, Tasks, Drainers
<1>1. /\ UNCHANGED <<queue, batch, file, synced, appended>> /\ pc[w] = "recheck"
      /\ \A o \in Drainers : /\ pc'[o] = "sync" <=> pc[o] = "sync"
                             /\ pc'[o] = "release" <=> pc[o] = "release"
  BY <1>0 DEF FlushRecheck, Goto, disk, Drainers, Tasks
<1>2. CASE count = 0 /\ Acknowledge(w)
  <2>1. Held = {}
    BY <1>2, FS_EmptySet DEF IInv, HeldOK, CountIsHeld
  <2>2. ToSet(queue) = {} /\ batch[w] = <<>>
    BY <1>0, <1>1, <2>1 DEF Held, IInv, PlaceOK
  <2>. QED
    BY <1>0, <1>1, <1>2, <2>2, AckStep
<1>3. CASE UNCHANGED flushed
  BY <1>1, <1>3, Still DEF IInv
<1>. QED
  BY <1>2, <1>3 DEF FlushRecheck

LEMMA RefineStep ==
    ASSUME IInv, IInv', CallsOK, [Next]_vars
    PROVE  Contract!LogNext \/ UNCHANGED Contract!logVars
<1>a. /\ LockOK /\ LockOK' /\ pc \in [Tasks -> Labels] /\ Drainers \subseteq Tasks
      /\ Writers \subseteq Drainers /\ Flusher \in Tasks
      /\ Stoppers \subseteq Tasks /\ Stoppers \cap Drainers = {}
  BY TasksAssumption DEF IInv, TypeOK, Tasks, Drainers
<1>1. ASSUME NEW w \in Writers,
             AppendCall(w) \/ AppendLoad(w) \/ AppendPark(w) \/ AppendNotify(w)
      PROVE  UNCHANGED Contract!logVars
  BY <1>a, <1>1, Still
     DEF AppendCall, AppendLoad, AppendPark, AppendNotify, Goto, disk, history
<1>2. ASSUME NEW w \in Writers, AppendCas(w) \/ FlushCall(w) \/ FlushPoll(w)
      PROVE  UNCHANGED Contract!logVars
  BY <1>a, <1>2, Still DEF AppendCas, FlushCall, FlushPoll, Goto, disk, history
<1>3. ASSUME NEW d \in Drainers, DrainLock(d) PROVE UNCHANGED Contract!logVars
  BY <1>a, <1>3, Still DEF DrainLock, Goto, disk, history
<1>4. ASSUME NEW d \in Drainers, DrainRelease(d) PROVE UNCHANGED Contract!logVars
  <2>1. /\ pc[d] = "release" /\ pc'[d] = "wake" /\ \A o \in Drainers \ {d} : pc'[o] = pc[o]
        /\ \A o \in Drainers \ {d} : batch'[o] = batch[o]
        /\ batch'[d] = <<>> /\ UNCHANGED <<queue, file, synced, appended, flushed>>
    BY <1>a, <1>4 DEF DrainRelease, Goto, disk, history, IInv, TypeOK
  <2>2. BatchNow' = BatchNow
    BY <2>1 DEF BatchNow
  <2>3. Syncing(pc') = Syncing(pc)
    <3>1. \A o, e \in Drainers : pc'[o] = "sync" /\ pc'[e] = "sync" => o = e
      BY <1>a DEF LockOK
    <3>2. \A o \in Drainers : pc'[o] = "sync" <=> pc[o] = "sync"
      BY <2>1
    <3>3. /\ \A o \in Drainers : pc'[o] = "sync" => Syncing(pc') = o
          /\ (\A o \in Drainers : pc'[o] # "sync") => Syncing(pc') = "nobody"
      BY <3>1, SyncingIs
    <3>. QED
      BY <1>a, <3>2, <3>3, OneSyncs, SyncingIs
  <2>. QED
    BY <2>1, <2>2, <2>3 DEF Contract!logVars, Contract!log
<1>5. CASE StartFlusher \/ StoreHandle \/ FlusherTick \/ FlusherNotified \/ FlusherCheck
  BY <1>a, <1>5, Still
     DEF StartFlusher, StoreHandle, FlusherTick, FlusherNotified, FlusherCheck, Goto, disk, history
<1>6. ASSUME NEW s \in Stoppers, StopCall(s) \/ StopNotify(s) \/ StopTake(s) \/ StopJoin(s)
      PROVE  UNCHANGED Contract!logVars
  BY <1>a, <1>6, Still DEF StopCall, StopNotify, StopTake, StopJoin, Goto, disk, history
<1>7. CASE UNCHANGED vars
  BY <1>a, <1>7, Still DEF vars, disk, history
<1>8. ASSUME NEW d \in Drainers,
             DrainPop(d) \/ DrainWrite(d) \/ DrainSync(d) \/ DrainFail(d)
      PROVE  Contract!LogNext
  BY <1>8, PopStep, WriteStep, SyncStep, FailStep
<1>. QED
  BY <1>1, <1>2, <1>3, <1>4, <1>5, <1>6, <1>7, <1>8, PushStep, PopNoneStep, WakeStep, RecheckStep
     DEF Next, WriterStep, DrainStep, StopStep

\* WalStorage implements WalLog: however appends, drains, polls and I/O errors
\* interleave, entries pass through queue and batch to the file in order, whole
\* batches at a time or failed ones in part, and flush() => Ok leaves its caller
\* nothing to write.
THEOREM Refinement == Spec => ImplementsWalLog
<1>1. Init => CallsOK
  BY CallsInit
<1>2. IInv /\ CallsOK /\ [Next]_vars => CallsOK'
  BY CallsStep DEF IInv
<1>3. Init => Contract!LogInit
  <2> SUFFICES ASSUME Init PROVE Contract!LogInit
    OBVIOUS
  <2>1. \A d \in Drainers : pc[d] \notin {"sync", "release"}
    BY DEF Init, Tasks, Drainers
  <2>2. Syncing(pc) = "nobody" /\ BatchNow = [d \in Drainers |-> <<>>]
    BY <2>1, SyncingIs DEF BatchNow, Init
  <2>3. FirstOf(appended) = [w \in Writers |-> {}] /\ FirstOf(flushed) = [w \in Writers |-> {}]
    BY DEF Init, FirstOf
  <2>. QED
    BY <2>2, <2>3 DEF Init, Contract!LogInit, Contract!Drainers, Drainers
<1>4. IInv /\ IInv' /\ CallsOK /\ [Next]_vars => [Contract!LogNext]_(Contract!logVars)
  BY RefineStep
<1>. QED
  BY <1>1, <1>2, <1>3, <1>4, Induction, PTL DEF Spec, ImplementsWalLog, Contract!LogSpec

-----------------------------------------------------------------------------
(* Where the entries go: in which order they leave the queue, how often    *)
(* they reach the file, what a flush() that returned Ok and a flusher that *)
(* has terminated leave behind                                             *)

(* Sequences in program order *)

\* The entries of s were appended before those of t, writer by writer.
Ahead(s, t) == \A e \in ToSet(s), f \in ToSet(t) : e[1] = f[1] => e[2] < f[2]

LEMMA OrderOfAppend ==
    ASSUME NEW s \in Seq(Entry), NEW e \in Entry, InProgramOrder(s),
           \A f \in ToSet(s) : f[1] = e[1] => f[2] < e[2]
    PROVE  InProgramOrder(Append(s, e))
<1>1. /\ Len(Append(s, e)) = Len(s) + 1 /\ Append(s, e)[Len(s) + 1] = e
      /\ \A i \in 1..Len(s) : Append(s, e)[i] = s[i] /\ s[i] \in ToSet(s)
      /\ Len(s) \in Nat /\ DOMAIN s = 1..Len(s)
      /\ DOMAIN Append(s, e) = 1..(Len(s) + 1)
  BY AppendProperties DEF ToSet
<1>. QED
  BY <1>1 DEF InProgramOrder

LEMMA OrderOfTail ==
    ASSUME NEW s \in Seq(Entry), s # <<>>, InProgramOrder(s)
    PROVE  /\ InProgramOrder(Tail(s))
           /\ \A f \in ToSet(Tail(s)) : f[1] = Head(s)[1] => Head(s)[2] < f[2]
<1>1. /\ Head(s) = s[1] /\ Tail(s) \in Seq(Entry)
      /\ Len(Tail(s)) = Len(s) - 1 /\ Len(s) \in Nat \ {0}
      /\ \A i \in 1..Len(Tail(s)) : Tail(s)[i] = s[i + 1]
  BY HeadTailProperties
<1>2. DOMAIN s = 1..Len(s) /\ DOMAIN Tail(s) = 1..(Len(s) - 1)
  BY <1>1
<1>3. InProgramOrder(Tail(s))
  BY <1>1, <1>2 DEF InProgramOrder
<1>4. ASSUME NEW i \in DOMAIN Tail(s), Tail(s)[i][1] = Head(s)[1]
      PROVE  Head(s)[2] < Tail(s)[i][2]
  BY <1>1, <1>2, <1>4 DEF InProgramOrder
<1>. QED
  BY <1>3, <1>4 DEF ToSet

LEMMA OrderOfConcat ==
    ASSUME NEW s \in Seq(Entry), NEW t \in Seq(Entry),
           InProgramOrder(s), InProgramOrder(t), Ahead(s, t)
    PROVE  InProgramOrder(s \o t)
<1>1. /\ DOMAIN s = 1..Len(s) /\ DOMAIN t = 1..Len(t) /\ Len(s) \in Nat /\ Len(t) \in Nat
      /\ DOMAIN (s \o t) = 1..(Len(s) + Len(t))
      /\ \A i \in 1..Len(s) : (s \o t)[i] = s[i]
      /\ \A i \in 1..Len(t) : (s \o t)[Len(s) + i] = t[i]
  BY ConcatProperties
<1>2. SUFFICES ASSUME NEW i \in 1..(Len(s) + Len(t)), NEW j \in 1..(Len(s) + Len(t)),
                      i < j, (s \o t)[i][1] = (s \o t)[j][1]
               PROVE  (s \o t)[i][2] < (s \o t)[j][2]
  BY <1>1 DEF InProgramOrder
<1>3. CASE j <= Len(s)
  BY <1>1, <1>2, <1>3 DEF InProgramOrder
<1>4. CASE i <= Len(s) /\ j > Len(s)
  <2>1. i \in DOMAIN s /\ j - Len(s) \in DOMAIN t /\ Len(s) + (j - Len(s)) = j
    BY <1>1, <1>4
  <2>2. (s \o t)[i] = s[i] /\ (s \o t)[j] = t[j - Len(s)]
    BY <1>1, <2>1
  <2>. QED
    BY <1>2, <2>1, <2>2 DEF Ahead, ToSet
<1>5. CASE i > Len(s)
  <2>1. j > Len(s)
    BY <1>1, <1>2, <1>5
  <2>2. /\ i - Len(s) \in 1..Len(t) /\ Len(s) + (i - Len(s)) = i
        /\ j - Len(s) \in 1..Len(t) /\ Len(s) + (j - Len(s)) = j
    BY <1>1, <1>5, <2>1
  <2>3. (s \o t)[i] = t[i - Len(s)] /\ (s \o t)[j] = t[j - Len(s)]
    BY <1>1, <2>2
  <2>4. i - Len(s) < j - Len(s)
    BY <1>1, <1>2
  <2>5. t[i - Len(s)][1] = t[j - Len(s)][1]
    BY <1>2, <2>3
  <2>6. t[i - Len(s)][2] < t[j - Len(s)][2]
    BY <1>1, <2>2, <2>4, <2>5 DEF InProgramOrder
  <2>. QED
    BY <2>3, <2>6
<1>. QED
  BY <1>1, <1>3, <1>4, <1>5

-----------------------------------------------------------------------------
(* The steps that move entries *)

\* Any other step leaves every entry where it is, and a drain that has written
\* its batch stays between write and release.
LEMMA Moves ==
    ASSUME TypeOK, [Next]_vars
    PROVE  \/ \E w \in Writers : AppendPush(w)
           \/ \E d \in Drainers : DrainPop(d) \/ DrainWrite(d) \/ DrainRelease(d) \/ DrainFail(d)
           \/ /\ UNCHANGED <<queue, batch, appended, file, lost>>
              /\ \A d \in Drainers : pc[d] \in {"sync", "release"} => pc'[d] \in {"sync", "release"}
<1>a. /\ pc \in [Tasks -> Labels] /\ Writers \subseteq Tasks /\ Drainers \subseteq Tasks
      /\ Flusher \in Tasks /\ Stoppers \subseteq Tasks /\ Stoppers \cap Drainers = {}
  BY TasksAssumption DEF TypeOK, Tasks, Drainers
<1> DEFINE Rest == /\ UNCHANGED <<queue, batch, appended, file, lost>>
                   /\ \A d \in Drainers : pc[d] \in {"sync", "release"} => pc'[d] \in {"sync", "release"}
<1>1. ASSUME NEW w \in Writers,
             \/ AppendCall(w) \/ AppendLoad(w) \/ AppendPark(w) \/ AppendCas(w)
             \/ AppendNotify(w) \/ FlushCall(w) \/ FlushPoll(w) \/ FlushRecheck(w)
      PROVE  Rest
  BY <1>a, <1>1 DEF AppendCall, AppendLoad, AppendPark, AppendCas, AppendNotify, FlushCall,
                    FlushPoll, FlushRecheck, Goto, disk, history
<1>2. ASSUME NEW d \in Drainers, DrainPopNone(d) \/ DrainLock(d) \/ DrainSync(d) \/ DrainWake(d)
      PROVE  Rest
  BY <1>a, <1>2 DEF DrainPopNone, DrainLock, DrainSync, DrainWake, Goto, disk, history
<1>3. CASE StartFlusher \/ StoreHandle \/ FlusherTick \/ FlusherNotified \/ FlusherCheck
  BY <1>a, <1>3 DEF StartFlusher, StoreHandle, FlusherTick, FlusherNotified, FlusherCheck,
                    Goto, disk, history
<1>4. ASSUME NEW s \in Stoppers, StopCall(s) \/ StopNotify(s) \/ StopTake(s) \/ StopJoin(s)
      PROVE  Rest
  BY <1>a, <1>4 DEF StopCall, StopNotify, StopTake, StopJoin, Goto, disk, history
<1>5. CASE UNCHANGED vars
  BY <1>5 DEF vars, disk, history
<1>. QED
  BY <1>1, <1>2, <1>3, <1>4, <1>5 DEF Next, WriterStep, DrainStep, StopStep

-----------------------------------------------------------------------------
(* Order *)

\* Queue and batches are in program order, each batch ahead of the queue.
OrderOK ==
    /\ InProgramOrder(queue)
    /\ \A d \in Drainers : InProgramOrder(batch[d]) /\ Ahead(batch[d], queue)

LEMMA OrderInit == Init => OrderOK
BY DEF Init, OrderOK, InProgramOrder, Ahead, ToSet

LEMMA OrderStep == TypeOK /\ PlaceOK /\ OrderOK /\ [Next]_vars => OrderOK'
<1> SUFFICES ASSUME TypeOK, PlaceOK, OrderOK, [Next]_vars PROVE OrderOK'
  OBVIOUS
<1>a. /\ queue \in Seq(Entry) /\ batch \in [Drainers -> Seq(Entry)]
      /\ appended \in [Writers -> Nat]
  BY DEF TypeOK
<1>b. \A e \in Entry : e = <<e[1], e[2]>> /\ e[1] \in Writers /\ e[2] \in Nat
  BY DEF Entry
<1>1. ASSUME NEW w \in Writers, AppendPush(w) PROVE OrderOK'
  <2> DEFINE e == <<w, appended[w] + 1>>
  <2>1. queue' = Append(queue, e) /\ e \in Entry /\ UNCHANGED batch
    BY <1>a, <1>1 DEF AppendPush, Entry
  <2>2. \A f \in ToSet(queue) \cup Batched : f[1] = w => f[2] < appended[w] + 1
    BY <1>a, <1>b DEF PlaceOK, Accepted
  <2>3. ToSet(queue') = ToSet(queue) \cup {e}
    <3>. HIDE DEF e
    <3>. QED
      BY <1>a, <2>1, AppendElements
  <2>4. InProgramOrder(queue')
    BY <1>a, <2>1, <2>2, OrderOfAppend DEF OrderOK
  <2>5. \A d \in Drainers : Ahead(batch[d], queue')
    BY <2>2, <2>3 DEF OrderOK, Ahead, Batched
  <2>. QED
    BY <2>1, <2>4, <2>5 DEF OrderOK
<1>2. ASSUME NEW d \in Drainers, DrainPop(d) PROVE OrderOK'
  <2> DEFINE e == Head(queue)
  <2>1. /\ queue # <<>> /\ queue' = Tail(queue)
        /\ batch'[d] = Append(batch[d], e) /\ \A o \in Drainers \ {d} : batch'[o] = batch[o]
    BY <1>a, <1>2 DEF DrainPop
  <2>2. /\ ToSet(queue) = {e} \cup ToSet(queue') /\ e \in Entry
    BY <1>a, <2>1, TailElements
  <2>3. InProgramOrder(queue') /\ \A f \in ToSet(queue') : f[1] = e[1] => e[2] < f[2]
    BY <1>a, <2>1, OrderOfTail DEF OrderOK
  <2>4. InProgramOrder(batch'[d])
    BY <1>a, <2>1, <2>2, OrderOfAppend DEF OrderOK, Ahead
  <2>5. ToSet(batch'[d]) = ToSet(batch[d]) \cup {e}
    BY <1>a, <2>1, <2>2, AppendElements
  <2>6. \A o \in Drainers : Ahead(batch'[o], queue')
    BY <2>1, <2>2, <2>3, <2>5 DEF OrderOK, Ahead
  <2>. QED
    BY <2>1, <2>3, <2>4, <2>6 DEF OrderOK
<1>3. ASSUME NEW d \in Drainers, batch' = [batch EXCEPT ![d] = <<>>], UNCHANGED queue
      PROVE  OrderOK'
  <2>1. /\ InProgramOrder(batch'[d]) /\ ToSet(batch'[d]) = {}
        /\ \A o \in Drainers \ {d} : batch'[o] = batch[o]
    BY <1>a, <1>3 DEF InProgramOrder, ToSet
  <2>. QED
    BY <1>3, <2>1 DEF OrderOK, Ahead
<1>4. CASE UNCHANGED <<queue, batch>>
  BY <1>4 DEF OrderOK
<1>. QED
  BY <1>1, <1>2, <1>3, <1>4, Moves DEF DrainWrite, DrainRelease, DrainFail

-----------------------------------------------------------------------------
(* What flush() => Ok leaves behind *)

\* The entries of w its last Ok covers are no longer in its way: neither queued
\* nor in a batch of its own.
FlushedOK ==
    \A w \in Writers :
        /\ flushed[w] <= appended[w]
        /\ \A n \in 1..flushed[w] : <<w, n>> \notin ToSet(queue) \cup ToSet(batch[w])

LEMMA FlushedInit == Init => FlushedOK
BY DEF Init, FlushedOK

\* flush() returns Ok only to a caller with nothing left in queue and batch.
LEMMA OkMeansEmpty ==
    ASSUME TypeOK, PlaceOK, HeldOK, CallsOK, [Next]_vars
    PROVE  \/ UNCHANGED flushed
           \/ /\ UNCHANGED <<queue, batch, appended>>
              /\ \E w \in Writers :
                    /\ flushed' = [flushed EXCEPT ![w] = appended[w]]
                    /\ \A n \in 1..appended[w] : <<w, n>> \notin ToSet(queue) \cup ToSet(batch[w])
<1>a. Writers \subseteq Drainers
  BY DEF Drainers
<1> DEFINE Ok(w) == /\ UNCHANGED <<queue, batch, appended>>
                    /\ flushed' = [flushed EXCEPT ![w] = appended[w]]
                    /\ \A n \in 1..appended[w] : <<w, n>> \notin ToSet(queue) \cup ToSet(batch[w])
<1>1. ASSUME NEW w \in Writers, FlushRecheck(w) PROVE UNCHANGED flushed \/ Ok(w)
  <2>1. CASE count = 0
    <3>1. ToSet(queue) \cup Batched = {}
      BY <2>1, FS_EmptySet DEF HeldOK, CountIsHeld, Held
    <3>. QED
      BY <1>1, <1>a, <3>1 DEF FlushRecheck, Acknowledge, Batched
  <2>2. CASE count # 0
    BY <1>1, <2>2 DEF FlushRecheck
  <2>. QED
    BY <2>1, <2>2
<1>2. ASSUME NEW d \in Drainers, DrainPopNone(d)
      PROVE  UNCHANGED flushed \/ (d \in Writers /\ Ok(d))
  <2>1. CASE d \in Writers /\ batch[d] = <<>>
    BY <1>2, <2>1 DEF DrainPopNone, Acknowledge, ToSet
  <2>2. CASE d \notin Writers \/ batch[d] # <<>>
    BY <1>2, <2>2 DEF DrainPopNone, Acknowledge
  <2>. QED
    BY <2>1, <2>2
<1>3. ASSUME NEW d \in Drainers, DrainWake(d)
      PROVE  UNCHANGED flushed \/ (d \in Writers /\ Ok(d))
  <2>1. pc[d] = "wake" /\ batch[d] = <<>>
    BY <1>3 DEF DrainWake, PlaceOK
  <2>2. d \in Writers => \A n \in 1..appended[d] : <<d, n>> \notin ToSet(queue) \cup ToSet(batch[d])
    BY <2>1 DEF CallsOK, ToSet
  <2>. QED
    BY <1>3, <2>2 DEF DrainWake, Acknowledge
<1>4. ASSUME NEW w \in Writers,
             \/ AppendCall(w) \/ FlushCall(w) \/ AppendLoad(w) \/ AppendPark(w) \/ AppendCas(w)
             \/ AppendPush(w) \/ AppendNotify(w) \/ FlushPoll(w)
      PROVE  UNCHANGED flushed
  BY <1>4 DEF AppendCall, FlushCall, AppendLoad, AppendPark, AppendCas, AppendPush,
              AppendNotify, FlushPoll, history
<1>5. ASSUME NEW d \in Drainers,
             \/ DrainPop(d) \/ DrainLock(d) \/ DrainWrite(d) \/ DrainSync(d)
             \/ DrainRelease(d) \/ DrainFail(d)
      PROVE  UNCHANGED flushed
  BY <1>5 DEF DrainPop, DrainLock, DrainWrite, DrainSync, DrainRelease, DrainFail, history
<1>6. CASE \/ StartFlusher \/ StoreHandle \/ FlusherTick \/ FlusherNotified \/ FlusherCheck
           \/ \E s \in Stoppers : StopCall(s) \/ StopNotify(s) \/ StopTake(s) \/ StopJoin(s)
  BY <1>6 DEF StartFlusher, StoreHandle, FlusherTick, FlusherNotified, FlusherCheck,
              StopCall, StopNotify, StopTake, StopJoin, history
<1>7. CASE UNCHANGED vars
  BY <1>7 DEF vars, history
<1>. QED
  BY <1>1, <1>2, <1>3, <1>4, <1>5, <1>6, <1>7 DEF Next, WriterStep, DrainStep, StopStep

LEMMA FlushedStep ==
    TypeOK /\ PlaceOK /\ HeldOK /\ CallsOK /\ FlushedOK /\ [Next]_vars => FlushedOK'
<1> SUFFICES ASSUME TypeOK, PlaceOK, HeldOK, CallsOK, FlushedOK, [Next]_vars PROVE FlushedOK'
  OBVIOUS
<1>a. /\ queue \in Seq(Entry) /\ batch \in [Drainers -> Seq(Entry)] /\ Writers \subseteq Drainers
      /\ appended \in [Writers -> Nat] /\ flushed \in [Writers -> Nat]
  BY DEF TypeOK, Drainers
<1>1. ASSUME NEW w \in Writers, AppendPush(w) PROVE FlushedOK'
  <2> DEFINE e == <<w, appended[w] + 1>>
  <2>1. /\ queue' = Append(queue, e) /\ e \in Entry /\ UNCHANGED <<batch, flushed>>
        /\ appended'[w] = appended[w] + 1 /\ \A v \in Writers \ {w} : appended'[v] = appended[v]
    BY <1>a, <1>1 DEF AppendPush, Entry
  <2>2. ToSet(queue') = ToSet(queue) \cup {e}
    BY <1>a, <2>1, AppendElements
  <2>3. ASSUME NEW v \in Writers PROVE flushed[v] <= appended'[v]
    <3>1. flushed[v] \in Nat /\ appended[v] \in Nat /\ flushed[v] <= appended[v]
      BY <1>a DEF FlushedOK
    <3>2. appended'[v] = appended[v] \/ appended'[v] = appended[v] + 1
      BY <2>1
    <3>. QED
      BY <3>1, <3>2
  <2>4. ASSUME NEW v \in Writers, NEW n \in 1..flushed[v] PROVE <<v, n>> # e
    BY <1>a DEF FlushedOK
  <2>. QED
    BY <2>1, <2>2, <2>3, <2>4 DEF FlushedOK
<1>2. ASSUME NEW d \in Drainers, DrainPop(d) PROVE FlushedOK'
  <2>1. /\ queue # <<>> /\ queue' = Tail(queue) /\ UNCHANGED <<appended, flushed>>
        /\ batch'[d] = Append(batch[d], Head(queue))
        /\ \A o \in Drainers \ {d} : batch'[o] = batch[o]
    BY <1>a, <1>2 DEF DrainPop, history
  <2>2. ToSet(queue) = {Head(queue)} \cup ToSet(queue') /\ Head(queue) \in Entry
    BY <1>a, <2>1, TailElements
  <2>3. ToSet(batch'[d]) = ToSet(batch[d]) \cup {Head(queue)}
    BY <1>a, <2>1, <2>2, AppendElements
  <2>4. \A w \in Writers : ToSet(queue') \cup ToSet(batch'[w]) \subseteq ToSet(queue) \cup ToSet(batch[w])
    BY <1>a, <2>1, <2>2, <2>3
  <2>. QED
    BY <2>1, <2>4 DEF FlushedOK
<1>3. ASSUME NEW d \in Drainers, DrainRelease(d) \/ DrainFail(d) PROVE FlushedOK'
  <2>1. /\ UNCHANGED <<queue, appended, flushed>> /\ ToSet(batch'[d]) = {}
        /\ \A o \in Drainers \ {d} : batch'[o] = batch[o]
    BY <1>a, <1>3 DEF DrainRelease, DrainFail, history, ToSet
  <2>. QED
    BY <1>a, <2>1 DEF FlushedOK
<1>4. ASSUME NEW d \in Drainers, DrainWrite(d) PROVE FlushedOK'
  BY <1>4 DEF DrainWrite, history, FlushedOK
<1>5. CASE UNCHANGED <<queue, batch, appended>>
  <2>1. CASE UNCHANGED flushed
    BY <1>5, <2>1 DEF FlushedOK
  <2>2. ASSUME NEW w \in Writers, flushed' = [flushed EXCEPT ![w] = appended[w]],
               \A n \in 1..appended[w] : <<w, n>> \notin ToSet(queue) \cup ToSet(batch[w])
        PROVE  FlushedOK'
    <3>1. flushed'[w] = appended[w] /\ \A v \in Writers \ {w} : flushed'[v] = flushed[v]
      BY <1>a, <2>2
    <3>2. \A v \in Writers : flushed'[v] <= appended'[v]
      BY <1>a, <1>5, <3>1 DEF FlushedOK
    <3>. QED
      BY <1>5, <2>2, <3>1, <3>2 DEF FlushedOK
  <2>. QED
    BY <2>1, <2>2, OkMeansEmpty
<1>. QED
  BY <1>1, <1>2, <1>3, <1>4, <1>5, Moves

-----------------------------------------------------------------------------
(* What a terminated flusher leaves behind *)

Final == {"lock", "write", "sync", "release", "wake", "done"}

\* Once the flusher has read the flag it only drains, and behind its last pop
\* the queue holds nothing of what stop_flusher() found appended.
StopOK ==
    /\ \A w \in Writers : atStop[w] <= appended[w]
    /\ exiting => shutdown /\ pc[Flusher] \in Final \cup {"pop"}
    /\ pc[Flusher] = "done" => exiting
    /\ exiting /\ pc[Flusher] \in Final => \A e \in ToSet(queue) : e[2] > atStop[e[1]]

LEMMA StopInit == Init => StopOK
BY TasksAssumption DEF Init, StopOK, Tasks, Drainers, Final

LEMMA StopStays ==
    ASSUME TypeOK, StopOK, UNCHANGED <<shutdown, exiting, atStop, appended>>,
           pc'[Flusher] # pc[Flusher] => pc[Flusher] \notin Final \cup {"pop"} /\ pc'[Flusher] # "done",
           ToSet(queue') \subseteq ToSet(queue)
    PROVE  StopOK'
BY DEF StopOK, Final

LEMMA StopKeeps == TypeOK /\ StopOK /\ [Next]_vars => StopOK'
<1> SUFFICES ASSUME TypeOK, StopOK, [Next]_vars PROVE StopOK'
  OBVIOUS
<1>a. /\ pc \in [Tasks -> Labels] /\ queue \in Seq(Entry) /\ appended \in [Writers -> Nat]
      /\ atStop \in [Writers -> Nat] /\ Flusher \in Drainers /\ Flusher \notin Writers
      /\ Flusher \notin Stoppers /\ Drainers \subseteq Tasks /\ Stoppers \subseteq Tasks
      /\ Writers \subseteq Tasks
  BY TasksAssumption DEF TypeOK, Tasks, Drainers
<1>1. ASSUME NEW w \in Writers,
             \/ AppendCall(w) \/ FlushCall(w) \/ AppendLoad(w) \/ AppendPark(w) \/ AppendCas(w)
             \/ AppendNotify(w) \/ FlushPoll(w) \/ FlushRecheck(w)
      PROVE  StopOK'
  BY <1>a, <1>1, StopStays DEF AppendCall, FlushCall, AppendLoad, AppendPark, AppendCas,
     AppendNotify, FlushPoll, FlushRecheck, Goto, control, history
<1>2. ASSUME NEW w \in Writers, AppendPush(w) PROVE StopOK'
  <2>1. /\ queue' = Append(queue, <<w, appended[w] + 1>>) /\ <<w, appended[w] + 1>> \in Entry
        /\ UNCHANGED <<exiting, shutdown, atStop>> /\ pc'[Flusher] = pc[Flusher]
        /\ appended'[w] = appended[w] + 1 /\ \A v \in Writers \ {w} : appended'[v] = appended[v]
    BY <1>a, <1>2 DEF AppendPush, Entry, Goto, control
  <2>2. ToSet(queue') = ToSet(queue) \cup {<<w, appended[w] + 1>>}
    <3> DEFINE e == <<w, appended[w] + 1>>
    <3>1. queue' = Append(queue, e) /\ e \in Entry
      BY <2>1
    <3>. HIDE DEF e
    <3>2. ToSet(queue') = ToSet(queue) \cup {e}
      BY <1>a, <3>1, AppendElements
    <3>. QED
      BY <3>2 DEF e
  <2>3. atStop[w] < appended[w] + 1 /\ \A v \in Writers : atStop[v] <= appended'[v]
    <3>1. \A v \in Writers : atStop[v] <= appended[v] /\ atStop[v] \in Nat /\ appended[v] \in Nat
      BY <1>a DEF StopOK
    <3>2. \A v \in Writers : v = w \/ appended'[v] = appended[v]
      BY <2>1
    <3>3. appended'[w] = appended[w] + 1
      BY <2>1
    <3>. QED
      BY <3>1, <3>2, <3>3
  <2>4. <<w, appended[w] + 1>>[2] > atStop[<<w, appended[w] + 1>>[1]]
    BY <1>a, <2>3
  <2>. QED
    BY <2>1, <2>2, <2>3, <2>4 DEF StopOK
<1>3. ASSUME NEW d \in Drainers, DrainPop(d) PROVE StopOK'
  <2>1. ToSet(queue') \subseteq ToSet(queue)
    BY <1>a, <1>3, TailElements DEF DrainPop
  <2>. QED
    BY <1>a, <1>3, <2>1, StopStays DEF DrainPop, control, history
<1>4. ASSUME NEW d \in Drainers, DrainPopNone(d) PROVE StopOK'
  <2>1. ToSet(queue) = {} /\ UNCHANGED <<queue, exiting, shutdown, atStop, appended>>
    BY <1>4 DEF DrainPopNone, control, ToSet
  <2>2. d = Flusher => pc[Flusher] = "pop" /\ pc'[Flusher] \in Final \cup {"check"}
                       /\ (pc'[Flusher] = "done" => exiting) /\ (exiting => pc'[Flusher] \in Final)
    BY <1>a, <1>4 DEF DrainPopNone, Goto, ReturnOf, Final
  <2>3. d # Flusher => pc'[Flusher] = pc[Flusher]
    BY <1>a, <1>4 DEF DrainPopNone, Goto
  <2>. QED
    BY <2>1, <2>2, <2>3 DEF StopOK, Final
<1>5. ASSUME NEW d \in Drainers,
             \/ DrainLock(d) \/ DrainWrite(d) \/ DrainSync(d) \/ DrainRelease(d)
             \/ DrainWake(d) \/ DrainFail(d)
      PROVE  StopOK'
  <2>1. UNCHANGED <<queue, exiting, shutdown, atStop, appended>>
    BY <1>5 DEF DrainLock, DrainWrite, DrainSync, DrainRelease, DrainWake, DrainFail, control, history
  <2>2. d = Flusher => pc[Flusher] \in Final /\ pc'[Flusher] \in Final \cup {"check"}
                       /\ (pc'[Flusher] = "done" => exiting) /\ (exiting => pc'[Flusher] \in Final)
    BY <1>a, <1>5 DEF DrainLock, DrainWrite, DrainSync, DrainRelease, DrainWake, DrainFail,
                      Goto, ReturnOf, Final
  <2>3. d # Flusher => pc'[Flusher] = pc[Flusher] \/ (pc[Flusher] = "parked" /\ pc'[Flusher] = "load")
    BY <1>a, <1>5 DEF DrainLock, DrainWrite, DrainSync, DrainRelease, DrainWake, DrainFail, Goto
  <2>. QED
    BY <2>1, <2>2, <2>3 DEF StopOK, Final
<1>6. CASE StartFlusher \/ StoreHandle \/ FlusherTick \/ FlusherNotified
  <2>1. UNCHANGED <<queue, shutdown, exiting, atStop, appended>>
    BY <1>6 DEF StartFlusher, StoreHandle, FlusherTick, FlusherNotified, control, history
  <2>2. pc' = pc \/ (pc[Flusher] \in {"absent", "select"} /\ pc'[Flusher] \in {"select", "pop"})
    BY <1>a, <1>6 DEF StartFlusher, StoreHandle, FlusherTick, FlusherNotified, Goto
  <2>. QED
    BY <1>a, <2>1, <2>2, StopStays DEF Final
<1>7. CASE FlusherCheck
  BY <1>a, <1>7 DEF FlusherCheck, Goto, StopOK, Final, history
<1>8. ASSUME NEW s \in Stoppers, StopCall(s) PROVE StopOK'
  <2>1. /\ UNCHANGED <<queue, exiting, appended>> /\ pc'[Flusher] = pc[Flusher] /\ shutdown'
        /\ IF shutdown THEN atStop' = atStop ELSE atStop' = appended
    BY <1>a, <1>8 DEF StopCall, Goto
  <2>. QED
    BY <1>a, <2>1 DEF StopOK
<1>9. ASSUME NEW s \in Stoppers, StopNotify(s) \/ StopTake(s) \/ StopJoin(s) PROVE StopOK'
  BY <1>a, <1>9, StopStays DEF StopNotify, StopTake, StopJoin, Goto, control, history
<1>10. CASE UNCHANGED vars
  BY <1>a, <1>10, StopStays DEF vars, control, history
<1>. QED
  BY <1>1, <1>2, <1>3, <1>4, <1>5, <1>6, <1>7, <1>8, <1>9, <1>10
     DEF Next, WriterStep, DrainStep, StopStep

-----------------------------------------------------------------------------
(* No entry is written twice *)

\* Torn records apart, no record is in the sequence twice.
Once(s) == \A i, j \in DOMAIN s : s[i] = s[j] /\ s[i] # Torn => i = j

LEMMA OnceConcat ==
    ASSUME NEW s \in Seq(Entry \cup {Torn}), NEW t \in Seq(Entry \cup {Torn}), Once(s), Once(t),
           ToSet(s) \cap ToSet(t) \subseteq {Torn}
    PROVE  Once(s \o t)
<1>1. /\ DOMAIN s = 1..Len(s) /\ DOMAIN t = 1..Len(t) /\ Len(s) \in Nat /\ Len(t) \in Nat
      /\ DOMAIN (s \o t) = 1..(Len(s) + Len(t))
      /\ \A i \in 1..Len(s) : (s \o t)[i] = s[i]
      /\ \A i \in 1..Len(t) : (s \o t)[Len(s) + i] = t[i]
  BY ConcatProperties
<1>2. ASSUME NEW i \in 1..(Len(s) + Len(t)), i > Len(s)
      PROVE  /\ i - Len(s) \in 1..Len(t) /\ Len(s) + (i - Len(s)) = i
             /\ (s \o t)[i] = t[i - Len(s)] /\ (s \o t)[i] \in ToSet(t)
  <2>1. i - Len(s) \in 1..Len(t) /\ Len(s) + (i - Len(s)) = i
    BY <1>1, <1>2
  <2>. QED
    BY <1>1, <2>1 DEF ToSet
<1>3. ASSUME NEW i \in 1..(Len(s) + Len(t)), i <= Len(s)
      PROVE  i \in DOMAIN s /\ (s \o t)[i] = s[i] /\ (s \o t)[i] \in ToSet(s)
  BY <1>1, <1>3 DEF ToSet
<1>4. SUFFICES ASSUME NEW i \in 1..(Len(s) + Len(t)), NEW j \in 1..(Len(s) + Len(t)),
                      (s \o t)[i] = (s \o t)[j], (s \o t)[i] # Torn
               PROVE  i = j
  BY <1>1 DEF Once
<1>5. CASE i <= Len(s) /\ j <= Len(s)
  BY <1>3, <1>4, <1>5 DEF Once
<1>6. CASE i > Len(s) /\ j > Len(s)
  <2>1. i - Len(s) = j - Len(s)
    <3>1. i - Len(s) \in DOMAIN t /\ j - Len(s) \in DOMAIN t
      BY <1>1, <1>2, <1>6
    <3>2. t[i - Len(s)] = (s \o t)[i] /\ t[j - Len(s)] = (s \o t)[j]
      BY <1>2, <1>6
    <3>3. t[i - Len(s)] = t[j - Len(s)] /\ t[i - Len(s)] # Torn
      BY <1>4, <3>2
    <3>. QED
      BY <3>1, <3>3 DEF Once
  <2>. QED
    BY <1>1, <2>1
<1>7. CASE (i <= Len(s) /\ j > Len(s)) \/ (i > Len(s) /\ j <= Len(s))
  <2>1. (s \o t)[i] \in ToSet(s) \cap ToSet(t)
    BY <1>2, <1>3, <1>4, <1>7
  <2>. QED
    BY <1>4, <2>1
<1>. QED
  BY <1>1, <1>5, <1>6, <1>7

\* A failed write leaves records of its batch, once each, and a torn one.
LEMMA OncePart ==
    ASSUME NEW b \in Seq(Entry), IsInjective(b), NEW part \in WrittenPart(b)
    PROVE  /\ part \in Seq(Entry \cup {Torn}) /\ Once(part)
           /\ ToSet(part) \subseteq ToSet(b) \cup {Torn}
<1>a. Entry \subseteq Entry \cup {Torn} /\ b \in Seq(Entry \cup {Torn}) /\ Torn \notin Entry
      /\ Len(b) \in Nat /\ <<Torn>> \in Seq(Entry \cup {Torn}) /\ DOMAIN b = 1..Len(b)
  BY TasksAssumption DEF Entry
<1>1. Once(b)
  BY DEF Once, IsInjective
<1>2. ASSUME NEW k \in 0..(Len(b) - 1)
      PROVE  /\ SubSeq(b, 1, k) \in Seq(Entry \cup {Torn}) /\ Once(SubSeq(b, 1, k))
             /\ ToSet(SubSeq(b, 1, k)) \subseteq ToSet(b)
  <2>1. /\ SubSeq(b, 1, k) \in Seq(Entry \cup {Torn}) /\ Len(SubSeq(b, 1, k)) = k
        /\ \A i \in 1..k : SubSeq(b, 1, k)[i] = b[i]
    BY <1>a, SubSeqProperties
  <2>2. DOMAIN SubSeq(b, 1, k) = 1..k /\ 1..k \subseteq 1..Len(b)
    BY <1>a, <2>1
  <2>. QED
    BY <1>a, <1>1, <2>1, <2>2 DEF Once, ToSet
<1>3. Once(<<Torn>>) /\ ToSet(<<Torn>>) = {Torn}
  BY DEF Once, ToSet
<1>4. ASSUME NEW k \in 0..(Len(b) - 1)
      PROVE  /\ SubSeq(b, 1, k) \o <<Torn>> \in Seq(Entry \cup {Torn})
             /\ Once(SubSeq(b, 1, k) \o <<Torn>>)
             /\ ToSet(SubSeq(b, 1, k) \o <<Torn>>) \subseteq ToSet(b) \cup {Torn}
  <2> DEFINE p == SubSeq(b, 1, k)
  <2>1. /\ p \in Seq(Entry \cup {Torn}) /\ Once(p) /\ ToSet(p) \subseteq ToSet(b)
    BY <1>2
  <2>2. Once(p \o <<Torn>>)
    BY <1>a, <1>3, <2>1, OnceConcat
  <2>3. ToSet(p \o <<Torn>>) = ToSet(p) \cup ToSet(<<Torn>>)
    <3>. DEFINE t == <<Torn>>
    <3>1. p \in Seq(Entry \cup {Torn}) /\ t \in Seq(Entry \cup {Torn})
      BY <1>a, <2>1
    <3>. HIDE DEF p, t
    <3>2. ToSet(p \o t) = ToSet(p) \cup ToSet(t)
      BY <3>1, ConcatElements
    <3>. QED
      BY <3>2 DEF t
  <2>. QED
    BY <1>a, <1>3, <2>1, <2>2, <2>3, ConcatProperties
<1>. QED
  BY <1>a, <1>1, <1>2, <1>4, PartType DEF WrittenPart

Written == {"sync", "release"}

\* A record in the file has left the queue, and a drain that has not written yet
\* holds none of the file's records.
FileOK ==
    /\ Once(file)
    /\ ToSet(file) \ {Torn} \subseteq Accepted
    /\ ToSet(file) \cap ToSet(queue) = {}
    /\ \A d \in Drainers : pc[d] \notin Written => ToSet(batch[d]) \cap ToSet(file) = {}

LEMMA FileInit == Init => FileOK
BY DEF Init, FileOK, Once, ToSet

LEMMA FileStep == TypeOK /\ PlaceOK /\ FileOK /\ [Next]_vars => FileOK'
<1> SUFFICES ASSUME TypeOK, PlaceOK, FileOK, [Next]_vars PROVE FileOK'
  OBVIOUS
<1>a. /\ queue \in Seq(Entry) /\ batch \in [Drainers -> Seq(Entry)] /\ appended \in [Writers -> Nat]
      /\ file \in Seq(Entry \cup {Torn}) /\ pc \in [Tasks -> Labels] /\ Drainers \subseteq Tasks
      /\ Writers \subseteq Drainers
  BY DEF TypeOK, Tasks, Drainers
<1>b. /\ \A d \in Drainers : Torn \notin ToSet(batch[d]) /\ IsInjective(batch[d])
      /\ Torn \notin ToSet(queue)
  BY <1>a, TasksAssumption DEF PlaceOK, Entry, ToSet
<1>1. ASSUME NEW w \in Writers, AppendPush(w) PROVE FileOK'
  <2> DEFINE e == <<w, appended[w] + 1>>
  <2>1. /\ queue' = Append(queue, e) /\ e \in Entry /\ UNCHANGED <<batch, file>>
        /\ appended'[w] = appended[w] + 1 /\ \A v \in Writers \ {w} : appended'[v] = appended[v]
        /\ \A d \in Drainers : pc'[d] \in Written <=> pc[d] \in Written
    BY <1>a, <1>1 DEF AppendPush, Entry, Goto, Written, disk
  <2>2. ToSet(queue') = ToSet(queue) \cup {e}
    <3>. HIDE DEF e
    <3>. QED
      BY <1>a, <2>1, AppendElements
  <2>3. e \notin Accepted /\ e # Torn /\ Accepted \subseteq Accepted'
    <3>1. \A v \in Writers : appended[v] \in Nat
                             /\ (appended'[v] = appended[v] \/ appended'[v] = appended[v] + 1)
      BY <1>a, <2>1
    <3>2. ASSUME NEW x \in Accepted PROVE x \in Accepted'
      <4>1. x \in Entry /\ x[1] \in Writers /\ x[2] \in Nat /\ x[2] <= appended[x[1]]
        BY DEF Accepted, Entry
      <4>2. x[2] <= appended'[x[1]]
        BY <3>1, <4>1
      <4>. QED
        BY <4>1, <4>2 DEF Accepted
    <3>3. e \notin Accepted
      BY <1>a DEF Accepted
    <3>. QED
      BY <2>1, <3>2, <3>3, TasksAssumption DEF Entry
  <2>4. e \notin ToSet(file)
    BY <2>3 DEF FileOK
  <2>. QED
    BY <2>1, <2>2, <2>3, <2>4 DEF FileOK
<1>2. ASSUME NEW d \in Drainers, DrainPop(d) PROVE FileOK'
  <2>1. /\ queue # <<>> /\ queue' = Tail(queue) /\ UNCHANGED <<pc, appended, file>>
        /\ batch'[d] = Append(batch[d], Head(queue)) /\ pc[d] \notin Written
        /\ \A o \in Drainers \ {d} : batch'[o] = batch[o]
    BY <1>a, <1>2 DEF DrainPop, history, disk, Written
  <2>2. ToSet(queue) = {Head(queue)} \cup ToSet(queue') /\ Head(queue) \in Entry
    BY <1>a, <2>1, TailElements
  <2>3. ToSet(batch'[d]) = ToSet(batch[d]) \cup {Head(queue)}
    BY <1>a, <2>1, <2>2, AppendElements
  <2>. QED
    BY <2>1, <2>2, <2>3 DEF FileOK, Accepted
<1>3. ASSUME NEW d \in Drainers, NEW part \in Seq(Entry \cup {Torn}), pc[d] \notin Written,
             Once(part), ToSet(part) \subseteq ToSet(batch[d]) \cup {Torn}, file' = file \o part,
             UNCHANGED <<queue, appended>>,
             \A o \in Drainers \ {d} : batch'[o] = batch[o] /\ (pc'[o] \notin Written => pc[o] \notin Written),
             pc'[d] \in Written \/ ToSet(batch'[d]) = {}
      PROVE  FileOK'
  <2>1. Once(file')
    BY <1>a, <1>3, OnceConcat DEF FileOK
  <2>2. ToSet(file') = ToSet(file) \cup ToSet(part)
    BY <1>a, <1>3, ConcatElements
  <2>3. ToSet(batch[d]) \subseteq Accepted /\ ToSet(batch[d]) \cap ToSet(queue) = {}
        /\ \A o \in Drainers \ {d} : ToSet(batch[d]) \cap ToSet(batch[o]) = {}
    BY DEF PlaceOK, Batched
  <2>4. Accepted' = Accepted
    BY <1>3 DEF Accepted
  <2>5. ToSet(file') \cap ToSet(queue') = {}
    BY <1>b, <1>3, <2>2, <2>3 DEF FileOK
  <2>6. ASSUME NEW o \in Drainers, pc'[o] \notin Written
        PROVE  ToSet(batch'[o]) \cap ToSet(file') = {}
    BY <1>b, <1>3, <2>2, <2>3, <2>6 DEF FileOK
  <2>. QED
    BY <1>3, <2>1, <2>2, <2>3, <2>4, <2>5, <2>6 DEF FileOK
<1>4. ASSUME NEW d \in Drainers, DrainWrite(d) PROVE FileOK'
  <2>1. /\ file' = file \o batch[d] /\ UNCHANGED <<queue, batch, appended>>
        /\ pc[d] \notin Written /\ pc'[d] \in Written
        /\ \A o \in Drainers \ {d} : pc'[o] = pc[o]
    BY <1>a, <1>4 DEF DrainWrite, Goto, history, Written
  <2>2. Once(batch[d]) /\ batch[d] \in Seq(Entry \cup {Torn})
    BY <1>a, <1>b DEF Once, IsInjective
  <2>. QED
    BY <1>3, <2>1, <2>2
<1>5. ASSUME NEW d \in Drainers, DrainFail(d) PROVE FileOK'
  <2>1. /\ UNCHANGED <<queue, appended>> /\ ToSet(batch'[d]) = {}
        /\ \A o \in Drainers \ {d} : pc'[o] = pc[o] /\ batch'[o] = batch[o]
    BY <1>a, <1>5 DEF DrainFail, Goto, ToSet
  <2>2. CASE pc[d] = "write"
    <3>1. PICK part \in WrittenPart(batch[d]) : file' = file \o part
      BY <1>5, <2>2 DEF DrainFail
    <3>2. /\ part \in Seq(Entry \cup {Torn}) /\ Once(part)
          /\ ToSet(part) \subseteq ToSet(batch[d]) \cup {Torn}
      BY <1>a, <1>b, OncePart
    <3>. QED
      BY <1>3, <2>1, <2>2, <3>1, <3>2 DEF Written
  <2>3. CASE pc[d] # "write"
    <3>1. file' = file
      BY <1>5, <2>3 DEF DrainFail
    <3>. QED
      BY <2>1, <3>1 DEF FileOK, Accepted
  <2>. QED
    BY <2>2, <2>3
<1>6. ASSUME NEW d \in Drainers, DrainRelease(d) PROVE FileOK'
  <2>1. /\ UNCHANGED <<queue, appended, file>> /\ ToSet(batch'[d]) = {}
        /\ \A o \in Drainers \ {d} : pc'[o] = pc[o] /\ batch'[o] = batch[o]
    BY <1>a, <1>6 DEF DrainRelease, Goto, ToSet, history, disk
  <2>. QED
    BY <2>1 DEF FileOK, Accepted
<1>7. CASE /\ UNCHANGED <<queue, batch, appended, file>>
           /\ \A d \in Drainers : pc[d] \in Written => pc'[d] \in Written
  BY <1>7 DEF FileOK, Accepted
<1>. QED
  BY <1>1, <1>2, <1>4, <1>5, <1>6, <1>7, Moves DEF Written

-----------------------------------------------------------------------------
(* Counting the copies of an entry *)

LEMMA CountAtMostOne ==
    ASSUME NEW S, \A x, y \in S : x = y
    PROVE  Cardinality(S) = IF S = {} THEN 0 ELSE 1
<1>1. CASE S = {}
  BY <1>1, FS_EmptySet
<1>2. CASE S # {}
  <2>1. PICK x : S = {x}
    BY <1>2
  <2>. QED
    BY <2>1, FS_Singleton
<1>. QED
  BY <1>1, <1>2

\* A batch never outgrows the queue: its entries hold slots.
LEMMA BatchFits ==
    ASSUME TypeOK, PlaceOK, HeldOK, CapacityOK, NEW d \in Drainers
    PROVE  Len(batch[d]) <= MaxQueueSize
<1>1. batch[d] \in Seq(Entry) /\ count \in Int /\ MaxQueueSize \in Nat
  BY ConstantsAssumption DEF TypeOK
<1>2. IsFiniteSet(ToSet(batch[d])) /\ Cardinality(ToSet(batch[d])) = Len(batch[d])
  BY <1>1, CountElements DEF PlaceOK
<1>3. ToSet(batch[d]) \subseteq Held /\ IsFiniteSet(Held) /\ count = Cardinality(Held)
  BY DEF Held, Batched, HeldOK, CountIsHeld
<1>4. Cardinality(ToSet(batch[d])) <= Cardinality(Held)
  BY <1>3, FS_Subset
<1>. QED
  BY <1>1, <1>2, <1>3, <1>4 DEF CapacityOK, Capacity

\* In the queue, in the batch of a drain that has not written, or in the file.
LEMMA CopiesAre ==
    ASSUME IInv, FileOK, NEW e \in Accepted
    PROVE  CopiesOf(e) = IF \/ e \in ToSet(queue) \cup ToSet(file)
                            \/ \E d \in Drainers : e \in ToSet(Waiting[d])
                         THEN 1 ELSE 0
<1>a. /\ queue \in Seq(Entry) /\ batch \in [Drainers -> Seq(Entry)] /\ MaxQueueSize \in Nat
      /\ e \in Entry /\ e # Torn /\ DOMAIN queue = 1..Len(queue) /\ DOMAIN Waiting = Drainers
  BY ConstantsAssumption, TasksAssumption DEF IInv, TypeOK, Accepted, Entry, Waiting
<1>b. \A d \in Drainers : Waiting[d] = IF pc[d] \in Written THEN <<>> ELSE batch[d]
  BY DEF Waiting, Written
<1> DEFINE Q == { i \in DOMAIN queue : queue[i] = e }
           F == { i \in DOMAIN file : file[i] = e }
           W == { di \in Drainers \X (1..MaxQueueSize) :
                      di[2] \in DOMAIN Waiting[di[1]] /\ Waiting[di[1]][di[2]] = e }
           InWait == \E d \in Drainers : e \in ToSet(Waiting[d])
<1>1. Cardinality(Q) = (IF e \in ToSet(queue) THEN 1 ELSE 0)
  <2>1. \A x, y \in Q : x = y
    BY DEF IInv, PlaceOK, IsInjective
  <2>2. Q = {} <=> e \notin ToSet(queue)
    BY DEF ToSet
  <2>. QED
    BY <2>1, <2>2, CountAtMostOne
<1>2. Cardinality(F) = (IF e \in ToSet(file) THEN 1 ELSE 0)
  <2>1. \A x, y \in F : x = y
    BY <1>a DEF FileOK, Once
  <2>2. F = {} <=> e \notin ToSet(file)
    BY DEF ToSet
  <2>. QED
    BY <2>1, <2>2, CountAtMostOne
<1>3. Cardinality(W) = (IF InWait THEN 1 ELSE 0)
  <2>1. ASSUME NEW x \in W PROVE /\ x = <<x[1], x[2]>> /\ x[1] \in Drainers
                                 /\ Waiting[x[1]] = batch[x[1]] /\ x[2] \in DOMAIN batch[x[1]]
                                 /\ batch[x[1]][x[2]] = e /\ e \in ToSet(batch[x[1]])
    BY <1>b DEF ToSet
  <2>2. ASSUME NEW x \in W, NEW y \in W PROVE x = y
    <3>1. x[1] = y[1]
      BY <2>1 DEF IInv, PlaceOK
    <3>2. x[2] = y[2]
      BY <2>1, <3>1 DEF IInv, PlaceOK, IsInjective
    <3>. QED
      BY <2>1, <3>1, <3>2
  <2>3. ASSUME InWait PROVE W # {}
    <3>1. PICK d \in Drainers : e \in ToSet(Waiting[d])
      BY <2>3
    <3>2. PICK i \in DOMAIN Waiting[d] : Waiting[d][i] = e
      BY <3>1 DEF ToSet
    <3>3. Waiting[d] = batch[d]
      BY <1>b, <3>2
    <3>4. i \in 1..Len(batch[d]) /\ Len(batch[d]) <= MaxQueueSize /\ Len(batch[d]) \in Nat
      BY <1>a, <3>2, <3>3, BatchFits DEF IInv
    <3>5. i \in 1..MaxQueueSize
      BY <1>a, <3>4
    <3>6. <<d, i>> \in W
      BY <3>2, <3>5
    <3>. QED
      BY <3>6
  <2>4. ASSUME W # {} PROVE InWait
    BY <2>1, <2>4
  <2>. QED
    BY <2>2, <2>3, <2>4, CountAtMostOne
<1>4. ~(e \in ToSet(queue) /\ e \in ToSet(file))
  BY DEF FileOK
<1>5. ASSUME InWait PROVE e \notin ToSet(queue) /\ e \notin ToSet(file)
  <2>1. PICK d \in Drainers : e \in ToSet(Waiting[d])
    BY <1>5
  <2>2. pc[d] \notin Written /\ Waiting[d] = batch[d]
    BY <1>b, <2>1 DEF ToSet
  <2>. QED
    BY <2>1, <2>2 DEF IInv, PlaceOK, FileOK
<1>6. CopiesOf(e) = Cardinality(Q) + Cardinality(F) + Cardinality(W)
  BY DEF CopiesOf
<1> HIDE DEF Q, F, W, InWait
<1>7. CopiesOf(e) = IF e \in ToSet(queue) \/ e \in ToSet(file) \/ InWait THEN 1 ELSE 0
  BY <1>1, <1>2, <1>3, <1>4, <1>5, <1>6
<1>. QED
  BY <1>7 DEF InWait

-----------------------------------------------------------------------------
(* The theorems *)

PathInv == IInv /\ CallsOK /\ OrderOK /\ FlushedOK /\ StopOK /\ FileOK

LEMMA PathInduction == Spec => []PathInv
<1>1. Init => CallsOK /\ OrderOK /\ FlushedOK /\ StopOK /\ FileOK
  BY CallsInit, OrderInit, FlushedInit, StopInit, FileInit
<1>2. /\ IInv /\ CallsOK /\ OrderOK /\ FlushedOK /\ StopOK /\ FileOK /\ [Next]_vars
      => CallsOK' /\ OrderOK' /\ FlushedOK' /\ StopOK' /\ FileOK'
  BY CallsStep, OrderStep, FlushedStep, StopKeeps, FileStep DEF IInv
<1>. QED
  BY <1>1, <1>2, Induction, PTL DEF Spec, PathInv

\* Program order of append(): whichever drains pop them and however their pops
\* interleave, the entries of one writer leave the queue in the order it
\* appended them.
THEOREM ProgramOrder == Spec => []PoppedInOrder
<1>1. PathInv => PoppedInOrder
  <2> SUFFICES ASSUME PathInv, NEW d \in Drainers PROVE InProgramOrder(batch[d] \o queue)
    BY DEF PoppedInOrder
  <2>1. batch[d] \in Seq(Entry) /\ queue \in Seq(Entry)
    BY DEF PathInv, IInv, TypeOK
  <2>2. InProgramOrder(batch[d]) /\ InProgramOrder(queue) /\ Ahead(batch[d], queue)
    BY DEF PathInv, OrderOK
  <2>. QED
    BY <2>1, <2>2, OrderOfConcat
<1>. QED
  BY <1>1, PathInduction, PTL

\* drain_and_flush(): an accepted entry is in one place at a time and reaches
\* the file at most once, and unless an I/O error took it, it is never nowhere.
THEOREM OnlyOnce == Spec => []ExactlyOnce
<1>1. PathInv => ExactlyOnce
  <2> SUFFICES ASSUME PathInv, NEW e \in UpTo(appended)
               PROVE  IF e \in lost THEN CopiesOf(e) <= 1 ELSE CopiesOf(e) = 1
    BY DEF ExactlyOnce
  <2>a. /\ file \in Seq(Entry \cup {Torn}) /\ synced \in 0..Len(file)
        /\ batch \in [Drainers -> Seq(Entry)]
    BY DEF PathInv, IInv, TypeOK
  <2>1. e \in Accepted
    BY DEF PathInv, IInv, TypeOK, UpTo, Accepted, Entry
  <2>2. CopiesOf(e) = IF \/ e \in ToSet(queue) \cup ToSet(file)
                         \/ \E d \in Drainers : e \in ToSet(Waiting[d])
                      THEN 1 ELSE 0
    BY <2>1, CopiesAre DEF PathInv
  <2>3. ASSUME e \notin lost
        PROVE  \/ e \in ToSet(queue) \cup ToSet(file)
               \/ \E d \in Drainers : e \in ToSet(Waiting[d])
    <3>1. Durable \subseteq ToSet(file)
      <4>1. ToSet(SubSeq(file, 1, synced)) = { file[i] : i \in 1..synced }
        BY <2>a, PrefixElements
      <4>2. 1..synced \subseteq DOMAIN file
        BY <2>a
      <4>. QED
        BY <4>1, <4>2 DEF Durable, ToSet
    <3>2. e \in ToSet(queue) \cup Batched \cup Durable
      BY <2>1, <2>3 DEF PathInv, IInv, DurableOK
    <3>3. ASSUME NEW d \in Drainers, e \in ToSet(batch[d]), e \notin ToSet(file)
          PROVE  e \in ToSet(Waiting[d])
      <4>1. pc[d] \notin {"sync", "release"}
        BY <3>1, <3>3 DEF PathInv, IInv, DurableOK
      <4>. QED
        BY <3>3, <4>1 DEF Waiting
    <3>. QED
      BY <3>1, <3>2, <3>3 DEF Batched
  <2>. QED
    BY <2>2, <2>3
<1>. QED
  BY <1>1, PathInduction, PTL

\* flush() => Ok: the caller has nothing left in the queue; each of its entries
\* is on disk, in the batch of another task's drain or lost to an I/O error.
THEOREM FlushIsComplete == Spec => []FlushLeavesNothingQueued
<1>1. PathInv => FlushLeavesNothingQueued
  <2> SUFFICES ASSUME PathInv, NEW w \in Writers, NEW n \in 1..flushed[w]
               PROVE  /\ <<w, n>> \notin ToSet(queue)
                      /\ <<w, n>> \in Durable \cup lost
                                     \cup UNION { ToSet(batch[d]) : d \in Drainers \ {w} }
    BY DEF FlushLeavesNothingQueued
  <2>1. appended[w] \in Nat /\ flushed[w] \in Nat /\ flushed[w] <= appended[w]
    BY DEF PathInv, IInv, TypeOK, FlushedOK
  <2>2. <<w, n>> \in Accepted
    BY <2>1 DEF Accepted, Entry
  <2>3. <<w, n>> \notin ToSet(queue) \cup ToSet(batch[w])
    BY DEF PathInv, FlushedOK
  <2>. QED
    BY <2>2, <2>3 DEF PathInv, IInv, DurableOK, Batched
<1>. QED
  BY <1>1, PathInduction, PTL

\* stop_flusher(): when the flusher has terminated, what was appended before the
\* first stop_flusher() is on disk, in the batch of a drain a flush() runs, or
\* lost to an I/O error.
THEOREM ShutdownIsClean == Spec => []ShutdownDrains
<1>1. PathInv => ShutdownDrains
  <2> SUFFICES ASSUME PathInv, pc[Flusher] = "done", NEW e \in UpTo(atStop)
               PROVE  e \in Durable \cup lost \cup UNION { ToSet(batch[w]) : w \in Writers }
    BY DEF ShutdownDrains
  <2>1. e \in Accepted /\ e[2] <= atStop[e[1]] /\ atStop[e[1]] \in Nat /\ e[2] \in Nat
    <3>1. PICK w \in Writers : \E n \in 1..atStop[w] : e = <<w, n>>
      BY DEF UpTo
    <3>2. atStop[w] \in Nat /\ appended[w] \in Nat /\ atStop[w] <= appended[w]
      BY DEF PathInv, IInv, TypeOK, StopOK
    <3>. QED
      BY <3>1, <3>2 DEF Accepted, Entry
  <2>2. e \notin ToSet(queue)
    BY <2>1 DEF PathInv, StopOK, Final
  <2>3. batch[Flusher] = <<>>
    BY DEF PathInv, IInv, PlaceOK, Drainers
  <2>4. Batched \subseteq UNION { ToSet(batch[w]) : w \in Writers }
    BY <2>3 DEF Batched, Drainers, ToSet
  <2>. QED
    BY <2>1, <2>2, <2>4 DEF PathInv, IInv, DurableOK
<1>. QED
  BY <1>1, PathInduction, PTL
=============================================================================
