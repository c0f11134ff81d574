-------------------------- MODULE CheckpointProofs --------------------------
(***************************************************************************)
(* Checkpoints beside running transactions and crashes, for any clients,   *)
(* checkpointers, keys and bounds.  Whatever crashes, torn records and I/O *)
(* errors do, a checkpoint brings nothing back that was rolled back, and   *)
(* the marker names a committed transaction.  While flush() stays within   *)
(* its polling budget and crashes tear no record, what can be read has its *)
(* Commit record in the file; and while, besides, clients write keys of    *)
(* their own, a replay changes only what a commit under way is about to.   *)
(***************************************************************************)
EXTENDS Checkpoint, RecoveryProofs

Scanned == {"locking"} \cup Locking

CkptStates ==
    [at : {"idle", "reading", "locking"} \cup Locking, from : Nat, seen : Seq(Records)]

\* A drain that is writing has its batch at the end of the file.
WritingOK ==
    writing # Nobody =>
        LET n == Len(file) - Len(batch[writing])
        IN  n \in 0..Len(file) /\ file = SubSeq(file, 1, n) \o batch[writing]

\* What a checkpoint has read is in the file where recovery reads it, and some
\* transaction of it is committed.
ScanOK ==
    /\ ckpt \in [Checkpointers -> CkptStates]
    /\ \A k \in Checkpointers : ckpt[k].at \in Scanned =>
          ToSet(ckpt[k].seen) \subseteq ToSet(Readable(file)) /\ CommittedIds(ckpt[k].seen) # {}

MarkerTyped ==
    /\ marker \in Nat \cup {Unreadable}
    /\ survivors \subseteq Nat \cup {Unreadable} /\ marker \in survivors
    /\ calls \in [Checkpointers -> 0..MaxCheckpoints]
    /\ shown \in 0..Len(file)
    /\ overtaken \subseteq Checkpointers
    /\ stale \in BOOLEAN

\* Until a crash, the transaction the marker names has its Commit record in the file.
MarkerLogged ==
    crashes = 0 /\ marker \notin {0, Unreadable} =>
        \E e \in ToSet(Readable(file)) : e.kind = "commit" /\ e.tx = marker

CkptInv == TypeInv /\ WritingOK /\ ScanOK /\ MarkerTyped /\ MarkerLogged

-----------------------------------------------------------------------------
(* The steps, for Database and for the checkpointers *)

\* Steps of one checkpointer that leave the Database alone.
CkptOnly(k) ==
    /\ UNCHANGED vars
    /\ \/ CheckpointCall(k) \/ Scan(k) \/ ScanFails(k)
       \/ TruncateMarker(k) \/ WriteMarker(k) \/ SetCheckpointFails(k)

\* The steps as seen from the store and from a checkpointer.
LEMMA StepCases ==
    ASSUME [CkptNext]_allVars
    PROVE  \/ (Recover \/ Elsewhere \/ UNCHANGED vars) /\ UNCHANGED ckptVars
           \/ \E c \in Clients : LockedApply(c)
           \/ CrashAll
           \/ \E k \in Checkpointers : CkptOnly(k) \/ ReplayScan(k)
<1>1. ASSUME NEW k \in Checkpointers, CheckpointCall(k) \/ CkptStep(k) \/ SetCheckpointFails(k)
      PROVE  CkptOnly(k) \/ ReplayScan(k)
  <2>1. CASE ReplayScan(k)
    BY <2>1
  <2>2. CASE CheckpointCall(k) \/ Scan(k) \/ ScanFails(k) \/ TruncateMarker(k) \/ WriteMarker(k)
             \/ SetCheckpointFails(k)
    <3>1. UNCHANGED vars
      BY <2>2 DEF CheckpointCall, Scan, ScanFails, TruncateMarker, WriteMarker, SetCheckpointFails
    <3>. QED
      BY <2>2, <3>1 DEF CkptOnly
  <2>. QED
    BY <1>1, <2>1, <2>2 DEF CkptStep
<1>. QED
  BY <1>1 DEF CkptNext, allVars

LEMMA CkptCases ==
    ASSUME [CkptNext]_allVars
    PROVE  \/ /\ [Next]_vars /\ ~Crash /\ UNCHANGED <<marker, survivors, ckpt, calls, shown, stale>>
              /\ overtaken' = overtaken \/ overtaken' \subseteq overtaken \cup Checkpointers
           \/ CrashAll
           \/ \E k \in Checkpointers : CkptOnly(k) \/ ReplayScan(k)
<1>1. CASE CrashAll
  BY <1>1
<1>2. ASSUME UNCHANGED mode PROVE ~Crash
  BY <1>2 DEF Crash
<1>3. CASE Recover /\ UNCHANGED ckptVars
  <2>1. ~Crash
    BY <1>3 DEF Recover, Crash
  <2>. QED
    BY <1>3, <2>1 DEF Next, ckptVars
<1>4. CASE Elsewhere /\ UNCHANGED ckptVars
  <2>1. UNCHANGED mode
    BY <1>4 DEF Elsewhere, Begin, AppendOp, AddEntry, CommitCall, AbortCall, GiveUp,
       FlushErr, FlushOk, CommitOk, Drain, FlusherFail
  <2>. QED
    BY <1>2, <1>4, <2>1 DEF Next, ckptVars
<1>5. ASSUME NEW c \in Clients, LockedApply(c)
      PROVE  /\ [Next]_vars /\ ~Crash /\ UNCHANGED <<marker, survivors, ckpt, calls, shown, stale>>
             /\ overtaken' \subseteq overtaken \cup Checkpointers
  <2>1. UNCHANGED mode
    BY <1>5 DEF LockedApply, Apply
  <2>. QED
    BY <1>2, <1>5, <2>1 DEF LockedApply, Next
<1>6. CASE UNCHANGED vars /\ UNCHANGED ckptVars
  <2>1. UNCHANGED mode
    BY <1>6 DEF vars
  <2>. QED
    BY <1>2, <1>6, <2>1 DEF ckptVars
<1>. QED
  BY <1>1, <1>3, <1>4, <1>5, <1>6, StepCases

\* The replay of a checkpoint touches only the store.
LEMMA OutStill ==
    ASSUME OutInv, UNCHANGED <<walVars, mode, nextId, pc, tx, history>>
    PROVE  OutInv'
<1>1. /\ UNCHANGED <<queue, batch, writing, file, synced, mine>>
      /\ UNCHANGED <<mode, nextId, pc, tx, serial, promised, rolledBack, crashes, errors>>
  BY DEF walVars, history
<1>2. All' = All /\ Kept' = Kept /\ Logged' = Logged
  BY <1>1 DEF All, Kept, Logged
<1>3. Typed'
  BY <1>1 DEF OutInv, IdsInv, Typed, LogTyped
<1>4. CarriedOK' /\ CounterOK' /\ OwnerOK'
  BY <1>1, <1>2 DEF OutInv, IdsInv, CarriedOK, CounterOK, OwnerOK
<1>5. SerialOK' /\ OutcomeOK'
  BY <1>1, <1>2 DEF OutInv, SerialOK, OutcomeOK
<1>. QED
  BY <1>3, <1>4, <1>5 DEF OutInv, IdsInv

\* But for a crash, the file only grows.
LEMMA FileGrows ==
    ASSUME Typed, [Next]_vars, ~Crash
    PROVE  \E part \in Seq(Records \cup {Torn}) : file' = file \o part
<1>. USE DrainersAre
<1>1. file \in Seq(Records \cup {Torn}) /\ file \o <<>> = file
  BY DEF Typed, LogTyped
<1>2. ASSUME UNCHANGED file PROVE \E part \in Seq(Records \cup {Torn}) : file' = file \o part
  <2>1. <<>> \in Seq(Records \cup {Torn}) /\ file' = file \o <<>>
    BY <1>1, <1>2
  <2>. QED
    BY <2>1
<1>3. ASSUME Recover \/ UNCHANGED vars PROVE UNCHANGED file
  BY <1>3 DEF Recover, vars, walVars
<1>4. ASSUME NEW c \in Clients,
             Begin(c) \/ AppendOp(c) \/ AddEntry(c) \/ CommitCall(c) \/ AbortCall(c) \/ GiveUp(c)
             \/ FlushOk(c) \/ CommitOk(c) \/ Apply(c)
      PROVE  UNCHANGED file
  BY <1>4 DEF Begin, AppendOp, AddEntry, CommitCall, AbortCall, GiveUp, FlushOk, CommitOk, Apply,
     Wal!Push, Wal!Ack, Wal!log, walVars
<1>5. ASSUME NEW d \in Drainers, Wal!Fail(d)
      PROVE  \E part \in Seq(Records \cup {Torn}) : file' = file \o part
  <2>1. ASSUME NEW part, part \in Wal!PartOf(batch[d]), file' = file \o part
        PROVE  part \in Seq(Records \cup {Torn})
    BY <2>1, PartType DEF Typed, LogTyped
  <2>. QED
    BY <1>2, <1>5, <2>1 DEF Wal!Fail
<1>6. ASSUME NEW d \in Drainers, Drain(d)
      PROVE  \E part \in Seq(Records \cup {Torn}) : file' = file \o part
  <2>1. batch[d] \in Seq(Records \cup {Torn})
    BY DEF Typed, LogTyped
  <2>. QED
    BY <1>2, <1>6, <2>1 DEF Drain, Wal!Pop, Wal!Write, Wal!Sync
<1>. QED
  BY <1>2, <1>3, <1>4, <1>5, <1>6 DEF Next, Elsewhere, FlusherFail, FlushErr, Drainers

LEMMA GrownFile ==
    ASSUME Typed, [Next]_vars, ~Crash
    PROVE  /\ Len(file) <= Len(file')
           /\ ToSet(file) \subseteq ToSet(file')
           /\ ToSet(Readable(file)) \subseteq ToSet(Readable(file'))
<1>1. PICK part \in Seq(Records \cup {Torn}) : file' = file \o part
  BY FileGrows
<1> DEFINE S == Records \cup {Torn}
<1>2. file \in Seq(S) /\ Len(file) \in 0..Len(file) /\ part \in Seq(S)
  BY <1>1 DEF Typed, LogTyped
<1>3. /\ file' \in Seq(S) /\ Len(file') = Len(file) + Len(part) /\ Len(part) \in Nat
      /\ ToSet(file') = ToSet(file) \cup ToSet(part)
  <2>. HIDE DEF S
  <2>. QED
    BY <1>1, <1>2, ConcatProperties, ConcatElements
<1>4. SubSeq(file', 1, Len(file)) = file
  <2>1. SubSeq(file \o part, 1, Len(file)) = SubSeq(file, 1, Len(file))
    BY <1>2, PrefixOfConcat
  <2>. QED
    BY <1>1, <1>2, <2>1
<1>5. ToSet(Readable(file)) \subseteq ToSet(Readable(file'))
  <2>1. Len(file) \in 0..Len(file')
    BY <1>2, <1>3
  <2>2. ToSet(Readable(SubSeq(file', 1, Len(file)))) \subseteq ToSet(Readable(file'))
    BY <1>3, <2>1, ReadablePrefix
  <2>. QED
    BY <1>4, <2>2
<1>. QED
  BY <1>2, <1>3, <1>5

-----------------------------------------------------------------------------
(* What a reader finds in the file *)

LEMMA PrefixType ==
    ASSUME NEW S, NEW s \in Seq(S), NEW n \in 0..Len(s)
    PROVE  SubSeq(s, 1, n) \in Seq(S) /\ Len(SubSeq(s, 1, n)) = n
BY SubSeqProperties

LEMMA PrefixBack ==
    ASSUME NEW S, NEW s \in Seq(S), NEW t \in Seq(S)
    PROVE  SubSeq(s \o t, 1, Len(s)) = s
BY SubSeqOfConcat1, SubSeqFull

LEMMA OneMore ==
    ASSUME NEW S, NEW s \in Seq(S), NEW t \in Seq(S), NEW e \in S
    PROVE  s \o (t \o <<e>>) = (s \o t) \o <<e>>
<1> DEFINE u == <<e>>
<1>1. u \in Seq(S)
  OBVIOUS
<1>. HIDE DEF u
<1>2. s \o (t \o u) = (s \o t) \o u
  BY <1>1, ConcatAssociative
<1>. QED
  BY <1>2 DEF u

LEMMA PrefixOfWhole ==
    ASSUME NEW S, NEW f \in Seq(S), NEW b \in Seq(S), NEW n \in 0..Len(f),
           f = SubSeq(f, 1, n) \o b, NEW k \in 0..Len(b)
    PROVE  /\ n + k \in 0..Len(f) /\ Len(f) = n + Len(b)
           /\ SubSeq(f, 1, n) \o SubSeq(b, 1, k) = SubSeq(f, 1, n + k)
<1> DEFINE p == SubSeq(f, 1, n)
           q == SubSeq(b, 1, k)
           w == SubSeq(f, 1, n + k)
<1>1. p \in Seq(S) /\ Len(p) = n /\ Len(f) \in Nat /\ Len(b) \in Nat /\ n \in Nat /\ k \in Nat
  BY SubSeqProperties
<1>2. q \in Seq(S) /\ Len(q) = k /\ \A i \in 1..k : q[i] = b[i]
  BY SubSeqProperties
<1>3. Len(p \o b) = n + Len(b) /\ \A i \in 1..Len(b) : (p \o b)[n + i] = b[i]
  BY <1>1, ConcatProperties
<1>4. Len(f) = n + Len(b) /\ \A i \in 1..Len(b) : f[n + i] = b[i]
  BY <1>3
<1>5. n + k \in 0..Len(f)
  BY <1>1, <1>4
<1>6. w \in Seq(S) /\ Len(w) = n + k /\ \A i \in 1..(n + k) : w[i] = f[i]
  BY <1>5, SubSeqProperties
<1>7. /\ p \o q \in Seq(S) /\ Len(p \o q) = n + k
      /\ \A i \in 1..n : (p \o q)[i] = p[i]
      /\ \A i \in 1..k : (p \o q)[n + i] = q[i]
  BY <1>1, <1>2, ConcatProperties
<1>8. \A i \in 1..n : p[i] = f[i]
  BY SubSeqProperties
<1>9. ASSUME NEW i \in 1..(n + k) PROVE (p \o q)[i] = w[i]
  <2>1. CASE i \in 1..n
    <3>1. w[i] = f[i] /\ p[i] = f[i]
      BY <1>6, <1>8, <2>1
    <3>2. (p \o q)[i] = p[i]
      BY <1>1, <1>2, <2>1, ConcatProperties
    <3>. QED
      BY <3>1, <3>2
  <2>2. CASE i \notin 1..n
    <3>1. i - n \in 1..k /\ n + (i - n) = i /\ i - n \in 1..Len(b)
      BY <1>1, <2>2
    <3>2. q[i - n] = b[i - n] /\ f[i] = b[i - n] /\ w[i] = f[i]
      BY <1>2, <1>4, <1>6, <3>1
    <3>3. (p \o q)[i] = q[i - n]
      BY <1>1, <1>2, <3>1, ConcatProperties
    <3>. QED
      BY <3>2, <3>3
  <2>. QED
    BY <2>1, <2>2
<1>10. p \o q = w
  <2>. HIDE DEF p, q, w
  <2> DEFINE pq == p \o q
  <2>1. pq \in Seq(S) /\ w \in Seq(S) /\ Len(pq) = Len(w) /\ \A i \in 1..Len(w) : pq[i] = w[i]
    BY <1>6, <1>7, <1>9
  <2>. HIDE DEF pq
  <2>2. pq = w
    BY <2>1, SeqEqual
  <2>. QED
    BY <2>2 DEF pq
<1>. QED
  BY <1>4, <1>5, <1>10

\* A reader finds the file as far as it is written, perhaps with a record cut
\* behind it.
LEMMA VisibleIs ==
    ASSUME Typed, WritingOK, NEW f \in Visible
    PROVE  \E m \in 0..Len(file) :
              /\ \/ f = SubSeq(file, 1, m)
                 \/ m < Len(file) /\ f = SubSeq(file, 1, m) \o <<Torn>>
              /\ IF writing = Nobody THEN m = Len(file)
                 ELSE Len(file) - Len(batch[writing]) <= m
<1> DEFINE S == Records \cup {Torn}
<1>1. file \in Seq(S) /\ Len(file) \in Nat /\ SubSeq(file, 1, Len(file)) = file
  <2>1. file \in Seq(S)
    BY DEF Typed, LogTyped
  <2>. HIDE DEF S
  <2>. QED
    BY <2>1, PrefixNext
<1>2. CASE writing = Nobody
  <2>1. f = SubSeq(file, 1, Len(file)) /\ Len(file) \in 0..Len(file)
    BY <1>1, <1>2 DEF Visible
  <2>. QED
    BY <1>2, <2>1
<1>3. CASE writing # Nobody
  <2> DEFINE b == batch[writing]
             n == Len(file) - Len(b)
  <2>1. /\ n \in 0..Len(file) /\ file = SubSeq(file, 1, n) \o b
        /\ b \in Seq(Records) /\ b \in Seq(S) /\ Len(b) \in Nat
    <3>1. n \in 0..Len(file) /\ file = SubSeq(file, 1, n) \o b
      BY <1>3 DEF WritingOK
    <3>2. b \in Seq(Records)
      BY <1>3 DEF Typed, LogTyped
    <3>. HIDE DEF b, n
    <3>. QED
      BY <3>1, <3>2
  <2>2. PICK part \in Wal!PartOf(b) : f = SubSeq(file, 1, n) \o part
    BY <1>3 DEF Visible
  <2>3. ASSUME NEW k \in 0..Len(b)
        PROVE  /\ n + k \in 0..Len(file) /\ Len(file) = n + Len(b) /\ n <= n + k
               /\ SubSeq(file, 1, n) \o SubSeq(b, 1, k) = SubSeq(file, 1, n + k)
    <3>1. file \in Seq(S) /\ b \in Seq(S) /\ n \in 0..Len(file) /\ file = SubSeq(file, 1, n) \o b
      BY <1>1, <2>1
    <3>. HIDE DEF S, b, n
    <3>. QED
      BY <3>1, PrefixOfWhole
  <2>5. ASSUME NEW k \in 0..(Len(b) - 1), part = SubSeq(b, 1, k)
        PROVE  \E m \in 0..Len(file) : f = SubSeq(file, 1, m) /\ n <= m
    <3>1. k \in 0..Len(b)
      BY <2>1
    <3>. HIDE DEF S, b, n
    <3>. QED
      BY <2>2, <2>5, <2>3, <3>1
  <2>6. ASSUME NEW k \in 0..(Len(b) - 1), part = SubSeq(b, 1, k) \o <<Torn>>
        PROVE  \E m \in 0..Len(file) : m < Len(file) /\ f = SubSeq(file, 1, m) \o <<Torn>> /\ n <= m
    <3>1. k \in 0..Len(b) /\ k < Len(b) /\ k \in Nat /\ n \in Nat
      BY <2>1
    <3>2. /\ n + k \in 0..Len(file) /\ Len(file) = n + Len(b) /\ n <= n + k
          /\ SubSeq(file, 1, n) \o SubSeq(b, 1, k) = SubSeq(file, 1, n + k)
      <4>. HIDE DEF S, b, n
      <4>. QED
        BY <2>3, <3>1
    <3>3. f = (SubSeq(file, 1, n) \o SubSeq(b, 1, k)) \o <<Torn>>
      <4> DEFINE p == SubSeq(file, 1, n)
                 q == SubSeq(b, 1, k)
      <4>1. f = p \o (q \o <<Torn>>)
        BY <2>2, <2>6
      <4>2. Torn \in S
        OBVIOUS
      <4>. HIDE DEF S, b, n
      <4>3. p \in Seq(S) /\ q \in Seq(S)
        BY <1>1, <2>1, <3>1, PrefixType
      <4>. HIDE DEF p, q
      <4>4. p \o (q \o <<Torn>>) = (p \o q) \o <<Torn>>
        BY <4>2, <4>3, OneMore, SMT
      <4>. QED
        BY <4>1, <4>4 DEF p, q
    <3>4. n + k < Len(file)
      <4>1. Len(file) = n + Len(b) /\ k < Len(b) /\ k \in Nat /\ n \in Nat /\ Len(b) \in Nat
        BY <2>1, <3>1, <3>2
      <4>. HIDE DEF b, n
      <4>. QED
        BY <4>1
    <3>. HIDE DEF b, n
    <3>. QED
      BY <3>2, <3>3, <3>4
  <2>7. \E m \in 0..Len(file) :
           /\ \/ f = SubSeq(file, 1, m)
              \/ m < Len(file) /\ f = SubSeq(file, 1, m) \o <<Torn>>
           /\ n <= m
    <3>1. \/ part = b \/ \E k \in 0..(Len(b) - 1) : part = SubSeq(b, 1, k)
          \/ \E k \in 0..(Len(b) - 1) : part = SubSeq(b, 1, k) \o <<Torn>>
      BY <2>2 DEF Wal!PartOf
    <3>2. ASSUME part = b PROVE f = SubSeq(file, 1, Len(file)) /\ n <= Len(file)
      <4>1. f = file /\ n \in 0..Len(file) /\ Len(file) \in Nat
        BY <1>1, <2>1, <2>2, <3>2
      <4>. HIDE DEF b, n
      <4>. QED
        BY <1>1, <4>1
    <3>. HIDE DEF b, n
    <3>3. Len(file) \in 0..Len(file)
      BY <1>1
    <3>. QED
      BY <2>5, <2>6, <3>1, <3>2, <3>3
  <2>. QED
    BY <1>3, <2>7
<1>. QED
  BY <1>2, <1>3

\* A reader finds no valid record but those recovery would.
LEMMA VisibleReadable ==
    ASSUME Typed, WritingOK, NEW f \in Visible
    PROVE  /\ f \in Seq(Records \cup {Torn}) /\ Len(f) <= Len(file)
           /\ Readable(f) \in Seq(Records)
           /\ ToSet(Readable(f)) \subseteq ToSet(Readable(file))
<1> DEFINE S == Records \cup {Torn}
<1>1. file \in Seq(S) /\ Len(file) \in Nat
  BY DEF Typed, LogTyped
<1>2. PICK m \in 0..Len(file) :
         \/ f = SubSeq(file, 1, m)
         \/ m < Len(file) /\ f = SubSeq(file, 1, m) \o <<Torn>>
  BY VisibleIs
<1> DEFINE p == SubSeq(file, 1, m)
           torn == <<Torn>>
<1>3. p \in Seq(S) /\ Len(p) = m /\ torn \in Seq(S) /\ Len(torn) = 1 /\ m \in Nat
  BY <1>1, SubSeqProperties
<1>4. p \o torn \in Seq(S) /\ Len(p \o torn) = m + 1
  <2>1. \A T : \A x, y \in Seq(T) : x \o y \in Seq(T) /\ Len(x \o y) = Len(x) + Len(y)
    BY ConcatProperties
  <2>. HIDE DEF S, p, torn
  <2>2. p \o torn \in Seq(S) /\ Len(p \o torn) = Len(p) + Len(torn)
    BY <1>3, <2>1, Zenon
  <2>. QED
    BY <1>3, <2>2
<1>5. /\ ToSet(Readable(p)) \subseteq ToSet(Readable(file))
      /\ m < Len(file) => ToSet(Readable(p \o torn)) \subseteq ToSet(Readable(file))
  BY <1>1, ReadablePrefix
<1>6. f = p \/ (m < Len(file) /\ f = p \o torn)
  BY <1>2
<1>7. f \in Seq(S) /\ Len(f) <= Len(file) /\ ToSet(Readable(f)) \subseteq ToSet(Readable(file))
  <2>. HIDE DEF p, torn, S
  <2>1. CASE f = p
    BY <1>1, <1>3, <1>5, <2>1
  <2>2. CASE m < Len(file) /\ f = p \o torn
    <3>1. m + 1 <= Len(file)
      BY <1>1, <1>3, <2>2
    <3>. QED
      BY <1>4, <1>5, <2>2, <3>1
  <2>. QED
    BY <1>6, <2>1, <2>2
<1>8. Readable(f) \in Seq(Records)
  BY <1>7, ReadableElements DEF S
<1>. QED
  BY <1>7, <1>8 DEF S

-----------------------------------------------------------------------------
(* The invariant *)

LEMMA WritingStep ==
    ASSUME Typed, WritingOK, [Next]_vars
    PROVE  WritingOK'
<1>. USE DrainersAre
<1>1. CASE UNCHANGED <<batch, writing, file>>
  BY <1>1 DEF WritingOK
<1>2. CASE writing' = Nobody
  BY <1>2 DEF WritingOK
<1>3. ASSUME Recover \/ UNCHANGED vars PROVE UNCHANGED <<batch, writing, file>>
  BY <1>3 DEF Recover, vars, walVars
<1>4. ASSUME NEW c \in Clients,
             Begin(c) \/ AppendOp(c) \/ AddEntry(c) \/ CommitCall(c) \/ AbortCall(c) \/ GiveUp(c)
             \/ FlushOk(c) \/ CommitOk(c) \/ Apply(c)
      PROVE  UNCHANGED <<batch, writing, file>>
  BY <1>4 DEF Begin, AppendOp, AddEntry, CommitCall, AbortCall, GiveUp, FlushOk, CommitOk, Apply,
     Wal!Push, Wal!Ack, Wal!log, walVars
<1>5. ASSUME Crash \/ FlusherFail \/ \E c \in Clients : FlushErr(c) PROVE writing' = Nobody
  BY <1>5 DEF Crash, FlusherFail, FlushErr, Wal!Fail
<1>6. ASSUME NEW d \in Drainers, Drain(d) PROVE WritingOK'
  <2>1. CASE Wal!Pop(d)
    <3>1. UNCHANGED <<writing, file>> /\ (writing # Nobody => batch'[writing] = batch[writing])
      BY <2>1 DEF Wal!Pop, Typed, LogTyped
    <3>. QED
      BY <3>1 DEF WritingOK
  <2>2. CASE Wal!Write(d)
    <3> DEFINE S == Records \cup {Torn}
               b == batch[d]
    <3>1. file' = file \o b /\ writing' = d /\ batch' = batch
      BY <2>2 DEF Wal!Write
    <3>2. file \in Seq(S) /\ b \in Seq(S) /\ Len(file) \in Nat /\ Len(b) \in Nat
      BY DEF Typed, LogTyped
    <3>3. Len(file \o b) = Len(file) + Len(b) /\ SubSeq(file \o b, 1, Len(file)) = file
      <4>. HIDE DEF S, b
      <4>1. Len(file \o b) = Len(file) + Len(b)
        BY <3>2, ConcatProperties
      <4>. QED
        BY <3>2, <4>1, PrefixBack
    <3>4. Len(file') - Len(b) = Len(file) /\ Len(file) \in 0..Len(file')
      BY <3>1, <3>2, <3>3
    <3>. QED
      BY <3>1, <3>3, <3>4 DEF WritingOK
  <2>3. CASE Wal!Sync(d)
    BY <1>2, <2>3 DEF Wal!Sync
  <2>. QED
    BY <1>6, <2>1, <2>2, <2>3 DEF Drain
<1>. QED
  BY <1>1, <1>2, <1>3, <1>4, <1>5, <1>6 DEF Next, Elsewhere

LEMMA CkptInit0 == CkptInit => CkptInv
<1> SUFFICES ASSUME CkptInit PROVE CkptInv
  OBVIOUS
<1>1. TypeInv
  BY OutInit, StoreInit, DatabaseAssumption DEF CkptInit, TypeInv, Init, Wal!LogInit, BoundsOK
<1>2. file = <<>> /\ writing = Nobody
  BY DEF CkptInit, Init, Wal!LogInit
<1>3. WritingOK
  BY <1>2 DEF WritingOK
<1>4. ScanOK
  BY DEF CkptInit, Resting, ScanOK, CkptStates, Scanned, Locking
<1>5. MarkerTyped
  <2>1. calls \in [Checkpointers -> 0..MaxCheckpoints]
    BY CheckpointAssumption DEF CkptInit
  <2>2. shown \in 0..Len(file)
    BY <1>2 DEF CkptInit
  <2>3. marker = 0 /\ survivors = {0} /\ overtaken = {} /\ stale = FALSE
    BY DEF CkptInit
  <2>4. marker \in Nat \cup {Unreadable} /\ survivors \subseteq Nat \cup {Unreadable} /\ marker \in survivors
    BY <2>3
  <2>5. overtaken \subseteq Checkpointers /\ stale \in BOOLEAN
    BY <2>3
  <2>. QED
    BY <2>1, <2>2, <2>4, <2>5 DEF MarkerTyped
<1>6. MarkerLogged
  BY DEF CkptInit, MarkerLogged
<1>. QED
  BY <1>1, <1>3, <1>4, <1>5, <1>6 DEF CkptInv

LEMMA WholeType ==
    ASSUME NEW S, NEW f \in Seq(S)
    PROVE  Whole(f) \in 0..Len(f)
<1>1. Len(f) \in Nat /\ (f # <<>> => Len(f) > 0)
  OBVIOUS
<1>. QED
  BY <1>1 DEF Whole

\* What the Scan of a checkpointer keeps.
LEMMA ScanKeeps ==
    ASSUME Typed, WritingOK, ScanOK, NEW k \in Checkpointers, NEW f \in Visible
    PROVE  LET recs == Newer(Readable(f), ckpt[k].from)
           IN  recs \in Seq(Records) /\ ToSet(recs) \subseteq ToSet(Readable(file))
<1>1. Readable(f) \in Seq(Records) /\ ToSet(Readable(f)) \subseteq ToSet(Readable(file))
  BY VisibleReadable
<1>2. /\ Newer(Readable(f), ckpt[k].from) \in Seq(Records)
      /\ ToSet(Newer(Readable(f), ckpt[k].from)) \subseteq ToSet(Readable(f))
  BY <1>1, NewerIs
<1>. QED
  BY <1>1, <1>2

\* The marker is a transaction with a Commit record among those scanned.
LEMMA NewMarkerIs ==
    ASSUME Typed, ScanOK, NEW k \in Checkpointers, ckpt[k].at \in Scanned
    PROVE  /\ NewMarker(ckpt[k].seen) \in Nat
           /\ \E e \in ToSet(Readable(file)) :
                 e.kind = "commit" /\ e.tx = NewMarker(ckpt[k].seen)
<1> DEFINE recs == ckpt[k].seen
           ids == CommittedIds(recs)
<1>1. /\ recs \in Seq(Records) /\ \A r \in Records : r.tx \in Nat
      /\ ToSet(recs) \subseteq ToSet(Readable(file)) /\ ids # {}
  BY DEF ScanOK, CkptStates, Records
<1>2. IsFiniteSet(ids) /\ ids \in SUBSET Nat
  <2>1. IsFiniteSet(TxIds(recs)) /\ TxIds(recs) \in SUBSET Nat
    <3>. HIDE DEF recs
    <3>. QED
      BY <1>1, IdsFinite
  <2>2. ids \subseteq TxIds(recs)
    BY DEF CommittedIds
  <2>. QED
    BY <2>1, <2>2, FS_Subset
<1>3. Max(ids) \in ids
  <2>. HIDE DEF ids
  <2>. QED
    BY <1>1, <1>2, MaxOfNaturals
<1>4. NewMarker(recs) = Max(ids)
  BY DEF NewMarker
<1>. HIDE DEF recs
<1>5. \E e \in ToSet(recs) : e.tx = Max(ids) /\ e.kind = "commit"
  BY <1>1, <1>3, CommittedHas
<1>. QED
  BY <1>1, <1>2, <1>3, <1>4, <1>5 DEF recs

LEMMA CkptOnlyStep ==
    ASSUME CkptInv, NEW k \in Checkpointers, CkptOnly(k)
    PROVE  ScanOK' /\ MarkerTyped' /\ MarkerLogged'
<1>0. /\ ScanOK /\ MarkerTyped /\ MarkerLogged /\ WritingOK /\ Typed
      /\ UNCHANGED <<file, crashes>> /\ DOMAIN ckpt = Checkpointers
      /\ file \in Seq(Records \cup {Torn}) /\ Len(file) \in Nat
  BY DEF CkptInv, CkptOnly, vars, walVars, history, TypeInv, OutInv, IdsInv, ScanOK, Typed, LogTyped
<1>1. ASSUME NEW s \in CkptStates, ckpt' = [ckpt EXCEPT ![k] = s],
             s.at \in Scanned => /\ ToSet(s.seen) \subseteq ToSet(Readable(file))
                                 /\ CommittedIds(s.seen) # {}
      PROVE  ScanOK'
  <2>1. \A o \in Checkpointers : ckpt'[o] = IF o = k THEN s ELSE ckpt[o]
    BY <1>0, <1>1
  <2>2. ckpt' \in [Checkpointers -> CkptStates]
    BY <1>0, <1>1 DEF ScanOK
  <2>. QED
    BY <1>0, <1>1, <2>1, <2>2 DEF ScanOK
<1>2. Resting \in CkptStates /\ Resting.at \notin Scanned
  BY DEF Resting, CkptStates, Scanned, Locking
<1>3. ASSUME Return(k) PROVE ScanOK'
  BY <1>1, <1>2, <1>3 DEF Return
<1>4. ASSUME UNCHANGED <<marker, survivors>> PROVE MarkerLogged'
  BY <1>0, <1>4 DEF MarkerLogged
<1>5. CASE CheckpointCall(k)
  <2>1. ScanOK'
    <3>1. CASE MarkerParses
      <4> DEFINE s == [Resting EXCEPT !.at = "reading", !.from = marker]
      <4>1. marker \in Nat
        BY <1>0, <3>1 DEF MarkerTyped, MarkerParses
      <4>2. s \in CkptStates /\ s.at \notin Scanned
        <5>1. s \in CkptStates /\ s.at = "reading"
          BY <1>2, <4>1 DEF CkptStates
        <5>. HIDE DEF s
        <5>. QED
          BY <5>1 DEF Scanned, Locking
      <4>3. ckpt' = [ckpt EXCEPT ![k] = s]
        BY <1>5, <3>1 DEF CheckpointCall
      <4>. HIDE DEF s
      <4>. QED
        BY <1>1, <4>2, <4>3
    <3>2. CASE ~MarkerParses
      BY <1>0, <1>5, <3>2 DEF CheckpointCall, ScanOK
    <3>. QED
      BY <3>1, <3>2
  <2>2. MarkerTyped'
    <3>1. calls' \in [Checkpointers -> 0..MaxCheckpoints]
      BY <1>0, <1>5, CheckpointAssumption DEF CheckpointCall, MarkerTyped
    <3>. QED
      BY <1>0, <1>5, <3>1 DEF CheckpointCall, MarkerTyped
  <2>. QED
    BY <1>4, <1>5, <2>1, <2>2 DEF CheckpointCall
<1>6. ASSUME NEW f \in Visible PROVE Whole(f) \in 0..Len(file)
  <2>1. f \in Seq(Records \cup {Torn}) /\ Len(f) <= Len(file)
    BY <1>0, VisibleReadable
  <2>2. Whole(f) \in 0..Len(f) /\ Len(f) \in Nat
    BY <2>1, WholeType
  <2>. QED
    BY <1>0, <2>1, <2>2
<1>7. CASE Scan(k)
  <2> DEFINE Recs(f) == Newer(Readable(f), ckpt[k].from)
  <2>1. PICK f \in Visible :
           /\ IF CommittedIds(Recs(f)) = {} THEN Return(k)
              ELSE ckpt' = [ckpt EXCEPT ![k].at = "locking", ![k].seen = Recs(f)]
           /\ shown' = Whole(f)
    BY <1>7 DEF Scan
  <2>2. Recs(f) \in Seq(Records) /\ ToSet(Recs(f)) \subseteq ToSet(Readable(file))
    BY <1>0, ScanKeeps
  <2>. HIDE DEF Recs
  <2>3. ScanOK'
    <3>1. CASE CommittedIds(Recs(f)) = {}
      BY <1>3, <2>1, <3>1
    <3>2. CASE CommittedIds(Recs(f)) # {}
      <4> DEFINE s == [ckpt[k] EXCEPT !.at = "locking", !.seen = Recs(f)]
      <4>1. s \in CkptStates /\ s.seen = Recs(f)
        BY <1>0, <2>2 DEF ScanOK, CkptStates
      <4>2. ckpt' = [ckpt EXCEPT ![k] = s]
        BY <2>1, <3>2
      <4>. HIDE DEF s
      <4>. QED
        BY <1>1, <2>2, <3>2, <4>1, <4>2
    <3>. QED
      BY <3>1, <3>2
  <2>4. MarkerTyped'
    <3>1. shown' \in 0..Len(file')
      BY <1>0, <1>6, <2>1
    <3>. QED
      BY <1>0, <1>7, <3>1 DEF Scan, MarkerTyped
  <2>. QED
    BY <1>4, <1>7, <2>3, <2>4 DEF Scan
<1>8. CASE ScanFails(k)
  <2>1. MarkerTyped'
    <3>1. shown' \in 0..Len(file')
      BY <1>0, <1>6, <1>8 DEF ScanFails
    <3>. QED
      BY <1>0, <1>8, <3>1 DEF ScanFails, MarkerTyped
  <2>. QED
    BY <1>3, <1>4, <1>8, <2>1 DEF ScanFails
<1>9. CASE TruncateMarker(k)
  <2> DEFINE s == [ckpt[k] EXCEPT !.at = "writing"]
  <2>1. /\ s \in CkptStates /\ s.seen = ckpt[k].seen /\ ckpt[k].at \in Scanned
        /\ ckpt' = [ckpt EXCEPT ![k] = s]
    BY <1>0, <1>9 DEF TruncateMarker, ScanOK, CkptStates, Scanned, Locking
  <2>2. ScanOK'
    <3>1. ToSet(ckpt[k].seen) \subseteq ToSet(Readable(file)) /\ CommittedIds(ckpt[k].seen) # {}
      BY <1>0, <2>1 DEF ScanOK
    <3>. HIDE DEF s
    <3>. QED
      BY <1>1, <2>1, <3>1
  <2>3. MarkerTyped' /\ MarkerLogged'
    BY <1>0, <1>9 DEF TruncateMarker, MarkerTyped, MarkerLogged
  <2>. QED
    BY <2>2, <2>3
<1>10. CASE WriteMarker(k)
  <2>1. ckpt[k].at \in Scanned
    BY <1>10 DEF WriteMarker, Scanned, Locking
  <2>2. /\ marker' \in Nat
        /\ \E e \in ToSet(Readable(file)) : e.kind = "commit" /\ e.tx = marker'
    BY <1>0, <1>10, <2>1, NewMarkerIs DEF WriteMarker
  <2>3. MarkerTyped' /\ MarkerLogged'
    BY <1>0, <1>10, <2>2 DEF WriteMarker, MarkerTyped, MarkerLogged
  <2>. QED
    BY <1>3, <1>10, <2>3 DEF WriteMarker
<1>11. CASE SetCheckpointFails(k)
  <2>1. MarkerTyped'
    BY <1>0, <1>11 DEF SetCheckpointFails, MarkerTyped
  <2>. QED
    BY <1>3, <1>4, <1>11, <2>1 DEF SetCheckpointFails
<1>. QED
  BY <1>5, <1>7, <1>8, <1>9, <1>10, <1>11 DEF CkptOnly

LEMMA CkptInvStep ==
    ASSUME CkptInv, [CkptNext]_allVars
    PROVE  CkptInv'
<1>0. /\ TypeInv /\ OutInv /\ StoreOK /\ BoundsOK /\ Typed
      /\ WritingOK /\ ScanOK /\ MarkerTyped /\ MarkerLogged
  BY DEF CkptInv, TypeInv, OutInv, IdsInv
<1>1. ASSUME [Next]_vars, ~Crash, UNCHANGED <<marker, survivors, ckpt, calls, shown, stale>>,
             overtaken' = overtaken \/ overtaken' \subseteq overtaken \cup Checkpointers
      PROVE  CkptInv'
  <2>1. TypeInv' /\ WritingOK'
    BY <1>0, <1>1, OutStep, StoreStep, BoundsStep, WritingStep DEF TypeInv
  <2>2. Len(file) <= Len(file') /\ ToSet(Readable(file)) \subseteq ToSet(Readable(file'))
    BY <1>0, <1>1, GrownFile
  <2>3. ScanOK'
    BY <1>0, <1>1, <2>2 DEF ScanOK
  <2>4. MarkerTyped'
    <3>1. Len(file) \in Nat /\ Len(file') \in Nat
      BY <1>0, <2>1 DEF TypeInv, OutInv, IdsInv, Typed, LogTyped
    <3>2. shown' \in 0..Len(file')
      BY <1>0, <1>1, <2>2, <3>1 DEF MarkerTyped
    <3>. QED
      BY <1>0, <1>1, <3>2 DEF MarkerTyped
  <2>5. MarkerLogged'
    <3>1. crashes' = crashes
      BY <1>1 DEF Next, Elsewhere, Recover, Begin, AppendOp, AddEntry, CommitCall, AbortCall, GiveUp,
         FlushErr, FlushOk, CommitOk, Apply, Drain, FlusherFail, history, vars
    <3>. QED
      BY <1>0, <1>1, <2>2, <3>1 DEF MarkerLogged
  <2>. QED
    BY <2>1, <2>3, <2>4, <2>5 DEF CkptInv
<1>2. CASE CrashAll
  <2>1. Crash
    BY <1>2 DEF CrashAll
  <2>2. TypeInv' /\ WritingOK'
    BY <1>0, <2>1, OutStep, StoreStep, BoundsStep, WritingStep DEF TypeInv, Next
  <2>3. ScanOK'
    BY <1>2 DEF CrashAll, Resting, ScanOK, CkptStates, Scanned, Locking
  <2>4. MarkerTyped'
    <3>1. 0 \in 0..Len(file')
      BY <2>2 DEF TypeInv, OutInv, IdsInv, Typed, LogTyped
    <3>2. calls' \in [Checkpointers -> 0..MaxCheckpoints]
      BY <1>2, CheckpointAssumption DEF CrashAll
    <3>3. marker' \in Nat \cup {Unreadable} /\ survivors' = {marker'}
      BY <1>0, <1>2 DEF CrashAll, MarkerTyped
    <3>4. shown' = 0 /\ overtaken' = {} /\ stale' = FALSE
      BY <1>2 DEF CrashAll
    <3>. QED
      BY <3>1, <3>2, <3>3, <3>4 DEF MarkerTyped
  <2>5. MarkerLogged'
    BY <1>0, <2>1 DEF Crash, BoundsOK, MarkerLogged
  <2>. QED
    BY <2>2, <2>3, <2>4, <2>5 DEF CkptInv
<1>3. ASSUME NEW k \in Checkpointers, CkptOnly(k) PROVE CkptInv'
  <2>1. UNCHANGED vars
    BY <1>3 DEF CkptOnly
  <2>2. TypeInv' /\ WritingOK'
    BY <1>0, <2>1, OutStep, StoreStep, BoundsStep, WritingStep DEF TypeInv
  <2>. QED
    BY <1>3, <2>2, CkptOnlyStep DEF CkptInv
<1>4. ASSUME NEW k \in Checkpointers, ReplayScan(k) PROVE CkptInv'
  <2>1. /\ UNCHANGED <<walVars, mode, nextId, pc, tx, history>>
        /\ UNCHANGED <<marker, survivors, calls, shown>> /\ ckpt[k].at = "locking"
    BY <1>4 DEF ReplayScan
  <2>2. UNCHANGED <<file, writing, batch, acked, serial, rolledBack, crashes, errors>>
    BY <2>1 DEF walVars, history
  <2>3. OutInv' /\ BoundsOK' /\ WritingOK'
    BY <1>0, <2>1, <2>2, OutStill DEF BoundsOK, WritingOK
  <2>4. StoreOK'
    <3> DEFINE recs == ckpt[k].seen
    <3>1. recs \in Seq(Records) /\ ToSet(recs) \subseteq ToSet(Readable(file))
      BY <1>0, <2>1 DEF ScanOK, CkptStates, Scanned
    <3>2. ToSet(recs) \subseteq Kept /\ Kept \subseteq Logged
      BY <1>0, <3>1, LoggedFacts DEF Kept
    <3>3. \A e \in ToSet(recs) : e.kind = "commit" => e.value \in Settled
      BY <1>0, <3>2, CommitsSettled
    <3>4. store' = Replayed(store, recs) /\ store \in Stores(Settled)
      BY <1>0, <1>4 DEF ReplayScan, StoreOK
    <3>5. store' \in Stores(Settled)
      <4>. HIDE DEF recs
      <4>. QED
        BY <1>0, <3>1, <3>2, <3>3, <3>4, ReplayValues
    <3>6. Settled' = Settled
      BY <2>1, <2>2 DEF Settled
    <3>. QED
      BY <3>5, <3>6 DEF StoreOK, Stores
  <2>5. ScanOK'
    <3> DEFINE s == [ckpt[k] EXCEPT !.at = "truncating"]
    <3>1. s \in CkptStates /\ s.seen = ckpt[k].seen /\ ckpt' = [ckpt EXCEPT ![k] = s]
      BY <1>0, <1>4 DEF ReplayScan, ScanOK, CkptStates, Locking
    <3>2. ckpt[k].at \in Scanned
      BY <2>1 DEF Scanned
    <3>3. \A o \in Checkpointers : ckpt'[o] = IF o = k THEN s ELSE ckpt[o]
      BY <1>0, <3>1 DEF ScanOK
    <3>4. ckpt' \in [Checkpointers -> CkptStates]
      BY <1>0, <3>1 DEF ScanOK
    <3>. HIDE DEF s
    <3>. QED
      BY <1>0, <2>2, <3>1, <3>2, <3>3, <3>4 DEF ScanOK
  <2>6. MarkerTyped' /\ MarkerLogged'
    BY <1>0, <1>4, <2>1, <2>2 DEF ReplayScan, MarkerTyped, MarkerLogged
  <2>. QED
    BY <2>3, <2>4, <2>5, <2>6 DEF CkptInv, TypeInv
<1>. QED
  BY <1>1, <1>2, <1>3, <1>4, CkptCases

\* The type invariant of Checkpoint.  That WriteMarker writes a number takes that
\* Scan goes on only with a committed transaction among the records it has read;
\* that Scan counts no more records than there are takes the batch in the file.
THEOREM CkptTypeCorrect == CkptSpec => []CkptTypeOK
<1>1. CkptInit => CkptInv
  BY CkptInit0
<1>2. CkptInv /\ [CkptNext]_allVars => CkptInv'
  BY CkptInvStep
<1>3. CkptInv => CkptTypeOK
  BY TypeMeaning DEF CkptInv, ScanOK, CkptStates, MarkerTyped, CkptTypeOK
<1>. QED
  BY <1>1, <1>2, <1>3, PTL DEF CkptSpec

\* What abort() was called on, or what was dropped, is not brought back by a
\* checkpoint either, although checkpoint() reads the file beside the flusher,
\* waits for the store's lock while transactions commit and abort, and replays
\* what it had read: a transaction with a Commit record is never rolled back.
THEOREM RollbackSurvivesCheckpoints == CkptSpec => []RolledBackStaysOut
<1>1. CkptInit => CkptInv
  BY CkptInit0
<1>2. CkptInv /\ [CkptNext]_allVars => CkptInv'
  BY CkptInvStep
<1>3. CkptInv => RolledBackStaysOut
  BY StoreMeaning DEF CkptInv, TypeInv
<1>. QED
  BY <1>1, <1>2, <1>3, PTL DEF CkptSpec

\* A transaction with a Commit record in the file is committed there: none of
\* its records is an Abort.
LEMMA LoggedIsCommitted ==
    ASSUME OutInv, NEW e \in ToSet(Readable(file)), e.kind = "commit"
    PROVE  e.tx \in CommittedIds(Readable(file))
<1> DEFINE recs == Readable(file)
<1>1. Typed /\ OwnerOK /\ OutcomeOK
  BY DEF OutInv, IdsInv
<1>2. recs \in Seq(Records) /\ ToSet(recs) \subseteq Kept
  BY <1>1, ReadableElements DEF Typed, LogTyped, Kept
<1>3. ToSet(recs) \subseteq Logged /\ ToSet(recs) \subseteq Records
  BY <1>1, <1>2, LoggedFacts
<1>4. ASSUME NEW r \in ToSet(recs), r.tx = e.tx, ~IsOp(r) PROVE r.kind = "commit"
  <2>1. r.value = e.value
    BY <1>1, <1>2, <1>4 DEF OwnerOK
  <2>2. r.kind # "abort"
    BY <1>1, <1>3, <2>1 DEF OutcomeOK
  <2>3. r.kind \in TxKinds
    BY <1>3 DEF Records
  <2>. QED
    BY <1>4, <2>2, <2>3 DEF TxKinds, IsOp
<1>. HIDE DEF recs
<1>. QED
  BY <1>2, <1>4, CommittedIf DEF recs

\* Until a crash, the marker that set_checkpoint() leaves names a transaction
\* which the file shows as committed, whatever other checkpoints wrote in between
\* and whatever transactions did since: no later record takes a commit back.
THEOREM MarkerNamesCommitted == CkptSpec => []MarkerIsCommitted
<1>1. CkptInit => CkptInv
  BY CkptInit0
<1>2. CkptInv /\ [CkptNext]_allVars => CkptInv'
  BY CkptInvStep
<1>3. CkptInv => MarkerIsCommitted
  BY LoggedIsCommitted DEF CkptInv, TypeInv, MarkerLogged, MarkerIsCommitted
<1>. QED
  BY <1>1, <1>2, <1>3, PTL DEF CkptSpec

-----------------------------------------------------------------------------
(* What a reader sees, while flush() stays within its polling budget and   *)
(* crashes tear no record                                                  *)

\* The serials with a Commit record in the file.
LoggedCommits == { v \in Nat : \E e \in ToSet(file) : e.kind = "commit" /\ e.value = v }

ShownInv == CkptInv /\ DurInv /\ CommittingOK /\ store \in Stores(LoggedCommits)

LEMMA LoggedCommitsGrow ==
    ASSUME ToSet(file) \subseteq ToSet(file')
    PROVE  LoggedCommits \subseteq LoggedCommits'
BY DEF LoggedCommits

\* A replay of records that are in the file.
LEMMA ReplayLogged ==
    ASSUME OutInv, NEW recs \in Seq(Records), ToSet(recs) \subseteq ToSet(Readable(file)),
           Torn \notin ToSet(file), NEW s \in Stores(LoggedCommits)
    PROVE  Replayed(s, recs) \in Stores(LoggedCommits)
<1>1. Typed
  BY DEF OutInv, IdsInv
<1>2. Readable(file) = file
  BY DEF Readable, ToSet
<1>3. ToSet(recs) \subseteq Kept /\ ToSet(recs) \subseteq ToSet(file)
  BY <1>2 DEF Kept
<1>4. \A e \in ToSet(recs) : e.value \in Nat
  BY <1>1, <1>3, KeptTypes DEF Records
<1>5. \A e \in ToSet(recs) : e.kind = "commit" => e.value \in LoggedCommits
  BY <1>3, <1>4 DEF LoggedCommits
<1>. QED
  BY <1>3, <1>5, ReplayValues

LEMMA ShownInit == CkptInit => ShownInv
BY CkptInit0, DurInit DEF CkptInit, Init, Wal!LogInit, EmptyStore, CommittingOK, Stores, ShownInv

LEMMA ShownStep ==
    ASSUME ShownInv, [CkptNext]_allVars, Punctual, ~TornWrites
    PROVE  ShownInv'
<1>0. /\ CkptInv /\ DurInv /\ CommittingOK /\ store \in Stores(LoggedCommits)
      /\ OutInv /\ Typed /\ FlusherOnlyOK /\ ArrivedOK /\ ScanOK /\ Torn \notin ToSet(file)
  BY DEF ShownInv, CkptInv, TypeInv, OutInv, IdsInv, DurInv, FlusherOnlyOK
<1>1. CkptInv'
  BY <1>0, CkptInvStep
<1>2. ASSUME [Next]_vars PROVE DurInv' /\ CommittingOK'
  BY <1>0, <1>2, DurStep, CommitsKept
<1>3. ASSUME NEW s \in Stores(LoggedCommits), store' = s, ToSet(file) \subseteq ToSet(file')
      PROVE  store' \in Stores(LoggedCommits')
  BY <1>3, LoggedCommitsGrow DEF Stores
<1>4. ASSUME [Next]_vars, ~Crash PROVE store' \in Stores(LoggedCommits')
  <2>1. ToSet(file) \subseteq ToSet(file')
    BY <1>0, <1>4, GrownFile
  <2>2. CASE Recover
    <3>1. Readable(file) \in Seq(Records)
      BY <1>0, ReadableElements DEF Typed, LogTyped
    <3>2. EmptyStore \in Stores(LoggedCommits)
      BY DEF EmptyStore, Stores
    <3>3. store' \in Stores(LoggedCommits)
      BY <1>0, <2>2, <3>1, <3>2, ReplayLogged DEF Recover
    <3>. QED
      BY <1>3, <2>1, <3>3
  <2>3. ASSUME NEW c \in Clients, Apply(c) PROVE store' \in Stores(LoggedCommits)
    <3>1. PICK r \in mine[c] : r.kind = "commit" /\ r.value = tx[c].serial
      BY <1>0, <2>3 DEF Apply, CommittingOK
    <3>2. mine[c] \subseteq ToSet(file)
      BY <1>0, <2>3, SyncedFacts DEF Apply, ArrivedOK
    <3>3. Head(tx[c].ops).value = tx[c].serial /\ tx[c].serial \in Nat
      BY <1>0, <2>3, AppliedSettled DEF Apply, Typed
    <3>4. Head(tx[c].ops).value \in LoggedCommits
      BY <3>1, <3>2, <3>3 DEF LoggedCommits
    <3>5. store' = store \/ store' = Upsert(store, Head(tx[c].ops))
      BY <2>3 DEF Apply
    <3>. QED
      BY <1>0, <3>4, <3>5, UpsertStays
  <2>4. CASE \E c \in Clients : Apply(c)
    BY <1>3, <2>1, <2>3, <2>4
  <2>5. CASE Elsewhere \/ UNCHANGED vars
    <3>1. UNCHANGED store
      BY <2>5 DEF Elsewhere, Begin, AppendOp, AddEntry, CommitCall, AbortCall, GiveUp,
         FlushErr, FlushOk, CommitOk, Drain, FlusherFail, vars
    <3>. QED
      BY <1>0, <1>3, <2>1, <3>1
  <2>. QED
    BY <1>4, <2>2, <2>4, <2>5 DEF Next
<1>5. CASE CrashAll
  <2>1. Crash /\ store' = EmptyStore
    BY <1>5 DEF CrashAll, Crash
  <2>2. [Next]_vars
    BY <2>1 DEF Next
  <2>3. store' \in Stores(LoggedCommits')
    BY <2>1 DEF EmptyStore, Stores
  <2>. QED
    BY <1>1, <1>2, <2>2, <2>3 DEF ShownInv, Stores
<1>6. ASSUME NEW k \in Checkpointers, ReplayScan(k) PROVE ShownInv'
  <2>1. /\ UNCHANGED <<queue, batch, writing, file, synced, mine, pc, tx, promised, errors>>
        /\ ckpt[k].at = "locking" /\ store' = Replayed(store, ckpt[k].seen)
    BY <1>6 DEF ReplayScan, walVars, history
  <2>2. FlusherOnlyOK' /\ ArrivedOK' /\ CommittingOK'
    BY <1>0, <2>1, DurStill DEF CommittingOK
  <2>3. Typed' /\ errors' = 0
    BY <1>1, <2>1 DEF ShownInv, DurInv, CkptInv, TypeInv, OutInv, IdsInv
  <2>4. ckpt[k].seen \in Seq(Records) /\ ToSet(ckpt[k].seen) \subseteq ToSet(Readable(file))
    BY <1>0, <2>1 DEF ScanOK, CkptStates, Scanned
  <2>5. store' \in Stores(LoggedCommits)
    BY <1>0, <2>1, <2>4, ReplayLogged
  <2>6. LoggedCommits' = LoggedCommits
    BY <2>1 DEF LoggedCommits
  <2>. QED
    BY <1>1, <2>2, <2>3, <2>5, <2>6 DEF ShownInv, DurInv, Stores
<1>7. ASSUME NEW k \in Checkpointers, CkptOnly(k) PROVE ShownInv'
  <2>1. UNCHANGED vars /\ UNCHANGED <<file, store>>
    BY <1>7 DEF CkptOnly, vars, walVars
  <2>2. LoggedCommits' = LoggedCommits
    BY <2>1 DEF LoggedCommits
  <2>. QED
    BY <1>0, <1>1, <1>2, <2>1, <2>2 DEF ShownInv, Stores
<1>8. CASE [Next]_vars /\ ~Crash
  BY <1>1, <1>2, <1>4, <1>8 DEF ShownInv, Stores
<1>. QED
  BY <1>5, <1>6, <1>7, <1>8, CkptCases

\* checkpoint() replays records that no fsync has confirmed, and of transactions
\* that may still abort; even so, while no batch fails, flush() stays within its
\* polling budget and crashes tear no record, whoever wrote a value that can be read in the
\* store has its Commit record in the file.
THEOREM ShownIsLogged ==
    ASSUME Punctual, ~TornWrites
    PROVE  CkptSpec => []VisibleIsLogged
<1>1. CkptInit => ShownInv
  BY ShownInit
<1>2. ShownInv /\ [CkptNext]_allVars => ShownInv'
  BY ShownStep
<1>3. ShownInv => VisibleIsLogged
  <2>1. ASSUME ShownInv, NEW k \in Keys, store[k] # Missing
        PROVE  \E i \in DOMAIN Readable(file) : file[i].kind = "commit" /\ file[i].value = store[k]
    <3>1. Readable(file) = file
      BY <2>1 DEF ShownInv, DurInv, FlusherOnlyOK, Readable, ToSet
    <3>2. store[k] \in LoggedCommits
      BY <2>1 DEF ShownInv, Stores
    <3>3. PICK e \in ToSet(file) : e.kind = "commit" /\ e.value = store[k]
      BY <3>2 DEF LoggedCommits
    <3>4. PICK i \in DOMAIN file : file[i] = e
      BY <3>3 DEF ToSet
    <3>. QED
      BY <3>1, <3>3, <3>4
  <2>. QED
    BY <2>1 DEF VisibleIsLogged
<1>. QED
  BY <1>1, <1>2, <1>3, PTL DEF CkptSpec

-----------------------------------------------------------------------------
(* A checkpoint on the line, in the world of RecoveryAgrees *)

\* What a transaction has still to apply is in the line, as is its Commit record.
HeldOK ==
    /\ \A c \in Clients : pc[c] # "idle" => ToSet(tx[c].ops) \subseteq ToSet(Line)
    /\ \A c \in Clients : pc[c] \in {"committing", "applying"} => tx[c].id \in Commits(Line)

\* Nothing of a transaction comes behind its Commit record.
CommitsLastOK ==
    \A i, j \in 1..Len(Line) :
        Line[i].kind = "commit" /\ Line[j].tx = Line[i].tx => j <= i

\* A batch that is being written is what of the file is not on disk.
ReachOK == writing # Nobody => synced = Len(file) - Len(batch[writing])

\* A Commit record that is not on disk is that of a client inside its flush().
UnsyncedOK ==
    \A i \in 1..Len(Line) : Line[i].kind = "commit" /\ synced < i =>
        \E c \in Clients : pc[c] = "committing" /\ tx[c].id = Line[i].tx

LineTail == HeldOK /\ CommitsLastOK /\ ReachOK /\ UnsyncedOK

LEMMA CommitsIs ==
    ASSUME NEW s \in Seq(Records), NEW t
    PROVE  t \in Commits(s) <=> \E i \in 1..Len(s) : s[i].kind = "commit" /\ s[i].tx = t
BY DEF Commits

\* A crash apart, the line only grows.
LEMMA LineGrows ==
    ASSUME NEW s \in Seq(Records), NEW e \in Records
    PROVE  /\ ToSet(s) \subseteq ToSet(Append(s, e)) /\ e \in ToSet(Append(s, e))
           /\ Commits(s) \subseteq Commits(Append(s, e))
<1>1. ToSet(Append(s, e)) = ToSet(s) \cup {e}
  BY AppendElements
<1>2. Commits(s) \subseteq Commits(Append(s, e))
  BY CommitsAppend
<1>. QED
  BY <1>1, <1>2

LEMMA HeldStep ==
    ASSUME Base, Steady, OpsOK, HeldOK, [Next]_vars
    PROVE  HeldOK'
<1>0. Typed /\ Line \in Seq(Records)
  BY LineIn DEF Base, OutInv, IdsInv
<1>1. CASE Cut \/ Recovers
  BY <1>1, NoneUnderWay DEF HeldOK
<1>2. CASE Calm
  BY <1>2 DEF Calm, Settles, HeldOK
<1>3. ASSUME NEW c \in Clients, Begins(c) PROVE HeldOK'
  <2>1. /\ pc'[c] = "active" /\ tx'[c].ops = <<>> /\ Line' = Line
        /\ \A o \in Clients \ {c} : pc'[o] = pc[o] /\ tx'[o] = tx[o]
    BY <1>3, BeginsNew
  <2>. QED
    BY <2>1, NothingElements DEF HeldOK
<1>4. ASSUME NEW c \in Clients, Applies(c) PROVE HeldOK'
  BY <1>4, AppliesNew DEF HeldOK
<1>5. ASSUME NEW c \in Clients, NEW op \in NewOps(c), Buffers(c, op) PROVE HeldOK'
  <2>1. /\ op \in Records /\ Line' = Append(Line, op) /\ pc' = pc
        /\ tx[c].ops \in Seq(Records) /\ tx'[c].id = tx[c].id /\ tx'[c].ops = Append(tx[c].ops, op)
        /\ \A o \in Clients \ {c} : tx'[o] = tx[o]
    BY <1>5, BuffersNew
  <2>2. ToSet(Append(tx[c].ops, op)) = ToSet(tx[c].ops) \cup {op}
    BY <2>1, AppendElements
  <2>3. /\ ToSet(Line) \subseteq ToSet(Line') /\ op \in ToSet(Line')
        /\ Commits(Line) \subseteq Commits(Line')
    BY <1>0, <2>1, LineGrows
  <2>. QED
    BY <2>1, <2>2, <2>3 DEF HeldOK
<1>6. ASSUME NEW c \in Clients, NEW kind \in {"commit", "abort"}, Ends(c, kind) PROVE HeldOK'
  <2> DEFINE e == EndRecord(tx[c], kind)
  <2>1. /\ e \in Records /\ e.tx = tx[c].id /\ Line' = Append(Line, e) /\ tx' = tx
        /\ pc[c] = "active" /\ pc'[c] = IF kind = "commit" THEN "committing" ELSE "aborting"
        /\ \A o \in Clients \ {c} : pc'[o] = pc[o]
    BY <1>6, EndsNew
  <2>2. e.kind = kind
    BY DEF EndRecord
  <2>. HIDE DEF e
  <2>3. ToSet(Line) \subseteq ToSet(Line') /\ Commits(Line) \subseteq Commits(Line')
    BY <1>0, <2>1, LineGrows
  <2>4. kind = "commit" => tx[c].id \in Commits(Line')
    BY <1>0, <2>1, <2>2, CommitsAppend
  <2>. QED
    BY <2>1, <2>3, <2>4 DEF HeldOK
<1>. QED
  BY <1>1, <1>2, <1>3, <1>4, <1>5, <1>6, LineCases

\* A record joins a line in which its transaction has no Commit record.
LEMMA CommitsLastAppend ==
    ASSUME Base, CommitsLastOK, NEW e \in Records, e.tx \notin Commits(Line), Line' = Append(Line, e)
    PROVE  CommitsLastOK'
<1> DEFINE n == Len(Line)
<1>1. /\ Line \in Seq(Records) /\ n \in Nat /\ Len(Line') = n + 1 /\ Line'[n + 1] = e
      /\ \A i \in 1..n : Line'[i] = Line[i]
  BY LineIn, AppendProperties
<1>2. ASSUME NEW i \in 1..(n + 1), NEW j \in 1..(n + 1), Line'[i].kind = "commit",
             Line'[j].tx = Line'[i].tx, ~(j <= i)
      PROVE  FALSE
  <2>1. i \in 1..n /\ Line[i].kind = "commit" /\ Line[i].tx \in Commits(Line)
    BY <1>1, <1>2 DEF Commits
  <2>2. j # n + 1
    BY <1>1, <1>2, <2>1
  <2>3. j \in 1..n
    BY <1>1, <2>2
  <2>. QED
    BY <1>1, <1>2, <2>1, <2>3 DEF CommitsLastOK
<1>. QED
  BY <1>1, <1>2 DEF CommitsLastOK

LEMMA CommitsLastStep ==
    ASSUME Base, Steady, CommitsLastOK, [Next]_vars
    PROVE  CommitsLastOK'
<1>1. CASE UNCHANGED Line
  BY <1>1 DEF CommitsLastOK
<1>2. CASE Cut
  <2>1. PICK k \in 0..Len(Line) : Line' = SubSeq(Line, 1, k)
    BY <1>2 DEF Cut
  <2>2. /\ Len(Line') = k /\ \A i \in 1..k : Line'[i] = Line[i]
        /\ 1..k \subseteq 1..Len(Line)
    BY <2>1, LineIn, SubSeqProperties
  <2>. QED
    BY <2>2 DEF CommitsLastOK
<1>3. ASSUME NEW c \in Clients, NEW op \in NewOps(c), Buffers(c, op) PROVE CommitsLastOK'
  BY <1>3, BuffersNew, ActiveUncommitted, CommitsLastAppend
<1>4. ASSUME NEW c \in Clients, NEW kind \in {"commit", "abort"}, Ends(c, kind) PROVE CommitsLastOK'
  <2> DEFINE e == EndRecord(tx[c], kind)
  <2>1. e \in Records /\ e.tx \notin Commits(Line) /\ Line' = Append(Line, e)
    BY <1>4, EndsNew, ActiveUncommitted
  <2>. HIDE DEF e
  <2>. QED
    BY <2>1, CommitsLastAppend
<1>. QED
  BY <1>1, <1>2, <1>3, <1>4, LineCases DEF Recovers, Calm, Begins, Applies

\* Only the flusher writes, and what is on disk grows until a crash; a flush()
\* returns, and a process starts, with nothing that is not.
SyncMoves ==
    \/ synced' = Len(Line')
    \/ synced <= synced' /\ \A c \in Clients :
          pc[c] = "committing" => pc'[c] = "committing" /\ tx'[c].id = tx[c].id

LEMMA SyncStep ==
    ASSUME Base, Steady, ReachOK, [Next]_vars
    PROVE  ReachOK' /\ SyncMoves
<1>. USE DrainersAre
<1>0. /\ OutInv /\ DurInv /\ Typed /\ FlusherOnlyOK /\ CarriedOK
      /\ ~PollsMayExpire /\ ~TornWrites /\ ~(errors < MaxIoErrors)
      /\ synced \in 0..Len(file) /\ Len(file) \in Nat /\ file \in Seq(Records)
  <2>1. OutInv /\ DurInv /\ Typed /\ FlusherOnlyOK /\ CarriedOK
    BY DEF Base, OutInv, IdsInv, DurInv
  <2>2. ~PollsMayExpire /\ ~TornWrites /\ ~(errors < MaxIoErrors)
    BY DEF Base, DurInv, Steady, Punctual, PollsMayExpire
  <2>3. synced \in 0..Len(file) /\ Len(file) \in Nat /\ file \in Seq(Records)
    BY <2>1, LineTypes DEF Typed, LogTyped
  <2>. QED
    BY <2>1, <2>2, <2>3
<1>1. ASSUME UNCHANGED <<batch, writing, file, synced>>,
             \A c \in Clients : pc[c] = "committing" => pc'[c] = "committing" /\ tx'[c].id = tx[c].id
      PROVE  ReachOK' /\ SyncMoves
  BY <1>0, <1>1 DEF ReachOK, SyncMoves
<1>2. ASSUME Recover \/ UNCHANGED vars PROVE ReachOK' /\ SyncMoves
  BY <1>0, <1>1, <1>2 DEF Recover, vars, walVars
<1>3. CASE Crash
  <2>1. PICK k \in 0..Len(file) : file' = SubSeq(file, 1, k)
    BY <1>0, <1>3 DEF Crash
  <2>2. file' \in Seq(Records)
    BY <1>0, <2>1, SubSeqProperties
  <2>3. queue' = <<>> /\ Unwritten' = <<>> /\ writing' = Nobody /\ synced' = Len(file')
    BY <1>0, <1>3, DatabaseAssumption DEF Crash, Unwritten, Drainers
  <2>4. Line' = file'
    BY <2>2, <2>3 DEF Line
  <2>. QED
    BY <2>3, <2>4 DEF ReachOK, SyncMoves
<1>4. ASSUME NEW c \in Clients,
             Begin(c) \/ AppendOp(c) \/ AddEntry(c) \/ CommitCall(c) \/ AbortCall(c) \/ GiveUp(c)
             \/ CommitOk(c) \/ Apply(c)
      PROVE  ReachOK' /\ SyncMoves
  <2>1. UNCHANGED <<batch, writing, file, synced>>
    BY <1>4 DEF Begin, AppendOp, AddEntry, CommitCall, AbortCall, GiveUp, CommitOk, Apply, Wal!Push, walVars
  <2>2. \A o \in Clients \ {c} : pc'[o] = pc[o] /\ tx'[o] = tx[o]
    BY <1>0, <1>4 DEF Begin, AppendOp, AddEntry, CommitCall, AbortCall, GiveUp, CommitOk, Apply, Buffer, Typed
  <2>3. pc[c] # "committing"
    BY <1>4 DEF Begin, AppendOp, AddEntry, CommitCall, AbortCall, GiveUp, CommitOk, Apply, Buffer
  <2>. QED
    BY <1>1, <2>1, <2>2, <2>3
<1>5. ASSUME NEW c \in Clients, FlushOk(c) PROVE ReachOK' /\ SyncMoves
  <2>1. /\ queue = <<>> /\ batch[Flusher] = <<>>
        /\ UNCHANGED <<queue, batch, writing, file, synced>>
    BY <1>0, <1>5 DEF FlushOk, Wal!Ack, Wal!log, Drainers
  <2>2. writing = Nobody /\ synced = Len(file)
    BY <1>0, <2>1 DEF FlusherOnlyOK
  <2>3. Line = file
    BY <1>0, <2>1, LineDown, NothingElements
  <2>4. Line' = Line
    BY <2>1 DEF Line, Unwritten
  <2>. QED
    BY <2>1, <2>2, <2>3, <2>4 DEF ReachOK, SyncMoves
<1>6. ASSUME NEW c \in Clients, FlushErr(c) PROVE FALSE
  BY <1>0, <1>6 DEF FlushErr
<1>7. ASSUME FlusherFail PROVE FALSE
  BY <1>0, <1>7 DEF FlusherFail
<1>8. ASSUME NEW d \in Drainers, Drain(d) PROVE ReachOK' /\ SyncMoves
  <2>1. d = Flusher /\ UNCHANGED <<pc, tx>> /\ Nobody # Flusher
    BY <1>0, <1>8, DatabaseAssumption DEF Drain, MayDrain, Drainers
  <2>2. ASSUME Wal!Pop(Flusher) PROVE ReachOK' /\ SyncMoves
    <3>1. writing # Flusher /\ UNCHANGED <<writing, file, synced>>
      BY <2>2 DEF Wal!Pop
    <3>2. writing' = Nobody
      BY <1>0, <3>1 DEF FlusherOnlyOK
    <3>. QED
      BY <1>0, <2>1, <3>1, <3>2 DEF ReachOK, SyncMoves
  <2>3. ASSUME Wal!Write(Flusher) PROVE ReachOK' /\ SyncMoves
    <3>1. /\ writing = Nobody /\ writing' = Flusher /\ file' = file \o batch[Flusher]
          /\ UNCHANGED <<batch, synced>>
      BY <2>3 DEF Wal!Write
    <3>2. synced = Len(file) /\ batch[Flusher] \in Seq(Records)
      BY <1>0, <3>1 DEF FlusherOnlyOK, Typed, LogTyped, Drainers
    <3>3. Len(file') = Len(file) + Len(batch[Flusher]) /\ Len(batch[Flusher]) \in Nat
      BY <1>0, <3>1, <3>2, ConcatProperties
    <3>. QED
      BY <1>0, <2>1, <3>1, <3>2, <3>3 DEF ReachOK, SyncMoves
  <2>4. ASSUME Wal!Sync(Flusher) PROVE ReachOK' /\ SyncMoves
    <3>1. writing' = Nobody /\ synced' = Len(file)
      BY <2>4 DEF Wal!Sync
    <3>. QED
      BY <1>0, <2>1, <3>1 DEF ReachOK, SyncMoves
  <2>. QED
    BY <1>8, <2>1, <2>2, <2>3, <2>4 DEF Drain
<1>. QED
  BY <1>2, <1>3, <1>4, <1>5, <1>6, <1>7, <1>8 DEF Next, Elsewhere

LEMMA UnsyncedStep ==
    ASSUME Base, Steady, ReachOK, UnsyncedOK, [Next]_vars
    PROVE  UnsyncedOK'
<1>0. Line \in Seq(Records) /\ Len(Line) \in Nat
  BY LineIn
<1>0a. synced \in Nat /\ synced' \in Nat
  <2>1. synced \in Nat
    BY DEF Base, DurInv, Typed, LogTyped
  <2>2. Typed'
    BY TypedStep DEF Base, DurInv
  <2>. QED
    BY <2>1, <2>2 DEF Typed, LogTyped
<1>1. CASE synced' = Len(Line')
  <2>1. \A i \in 1..Len(Line') : ~(synced' < i)
    BY <1>0a, <1>1
  <2>. QED
    BY <2>1 DEF UnsyncedOK
<1>2. SUFFICES ASSUME synced <= synced',
                      \A c \in Clients : pc[c] = "committing" =>
                          pc'[c] = "committing" /\ tx'[c].id = tx[c].id
               PROVE  UnsyncedOK'
  BY <1>1, SyncStep DEF SyncMoves
<1>3. ASSUME NEW i \in 1..Len(Line), Line'[i] = Line[i], Line'[i].kind = "commit", synced' < i
      PROVE  \E c \in Clients : pc'[c] = "committing" /\ tx'[c].id = Line'[i].tx
  <2>1. synced < i
    BY <1>0, <1>0a, <1>2, <1>3
  <2>2. PICK c \in Clients : pc[c] = "committing" /\ tx[c].id = Line[i].tx
    BY <1>3, <2>1 DEF UnsyncedOK
  <2>. QED
    BY <1>2, <1>3, <2>2
<1>4. CASE UNCHANGED Line
  BY <1>3, <1>4 DEF UnsyncedOK
<1>5. CASE Cut
  <2>1. PICK k \in 0..Len(Line) : Line' = SubSeq(Line, 1, k)
    BY <1>5 DEF Cut
  <2>2. /\ Len(Line') = k /\ \A i \in 1..k : Line'[i] = Line[i]
        /\ 1..k \subseteq 1..Len(Line)
    BY <2>1, LineIn, SubSeqProperties
  <2>. QED
    BY <1>3, <2>2 DEF UnsyncedOK
<1>6. ASSUME NEW e \in Records, Line' = Append(Line, e),
             e.kind = "commit" => \E c \in Clients : pc'[c] = "committing" /\ tx'[c].id = e.tx
      PROVE  UnsyncedOK'
  <2> DEFINE n == Len(Line)
  <2>1. Len(Line') = n + 1 /\ Line'[n + 1] = e /\ \A i \in 1..n : Line'[i] = Line[i]
    BY <1>0, <1>6, AppendProperties
  <2>2. \A i \in 1..(n + 1) : i \in 1..n \/ i = n + 1
    BY <1>0
  <2>. QED
    BY <1>3, <1>6, <2>1, <2>2 DEF UnsyncedOK
<1>7. ASSUME NEW c \in Clients, NEW op \in NewOps(c), Buffers(c, op) PROVE UnsyncedOK'
  <2>1. op \in Records /\ IsOp(op) /\ Line' = Append(Line, op)
    BY <1>7, BuffersNew
  <2>2. op.kind # "commit"
    BY <2>1 DEF IsOp, OpKinds
  <2>. QED
    BY <1>6, <2>1, <2>2
<1>8. ASSUME NEW c \in Clients, NEW kind \in {"commit", "abort"}, Ends(c, kind) PROVE UnsyncedOK'
  <2> DEFINE e == EndRecord(tx[c], kind)
  <2>1. /\ e \in Records /\ e.tx = tx[c].id /\ Line' = Append(Line, e) /\ tx' = tx
        /\ pc'[c] = IF kind = "commit" THEN "committing" ELSE "aborting"
    BY <1>8, EndsNew
  <2>2. e.kind = kind
    BY DEF EndRecord
  <2>. HIDE DEF e
  <2>. QED
    BY <1>6, <2>1, <2>2
<1>. QED
  BY <1>4, <1>5, <1>7, <1>8, LineCases DEF Recovers, Calm, Begins, Applies
-----------------------------------------------------------------------------
(* What a reader has found *)

\* The transactions some reader has found committed.
Shown == Commits(SubSeq(Line, 1, shown))

\* What is in a first part of a sequence.
LEMMA PartCommits ==
    ASSUME NEW s \in Seq(Records), NEW n \in 0..Len(s)
    PROVE  /\ SubSeq(s, 1, n) \in Seq(Records) /\ Len(SubSeq(s, 1, n)) = n
           /\ \A i \in 1..n : SubSeq(s, 1, n)[i] = s[i]
           /\ Commits(SubSeq(s, 1, n)) =
                 { s[i].tx : i \in { j \in 1..n : s[j].kind = "commit" } }
           /\ Commits(SubSeq(s, 1, n)) \subseteq Commits(s)
<1> DEFINE p == SubSeq(s, 1, n)
<1>1. /\ p \in Seq(Records) /\ Len(p) = n /\ \A i \in 1..n : p[i] = s[i]
      /\ Len(s) \in Nat /\ 1..n \subseteq 1..Len(s)
  BY SubSeqProperties
<1>. HIDE DEF p
<1>2. Commits(p) = { s[i].tx : i \in { j \in 1..n : s[j].kind = "commit" } }
  BY <1>1 DEF Commits
<1>3. Commits(p) \subseteq Commits(s)
  BY <1>1, <1>2 DEF Commits
<1>. QED
  BY <1>1, <1>2, <1>3 DEF p

LEMMA PartGrows ==
    ASSUME NEW s \in Seq(Records), NEW n \in 0..Len(s), NEW m \in 0..n
    PROVE  Commits(SubSeq(s, 1, m)) \subseteq Commits(SubSeq(s, 1, n))
<1>1. m \in 0..Len(s) /\ 1..m \subseteq 1..n
  OBVIOUS
<1>2. Commits(SubSeq(s, 1, n)) = { s[i].tx : i \in { j \in 1..n : s[j].kind = "commit" } }
  BY PartCommits
<1>3. Commits(SubSeq(s, 1, m)) = { s[i].tx : i \in { j \in 1..m : s[j].kind = "commit" } }
  BY <1>1, PartCommits
<1>. QED
  BY <1>1, <1>2, <1>3

LEMMA PartAppend ==
    ASSUME NEW s \in Seq(Records), NEW e \in Records, NEW n \in 0..Len(s)
    PROVE  SubSeq(Append(s, e), 1, n) = SubSeq(s, 1, n)
BY SubSeqProperties

\* The line begins with the file.
LEMMA FileInLine ==
    ASSUME Base
    PROVE  /\ Len(file) \in 0..Len(Line) /\ file \in Seq(Records)
           /\ \A n \in 0..Len(file) : SubSeq(Line, 1, n) = SubSeq(file, 1, n)
<1> DEFINE rest == Unwritten \o queue
<1>1. file \in Seq(Records) /\ rest \in Seq(Records) /\ Line = file \o rest
  BY LineTypes DEF Base, Line
<1>. HIDE DEF rest
<1>2. Len(file) \in 0..Len(Line)
  <2>1. Len(Line) = Len(file) + Len(rest) /\ Len(file) \in Nat /\ Len(rest) \in Nat
    BY <1>1, ConcatProperties
  <2>. QED
    BY <2>1
<1>3. \A n \in 0..Len(file) : SubSeq(file \o rest, 1, n) = SubSeq(file, 1, n)
  BY <1>1, PrefixOfConcat
<1>. QED
  BY <1>1, <1>2, <1>3

\* A file that is whole, or cut behind a whole record.
LEMMA CleanRead ==
    ASSUME NEW p \in Seq(Records)
    PROVE  /\ Readable(p) = p /\ Whole(p) = Len(p)
           /\ Readable(p \o <<Torn>>) = p /\ Whole(p \o <<Torn>>) = Len(p)
<1> DEFINE q == Append(p, Torn)
           n == Len(p)
<1>0. Torn \notin Records /\ n \in Nat /\ \A i \in 1..n : p[i] # Torn
  BY DatabaseAssumption
<1>1. p \o <<Torn>> = q
  OBVIOUS
<1>2. /\ Len(q) = n + 1 /\ q[n + 1] = Torn /\ \A i \in 1..n : q[i] = p[i]
      /\ q # <<>> /\ SubSeq(q, 1, n) = p /\ DOMAIN q = 1..(n + 1)
  OBVIOUS
<1>3. Readable(p) = p
  BY <1>0 DEF Readable
<1>4. Whole(p) = Len(p)
  <2>1. p # <<>> => Last(p) = p[n] /\ n \in 1..n
    BY DEF Last
  <2>. QED
    BY <1>0, <2>1 DEF Whole
<1>5. Whole(q) = n
  <2>1. Last(q) = Torn
    BY <1>2 DEF Last
  <2>. HIDE DEF q
  <2>. QED
    BY <1>0, <1>2, <2>1 DEF Whole
<1>6. Readable(q) = p
  <2> DEFINE bad == { i \in DOMAIN q : q[i] = Torn }
  <2>1. bad = {n + 1}
    <3>. HIDE DEF q
    <3>1. \A i : i \in bad <=> i \in 1..(n + 1) /\ q[i] = Torn
      BY <1>2
    <3>2. \A i \in 1..(n + 1) : i \in 1..n \/ i = n + 1
      BY <1>0
    <3>3. n + 1 \in 1..(n + 1)
      BY <1>0
    <3>. QED
      BY <1>0, <1>2, <3>1, <3>2, <3>3
  <2>2. PICK m \in Nat : m = Min(bad) /\ m \in bad
    <3>1. bad \in SUBSET Nat /\ bad # {}
      BY <1>0, <2>1
    <3>. HIDE DEF bad
    <3>. QED
      BY <3>1, MinOfNaturals
  <2>3. m = n + 1 /\ m - 1 = n
    <3>1. m \in {n + 1}
      BY <2>1, <2>2, Zenon
    <3>. HIDE DEF bad, q
    <3>. QED
      BY <1>0, <3>1
  <2>4. Readable(q) = SubSeq(q, 1, m - 1)
    BY <2>1, <2>2, Zenon DEF Readable
  <2>. QED
    BY <1>2, <2>3, <2>4
<1>. QED
  BY <1>1, <1>3, <1>4, <1>5, <1>6

\* A reader finds the line up to a place no reader has been behind, and nothing
\* that is on disk is missing.
LEMMA VisiblePart ==
    ASSUME Base, WritingOK, ReachOK, shown \in 0..Len(file), NEW f \in Visible
    PROVE  /\ Whole(f) \in 0..Len(file) /\ shown <= Whole(f) /\ synced <= Whole(f)
           /\ Readable(f) = SubSeq(Line, 1, Whole(f))
<1>1. /\ Typed /\ FlusherOnlyOK /\ file \in Seq(Records) /\ Len(file) \in Nat
      /\ synced \in 0..Len(file)
  BY FileInLine DEF Base, DurInv, Typed, LogTyped
<1>2. PICK m \in 0..Len(file) :
         /\ \/ f = SubSeq(file, 1, m)
            \/ m < Len(file) /\ f = SubSeq(file, 1, m) \o <<Torn>>
         /\ IF writing = Nobody THEN m = Len(file) ELSE Len(file) - Len(batch[writing]) <= m
  BY <1>1, VisibleIs
<1> DEFINE p == SubSeq(file, 1, m)
<1>3. p \in Seq(Records) /\ Len(p) = m
  BY <1>1, SubSeqProperties
<1>4. Readable(f) = p /\ Whole(f) = m
  <2>1. f = p \/ f = p \o <<Torn>>
    BY <1>2
  <2>. HIDE DEF p
  <2>. QED
    BY <1>3, <2>1, CleanRead
<1>5. synced <= m
  BY <1>1, <1>2 DEF ReachOK
<1>6. shown <= m
  <2>1. CASE writing = Nobody
    BY <1>1, <1>2, <2>1
  <2>2. CASE writing # Nobody
    <3>1. Whole(f) >= shown
      BY <2>2 DEF Visible
    <3>. QED
      BY <1>4, <3>1
  <2>. QED
    BY <2>1, <2>2
<1>7. SubSeq(Line, 1, m) = p
  BY FileInLine
<1>. QED
  BY <1>4, <1>5, <1>6, <1>7

\* The records past the marker of what it has found.
LEMMA SeenIs ==
    ASSUME Base, OrderOK, NEW n \in 0..Len(Line), NEW from \in Nat,
           NEW seen, seen = Newer(SubSeq(Line, 1, n), from)
    PROVE  /\ seen \in Seq(Records) /\ InOrder(seen)
           /\ CommittedIds(seen) = { t \in Commits(SubSeq(Line, 1, n)) : t > from }
<1> DEFINE part == SubSeq(Line, 1, n)
<1>1. /\ part \in Seq(Records) /\ InOrder(part) /\ ToSet(part) \subseteq Kept
      /\ \A r \in Records : r.tx \in Nat
  <2>1. Line \in Seq(Records) /\ ToSet(Line) \subseteq Kept
    BY LineTypes DEF Base
  <2>2. part \in Seq(Records) /\ Len(part) = n /\ \A i \in 1..n : part[i] = Line[i]
    BY <2>1, PartCommits
  <2>3. InOrder(part)
    BY <2>1, InOrderPrefix DEF OrderOK
  <2>4. ToSet(part) \subseteq ToSet(Line)
    <3>1. 1..n \subseteq 1..Len(Line)
      BY <2>1
    <3>. HIDE DEF part
    <3>. QED
      BY <2>1, <2>2, <3>1 DEF ToSet
  <2>. QED
    BY <2>1, <2>2, <2>3, <2>4 DEF Records
<1>. HIDE DEF part
<1>2. seen \in Seq(Records) /\ ToSet(seen) = { r \in ToSet(part) : r.tx > from }
  BY <1>1, NewerIs DEF part
<1>3. InOrder(seen)
  BY <1>1, NewerInOrder DEF part
<1>4. CommittedIds(seen) = Commits(seen)
  BY <1>1, <1>2, CommitsAre DEF Base
<1>5. ASSUME NEW s \in Seq(Records), NEW t
      PROVE  t \in Commits(s) <=> \E r \in ToSet(s) : r.kind = "commit" /\ r.tx = t
  BY CommitsIs DEF ToSet
<1>6. \A t : t \in Commits(seen) <=> t \in Commits(part) /\ t > from
  BY <1>1, <1>2, <1>5
<1>. QED
  BY <1>2, <1>3, <1>4, <1>6 DEF part

-----------------------------------------------------------------------------
(* What the store lacks of a commit that no reader has found *)

\* A client inside its flush() whose Commit record no reader has found has
\* nothing in the store yet: its keys are what replay makes of the others.
UnappliedOK ==
    \A c \in Clients : pc[c] = "committing" /\ tx[c].id \notin Shown =>
        \A k \in KeysOf[c] : Leaves(Line, Commits(Line) \ {tx[c].id}, k, Missing, store[k])

\* Replay leaves the same for two sets of transactions with the same writes.
LEMMA SameWrites ==
    ASSUME NEW s, NEW ids, NEW jds, NEW k, NEW old, NEW v,
           Writes(s, ids, k) = Writes(s, jds, k), Leaves(s, ids, k, old, v)
    PROVE  Leaves(s, jds, k, old, v)
BY DEF Leaves, LastWrite, Writes

\* What was found committed stays, until a crash.
LEMMA LineShown ==
    ASSUME Base, Steady, shown \in 0..Len(file), shown' = shown, [Next]_vars, ~Crash
    PROVE  Shown' = Shown
<1>1. Line \in Seq(Records) /\ shown \in 0..Len(Line)
  <2>1. Len(file) \in 0..Len(Line) /\ Line \in Seq(Records)
    BY LineIn, FileInLine
  <2>. QED
    BY <2>1
<1>2. ASSUME NEW e \in Records, Line' = Append(Line, e) PROVE Shown' = Shown
  BY <1>1, <1>2, PartAppend DEF Shown
<1>3. CASE Line' = Line
  BY <1>3 DEF Shown
<1>4. ASSUME NEW c \in Clients, NEW op \in NewOps(c), Buffers(c, op) PROVE Shown' = Shown
  BY <1>2, <1>4, BuffersNew
<1>5. ASSUME NEW c \in Clients, NEW kind \in {"commit", "abort"}, Ends(c, kind) PROVE Shown' = Shown
  BY <1>2, <1>5, EndsNew
<1>. QED
  BY <1>3, <1>4, <1>5, LineCases DEF Cut, Recovers, Calm, Begins, Applies

\* Nobody else writes a client's keys.
LEMMA OthersKeys ==
    ASSUME Base, Steady, OwnedOK, NEW c \in Clients, pc[c] # "idle", NEW o \in Clients, o # c,
           NEW k \in KeysOf[o], NEW ids
    PROVE  Writes(Line, ids \cup {tx[c].id}, k) = Writes(Line, ids, k)
<1>1. Len(Line) \in Nat /\ k \notin KeysOf[c]
  BY LineIn DEF Steady
<1>2. \A i \in 1..Len(Line) : IsOp(Line[i]) /\ Line[i].tx = tx[c].id => Line[i].key # k
  BY <1>1 DEF OwnedOK
<1>. QED
  BY <1>2 DEF Writes, WritesTo

\* A commit() that begins has its keys as replay left them; others do not write them.
LEMMA UnappliedEnds ==
    ASSUME Base, Steady, OrderInv, RebuiltOK, UnappliedOK, Shown' = Shown,
           NEW c \in Clients, NEW kind \in {"commit", "abort"}, Ends(c, kind)
    PROVE  UnappliedOK'
<1> DEFINE e == EndRecord(tx[c], kind)
           t == tx[c].id
<1>1. /\ e \in Records /\ ~IsOp(e) /\ e.tx = t /\ Line' = Append(Line, e) /\ UNCHANGED <<mode, store, tx>>
      /\ pc[c] = "active" /\ pc'[c] = IF kind = "commit" THEN "committing" ELSE "aborting"
      /\ \A o \in Clients \ {c} : pc'[o] = pc[o]
  BY EndsNew
<1>2. t \notin Commits(Line)
  BY <1>1, ActiveUncommitted
<1>3. Commits(Line') = IF e.kind = "commit" THEN Commits(Line) \cup {t} ELSE Commits(Line)
  BY <1>1, LineIn, CommitsAppend
<1>4. e.kind = kind
  BY DEF EndRecord
<1>. HIDE DEF e
<1>5. ASSUME NEW k \in KeysOf[c], kind = "commit"
      PROVE  Leaves(Line', Commits(Line') \ {t}, k, Missing, store'[k])
  <2>1. mode = "up" /\ k \in Keys
    BY <1>1, DatabaseAssumption DEF Base, OutInv, IdsInv, Typed, CarriedOK
  <2>2. PICK v : Rebuilt(k, v)
    BY <2>1 DEF RebuiltOK
  <2>3. Leaves(Line, Commits(Line), k, Missing, v)
    BY <2>2 DEF Rebuilt
  <2>4. Leaves(<<>>, {t}, k, store[k], v)
    BY <1>1, <2>2 DEF Rebuilt, Pending
  <2>5. v = store[k]
    BY <2>4, NothingLeaves
  <2>6. Commits(Line') \ {t} = Commits(Line)
    BY <1>2, <1>3, <1>4, <1>5
  <2>7. Leaves(Append(Line, e), Commits(Line), k, Missing, v)
    BY <1>1, <2>3, ReplayUnmoved
  <2>. QED
    BY <1>1, <2>5, <2>6, <2>7
<1>6. ASSUME NEW o \in Clients, o # c, pc[o] = "committing", tx[o].id \notin Shown, NEW k \in KeysOf[o]
      PROVE  Leaves(Line', Commits(Line') \ {tx[o].id}, k, Missing, store'[k])
  <2> DEFINE ids == Commits(Line) \ {tx[o].id}
             jds == Commits(Line') \ {tx[o].id}
  <2>1. Leaves(Line, ids, k, Missing, store[k])
    BY <1>6 DEF UnappliedOK
  <2>2. tx[o].id # t
    BY <1>1, <1>6 DEF Base, OutInv, IdsInv, CounterOK
  <2>3. jds = ids \/ jds = ids \cup {t}
    BY <1>3, <2>2
  <2>. HIDE DEF ids, jds
  <2>4. Writes(Line, ids \cup {t}, k) = Writes(Line, ids, k)
    <3>1. pc[c] # "idle" /\ OwnedOK
      BY <1>1 DEF OrderInv
    <3>. QED
      BY <1>6, <3>1, OthersKeys
  <2>5. Writes(Line, ids, k) = Writes(Line, jds, k)
    BY <2>3, <2>4
  <2>6. Leaves(Line, jds, k, Missing, store[k])
    BY <2>1, <2>5, SameWrites
  <2>7. Leaves(Append(Line, e), jds, k, Missing, store[k])
    BY <1>1, <2>6, ReplayUnmoved
  <2>. QED
    BY <1>1, <2>7 DEF jds
<1>. HIDE DEF t
<1>7. ASSUME NEW o \in Clients, pc'[o] = "committing", tx'[o].id \notin Shown', NEW k \in KeysOf[o]
      PROVE  Leaves(Line', Commits(Line') \ {tx'[o].id}, k, Missing, store'[k])
  <2>1. CASE o = c
    <3>1. kind = "commit" /\ tx'[o].id = t
      BY <1>1, <1>7, <2>1 DEF t
    <3>. QED
      BY <1>5, <1>7, <2>1, <3>1
  <2>2. CASE o # c
    <3>1. pc[o] = "committing" /\ tx' = tx
      BY <1>1, <1>7, <2>2
    <3>. QED
      BY <1>6, <1>7, <2>2, <3>1
  <2>. QED
    BY <2>1, <2>2
<1>. QED
  BY <1>7 DEF UnappliedOK

LEMMA UnappliedStep ==
    ASSUME Base, Steady, OrderInv, RebuiltOK, UnappliedOK, ~Crash => Shown' = Shown, [Next]_vars
    PROVE  UnappliedOK'
<1>0. OpsOK
  BY DEF OrderInv
<1>1. CASE Cut \/ Recovers
  BY <1>1, NoneUnderWay DEF UnappliedOK
<1>2. CASE Crash
  BY <1>2 DEF Crash, UnappliedOK
<1>3. SUFFICES ASSUME ~Crash PROVE UnappliedOK'
  BY <1>2
<1>4. Shown' = Shown
  BY <1>3
<1>5. CASE Calm
  BY <1>4, <1>5 DEF Calm, Settles, UnappliedOK
<1>6. ASSUME NEW c \in Clients, Begins(c) PROVE UnappliedOK'
  <2>1. /\ pc'[c] = "active" /\ UNCHANGED <<mode, store>> /\ Line' = Line
        /\ \A o \in Clients \ {c} : pc'[o] = pc[o] /\ tx'[o] = tx[o]
    BY <1>6, BeginsNew
  <2>. QED
    BY <1>4, <2>1 DEF UnappliedOK
<1>7. ASSUME NEW c \in Clients, Applies(c) PROVE UnappliedOK'
  <2> DEFINE op == Head(tx[c].ops)
  <2>1. /\ pc[c] = "applying" /\ pc' = pc /\ Line' = Line /\ store' = Upsert(store, op)
        /\ op \in ToSet(tx[c].ops) /\ \A o \in Clients \ {c} : tx'[o] = tx[o]
    BY <1>0, <1>7, AppliesNew
  <2>2. op.key \in KeysOf[c]
    BY <1>0, <2>1 DEF OpsOK
  <2>3. \A o \in Clients \ {c} : \A k \in KeysOf[o] : store'[k] = store[k]
    <3>1. \A o \in Clients \ {c} : \A k \in KeysOf[o] : k # op.key /\ k \in Keys
      BY <2>2, DatabaseAssumption DEF Steady
    <3>2. store \in [Keys -> Settled \cup {Missing}]
      BY DEF Base, StoreOK, Stores
    <3>. HIDE DEF op
    <3>. QED
      BY <2>1, <3>1, <3>2 DEF Upsert
  <2>. QED
    BY <1>4, <2>1, <2>3 DEF UnappliedOK
<1>8. ASSUME NEW c \in Clients, NEW op \in NewOps(c), Buffers(c, op) PROVE UnappliedOK'
  <2>1. /\ op \in Records /\ IsOp(op) /\ op.tx = tx[c].id /\ pc[c] = "active"
        /\ UNCHANGED <<mode, store, pc>> /\ Line' = Append(Line, op)
        /\ \A o \in Clients \ {c} : tx'[o] = tx[o]
    BY <1>8, BuffersNew
  <2>2. op.tx \notin Commits(Line) /\ op.kind # "commit"
    BY <2>1, ActiveUncommitted DEF IsOp, OpKinds
  <2>3. Commits(Line') = Commits(Line)
    BY <2>1, <2>2, LineIn, CommitsAppend
  <2>4. ASSUME NEW o \in Clients, pc'[o] = "committing", tx'[o].id \notin Shown', NEW k \in KeysOf[o]
        PROVE  Leaves(Line', Commits(Line') \ {tx'[o].id}, k, Missing, store'[k])
    <3>1. pc[o] = "committing" /\ tx'[o] = tx[o]
      BY <2>1, <2>4
    <3>2. Leaves(Line, Commits(Line) \ {tx[o].id}, k, Missing, store[k])
      BY <1>4, <2>4, <3>1 DEF UnappliedOK
    <3>3. Leaves(Append(Line, op), Commits(Line) \ {tx[o].id}, k, Missing, store[k])
      BY <2>1, <2>2, <3>2, ReplayUnmoved
    <3>. QED
      BY <2>1, <2>3, <3>1, <3>3
  <2>. QED
    BY <2>4 DEF UnappliedOK
<1>9. ASSUME NEW c \in Clients, NEW kind \in {"commit", "abort"}, Ends(c, kind) PROVE UnappliedOK'
  BY <1>4, <1>9, UnappliedEnds
<1>. QED
  BY <1>1, <1>5, <1>6, <1>7, <1>8, <1>9, LineCases
-----------------------------------------------------------------------------
(* What a checkpoint has read *)

\* What checkpoint() waits for the store's lock with.
ReadOK ==
    \A o \in Checkpointers : ckpt[o].at = "locking" =>
        InOrder(ckpt[o].seen) /\ CommittedIds(ckpt[o].seen) \subseteq Shown

\* Some client is about to write key k for transaction t.
AboutTo(t, k) == \E c \in Clients : tx[c].id = t /\ Writes(Pending(c), {t}, k) # {}

\* Of every key the last committed write among these records is in the store, or
\* of a transaction that is about to write it.
Fresh(seen) ==
    \A k \in Keys, r \in ToSet(seen) :
        LastIn(seen, Writes(seen, CommittedIds(seen), k), r) =>
            ValueOf(r) = store[k] \/ AboutTo(r.tx, k)

FreshOK ==
    \A o \in Checkpointers : ckpt[o].at = "locking" /\ o \notin overtaken => Fresh(ckpt[o].seen)

UpOK == \A o \in Checkpointers : ckpt[o].at # "idle" => mode = "up"

QuietInv ==
    /\ CkptInv /\ DurInv /\ OrderInv /\ LineTail /\ UpOK /\ ReadOK
    /\ ~stale => RebuiltOK /\ UnappliedOK /\ FreshOK

\* All of a committed transaction that a reader finds committed is in what it found.
LEMMA GroupWhole ==
    ASSUME Base, CommitsLastOK, NEW n \in 0..Len(Line), NEW i \in 1..Len(Line),
           Line[i].tx \in Commits(SubSeq(Line, 1, n))
    PROVE  i <= n
<1>1. Line \in Seq(Records) /\ n \in Nat /\ Len(Line) \in Nat
  BY LineIn
<1>2. PICK j \in 1..n : Line[j].kind = "commit" /\ Line[j].tx = Line[i].tx
  BY <1>1, PartCommits
<1>3. i <= j
  BY <1>1, <1>2 DEF CommitsLastOK
<1>. QED
  BY <1>1, <1>2, <1>3

\* A transaction that has committed and that a reader does not find committed is
\* inside its flush().
LEMMA NotFound ==
    ASSUME Base, UnsyncedOK, NEW n \in 0..Len(Line), synced <= n,
           NEW t \in Commits(Line), t \notin Commits(SubSeq(Line, 1, n))
    PROVE  \E c \in Clients : pc[c] = "committing" /\ tx[c].id = t
<1>1. Line \in Seq(Records) /\ n \in Nat /\ Len(Line) \in Nat /\ synced \in Nat
  BY LineIn DEF Base, DurInv, Typed, LogTyped
<1>2. PICK j \in 1..Len(Line) : Line[j].kind = "commit" /\ Line[j].tx = t
  BY DEF Commits
<1>3. j \notin 1..n
  BY <1>1, <1>2, PartCommits
<1>4. synced < j
  BY <1>1, <1>3
<1>. QED
  BY <1>2, <1>4 DEF UnsyncedOK

\* If nobody but the transactions a reader finds committed, and those it does
\* not look at, writes a key, it sees the last write of the key.
LEMMA SeesLast ==
    ASSUME Base, OrderOK, CommitsLastOK, NEW n \in 0..Len(Line), NEW from \in Nat,
           NEW seen, seen = Newer(SubSeq(Line, 1, n), from), NEW k,
           NEW C, Commits(SubSeq(Line, 1, n)) \subseteq C,
           \A i \in Writes(Line, C, k) : Line[i].tx \in Commits(SubSeq(Line, 1, n)),
           NEW r, LastIn(seen, Writes(seen, CommittedIds(seen), k), r)
    PROVE  LastIn(Line, Writes(Line, C, k), r)
<1> DEFINE G == Commits(SubSeq(Line, 1, n))
           ids == CommittedIds(seen)
<1>1. Line \in Seq(Records) /\ InOrder(Line) /\ \A e \in Records : e.tx \in Nat
  BY LineIn DEF OrderOK, Records
<1>2. ids = { t \in G : t > from }
  BY SeenIs
<1>3. \A i \in 1..Len(Line) : Line[i].tx \in G => i <= n
  BY GroupWhole
<1>4. G \subseteq C /\ \A i \in Writes(Line, C, k) : Line[i].tx \in G
  OBVIOUS
<1>5. LastIn(seen, Writes(seen, ids, k), r)
  OBVIOUS
<1>. HIDE DEF G, ids
<1>6. ScanFinds(Line, n, from, G, C, k, seen, ids)
  BY <1>2, <1>3, <1>4 DEF ScanFinds, G
<1>. QED
  BY <1>1, <1>4, <1>5, <1>6, ScanLast

\* Of a transaction that is about to write a key, nothing later has written it.
LEMMA LastIsPending ==
    ASSUME Base, OrderInv, HeldOK, NEW c \in Clients, NEW k \in KeysOf[c],
           Writes(Pending(c), {tx[c].id}, k) # {},
           NEW r, LastIn(Line, Writes(Line, Commits(Line), k), r)
    PROVE  r.tx = tx[c].id
<1>1. /\ OrderOK /\ OwnedOK /\ OpsOK /\ Line \in Seq(Records) /\ Len(Line) \in Nat
      /\ \A i \in 1..Len(Line) : Line[i] \in Records
  BY LineIn DEF OrderInv
<1>2. pc[c] \in {"committing", "applying"} /\ Pending(c) = tx[c].ops
  BY DEF Pending, Writes, WritesTo
<1>3. tx[c].ops \in Seq(Records) /\ tx[c].id \in Nat /\ \A e \in Records : e.tx \in Nat
  BY DEF Base, OutInv, IdsInv, Typed, Records
<1>4. PICK op \in ToSet(tx[c].ops) : IsOp(op) /\ op.tx = tx[c].id /\ op.key = k
  BY <1>2, <1>3 DEF Writes, WritesTo, ToSet
<1>5. PICK j \in 1..Len(Line) : Line[j] = op
  <2>1. op \in ToSet(Line)
    BY <1>2, <1>4 DEF HeldOK
  <2>. QED
    BY <1>1, <2>1 DEF ToSet
<1>6. j \in Writes(Line, Commits(Line), k)
  BY <1>2, <1>4, <1>5 DEF HeldOK, Writes, WritesTo
<1>7. PICK i \in Writes(Line, Commits(Line), k) : j <= i /\ Line[i] = r
  BY <1>6 DEF LastIn, LastOf
<1>8. i \in 1..Len(Line) /\ IsOp(Line[i]) /\ Line[i].key = k
  BY <1>7 DEF Writes, WritesTo
<1>9. tx[c].id <= Line[i].tx
  <2>1. CASE j = i
    BY <1>3, <1>4, <1>5, <2>1
  <2>2. CASE j # i
    <3>1. j < i
      BY <1>7, <1>8, <2>2
    <3>. QED
      BY <1>1, <1>4, <1>5, <1>8, <3>1 DEF OrderOK, InOrder
  <2>. QED
    BY <2>1, <2>2
<1>10. Line[i].tx <= tx[c].id
  BY <1>1, <1>2, <1>8 DEF OwnedOK
<1>. QED
  BY <1>1, <1>3, <1>7, <1>8, <1>9, <1>10

\* What checkpoint() reads of a line.
LEMMA ScanSees ==
    ASSUME Base, Steady, OrderInv, LineTail, RebuiltOK, UnappliedOK, mode = "up",
           NEW n \in 0..Len(Line), shown \in 0..n, synced <= n, NEW from \in Nat,
           NEW seen, seen = Newer(SubSeq(Line, 1, n), from)
    PROVE  Fresh(seen)
<1> DEFINE G == Commits(SubSeq(Line, 1, n))
           ids == CommittedIds(seen)
<1>1. /\ OrderOK /\ OwnedOK /\ HeldOK /\ CommitsLastOK /\ UnsyncedOK
      /\ Line \in Seq(Records) /\ Len(Line) \in Nat
  BY LineIn DEF OrderInv, LineTail
<1>2. G \subseteq Commits(Line)
  BY <1>1, PartCommits
<1>3. Shown \subseteq G
  BY <1>1, PartGrows DEF Shown
<1>4. ASSUME NEW k, NEW i \in Writes(Line, Commits(Line), k), Line[i].tx \notin G
      PROVE  \E c \in Clients : pc[c] = "committing" /\ tx[c].id = Line[i].tx /\ k \in KeysOf[c]
  <2>1. i \in 1..Len(Line) /\ IsOp(Line[i]) /\ Line[i].tx \in Commits(Line) /\ Line[i].key = k
    BY DEF Writes, WritesTo
  <2>2. PICK c \in Clients : pc[c] = "committing" /\ tx[c].id = Line[i].tx
    BY <1>1, <1>4, <2>1, NotFound
  <2>3. k \in KeysOf[c]
    BY <1>1, <2>1, <2>2 DEF OwnedOK
  <2>. QED
    BY <2>2, <2>3
<1>5. ASSUME NEW k \in Keys, NEW r \in ToSet(seen), LastIn(seen, Writes(seen, ids, k), r)
      PROVE  ValueOf(r) = store[k] \/ AboutTo(r.tx, k)
  <2>1. ASSUME NEW C, G \subseteq C, \A i \in Writes(Line, C, k) : Line[i].tx \in G
        PROVE  LastIn(Line, Writes(Line, C, k), r)
    BY <1>1, <1>5, <2>1, SeesLast
  <2>2. CASE \E c \in Clients : pc[c] = "committing" /\ tx[c].id \notin G /\ k \in KeysOf[c]
    <3>1. PICK c \in Clients : pc[c] = "committing" /\ tx[c].id \notin G /\ k \in KeysOf[c]
      BY <2>2
    <3> DEFINE C == Commits(Line) \ {tx[c].id}
    <3>2. G \subseteq C
      BY <1>2, <3>1
    <3>3. ASSUME NEW i \in Writes(Line, C, k), Line[i].tx \notin G PROVE FALSE
      <4>1. i \in Writes(Line, Commits(Line), k) /\ Line[i].tx # tx[c].id
        BY DEF Writes, WritesTo
      <4>2. PICK o \in Clients : pc[o] = "committing" /\ tx[o].id = Line[i].tx /\ k \in KeysOf[o]
        BY <1>4, <3>3, <4>1
      <4>3. o # c
        BY <4>1, <4>2
      <4>. QED
        BY <3>1, <4>2, <4>3 DEF Steady
    <3>4. LastIn(Line, Writes(Line, C, k), r)
      <4>. HIDE DEF C, G
      <4>. QED
        BY <2>1, <3>2, <3>3
    <3>5. Leaves(Line, C, k, Missing, store[k])
      BY <1>3, <3>1 DEF UnappliedOK
    <3>. HIDE DEF C
    <3>. QED
      BY <1>1, <3>4, <3>5, LeavesLast
  <2>3. CASE ~\E c \in Clients : pc[c] = "committing" /\ tx[c].id \notin G /\ k \in KeysOf[c]
    <3>1. LastIn(Line, Writes(Line, Commits(Line), k), r)
      <4>1. \A i \in Writes(Line, Commits(Line), k) : Line[i].tx \in G
        <5>. HIDE DEF G
        <5>. QED
          BY <1>4, <2>3
      <4>. HIDE DEF G
      <4>. QED
        BY <1>2, <2>1, <4>1
    <3>2. PICK v : Rebuilt(k, v)
      BY DEF RebuiltOK
    <3>3. v = ValueOf(r)
      BY <1>1, <3>1, <3>2, LeavesLast DEF Rebuilt
    <3>4. CASE \A c \in Clients : k \notin KeysOf[c]
      BY <3>2, <3>3, <3>4 DEF Rebuilt
    <3>5. ASSUME NEW c \in Clients, k \in KeysOf[c] PROVE ValueOf(r) = store[k] \/ AboutTo(r.tx, k)
      <4>1. CASE Writes(Pending(c), {tx[c].id}, k) = {}
        <5>1. Leaves(Pending(c), {tx[c].id}, k, store[k], v)
          BY <3>2, <3>5 DEF Rebuilt
        <5>2. v = store[k]
          BY <4>1, <5>1 DEF Leaves, LastWrite, Writes
        <5>. QED
          BY <3>3, <5>2
      <4>2. CASE Writes(Pending(c), {tx[c].id}, k) # {}
        <5>1. r.tx = tx[c].id
          BY <1>1, <3>1, <3>5, <4>2, LastIsPending
        <5>. QED
          BY <4>2, <5>1 DEF AboutTo
      <4>. QED
        BY <4>1, <4>2
    <3>. QED
      BY <3>4, <3>5
  <2>. QED
    BY <2>2, <2>3
<1>. QED
  BY <1>5 DEF Fresh
-----------------------------------------------------------------------------
(* The replay of a checkpoint *)

\* What a replay changes in the store is a key that a transaction among those it
\* replays is about to write.
LEMMA ReplayTouches ==
    ASSUME CkptInv, ReadOK, FreshOK, NEW o \in Checkpointers, ReplayScan(o), o \notin overtaken,
           NEW k \in Keys, store'[k] # store[k]
    PROVE  \E c \in Clients, i \in DOMAIN ckpt[o].seen :
              /\ ckpt[o].seen[i].tx = tx[c].id /\ ckpt[o].seen[i].key = k
              /\ tx[c].id \in Shown /\ Writes(Pending(c), {tx[c].id}, k) # {}
<1> DEFINE seen == ckpt[o].seen
           ids == CommittedIds(seen)
           V == Nat \cup {Missing}
<1>1. /\ seen \in Seq(Records) /\ InOrder(seen) /\ ids \subseteq Shown /\ Fresh(seen)
      /\ store' = Replayed(store, seen) /\ \A r \in Records : r.tx \in Nat
  BY DEF ReplayScan, CkptInv, ScanOK, CkptStates, ReadOK, FreshOK, Records
<1>2. store \in [Keys -> V] /\ \A r \in Records : ValueOf(r) \in V
  <2>1. store \in [Keys -> Settled \cup {Missing}] /\ Settled \subseteq Nat
    BY DEF CkptInv, TypeInv, OutInv, IdsInv, Typed, StoreOK, Stores, Settled
  <2>. QED
    BY <2>1 DEF Records, ValueOf
<1>. HIDE DEF seen
<1>3. LastWrite(seen, Len(seen), ids, k, store[k], store'[k])
  <2>. HIDE DEF V
  <2>1. \A x \in Keys : LastWrite(seen, Len(seen), CommittedIds(seen), x, store[x], Replayed(store, seen)[x])
    BY <1>1, <1>2, ReplayedIs
  <2>. QED
    BY <1>1, <2>1
<1>. HIDE DEF ids
<1>4. PICK i \in Writes(seen, ids, k) : LastOf(Writes(seen, ids, k), i) /\ store'[k] = ValueOf(seen[i])
  BY <1>3 DEF LastWrite, Writes
<1>5. i \in DOMAIN seen /\ seen[i].tx \in ids /\ seen[i].key = k /\ seen[i] \in ToSet(seen)
  BY <1>1, <1>4 DEF Writes, WritesTo, ToSet
<1>6. LastIn(seen, Writes(seen, ids, k), seen[i])
  BY <1>4 DEF LastIn
<1>7. AboutTo(seen[i].tx, k)
  BY <1>1, <1>4, <1>5, <1>6 DEF Fresh, ids
<1>8. PICK c \in Clients : tx[c].id = seen[i].tx /\ Writes(Pending(c), {tx[c].id}, k) # {}
  BY <1>7 DEF AboutTo
<1>. QED
  BY <1>1, <1>5, <1>8 DEF seen

\* Of a transaction that writes a key, the key is its client's.
LEMMA PendingOwns ==
    ASSUME Base, OpsOK, NEW c \in Clients, NEW k, Writes(Pending(c), {tx[c].id}, k) # {}
    PROVE  k \in KeysOf[c] /\ pc[c] \in {"committing", "applying"}
<1>1. pc[c] \in {"committing", "applying"} /\ Pending(c) = tx[c].ops
  BY DEF Pending, Writes, WritesTo
<1>2. tx[c].ops \in Seq(Records)
  BY DEF Base, OutInv, IdsInv, Typed
<1>3. PICK op \in ToSet(tx[c].ops) : op.key = k
  BY <1>1, <1>2 DEF Writes, WritesTo, ToSet
<1>. QED
  BY <1>1, <1>3 DEF OpsOK

\* After it, the clients still leave what replay of the line does.
LEMMA ReplayRebuilt ==
    ASSUME Steady, Base, CkptInv, OpsOK, ReadOK, FreshOK, RebuiltOK, UnappliedOK,
           NEW o \in Checkpointers, ReplayScan(o), o \notin overtaken
    PROVE  RebuiltOK' /\ UnappliedOK'
<1>1. UNCHANGED <<mode, pc, tx>> /\ Line' = Line /\ Shown' = Shown
  BY DEF ReplayScan, walVars, Line, Unwritten, Shown
<1>2. ASSUME NEW k \in Keys, store'[k] # store[k]
      PROVE  \E c \in Clients : /\ Writes(Pending(c), {tx[c].id}, k) # {} /\ k \in KeysOf[c]
                                /\ tx[c].id \in Shown
                                /\ \A d \in Clients : k \in KeysOf[d] => d = c
  <2>1. PICK c \in Clients : tx[c].id \in Shown /\ Writes(Pending(c), {tx[c].id}, k) # {}
    BY <1>2, ReplayTouches
  <2>2. k \in KeysOf[c]
    BY <2>1, PendingOwns
  <2>. QED
    BY <2>1, <2>2 DEF Steady
<1>3. ASSUME NEW k \in Keys, NEW v, Rebuilt(k, v) PROVE Rebuilt(k, v)'
  <2>1. Leaves(Line, Commits(Line), k, Missing, v)
    BY <1>3 DEF Rebuilt
  <2>2. ASSUME NEW c \in Clients, k \in KeysOf[c]
        PROVE  Leaves(Pending(c), {tx[c].id}, k, store'[k], v)
    <3>1. Leaves(Pending(c), {tx[c].id}, k, store[k], v)
      BY <1>3, <2>2 DEF Rebuilt
    <3>2. store'[k] # store[k] => Writes(Pending(c), {tx[c].id}, k) # {}
      BY <1>2, <2>2
    <3>. QED
      BY <3>1, <3>2 DEF Leaves, LastWrite, Writes
  <2>3. (\A c \in Clients : k \notin KeysOf[c]) => v = store'[k]
    BY <1>2, <1>3 DEF Rebuilt
  <2>. QED
    BY <1>1, <2>1, <2>2, <2>3 DEF Rebuilt, Pending
<1>4. RebuiltOK'
  BY <1>1, <1>3 DEF RebuiltOK
<1>5. UnappliedOK'
  <2>1. ASSUME NEW c \in Clients, tx[c].id \notin Shown, NEW k \in KeysOf[c] PROVE store'[k] = store[k]
    <3>1. k \in Keys
      BY DatabaseAssumption
    <3>. QED
      BY <1>2, <2>1, <3>1
  <2>. QED
    BY <1>1, <2>1 DEF UnappliedOK
<1>. QED
  BY <1>4, <1>5

-----------------------------------------------------------------------------
(* The steps *)

\* A client that is about to apply its operations still is, until it does.
LEMMA PendingStays ==
    ASSUME Base, Steady, Elsewhere \/ UNCHANGED vars, NEW c \in Clients, Pending(c) # <<>>
    PROVE  Pending(c)' = Pending(c) /\ tx'[c] = tx[c]
<1>. USE DrainersAre
<1>0. Typed /\ ~(errors < MaxIoErrors)
  BY DEF Base, OutInv, IdsInv, DurInv, Steady, Punctual
<1>1. pc[c] \in {"committing", "applying"} /\ tx[c].ops # <<>>
  BY DEF Pending
<1>2. ASSUME pc'[c] \in {"committing", "applying"}, tx'[c] = tx[c]
      PROVE  Pending(c)' = Pending(c) /\ tx'[c] = tx[c]
  BY <1>1, <1>2 DEF Pending
<1>3. ASSUME NEW o \in Clients,
             Begin(o) \/ AppendOp(o) \/ AddEntry(o) \/ CommitCall(o) \/ AbortCall(o) \/ GiveUp(o)
             \/ CommitOk(o)
      PROVE  pc'[c] = pc[c] /\ tx'[c] = tx[c]
  <2>1. o # c
    BY <1>1, <1>3 DEF Begin, AppendOp, AddEntry, Buffer, CommitCall, AbortCall, GiveUp, CommitOk
  <2>. QED
    BY <1>0, <1>3, <2>1 DEF Typed, Begin, AppendOp, AddEntry, Buffer, CommitCall, AbortCall, GiveUp, CommitOk
<1>4. ASSUME NEW o \in Clients, FlushOk(o)
      PROVE  pc'[c] \in {"committing", "applying"} /\ tx'[c] = tx[c]
  BY <1>0, <1>1, <1>4 DEF Typed, FlushOk
<1>5. ASSUME NEW o \in Clients, FlushErr(o) PROVE FALSE
  BY <1>0, <1>5 DEF FlushErr
<1>6. ASSUME FlusherFail \/ (\E d \in Drainers : Drain(d)) \/ UNCHANGED vars
      PROVE  pc' = pc /\ tx' = tx
  BY <1>6 DEF FlusherFail, Drain, vars
<1>. QED
  BY <1>1, <1>2, <1>3, <1>4, <1>5, <1>6 DEF Elsewhere

\* What a checkpointer does by itself: another's reading stays, its own is new.
LEMMA CkptMoves ==
    ASSUME CkptInv, UpOK, NEW k \in Checkpointers, CkptOnly(k)
    PROVE  /\ UNCHANGED vars /\ stale' = stale /\ overtaken' \in {overtaken, overtaken \ {k}}
           /\ \A o \in Checkpointers \ {k} : ckpt'[o] = ckpt[o]
           /\ ckpt'[k].at # "idle" => mode = "up"
           /\ shown' = shown \/ \E f \in Visible : shown' = Whole(f)
           /\ ckpt'[k].at = "locking" =>
                 /\ mode = "up"
                 /\ \E f \in Visible : /\ shown' = Whole(f)
                                       /\ ckpt'[k].seen = Newer(Readable(f), ckpt[k].from)
<1>0. /\ ckpt \in [Checkpointers -> CkptStates] /\ UNCHANGED vars
      /\ ckpt[k].at # "idle" => mode = "up"
  BY DEF CkptInv, ScanOK, UpOK, CkptOnly
<1>1. ASSUME Return(k)
      PROVE  ckpt'[k].at = "idle" /\ \A o \in Checkpointers \ {k} : ckpt'[o] = ckpt[o]
  BY <1>0, <1>1 DEF Return, Resting
<1>2. CASE CheckpointCall(k)
  <2>1. /\ mode = "up" /\ ckpt[k].at = "idle" /\ UNCHANGED <<shown, overtaken, stale>>
        /\ \/ ckpt' = [ckpt EXCEPT ![k] = [Resting EXCEPT !.at = "reading", !.from = marker]]
           \/ ckpt' = ckpt
    BY <1>2 DEF CheckpointCall
  <2>2. ckpt'[k].at # "locking" /\ \A o \in Checkpointers \ {k} : ckpt'[o] = ckpt[o]
    BY <1>0, <2>1 DEF Resting
  <2>. QED
    BY <1>0, <2>1, <2>2
<1>3. CASE Scan(k)
  <2>1. /\ ckpt[k].at = "reading" /\ UNCHANGED stale /\ overtaken' = overtaken \ {k}
        /\ \E f \in Visible :
              /\ shown' = Whole(f)
              /\ \/ Return(k)
                 \/ ckpt' = [ckpt EXCEPT ![k].at = "locking",
                                         ![k].seen = Newer(Readable(f), ckpt[k].from)]
    BY <1>3 DEF Scan
  <2>2. PICK f \in Visible :
           /\ shown' = Whole(f)
           /\ \/ Return(k)
              \/ ckpt' = [ckpt EXCEPT ![k].at = "locking", ![k].seen = Newer(Readable(f), ckpt[k].from)]
    BY <2>1
  <2>3. CASE Return(k)
    BY <1>0, <1>1, <2>1, <2>2, <2>3
  <2>4. CASE ckpt' = [ckpt EXCEPT ![k].at = "locking", ![k].seen = Newer(Readable(f), ckpt[k].from)]
    <3>1. /\ ckpt'[k].seen = Newer(Readable(f), ckpt[k].from)
          /\ \A o \in Checkpointers \ {k} : ckpt'[o] = ckpt[o]
      BY <1>0, <2>4 DEF CkptStates
    <3>2. mode = "up"
      BY <1>0, <2>1
    <3>. QED
      BY <1>0, <2>1, <2>2, <3>1, <3>2
  <2>. QED
    BY <2>2, <2>3, <2>4
<1>4. CASE ScanFails(k)
  <2>1. /\ Return(k) /\ UNCHANGED <<overtaken, stale>> /\ \E f \in Visible : shown' = Whole(f)
    BY <1>4 DEF ScanFails
  <2>. QED
    BY <1>0, <1>1, <2>1
<1>5. CASE TruncateMarker(k)
  <2>1. /\ ckpt[k].at = "truncating" /\ UNCHANGED <<shown, overtaken, stale>>
        /\ ckpt' = [ckpt EXCEPT ![k].at = "writing"]
    BY <1>5 DEF TruncateMarker
  <2>2. ckpt'[k].at = "writing" /\ \A o \in Checkpointers \ {k} : ckpt'[o] = ckpt[o]
    BY <1>0, <2>1 DEF CkptStates
  <2>. QED
    BY <1>0, <2>1, <2>2
<1>6. CASE WriteMarker(k) \/ SetCheckpointFails(k)
  <2>1. Return(k) /\ UNCHANGED <<shown, overtaken, stale>>
    BY <1>6 DEF WriteMarker, SetCheckpointFails
  <2>. QED
    BY <1>0, <1>1, <2>1
<1>. QED
  BY <1>2, <1>3, <1>4, <1>5, <1>6 DEF CkptOnly

\* While the store stays and nobody ends, what was fresh is.
LEMMA FreshKeeps ==
    ASSUME NEW o, NEW s, s = ckpt'[o].seen, Fresh(s), UNCHANGED store,
           \A c \in Clients : Pending(c) # <<>> => Pending(c)' = Pending(c) /\ tx'[c] = tx[c]
    PROVE  Fresh(ckpt[o].seen)'
<1>1. ASSUME NEW t, NEW k, AboutTo(t, k) PROVE AboutTo(t, k)'
  <2>1. PICK c \in Clients : tx[c].id = t /\ Writes(Pending(c), {t}, k) # {}
    BY <1>1 DEF AboutTo
  <2>2. Pending(c) # <<>>
    BY <2>1 DEF Writes, WritesTo
  <2>3. Pending(c)' = Pending(c) /\ tx'[c] = tx[c]
    BY <2>2
  <2>. QED
    BY <2>1, <2>3 DEF AboutTo
<1>2. ASSUME NEW k \in Keys, NEW r \in ToSet(s), LastIn(s, Writes(s, CommittedIds(s), k), r)
      PROVE  ValueOf(r) = store'[k] \/ AboutTo(r.tx, k)'
  <2>1. ValueOf(r) = store[k] \/ AboutTo(r.tx, k)
    BY <1>2 DEF Fresh
  <2>. QED
    BY <1>1, <2>1
<1>. QED
  BY <1>2 DEF Fresh

\* Steps of the database below a checkpoint, and the replay of one.
LEMMA QuietBelow ==
    ASSUME Steady, QuietInv, [CkptNext]_allVars
    PROVE  CkptInv' /\ DurInv' /\ OrderInv' /\ LineTail'
<1>0. /\ CkptInv /\ DurInv /\ OrderInv /\ LineTail /\ Base
      /\ OrderOK /\ OwnedOK /\ OpsOK /\ BufferedOK
      /\ HeldOK /\ CommitsLastOK /\ ReachOK /\ UnsyncedOK
  BY DEF QuietInv, CkptInv, TypeInv, Base, OrderInv, LineTail
<1>1. CkptInv'
  BY <1>0, CkptInvStep
<1>2. ASSUME [Next]_vars PROVE DurInv' /\ OrderInv' /\ LineTail'
  <2>1. DurInv'
    BY <1>0, <1>2, DurStep DEF Steady
  <2>2. OrderOK' /\ OwnedOK' /\ OpsOK' /\ BufferedOK'
    BY <1>0, <1>2, OrderStep, OwnedStep, OpsStep, BufferedStep
  <2>3. HeldOK' /\ CommitsLastOK' /\ ReachOK' /\ UnsyncedOK'
    BY <1>0, <1>2, HeldStep, CommitsLastStep, SyncStep, UnsyncedStep
  <2>. QED
    BY <2>1, <2>2, <2>3 DEF OrderInv, LineTail
<1>3. ASSUME UNCHANGED <<walVars, mode, nextId, pc, tx, history>> PROVE DurInv' /\ OrderInv' /\ LineTail'
  <2>1. /\ UNCHANGED <<queue, batch, writing, file, synced, mine, pc, tx, promised, errors>>
        /\ Line' = Line
    BY <1>3 DEF walVars, history, Line, Unwritten
  <2>2. Typed'
    BY <1>1 DEF CkptInv, TypeInv, OutInv, IdsInv
  <2>3. DurInv'
    BY <1>0, <2>1, <2>2, DurStill DEF DurInv
  <2>4. OrderInv'
    BY <1>0, <2>1 DEF OrderInv, OrderOK, OwnedOK, OpsOK, BufferedOK
  <2>5. LineTail'
    BY <1>0, <2>1 DEF LineTail, HeldOK, CommitsLastOK, ReachOK, UnsyncedOK
  <2>. QED
    BY <2>3, <2>4, <2>5
<1>4. [Next]_vars \/ UNCHANGED <<walVars, mode, nextId, pc, tx, history>>
  <2>1. CASE (Recover \/ Elsewhere \/ UNCHANGED vars) \/ \E c \in Clients : LockedApply(c)
    BY <2>1 DEF Next, LockedApply
  <2>2. CASE CrashAll
    BY <2>2 DEF CrashAll, Next
  <2>3. ASSUME NEW k \in Checkpointers, CkptOnly(k) \/ ReplayScan(k)
        PROVE  [Next]_vars \/ UNCHANGED <<walVars, mode, nextId, pc, tx, history>>
    BY <2>3 DEF CkptOnly, ReplayScan
  <2>. QED
    BY <2>1, <2>2, <2>3, StepCases
<1>. QED
  BY <1>1, <1>2, <1>3, <1>4

\* What a checkpointer finds in the file.
LEMMA FoundIs ==
    ASSUME QuietInv, NEW f \in Visible
    PROVE  /\ Whole(f) \in 0..Len(Line) /\ shown \in 0..Whole(f) /\ synced <= Whole(f)
           /\ Readable(f) = SubSeq(Line, 1, Whole(f))
           /\ Shown \subseteq Commits(SubSeq(Line, 1, Whole(f)))
<1>1. /\ Base /\ WritingOK /\ ReachOK /\ shown \in 0..Len(file)
  BY DEF QuietInv, CkptInv, TypeInv, Base, MarkerTyped, LineTail
<1>2. /\ Whole(f) \in 0..Len(file) /\ shown <= Whole(f) /\ synced <= Whole(f)
      /\ Readable(f) = SubSeq(Line, 1, Whole(f))
  BY <1>1, VisiblePart
<1>3. Len(file) \in 0..Len(Line) /\ Line \in Seq(Records)
  BY <1>1, FileInLine, LineIn
<1>4. Whole(f) \in 0..Len(Line) /\ shown \in 0..Whole(f)
  BY <1>1, <1>2, <1>3
<1>5. Shown \subseteq Commits(SubSeq(Line, 1, Whole(f)))
  BY <1>3, <1>4, PartGrows DEF Shown
<1>. QED
  BY <1>2, <1>4, <1>5

\* A step of one checkpointer.
LEMMA QuietAlone ==
    ASSUME Steady, QuietInv, NEW k \in Checkpointers, CkptOnly(k)
    PROVE  /\ UpOK' /\ ReadOK'
           /\ ~stale' => RebuiltOK' /\ UnappliedOK' /\ FreshOK'
<1>0. /\ CkptInv /\ UpOK /\ ReadOK /\ Base /\ OrderInv /\ LineTail /\ OrderOK
      /\ ckpt \in [Checkpointers -> CkptStates]
      /\ ~stale => RebuiltOK /\ UnappliedOK /\ FreshOK
  BY DEF QuietInv, CkptInv, TypeInv, Base, OrderInv, ScanOK
<1>1. /\ UNCHANGED vars /\ stale' = stale /\ overtaken' \in {overtaken, overtaken \ {k}}
      /\ \A o \in Checkpointers \ {k} : ckpt'[o] = ckpt[o]
      /\ ckpt'[k].at # "idle" => mode = "up"
      /\ shown' = shown \/ \E f \in Visible : shown' = Whole(f)
      /\ ckpt'[k].at = "locking" =>
            /\ mode = "up"
            /\ \E f \in Visible : /\ shown' = Whole(f)
                                  /\ ckpt'[k].seen = Newer(Readable(f), ckpt[k].from)
  BY <1>0, CkptMoves
<1>2. UNCHANGED <<mode, store, pc, tx>> /\ Line' = Line
  BY <1>1 DEF vars, walVars, Line, Unwritten
<1>3. Shown \subseteq Shown'
  <2>1. CASE shown' = shown
    BY <1>2, <2>1 DEF Shown
  <2>2. ASSUME NEW f \in Visible, shown' = Whole(f) PROVE Shown \subseteq Shown'
    BY <1>2, <2>2, FoundIs DEF Shown
  <2>. QED
    BY <1>1, <2>1, <2>2
<1>4. UpOK'
  BY <1>0, <1>1, <1>2 DEF UpOK
<1>5. ASSUME ckpt'[k].at = "locking"
      PROVE  /\ InOrder(ckpt'[k].seen) /\ CommittedIds(ckpt'[k].seen) \subseteq Shown'
             /\ ~stale => Fresh(ckpt'[k].seen)
  <2>1. mode = "up"
    BY <1>1, <1>5
  <2>2. PICK f \in Visible : shown' = Whole(f) /\ ckpt'[k].seen = Newer(Readable(f), ckpt[k].from)
    BY <1>1, <1>5
  <2> DEFINE n == Whole(f)
             from == ckpt[k].from
             seen == Newer(SubSeq(Line, 1, n), from)
  <2>3. /\ n \in 0..Len(Line) /\ shown \in 0..n /\ synced <= n /\ Readable(f) = SubSeq(Line, 1, n)
        /\ from \in Nat
    BY <1>0, FoundIs DEF CkptStates
  <2>4. ckpt'[k].seen = seen /\ Shown' = Commits(SubSeq(Line, 1, n))
    BY <1>2, <2>2, <2>3 DEF Shown
  <2>. HIDE DEF n, from
  <2>5. InOrder(seen) /\ CommittedIds(seen) = { t \in Commits(SubSeq(Line, 1, n)) : t > from }
    BY <1>0, <2>3, SeenIs
  <2>6. ~stale => Fresh(seen)
    BY <1>0, <2>1, <2>3, ScanSees
  <2>. HIDE DEF seen
  <2>. QED
    BY <2>4, <2>5, <2>6
<1>6. ReadOK'
  <2>1. ASSUME NEW o \in Checkpointers, ckpt'[o].at = "locking"
        PROVE  InOrder(ckpt'[o].seen) /\ CommittedIds(ckpt'[o].seen) \subseteq Shown'
    <3>1. CASE o = k
      BY <1>5, <2>1, <3>1
    <3>2. CASE o # k
      <4>1. ckpt'[o] = ckpt[o]
        BY <1>1, <3>2
      <4>2. InOrder(ckpt[o].seen) /\ CommittedIds(ckpt[o].seen) \subseteq Shown
        BY <1>0, <2>1, <4>1 DEF ReadOK
      <4>. QED
        BY <1>3, <4>1, <4>2
    <3>. QED
      BY <3>1, <3>2
  <2>. QED
    BY <2>1 DEF ReadOK
<1>7. ASSUME ~stale' PROVE RebuiltOK' /\ UnappliedOK' /\ FreshOK'
  <2>0. RebuiltOK /\ UnappliedOK /\ FreshOK /\ ~stale
    BY <1>0, <1>1, <1>7
  <2>1. RebuiltOK'
    BY <1>0, <1>1, <2>0, RebuiltStep
  <2>2. UnappliedOK'
    BY <1>2, <1>3, <2>0 DEF UnappliedOK
  <2>3. \A c \in Clients : Pending(c)' = Pending(c) /\ tx'[c] = tx[c]
    BY <1>2 DEF Pending
  <2>4. ASSUME NEW o \in Checkpointers, ckpt'[o].at = "locking", o \notin overtaken'
        PROVE  Fresh(ckpt[o].seen)'
    <3>1. Fresh(ckpt'[o].seen)
      <4>1. CASE o = k
        BY <1>5, <2>0, <2>4, <4>1
      <4>2. CASE o # k
        <5>1. ckpt'[o] = ckpt[o] /\ o \notin overtaken
          BY <1>1, <2>4, <4>2
        <5>2. Fresh(ckpt[o].seen)
          BY <2>0, <2>4, <5>1 DEF FreshOK
        <5>. QED
          BY <5>1, <5>2
      <4>. QED
        BY <4>1, <4>2
    <3>. QED
      BY <1>2, <2>3, <3>1, FreshKeeps
  <2>. QED
    BY <2>1, <2>2, <2>4 DEF FreshOK
<1>. QED
  BY <1>4, <1>6, <1>7

LEMMA QuietStep ==
    ASSUME Steady, QuietInv, [CkptNext]_allVars
    PROVE  QuietInv'
<1>0. /\ CkptInv /\ UpOK /\ ReadOK /\ Base /\ OrderInv /\ Typed /\ MarkerTyped
      /\ ckpt \in [Checkpointers -> CkptStates]
      /\ ~stale => RebuiltOK /\ UnappliedOK /\ FreshOK
  BY DEF QuietInv, CkptInv, TypeInv, Base, OrderInv, ScanOK, OutInv, IdsInv
<1>1. CkptInv' /\ DurInv' /\ OrderInv' /\ LineTail'
  BY QuietBelow
<1>2. SUFFICES /\ UpOK' /\ ReadOK'
               /\ ~stale' => RebuiltOK' /\ UnappliedOK' /\ FreshOK'
  BY <1>1 DEF QuietInv
<1>3. ASSUME [Next]_vars, ~Crash, shown' = shown
      PROVE  /\ Shown' = Shown
             /\ RebuiltOK => RebuiltOK'
             /\ RebuiltOK /\ UnappliedOK => UnappliedOK'
  <2>1. Shown' = Shown
    BY <1>0, <1>3, LineShown DEF MarkerTyped
  <2>. QED
    BY <1>0, <1>3, <2>1, RebuiltStep, UnappliedStep
<1>4. CASE (Recover \/ Elsewhere \/ UNCHANGED vars) /\ UNCHANGED ckptVars
  <2>1. UNCHANGED <<ckpt, shown, overtaken, stale>> /\ [Next]_vars
    BY <1>4 DEF ckptVars, Next
  <2>2. ~Crash /\ (mode = "up" => mode' = "up")
    BY <1>4 DEF Recover, Elsewhere, Begin, AppendOp, AddEntry, CommitCall, AbortCall, GiveUp,
       FlushErr, FlushOk, CommitOk, Drain, FlusherFail, vars, Crash
  <2>3. UpOK' /\ ReadOK'
    BY <1>0, <1>3, <2>1, <2>2 DEF UpOK, ReadOK
  <2>4. ASSUME ~stale' PROVE FreshOK'
    <3>0. FreshOK
      BY <1>0, <2>1, <2>4
    <3>1. ASSUME NEW o \in Checkpointers, ckpt[o].at = "locking", o \notin overtaken
          PROVE  Fresh(ckpt[o].seen)'
      <4>1. mode = "up" /\ Fresh(ckpt[o].seen) /\ ckpt'[o].seen = ckpt[o].seen
        BY <1>0, <2>1, <3>0, <3>1 DEF UpOK, FreshOK
      <4>2. Elsewhere \/ UNCHANGED vars
        BY <1>4, <4>1 DEF Recover
      <4>3. UNCHANGED store
        BY <4>2 DEF Elsewhere, Begin, AppendOp, AddEntry, CommitCall, AbortCall, GiveUp,
           FlushErr, FlushOk, CommitOk, Drain, FlusherFail, vars
      <4>4. \A c \in Clients : Pending(c) # <<>> => Pending(c)' = Pending(c) /\ tx'[c] = tx[c]
        BY <1>0, <4>2, PendingStays
      <4>. QED
        BY <4>1, <4>3, <4>4, FreshKeeps
    <3>. QED
      BY <2>1, <3>1 DEF FreshOK
  <2>. QED
    BY <1>0, <1>3, <2>1, <2>2, <2>3, <2>4
<1>5. ASSUME NEW c \in Clients, LockedApply(c)
      PROVE  /\ UpOK' /\ ReadOK'
             /\ ~stale' => RebuiltOK' /\ UnappliedOK' /\ FreshOK'
  <2>1. /\ Apply(c) /\ UNCHANGED <<ckpt, shown, stale>>
        /\ overtaken' = overtaken \cup { k \in Checkpointers : ckpt[k].at = "locking" }
    BY <1>5 DEF LockedApply
  <2>2. [Next]_vars /\ ~Crash /\ mode' = mode
    BY <2>1 DEF Next, Apply, Crash
  <2>3. UpOK' /\ ReadOK'
    BY <1>0, <1>3, <2>1, <2>2 DEF UpOK, ReadOK
  <2>4. FreshOK'
    BY <2>1 DEF FreshOK
  <2>. QED
    BY <1>0, <1>3, <2>1, <2>2, <2>3, <2>4
<1>6. CASE CrashAll
  <2>1. /\ mode' = "down" /\ \A c \in Clients : pc'[c] = "idle"
        /\ \A o \in Checkpointers : ckpt'[o].at = "idle"
    BY <1>6 DEF CrashAll, Crash, Resting
  <2>2. UpOK' /\ ReadOK'
    BY <2>1 DEF UpOK, ReadOK
  <2>3. RebuiltOK' /\ UnappliedOK' /\ FreshOK'
    BY <2>1 DEF RebuiltOK, UnappliedOK, FreshOK
  <2>. QED
    BY <2>2, <2>3
<1>7. ASSUME NEW k \in Checkpointers, ReplayScan(k)
      PROVE  /\ UpOK' /\ ReadOK'
             /\ ~stale' => RebuiltOK' /\ UnappliedOK' /\ FreshOK'
  <2>1. /\ UNCHANGED <<walVars, mode, pc, tx, shown>> /\ ckpt[k].at = "locking"
        /\ ckpt' = [ckpt EXCEPT ![k].at = "truncating"]
        /\ overtaken' = overtaken \cup { o \in Checkpointers : ckpt[o].at = "locking" }
        /\ stale' = (stale \/ k \in overtaken)
    BY <1>7 DEF ReplayScan
  <2>2. ckpt'[k].at = "truncating" /\ \A o \in Checkpointers \ {k} : ckpt'[o] = ckpt[o]
    BY <1>0, <2>1 DEF CkptStates
  <2>3. Shown' = Shown
    BY <2>1 DEF walVars, Line, Unwritten, Shown
  <2>4. UpOK'
    BY <1>0, <2>1, <2>2 DEF UpOK
  <2>5. ReadOK'
    BY <1>0, <2>2, <2>3 DEF ReadOK
  <2>6. FreshOK'
    BY <2>1, <2>2 DEF FreshOK
  <2>7. ~stale' => RebuiltOK' /\ UnappliedOK'
    <3>1. ~stale' => ~stale /\ k \notin overtaken
      BY <2>1
    <3>2. OpsOK
      BY <1>0 DEF OrderInv
    <3>. QED
      BY <1>0, <1>7, <3>1, <3>2, ReplayRebuilt
  <2>. QED
    BY <2>4, <2>5, <2>6, <2>7
<1>. QED
  BY <1>4, <1>5, <1>6, <1>7, StepCases, QuietAlone

LEMMA QuietInit == CkptInit => QuietInv
<1>. SUFFICES ASSUME CkptInit PROVE QuietInv
  OBVIOUS
<1>1. CkptInv /\ RecInv /\ Init
  BY CkptInit0, RecInit DEF CkptInit
<1>2. /\ \A c \in Clients : pc[c] = "idle"
      /\ \A k \in Checkpointers : ckpt[k].at = "idle"
      /\ queue = <<>> /\ file = <<>> /\ writing = Nobody /\ ToSet(batch[Flusher]) = {}
  BY NothingElements, DrainersAre DEF CkptInit, Init, Wal!LogInit, Resting, Drainers
<1>3. Len(Line) = 0
  BY <1>1, <1>2, NothingElements, LineDown DEF RecInv, Base
<1>4. LineTail
  BY <1>2, <1>3 DEF LineTail, HeldOK, CommitsLastOK, ReachOK, UnsyncedOK
<1>5. UpOK /\ ReadOK /\ FreshOK /\ UnappliedOK
  BY <1>2 DEF UpOK, ReadOK, FreshOK, UnappliedOK
<1>. QED
  BY <1>1, <1>4, <1>5 DEF QuietInv, RecInv, Base

\* checkpoint() does to the live store nothing that a commit() under way is not
\* about to do: while clients write keys of their own, no batch fails, flush() stays
\* within its polling budget and crashes tear no record, a replay of records that the store
\* has not moved past since they were read changes only keys which a transaction
\* among those records, with its Commit record in the file, has still to apply.
\* checkpoint() reads the file ahead of its fsync and beside the flusher, and
\* waits for the lock while others are writing.
THEOREM CheckpointIsQuiet ==
    ASSUME Punctual, ~TornWrites, ~AddsEntries, Kinds \subseteq {"insert", "delete"},
           \A c, d \in Clients : c # d => KeysOf[c] \cap KeysOf[d] = {}
    PROVE  CkptSpec => QuietCheckpoint
<1>. Steady
  BY DEF Steady
<1>1. CkptInit => QuietInv
  BY QuietInit
<1>2. QuietInv /\ [CkptNext]_allVars => QuietInv'
  BY QuietStep
<1>3. QuietInv => [\A k \in Checkpointers : ReplayScan(k) /\ ~stale /\ k \notin overtaken =>
          \A key \in Keys : store'[key] # store[key] =>
              \E c \in Clients, i \in DOMAIN ckpt[k].seen :
                  /\ pc[c] \in {"committing", "applying"}
                  /\ ckpt[k].seen[i].tx = tx[c].id
                  /\ ckpt[k].seen[i].key = key]_allVars
  <2>1. ASSUME QuietInv, NEW k \in Checkpointers, ReplayScan(k), ~stale, k \notin overtaken,
               NEW key \in Keys, store'[key] # store[key]
        PROVE  \E c \in Clients, i \in DOMAIN ckpt[k].seen :
                  /\ pc[c] \in {"committing", "applying"}
                  /\ ckpt[k].seen[i].tx = tx[c].id
                  /\ ckpt[k].seen[i].key = key
    <3>1. CkptInv /\ Base /\ OpsOK /\ ReadOK /\ FreshOK
      BY <2>1 DEF QuietInv, CkptInv, TypeInv, Base, OrderInv
    <3>2. PICK c \in Clients, i \in DOMAIN ckpt[k].seen :
             /\ ckpt[k].seen[i].tx = tx[c].id /\ ckpt[k].seen[i].key = key
             /\ Writes(Pending(c), {tx[c].id}, key) # {}
      BY ONLY <2>1, <3>1, ReplayTouches, SMT
    <3>3. pc[c] \in {"committing", "applying"}
      BY <3>1, <3>2, PendingOwns
    <3>. QED
      BY <3>2, <3>3
  <2>. QED
    BY <2>1
<1>. QED
  BY <1>1, <1>2, <1>3, PTL DEF CkptSpec, QuietCheckpoint
=============================================================================
