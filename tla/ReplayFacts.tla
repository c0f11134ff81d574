---------------------------- MODULE ReplayFacts ----------------------------
(***************************************************************************)
(* Lemmas about the greatest and the least element of a set of naturals,   *)
(* and about the operators of Replay that DatabaseProofs needs.            *)
(***************************************************************************)
EXTENDS Replay, SeqFacts, FiniteSetTheorems, NaturalsInduction, WellFoundedInduction

LEMMA LeastNatural ==
    ASSUME NEW T \in SUBSET Nat, T # {}
    PROVE  \E m \in T : \A n \in T : m <= n
<1>1. PICK m \in T : \A n \in T : ~(<<n, m>> \in OpToRel(<, Nat))
  BY NatLessThanWellFounded, WFMin, Zenon
<1>2. \A n \in T : ~(n < m)
  BY <1>1 DEF OpToRel
<1>. QED
  BY <1>2

\* Induction, the property given as the set of the numbers that have it.
LEMMA SetInduction ==
    ASSUME NEW T, 0 \in T, \A m \in Nat : m \in T => m + 1 \in T
    PROVE  Nat \subseteq T
<1>1. SUFFICES ASSUME Nat \ T # {} PROVE FALSE
  OBVIOUS
<1>2. PICK m \in Nat \ T : \A n \in Nat \ T : m <= n
  BY <1>1, LeastNatural
<1>3. m - 1 \in Nat /\ m - 1 \in T
  BY <1>2
<1>4. (m - 1) + 1 \in T
  BY <1>3
<1>. QED
  BY <1>2, <1>4

\* The rounds of a loop keep its invariant: Inv[i] holds the states it may be in
\* after i rounds, and step leads from one to the next.
Keeps(n, Inv, step) == \A i \in 1..n : \A s \in Inv[i - 1] : step[<<i, s>>] \in Inv[i]

RunOf(g, n, Inv, start, step) ==
    /\ g = [i \in 0..n |-> g[i]]
    /\ g[0] = start
    /\ \A i \in 1..n : g[i - 1] \in Inv[i - 1] /\ g[i] = step[<<i, g[i - 1]>>]

\* A loop that keeps its invariant has a run.
LEMMA LoopRuns ==
    ASSUME NEW n \in Nat, NEW Inv, NEW start \in Inv[0], NEW step, Keeps(n, Inv, step)
    PROVE  \E g : RunOf(g, n, Inv, start, step)
<1>0. \A i \in 1..n : \A s \in Inv[i - 1] : step[<<i, s>>] \in Inv[i]
  BY DEF Keeps
<1> DEFINE Run(g, m) == /\ g = [i \in 0..m |-> g[i]] /\ g[0] = start
                        /\ \A i \in 0..m : g[i] \in Inv[i]
                        /\ \A i \in 1..m : g[i] = step[<<i, g[i - 1]>>]
           T == { m \in Nat : m <= n => \E g : Run(g, m) }
<1>1. 0 \in T
  <2>1. Run([i \in 0..0 |-> start], 0)
    OBVIOUS
  <2>. QED
    BY <2>1
<1>2. ASSUME NEW m \in Nat, m \in T PROVE m + 1 \in T
  <2>1. SUFFICES ASSUME m + 1 <= n PROVE \E g : Run(g, m + 1)
    OBVIOUS
  <2>2. PICK g : Run(g, m)
    BY <1>2, <2>1
  <2> DEFINE h == [i \in 0..(m + 1) |-> IF i = m + 1 THEN step[<<m + 1, g[m]>>] ELSE g[i]]
  <2>3. /\ \A i \in 0..m : h[i] = g[i] /\ i # m + 1
        /\ h[m + 1] = step[<<m + 1, g[m]>>] /\ h = [i \in 0..(m + 1) |-> h[i]]
    OBVIOUS
  <2>. HIDE DEF h
  <2>4. h[m + 1] \in Inv[m + 1] /\ g[m] \in Inv[m]
    <3>1. g[m] \in Inv[m] /\ m + 1 \in 1..n /\ (m + 1) - 1 = m
      BY <2>1, <2>2
    <3>2. step[<<m + 1, g[m]>>] \in Inv[m + 1]
      BY <1>0, <3>1
    <3>. QED
      BY <2>3, <3>1, <3>2
  <2>0. \A i \in 0..(m + 1) : i = m + 1 \/ i \in 0..m
    OBVIOUS
  <2>5. \A i \in 0..(m + 1) : h[i] \in Inv[i]
    BY <2>0, <2>2, <2>3, <2>4
  <2>6. ASSUME NEW i \in 1..(m + 1) PROVE h[i] = step[<<i, h[i - 1]>>]
    <3>1. CASE i = m + 1
      <4>1. i - 1 = m /\ m \in 0..m
        BY <3>1
      <4>2. h[i - 1] = g[m]
        BY <2>3, <4>1
      <4>. QED
        BY <2>3, <3>1, <4>2
    <3>2. CASE i # m + 1
      <4>1. i \in 1..m /\ i - 1 \in 0..m /\ i \in 0..m
        BY <3>2
      <4>. QED
        BY <2>2, <2>3, <4>1
    <3>. QED
      BY <3>1, <3>2
  <2>7. h[0] = start
    <3>1. 0 \in 0..m
      OBVIOUS
    <3>. QED
      BY <2>2, <2>3, <3>1
  <2>. QED
    BY <2>3, <2>5, <2>6, <2>7
<1>3. n \in T
  <2>. HIDE DEF T
  <2>. QED
    BY <1>1, <1>2, SetInduction
<1>4. PICK g : Run(g, n)
  BY <1>3
<1>5. \A i \in 1..n : i - 1 \in 0..n
  OBVIOUS
<1>6. RunOf(g, n, Inv, start, step)
  BY <1>4, <1>5 DEF RunOf
<1>. QED
  BY <1>6

LEMMA MinOfNaturals ==
    ASSUME NEW T \in SUBSET Nat, T # {}
    PROVE  Min(T) \in T /\ \A n \in T : Min(T) <= n
BY LeastNatural DEF Min

\* A finite set of naturals has a greatest element: take one without of the
\* least size, and an element from it.
LEMMA GreatestNatural ==
    ASSUME NEW T \in SUBSET Nat, T # {}, IsFiniteSet(T)
    PROVE  \E m \in T : \A n \in T : m >= n
<1> DEFINE Topped(S) == \E m \in S : \A n \in S : m >= n
           Sizes == { k \in Nat : \E S \in SUBSET Nat :
                         S # {} /\ IsFiniteSet(S) /\ Cardinality(S) = k /\ ~Topped(S) }
<1>1. SUFFICES Sizes = {}
  BY <1>1, FS_CardinalityType
<1>2. SUFFICES ASSUME Sizes # {} PROVE FALSE
  OBVIOUS
<1>3. PICK k \in Sizes : \A j \in Sizes : k <= j
  BY <1>2, LeastNatural
<1>4. PICK S \in SUBSET Nat :
         S # {} /\ IsFiniteSet(S) /\ Cardinality(S) = k /\ ~Topped(S)
  BY <1>3
<1>5. PICK x \in S : TRUE
  BY <1>4
<1>6. IsFiniteSet(S \ {x}) /\ Cardinality(S \ {x}) = k - 1 /\ k \in Nat
  BY <1>3, <1>4, <1>5, FS_RemoveElement
<1>7. CASE S \ {x} = {}
  BY <1>4, <1>5, <1>7
<1>8. CASE S \ {x} # {}
  <2>1. k - 1 \in Nat
    BY <1>6, FS_CardinalityType
  <2>2. Topped(S \ {x})
    BY <1>3, <1>6, <1>8, <2>1
  <2>3. PICK y \in S \ {x} : \A n \in S \ {x} : y >= n
    BY <2>2
  <2>4. CASE y >= x
    BY <1>4, <2>3, <2>4
  <2>5. CASE ~(y >= x)
    BY <1>4, <1>5, <2>3, <2>5
  <2>. QED
    BY <2>4, <2>5
<1>. QED
  BY <1>7, <1>8

LEMMA MaxOfNaturals ==
    ASSUME NEW T \in SUBSET Nat, T # {}, IsFiniteSet(T)
    PROVE  Max(T) \in T /\ \A n \in T : Max(T) >= n
BY GreatestNatural DEF Max

\* What can be read of a file are the records with no torn one at or before
\* their place.
LEMMA ReadableElements ==
    ASSUME NEW R, NEW f \in Seq(R \cup {Torn})
    PROVE  /\ ToSet(Readable(f)) = { f[i] : i \in { j \in 1..Len(f) : \A h \in 1..j : f[h] # Torn } }
           /\ Readable(f) \in Seq(R)
<1> DEFINE bad == { i \in DOMAIN f : f[i] = Torn }
<1>1. DOMAIN f = 1..Len(f) /\ Len(f) \in Nat /\ \A i \in 1..Len(f) : f[i] \in R \cup {Torn}
  OBVIOUS
<1>2. CASE bad = {}
  <2>1. Readable(f) = f /\ \A i \in 1..Len(f) : f[i] # Torn
    BY <1>1, <1>2 DEF Readable
  <2>2. f \in Seq(R)
    BY <1>1, <2>1
  <2>. QED
    BY <1>1, <2>1, <2>2 DEF ToSet
<1>3. CASE bad # {}
  <2>0. bad \in SUBSET Nat
    BY <1>1
  <2>1. PICK m \in Nat : m = Min(bad) /\ m \in bad /\ \A i \in bad : m <= i
    <3> HIDE DEF bad
    <3>. QED
      BY <1>3, <2>0, MinOfNaturals
  <2>2. m \in 1..Len(f) /\ f[m] = Torn /\ \A i \in 1..Len(f) : f[i] = Torn => m <= i
    BY <1>1, <2>1
  <2>3. Readable(f) = SubSeq(f, 1, m - 1) /\ m - 1 \in 0..Len(f)
    <3>1. Readable(f) = SubSeq(f, 1, m - 1)
      BY <1>3, <2>1, Zenon DEF Readable
    <3>. QED
      BY <1>1, <2>2, <3>1
  <2>4. ToSet(Readable(f)) = { f[i] : i \in 1..(m - 1) }
    BY <2>3, PrefixElements
  <2>5. \A j \in 1..Len(f) : (\A h \in 1..j : f[h] # Torn) <=> j \in 1..(m - 1)
    <3>1. ASSUME NEW j \in 1..(m - 1), NEW h \in 1..j PROVE f[h] # Torn
      BY <1>1, <2>2
    <3>2. ASSUME NEW j \in 1..Len(f), j \notin 1..(m - 1) PROVE m \in 1..j
      <4>1. j \in Nat /\ 1 <= j /\ ~(j <= m - 1)
        BY <1>1, <2>1, <3>2
      <4>. QED
        BY <2>1, <2>2, <4>1
    <3>. QED
      BY <2>2, <3>1, <3>2
  <2>6. \A i \in 1..(m - 1) : f[i] \in R
    BY <1>1, <2>2
  <2>7. SubSeq(f, 1, m - 1) \in Seq(R)
    <3>1. /\ SubSeq(f, 1, m - 1) = [i \in 1..(m - 1) |-> f[i]]
      BY <1>1, <2>3
    <3>. QED
      BY <2>2, <2>6, <3>1
  <2>8. { f[i] : i \in 1..(m - 1) } =
          { f[i] : i \in { j \in 1..Len(f) : \A h \in 1..j : f[h] # Torn } }
    <3>1. 1..(m - 1) = { j \in 1..Len(f) : \A h \in 1..j : f[h] # Torn }
      BY <1>1, <2>2, <2>5
    <3>. QED
      BY <3>1
  <2>. QED
    BY <2>3, <2>4, <2>7, <2>8
<1>. QED
  BY <1>2, <1>3

\* A crash that cuts the file, and perhaps tears a record, adds nothing to it.
LEMMA ReadablePrefix ==
    ASSUME NEW R, NEW f \in Seq(R \cup {Torn}), NEW k \in 0..Len(f)
    PROVE  /\ ToSet(Readable(SubSeq(f, 1, k))) \subseteq ToSet(Readable(f))
           /\ ToSet(Readable(SubSeq(f, 1, k) \o <<Torn>>)) \subseteq ToSet(Readable(f))
<1> DEFINE p == SubSeq(f, 1, k)
           q == p \o <<Torn>>
<1>1. p \in Seq(R \cup {Torn}) /\ Len(p) = k /\ \A i \in 1..k : p[i] = f[i]
  BY SubSeqProperties
<1>2. q \in Seq(R \cup {Torn}) /\ Len(q) = k + 1 /\ q[k + 1] = Torn /\ \A i \in 1..k : q[i] = f[i]
  BY <1>1, ConcatProperties
<1>5. Len(f) \in Nat
  OBVIOUS
<1>6. ToSet(Readable(f)) = { f[i] : i \in { j \in 1..Len(f) : \A h \in 1..j : f[h] # Torn } }
  BY ReadableElements
<1>3. ToSet(Readable(p)) \subseteq ToSet(Readable(f))
  <2>1. ToSet(Readable(p)) = { p[i] : i \in { j \in 1..k : \A h \in 1..j : p[h] # Torn } }
    BY <1>1, ReadableElements
  <2>. HIDE DEF p
  <2>. QED
    BY <1>1, <1>5, <1>6, <2>1
<1>4. ToSet(Readable(q)) \subseteq ToSet(Readable(f))
  <2>1. ToSet(Readable(q)) = { q[i] : i \in { j \in 1..(k + 1) : \A h \in 1..j : q[h] # Torn } }
    BY <1>2, ReadableElements
  <2>. HIDE DEF q
  <2>2. \A i \in 1..(k + 1) : (\A h \in 1..i : q[h] # Torn) => i \in 1..k
    BY <1>2, <1>5
  <2>. QED
    BY <1>2, <1>5, <1>6, <2>1, <2>2
<1>. QED
  BY <1>3, <1>4

\* What is appended adds at most itself.
LEMMA ReadableConcat ==
    ASSUME NEW R, NEW f \in Seq(R \cup {Torn}), NEW g \in Seq(R \cup {Torn})
    PROVE  ToSet(Readable(f \o g)) \subseteq ToSet(Readable(f)) \cup (ToSet(g) \ {Torn})
<1>1. /\ f \o g \in Seq(R \cup {Torn}) /\ Len(f \o g) = Len(f) + Len(g)
      /\ \A i \in 1..Len(f) : (f \o g)[i] = f[i]
      /\ \A i \in 1..Len(g) : (f \o g)[Len(f) + i] = g[i]
      /\ Len(f) \in Nat /\ Len(g) \in Nat
  BY ConcatProperties
<1>2. SUFFICES ASSUME NEW i \in 1..Len(f \o g), \A h \in 1..i : (f \o g)[h] # Torn
               PROVE  (f \o g)[i] \in ToSet(Readable(f)) \cup (ToSet(g) \ {Torn})
  <2>1. ToSet(Readable(f \o g)) =
           { (f \o g)[i] : i \in { j \in 1..Len(f \o g) : \A h \in 1..j : (f \o g)[h] # Torn } }
    BY <1>1, ReadableElements, Zenon
  <2>. QED
    BY <1>2, <2>1, Zenon
<1>3. CASE i <= Len(f)
  <2>1. i \in 1..Len(f) /\ \A h \in 1..i : f[h] # Torn
    BY <1>1, <1>2, <1>3
  <2>. QED
    BY <1>1, <2>1, ReadableElements
<1>4. CASE i > Len(f)
  <2>1. i - Len(f) \in 1..Len(g) /\ (f \o g)[i] = g[i - Len(f)] /\ (f \o g)[i] # Torn
    BY <1>1, <1>2, <1>4
  <2>. QED
    BY <2>1 DEF ToSet
<1>. QED
  BY <1>1, <1>3, <1>4

\* The counter of a restarted process is past every id that can be read.
LEMMA CounterIsPast ==
    ASSUME NEW counter \in Nat, NEW R, NEW recs \in Seq(R), \A r \in R : r.tx \in Nat
    PROVE  /\ CounterAfter(counter, recs) \in Nat
           /\ CounterAfter(counter, recs) >= counter
           /\ \A r \in ToSet(recs) : r.tx < CounterAfter(counter, recs)
<1> DEFINE n == Len(recs)
           next == [i \in 1..n |-> recs[i].tx + 1]
           S == { t + 1 : t \in TxIds(recs) }
           T == {counter} \cup S
<1>1. n \in Nat /\ DOMAIN recs = 1..n /\ \A i \in 1..n : recs[i].tx \in Nat
  OBVIOUS
<1>2. IsFiniteSet(1..n)
  <2>. HIDE DEF n
  <2>1. 1 \in Int /\ n \in Int
    BY <1>1
  <2>. QED
    BY <2>1, FS_Interval
<1>3. next \in Surjection(1..n, S)
  BY <1>1 DEF Surjection, TxIds
<1>4. IsFiniteSet(S)
  BY <1>2, <1>3, FS_Surjection
<1>5. IsFiniteSet(T) /\ T # {} /\ T \in SUBSET Nat
  <2>1. IsFiniteSet(S \cup {counter})
    BY <1>4, FS_AddElement
  <2>2. T = S \cup {counter}
    OBVIOUS
  <2>. QED
    <3>1. S \in SUBSET Nat
      BY <1>1 DEF TxIds
    <3>. HIDE DEF S
    <3>. QED
      BY <2>1, <2>2, <3>1
<1>6. Max(T) \in T /\ \A m \in T : Max(T) >= m
  BY <1>5, MaxOfNaturals
<1>7. CounterAfter(counter, recs) = Max(T)
  BY DEF CounterAfter
<1>8. ASSUME NEW r \in ToSet(recs) PROVE r.tx + 1 \in T /\ r.tx \in Nat
  BY <1>1, <1>8 DEF ToSet, TxIds
<1>9. counter \in T
  OBVIOUS
<1>. HIDE DEF T
<1>10. Max(T) \in Nat /\ Max(T) >= counter
  BY <1>5, <1>6, <1>9
<1>11. ASSUME NEW r \in ToSet(recs) PROVE r.tx < Max(T)
  <2>1. r.tx \in Nat /\ Max(T) >= r.tx + 1
    BY <1>6, <1>8
  <2>. QED
    BY <1>10, <2>1
<1>. QED
  BY <1>7, <1>10, <1>11

-----------------------------------------------------------------------------
(* The loops of recovery *)

\* The loop over the entries of one transaction: Inv[i] is what may hold of the
\* store behind the first i records of the file.
LEMMA ReplayedTxLoop ==
    ASSUME NEW store, NEW recs, Len(recs) \in Nat, NEW t, NEW Inv, store \in Inv[0],
           \A i \in 1..Len(recs) : \A s \in Inv[i - 1] :
              (IF recs[i].tx = t /\ IsOp(recs[i]) THEN Upsert(s, recs[i]) ELSE s) \in Inv[i]
    PROVE  ReplayedTx(store, recs, t) \in Inv[Len(recs)]
<1> DEFINE n == Len(recs)
           Body(i, s) == IF recs[i].tx = t /\ IsOp(recs[i]) THEN Upsert(s, recs[i]) ELSE s
           F(g) == [i \in 0..n |-> IF i = 0 THEN store
                                   ELSE IF recs[i].tx = t /\ IsOp(recs[i])
                                   THEN Upsert(g[i - 1], recs[i]) ELSE g[i - 1]]
           S == UNION { Inv[i] : i \in 0..n }
           step == [x \in (1..n) \X S |-> Body(x[1], x[2])]
<1>1. \A i \in 1..n : \A s \in Inv[i - 1] : step[<<i, s>>] = Body(i, s) /\ Body(i, s) \in Inv[i]
  <2>1. \A i \in 1..n : i - 1 \in 0..n
    OBVIOUS
  <2>2. \A i \in 1..n : \A s \in Inv[i - 1] : s \in S
    BY <2>1
  <2>. QED
    BY <2>2
<1>2. PICK g : RunOf(g, n, Inv, store, step)
  <2>1. Keeps(n, Inv, step)
    <3>1. ASSUME NEW i \in 1..n, NEW s \in Inv[i - 1] PROVE step[<<i, s>>] \in Inv[i]
      <4>1. step[<<i, s>>] = Body(i, s) /\ Body(i, s) \in Inv[i]
        BY <1>1
      <4>. HIDE DEF step, Body
      <4>. QED
        BY <4>1
    <3>. HIDE DEF step
    <3>. QED
      BY <3>1 DEF Keeps
  <2>2. n \in Nat /\ store \in Inv[0]
    OBVIOUS
  <2>. HIDE DEF step, n
  <2>. QED
    BY <2>1, <2>2, LoopRuns
<1>3. g = F(g)
  <2>. HIDE DEF step
  <2>0. /\ g = [i \in 0..n |-> g[i]] /\ g[0] = store
        /\ \A i \in 1..n : g[i - 1] \in Inv[i - 1] /\ g[i] = step[<<i, g[i - 1]>>]
    BY <1>2 DEF RunOf
  <2>1. \A i \in 1..n : g[i] = Body(i, g[i - 1])
    BY <1>1, <2>0
  <2>2. \A i \in 0..n : g[i] = F(g)[i]
    BY <2>0, <2>1
  <2>3. F(g) = [i \in 0..n |-> F(g)[i]]
    OBVIOUS
  <2>. QED
    BY <2>0, <2>2, <2>3
<1> DEFINE after == CHOOSE f : f = F(f)
<1>4. after = F(after)
  BY <1>3
<1>. HIDE DEF after
<1>5. ReplayedTx(store, recs, t) = after[n]
  BY DEF ReplayedTx, after
<1> DEFINE T == { m \in Nat : m <= n => after[m] \in Inv[m] }
<1>6. 0 \in T
  <2>1. 0 \in 0..n
    OBVIOUS
  <2>. QED
    BY <1>4, <2>1
<1>7. ASSUME NEW m \in Nat, m \in T PROVE m + 1 \in T
  <2>1. SUFFICES ASSUME m + 1 <= n PROVE after[m + 1] \in Inv[m + 1]
    OBVIOUS
  <2>2. m + 1 \in 1..n /\ (m + 1) - 1 = m /\ after[m] \in Inv[m] /\ m + 1 \in 0..n /\ m + 1 # 0
    BY <1>7, <2>1
  <2>3. after[m + 1] = Body(m + 1, after[(m + 1) - 1])
    BY <1>4, <2>2
  <2>. QED
    BY <1>1, <2>2, <2>3
<1>8. n \in T
  <2>. HIDE DEF T
  <2>. QED
    BY <1>6, <1>7, SetInduction
<1>. QED
  BY <1>5, <1>8

\* The loop over the committed transactions, one id per round.
LEMMA ReplayedLoop ==
    ASSUME NEW store, NEW recs, NEW n \in Nat, n = LastId(recs) + 1, LastId(recs) \in Nat,
           NEW Inv, store \in Inv[0],
           \A i \in 1..n : \A s \in Inv[i - 1] :
              (IF i - 1 \in CommittedIds(recs) THEN ReplayedTx(s, recs, i - 1) ELSE s) \in Inv[i]
    PROVE  Replayed(store, recs) \in Inv[n]
<1> DEFINE ids == CommittedIds(recs)
           Body(i, s) == IF i - 1 \in ids THEN ReplayedTx(s, recs, i - 1) ELSE s
           F(g) == [i \in 0..n |-> IF i = 0 THEN store
                                   ELSE IF i - 1 \in ids THEN ReplayedTx(g[i - 1], recs, i - 1)
                                   ELSE g[i - 1]]
           S == UNION { Inv[i] : i \in 0..n }
           step == [x \in (1..n) \X S |-> Body(x[1], x[2])]
           after == CHOOSE f : f = F(f)
<1>5. Replayed(store, recs) = after[n]
  BY DEF Replayed
<1>. HIDE DEF ids
<1>1. \A i \in 1..n : \A s \in Inv[i - 1] : step[<<i, s>>] = Body(i, s) /\ Body(i, s) \in Inv[i]
  <2>1. \A i \in 1..n : i - 1 \in 0..n
    OBVIOUS
  <2>2. \A i \in 1..n : \A s \in Inv[i - 1] : s \in S
    BY <2>1
  <2>. QED
    BY <2>2 DEF ids
<1>2. PICK g : RunOf(g, n, Inv, store, step)
  <2>1. Keeps(n, Inv, step)
    <3>1. ASSUME NEW i \in 1..n, NEW s \in Inv[i - 1] PROVE step[<<i, s>>] \in Inv[i]
      <4>1. step[<<i, s>>] = Body(i, s) /\ Body(i, s) \in Inv[i]
        BY <1>1
      <4>. HIDE DEF step, Body
      <4>. QED
        BY <4>1
    <3>. HIDE DEF step
    <3>. QED
      BY <3>1 DEF Keeps
  <2>2. n \in Nat /\ store \in Inv[0]
    OBVIOUS
  <2>. HIDE DEF step
  <2>. QED
    BY <2>1, <2>2, LoopRuns
<1>3. g = F(g)
  <2>. HIDE DEF step
  <2>0. /\ g = [i \in 0..n |-> g[i]] /\ g[0] = store
        /\ \A i \in 1..n : g[i - 1] \in Inv[i - 1] /\ g[i] = step[<<i, g[i - 1]>>]
    BY <1>2 DEF RunOf
  <2>1. \A i \in 1..n : g[i] = Body(i, g[i - 1])
    BY <1>1, <2>0
  <2>2. \A i \in 0..n : g[i] = F(g)[i]
    <3>1. F(g)[0] = g[0]
      BY <2>0
    <3>2. \A i \in 1..n : F(g)[i] = Body(i, g[i - 1])
      OBVIOUS
    <3>3. \A i \in 0..n : i = 0 \/ i \in 1..n
      OBVIOUS
    <3>. QED
      BY <2>1, <3>1, <3>2, <3>3
  <2>3. F(g) = [i \in 0..n |-> F(g)[i]]
    OBVIOUS
  <2>. QED
    BY <2>0, <2>2, <2>3
<1>4. after = F(after)
  BY <1>3
<1>. HIDE DEF after
<1> DEFINE T == { m \in Nat : m <= n => after[m] \in Inv[m] }
<1>6. 0 \in T
  <2>1. 0 \in 0..n
    OBVIOUS
  <2>. QED
    BY <1>4, <2>1
<1>7. ASSUME NEW m \in Nat, m \in T PROVE m + 1 \in T
  <2>1. SUFFICES ASSUME m + 1 <= n PROVE after[m + 1] \in Inv[m + 1]
    OBVIOUS
  <2>2. m + 1 \in 1..n /\ (m + 1) - 1 = m /\ after[m] \in Inv[m] /\ m + 1 \in 0..n /\ m + 1 # 0
    BY <1>7, <2>1
  <2>3. after[m + 1] = Body(m + 1, after[m])
    BY <1>4, <2>2
  <2>4. Body(m + 1, after[m]) \in Inv[m + 1]
    <3>1. \A s \in Inv[(m + 1) - 1] : Body(m + 1, s) \in Inv[m + 1]
      BY <1>1, <2>2
    <3>. HIDE DEF Body
    <3>. QED
      BY <2>2, <3>1
  <2>. QED
    BY <2>3, <2>4
<1>8. n \in T
  <2>. HIDE DEF T
  <2>. QED
    BY <1>6, <1>7, SetInduction
<1>. QED
  BY <1>5, <1>8

\* The loop of checkpoint() over the file.
LEMMA NewerLoop ==
    ASSUME NEW recs, NEW from, Len(recs) \in Nat, NEW Inv, <<>> \in Inv[0],
           \A i \in 1..Len(recs) : \A s \in Inv[i - 1] :
              (IF recs[i].tx > from THEN Append(s, recs[i]) ELSE s) \in Inv[i]
    PROVE  Newer(recs, from) \in Inv[Len(recs)]
<1> DEFINE n == Len(recs)
           Body(i, s) == IF recs[i].tx > from THEN Append(s, recs[i]) ELSE s
           F(g) == [i \in 0..n |-> IF i = 0 THEN <<>>
                                   ELSE IF recs[i].tx > from THEN Append(g[i - 1], recs[i]) ELSE g[i - 1]]
           S == UNION { Inv[i] : i \in 0..n }
           step == [x \in (1..n) \X S |-> Body(x[1], x[2])]
<1>0. n \in Nat
  OBVIOUS
<1>1. \A i \in 1..n : \A s \in Inv[i - 1] : step[<<i, s>>] = Body(i, s) /\ Body(i, s) \in Inv[i]
  <2>1. \A i \in 1..n : i - 1 \in 0..n
    BY <1>0
  <2>2. \A i \in 1..n : \A s \in Inv[i - 1] : s \in S
    BY <2>1
  <2>. QED
    BY <2>2
<1>2. PICK g : RunOf(g, n, Inv, <<>>, step)
  <2>1. Keeps(n, Inv, step)
    <3>1. ASSUME NEW i \in 1..n, NEW s \in Inv[i - 1] PROVE step[<<i, s>>] \in Inv[i]
      <4>1. step[<<i, s>>] = Body(i, s) /\ Body(i, s) \in Inv[i]
        BY <1>1
      <4>. HIDE DEF step, Body
      <4>. QED
        BY <4>1
    <3>. HIDE DEF step
    <3>. QED
      BY <3>1 DEF Keeps
  <2>2. n \in Nat /\ <<>> \in Inv[0]
    OBVIOUS
  <2>. HIDE DEF step, n
  <2>. QED
    BY <2>1, <2>2, LoopRuns
<1>3. g = F(g)
  <2>. HIDE DEF step
  <2>0. /\ g = [i \in 0..n |-> g[i]] /\ g[0] = <<>>
        /\ \A i \in 1..n : g[i - 1] \in Inv[i - 1] /\ g[i] = step[<<i, g[i - 1]>>]
    BY <1>2 DEF RunOf
  <2>1. \A i \in 1..n : g[i] = Body(i, g[i - 1])
    BY <1>1, <2>0
  <2>2. \A i \in 0..n : g[i] = F(g)[i]
    <3>1. F(g)[0] = g[0]
      BY <1>0, <2>0
    <3>2. \A i \in 1..n : F(g)[i] = Body(i, g[i - 1])
      BY <1>0
    <3>3. \A i \in 0..n : i = 0 \/ i \in 1..n
      BY <1>0
    <3>. QED
      BY <2>1, <3>1, <3>2, <3>3
  <2>3. F(g) = [i \in 0..n |-> F(g)[i]]
    OBVIOUS
  <2>. QED
    BY <2>0, <2>2, <2>3
<1> DEFINE after == CHOOSE f : f = F(f)
<1>4. after = F(after)
  BY <1>3
<1>. HIDE DEF after
<1>5. Newer(recs, from) = after[n]
  BY DEF Newer, after
<1> DEFINE T == { m \in Nat : m <= n => after[m] \in Inv[m] }
<1>6. 0 \in T
  <2>1. 0 \in 0..n
    BY <1>0
  <2>. QED
    BY <1>4, <2>1
<1>7. ASSUME NEW m \in Nat, m \in T PROVE m + 1 \in T
  <2>1. SUFFICES ASSUME m + 1 <= n PROVE after[m + 1] \in Inv[m + 1]
    OBVIOUS
  <2>2. m + 1 \in 1..n /\ (m + 1) - 1 = m /\ after[m] \in Inv[m] /\ m + 1 \in 0..n /\ m + 1 # 0
    BY <1>0, <1>7, <2>1
  <2>3. after[m + 1] = Body(m + 1, after[(m + 1) - 1])
    BY <1>4, <2>2
  <2>. QED
    BY <1>1, <2>2, <2>3
<1>8. n \in T
  <2>. HIDE DEF T
  <2>. QED
    BY <1>0, <1>6, <1>7, SetInduction
<1>. QED
  BY <1>5, <1>8

-----------------------------------------------------------------------------
(* What recovery and checkpoint() compute *)

LEMMA PlacesFinite ==
    ASSUME NEW recs, Len(recs) \in Nat, NEW E, E \subseteq 1..Len(recs)
    PROVE  IsFiniteSet(E)
<1>1. IsFiniteSet(1..Len(recs))
  BY FS_Interval
<1>. QED
  BY <1>1, FS_Subset

LEMMA IdsFinite ==
    ASSUME NEW R, NEW recs \in Seq(R), \A r \in R : r.tx \in Nat
    PROVE  IsFiniteSet(TxIds(recs)) /\ TxIds(recs) \in SUBSET Nat
<1> DEFINE id == [i \in 1..Len(recs) |-> recs[i].tx]
<1>1. Len(recs) \in Nat /\ DOMAIN recs = 1..Len(recs) /\ \A i \in 1..Len(recs) : recs[i].tx \in Nat
  OBVIOUS
<1>2. IsFiniteSet(1..Len(recs))
  BY <1>1, PlacesFinite
<1>3. id \in Surjection(1..Len(recs), TxIds(recs))
  BY <1>1 DEF Surjection, TxIds
<1>. QED
  BY <1>1, <1>2, <1>3, FS_Surjection DEF TxIds

LEMMA LastIdIs ==
    ASSUME NEW R, NEW recs \in Seq(R), \A r \in R : r.tx \in Nat
    PROVE  LastId(recs) \in Nat /\ \A t \in TxIds(recs) : t <= LastId(recs)
<1> DEFINE T == {0} \cup TxIds(recs)
<1>1. IsFiniteSet(TxIds(recs)) /\ TxIds(recs) \in SUBSET Nat
  BY IdsFinite
<1>2. IsFiniteSet(T) /\ T \in SUBSET Nat /\ T # {}
  <2>1. IsFiniteSet(TxIds(recs) \cup {0})
    BY <1>1, FS_AddElement
  <2>2. T = TxIds(recs) \cup {0} /\ T \in SUBSET Nat /\ T # {}
    BY <1>1
  <2>. HIDE DEF T
  <2>. QED
    BY <2>1, <2>2
<1>3. Max(T) \in T /\ \A t \in T : Max(T) >= t
  BY <1>2, MaxOfNaturals
<1>4. LastId(recs) = Max(T)
  BY DEF LastId
<1>5. TxIds(recs) \subseteq T
  OBVIOUS
<1>. HIDE DEF T
<1>. QED
  BY <1>2, <1>3, <1>4, <1>5

\* Some record says that a committed transaction is.
LEMMA CommittedHas ==
    ASSUME NEW R, NEW recs \in Seq(R), NEW t \in CommittedIds(recs)
    PROVE  \E r \in ToSet(recs) : r.tx = t /\ r.kind = "commit"
<1> DEFINE ends == { i \in DOMAIN recs : recs[i].tx = t /\ ~IsOp(recs[i]) }
<1>1. DOMAIN recs = 1..Len(recs) /\ Len(recs) \in Nat
  OBVIOUS
<1>2. ActionOf(recs, t) = "commit"
  BY DEF CommittedIds
<1>3. ends # {} /\ recs[Max(ends)].kind = "commit"
  BY <1>2 DEF ActionOf
<1>4. ends \subseteq 1..Len(recs) /\ ends \in SUBSET Nat
  BY <1>1
<1>5. IsFiniteSet(ends)
  BY <1>1, <1>4, PlacesFinite
<1>6. Max(ends) \in ends
  <2>. HIDE DEF ends
  <2>. QED
    BY <1>3, <1>4, <1>5, MaxOfNaturals
<1>. QED
  BY <1>3, <1>6 DEF ToSet

\* A transaction that has a Commit record, and no end record of another kind,
\* is committed.
LEMMA CommittedIf ==
    ASSUME NEW R, NEW recs \in Seq(R), NEW c \in ToSet(recs), c.kind = "commit",
           \A r \in ToSet(recs) : r.tx = c.tx /\ ~IsOp(r) => r.kind = "commit"
    PROVE  c.tx \in CommittedIds(recs)
<1> DEFINE ends == { i \in DOMAIN recs : recs[i].tx = c.tx /\ ~IsOp(recs[i]) }
<1>1. DOMAIN recs = 1..Len(recs) /\ Len(recs) \in Nat
  OBVIOUS
<1>2. PICK i \in DOMAIN recs : recs[i] = c
  BY DEF ToSet
<1>3. ~IsOp(c) /\ c.tx \in TxIds(recs)
  BY <1>2 DEF IsOp, OpKinds, TxIds
<1>4. ends \subseteq 1..Len(recs) /\ ends \in SUBSET Nat /\ ends # {}
  BY <1>1, <1>2, <1>3
<1>5. IsFiniteSet(ends)
  BY <1>1, <1>4, PlacesFinite
<1>6. Max(ends) \in ends
  <2>. HIDE DEF ends
  <2>. QED
    BY <1>4, <1>5, MaxOfNaturals
<1>7. recs[Max(ends)].kind = "commit"
  BY <1>6 DEF ToSet
<1>8. ActionOf(recs, c.tx) = "commit"
  BY <1>4, <1>7 DEF ActionOf
<1>. QED
  BY <1>3, <1>8 DEF CommittedIds

\* The replay of one transaction, and of all, stays among the stores X when
\* each operation it applies does.
LEMMA ReplayedTxStays ==
    ASSUME NEW R, NEW recs \in Seq(R), NEW t, NEW X, NEW store \in X,
           \A r \in ToSet(recs), s \in X : IsOp(r) /\ r.tx = t => Upsert(s, r) \in X
    PROVE  ReplayedTx(store, recs, t) \in X
<1> DEFINE Inv == [i \in 0..Len(recs) |-> X]
<1>1. Len(recs) \in Nat /\ \A i \in 1..Len(recs) : recs[i] \in ToSet(recs)
  BY DEF ToSet
<1>2. \A i \in 1..Len(recs) : i - 1 \in 0..Len(recs) /\ i \in 0..Len(recs)
  BY <1>1
<1>3. store \in Inv[0] /\ Inv[Len(recs)] = X
  BY <1>1
<1>4. \A i \in 1..Len(recs) : \A s \in Inv[i - 1] :
         (IF recs[i].tx = t /\ IsOp(recs[i]) THEN Upsert(s, recs[i]) ELSE s) \in Inv[i]
  BY <1>1, <1>2
<1>. HIDE DEF Inv
<1>5. ReplayedTx(store, recs, t) \in Inv[Len(recs)]
  BY <1>1, <1>3, <1>4, ReplayedTxLoop
<1>. QED
  BY <1>3, <1>5

LEMMA ReplayedStays ==
    ASSUME NEW R, NEW recs \in Seq(R), \A r \in R : r.tx \in Nat, NEW X, NEW store \in X,
           \A r \in ToSet(recs), s \in X :
              IsOp(r) /\ r.tx \in CommittedIds(recs) => Upsert(s, r) \in X
    PROVE  Replayed(store, recs) \in X
<1> DEFINE n == LastId(recs) + 1
           Inv == [i \in 0..n |-> X]
<1>1. LastId(recs) \in Nat /\ n \in Nat
  BY LastIdIs
<1>2. \A i \in 1..n : i - 1 \in 0..n /\ i \in 0..n
  BY <1>1
<1>3. store \in Inv[0] /\ Inv[n] = X
  BY <1>1
<1>4. ASSUME NEW i \in 1..n, NEW s \in Inv[i - 1]
      PROVE  (IF i - 1 \in CommittedIds(recs) THEN ReplayedTx(s, recs, i - 1) ELSE s) \in Inv[i]
  <2>1. s \in X /\ Inv[i] = X
    BY <1>2, <1>4
  <2>2. ASSUME i - 1 \in CommittedIds(recs) PROVE ReplayedTx(s, recs, i - 1) \in X
    BY <2>1, <2>2, ReplayedTxStays
  <2>. QED
    BY <2>1, <2>2
<1>5. n = LastId(recs) + 1
  OBVIOUS
<1>. HIDE DEF Inv, n
<1>6. Replayed(store, recs) \in Inv[n]
  BY <1>1, <1>3, <1>4, <1>5, ReplayedLoop
<1>. QED
  BY <1>3, <1>6

\* checkpoint() keeps the records of the transactions past the marker, all of
\* each, so what is an end record for it is one for recovery.
LEMMA NewerIs ==
    ASSUME NEW R, NEW recs \in Seq(R), NEW from
    PROVE  /\ Newer(recs, from) \in Seq(R)
           /\ ToSet(Newer(recs, from)) = { r \in ToSet(recs) : r.tx > from }
<1> DEFINE n == Len(recs)
           Kept(i) == { recs[j] : j \in { h \in 1..i : recs[h].tx > from } }
           Inv == [i \in 0..n |-> { s \in Seq(R) : ToSet(s) = Kept(i) }]
<1>1. n \in Nat /\ \A i \in 1..n : recs[i] \in R
  OBVIOUS
<1>2. <<>> \in Inv[0]
  <2>1. ToSet(<<>>) = {} /\ Kept(0) = {}
    BY DEF ToSet
  <2>. QED
    BY <1>1, <2>1
<1>3. ASSUME NEW i \in 1..n, NEW s \in Inv[i - 1]
      PROVE  (IF recs[i].tx > from THEN Append(s, recs[i]) ELSE s) \in Inv[i]
  <2>1. i - 1 \in 0..n /\ i \in 0..n /\ i \in Nat
    BY <1>1
  <2>2. s \in Seq(R) /\ ToSet(s) = Kept(i - 1)
    BY <1>3, <2>1
  <2>3. Append(s, recs[i]) \in Seq(R) /\ ToSet(Append(s, recs[i])) = ToSet(s) \cup {recs[i]}
    BY <1>1, <2>2, AppendElements
  <2>4. \A h : h \in 1..i <=> h = i \/ h \in 1..(i - 1)
    BY <2>1
  <2>5. Kept(i) = IF recs[i].tx > from THEN Kept(i - 1) \cup {recs[i]} ELSE Kept(i - 1)
    BY <2>4
  <2>. HIDE DEF Kept
  <2>. QED
    BY <2>1, <2>2, <2>3, <2>5
<1>4. Inv[n] = { s \in Seq(R) : ToSet(s) = Kept(n) }
  BY <1>1
<1>5. Newer(recs, from) \in Inv[n]
  <2>. HIDE DEF Inv
  <2>. QED
    BY <1>1, <1>2, <1>3, NewerLoop
<1>6. Kept(n) = { r \in ToSet(recs) : r.tx > from }
  BY DEF ToSet
<1>. QED
  BY <1>4, <1>5, <1>6

-----------------------------------------------------------------------------
(* The last write of a key *)

\* What an operation leaves of its key.
ValueOf(r) == IF r.kind = "delete" THEN Missing ELSE r.value

\* Where the first n records write key k for one of the transactions ids.
WritesTo(recs, n, ids, k) ==
    { i \in 1..n : IsOp(recs[i]) /\ recs[i].tx \in ids /\ recs[i].key = k }

LastOf(places, i) == i \in places /\ \A j \in places : j <= i

\* After those writes, in the order of the records, a key that was old is v.
LastWrite(recs, n, ids, k, old, v) ==
    \/ WritesTo(recs, n, ids, k) = {} /\ v = old
    \/ \E i \in WritesTo(recs, n, ids, k) :
          LastOf(WritesTo(recs, n, ids, k), i) /\ v = ValueOf(recs[i])

\* The writes of a key are in the order of the transaction ids.
InOrder(recs) ==
    \A i, j \in 1..Len(recs) :
        i < j /\ IsOp(recs[i]) /\ IsOp(recs[j]) /\ recs[i].key = recs[j].key
            => recs[i].tx <= recs[j].tx

LEMMA LastWriteUnique ==
    ASSUME NEW recs, NEW n \in Nat, NEW ids, NEW k, NEW old, NEW v, NEW w,
           LastWrite(recs, n, ids, k, old, v), LastWrite(recs, n, ids, k, old, w)
    PROVE  v = w
<1> DEFINE W == WritesTo(recs, n, ids, k)
<1>1. W \subseteq 1..n
  BY DEF WritesTo
<1>2. \A i, j \in W : LastOf(W, i) /\ LastOf(W, j) => i = j
  BY <1>1 DEF LastOf
<1>. HIDE DEF W
<1>3. /\ (W = {} /\ v = old) \/ \E i \in W : LastOf(W, i) /\ v = ValueOf(recs[i])
      /\ (W = {} /\ w = old) \/ \E i \in W : LastOf(W, i) /\ w = ValueOf(recs[i])
  BY DEF LastWrite, W
<1>. QED
  BY <1>2, <1>3

LEMMA UpsertIs ==
    ASSUME NEW V, NEW s \in [Keys -> V], NEW r, ValueOf(r) \in V
    PROVE  /\ Upsert(s, r) \in [Keys -> V]
           /\ \A k \in Keys : Upsert(s, r)[k] = IF k = r.key THEN ValueOf(r) ELSE s[k]
BY DEF Upsert, ValueOf

\* One more record is replayed.
LEMMA LastWriteNext ==
    ASSUME NEW recs, NEW n \in Nat, NEW ids, NEW k, NEW old, NEW v,
           LastWrite(recs, n, ids, k, old, v)
    PROVE  LastWrite(recs, n + 1, ids, k, old,
              IF IsOp(recs[n + 1]) /\ recs[n + 1].tx \in ids /\ recs[n + 1].key = k
              THEN ValueOf(recs[n + 1]) ELSE v)
<1> DEFINE W == WritesTo(recs, n, ids, k)
           X == WritesTo(recs, n + 1, ids, k)
           new == IsOp(recs[n + 1]) /\ recs[n + 1].tx \in ids /\ recs[n + 1].key = k
<1>1. W \subseteq 1..n /\ n + 1 \notin 1..n /\ \A i : i \in 1..(n + 1) <=> i \in 1..n \/ i = n + 1
  BY DEF WritesTo
<1>2. X = IF new THEN W \cup {n + 1} ELSE W
  BY <1>1 DEF WritesTo
<1>3. (W = {} /\ v = old) \/ \E i \in W : LastOf(W, i) /\ v = ValueOf(recs[i])
  BY DEF LastWrite
<1>. HIDE DEF W, X, new
<1>4. CASE new
  <2>1. LastOf(X, n + 1) /\ n + 1 \in X
    BY <1>1, <1>2, <1>4 DEF LastOf
  <2>. QED
    BY <1>4, <2>1 DEF LastWrite, X, new
<1>5. CASE ~new
  BY <1>2, <1>3, <1>5 DEF LastWrite, X, new
<1>. QED
  BY <1>4, <1>5

\* The replay of one transaction leaves its last writes.
LEMMA ReplayedTxIs ==
    ASSUME NEW R, NEW recs \in Seq(R), NEW t, NEW V, NEW s \in [Keys -> V],
           \A r \in R : ValueOf(r) \in V
    PROVE  /\ ReplayedTx(s, recs, t) \in [Keys -> V]
           /\ \A k \in Keys :
                 LastWrite(recs, Len(recs), {t}, k, s[k], ReplayedTx(s, recs, t)[k])
<1> DEFINE n == Len(recs)
           Inv == [i \in 0..n |-> { x \in [Keys -> V] :
                      \A k \in Keys : LastWrite(recs, i, {t}, k, s[k], x[k]) }]
<1>1. n \in Nat /\ \A i \in 1..n : recs[i] \in R
  OBVIOUS
<1>2. s \in Inv[0]
  <2>1. \A k : WritesTo(recs, 0, {t}, k) = {}
    BY DEF WritesTo
  <2>2. \A k \in Keys : LastWrite(recs, 0, {t}, k, s[k], s[k])
    BY <2>1 DEF LastWrite
  <2>3. 0 \in 0..n
    BY <1>1
  <2>. QED
    BY <2>2, <2>3
<1>3. ASSUME NEW i \in 1..n, NEW x \in Inv[i - 1]
      PROVE  (IF recs[i].tx = t /\ IsOp(recs[i]) THEN Upsert(x, recs[i]) ELSE x) \in Inv[i]
  <2> DEFINE y == IF recs[i].tx = t /\ IsOp(recs[i]) THEN Upsert(x, recs[i]) ELSE x
  <2>1. i - 1 \in 0..n /\ i \in 0..n /\ i - 1 \in Nat /\ (i - 1) + 1 = i
    BY <1>1
  <2>2. x \in [Keys -> V] /\ \A k \in Keys : LastWrite(recs, i - 1, {t}, k, s[k], x[k])
    BY <2>1
  <2>3. ValueOf(recs[i]) \in V
    BY <1>1
  <2>4. /\ y \in [Keys -> V]
        /\ \A k \in Keys : y[k] = IF IsOp(recs[i]) /\ recs[i].tx \in {t} /\ recs[i].key = k
                                  THEN ValueOf(recs[i]) ELSE x[k]
    <3>1. CASE recs[i].tx = t /\ IsOp(recs[i])
      <4>1. y = Upsert(x, recs[i])
        BY <3>1
      <4>2. /\ Upsert(x, recs[i]) \in [Keys -> V]
            /\ \A k \in Keys : Upsert(x, recs[i])[k] =
                  IF k = recs[i].key THEN ValueOf(recs[i]) ELSE x[k]
        <5>1. ASSUME NEW r, ValueOf(r) \in V
              PROVE  /\ Upsert(x, r) \in [Keys -> V]
                     /\ \A k \in Keys : Upsert(x, r)[k] = IF k = r.key THEN ValueOf(r) ELSE x[k]
          <6>1. x \in [Keys -> V]
            BY <2>2
          <6>. QED
            BY ONLY <5>1, <6>1, UpsertIs
        <5>. QED
          BY ONLY <2>3, <5>1
      <4>. HIDE DEF y
      <4>. QED
        BY <3>1, <4>1, <4>2
    <3>2. CASE ~(recs[i].tx = t /\ IsOp(recs[i]))
      <4>1. y = x
        BY <3>2, Zenon
      <4>. HIDE DEF y
      <4>. QED
        BY <2>2, <3>2, <4>1
    <3>. QED
      BY <3>1, <3>2
  <2>5. ASSUME NEW k \in Keys PROVE LastWrite(recs, i, {t}, k, s[k], y[k])
    <3>1. LastWrite(recs, (i - 1) + 1, {t}, k, s[k],
              IF IsOp(recs[(i - 1) + 1]) /\ recs[(i - 1) + 1].tx \in {t} /\ recs[(i - 1) + 1].key = k
              THEN ValueOf(recs[(i - 1) + 1]) ELSE x[k])
      BY <2>1, <2>2, LastWriteNext
    <3>. HIDE DEF y
    <3>. QED
      BY <2>1, <2>4, <3>1
  <2>. HIDE DEF y
  <2>6. y \in { z \in [Keys -> V] : \A k \in Keys : LastWrite(recs, i, {t}, k, s[k], z[k]) }
    BY <2>4, <2>5
  <2>7. y \in Inv[i]
    BY <2>1, <2>6
  <2>. QED
    BY <2>7 DEF y
<1>4. Inv[n] = { x \in [Keys -> V] : \A k \in Keys : LastWrite(recs, n, {t}, k, s[k], x[k]) }
  BY <1>1
<1>5. ReplayedTx(s, recs, t) \in Inv[n]
  <2>. HIDE DEF Inv
  <2>. QED
    BY <1>1, <1>2, <1>3, ReplayedTxLoop
<1>. QED
  BY <1>4, <1>5

\* A transaction writes a key behind those with lower ids.
LEMMA LastWriteThen ==
    ASSUME NEW recs, NEW n \in Nat, n = Len(recs), InOrder(recs),
           \A i \in 1..n : recs[i].tx \in Nat,
           NEW t \in Nat, NEW ids, NEW k,
           \A i \in WritesTo(recs, n, ids, k), j \in WritesTo(recs, n, {t}, k) : recs[i].tx < t,
           NEW old, NEW mid, NEW v,
           LastWrite(recs, n, ids, k, old, mid), LastWrite(recs, n, {t}, k, mid, v)
    PROVE  LastWrite(recs, n, ids \cup {t}, k, old, v)
<1> DEFINE W == WritesTo(recs, n, ids, k)
           X == WritesTo(recs, n, {t}, k)
           Y == WritesTo(recs, n, ids \cup {t}, k)
<1>1. Y = W \cup X /\ X \subseteq 1..n /\ W \subseteq 1..n
  BY DEF WritesTo
<1>2. ASSUME NEW i \in X, NEW j \in W PROVE j <= i
  <2>1. /\ recs[i].tx = t /\ recs[j].tx < t /\ i \in 1..n /\ j \in 1..n
        /\ IsOp(recs[i]) /\ IsOp(recs[j]) /\ recs[i].key = recs[j].key
    BY DEF WritesTo
  <2>2. ~(recs[i].tx <= recs[j].tx)
    BY <2>1
  <2>3. ~(i < j)
    BY <2>1, <2>2 DEF InOrder
  <2>. QED
    BY <2>1, <2>3
<1>3. /\ (W = {} /\ mid = old) \/ \E i \in W : LastOf(W, i) /\ mid = ValueOf(recs[i])
      /\ (X = {} /\ v = mid) \/ \E i \in X : LastOf(X, i) /\ v = ValueOf(recs[i])
  BY DEF LastWrite
<1>. HIDE DEF W, X, Y
<1>4. CASE X = {} /\ v = mid
  BY <1>1, <1>3, <1>4 DEF LastWrite, Y
<1>5. ASSUME NEW i \in X, LastOf(X, i), v = ValueOf(recs[i])
      PROVE  LastWrite(recs, n, ids \cup {t}, k, old, v)
  <2>1. LastOf(Y, i) /\ i \in Y
    BY <1>1, <1>2, <1>5 DEF LastOf
  <2>. QED
    BY <1>5, <2>1 DEF LastWrite, Y
<1>. QED
  BY <1>3, <1>4, <1>5

\* What recovery rebuilds, and a checkpoint replays: of every key the last write
\* of a committed transaction.
LEMMA ReplayedIs ==
    ASSUME NEW R, NEW recs \in Seq(R), \A r \in R : r.tx \in Nat, InOrder(recs),
           NEW V, NEW store \in [Keys -> V], \A r \in R : ValueOf(r) \in V
    PROVE  /\ Replayed(store, recs) \in [Keys -> V]
           /\ \A k \in Keys : LastWrite(recs, Len(recs), CommittedIds(recs), k,
                                        store[k], Replayed(store, recs)[k])
<1> DEFINE n == LastId(recs) + 1
           m == Len(recs)
           Below(i) == { id \in CommittedIds(recs) : id < i }
           Inv == [i \in 0..n |-> { x \in [Keys -> V] :
                      \A k \in Keys : LastWrite(recs, m, Below(i), k, store[k], x[k]) }]
<1>1. /\ LastId(recs) \in Nat /\ n \in Nat /\ m \in Nat
      /\ \A t \in TxIds(recs) : t <= LastId(recs)
      /\ \A i \in 1..m : recs[i].tx \in Nat
  BY LastIdIs
<1>2. /\ CommittedIds(recs) \subseteq TxIds(recs) /\ CommittedIds(recs) \subseteq Nat
  <2>1. TxIds(recs) \subseteq Nat
    BY IdsFinite
  <2>. QED
    BY <2>1 DEF CommittedIds
<1>3. store \in Inv[0]
  <2>1. Below(0) = {}
    BY <1>2
  <2>2. \A k \in Keys : WritesTo(recs, m, {}, k) = {}
    BY DEF WritesTo
  <2>3. \A k \in Keys : LastWrite(recs, m, Below(0), k, store[k], store[k])
    BY <2>1, <2>2 DEF LastWrite
  <2>4. 0 \in 0..n
    BY <1>1
  <2>. QED
    BY <2>3, <2>4
<1>4. ASSUME NEW i \in 1..n, NEW x \in Inv[i - 1]
      PROVE  (IF i - 1 \in CommittedIds(recs) THEN ReplayedTx(x, recs, i - 1) ELSE x) \in Inv[i]
  <2>1. i - 1 \in 0..n /\ i \in 0..n /\ i - 1 \in Nat
    BY <1>1
  <2>2. x \in [Keys -> V] /\ \A k \in Keys : LastWrite(recs, m, Below(i - 1), k, store[k], x[k])
    BY <2>1
  <2>3. Inv[i] = { z \in [Keys -> V] : \A k \in Keys : LastWrite(recs, m, Below(i), k, store[k], z[k]) }
    BY <2>1
  <2>4. \A id \in Nat : id < i <=> id < i - 1 \/ id = i - 1
    BY <2>1
  <2>. HIDE DEF Inv
  <2>5. CASE i - 1 \in CommittedIds(recs)
    <3> DEFINE y == ReplayedTx(x, recs, i - 1)
    <3>1. /\ y \in [Keys -> V]
          /\ \A k \in Keys : LastWrite(recs, m, {i - 1}, k, x[k], y[k])
      BY <2>2, ReplayedTxIs
    <3>2. Below(i) = Below(i - 1) \cup {i - 1} /\ \A id \in Below(i - 1) : id < i - 1
      BY <1>2, <2>4, <2>5
    <3>. HIDE DEF Below, y, m
    <3>3. ASSUME NEW k \in Keys PROVE LastWrite(recs, m, Below(i), k, store[k], y[k])
      <4>1. LastWrite(recs, m, Below(i - 1), k, store[k], x[k])
        BY <2>2
      <4>2. LastWrite(recs, m, {i - 1}, k, x[k], y[k])
        BY <3>1
      <4>0. \A j \in WritesTo(recs, m, Below(i - 1), k) : recs[j].tx < i - 1
        BY <3>2 DEF WritesTo
      <4>3. LastWrite(recs, m, Below(i - 1) \cup {i - 1}, k, store[k], y[k])
        BY <1>1, <2>1, <4>0, <4>1, <4>2, LastWriteThen DEF m
      <4>. QED
        BY <3>2, <4>3
    <3>4. y \in Inv[i]
      BY <2>3, <3>1, <3>3
    <3>. QED
      BY <2>5, <3>4 DEF y
  <2>6. CASE i - 1 \notin CommittedIds(recs)
    <3>1. Below(i) = Below(i - 1)
      BY <1>2, <2>4, <2>6
    <3>2. x \in Inv[i]
      BY <2>2, <2>3, <3>1
    <3>. QED
      BY <2>6, <3>2
  <2>. QED
    BY <2>5, <2>6
<1>5. Inv[n] = { x \in [Keys -> V] : \A k \in Keys : LastWrite(recs, m, Below(n), k, store[k], x[k]) }
  <2>1. n \in 0..n
    BY <1>1
  <2>. HIDE DEF n
  <2>. QED
    BY <2>1, Zenon
<1>6. Below(n) = CommittedIds(recs)
  BY <1>1, <1>2
<1>7. Replayed(store, recs) \in Inv[n]
  <2>1. n = LastId(recs) + 1
    OBVIOUS
  <2>. HIDE DEF Inv, n
  <2>. QED
    BY <1>1, <1>3, <1>4, <2>1, ReplayedLoop
<1>. QED
  BY <1>5, <1>6, <1>7

\* Of a whole sequence.
Writes(recs, ids, k) == WritesTo(recs, Len(recs), ids, k)
Leaves(recs, ids, k, old, v) == LastWrite(recs, Len(recs), ids, k, old, v)

LEMMA LeavesNothing ==
    ASSUME NEW ids, NEW k, NEW old
    PROVE  Leaves(<<>>, ids, k, old, old)
BY DEF Leaves, LastWrite, WritesTo

\* A record is appended.
LEMMA WritesAppend ==
    ASSUME NEW R, NEW s \in Seq(R), NEW e \in R, NEW ids, NEW k
    PROVE  Writes(Append(s, e), ids, k) =
              IF IsOp(e) /\ e.tx \in ids /\ e.key = k
              THEN Writes(s, ids, k) \cup {Len(s) + 1} ELSE Writes(s, ids, k)
<1> DEFINE q == Append(s, e)
           n == Len(s)
<1>1. n \in Nat /\ Len(q) = n + 1 /\ q[n + 1] = e /\ \A i \in 1..n : q[i] = s[i]
  BY AppendProperties
<1>. HIDE DEF q, n
<1>2. \A i : i \in 1..(n + 1) <=> i \in 1..n \/ i = n + 1
  BY <1>1
<1>3. WritesTo(q, n + 1, ids, k) =
         IF IsOp(e) /\ e.tx \in ids /\ e.key = k
         THEN WritesTo(s, n, ids, k) \cup {n + 1} ELSE WritesTo(s, n, ids, k)
  BY <1>1, <1>2 DEF WritesTo
<1>. QED
  BY <1>1, <1>3 DEF Writes, q, n

LEMMA LeavesAppend ==
    ASSUME NEW R, NEW s \in Seq(R), NEW e \in R, NEW ids, NEW k, NEW old, NEW v,
           Leaves(s, ids, k, old, v)
    PROVE  Leaves(Append(s, e), ids, k, old,
              IF IsOp(e) /\ e.tx \in ids /\ e.key = k THEN ValueOf(e) ELSE v)
<1> DEFINE q == Append(s, e)
           n == Len(s)
<1>1. n \in Nat /\ Len(q) = n + 1 /\ q[n + 1] = e /\ \A i \in 1..n : q[i] = s[i]
  BY AppendProperties
<1>. HIDE DEF q, n
<1>2. LastWrite(q, n, ids, k, old, v)
  <2>1. WritesTo(q, n, ids, k) = WritesTo(s, n, ids, k)
    BY <1>1 DEF WritesTo
  <2>2. \A i \in WritesTo(s, n, ids, k) : q[i] = s[i]
    BY <1>1 DEF WritesTo
  <2>. QED
    BY <2>1, <2>2 DEF Leaves, LastWrite, n
<1>3. LastWrite(q, n + 1, ids, k, old,
         IF IsOp(q[n + 1]) /\ q[n + 1].tx \in ids /\ q[n + 1].key = k
         THEN ValueOf(q[n + 1]) ELSE v)
  BY <1>1, <1>2, LastWriteNext
<1>. QED
  BY <1>1, <1>3 DEF Leaves, q

\* The first operation is applied: the others leave what all of them did.
LEMMA LeavesTail ==
    ASSUME NEW R, NEW s \in Seq(R), s # <<>>, NEW ids, NEW k, NEW old, NEW v,
           IsOp(Head(s)), Head(s).tx \in ids, Leaves(s, ids, k, old, v)
    PROVE  Leaves(Tail(s), ids, k, IF Head(s).key = k THEN ValueOf(Head(s)) ELSE old, v)
<1> DEFINE q == Tail(s)
           n == Len(s) - 1
           W == Writes(s, ids, k)
           X == Writes(q, ids, k)
<1>1. /\ n \in Nat /\ Len(q) = n /\ Len(s) = n + 1 /\ Head(s) = s[1]
      /\ \A i \in 1..n : q[i] = s[i + 1]
  BY HeadTailProperties
<1>2. (1 \in W <=> Head(s).key = k) /\ W \subseteq 1..(n + 1)
  BY <1>1 DEF Writes, WritesTo
<1>3. \A i \in 1..n : i \in X <=> i + 1 \in W
  <2>. HIDE DEF q, n
  <2>. QED
    BY <1>1 DEF Writes, WritesTo
<1>4. X \subseteq 1..n
  BY <1>1 DEF Writes, WritesTo
<1>5. \A i \in W : i # 1 => i - 1 \in 1..n /\ (i - 1) + 1 = i
  BY <1>1, <1>2
<1>6. (W = {} /\ v = old) \/ \E i \in W : LastOf(W, i) /\ v = ValueOf(s[i])
  BY DEF Leaves, LastWrite, Writes
<1>. HIDE DEF W, X, q, n
<1>7. CASE W = {} /\ v = old
  <2>1. X = {} /\ Head(s).key # k
    BY <1>2, <1>3, <1>4, <1>7
  <2>. QED
    BY <1>7, <2>1 DEF Leaves, LastWrite, Writes, X, q
<1>8. ASSUME NEW i \in W, LastOf(W, i), v = ValueOf(s[i])
      PROVE  Leaves(q, ids, k, IF Head(s).key = k THEN ValueOf(Head(s)) ELSE old, v)
  <2>1. CASE i = 1
    <3>1. X = {}
      <4>1. \A j \in X : j + 1 \in W /\ ~(j + 1 <= 1)
        BY <1>3, <1>4
      <4>. QED
        BY <1>8, <2>1, <4>1 DEF LastOf
    <3>. QED
      BY <1>1, <1>2, <1>8, <2>1, <3>1 DEF Leaves, LastWrite, Writes, X
  <2>2. CASE i # 1
    <3>1. i - 1 \in X
      BY <1>3, <1>5, <2>2
    <3>2. \A j \in X : j <= i - 1
      <4>1. ASSUME NEW j \in X PROVE j <= i - 1
        <5>1. j \in 1..n /\ j + 1 \in W /\ j + 1 <= i /\ i \in 1..(n + 1)
          BY <1>2, <1>3, <1>4, <1>8 DEF LastOf
        <5>. QED
          BY <1>1, <5>1
      <4>. QED
        BY <4>1
    <3>3. q[i - 1] = s[i]
      BY <1>1, <1>5, <2>2
    <3>. QED
      BY <1>8, <3>1, <3>2, <3>3 DEF Leaves, LastWrite, LastOf, Writes, X
  <2>. QED
    BY <2>1, <2>2
<1>. QED
  BY <1>6, <1>7, <1>8 DEF q

LEMMA InOrderAppend ==
    ASSUME NEW R, NEW s \in Seq(R), NEW e \in R, InOrder(s),
           IsOp(e) => \A i \in 1..Len(s) :
              IsOp(s[i]) /\ s[i].key = e.key => s[i].tx <= e.tx
    PROVE  InOrder(Append(s, e))
<1> DEFINE q == Append(s, e)
           n == Len(s)
<1>1. n \in Nat /\ Len(q) = n + 1 /\ q[n + 1] = e /\ \A i \in 1..n : q[i] = s[i]
  BY AppendProperties
<1>. HIDE DEF q
<1>2. ASSUME NEW i \in 1..(n + 1), NEW j \in 1..(n + 1), i < j,
             IsOp(q[i]), IsOp(q[j]), q[i].key = q[j].key
      PROVE  q[i].tx <= q[j].tx
  <2>1. i \in 1..n
    BY <1>1, <1>2
  <2>2. CASE j = n + 1
    BY <1>1, <1>2, <2>1, <2>2
  <2>3. CASE j # n + 1
    <3>1. j \in 1..n
      BY <1>1, <2>3
    <3>. QED
      BY <1>1, <1>2, <2>1, <3>1 DEF InOrder
  <2>. QED
    BY <2>2, <2>3
<1>. QED
  BY <1>1, <1>2 DEF InOrder, q

LEMMA InOrderPrefix ==
    ASSUME NEW R, NEW s \in Seq(R), InOrder(s), NEW n \in 0..Len(s)
    PROVE  InOrder(SubSeq(s, 1, n))
<1>1. /\ Len(SubSeq(s, 1, n)) = n /\ \A i \in 1..n : SubSeq(s, 1, n)[i] = s[i]
      /\ 1..n \subseteq 1..Len(s)
  BY SubSeqProperties
<1>. QED
  BY <1>1 DEF InOrder

\* How the queue, a batch and the file line up.
LEMMA LineMoves ==
    ASSUME NEW R, NEW f \in Seq(R), NEW b \in Seq(R), NEW q \in Seq(R)
    PROVE  /\ f \o (b \o q) \in Seq(R)
           /\ q # <<>> => f \o (Append(b, Head(q)) \o Tail(q)) = f \o (b \o q)
           /\ (f \o b) \o (<<>> \o q) = f \o (b \o q)
           /\ \A e \in R : f \o (b \o Append(q, e)) = Append(f \o (b \o q), e)
<1>1. f \o (b \o q) \in Seq(R)
  OBVIOUS
<1>2. ASSUME q # <<>> PROVE Append(b, Head(q)) \o Tail(q) = b \o q
  BY <1>2
<1>3. (f \o b) \o (<<>> \o q) = f \o (b \o q)
  OBVIOUS
<1>4. \A e \in R : f \o (b \o Append(q, e)) = Append(f \o (b \o q), e)
  OBVIOUS
<1>. QED
  BY <1>1, <1>2, <1>3, <1>4
-----------------------------------------------------------------------------
(* The same last write *)

\* r is what stands at the last of these places.
LastIn(s, places, r) == \E i \in places : LastOf(places, i) /\ s[i] = r

\* The same record is the last in both to write key k for one of ids.
Match(s, t, ids, k) ==
    \/ Writes(s, ids, k) = {} /\ Writes(t, ids, k) = {}
    \/ \E i \in Writes(s, ids, k) :
          LastOf(Writes(s, ids, k), i) /\ LastIn(t, Writes(t, ids, k), s[i])

LEMMA LastInAppend ==
    ASSUME NEW R, NEW s \in Seq(R), NEW e \in R, NEW ids, NEW k
    PROVE  /\ IsOp(e) /\ e.tx \in ids /\ e.key = k =>
                LastIn(Append(s, e), Writes(Append(s, e), ids, k), e)
           /\ ~(IsOp(e) /\ e.tx \in ids /\ e.key = k) =>
                /\ Writes(Append(s, e), ids, k) = Writes(s, ids, k)
                /\ \A r : LastIn(s, Writes(s, ids, k), r) =>
                             LastIn(Append(s, e), Writes(Append(s, e), ids, k), r)
<1> DEFINE q == Append(s, e)
           n == Len(s)
           W == Writes(s, ids, k)
           X == Writes(q, ids, k)
<1>1. n \in Nat /\ Len(q) = n + 1 /\ q[n + 1] = e /\ \A i \in 1..n : q[i] = s[i]
  BY AppendProperties
<1>2. X = IF IsOp(e) /\ e.tx \in ids /\ e.key = k THEN W \cup {n + 1} ELSE W
  BY WritesAppend
<1>3. W \subseteq 1..n
  BY DEF Writes, WritesTo
<1>. HIDE DEF q, n, W, X
<1>4. ASSUME IsOp(e), e.tx \in ids, e.key = k PROVE LastIn(q, X, e)
  BY <1>1, <1>2, <1>3, <1>4 DEF LastIn, LastOf
<1>5. ASSUME ~(IsOp(e) /\ e.tx \in ids /\ e.key = k)
      PROVE  X = W /\ \A r : LastIn(s, W, r) => LastIn(q, X, r)
  <2>1. X = W
    BY <1>2, <1>5
  <2>2. \A i \in W : q[i] = s[i]
    BY <1>1, <1>3
  <2>. QED
    BY <2>1, <2>2 DEF LastIn
<1>. QED
  BY <1>4, <1>5 DEF W, X, q

\* Two that match are those with the same last write, or without any.
LEMMA MatchIs ==
    ASSUME NEW s, NEW t, NEW ids, NEW k
    PROVE  Match(s, t, ids, k) <=>
              \/ Writes(s, ids, k) = {} /\ Writes(t, ids, k) = {}
              \/ \E r : LastIn(s, Writes(s, ids, k), r) /\ LastIn(t, Writes(t, ids, k), r)
BY DEF Match, LastIn

\* A record joins both, or, if it is no write of these transactions, the first.
LEMMA MatchAppend ==
    ASSUME NEW R, NEW s \in Seq(R), NEW t \in Seq(R), NEW e \in R, NEW ids, NEW k,
           Match(s, t, ids, k)
    PROVE  /\ Match(Append(s, e), Append(t, e), ids, k)
           /\ ~(IsOp(e) /\ e.tx \in ids) => Match(Append(s, e), t, ids, k)
<1>1. CASE IsOp(e) /\ e.tx \in ids /\ e.key = k
  BY <1>1, LastInAppend, MatchIs
<1>2. CASE ~(IsOp(e) /\ e.tx \in ids /\ e.key = k)
  <2>1. /\ Writes(Append(s, e), ids, k) = Writes(s, ids, k)
        /\ \A r : LastIn(s, Writes(s, ids, k), r) =>
                     LastIn(Append(s, e), Writes(Append(s, e), ids, k), r)
    BY <1>2, LastInAppend, Zenon
  <2>2. /\ Writes(Append(t, e), ids, k) = Writes(t, ids, k)
        /\ \A r : LastIn(t, Writes(t, ids, k), r) =>
                     LastIn(Append(t, e), Writes(Append(t, e), ids, k), r)
    BY <1>2, LastInAppend, Zenon
  <2>. QED
    BY <2>1, <2>2, MatchIs
<1>. QED
  BY <1>1, <1>2

LEMMA PrefixNext ==
    ASSUME NEW R, NEW s \in Seq(R)
    PROVE  /\ SubSeq(s, 1, 0) = <<>> /\ SubSeq(s, 1, Len(s)) = s
           /\ \A i \in 1..Len(s) : /\ SubSeq(s, 1, i - 1) \in Seq(R)
                                   /\ SubSeq(s, 1, i) = Append(SubSeq(s, 1, i - 1), s[i])
BY SubSeqProperties

\* checkpoint() skips a transaction with all its records, so what it keeps ends
\* in the same write of a key for those past the marker.
LEMMA NewerLast ==
    ASSUME NEW R, NEW recs \in Seq(R), NEW from, NEW ids,
           \A r \in R : r.tx \in ids => r.tx > from, NEW k
    PROVE  Match(recs, Newer(recs, from), ids, k)
<1> DEFINE n == Len(recs)
           P(i) == SubSeq(recs, 1, i)
           Inv == [i \in 0..n |-> { s \in Seq(R) : Match(P(i), s, ids, k) }]
<1>1. n \in Nat /\ \A i \in 1..n : recs[i] \in R /\ i - 1 \in 0..n /\ i \in 0..n
  OBVIOUS
<1>2. /\ P(0) = <<>> /\ P(n) = recs
      /\ \A i \in 1..n : P(i - 1) \in Seq(R) /\ P(i) = Append(P(i - 1), recs[i])
  BY PrefixNext
<1>. HIDE DEF P
<1>3. <<>> \in Inv[0]
  <2>1. Match(<<>>, <<>>, ids, k)
    BY DEF Match, Writes, WritesTo
  <2>. QED
    BY <1>1, <1>2, <2>1
<1>4. ASSUME NEW i \in 1..n, NEW s \in Inv[i - 1]
      PROVE  (IF recs[i].tx > from THEN Append(s, recs[i]) ELSE s) \in Inv[i]
  <2>1. s \in Seq(R) /\ Match(P(i - 1), s, ids, k) /\ P(i - 1) \in Seq(R) /\ recs[i] \in R
    BY <1>1, <1>2, <1>4
  <2>2. /\ Match(Append(P(i - 1), recs[i]), Append(s, recs[i]), ids, k)
        /\ ~(IsOp(recs[i]) /\ recs[i].tx \in ids) => Match(Append(P(i - 1), recs[i]), s, ids, k)
    BY <2>1, MatchAppend
  <2>3. /\ Match(P(i), Append(s, recs[i]), ids, k)
        /\ recs[i].tx \notin ids => Match(P(i), s, ids, k)
    BY <1>2, <2>2
  <2>4. ~(recs[i].tx > from) => recs[i].tx \notin ids
    BY <2>1
  <2>5. Append(s, recs[i]) \in Seq(R) /\ Inv[i] = { x \in Seq(R) : Match(P(i), x, ids, k) }
    BY <1>1, <2>1
  <2>. HIDE DEF Inv
  <2>. QED
    BY <2>1, <2>3, <2>4, <2>5
<1>5. Newer(recs, from) \in Inv[n]
  <2>. HIDE DEF Inv
  <2>. QED
    BY <1>1, <1>3, <1>4, NewerLoop
<1>. QED
  BY <1>1, <1>2, <1>5

LEMMA NewerInOrder ==
    ASSUME NEW R, NEW recs \in Seq(R), NEW from, InOrder(recs)
    PROVE  InOrder(Newer(recs, from))
<1> DEFINE n == Len(recs)
           Inv == [i \in 0..n |-> { s \in Seq(R) : InOrder(s) /\ ToSet(s) \subseteq { recs[j] : j \in 1..i } }]
<1>1. n \in Nat /\ \A i \in 1..n : recs[i] \in R /\ i - 1 \in 0..n /\ i \in 0..n
  OBVIOUS
<1>2. <<>> \in Inv[0]
  BY <1>1 DEF InOrder, ToSet
<1>3. ASSUME NEW i \in 1..n, NEW s \in Inv[i - 1]
      PROVE  (IF recs[i].tx > from THEN Append(s, recs[i]) ELSE s) \in Inv[i]
  <2>1. s \in Seq(R) /\ InOrder(s) /\ ToSet(s) \subseteq { recs[j] : j \in 1..(i - 1) } /\ recs[i] \in R
    BY <1>1, <1>3
  <2>2. \A j \in 1..(i - 1) : j \in 1..n /\ j < i /\ j \in 1..i
    BY <1>1
  <2>3. ToSet(s) \subseteq { recs[j] : j \in 1..i } /\ i \in 1..i
    BY <1>1, <2>1, <2>2
  <2>4. InOrder(Append(s, recs[i]))
    <3>1. ASSUME IsOp(recs[i]), NEW h \in 1..Len(s), IsOp(s[h]), s[h].key = recs[i].key
          PROVE  s[h].tx <= recs[i].tx
      <4>1. s[h] \in ToSet(s)
        BY <2>1, <3>1 DEF ToSet
      <4>2. PICK j \in 1..(i - 1) : s[h] = recs[j]
        BY <2>1, <4>1
      <4>. QED
        BY <2>2, <3>1, <4>2 DEF InOrder
    <3>. QED
      BY <2>1, <3>1, InOrderAppend
  <2>5. Append(s, recs[i]) \in Seq(R) /\ ToSet(Append(s, recs[i])) \subseteq { recs[j] : j \in 1..i }
    <3>1. Append(s, recs[i]) \in Seq(R) /\ ToSet(Append(s, recs[i])) = ToSet(s) \cup {recs[i]}
      BY <2>1, AppendElements
    <3>. QED
      BY <2>3, <3>1
  <2>. QED
    BY <1>1, <2>1, <2>3, <2>4, <2>5
<1>4. Newer(recs, from) \in Inv[n]
  <2>. HIDE DEF Inv
  <2>. QED
    BY <1>1, <1>2, <1>3, NewerLoop
<1>. QED
  BY <1>1, <1>4

LEMMA LeavesLast ==
    ASSUME NEW R, NEW s \in Seq(R), NEW ids, NEW k, NEW old, NEW v, NEW r,
           Leaves(s, ids, k, old, v), LastIn(s, Writes(s, ids, k), r)
    PROVE  v = ValueOf(r)
<1>1. Len(s) \in Nat
  OBVIOUS
<1>2. LastWrite(s, Len(s), ids, k, old, ValueOf(r)) /\ LastWrite(s, Len(s), ids, k, old, v)
  BY DEF Leaves, LastIn, LastWrite, Writes
<1>. QED
  BY <1>1, <1>2, LastWriteUnique

\* A checkpoint reads a part of the records, those of transactions past a marker.
\* The part holds every record of the transactions G, and nobody else in C writes
\* the key.
ScanFinds(recs, n, from, G, C, k, seen, ids) ==
    /\ \A i \in Writes(recs, C, k) : recs[i].tx \in G
    /\ \A i \in 1..Len(recs) : recs[i].tx \in G => i <= n
    /\ seen = Newer(SubSeq(recs, 1, n), from)
    /\ ids = { t \in G : t > from }

\* What it sees last of the key is the last there is.
LEMMA ScanLast ==
    ASSUME NEW R, NEW recs \in Seq(R), \A r \in R : r.tx \in Nat, InOrder(recs),
           NEW n \in 0..Len(recs), NEW from \in Nat, NEW G, NEW C, G \subseteq C, NEW k,
           NEW seen, NEW ids, ScanFinds(recs, n, from, G, C, k, seen, ids),
           NEW r, LastIn(seen, Writes(seen, ids, k), r)
    PROVE  LastIn(recs, Writes(recs, C, k), r)
<1>0. /\ \A i \in Writes(recs, C, k) : recs[i].tx \in G
      /\ \A i \in 1..Len(recs) : recs[i].tx \in G => i <= n
      /\ seen = Newer(SubSeq(recs, 1, n), from)
      /\ ids = { t \in G : t > from }
  BY DEF ScanFinds
<1>. USE <1>0
<1> DEFINE part == SubSeq(recs, 1, n)
           W == Writes(part, ids, k)
<1>1. /\ part \in Seq(R) /\ Len(part) = n /\ \A i \in 1..n : part[i] = recs[i]
      /\ Len(recs) \in Nat /\ n \in Nat /\ \A i \in 1..Len(recs) : recs[i].tx \in Nat
  BY SubSeqProperties
<1>2. Match(part, seen, ids, k)
  <2>. HIDE DEF part
  <2>1. seen = Newer(part, from) /\ \A x \in R : x.tx \in ids => x.tx > from
    BY DEF part
  <2>. QED
    BY <1>1, <2>1, NewerLast
<1>3. PICK p \in W : LastOf(W, p) /\ part[p] = r
  <2>1. Writes(seen, ids, k) # {} /\ \A x : LastIn(seen, Writes(seen, ids, k), x) => x = r
    <3>1. Writes(seen, ids, k) \subseteq 1..Len(seen) /\ Len(seen) \in Nat
      <4>1. seen \in Seq(R)
        BY <1>1, NewerIs DEF part
      <4>. QED
        BY <4>1 DEF Writes, WritesTo
    <3>2. ASSUME NEW X, X \subseteq 1..Len(seen), NEW i \in X, NEW j \in X, LastOf(X, i), LastOf(X, j)
          PROVE  i = j
      BY <3>1, <3>2 DEF LastOf
    <3>. QED
      BY <3>1, <3>2 DEF LastIn
  <2>. QED
    BY <1>2, <2>1 DEF Match, LastIn
<1>4. \A i : i \in W <=> i \in 1..n /\ IsOp(recs[i]) /\ recs[i].tx \in ids /\ recs[i].key = k
  <2>. HIDE DEF part
  <2>. QED
    BY <1>1 DEF Writes, WritesTo
<1>. HIDE DEF part, W
<1>5. p \in 1..Len(recs) /\ recs[p] = r /\ IsOp(r) /\ r.tx \in G /\ r.tx > from /\ r.key = k
  BY <1>1, <1>3, <1>4
<1>6. p \in Writes(recs, C, k)
  BY <1>5 DEF Writes, WritesTo
<1>7. ASSUME NEW j \in Writes(recs, C, k) PROVE j <= p
  <2>1. j \in 1..Len(recs) /\ IsOp(recs[j]) /\ recs[j].key = k /\ recs[j].tx \in G
    BY DEF Writes, WritesTo
  <2>2. SUFFICES ASSUME p < j PROVE FALSE
    BY <1>1, <1>5, <2>1
  <2>3. r.tx <= recs[j].tx
    BY <1>5, <2>1, <2>2 DEF InOrder
  <2>4. recs[j].tx \in ids /\ j \in 1..n
    BY <1>1, <1>5, <2>1, <2>3
  <2>5. j \in W
    BY <1>4, <2>1, <2>4
  <2>. QED
    BY <1>1, <1>3, <1>5, <2>1, <2>2, <2>5 DEF LastOf
<1>. QED
  BY <1>5, <1>6, <1>7 DEF LastIn, LastOf
=============================================================================
