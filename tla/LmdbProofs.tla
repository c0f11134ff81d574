----------------------------- MODULE LmdbProofs -----------------------------
(***************************************************************************)
(* LmdbStorage implements KvStore, for any callers, keys and values.       *)
(***************************************************************************)
EXTENDS LmdbStorage, TLAPS

IInv == TypeOK /\ WorkOK

LEMMA InitEstablishes == Init => IInv
<1> SUFFICES ASSUME Init PROVE IInv
    OBVIOUS
<1>1. TypeOK
    BY DEF Init, TypeOK, Closed, Contents
<1>2. \A c \in Callers : ~Writing(c)
    BY DEF Init, Writing
<1>. QED
    BY <1>1, <1>2 DEF IInv, WorkOK

\* Every step keeps the type invariant; that a change is a value, and not Keep,
\* takes WorkOK.
LEMMA TypeStep == IInv /\ [Next]_lmdbVars => TypeOK'
<1> SUFFICES ASSUME TypeOK, WorkOK, [Next]_lmdbVars PROVE TypeOK'
    BY DEF IInv
<1> USE DEF TypeOK, Contents
<1>1. CASE Open
    BY <1>1 DEF Open
<1>2. CASE Crash
    BY <1>2 DEF Crash, Closed
<1>3. CASE UNCHANGED lmdbVars
    BY <1>3 DEF lmdbVars
<1>4. ASSUME NEW c \in Callers, Call(c) PROVE TypeOK'
    BY <1>4 DEF Call
<1>5. ASSUME NEW c \in Callers, ReadTxn(c) PROVE TypeOK'
    BY <1>5 DEF ReadTxn
<1>6. ASSUME NEW c \in Callers, Get(c) PROVE TypeOK'
  <2>1. req[c].key \in Keys
    BY <1>6 DEF Get, Reading, Kv!Requests
  <2>. QED
    BY <1>6, <2>1 DEF Get, Reading, Done, Closed
<1>7. ASSUME NEW c \in Callers, WriteTxn(c) PROVE TypeOK'
    BY <1>7 DEF WriteTxn, Touched
<1>8. ASSUME NEW c \in Callers, Change(c) PROVE TypeOK'
  <2>1. PICK k \in todo[c] :
           /\ txn' = [txn EXCEPT ![c][k] = req[c].writes[k]]
           /\ todo' = [todo EXCEPT ![c] = @ \ {k}]
           /\ ret' = IF req[c].op = "delete"
                     THEN [ret EXCEPT ![c] = Kv!Found(txn[c][k])] ELSE ret
    BY <1>8 DEF Change
  <2>2. req[c].writes[k] \in Values \cup {Missing}
    BY <1>8 DEF Change, Writing, WorkOK, Worked, Touched, Kv!Requests, Kv!Changes
  <2>. QED
    BY <1>8, <2>1, <2>2 DEF Change, Kv!Found
<1>9. ASSUME NEW c \in Callers, Commit(c) PROVE TypeOK'
    BY <1>9 DEF Commit, Writing, Done, Closed
<1>10. ASSUME NEW c \in Callers, Fails(c) PROVE TypeOK'
    BY <1>10 DEF Fails, Done, Closed
<1>11. ASSUME NEW c \in Callers, Return(c) PROVE TypeOK'
    BY <1>11 DEF Return
<1>. QED
    BY <1>1, <1>2, <1>3, <1>4, <1>5, <1>6, <1>7, <1>8, <1>9, <1>10, <1>11 DEF Next

\* The write transaction of a caller is out of reach of every step of another:
\* only the caller whose transaction it is can commit beneath it.
LEMMA WorkStep == IInv /\ [Next]_lmdbVars => WorkOK'
<1> SUFFICES ASSUME TypeOK, WorkOK, [Next]_lmdbVars,
                    NEW d \in Callers, Writing(d)'
             PROVE  Worked(d)'
    BY DEF IInv, WorkOK
<1>1. ASSUME Writing(d), UNCHANGED <<dict, req[d], txn[d], todo[d], ret[d]>>, writer' = d
      PROVE  Worked(d)'
    BY <1>1 DEF WorkOK, Worked
<1>2. CASE Open \/ UNCHANGED lmdbVars
    BY <1>2, <1>1 DEF Open, lmdbVars, Writing, WorkOK, Worked
<1>3. CASE Crash
    BY <1>3 DEF Crash, Writing
<1>4. ASSUME NEW c \in Callers, c # d,
             Call(c) \/ ReadTxn(c) \/ Get(c) \/ Change(c) \/ Return(c)
      PROVE  Worked(d)'
    BY <1>4, <1>1 DEF TypeOK, Call, ReadTxn, Get, Change, Return, Done, Writing, WorkOK, Worked
<1>5. ASSUME NEW c \in Callers, c # d, Commit(c) \/ Fails(c) \/ WriteTxn(c)
      PROVE  Worked(d)'
    BY <1>5, <1>1, LmdbAssumption
    DEF TypeOK, Commit, Fails, WriteTxn, Done, Writing, WorkOK, Worked
<1>6. CASE Call(d) \/ ReadTxn(d) \/ Get(d) \/ Commit(d) \/ Fails(d) \/ Return(d)
    BY <1>6 DEF TypeOK, Call, ReadTxn, Get, Commit, Fails, Return, Done, Writing, Reading
<1>7. CASE WriteTxn(d)
  <2>1. /\ dict' = dict /\ req' = req /\ writer' = d
        /\ txn'[d] = dict /\ todo'[d] = Touched(req[d]) /\ ret'[d] = "ok"
        /\ req[d] \in Kv!Requests /\ Kv!Legal(req[d]) /\ req[d].op # "get"
    BY <1>7 DEF WriteTxn, TypeOK
  <2>2. txn'[d] = [k \in Keys |->
                     IF k \in todo'[d] THEN dict[k] ELSE Kv!Written(dict, req[d].writes)[k]]
    BY <2>1 DEF TypeOK, Contents, Touched, Kv!Written
  <2>3. ASSUME req[d].op = "delete" PROVE todo'[d] # {}
    BY <2>1, <2>3, LmdbAssumption DEF Touched, Kv!Requests, Kv!Legal, Kv!Nothing
  <2>4. ASSUME req[d].op # "delete" PROVE Kv!Answer(dict, req[d]) = "ok"
    BY <2>1, <2>4 DEF Kv!Answer
  <2>. QED
    BY <2>1, <2>2, <2>3, <2>4 DEF Worked
<1>8. CASE Change(d)
  <2>0. Writing(d) /\ Worked(d) /\ req[d] \in Kv!Requests /\ Kv!Legal(req[d])
    BY <1>8 DEF Change, WorkOK, Writing, TypeOK
  <2>1. PICK k \in todo[d] :
           /\ txn' = [txn EXCEPT ![d][k] = req[d].writes[k]]
           /\ todo' = [todo EXCEPT ![d] = @ \ {k}]
           /\ ret' = IF req[d].op = "delete"
                     THEN [ret EXCEPT ![d] = Kv!Found(txn[d][k])] ELSE ret
    BY <1>8 DEF Change
  <2>2. k \in Keys /\ req[d].writes[k] # Keep /\ txn[d][k] = dict[k]
    BY <2>0, <2>1 DEF Worked, Touched
  <2>3. /\ dict' = dict /\ req' = req /\ writer' = d /\ todo'[d] = todo[d] \ {k}
        /\ txn'[d] = [txn[d] EXCEPT ![k] = req[d].writes[k]]
    BY <1>8, <2>0, <2>1 DEF Change, TypeOK, Worked
  <2>4. txn'[d] = [i \in Keys |->
                     IF i \in todo'[d] THEN dict[i] ELSE Kv!Written(dict, req[d].writes)[i]]
    BY <2>0, <2>2, <2>3 DEF Worked, Kv!Written
  <2>5. ASSUME req[d].op = "delete" PROVE ret'[d] = Kv!Answer(dict, req[d])
    <3>1. k = req[d].key
      BY <2>0, <2>2, <2>5 DEF Kv!Legal, Kv!Nothing, Kv!Requests
    <3>. QED
      BY <2>1, <2>2, <2>5, <3>1 DEF TypeOK, Kv!Answer
  <2>6. ASSUME req[d].op # "delete" PROVE ret'[d] = Kv!Answer(dict, req[d])
    BY <2>0, <2>1, <2>6 DEF Worked
  <2>. QED
    BY <2>0, <2>3, <2>4, <2>5, <2>6 DEF Worked
<1>. QED
    BY <1>2, <1>3, <1>4, <1>5, <1>6, <1>7, <1>8 DEF Next

LEMMA Induction == Spec => []IInv
<1>1. IInv /\ [Next]_lmdbVars => IInv'
    BY TypeStep, WorkStep DEF IInv
<1>. QED
    BY InitEstablishes, <1>1, PTL DEF Spec

-----------------------------------------------------------------------------
\* The types of what the storage keeps, for any callers, keys and values.
THEOREM TypeCorrect == Spec => []TypeOK
BY Induction, PTL DEF IInv

\* LMDB's single writer keeps what put(), delete() and batch_write() have worked
\* out true of the committed state until they replace it.
THEOREM WorkIsCurrent == Spec => []WorkOK
BY Induction, PTL DEF IInv

KvPhase(c) == IF Reading(c) THEN "done" ELSE IF Writing(c) THEN "called" ELSE phase[c]
KvRet(c) ==
    IF Reading(c) THEN txn[c][req[c].key] ELSE IF phase[c] = "done" THEN ret[c] ELSE "none"

\* Callers other than c look the same to the abstract specification.
LEMMA Frame ==
    ASSUME TypeOK, NEW c \in Callers,
           \A d \in Callers \ {c} : KvPhase(d)' = KvPhase(d) /\ KvRet(d)' = KvRet(d)
    PROVE  /\ [d \in Callers |-> KvPhase(d)]' =
                [[d \in Callers |-> KvPhase(d)] EXCEPT ![c] = KvPhase(c)']
           /\ [d \in Callers |-> KvRet(d)]' =
                [[d \in Callers |-> KvRet(d)] EXCEPT ![c] = KvRet(c)']
OBVIOUS

\* Every step of the storage is a step of KvStore or leaves it alone.
LEMMA StepRefines == IInv /\ [Next]_lmdbVars => [Kv!KvNext]_Kv!kvVars
<1> SUFFICES ASSUME TypeOK, WorkOK, [Next]_lmdbVars PROVE [Kv!KvNext]_Kv!kvVars
    BY DEF IInv
<1> DEFINE P == [d \in Callers |-> KvPhase(d)]
           R == [d \in Callers |-> KvRet(d)]
<1>1. CASE Open \/ UNCHANGED lmdbVars
    BY <1>1 DEF Open, lmdbVars, Kv!kvVars, Reading, Writing
<1>2. CASE Crash
    BY <1>2 DEF Crash, Kv!KvNext, Kv!KvCrash, Reading, Writing
<1>3. ASSUME NEW c \in Callers,
             \A d \in Callers \ {c} :
                phase'[d] = phase[d] /\ req'[d] = req[d] /\ ret'[d] = ret[d] /\ txn'[d] = txn[d]
      PROVE  P' = [P EXCEPT ![c] = KvPhase(c)'] /\ R' = [R EXCEPT ![c] = KvRet(c)']
  <2>1. \A d \in Callers \ {c} : KvPhase(d)' = KvPhase(d) /\ KvRet(d)' = KvRet(d)
    BY <1>3 DEF KvPhase, KvRet, Reading, Writing
  <2>. QED
    BY <2>1, Frame
<1>4. ASSUME NEW c \in Callers, Call(c) PROVE Kv!KvNext
  <2>1. PICK r \in Kv!Requests : Kv!Legal(r) /\ req' = [req EXCEPT ![c] = r]
    BY <1>4 DEF Call
  <2>2. KvPhase(c) = "idle" /\ KvPhase(c)' = "called" /\ KvRet(c)' = KvRet(c)
    BY <1>4 DEF Call, TypeOK, KvPhase, KvRet, Reading, Writing
  <2>3. P' = [P EXCEPT ![c] = "called"] /\ R' = R
    BY <1>3, <1>4, <2>1, <2>2 DEF Call, TypeOK
  <2>4. Kv!Call(c, r)
    BY <1>4, <2>1, <2>2, <2>3 DEF Kv!Call, Call, KvPhase, KvRet
  <2>. QED
    BY <2>4 DEF Kv!KvNext
<1>5. ASSUME NEW c \in Callers, ReadTxn(c) PROVE Kv!KvNext
  <2>1. req[c] \in Kv!Requests /\ req[c].writes = Kv!Nothing
    BY <1>5 DEF ReadTxn, TypeOK, Kv!Legal
  <2>2. Kv!Written(dict, req[c].writes) = dict
    BY <2>1 DEF Kv!Written, Kv!Nothing, TypeOK, Contents
  <2>3. KvPhase(c) = "called" /\ KvPhase(c)' = "done" /\ KvRet(c)' = Kv!Answer(dict, req[c])
    BY <1>5 DEF ReadTxn, TypeOK, KvPhase, KvRet, Reading, Writing, Kv!Answer
  <2>4. P' = [P EXCEPT ![c] = "done"] /\ R' = [R EXCEPT ![c] = Kv!Answer(dict, req[c])]
    BY <1>3, <1>5, <2>3 DEF ReadTxn, TypeOK
  <2>5. Kv!Perform(c)
    BY <1>5, <2>2, <2>3, <2>4 DEF Kv!Perform, ReadTxn, KvPhase, KvRet
  <2>. QED
    BY <2>5 DEF Kv!KvNext
<1>6. ASSUME NEW c \in Callers, Get(c) \/ WriteTxn(c) \/ Change(c) PROVE UNCHANGED Kv!kvVars
  <2>1. KvPhase(c)' = KvPhase(c) /\ KvRet(c)' = KvRet(c)
    BY <1>6 DEF Get, WriteTxn, Change, Done, TypeOK, KvPhase, KvRet, Reading, Writing
  <2>2. P' = P /\ R' = R /\ dict' = dict /\ req' = req
    BY <1>3, <1>6, <2>1 DEF Get, WriteTxn, Change, Done, TypeOK
  <2>. QED
    BY <2>2 DEF Kv!kvVars, KvPhase, KvRet
<1>7. ASSUME NEW c \in Callers, Commit(c) PROVE Kv!KvNext
  <2>1. Worked(c) /\ todo[c] = {}
    BY <1>7 DEF Commit, WorkOK
  <2>2. dict' = Kv!Written(dict, req[c].writes) /\ ret[c] = Kv!Answer(dict, req[c])
    BY <1>7, <2>1 DEF Commit, Worked, Kv!Written
  <2>3. KvPhase(c) = "called" /\ KvPhase(c)' = "done" /\ KvRet(c)' = ret[c]
    BY <1>7 DEF Commit, Done, TypeOK, KvPhase, KvRet, Reading, Writing
  <2>4. P' = [P EXCEPT ![c] = "done"] /\ R' = [R EXCEPT ![c] = ret[c]] /\ req' = req
    BY <1>3, <1>7, <2>3 DEF Commit, Done, TypeOK
  <2>5. Kv!Perform(c)
    BY <2>2, <2>3, <2>4 DEF Kv!Perform, KvPhase, KvRet
  <2>. QED
    BY <2>5 DEF Kv!KvNext
<1>8. ASSUME NEW c \in Callers, Fails(c) PROVE Kv!KvNext
  <2>1. /\ KvPhase(c) = "called" \/ (KvPhase(c) = "done" /\ req[c].op = "get")
        /\ KvPhase(c)' = "done" /\ KvRet(c)' = "error"
    BY <1>8 DEF Fails, Done, TypeOK, KvPhase, KvRet, Reading, Writing
  <2>2. P' = [P EXCEPT ![c] = "done"] /\ R' = [R EXCEPT ![c] = "error"]
    BY <1>3, <1>8, <2>1 DEF Fails, Done, TypeOK
  <2>3. Kv!Refuse(c)
    BY <1>8, <2>1, <2>2 DEF Kv!Refuse, Fails, Done, KvPhase, KvRet
  <2>. QED
    BY <2>3 DEF Kv!KvNext
<1>9. ASSUME NEW c \in Callers, Return(c) PROVE Kv!KvNext
  <2>1. KvPhase(c) = "done" /\ KvPhase(c)' = "idle" /\ KvRet(c)' = "none"
    BY <1>9 DEF Return, TypeOK, KvPhase, KvRet, Reading, Writing
  <2>2. P' = [P EXCEPT ![c] = "idle"] /\ R' = [R EXCEPT ![c] = "none"]
    BY <1>3, <1>9, <2>1 DEF Return, TypeOK
  <2>3. Kv!Return(c)
    BY <1>9, <2>1, <2>2 DEF Kv!Return, Return, KvPhase, KvRet
  <2>. QED
    BY <2>3 DEF Kv!KvNext
<1>. QED
    BY <1>1, <1>2, <1>4, <1>5, <1>6, <1>7, <1>8, <1>9 DEF Next

\* The storage implements KvStore: each call that returns Ok happens at one
\* instant, and one that fails changes nothing, for any callers, keys and values.
THEOREM Refinement == Spec => ImplementsKvStore
<1>1. Init => Kv!KvInit
    BY DEF Init, Kv!KvInit, Reading, Writing
<1>. QED
    BY <1>1, Induction, StepRefines, PTL DEF Spec, ImplementsKvStore, Kv!KvSpec
=============================================================================
