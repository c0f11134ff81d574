----------------------------- MODULE DemoProofs -----------------------------
(***************************************************************************)
(* The program of main.rs, for any number of tasks and of runs on the same *)
(* files, whatever the flusher, the crashes and the marker of earlier runs *)
(* do: each task inserts a key of its own, and what the program prints at  *)
(* its end has all of them.                                                *)
(***************************************************************************)
EXTENDS Demo, CheckpointProofs

\* The tasks of main.rs only insert, and each has one key.
DemoProgram == Kinds = {"insert"} /\ \A c \in Clients : KeysOf[c] = {c}

\* Nothing in the file, in memory or on its way between them deletes a key, so a
\* checkpoint cannot take one from the store, and what a task applies is its insert.
InsertsOK ==
    /\ \A e \in Logged : e.kind # "delete"
    /\ \A c \in Clients : \A op \in ToSet(tx[c].ops) : op.kind = "insert" /\ op.key = c

\* A task commits something, and its key is there from its last insert on, unless
\* it panicked.
TaskOK(c) ==
    /\ pc[c] # "aborting"
    /\ pc[c] # "idle" => c \in spawned
    /\ pc[c] = "committing" => tx[c].ops # <<>>
    /\ pc[c] = "applying" /\ tx[c].ops = <<>> => store[c] # Missing
    /\ Returned(c) => store[c] # Missing

TasksOK == \A c \in Clients : TaskOK(c)

\* Nothing runs before recover(), and main has joined both tasks before its checkpoint.
MainOK ==
    /\ main = "starting" => mode = "down" /\ spawned = {} /\ panicked = {}
    /\ main \in {"checkpointing", "verifying", "verified"} => Joined

DemoInv == CkptInv /\ InsertsOK /\ TasksOK /\ MainOK

-----------------------------------------------------------------------------
(* The steps, for Checkpoint below *)

LEMMA DemoIsCkpt == ASSUME [DemoNext]_demoVars PROVE [CkptNext]_allVars
<1>1. Main \in Checkpointers /\ Scheduler \in Checkpointers
  BY DemoAssumption
<1>2. CASE MainStep
  BY <1>1, <1>2 DEF MainStep, Start, ManualCheckpoint, JoinFails, Verify, CkptNext, CkptStep
<1>3. CASE SchedulerTick \/ SchedulerStep
  BY <1>1, <1>3 DEF SchedulerTick, SchedulerStep, CkptNext
<1>4. CASE Flush
  <2>1. (Drain(Flusher) \/ FlusherFail) /\ UNCHANGED ckptVars
    BY <1>4 DEF Flush
  <2>. QED
    BY <2>1, DrainersAre DEF CkptNext, Elsewhere, Drainers
<1>5. CASE Rerun
  BY <1>5 DEF Rerun, CkptNext
<1>6. ASSUME NEW c \in Clients, Task(c) \/ Panic(c) PROVE CkptNext
  <2>1. c \in Wal!Drainers
    BY DrainersAre DEF Drainers
  <2>. QED
    BY <1>6, <2>1 DEF Task, Panic, CkptNext, Elsewhere
<1>7. CASE UNCHANGED demoVars
  BY <1>7 DEF demoVars
<1>. QED
  BY <1>2, <1>3, <1>4, <1>5, <1>6, <1>7 DEF DemoNext, Work

DrainsOnly(d) ==
    /\ Wal!Pop(d) \/ Wal!Write(d) \/ Wal!Sync(d) \/ Wal!Fail(d)
    /\ UNCHANGED store

\* The steps as they matter to the keys: those of a process that goes on and those
\* that begin or end one.
Between ==
    /\ UNCHANGED <<pc, tx, mode>>
    /\ \/ UNCHANGED <<store, walVars>>
       \/ \E k \in Checkpointers : ReplayScan(k)
       \/ \E d \in Drainers : DrainsOnly(d)

LEMMA DemoCases ==
    ASSUME [DemoNext]_demoVars
    PROVE  \/ Start
           \/ Rerun
           \/ \E c \in Clients : Task(c) \/ Panic(c)
           \/ Between /\ UNCHANGED <<spawned, panicked>>
                      /\ (main' = main \/ main' = "failed" \/ ManualCheckpoint \/ Verify)
<1>1. Main \in Checkpointers /\ Scheduler \in Checkpointers
  BY DemoAssumption
<1>2. ASSUME NEW k \in Checkpointers, CheckpointCall(k) \/ CkptStep(k) \/ SetCheckpointFails(k)
      PROVE  Between
  <2>1. CASE ReplayScan(k)
    BY <2>1 DEF ReplayScan, Between
  <2>2. CASE CheckpointCall(k) \/ Scan(k) \/ ScanFails(k) \/ TruncateMarker(k) \/ WriteMarker(k)
             \/ SetCheckpointFails(k)
    <3>1. UNCHANGED vars
      BY <2>2 DEF CheckpointCall, Scan, ScanFails, TruncateMarker, WriteMarker, SetCheckpointFails
    <3>. QED
      BY <3>1 DEF vars, Between
  <2>. QED
    BY <1>2, <2>1, <2>2 DEF CkptStep
<1>3. CASE ManualCheckpoint /\ UNCHANGED <<spawned, panicked>>
  BY <1>1, <1>2, <1>3 DEF ManualCheckpoint, CkptStep
<1>4. CASE JoinFails \/ Verify \/ UNCHANGED demoVars
  BY <1>4 DEF JoinFails, Verify, demoVars, allVars, vars, Between
<1>5. CASE SchedulerTick \/ SchedulerStep
  BY <1>1, <1>2, <1>5 DEF SchedulerTick, SchedulerStep
<1>6. CASE Flush
  BY <1>6 DEF Flush, Drain, FlusherFail, DrainsOnly, Drainers, Between
<1>. QED
  BY <1>3, <1>4, <1>5, <1>6 DEF DemoNext, Work, MainStep

-----------------------------------------------------------------------------
(* What is written *)

LEMMA LoggedStill == ASSUME UNCHANGED <<file, mine>> PROVE Logged' = Logged
BY DEF Logged, All

LEMMA InsertsStep ==
    ASSUME DemoProgram, CkptInv, InsertsOK, [DemoNext]_demoVars
    PROVE  InsertsOK'
<1>1. Typed /\ CarriedOK
  BY DEF CkptInv, TypeInv, OutInv, IdsInv
<1> DEFINE Fits(c, op) == op.kind = "insert" /\ op.key = c
<1>2. \A c \in Clients : \A op \in ToSet(tx[c].ops) : Fits(c, op)
  BY DEF InsertsOK
<1>3. ToSet(NoTx.ops) = {}
  BY DEF NoTx, ToSet
<1>4. ASSUME UNCHANGED <<file, mine>>, NEW c \in Clients, \A o \in Clients : o # c => tx'[o] = tx[o],
             \A op \in ToSet(tx'[c].ops) : Fits(c, op)
      PROVE  InsertsOK'
  BY <1>2, <1>4, LoggedStill DEF InsertsOK
<1>5. CASE Start
  <2>1. UNCHANGED <<file, mine, tx>>
    BY <1>5 DEF Start, Recover, walVars
  <2>. QED
    BY <2>1, LoggedStill DEF InsertsOK
<1>6. CASE Rerun
  <2>1. Crash
    BY <1>6 DEF Rerun, CrashAll
  <2>2. Logged' \subseteq Logged
    BY <1>1, <2>1, LoggedCrash
  <2>3. \A c \in Clients : tx'[c] = NoTx
    BY <2>1 DEF Crash
  <2>. QED
    BY <1>3, <2>2, <2>3 DEF InsertsOK
<1>7. ASSUME NEW c \in Clients, Task(c) \/ Panic(c) PROVE InsertsOK'
  <2>1. CASE Begin(c)
    <3>1. UNCHANGED <<file, mine>> /\ tx' = [tx EXCEPT ![c] = [id |-> nextId, ops |-> <<>>, serial |-> serial']]
      BY <2>1 DEF Begin, walVars
    <3>2. tx'[c].ops = <<>> /\ \A o \in Clients : o # c => tx'[o] = tx[o]
      BY <1>1, <3>1 DEF Typed
    <3>. QED
      BY <1>3, <1>4, <3>1, <3>2 DEF NoTx
  <2>2. CASE AppendOp(c)
    <3>1. PICK op \in NewOps(c) : Buffer(c, op) /\ Wal!Push(c, op)
      BY <2>2 DEF AppendOp
    <3>2. op \in Records /\ Fits(c, op)
      BY <1>1, <3>1, NewRecords DEF NewOps, DemoProgram
    <3>3. Logged' = Logged \cup {op}
      BY <1>1, <3>1, <3>2, LoggedPush
    <3>4. /\ tx'[c].ops = Append(tx[c].ops, op)
          /\ \A o \in Clients : o # c => tx'[o] = tx[o]
      BY <1>1, <3>1 DEF Buffer, Typed
    <3>5. ToSet(tx'[c].ops) = ToSet(tx[c].ops) \cup {op}
      BY <1>1, <3>2, <3>4, AppendElements DEF Typed
    <3>6. \A p \in ToSet(tx'[c].ops) : Fits(c, p)
      BY <1>2, <3>2, <3>5
    <3>7. \A e \in Logged' : e.kind # "delete"
      BY <3>2, <3>3 DEF InsertsOK
    <3>. QED
      BY <1>2, <3>4, <3>6, <3>7 DEF InsertsOK
  <2>3. CASE CommitCall(c)
    <3>1. EndRecord(tx[c], "commit") \in Records /\ EndRecord(tx[c], "commit").kind = "commit"
      BY <1>1, NewRecords DEF EndRecord
    <3>2. Logged' = Logged \cup {EndRecord(tx[c], "commit")} /\ UNCHANGED tx
      BY <1>1, <2>3, <3>1, LoggedPush DEF CommitCall
    <3>. QED
      BY <3>1, <3>2 DEF InsertsOK
  <2>4. CASE FlushOk(c) \/ CommitOk(c)
    <3>1. UNCHANGED <<file, mine>>
      BY <2>4 DEF FlushOk, CommitOk, Wal!Ack, Wal!log, walVars
    <3>2. tx' = tx \/ tx' = [tx EXCEPT ![c] = NoTx]
      BY <2>4 DEF FlushOk, CommitOk
    <3>3. (tx'[c] = tx[c] \/ tx'[c] = NoTx) /\ \A o \in Clients : o # c => tx'[o] = tx[o]
      BY <1>1, <3>2 DEF Typed
    <3>. QED
      BY <1>2, <1>3, <1>4, <3>1, <3>3
  <2>5. CASE LockedApply(c)
    <3>1. UNCHANGED <<file, mine>> /\ Apply(c)
      BY <2>5 DEF LockedApply, Apply, walVars
    <3>2. tx' = [tx EXCEPT ![c].ops = Tail(@)] \/ tx' = [tx EXCEPT ![c] = NoTx]
      BY <3>1 DEF Apply
    <3>3. /\ tx'[c].ops = Tail(tx[c].ops) \/ tx'[c] = NoTx
          /\ \A o \in Clients : o # c => tx'[o] = tx[o]
      BY <1>1, <3>2 DEF Typed
    <3>4. ToSet(Tail(tx[c].ops)) \subseteq ToSet(tx[c].ops)
      BY <1>1, <3>1, TailElements DEF Typed, Apply
    <3>. QED
      BY <1>2, <1>3, <1>4, <3>1, <3>3, <3>4
  <2>6. CASE Drain(c) \/ FlushErr(c)
    <3>1. Wal!Pop(c) \/ Wal!Write(c) \/ Wal!Sync(c) \/ Wal!Fail(c)
      BY <2>6 DEF Drain, FlushErr
    <3>2. Logged' \subseteq Logged
      BY <1>1, <3>1, LoggedDrain DEF Drainers
    <3>3. tx' = tx \/ tx' = [tx EXCEPT ![c] = NoTx]
      BY <2>6 DEF Drain, FlushErr
    <3>4. (tx'[c] = tx[c] \/ tx'[c] = NoTx) /\ \A o \in Clients : o # c => tx'[o] = tx[o]
      BY <1>1, <3>3 DEF Typed
    <3>. QED
      BY <1>2, <1>3, <3>2, <3>4 DEF InsertsOK
  <2>. QED
    BY <1>7, <2>1, <2>2, <2>3, <2>4, <2>5, <2>6 DEF Task, Panic
<1>8. CASE Between
  <2>1. UNCHANGED tx
    BY <1>8 DEF Between
  <2>2. Logged' \subseteq Logged
    <3>1. CASE \E d \in Drainers : DrainsOnly(d)
      BY <1>1, <3>1, LoggedDrain DEF DrainsOnly
    <3>2. CASE UNCHANGED walVars
      BY <3>2, LoggedStill DEF walVars
    <3>3. CASE \E k \in Checkpointers : ReplayScan(k)
      BY <3>2, <3>3 DEF ReplayScan
    <3>. QED
      BY <1>8, <3>1, <3>2, <3>3 DEF Between
  <2>. QED
    BY <2>1, <2>2 DEF InsertsOK
<1>. QED
  BY <1>5, <1>6, <1>7, <1>8, DemoCases

-----------------------------------------------------------------------------
(* What is in the store *)

HasKey(s) == { key \in Keys : s[key] # Missing }

\* Only a Delete takes a key out of a store.
LEMMA UpsertKeeps ==
    ASSUME NEW P, NEW s \in Stores(Nat), P \subseteq HasKey(s), NEW r \in Records, r.kind # "delete"
    PROVE  Upsert(s, r) \in Stores(Nat) /\ P \subseteq HasKey(Upsert(s, r))
<1>1. r.value \in Nat /\ r.value # Missing
  BY DatabaseAssumption DEF Records
<1>2. Upsert(s, r) = [s EXCEPT ![r.key] = r.value]
  BY DEF Upsert
<1>. QED
  BY <1>1, <1>2 DEF Stores, HasKey

\* A checkpoint brings keys, it takes none.
LEMMA ReplayKeeps ==
    ASSUME NEW s \in Stores(Nat), NEW recs \in Seq(Records), \A r \in ToSet(recs) : r.kind # "delete"
    PROVE  HasKey(s) \subseteq HasKey(Replayed(s, recs))
<1> DEFINE X == { x \in Stores(Nat) : HasKey(s) \subseteq HasKey(x) }
<1>1. s \in X /\ \A r \in Records : r.tx \in Nat
  BY DEF Records
<1>2. ToSet(recs) \subseteq Records
  BY DEF ToSet
<1>3. \A r \in ToSet(recs), x \in X : Upsert(x, r) \in X
  BY <1>2, UpsertKeeps
<1>4. Replayed(s, recs) \in X
  <2>. HIDE DEF X
  <2>. QED
    BY <1>1, <1>3, ReplayedStays
<1>. QED
  BY <1>4

LEMMA BetweenKeeps ==
    ASSUME CkptInv, InsertsOK, Between
    PROVE  HasKey(store) \subseteq HasKey(store')
<1>1. Typed /\ ScanOK /\ StoreOK
  BY DEF CkptInv, TypeInv, OutInv, IdsInv
<1>2. CASE UNCHANGED store
  BY <1>2
<1>3. ASSUME NEW k \in Checkpointers, ReplayScan(k) PROVE HasKey(store) \subseteq HasKey(store')
  <2>1. ckpt[k].seen \in Seq(Records) /\ ToSet(ckpt[k].seen) \subseteq ToSet(Readable(file))
    BY <1>1, <1>3 DEF ReplayScan, ScanOK, CkptStates, Scanned
  <2>2. ToSet(ckpt[k].seen) \subseteq Logged
    BY <1>1, <2>1, LoggedFacts DEF Kept
  <2>3. store \in Stores(Nat)
    BY <1>1 DEF StoreOK, Stores, Settled
  <2>4. store' = Replayed(store, ckpt[k].seen)
    BY <1>3 DEF ReplayScan
  <2>. QED
    BY <2>1, <2>2, <2>3, <2>4, ReplayKeeps DEF InsertsOK
<1>. QED
  BY <1>2, <1>3 DEF Between, DrainsOnly

-----------------------------------------------------------------------------
(* Where main and its tasks are *)

LEMMA TasksStep ==
    ASSUME DemoProgram, DemoInv, [DemoNext]_demoVars
    PROVE  TasksOK'
<1>0. CkptInv /\ InsertsOK /\ TasksOK /\ MainOK /\ Typed /\ store \in Stores(Nat)
  BY DEF DemoInv, CkptInv, TypeInv, OutInv, IdsInv, StoreOK, Stores, Settled
<1>1. \A c \in Clients : c \in Keys
  BY DatabaseAssumption DEF DemoProgram
<1>2. CASE Start
  <2>1. UNCHANGED <<pc, spawned, panicked>> /\ spawned = {}
    BY <1>0, <1>2 DEF Start, Recover, MainOK
  <2>. QED
    BY <1>0, <2>1 DEF TasksOK, TaskOK, Returned
<1>3. CASE Rerun
  <2>1. spawned' = {} /\ \A c \in Clients : pc'[c] = "idle"
    BY <1>3 DEF Rerun, CrashAll, Crash
  <2>. QED
    BY <2>1 DEF TasksOK, TaskOK, Returned
<1>4. ASSUME HasKey(store) \subseteq HasKey(store'), NEW o \in Clients,
             pc'[o] = pc[o], tx'[o] = tx[o], o \in spawned' <=> o \in spawned,
             o \in panicked' <=> o \in panicked
      PROVE  TaskOK(o)'
  BY <1>0, <1>1, <1>4 DEF TasksOK, TaskOK, Returned, HasKey
<1>5. CASE Between /\ UNCHANGED <<spawned, panicked>>
  <2>1. HasKey(store) \subseteq HasKey(store') /\ UNCHANGED <<pc, tx, spawned, panicked>>
    BY <1>0, <1>5, BetweenKeeps DEF Between
  <2>. QED
    BY <1>4, <2>1 DEF TasksOK, TaskOK
<1>6. ASSUME NEW c \in Clients, Task(c) PROVE TasksOK'
  <2>1. spawned' = spawned \cup {c} /\ panicked' = panicked
    BY <1>6 DEF Task
  <2>2. ASSUME HasKey(store) \subseteq HasKey(store'), TaskOK(c)',
               \A o \in Clients : o # c => pc'[o] = pc[o] /\ tx'[o] = tx[o]
        PROVE  TasksOK'
    BY <1>4, <2>1, <2>2 DEF TasksOK, TaskOK
  <2>3. CASE Begin(c)
    <3>1. UNCHANGED store /\ pc'[c] = "active" /\ \A o \in Clients : o # c => pc'[o] = pc[o] /\ tx'[o] = tx[o]
      BY <1>0, <2>3 DEF Begin, Typed
    <3>. QED
      BY <2>1, <2>2, <3>1 DEF TaskOK, Returned
  <2>4. CASE AppendOp(c)
    <3>1. UNCHANGED <<store, pc>> /\ pc[c] = "active" /\ \A o \in Clients : o # c => tx'[o] = tx[o]
      BY <1>0, <2>4 DEF AppendOp, Buffer, Typed
    <3>. QED
      BY <2>1, <2>2, <3>1 DEF TaskOK, Returned
  <2>5. CASE CommitCall(c) /\ tx[c].ops # <<>>
    <3>1. UNCHANGED <<store, tx>> /\ pc'[c] = "committing" /\ \A o \in Clients : o # c => pc'[o] = pc[o]
      BY <1>0, <2>5 DEF CommitCall, Typed
    <3>. QED
      BY <2>1, <2>2, <2>5, <3>1 DEF TaskOK, Returned
  <2>6. CASE FlushOk(c)
    <3>1. pc[c] = "committing" /\ tx[c].ops # <<>>
      BY <1>0, <2>6 DEF FlushOk, TasksOK, TaskOK
    <3>2. UNCHANGED <<store, tx>> /\ pc'[c] = "applying" /\ \A o \in Clients : o # c => pc'[o] = pc[o]
      BY <1>0, <2>6, <3>1 DEF FlushOk, Typed
    <3>. QED
      BY <2>1, <2>2, <3>1, <3>2 DEF TaskOK, Returned
  <2>7. CASE CommitOk(c)
    <3>1. store[c] # Missing
      BY <1>0, <2>7 DEF CommitOk, TasksOK, TaskOK, Returned
    <3>2. UNCHANGED store /\ pc'[c] = "idle" /\ \A o \in Clients : o # c => pc'[o] = pc[o] /\ tx'[o] = tx[o]
      BY <1>0, <2>7 DEF CommitOk, Typed
    <3>. QED
      BY <2>1, <2>2, <3>1, <3>2 DEF TaskOK, Returned
  <2>8. CASE LockedApply(c)
    <3> DEFINE op == Head(tx[c].ops)
    <3>1. Apply(c) /\ tx[c].ops \in Seq(Records) /\ tx[c].ops # <<>>
      BY <1>0, <2>8 DEF LockedApply, Apply, Typed
    <3>2. op \in Records /\ op \in ToSet(tx[c].ops)
      BY <3>1, TailElements
    <3>3. op.kind = "insert" /\ op.key = c /\ op.value \in Nat /\ op.value # Missing
      BY <1>0, <3>2, DatabaseAssumption DEF InsertsOK, Records
    <3>4. store' = Upsert(store, op) /\ tx' = [tx EXCEPT ![c].ops = Tail(@)] /\ UNCHANGED pc
      BY <3>1, <3>3 DEF Apply
    <3>5. pc[c] = "applying"
      BY <3>1 DEF Apply
    <3>6. store' = [store EXCEPT ![c] = op.value]
      BY <3>3, <3>4 DEF Upsert
    <3>7. store'[c] # Missing /\ HasKey(store) \subseteq HasKey(store')
      BY <1>0, <1>1, <3>3, <3>6 DEF Stores, HasKey
    <3>8. \A o \in Clients : o # c => pc'[o] = pc[o] /\ tx'[o] = tx[o]
      BY <1>0, <3>4 DEF Typed
    <3>. QED
      BY <2>1, <2>2, <3>4, <3>5, <3>7, <3>8 DEF TaskOK, Returned
  <2>9. CASE Drain(c)
    <3>1. UNCHANGED <<store, pc, tx>> /\ pc[c] \in {"committing", "aborting"}
      BY <1>0, <2>9 DEF Drain, MayDrain
    <3>. QED
      BY <1>0, <2>1, <2>2, <3>1 DEF TasksOK, TaskOK, Returned
  <2>. QED
    BY <1>6, <2>3, <2>4, <2>5, <2>6, <2>7, <2>8, <2>9 DEF Task
<1>7. ASSUME NEW c \in Clients, Panic(c) PROVE TasksOK'
  <2>1. /\ UNCHANGED <<store, spawned>> /\ panicked' = panicked \cup {c}
        /\ pc'[c] = "idle" /\ \A o \in Clients : o # c => pc'[o] = pc[o] /\ tx'[o] = tx[o]
    BY <1>0, <1>7 DEF Panic, FlushErr, Typed
  <2>2. TaskOK(c)'
    BY <2>1 DEF TaskOK, Returned
  <2>. QED
    BY <1>4, <2>1, <2>2 DEF TasksOK, TaskOK
<1>. QED
  BY <1>2, <1>3, <1>5, <1>6, <1>7, DemoCases

LEMMA MainStepOK ==
    ASSUME TasksOK, MainOK, [DemoNext]_demoVars
    PROVE  MainOK'
<1>1. CASE Start
  BY <1>1 DEF Start, MainOK
<1>2. CASE Rerun
  BY <1>2 DEF Rerun, CrashAll, Crash, MainOK
<1>3. ASSUME NEW c \in Clients, Task(c) \/ Panic(c) PROVE MainOK'
  <2>1. ~(main = "starting") /\ ~Joined
    <3>1. CASE Begin(c) /\ c \notin spawned
      BY <3>1 DEF Begin, MainOK, Joined, Returned
    <3>2. CASE pc[c] # "idle"
      BY <3>2 DEF TasksOK, TaskOK, MainOK, Joined, Returned
    <3>. QED
      BY <1>3, <3>1, <3>2 DEF Task, Panic, AppendOp, Buffer, CommitCall, Drain, MayDrain, FlushOk,
         FlushErr, CommitOk, LockedApply, Apply
  <2>2. UNCHANGED main
    BY <1>3 DEF Task, Panic
  <2>. QED
    BY <2>1, <2>2 DEF MainOK
<1>4. CASE Between /\ UNCHANGED <<spawned, panicked>>
           /\ (main' = main \/ main' = "failed" \/ ManualCheckpoint \/ Verify)
  <2>1. Joined' = Joined /\ UNCHANGED <<mode, spawned, panicked>>
    BY <1>4 DEF Between, Joined, Returned
  <2>2. CASE main' = main \/ main' = "failed"
    BY <2>1, <2>2 DEF MainOK
  <2>3. CASE ManualCheckpoint
    <3>1. Joined /\ main' # "starting"
      BY <2>3 DEF ManualCheckpoint, MainOK
    <3>. QED
      BY <2>1, <3>1 DEF MainOK
  <2>4. CASE Verify
    BY <2>1, <2>4 DEF Verify, MainOK
  <2>. QED
    BY <1>4, <2>2, <2>3, <2>4
<1>. QED
  BY <1>1, <1>2, <1>3, <1>4, DemoCases

\* When the program of main.rs prints the keys of its tasks they are all there: each
\* task's commit() has applied its insert, and no checkpoint, of this main() or of
\* the scheduler, can have replayed anything that takes a key away, whatever earlier
\* runs, torn records or markers left in the files.
THEOREM DemoPrintsAll ==
    ASSUME DemoProgram
    PROVE  DemoSpec => []DemoVerifies
<1>1. DemoInit => DemoInv
  <2>1. ASSUME DemoInit PROVE InsertsOK /\ TasksOK /\ MainOK
    <3>1. /\ file = <<>> /\ mode = "down" /\ main = "starting" /\ spawned = {} /\ panicked = {}
          /\ \A c \in Clients : mine[c] = {} /\ tx[c] = NoTx /\ pc[c] = "idle"
      BY <2>1 DEF DemoInit, CkptInit, Init, Wal!LogInit
    <3>2. Logged = {} /\ ToSet(NoTx.ops) = {}
      BY <3>1 DEF Logged, All, NoTx, ToSet
    <3>. QED
      BY <3>1, <3>2 DEF InsertsOK, TasksOK, TaskOK, Returned, MainOK
  <2>. QED
    BY <2>1, CkptInit0 DEF DemoInit, DemoInv
<1>2. DemoInv /\ [DemoNext]_demoVars => DemoInv'
  BY DemoIsCkpt, CkptInvStep, InsertsStep, TasksStep, MainStepOK DEF DemoInv
<1>3. DemoInv => DemoVerifies
  BY DEF DemoInv, TasksOK, TaskOK, MainOK, Joined, DemoVerifies
<1>. QED
  BY <1>1, <1>2, <1>3, PTL DEF DemoSpec
=============================================================================
