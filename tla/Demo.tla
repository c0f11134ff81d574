-------------------------------- MODULE Demo --------------------------------
(***************************************************************************)
(* The program of src/src/main.rs: recover, start the checkpoint           *)
(* scheduler, run one transaction in each of two tasks, join them, take a  *)
(* checkpoint by hand and read the store.  It ends without a shutdown() and *)
(* is then run again on what is left of its files (it can be killed        *)
(* earlier, too: those crashes are in Checkpoint).                         *)
(***************************************************************************)
EXTENDS Checkpoint

CONSTANTS
    Main,       \* the main task, which calls checkpoint() once
    Scheduler,  \* the task of start_checkpoint_scheduler()
    Handles     \* the tasks in the order main() awaits them

ASSUME DemoAssumption ==
    /\ Checkpointers = {Main, Scheduler}
    /\ Handles \in Seq(Clients) /\ ToSet(Handles) = Clients

VARIABLES
    main,       \* where main() is
    spawned,    \* the tasks whose transaction has begun in this process
    panicked    \* those that ended by unwrap() of an error

demoVars == <<allVars, main, spawned, panicked>>

Ended == {"verified", "failed"}

DemoInit == CkptInit /\ main = "starting" /\ spawned = {} /\ panicked = {}

\* new(), recover(), and the two spawns.
Start ==
    /\ main = "starting"
    /\ Recover
    /\ main' = "joining"
    /\ UNCHANGED <<ckptVars, spawned, panicked>>

Task(c) ==
    /\ main \notin Ended
    /\ \/ Begin(c) /\ c \notin spawned /\ UNCHANGED ckptVars
       \/ AppendOp(c) /\ UNCHANGED ckptVars
       \/ CommitCall(c) /\ tx[c].ops # <<>> /\ UNCHANGED ckptVars
       \/ (Drain(c) \/ FlushOk(c) \/ CommitOk(c)) /\ UNCHANGED ckptVars
       \/ LockedApply(c)
    /\ spawned' = spawned \cup {c}
    /\ UNCHANGED <<main, panicked>>

\* commit() returns the error of its flush(), the only one an Insert can meet.
Panic(c) ==
    /\ main \notin Ended
    /\ FlushErr(c)
    /\ panicked' = panicked \cup {c}
    /\ UNCHANGED <<ckptVars, main, spawned>>

Returned(c) == c \in spawned /\ pc[c] = "idle" /\ c \notin panicked

\* Mutant: only one of the handles is awaited.
Joined_One == \E c \in Clients : Returned(c)

Joined == \A c \in Clients : Returned(c)

\* unwrap() of the first handle of a task that panicked ends main() the same way.
JoinFails ==
    /\ main = "joining"
    /\ \E i \in DOMAIN Handles :
          /\ Handles[i] \in panicked
          /\ \A j \in 1..(i - 1) : Returned(Handles[j])
    /\ main' = "failed"
    /\ UNCHANGED <<allVars, spawned, panicked>>

\* The checkpoint by hand: NoNewCheckpoints is fine, any other error ends main().
ManualCheckpoint ==
    \/ /\ main = "joining"
       /\ Joined
       /\ CheckpointCall(Main)
       /\ main' = IF ckpt'[Main].at = "idle" THEN "failed" ELSE "checkpointing"
    \/ /\ main = "checkpointing"
       /\ Scan(Main) \/ ReplayScan(Main) \/ TruncateMarker(Main) \/ WriteMarker(Main)
       /\ main' = IF ckpt'[Main].at = "idle" THEN "verifying" ELSE main
    \/ /\ main = "checkpointing"
       /\ ScanFails(Main) \/ SetCheckpointFails(Main)
       /\ main' = "failed"

Verify ==
    /\ main = "verifying"
    /\ ~StoreLocked
    /\ main' = "verified"
    /\ UNCHANGED <<allVars, spawned, panicked>>

MainStep ==
    \/ Start \/ JoinFails \/ Verify
    \/ ManualCheckpoint /\ UNCHANGED <<spawned, panicked>>

\* The scheduler prints whatever checkpoint() returns and waits for its tick.
SchedulerTick == main \notin Ended /\ CheckpointCall(Scheduler) /\ UNCHANGED <<main, spawned, panicked>>

SchedulerStep ==
    /\ main \notin Ended
    /\ CkptStep(Scheduler) \/ SetCheckpointFails(Scheduler)
    /\ UNCHANGED <<main, spawned, panicked>>

Flush ==
    /\ main \notin Ended
    /\ Drain(Flusher) \/ FlusherFail
    /\ UNCHANGED <<ckptVars, main, spawned, panicked>>

Rerun == main \in Ended /\ CrashAll /\ main' = "starting" /\ spawned' = {} /\ panicked' = {}

\* What the tasks can do without another tick of the scheduler.
Work == MainStep \/ SchedulerStep \/ Flush \/ \E c \in Clients : Task(c) \/ Panic(c)

DemoNext == Work \/ SchedulerTick \/ Rerun

DemoSpec == DemoInit /\ [][DemoNext]_demoVars
-----------------------------------------------------------------------------
(* Properties *)

\* What the demo prints at its end: the keys of all its tasks, whatever failed
\* drains, and the scheduler's replays beside them, left in the file and the store.
DemoVerifies == main = "verified" => \A c \in Clients : store[c] # Missing

\* Nobody waits for ever, whatever fails: from the moment both tasks have begun
\* to the end of main() somebody can go on.  Commits wait for the flusher or drain
\* the queue themselves, drains wait for each other's writes, applying tasks and
\* checkpoints for the store lock, main() for both tasks, and a failed step of
\* each gives back what the others wait for.  Every step uses up one of the
\* bounds, so main() gets to its end however the tasks are scheduled.
DemoNeverStuck == spawned = Clients /\ main \notin Ended => ENABLED Work
=============================================================================
