---------------------------- MODULE MCCheckpoint ----------------------------
(* Small instances of Checkpoint for TLC. *)
EXTENDS Checkpoint, TLC
CkptSymmetry == Permutations(Clients) \cup Permutations(Checkpointers)
InsertsDeletes == {"insert", "delete"}
Inserts == {"insert"}
SharedKeys == [c \in Clients |-> Keys]
OwnKeys == [c \in Clients |-> {c}]     \* with Keys = Clients
=============================================================================
