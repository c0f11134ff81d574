----------------------------- MODULE MCDatabase -----------------------------
(* Small instances of Database for TLC. *)
EXTENDS Database, TLC
Symmetry == Permutations(Clients)
InsertsDeletes == {"insert", "delete"}
Inserts == {"insert"}
InsertsUpdates == {"insert", "update"}
SharedKeys == [c \in Clients |-> Keys]
OwnKeys == [c \in Clients |-> {c}]     \* with Keys = Clients
=============================================================================
