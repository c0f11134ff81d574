------------------------------- MODULE MCDemo -------------------------------
(* The two transactions of main.rs for TLC. *)
EXTENDS Demo
Inserts == {"insert"}
Order == SetToSeq(Clients)
OwnKeys == [c \in Clients |-> {c}]     \* with Keys = Clients
=============================================================================
