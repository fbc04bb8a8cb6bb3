----------------------------- MODULE MCLockstep -----------------------------
(***************************************************************************)
(* Values of the bounds of Lockstep for TLC.                               *)
(***************************************************************************)
EXTENDS Lockstep

(* Every player issues one command; nobody does; only client 1 does; the    *)
(* router issues two, so that it can change the run-ahead twice.             *)
OneEach == [p \in Player |-> 1]
NoCommands == [p \in Player |-> 0]
OneFromClient == [p \in Player |-> IF p = 1 THEN 1 ELSE 0]
TwoFromRouter == [p \in Player |-> IF p = 0 THEN 2 ELSE 0]

=============================================================================
