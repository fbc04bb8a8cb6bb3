---------------------------- MODULE MCDisconnect ----------------------------
(***************************************************************************)
(* Values of the bounds of Disconnect for TLC.                             *)
(***************************************************************************)
EXTENDS Disconnect

(* Only the player that may crash issues a command. *)
OneFromRouter == [p \in Player |-> IF p = 0 THEN 1 ELSE 0]

=============================================================================
