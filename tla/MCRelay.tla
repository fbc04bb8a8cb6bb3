------------------------------- MODULE MCRelay -------------------------------
(* Games of one frame among three players, player 0 the packet router.     *)
EXTENDS Relay

Game(p) == [type |-> "GAMECOMMAND", player |-> p, frame |-> 1]
Leave(p) == [type |-> "PLAYERLEAVE", player |-> p, frame |-> 1]
Load(p) == [type |-> "LOADCOMPLETE", player |-> p, frame |-> 1]

(* The router leaves while a client, or the router that follows it, has a  *)
(* command on its way; a client leaves while another has; a player leaves  *)
(* that still owes an answer to a command sent past the router.            *)
OneLeaves ==
    {{Leave(0), Game(2)}, {Leave(0), Game(1)}, {Leave(1), Game(2)}, {Leave(2), Load(1)}}
=============================================================================
