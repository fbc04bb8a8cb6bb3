--------------------------- MODULE MCCommandList ---------------------------
(***************************************************************************)
(* Messages for TLC: frame infos (type 3) and game commands (type 4) of    *)
(* two players, and acks (type 1) that the list's owner, player 0, sends.  *)
(***************************************************************************)
EXTENDS CommandList

Command(type, p, id) == [type |-> type, player |-> p, id |-> id, sort |-> id, orig |-> p]
Ack(p, number, orig) == [type |-> 1, player |-> p, id |-> 0, sort |-> number, orig |-> orig]

(* Both players number their commands alike; each ID has one type. *)
Mixed ==
    {Command(IF id % 2 = 0 THEN 3 ELSE 4, p, id) : p \in {0, 1}, id \in 1 .. 4}
        \cup {Ack(0, number, 1) : number \in {1, 2}} \cup {Ack(0, 1, 2)}

=============================================================================
