--------------------------- MODULE MCBigCommands ---------------------------
(***************************************************************************)
(* Commands for TLC.  A chunk holds two bytes: a command of four fills its *)
(* chunks, one of five or seven leaves its last chunk half empty.          *)
(***************************************************************************)
EXTENDS BigCommands

Big(p, id, size) == [player |-> p, id |-> id, size |-> size]

DifferentIDs == {Big(0, 1, 4), Big(1, 2, 7)}
SameID == {Big(0, 1, 4), Big(1, 1, 5)}

=============================================================================
