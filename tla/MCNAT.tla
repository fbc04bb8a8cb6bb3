-------------------------------- MODULE MCNAT --------------------------------
(***************************************************************************)
(* Setups of NAT for TLC.                                                  *)
(***************************************************************************)
EXTENDS NAT

Setup(m, s, n, lostMax, lateMax) ==
    [mangled |-> m, smart |-> s, netgear |-> n, lost |-> lostMax, late |-> lateMax]

(* A netgear; a node that asks the mangler each round; one that asks once,  *)
(* and a lost probe; a timeout that fires too early.                        *)
MixedSetups ==
    {Setup({0}, {}, {0}, 0, 0), Setup({1}, {1}, {}, 0, 0), Setup({2}, {}, {}, 1, 0), Setup({}, {}, {}, 0, 1)}

(* One node asks the mangler. *)
OneMangled == {Setup({0}, {0}, {}, 0, 0)}

=============================================================================
