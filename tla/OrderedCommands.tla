-------------------------- MODULE OrderedCommands --------------------------
(***************************************************************************)
(* What a list of network commands promises to those who use it: it is a   *)
(* set.  Its order (type, then player, then command ID) depends on its     *)
(* contents only, never on the order in which commands were put in.  Every *)
(* player therefore runs the commands of a frame in the same order.        *)
(***************************************************************************)
EXTENDS Naturals, SequencesExt

CONSTANT Commands

VARIABLE queue

Before(a, b) ==
    \/ a.type < b.type
    \/ a.type = b.type /\ a.player < b.player
    \/ a.type = b.type /\ a.player = b.player /\ a.id < b.id

(* queue' holds the commands of S, each once, in order. *)
IsOrdering(S) ==
    /\ ToSet(queue') = S
    /\ \A i \in 1 .. Len(queue') - 1 : Before(queue'[i], queue'[i + 1])

Init == queue = <<>>

Put(c) == IsOrdering(ToSet(queue) \cup {c})

Take(c) == IsOrdering(ToSet(queue) \ {c})

Clear == queue' = <<>>

Next == (\E c \in Commands : Put(c) \/ Take(c)) \/ Clear

Spec == Init /\ [][Next]_queue

=============================================================================
