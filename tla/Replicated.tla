----------------------------- MODULE Replicated -----------------------------
(***************************************************************************)
(* What the lockstep protocol promises, without clocks, counts, buffers or *)
(* messages: the players execute the frames of one log in order.  The      *)
(* entry of a frame is the set of the commands created for it, and nothing *)
(* is created for a frame that anybody has executed.                       *)
(***************************************************************************)
EXTENDS Naturals, Sequences

CONSTANT Player

VARIABLES
    created,    \* every command created so far
    executed    \* the sets of commands each player has executed, in order

Init ==
    /\ created = {}
    /\ executed = [p \in Player |-> <<>>]

(* A player creates one new command, for a frame nobody has executed. *)
Create ==
    /\ \E c \in created' :
          /\ created' = created \cup {c}
          /\ \A p \in Player : Len(executed[p]) < c.frame
    /\ UNCHANGED executed

(* A player executes its next frame: all the commands created for it. *)
Execute(p) ==
    /\ executed' = [executed EXCEPT ![p] =
                      Append(@, {c \in created : c.frame = Len(@) + 1})]
    /\ UNCHANGED created

Next == Create \/ \E p \in Player : Execute(p)

Spec == Init /\ [][Next]_<<created, executed>>

=============================================================================
