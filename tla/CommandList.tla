---------------------------- MODULE CommandList ----------------------------
(***************************************************************************)
(* NetCommandList: the sorted list that holds the commands of a frame, the *)
(* queue of a connection and the commands pending at or relayed by a       *)
(* player.  It remembers where it inserted last and tries that place       *)
(* first; it is to hold no command twice, since the same command arrives   *)
(* again whenever it is resent.                                            *)
(*                                                                         *)
(* The doubly linked list is a sequence and m_lastMessageInserted the      *)
(* position it points at, 0 for a null pointer.                            *)
(***************************************************************************)
EXTENDS Naturals, SequencesExt

CONSTANTS
    Messages,   \* the messages that are put into the list
    MaxLength   \* bound on the length of the list

VARIABLES
    list,                 \* m_first .. m_last
    lastMessageInserted,  \* m_lastMessageInserted
    content               \* messages added and not removed (history)

vars == <<list, lastMessageInserted, content>>

-----------------------------------------------------------------------------
(* NetCommandType, the types used here: the acks name a command of an       *)
(* original player and have no ID of their own.                             *)
AckTypes == {0, 1, 2}

(* DoesCommandRequireACommandID.  It is false of some further types (keep-  *)
(* alives, progress, disconnect chat, ...), which Messages must not hold.   *)
RequiresID(m) == m.type \notin AckTypes

(* A command has one ID, which its player gives to no other command.  The   *)
(* sort number of an ack is the ID of the command it acknowledges.          *)
ASSUME MessagesAssumption ==
    /\ \A m \in Messages :
          /\ m \in [type : Nat, player : Nat, id : Nat, sort : Nat, orig : Nat]
          /\ IF RequiresID(m) THEN m.sort = m.id ELSE m.id = 0
    /\ \A m, n \in Messages :
          (RequiresID(m) /\ RequiresID(n) /\ m.player = n.player /\ m.id = n.id) => m = n

ASSUME LengthAssumption == MaxLength \in Nat

(* Plausible bug: acks of commands of different players are taken for equal. *)
IsEqualByNumber(m, n) ==
    /\ RequiresID(m) = RequiresID(n)
    /\ m.player = n.player
    /\ IF RequiresID(m) THEN m.id = n.id ELSE m.type = n.type /\ m.sort = n.sort

IsEqualCommandMsg(m, n) ==
    /\ RequiresID(m) = RequiresID(n)
    /\ m.player = n.player
    /\ IF RequiresID(m)
         THEN m.id = n.id
         ELSE m.type = n.type /\ m.orig = n.orig /\ m.sort = n.sort

SameSection(m, n) == m.type = n.type /\ m.player = n.player

(* Plausible bug: what follows the last insertion is not looked at. *)
FollowsLastUnchecked(m) ==
    /\ lastMessageInserted # 0
    /\ SameSection(list[lastMessageInserted], m)
    /\ list[lastMessageInserted].id < m.id

(* The fast path: m belongs right behind the message inserted last. *)
FollowsLast(m) ==
    /\ lastMessageInserted # 0
    /\ SameSection(list[lastMessageInserted], m)
    /\ list[lastMessageInserted].id < m.id
    /\ \/ lastMessageInserted = Len(list)
       \/ LET theNext == list[lastMessageInserted + 1]
          IN  theNext.type > m.type \/ theNext.player > m.player \/ theNext.id > m.id

(* The first position from i on whose message does not pass the test. *)
SkipWhile(i, Test(_)) ==
    CHOOSE j \in i .. Len(list) + 1 :
        /\ \A k \in i .. j - 1 : Test(list[k])
        /\ j <= Len(list) => ~Test(list[j])

(* The three loops of the slow path: type, then player, then sort number. *)
SearchPosition(m) ==
    LET lowerType(n) == n.type < m.type
        lowerPlayer(n) == n.type = m.type /\ n.player < m.player
        lowerNumber(n) == SameSection(m, n) /\ n.sort < m.sort
    IN  SkipWhile(SkipWhile(SkipWhile(1, lowerType), lowerPlayer), lowerNumber)

InsertPosition(m) ==
    IF FollowsLast(m) THEN lastMessageInserted + 1
    ELSE IF m.type > Last(list).type THEN Len(list) + 1
    ELSE IF m.type < Head(list).type THEN 1
    ELSE SearchPosition(m)

(* The only message the new one is compared with to find out that it is in  *)
(* the list already.                                                        *)
Neighbour(m) ==
    IF FollowsLast(m) THEN lastMessageInserted
    ELSE IF InsertPosition(m) > Len(list) THEN Len(list) ELSE InsertPosition(m)

AlreadyThere(m) == list # <<>> /\ IsEqualCommandMsg(list[Neighbour(m)], m)

Init ==
    /\ list = <<>>
    /\ lastMessageInserted = 0
    /\ content = {}

AddMessage(m) ==
    /\ Len(list) < MaxLength
    /\ content' = content \cup {m}
    /\ IF AlreadyThere(m)
         THEN UNCHANGED <<list, lastMessageInserted>>
         ELSE LET i == IF list = <<>> THEN 1 ELSE InsertPosition(m)
              IN  list' = InsertAt(list, i, m) /\ lastMessageInserted' = i

(* Plausible bug: m_lastMessageInserted is left pointing at the message. *)
RemoveMessageKeepsLast(i) ==
    /\ list' = RemoveAt(list, i)
    /\ content' = content \ {list[i]}
    /\ lastMessageInserted' = IF lastMessageInserted > i
                                THEN lastMessageInserted - 1 ELSE lastMessageInserted

(* An acknowledged, sent or cleared message is taken out; if it was the     *)
(* last one inserted the next one takes its place.                          *)
RemoveMessage(i) ==
    /\ list' = RemoveAt(list, i)
    /\ content' = content \ {list[i]}
    /\ lastMessageInserted' =
         CASE lastMessageInserted > i -> lastMessageInserted - 1
           [] lastMessageInserted = i /\ i = Len(list) -> 0
           [] OTHER -> lastMessageInserted

Reset ==
    /\ list' = <<>>
    /\ lastMessageInserted' = 0
    /\ content' = {}

Next ==
    \/ \E m \in Messages : AddMessage(m)
    \/ \E i \in 1 .. Len(list) : RemoveMessage(i)
    \/ Reset

Spec == Init /\ [][Next]_vars

-----------------------------------------------------------------------------
(* The list holds messages, and the place of the last insertion is one of   *)
(* the list: the pointer never dangles.                                     *)
TypeOK ==
    /\ list \in Seq(Messages)
    /\ lastMessageInserted \in 0 .. Len(list)
    /\ content \in SUBSET Messages

(* A message that was added stays until it is removed: the check for        *)
(* duplicates drops nothing that is not there.                              *)
NothingLost == content \subseteq ToSet(list)

(* Acks are of the lowest types and come first; the rest has an ID.         *)
FirstWithID == SkipWhile(1, LAMBDA m : ~RequiresID(m))

CommandsWithID == SubSeq(list, FirstWithID, Len(list))

(* The commands with an ID form an ordered set: whatever the order in which *)
(* they are added and removed, repeated or mixed with acks, the place       *)
(* addMessage chooses is the one its contents determine.                    *)
Ordered == INSTANCE OrderedCommands
             WITH Commands <- {m \in Messages : RequiresID(m)},
                  queue <- CommandsWithID
OrderIsCanonical == Ordered!Spec

=============================================================================
