---------------------------- MODULE RelayProofs ----------------------------
(***************************************************************************)
(* Type correctness of the relay of commands, and that it keeps what is    *)
(* still needed, for every number of players, every set of scripts and     *)
(* every number of faults; the second in the games whose packet router     *)
(* stays.                                                                  *)
(*                                                                         *)
(* The argument of the second: the connections and the fallback plan of a  *)
(* player follow the frames it has executed, so a command reaches whoever  *)
(* has still to execute its frame.  It goes one of three ways, and leaves  *)
(* a list only when the player at the end does not need it any more.  What *)
(* the router has is in its list for all that need it, and in its list of  *)
(* confirmations until they have it, after which the sender may forget it. *)
(***************************************************************************)
EXTENDS Relay, WellFoundedInduction, TLAPS

-----------------------------------------------------------------------------
(* What the types leave out: somebody stays in the game, whom everybody has *)
(* in its fallback plan, so that there is always a next packet router; and  *)
(* what is pending is for somebody else than who keeps it.                  *)

Stays(q) == \A c \in script : c.type = "PLAYERLEAVE" => c.player # q

SomebodyStays == \E q \in Player : Stays(q) /\ \A p \in Player : q \in inGame[p]

PendingForOthers == \A e \in pending : e.relay \ {e.at} # {}

RelayInv == TypeOK /\ SomebodyStays /\ PendingForOthers

Hop == [kind : {"COMMAND"}, src : Player, dst : Player,
        relay : (SUBSET Player) \ {{}}, cmd : script]

Packet == [kind : AckKinds \cup {"COMMAND"}, src : Player, dst : Player,
           relay : SUBSET Player, cmd : script]

(* A hop that may stand in a list of player p. *)
OpenHop(p, h) == h \in Hop /\ h.src = p /\ conn[p][h.dst] = "open"

-----------------------------------------------------------------------------
LEMMA ScriptFacts ==
    ASSUME script \in Scripts
    PROVE  /\ \A c \in script : c.player \in Player /\ c.frame \in 1 .. MaxFrame
           /\ \E q \in Player : Stays(q)
BY RelayAssumption DEF Player, Stays

(* A set of players has a first one. *)
LEMMA FirstOf ==
    ASSUME NEW S \in SUBSET Player, S # {}
    PROVE  \E q \in S : \A r \in S : q <= r
<1>1. S \subseteq Nat
  BY RelayAssumption DEF Player
<1>2. \E q \in S : \A r \in S : ~(<<r, q>> \in OpToRel(<, Nat))
  BY <1>1, WFMin, NatLessThanWellFounded, Zenon
<1>3. \A q, r \in S : ~(<<r, q>> \in OpToRel(<, Nat)) => ~(r < q)
  BY <1>1, Zenon DEF OpToRel
<1>4. PICK q \in S : \A r \in S : ~(r < q)
  BY <1>2, <1>3
<1>5. \A r \in S : q <= r
  BY <1>1, <1>4
<1> QED
  BY <1>5

LEMMA NextRouter ==
    ASSUME NEW p \in Player, NEW r, inGame[p] \ {r} \in SUBSET Player, inGame[p] \ {r} # {}
    PROVE  RouterAfter(p, r) \in Player
<1>1. \E q \in inGame[p] \ {r} : \A s \in inGame[p] \ {r} : q <= s
  BY FirstOf
<1> QED
  BY <1>1, Zenon DEF RouterAfter

(* Whatever a player sends goes into the list of an open connection. *)
LEMMA DirectHops ==
    ASSUME NEW p \in Player, NEW relay \in SUBSET Player, NEW c \in script
    PROVE  \A h \in DirectTo(p, relay, c) : OpenHop(p, h)
BY DEF DirectTo, Carry, Open, OpenHop, Hop

LEMMA LocalHops ==
    ASSUME NEW p \in Player, NEW r \in Player, NEW relay \in SUBSET Player, NEW c \in script,
           relay \ {p} # {}
    PROVE  \A h \in SendLocal(p, r, relay, c) : OpenHop(p, h)
<1>1. CASE ViaRouter(p, r, c)
  BY <1>1 DEF SendLocal, Carry, Open, OpenHop, Hop
<1>2. CASE ~ViaRouter(p, r, c)
  BY <1>2, DirectHops DEF SendLocal
<1> QED
  BY <1>1, <1>2

LEMMA AddToType ==
    ASSUME NEW list, list \subseteq [at : Player, cmd : script, relay : SUBSET Player],
           NEW p \in Player, NEW relay \in SUBSET Player, NEW c \in script
    PROVE  /\ AddTo(list, p, relay, c) \subseteq [at : Player, cmd : script, relay : SUBSET Player]
           /\ AddTo(list, p, relay, c) \subseteq list \cup {[at |-> p, cmd |-> c, relay |-> relay]}
BY DEF AddTo

(* What is still on its way was in the list. *)
LEMMA UnqueueTypes ==
    ASSUME NEW removed, NEW acks, faults \in 0 .. MaxFaults, Unqueue(removed, acks)
    PROVE  net' \subseteq acks \cup removed /\ faults' \in 0 .. MaxFaults
<1>1. PICK copies \in SUBSET removed :
         /\ Cardinality(copies) \in 0 .. MaxFaults - faults
         /\ faults' = faults + Cardinality(copies)
         /\ net' = acks \cup copies
  BY DEF Unqueue
<1>2. faults' \in 0 .. MaxFaults
  BY <1>1, RelayAssumption
<1> QED
  BY <1>1, <1>2

-----------------------------------------------------------------------------
LEMMA RelayInit == Init => RelayInv
<1> SUFFICES ASSUME Init PROVE RelayInv
  OBVIOUS
<1>1. N \in Nat \ {0} /\ MaxFrame \in Nat /\ MaxFaults \in Nat
  BY RelayAssumption
<1>2. 0 \in Player /\ 1 \in 1 .. MaxFrame + 1 /\ 0 \in 0 .. MaxFaults
  BY <1>1 DEF Player
<1>3. conn \in [Player -> [Player -> {"open", "quitting", "closed"}]]
  BY DEF Init
<1>4. TypeOK
  BY <1>2, <1>3 DEF Init, TypeOK
<1>5. SomebodyStays
  BY ScriptFacts DEF Init, SomebodyStays
<1>6. PendingForOthers
  BY DEF Init, PendingForOthers
<1> QED
  BY <1>4, <1>5, <1>6 DEF RelayInv

LEMMA QueueGrows ==
    ASSUME TypeOK, NEW p \in Player, NEW items, \A h \in items : OpenHop(p, h)
    PROVE  /\ queue \cup NewIn(queue, items) \subseteq Hop
           /\ \A h \in queue \cup NewIn(queue, items) : conn[h.src][h.dst] # "closed"
BY DEF TypeOK, NewIn, OpenHop, Hop

LEMMA RelayIssue ==
    ASSUME RelayInv, NEW p \in Player, NEW c \in script, Issue(p, c)
    PROVE  RelayInv'
<1> USE DEF RelayInv
<1>1. TypeOK /\ router[p] \in Player /\ Player \in SUBSET Player
  BY DEF TypeOK
<1>2. has' \in [Player -> SUBSET script]
  BY DEF Issue, TypeOK
<1>3. CASE ViaRouter(p, router[p], c)
  <2>1. Player \ {p} # {}
    BY <1>1, <1>3 DEF ViaRouter
  <2>2. \A h \in SendLocal(p, router[p], Player, c) : OpenHop(p, h)
    BY <1>1, <2>1, LocalHops
  <2>3. /\ queue' \subseteq Hop
        /\ \A h \in queue' : conn[h.src][h.dst] # "closed"
    BY <1>1, <2>2, QueueGrows DEF Issue
  <2>4. /\ pending' \subseteq [at : Player, cmd : script, relay : SUBSET Player]
        /\ pending' \subseteq pending \cup {[at |-> p, cmd |-> c, relay |-> Player \ {p}]}
    BY <1>1, <1>3, AddToType DEF Issue, TypeOK
  <2>5. PendingForOthers'
    BY <2>1, <2>4 DEF PendingForOthers
  <2>6. TypeOK'
    BY <1>2, <2>3, <2>4 DEF Issue, TypeOK, links, traffic, Hop
  <2> QED
    BY <2>5, <2>6 DEF Issue, links, SomebodyStays, Stays
<1>4. CASE ~ViaRouter(p, router[p], c)
  <2>1. \A h \in SendLocal(p, router[p], Player, c) : OpenHop(p, h)
    BY <1>1, <1>4, DirectHops DEF SendLocal
  <2>2. /\ queue' \subseteq Hop
        /\ \A h \in queue' : conn[h.src][h.dst] # "closed"
    BY <1>1, <2>1, QueueGrows DEF Issue
  <2>3. pending' = pending
    BY <1>4 DEF Issue
  <2>4. TypeOK'
    BY <1>2, <2>2, <2>3 DEF Issue, TypeOK, links, traffic, Hop
  <2> QED
    BY <2>3, <2>4 DEF Issue, links, SomebodyStays, Stays, PendingForOthers
<1> QED
  BY <1>3, <1>4

(* A player that leaves the session on a frame is not the one that stays. *)
LEMMA RelayExecuteFrame ==
    ASSUME RelayInv, NEW p \in Player, ExecuteFrame(p)
    PROVE  RelayInv'
<1> USE DEF RelayInv
<1>1. frame' \in [Player -> 1 .. MaxFrame + 1]
  BY RelayAssumption DEF ExecuteFrame, TypeOK
<1>2. CASE Leaving(frame[p]) = {}
  BY <1>1, <1>2 DEF ExecuteFrame, TypeOK, traffic, SomebodyStays, Stays, PendingForOthers
<1>3. CASE Leaving(frame[p]) # {}
  <2>1. PICK r \in Leaving(frame[p]) : PlayerLeave(p, r)
    BY <1>3 DEF ExecuteFrame
  <2>2. PICK q \in Player : Stays(q) /\ \A s \in Player : q \in inGame[s]
    BY DEF SomebodyStays
  <2>3. r \in Player /\ r # q
    BY <2>1, <2>2, ScriptFacts DEF Leaving, Stays, TypeOK
  <2>4. /\ inGame' = [inGame EXCEPT ![p] = @ \ {r}]
        /\ router' = [router EXCEPT ![p] = IF router[p] = r THEN RouterAfter(p, r) ELSE @]
    BY <2>1 DEF PlayerLeave
  <2>5. RouterAfter(p, r) \in Player
    BY <2>2, <2>3, NextRouter DEF TypeOK
  <2>6. router' \in [Player -> Player] /\ inGame' \in [Player -> SUBSET Player]
    BY <2>4, <2>5 DEF TypeOK
  <2>7. SomebodyStays'
    <3>1. \A s \in Player : q \in inGame'[s]
      BY <2>2, <2>3, <2>4 DEF TypeOK
    <3>2. Stays(q)'
      BY <2>2 DEF Stays, ExecuteFrame
    <3> QED
      BY <3>1, <3>2 DEF SomebodyStays
  <2>8. PendingForOthers'
    BY DEF ExecuteFrame, PendingForOthers
  <2>9. CASE p = r
    <3>1. OwnLeave(p)
      BY <2>1, <2>9 DEF PlayerLeave
    <3> DEFINE cleared == {h \in queue : h.src = p /\ h.cmd.player # p}
    <3>2. /\ queue' = queue \ cleared
          /\ Unqueue(cleared, net)
          /\ conn' = [conn EXCEPT ![p] =
                        [s \in Player |-> IF @[s] = "open" THEN "quitting" ELSE @[s]]]
      BY <3>1 DEF OwnLeave
    <3>3. /\ conn' \in [Player -> [Player -> {"open", "quitting", "closed"}]]
          /\ \A s, t \in Player : conn[s][t] # "closed" => conn'[s][t] # "closed"
      BY <3>2 DEF TypeOK
    <3>4. net' \subseteq net \cup cleared /\ faults' \in 0 .. MaxFaults
      BY <3>2, UnqueueTypes DEF TypeOK
    <3>5. cleared \subseteq Packet /\ net \subseteq Packet
      BY DEF TypeOK, Packet
    <3>6. net' \subseteq Packet
      BY <3>4, <3>5
    <3>7. queue' \subseteq Hop /\ \A h \in queue' : conn'[h.src][h.dst] # "closed"
      BY <3>2, <3>3 DEF TypeOK, Hop
    <3> HIDE DEF cleared
    <3>8. TypeOK'
      BY <1>1, <2>6, <3>3, <3>4, <3>6, <3>7 DEF TypeOK, ExecuteFrame, Hop, Packet
    <3> QED
      BY <2>7, <2>8, <3>8
  <2>10. CASE p # r
    <3>1. OtherLeave(p, r)
      BY <2>1, <2>10 DEF PlayerLeave
    <3> DEFINE items == {h \in ResendPending(p, RouterAfter(p, r)) : h.dst # r}
    <3>2. \A h \in items : OpenHop(p, h)
      <4>1. SUFFICES ASSUME NEW h \in items PROVE OpenHop(p, h)
        OBVIOUS
      <4>2. PICK e \in {g \in pending : g.at = p} :
               h \in SendLocal(p, RouterAfter(p, r), e.relay, e.cmd)
        BY DEF ResendPending
      <4>3. e.relay \in SUBSET Player /\ e.cmd \in script /\ e.relay \ {p} # {}
        BY <4>2 DEF TypeOK, PendingForOthers
      <4> QED
        BY <2>5, <4>2, <4>3, LocalHops
    <3>3. conn' = [conn EXCEPT ![p][r] = "quitting"]
      BY <3>1 DEF OtherLeave
    <3>4. /\ conn' \in [Player -> [Player -> {"open", "quitting", "closed"}]]
          /\ \A s, t \in Player : conn[s][t] # "closed" => conn'[s][t] # "closed"
      BY <2>3, <3>3 DEF TypeOK
    <3>5. queue' = queue \/ queue' = queue \cup NewIn(queue, items)
      BY <3>1 DEF OtherLeave
    <3> HIDE DEF items
    <3>6. /\ queue' \subseteq Hop
          /\ \A h \in queue' : conn[h.src][h.dst] # "closed"
      BY <3>2, <3>5, QueueGrows DEF TypeOK, Hop
    <3>7. \A h \in queue' : conn'[h.src][h.dst] # "closed"
      BY <3>4, <3>6 DEF Hop
    <3>8. TypeOK'
      BY <1>1, <2>6, <3>1, <3>4, <3>6, <3>7 DEF TypeOK, ExecuteFrame, OtherLeave, traffic, Hop
    <3> QED
      BY <2>7, <2>8, <3>8
  <2> QED
    BY <2>9, <2>10
<1> QED
  BY <1>2, <1>3

LEMMA RelayReceiveCommand ==
    ASSUME RelayInv, NEW h \in net \cup queue, ReceiveCommand(h.dst, h)
    PROVE  RelayInv'
<1> USE DEF RelayInv
<1> DEFINE p == h.dst
           c == h.cmd
           to == IF Ignored(p, c) THEN {} ELSE h.relay \cap Open(p)
<1>1. p \in Player /\ c \in script /\ h.relay \in SUBSET Player
  BY DEF TypeOK
<1>2. to \in SUBSET Player
  BY <1>1
<1>3. /\ has' = [has EXCEPT ![p] = IF Ignored(p, c) \/ p \notin h.relay THEN @ ELSE @ \cup {c}]
      /\ relayed' = IF to = {} THEN relayed ELSE AddTo(relayed, p, to, c)
      /\ queue' = queue \cup NewIn(queue, DirectTo(p, to, c))
      /\ net' = (net \ {h}) \cup AckCommand(p, h)
      /\ UNCHANGED <<script, frame, links, pending, faults>>
  BY DEF ReceiveCommand
<1> HIDE DEF to, p, c
<1>4. has' \in [Player -> SUBSET script]
  BY <1>1, <1>3 DEF TypeOK
<1>5. relayed' \subseteq [at : Player, cmd : script, relay : (SUBSET Player) \ {{}}]
  <2>1. CASE to = {}
    BY <1>3, <2>1 DEF TypeOK
  <2>2. CASE to # {}
    <3>1. relayed' \subseteq relayed \cup {[at |-> p, cmd |-> c, relay |-> to]}
      BY <1>3, <2>2 DEF AddTo
    <3> QED
      BY <1>1, <1>2, <2>2, <3>1 DEF TypeOK
  <2> QED
    BY <2>1, <2>2
<1>6. /\ queue' \subseteq Hop
      /\ \A g \in queue' : conn[g.src][g.dst] # "closed"
  BY <1>1, <1>2, <1>3, DirectHops, QueueGrows
<1>7. AckCommand(p, h) \subseteq Packet
  BY <1>1 DEF AckCommand, Ack, AckKind, AckKinds, Open, Packet, c
<1>8. net' \subseteq Packet
  BY <1>3, <1>7 DEF TypeOK, Packet
<1>9. TypeOK'
  BY <1>3, <1>4, <1>5, <1>6, <1>8 DEF TypeOK, links, Hop, Packet
<1> QED
  BY <1>3, <1>9 DEF links, SomebodyStays, Stays, PendingForOthers

LEMMA RelayReceiveAck ==
    ASSUME RelayInv, NEW h \in net \cup queue, ReceiveAck(h.dst, h)
    PROVE  RelayInv'
<1> USE DEF RelayInv
<1> DEFINE p == h.dst
           c == h.cmd
           acked == {g \in List(p, h.src) : StageOne(h) /\ g.cmd = c}
           waiting == {e \in relayed : StageTwo(h) /\ e.at = p /\ e.cmd = c}
           rest == UNION {e.relay \ {AckPlayer(h)} : e \in waiting}
           confirmed == waiting # {} /\ rest = {}
           via == IF ViaRouter(p, router[p], c) THEN router[p] ELSE c.player
           stageTwo == {Ack("ACKSTAGE2", p, q, {c.player}, c) :
                           q \in IF confirmed THEN {via} \cap Open(p) ELSE {}}
           passedOn == {Ack(h.kind, p, q, {q}, c) : q \in h.relay \cap Open(p)}
           kept == {[e EXCEPT !.relay = rest] : e \in IF confirmed THEN {} ELSE waiting}
<1>1. /\ p \in Player /\ c \in script /\ h.relay \in SUBSET Player
      /\ c.player \in Player /\ h.kind \in AckKinds \cup {"COMMAND"}
  BY ScriptFacts DEF TypeOK
<1>2. /\ queue' = queue \ acked
      /\ pending' = {e \in pending : ~(StageTwo(h) /\ e.at = p /\ e.cmd = c)}
      /\ relayed' = (relayed \ waiting) \cup kept
      /\ Unqueue(acked, (net \ {h}) \cup stageTwo \cup passedOn)
      /\ UNCHANGED <<script, frame, has, links>>
  BY DEF ReceiveAck
<1>3. kept \subseteq [at : Player, cmd : script, relay : (SUBSET Player) \ {{}}]
  <2>1. rest \in SUBSET Player
    BY DEF TypeOK
  <2>2. CASE confirmed
    BY <2>2
  <2>3. CASE ~confirmed
    <3>1. \A e \in waiting : e \in [at : Player, cmd : script, relay : (SUBSET Player) \ {{}}]
                             /\ rest # {}
      BY <2>3 DEF TypeOK
    <3> HIDE DEF waiting, rest, confirmed
    <3>2. \A e \in waiting :
             [e EXCEPT !.relay = rest] \in [at : Player, cmd : script, relay : (SUBSET Player) \ {{}}]
      BY <2>1, <3>1
    <3> QED
      BY <2>3, <3>2
  <2> QED
    BY <2>2, <2>3
<1>4. acked \subseteq queue
  BY DEF List
<1>5. stageTwo \subseteq Packet
  BY <1>1 DEF Ack, AckKinds, Open, Packet
<1>6. passedOn \subseteq Packet
  BY <1>1 DEF Ack, Open, Packet
<1> HIDE DEF p, c, acked, waiting, rest, confirmed, via, stageTwo, passedOn, kept
<1>7. relayed' \subseteq [at : Player, cmd : script, relay : (SUBSET Player) \ {{}}]
  BY <1>2, <1>3 DEF TypeOK
<1>8. /\ net' \subseteq ((net \ {h}) \cup stageTwo \cup passedOn) \cup acked
      /\ faults' \in 0 .. MaxFaults
  BY <1>2, UnqueueTypes DEF TypeOK
<1>9. net \subseteq Packet /\ queue \subseteq Packet
  BY DEF TypeOK, Packet
<1>10. net' \subseteq Packet
  BY <1>4, <1>5, <1>6, <1>8, <1>9
<1>11. TypeOK'
  BY <1>2, <1>4, <1>7, <1>8, <1>10 DEF TypeOK, links, Packet
<1> QED
  BY <1>2, <1>11 DEF links, SomebodyStays, Stays, PendingForOthers

LEMMA RelayLinks ==
    ASSUME RelayInv, NEW p \in Player, NEW q \in Player,
           CloseConnection(p, q) \/ QuitTimeout(p, q) \/ EndOfGame(p)
    PROVE  RelayInv'
<1> USE DEF RelayInv
<1>1. CASE CloseConnection(p, q)
  <2>1. /\ conn' = [conn EXCEPT ![p][q] = "closed"]
        /\ UNCHANGED <<script, frame, has, router, inGame, gone, queue, pending, relayed, traffic>>
    BY <1>1 DEF CloseConnection
  <2>2. conn' \in [Player -> [Player -> {"open", "quitting", "closed"}]]
    BY <2>1 DEF TypeOK
  <2>3. \A h \in queue' : conn'[h.src][h.dst] # "closed"
    <3>1. SUFFICES ASSUME NEW h \in queue PROVE conn'[h.src][h.dst] # "closed"
      BY <2>1
    <3>2. ~(h.src = p /\ h.dst = q)
      BY <1>1 DEF CloseConnection, List
    <3>3. h.src \in Player /\ h.dst \in Player /\ conn[h.src][h.dst] # "closed"
      BY DEF TypeOK
    <3> QED
      BY <2>1, <3>2, <3>3 DEF TypeOK
  <2>4. TypeOK'
    BY <2>1, <2>2, <2>3 DEF TypeOK, traffic
  <2> QED
    BY <2>1, <2>4 DEF SomebodyStays, Stays, PendingForOthers
<1>2. CASE QuitTimeout(p, q)
  <2>1. TypeOK'
    BY <1>2 DEF QuitTimeout, TypeOK, links, traffic
  <2> QED
    BY <1>2, <2>1 DEF QuitTimeout, links, SomebodyStays, Stays, PendingForOthers
<1>3. CASE EndOfGame(p)
  <2>1. TypeOK'
    BY <1>3 DEF EndOfGame, TypeOK, traffic
  <2> QED
    BY <1>3, <2>1 DEF EndOfGame, SomebodyStays, Stays, PendingForOthers
<1> QED
  BY <1>1, <1>2, <1>3

LEMMA RelayLose ==
    ASSUME RelayInv, NEW h \in net, Lose(h)
    PROVE  RelayInv'
<1> USE DEF RelayInv
<1>1. faults' \in 0 .. MaxFaults
  BY RelayAssumption DEF Lose, TypeOK
<1>2. TypeOK'
  BY <1>1 DEF Lose, TypeOK, links
<1> QED
  BY <1>2 DEF Lose, links, SomebodyStays, Stays, PendingForOthers

LEMMA RelayStep == RelayInv /\ [Next]_vars => RelayInv'
<1> SUFFICES ASSUME RelayInv, [Next]_vars PROVE RelayInv'
  OBVIOUS
<1>1. CASE Urgent
  <2>1. ASSUME NEW p \in Player, NEW c \in script, Issue(p, c) PROVE RelayInv'
    BY <2>1, RelayIssue
  <2>2. ASSUME NEW p \in Player, EndOfGame(p) PROVE RelayInv'
    BY <2>2, RelayLinks
  <2>3. ASSUME NEW p \in Player, NEW q \in Player, CloseConnection(p, q) PROVE RelayInv'
    BY <2>3, RelayLinks
  <2> QED
    BY <1>1, <2>1, <2>2, <2>3 DEF Urgent
<1>2. ASSUME NEW p \in Player, ExecuteFrame(p) PROVE RelayInv'
  BY <1>2, RelayExecuteFrame
<1>3. ASSUME NEW p \in Player, NEW q \in Player, QuitTimeout(p, q) PROVE RelayInv'
  BY <1>3, RelayLinks
<1>4. ASSUME NEW h \in queue \cup net, Receive(h) PROVE RelayInv'
  <2>1. h \in net \cup queue
    BY <1>4
  <2>2. CASE ReceiveCommand(h.dst, h)
    BY <2>1, <2>2, RelayReceiveCommand
  <2>3. CASE ReceiveAck(h.dst, h)
    BY <2>1, <2>3, RelayReceiveAck
  <2> QED
    BY <1>4, <2>2, <2>3 DEF Receive
<1>5. ASSUME NEW h \in net, Lose(h) PROVE RelayInv'
  BY <1>5, RelayLose
<1>6. CASE UNCHANGED vars
  BY <1>6 DEF vars, RelayInv, TypeOK, SomebodyStays, Stays, PendingForOthers
<1> QED
  BY <1>1, <1>2, <1>3, <1>4, <1>5, <1>6 DEF Next

(* Every variable keeps its type; a connection is never deleted with a      *)
(* command in its list, nothing is put into the list of a deleted one, and  *)
(* there is always a next packet router (ConnectionManager.cpp, update and  *)
(* disconnectPlayer).                                                       *)
THEOREM RelayTypeCorrect == Spec => []TypeOK
<1>1. RelayInv => TypeOK
  BY DEF RelayInv
<1> QED
  BY <1>1, RelayInit, RelayStep, PTL DEF Spec

-----------------------------------------------------------------------------
(* What a command that somebody still needs is kept by, in the games where  *)
(* the packet router does not leave and a player issues nothing for a frame *)
(* after the one it leaves on (nobody leaves while the game is loading).    *)
(* Where the router leaves, a command can be lost to a player that is slow. *)

RouterStays == \A c \in script : c.type = "PLAYERLEAVE" => c.player # 0

NothingAfterLeave ==
    \A l, c \in script :
        (l.type = "PLAYERLEAVE" /\ (c.player = l.player \/ DirectSend(c))) => c.frame <= l.frame

(* A command that goes through the packet router. *)
Relayed(c) == c.player # 0 /\ ~DirectSend(c)

Listed(p, q, c) == \E h \in queue : h.src = p /\ h.dst = q /\ h.cmd = c

(* Nobody that plays to the end waits for c. *)
AllServed(c) == \A q \in Player : Executes(q, MaxFrame + 1) => ~Needs(q, c)

(* The connections of a player follow the frames it has executed. *)
LinksOK(p) ==
    /\ router[p] = 0
    /\ conn[p][p] = "closed"
    /\ \A q \in Player : q \in inGame[p] <=> Executes(q, frame[p])
    /\ \A q \in inGame[p] \ {p} : ~Left(p) => conn[p][q] = "open"

(* A player has what it has executed, and issues nothing too late. *)
GameOK(p) ==
    /\ has[p] \subseteq Issued
    /\ \A c \in script : Synchronized(c) /\ c.frame < frame[p] => c \in has[p]
    /\ \A c \in script \ has[p] : c.player = p /\ ~Left(p) => c.frame >= frame[p]

(* The three ways a command goes: to the router, from it, and directly. *)
ToRouter(h) ==
    Relayed(h.cmd) /\ h.src = h.cmd.player /\ h.dst = 0 /\ h.relay = Player \ {h.cmd.player}
FromRouter(h) == Relayed(h.cmd) /\ h.src = 0 /\ h.dst # 0 /\ h.relay = {h.dst}
Directly(h) == ~Relayed(h.cmd) /\ h.src = h.cmd.player /\ h.relay = {h.dst}

CommandOK(h) ==
    /\ h.dst # h.cmd.player
    /\ h.dst \in h.relay
    /\ ToRouter(h) \/ FromRouter(h) \/ Directly(h)

(* Who acknowledges a command does not need it, and the second stage        *)
(* reaches its sender when nobody does.                                     *)
AckOK(a) ==
    /\ a.relay = {a.dst}
    /\ StageOne(a) => ~Needs(a.src, a.cmd)
    /\ StageTwo(a) /\ Relayed(a.cmd) /\ a.dst = a.cmd.player => AllServed(a.cmd)

PacketOK(h) ==
    /\ h.cmd \in Issued
    /\ IF h.kind = "COMMAND" THEN CommandOK(h) ELSE AckOK(h)

(* The router waits for all that play to the end and need the command. *)
RelayedOK(e) ==
    /\ e.at = 0
    /\ e.cmd \in Issued
    /\ Relayed(e.cmd)
    /\ ~Needs(0, e.cmd)
    /\ \A q \in Player : Executes(q, MaxFrame + 1) /\ Needs(q, e.cmd) => q \in e.relay

DirectOK(c) == \A q \in Player : Needs(q, c) => Listed(c.player, q, c)

RouterOK(c) ==
    /\ c \in has[0] \/ Listed(c.player, 0, c)
    /\ c \in has[0] => \A q \in Player : Needs(q, c) => Listed(0, q, c)

PendingOK(c) == (\E e \in pending : e.at = c.player /\ e.cmd = c) \/ AllServed(c)

ServedOK(c) ==
    /\ ~Relayed(c) => DirectOK(c)
    /\ Relayed(c) => RouterOK(c) /\ PendingOK(c)

PlayersOK == \A p \in Player : LinksOK(p) /\ GameOK(p)
PacketsOK == \A h \in queue \cup net : PacketOK(h)
ConfirmationsOK == \A e \in relayed : RelayedOK(e)
CommandsOK == \A c \in Issued : ServedOK(c)

ServedInv == RelayInv /\ PlayersOK /\ PacketsOK /\ ConfirmationsOK /\ CommandsOK

-----------------------------------------------------------------------------
LEMMA ScriptLeaves ==
    ASSUME script \in Scripts, RouterStays, NothingAfterLeave
    PROVE  /\ 0 \in Player
           /\ \A c \in script : c.type \in CommandTypes /\ c.player \in Player /\ c.frame \in Nat
           /\ \A f : Executes(0, f)
           /\ \A l, c \in script :
                 (l.type = "PLAYERLEAVE" /\ (c.player = l.player \/ DirectSend(c)))
                    => c.frame <= l.frame
           /\ \A l, d \in script :
                 (l.type = "PLAYERLEAVE" /\ d.type = "PLAYERLEAVE" /\ l.frame = d.frame) => l = d
<1>1. 0 \in Player
  BY RelayAssumption DEF Player
<1>2. \A c \in script : c.type \in CommandTypes /\ c.player \in Player /\ c.frame \in Nat
  BY RelayAssumption DEF Player
<1>3. \A f : Executes(0, f)
  BY DEF Executes, RouterStays
<1>4. \A l, c \in script :
         (l.type = "PLAYERLEAVE" /\ (c.player = l.player \/ DirectSend(c))) => c.frame <= l.frame
  BY DEF NothingAfterLeave
<1>5. \A l, d \in script :
         (l.type = "PLAYERLEAVE" /\ d.type = "PLAYERLEAVE" /\ l.frame = d.frame) => l = d
  BY RelayAssumption
<1> QED
  BY <1>1, <1>2, <1>3, <1>4, <1>5

(* A player that executes a frame executes those before it. *)
LEMMA ExecutesEarlier ==
    ASSUME script \in Scripts, NEW q, NEW f \in Nat, NEW g \in Nat, g <= f, Executes(q, f)
    PROVE  Executes(q, g)
BY RelayAssumption DEF Executes

LEMMA ExecutesNext ==
    ASSUME script \in Scripts, NEW q, NEW f \in Nat
    PROVE  Executes(q, f + 1) <=> Executes(q, f) /\ q \notin Leaving(f)
<1>1. \A d \in script : d.frame \in Nat
  BY RelayAssumption
<1>2. \A d \in script : d.frame < f + 1 <=> d.frame < f \/ d.frame = f
  BY <1>1
<1>3. q \in Leaving(f) <=> \E d \in script : d.type = "PLAYERLEAVE" /\ d.player = q /\ d.frame = f
  BY DEF Leaving
<1> QED
  BY <1>2, <1>3, Zenon DEF Executes

(* As a game goes on nobody gets to need a command it did not need. *)
Later ==
    /\ script' = script
    /\ \A q \in Player :
          /\ has[q] \subseteq has'[q]
          /\ inGame'[q] \subseteq inGame[q]
          /\ frame'[q] \in Nat
          /\ frame[q] <= frame'[q]

LEMMA NeedsShrink ==
    ASSUME TypeOK, Later
    PROVE  /\ \A q \in Player : \A c \in script : Needs(q, c)' => Needs(q, c)
           /\ \A c \in script : AllServed(c) => AllServed(c)'
           /\ Issued \subseteq Issued'
<1>1. \A c \in script : c.player \in Player /\ c.frame \in Nat
  BY RelayAssumption DEF TypeOK, Player
<1>2. \A q \in Player : frame[q] \in Nat
  BY RelayAssumption DEF TypeOK
<1>3. \A q \in Player : \A f : Executes(q, f)' <=> Executes(q, f)
  BY DEF Later, Executes
<1>4. ASSUME NEW q \in Player, NEW c \in script, Needs(q, c)' PROVE Needs(q, c)
  <2>1. c \notin has[q] /\ ~Left(q)
    BY <1>4 DEF Needs, Left, Later
  <2>2. ASSUME Synchronized(c) PROVE frame[q] <= c.frame /\ Executes(q, c.frame)
    <3>1. frame'[q] <= c.frame /\ Executes(q, c.frame)'
      BY <1>4, <2>2 DEF Needs, Synchronized
    <3>2. frame[q] <= c.frame
      BY <1>1, <1>2, <3>1 DEF Later
    <3> QED
      BY <1>3, <3>1, <3>2
  <2> QED
    BY <2>1, <2>2 DEF Needs
<1>5. \A c \in script : AllServed(c) => AllServed(c)'
  BY <1>3, <1>4 DEF AllServed
<1>6. Issued \subseteq Issued'
  BY <1>1 DEF Issued, Later
<1> QED
  BY <1>4, <1>5, <1>6

(* So what is on its way, and who has yet to confirm, stays as it should.   *)
LEMMA PacketsStay ==
    ASSUME TypeOK, Later
    PROVE  /\ \A h \in queue \cup net : PacketOK(h) => PacketOK(h)'
           /\ \A e \in relayed : RelayedOK(e) => RelayedOK(e)'
<1>1. /\ \A q \in Player : \A c \in script : Needs(q, c)' => Needs(q, c)
      /\ \A c \in script : AllServed(c) => AllServed(c)'
      /\ Issued \subseteq Issued'
  BY NeedsShrink
<1>2. Issued \subseteq script
  BY DEF Issued
<1>3. \A h \in queue \cup net : h.src \in Player /\ h.cmd \in script
  BY DEF TypeOK
<1>4. \A h : CommandOK(h)' <=> CommandOK(h)
  BY DEF CommandOK, ToRouter, FromRouter, Directly, Relayed, DirectSend
<1>5. ASSUME NEW h \in queue \cup net, AckOK(h) PROVE AckOK(h)'
  BY <1>1, <1>3, <1>5 DEF AckOK, StageOne, StageTwo, Relayed, DirectSend
<1>6. \A q \in Player : \A f : Executes(q, f)' <=> Executes(q, f)
  BY DEF Later, Executes
<1>7. ASSUME NEW e \in relayed, RelayedOK(e) PROVE RelayedOK(e)'
  <2>1. 0 \in Player
    BY RelayAssumption DEF Player
  <2>2. e.cmd \in script
    BY <1>2, <1>7 DEF RelayedOK
  <2> QED
    BY <1>1, <1>6, <1>7, <2>1, <2>2 DEF RelayedOK, Relayed, DirectSend
<1>8. ASSUME NEW h \in queue \cup net, PacketOK(h) PROVE PacketOK(h)'
  BY <1>1, <1>4, <1>5, <1>8 DEF PacketOK
<1> QED
  BY <1>7, <1>8

-----------------------------------------------------------------------------
(* A router that does not need a command has it. *)
LEMMA RouterHas ==
    ASSUME RelayInv, PlayersOK, RouterStays, NothingAfterLeave,
           NEW c \in script, Relayed(c), ~Needs(0, c)
    PROVE  c \in has[0]
<1>1. script \in Scripts
  BY DEF RelayInv, TypeOK
<1>2. 0 \in Player /\ Executes(0, c.frame) /\ Executes(0, frame[0]) /\ c.frame \in Nat
      /\ c.type \in CommandTypes
  BY <1>1, ScriptLeaves
<1>3. frame[0] \in Nat
  BY <1>2, RelayAssumption DEF RelayInv, TypeOK
<1>4. Synchronized(c)
  BY <1>2 DEF Relayed, DirectSend, CommandTypes, Synchronized
<1>5. ~Left(0)
  BY <1>2 DEF PlayersOK, LinksOK, Left
<1>6. c \in has[0] \/ c.frame < frame[0]
  BY <1>2, <1>3, <1>5 DEF Needs
<1> QED
  BY <1>2, <1>4, <1>6 DEF PlayersOK, GameOK

(* Who is in the game reaches whoever is to execute the frame of a command  *)
(* it has not yet executed, and whoever plays to the end.                   *)
LEMMA ReachesWhoNeedsIt ==
    ASSUME RelayInv, PlayersOK, RouterStays, NothingAfterLeave,
           NEW p \in Player, ~Left(p), NEW q \in Player, q # p,
           NEW c \in script, Needs(q, c),
           \/ frame[p] <= c.frame
           \/ Executes(q, MaxFrame + 1)
    PROVE  q \in Open(p)
<1>1. script \in Scripts /\ frame[p] \in 1 .. MaxFrame + 1
  BY DEF RelayInv, TypeOK
<1>2. /\ c.type \in CommandTypes /\ c.frame \in Nat
      /\ \A l \in script : l.type = "PLAYERLEAVE" /\ DirectSend(c) => c.frame <= l.frame
      /\ \A l \in script : l.frame \in Nat
  BY <1>1, ScriptLeaves
<1>3. frame[p] \in Nat /\ MaxFrame + 1 \in Nat /\ frame[p] <= MaxFrame + 1
  BY <1>1, RelayAssumption
<1>4. Executes(q, frame[p])
  <2>1. CASE Executes(q, MaxFrame + 1)
    BY <1>1, <1>3, <2>1, ExecutesEarlier
  <2>2. CASE frame[p] <= c.frame /\ Synchronized(c)
    BY <1>1, <1>2, <1>3, <2>2, ExecutesEarlier DEF Needs
  <2>3. CASE frame[p] <= c.frame /\ DirectSend(c)
    BY <1>2, <1>3, <2>3 DEF Executes
  <2> QED
    BY <1>2, <2>1, <2>2, <2>3 DEF CommandTypes, Synchronized, DirectSend
<1>5. q \in inGame[p] \ {p}
  BY <1>4 DEF PlayersOK, LinksOK
<1> QED
  BY <1>5 DEF PlayersOK, LinksOK, Open

(* A command that is ignored is not needed, unless there is no connection   *)
(* to acknowledge it on.                                                    *)
LEMMA IgnoredNotNeeded ==
    ASSUME RelayInv, PlayersOK, RouterStays, NothingAfterLeave,
           NEW p \in Player, NEW c \in script, p # c.player, Ignored(p, c)
    PROVE  ~Needs(p, c) \/ (DirectSend(c) /\ c.player \notin Open(p))
<1> SUFFICES ASSUME Needs(p, c) PROVE DirectSend(c) /\ c.player \notin Open(p)
  OBVIOUS
<1>1. script \in Scripts
  BY DEF RelayInv, TypeOK
<1>2. /\ c.type \in CommandTypes /\ c.frame \in Nat /\ c.player \in Player
      /\ ~Left(p) /\ frame[p] \in Nat
  BY <1>1, ScriptLeaves, RelayAssumption DEF Needs, RelayInv, TypeOK
<1>3. CASE conn[p][c.player] = "closed"
  <2>1. ~Executes(c.player, frame[p])
    BY <1>2, <1>3 DEF PlayersOK, LinksOK
  <2>2. PICK l \in script : l.type = "PLAYERLEAVE" /\ l.player = c.player /\ l.frame < frame[p]
    BY <2>1 DEF Executes
  <2>3. c.frame <= l.frame /\ l.frame \in Nat
    BY <1>1, <2>2, ScriptLeaves
  <2>4. ~Synchronized(c)
    BY <1>2, <2>2, <2>3 DEF Needs
  <2> QED
    BY <1>2, <1>3, <2>4 DEF Open, Synchronized, CommandTypes, DirectSend
<1>4. CASE Synchronized(c) /\ c.frame < frame[p]
  BY <1>2, <1>4 DEF Needs
<1> QED
  BY <1>3, <1>4 DEF Ignored

(* A command that is not ignored is for a frame the player has not executed. *)
LEMMA NotIgnored ==
    ASSUME RelayInv, NEW p \in Player, NEW c \in script, Relayed(c), ~Ignored(p, c)
    PROVE  frame[p] <= c.frame
<1>1. c.frame \in Nat /\ frame[p] \in Nat /\ c.type \in CommandTypes
  BY RelayAssumption DEF RelayInv, TypeOK
<1>2. Synchronized(c)
  BY <1>1 DEF Relayed, DirectSend, CommandTypes, Synchronized
<1> QED
  BY <1>1, <1>2 DEF Ignored

-----------------------------------------------------------------------------
LEMMA ServedInit == RouterStays /\ NothingAfterLeave /\ Init => ServedInv
<1> SUFFICES ASSUME RouterStays, NothingAfterLeave, Init PROVE ServedInv
  OBVIOUS
<1>1. RelayInv /\ script \in Scripts
  BY RelayInit DEF Init
<1>2. /\ \A c \in script : c.player \in Player /\ c.frame \in 1 .. MaxFrame
  BY <1>1, ScriptFacts
<1>3. \A q \in Player : Executes(q, 1)
  BY <1>2 DEF Executes
<1>4. Issued = {}
  BY <1>2 DEF Init, Issued
<1>5. ASSUME NEW p \in Player PROVE LinksOK(p) /\ GameOK(p)
  <2>1. frame[p] = 1 /\ has[p] = {} /\ inGame[p] = Player /\ router[p] = 0
    BY DEF Init
  <2>2. \A q \in Player : conn[p][q] = IF p = q THEN "closed" ELSE "open"
    BY DEF Init
  <2>3. LinksOK(p)
    BY <1>3, <2>1, <2>2 DEF LinksOK
  <2>4. \A c \in script : c.frame \in Nat /\ ~(c.frame < 1) /\ c.frame >= 1
    BY <1>2
  <2> QED
    BY <2>1, <2>3, <2>4 DEF GameOK
<1> QED
  BY <1>1, <1>4, <1>5 DEF Init, ServedInv, PlayersOK, PacketsOK, ConfirmationsOK, CommandsOK

-----------------------------------------------------------------------------
(* The players of a step that executes nothing and changes no connection. *)
LEMMA PlayersStay ==
    ASSUME ServedInv, UNCHANGED <<script, frame, links>>,
           \A q \in Player : has[q] \subseteq has'[q] /\ has'[q] \subseteq Issued'
    PROVE  Later /\ PlayersOK'
<1>1. \A q \in Player : frame[q] \in Nat
  BY RelayAssumption DEF ServedInv, RelayInv, TypeOK
<1>2. Later
  BY <1>1 DEF Later, links
<1>3. ASSUME NEW p \in Player PROVE LinksOK(p)'
  BY DEF ServedInv, PlayersOK, LinksOK, links, Left, Executes
<1>4. ASSUME NEW p \in Player PROVE GameOK(p)'
  BY DEF ServedInv, PlayersOK, GameOK, links, Left, Synchronized
<1> QED
  BY <1>2, <1>3, <1>4 DEF PlayersOK

(* A command keeps being served when whoever needs it keeps its place in a  *)
(* list, and its sender keeps it pending as long as that matters.           *)
LEMMA ServedStays ==
    ASSUME ServedInv, RouterStays, NothingAfterLeave, Later, NEW c \in Issued,
           Relayed(c) /\ c \in has'[0] => c \in has[0],
           \A p, q \in Player : Listed(p, q, c) /\ Needs(q, c) => Listed(p, q, c)',
           Relayed(c) /\ (\E e \in pending : e.at = c.player /\ e.cmd = c)
               => (\E e \in pending' : e.at = c.player /\ e.cmd = c) \/ AllServed(c)
    PROVE  ServedOK(c)'
<1>1. script \in Scripts /\ TypeOK /\ c \in script
  BY DEF ServedInv, RelayInv, TypeOK, Issued
<1>2. c.player \in Player /\ 0 \in Player
  BY <1>1, ScriptLeaves
<1>3. \A q \in Player : Needs(q, c)' => Needs(q, c)
  BY <1>1, NeedsShrink
<1>4. AllServed(c) => AllServed(c)'
  BY <1>1, NeedsShrink
<1>5. ServedOK(c)
  BY DEF ServedInv, CommandsOK
<1>6. Relayed(c)' <=> Relayed(c)
  BY DEF Relayed, DirectSend
<1>7. CASE ~Relayed(c)
  <2>1. DirectOK(c)'
    BY <1>2, <1>3, <1>5, <1>7 DEF ServedOK, DirectOK
  <2> QED
    BY <1>6, <1>7, <2>1 DEF ServedOK
<1>8. CASE Relayed(c)
  <2>1. RouterOK(c) /\ PendingOK(c)
    BY <1>5, <1>8 DEF ServedOK
  <2>2. c \in has[0] => c \in has'[0]
    BY <1>2 DEF Later
  <2>3. c \notin has[0] => Needs(0, c)
    BY <1>1, <1>8, RouterHas DEF ServedInv
  <2>4. RouterOK(c)'
    BY <1>2, <1>3, <1>8, <2>1, <2>2, <2>3 DEF RouterOK
  <2>5. PendingOK(c)'
    BY <1>4, <1>8, <2>1 DEF PendingOK
  <2> QED
    BY <1>6, <1>8, <2>4, <2>5 DEF ServedOK
<1> QED
  BY <1>7, <1>8

(* A step that only takes packets off the way, or changes nothing. *)
LEMMA ServedQuiet ==
    ASSUME ServedInv, RouterStays, NothingAfterLeave, RelayInv', Later, PlayersOK',
           UNCHANGED <<has, queue, pending, relayed>>, net' \subseteq net \cup queue
    PROVE  ServedInv'
<1>1. TypeOK
  BY DEF ServedInv, RelayInv
<1>2. \A h \in queue \cup net : PacketOK(h)'
  BY <1>1, PacketsStay DEF ServedInv, PacketsOK
<1>3. PacketsOK'
  BY <1>2 DEF PacketsOK
<1>4. ConfirmationsOK'
  BY <1>1, PacketsStay DEF ServedInv, ConfirmationsOK
<1>5. Issued' = Issued
  BY DEF Later, Issued
<1>6. ASSUME NEW c \in Issued PROVE ServedOK(c)'
  <2>1. \A p, q \in Player : Listed(p, q, c) => Listed(p, q, c)'
    BY DEF Listed
  <2> QED
    BY <2>1, ServedStays
<1>7. CommandsOK'
  BY <1>5, <1>6 DEF CommandsOK
<1> QED
  BY <1>3, <1>4, <1>7 DEF ServedInv

LEMMA ServedLose ==
    ASSUME ServedInv, RouterStays, NothingAfterLeave, RelayInv', NEW h \in net, Lose(h)
    PROVE  ServedInv'
<1>1. Issued' = Issued
  BY DEF Lose, Issued
<1>2. \A q \in Player : has[q] \subseteq has'[q] /\ has'[q] \subseteq Issued'
  BY <1>1 DEF Lose, ServedInv, PlayersOK, GameOK
<1>3. Later /\ PlayersOK'
  BY <1>2, PlayersStay DEF Lose
<1> QED
  BY <1>3, ServedQuiet DEF Lose

(* Only connections that are no longer open are closed. *)
LEMMA ServedClose ==
    ASSUME ServedInv, RouterStays, NothingAfterLeave, RelayInv', NEW p \in Player, NEW q \in Player,
           CloseConnection(p, q) \/ EndOfGame(p)
    PROVE  ServedInv'
<1>1. UNCHANGED <<script, frame, has, router, inGame, queue, pending, relayed, net>>
  BY DEF CloseConnection, EndOfGame, traffic
<1>2. \A s \in Player : frame[s] \in Nat
  BY RelayAssumption DEF ServedInv, RelayInv, TypeOK
<1>3. Later
  BY <1>1, <1>2 DEF Later
<1>4. \A s, t \in Player : /\ conn[s][t] = "open" => conn'[s][t] = "open"
                           /\ conn[s][t] = "closed" => conn'[s][t] = "closed"
  BY DEF CloseConnection, EndOfGame, ServedInv, RelayInv, TypeOK
<1>5. ASSUME NEW s \in Player PROVE LinksOK(s)' /\ GameOK(s)'
  <2>1. LinksOK(s) /\ GameOK(s) /\ inGame[s] \subseteq Player
    BY DEF ServedInv, PlayersOK, RelayInv, TypeOK
  <2>2. LinksOK(s)'
    BY <1>1, <1>4, <2>1 DEF LinksOK, Left, Executes
  <2>3. GameOK(s)'
    BY <1>1, <2>1 DEF GameOK, Left, Issued, Synchronized
  <2> QED
    BY <2>2, <2>3
<1>6. PlayersOK'
  BY <1>5 DEF PlayersOK
<1> QED
  BY <1>1, <1>3, <1>6, ServedQuiet

(* The time out of a quitting connection drops what has arrived. *)
LEMMA ServedQuitTimeout ==
    ASSUME ServedInv, RouterStays, NothingAfterLeave, RelayInv', NEW p \in Player, NEW q \in Player,
           QuitTimeout(p, q)
    PROVE  ServedInv'
<1>1. UNCHANGED <<script, frame, has, links, pending, relayed, net>> /\ queue' = queue \ List(p, q)
  BY DEF QuitTimeout, traffic
<1>2. Issued' = Issued
  BY <1>1 DEF Issued
<1>3. \A s \in Player : has[s] \subseteq has'[s] /\ has'[s] \subseteq Issued'
  BY <1>1, <1>2 DEF ServedInv, PlayersOK, GameOK
<1>4. Later /\ PlayersOK'
  BY <1>1, <1>3, PlayersStay
<1>5. TypeOK
  BY DEF ServedInv, RelayInv
<1>6. PacketsOK' /\ ConfirmationsOK'
  BY <1>1, <1>4, <1>5, PacketsStay DEF ServedInv, PacketsOK, ConfirmationsOK
<1>7. ASSUME NEW c \in Issued PROVE ServedOK(c)'
  <2>1. ASSUME NEW s \in Player, NEW t \in Player, Listed(s, t, c), Needs(t, c)
        PROVE  Listed(s, t, c)'
    <3>1. PICK h \in queue : h.src = s /\ h.dst = t /\ h.cmd = c
      BY <2>1 DEF Listed
    <3>2. ~Arrived(h)
      BY <2>1, <3>1 DEF Arrived, Needs
    <3>3. h \in queue'
      BY <1>1, <3>2 DEF QuitTimeout
    <3> QED
      BY <3>1, <3>3 DEF Listed
  <2> QED
    BY <1>1, <1>4, <2>1, ServedStays
<1>8. CommandsOK'
  BY <1>2, <1>7 DEF CommandsOK
<1> QED
  BY <1>4, <1>6, <1>8 DEF ServedInv

-----------------------------------------------------------------------------
(* What is put into a list is in it, whether or not it was before. *)
LEMMA NowListed ==
    ASSUME NEW items, NEW p, NEW q, NEW c, queue' = queue \cup NewIn(queue, items),
           \E h \in items : h.src = p /\ h.dst = q /\ h.cmd = c
    PROVE  Listed(p, q, c)'
<1>1. PICK h \in items : h.src = p /\ h.dst = q /\ h.cmd = c
  OBVIOUS
<1>2. CASE h \in NewIn(queue, items)
  BY <1>1, <1>2 DEF Listed
<1>3. CASE h \notin NewIn(queue, items)
  <2>1. PICK g \in queue : g.src = h.src /\ g.dst = h.dst /\ g.cmd = h.cmd
    BY <1>3 DEF NewIn
  <2> QED
    BY <1>1, <2>1 DEF Listed
<1> QED
  BY <1>2, <1>3

LEMMA NowPending ==
    ASSUME NEW list, NEW p, NEW relay, NEW c
    PROVE  /\ list \subseteq AddTo(list, p, relay, c)
           /\ \E e \in AddTo(list, p, relay, c) : e.at = p /\ e.cmd = c
<1>1. CASE \E e \in list : e.at = p /\ e.cmd = c
  BY <1>1 DEF AddTo
<1>2. CASE ~\E e \in list : e.at = p /\ e.cmd = c
  <2>1. AddTo(list, p, relay, c) = list \cup {[at |-> p, cmd |-> c, relay |-> relay]}
    BY <1>2, Zenon DEF AddTo
  <2>2. /\ [at |-> p, cmd |-> c, relay |-> relay].at = p
        /\ [at |-> p, cmd |-> c, relay |-> relay].cmd = c
    OBVIOUS
  <2> QED
    BY <2>1, <2>2, Zenon
<1> QED
  BY <1>1, <1>2

(* What a player issues is new to everybody, and goes into the list of each *)
(* player that needs it, or into that of the router and pending.            *)
LEMMA ServedIssue ==
    ASSUME ServedInv, RouterStays, NothingAfterLeave, RelayInv',
           NEW p \in Player, NEW c \in script, Issue(p, c)
    PROVE  ServedInv'
<1> DEFINE items == SendLocal(p, router[p], Player, c)
<1>1. RelayInv /\ TypeOK /\ script \in Scripts /\ PlayersOK
  BY DEF ServedInv, RelayInv, TypeOK
<1>2. /\ c \notin has[p] /\ c.player = p /\ ~Left(p)
      /\ has' = [has EXCEPT ![p] = @ \cup {c}]
      /\ queue' = queue \cup NewIn(queue, items)
      /\ pending' = IF ViaRouter(p, router[p], c)
                      THEN AddTo(pending, p, Player \ {p}, c) ELSE pending
      /\ UNCHANGED <<script, frame, links, relayed, net>>
  BY DEF Issue, Due, traffic
<1>3. c \notin Issued
  BY <1>2 DEF Issued
<1>4. \A q \in Player : c \notin has[q]
  BY <1>1, <1>3 DEF PlayersOK, GameOK
<1>5. \A q \in Player : has'[q] = IF q = p THEN has[q] \cup {c} ELSE has[q]
  BY <1>1, <1>2 DEF TypeOK
<1>6. Issued' = Issued \cup {c}
  <2>1. \A d \in script : d.player \in Player
    BY <1>1, ScriptLeaves
  <2> QED
    BY <1>2, <1>5, <2>1 DEF Issued
<1>7. \A q \in Player : has[q] \subseteq has'[q] /\ has'[q] \subseteq Issued'
  BY <1>1, <1>5, <1>6 DEF PlayersOK, GameOK
<1>8. Later /\ PlayersOK'
  BY <1>2, <1>7, PlayersStay
<1>9. router[p] = 0 /\ conn[p][p] = "closed" /\ 0 \in Player
      /\ (p # 0 => conn[p][0] = "open")
  <2>1. Executes(0, frame[p]) /\ 0 \in Player
    BY <1>1, ScriptLeaves
  <2> QED
    BY <1>1, <1>2, <2>1 DEF PlayersOK, LinksOK
<1>10. ViaRouter(p, router[p], c) <=> Relayed(c)
  BY <1>2, <1>9 DEF ViaRouter, Relayed
<1>11. ConfirmationsOK'
  BY <1>1, <1>2, <1>8, PacketsStay DEF ServedInv, ConfirmationsOK
<1>12. \A h \in items : PacketOK(h)'
  <2>1. SUFFICES ASSUME NEW h \in items PROVE h.kind = "COMMAND" /\ h.cmd = c /\ CommandOK(h)
    BY <1>6 DEF PacketOK, CommandOK, ToRouter, FromRouter, Directly, Relayed, DirectSend
  <2>2. CASE Relayed(c)
    <3>1. h = Carry(p, 0, Player \ {p}, c)
      BY <1>9, <1>10, <2>2 DEF SendLocal
    <3> QED
      BY <1>2, <1>9, <2>2, <3>1 DEF Carry, CommandOK, ToRouter, Relayed
  <2>3. CASE ~Relayed(c)
    <3>1. PICK q \in Open(p) : h = Carry(p, q, {q}, c)
      BY <1>10, <2>3 DEF SendLocal, DirectTo
    <3>2. q # p
      BY <1>9 DEF Open
    <3> QED
      BY <1>2, <2>3, <3>1, <3>2 DEF Carry, CommandOK, Directly
  <2> QED
    BY <2>2, <2>3
<1> HIDE DEF items
<1>13. PacketsOK'
  <2>1. \A h \in queue \cup net : PacketOK(h)'
    BY <1>1, <1>8, PacketsStay DEF ServedInv, PacketsOK
  <2> QED
    BY <1>2, <1>12, <2>1 DEF PacketsOK, NewIn
<1>14. ASSUME NEW d \in Issued PROVE ServedOK(d)'
  <2>1. d # c
    BY <1>3
  <2>2. d \in has'[0] => d \in has[0]
    BY <1>5, <1>9, <2>1
  <2>3. \A s, t \in Player : Listed(s, t, d) => Listed(s, t, d)'
    BY <1>2 DEF Listed
  <2>4. pending \subseteq pending'
    BY <1>2, NowPending
  <2> QED
    BY <1>8, <2>2, <2>3, <2>4, ServedStays
<1>15. ServedOK(c)'
  <2>1. Relayed(c)' <=> Relayed(c)
    BY DEF Relayed, DirectSend
  <2>2. CASE Relayed(c)
    <3>1. Carry(p, 0, Player \ {p}, c) \in items /\ p # 0
      BY <1>2, <1>9, <1>10, <2>2 DEF items, SendLocal, Open, Relayed
    <3>2. Listed(p, 0, c)'
      BY <1>2, <3>1, NowListed DEF Carry
    <3>3. c \notin has'[0]
      BY <1>4, <1>5, <1>9, <3>1
    <3>4. \E e \in pending' : e.at = p /\ e.cmd = c
      BY <1>2, <1>10, <2>2, NowPending
    <3> QED
      BY <1>2, <2>1, <2>2, <3>2, <3>3, <3>4 DEF ServedOK, RouterOK, PendingOK
  <2>3. CASE ~Relayed(c)
    <3>1. ASSUME NEW q \in Player, Needs(q, c)' PROVE Listed(p, q, c)'
      <4>1. Needs(q, c) /\ q # p
        BY <1>1, <1>5, <1>8, <3>1, NeedsShrink DEF Needs
      <4>2. frame[p] <= c.frame
        <5>1. c.frame >= frame[p]
          BY <1>1, <1>2 DEF PlayersOK, GameOK
        <5>2. c.frame \in Nat /\ frame[p] \in Nat
          BY <1>1, ScriptLeaves, RelayAssumption DEF TypeOK
        <5> QED
          BY <5>1, <5>2
      <4>3. q \in Open(p)
        BY <1>1, <1>2, <4>1, <4>2, ReachesWhoNeedsIt
      <4>4. Carry(p, q, {q}, c) \in items
        BY <1>10, <2>3, <4>3 DEF items, SendLocal, DirectTo, Open
      <4> QED
        BY <1>2, <4>4, NowListed DEF Carry
    <3> QED
      BY <1>2, <2>1, <2>3, <3>1 DEF ServedOK, DirectOK
  <2> QED
    BY <2>2, <2>3
<1>16. CommandsOK'
  BY <1>6, <1>14, <1>15 DEF CommandsOK
<1> QED
  BY <1>8, <1>11, <1>13, <1>16 DEF ServedInv

-----------------------------------------------------------------------------
(* The player that leaves on a frame is one that the router can do without, *)
(* and it relays for nobody.                                                *)
LEMMA FrameLeaves ==
    ASSUME ServedInv, RouterStays, NothingAfterLeave, NEW p \in Player, ExecuteFrame(p)
    PROVE  /\ UNCHANGED <<script, has, router, queue, pending, relayed>>
           /\ net' \subseteq net \cup queue
           /\ inGame' = [inGame EXCEPT ![p] = @ \ Leaving(frame[p])]
           /\ \A s, t \in Player :
                 /\ conn[s][t] = "closed" => conn'[s][t] = "closed"
                 /\ conn[s][t] = "open" /\ (s = p => {s, t} \cap Leaving(frame[p]) = {})
                       => conn'[s][t] = "open"
<1>1. TypeOK /\ script \in Scripts /\ PlayersOK /\ router[p] = 0
  BY DEF ServedInv, RelayInv, TypeOK, PlayersOK, LinksOK
<1>2. UNCHANGED <<script, has, pending, relayed>>
  BY DEF ExecuteFrame
<1>3. CASE Leaving(frame[p]) = {}
  <2>1. UNCHANGED <<conn, router, inGame, queue, net>>
    BY <1>3 DEF ExecuteFrame, traffic
  <2>2. inGame' = [inGame EXCEPT ![p] = @ \ Leaving(frame[p])]
    BY <1>1, <1>3, <2>1 DEF TypeOK
  <2> QED
    BY <1>2, <2>1, <2>2
<1>4. CASE Leaving(frame[p]) # {}
  <2>1. PICK r \in Leaving(frame[p]) : PlayerLeave(p, r)
    BY <1>4 DEF ExecuteFrame
  <2>2. r \in Player /\ r # 0
    BY <1>1, <2>1, ScriptLeaves DEF Leaving, RouterStays
  <2>3. Leaving(frame[p]) = {r}
    BY <1>1, <2>1, ScriptLeaves DEF Leaving
  <2>4. inGame' = [inGame EXCEPT ![p] = @ \ Leaving(frame[p])]
    BY <2>1, <2>3 DEF PlayerLeave
  <2>5. router' = router
    BY <1>1, <2>1, <2>2 DEF PlayerLeave, TypeOK
  <2>6. CASE p = r
    <3> DEFINE cleared == {h \in queue : h.src = p /\ h.cmd.player # p}
    <3>1. /\ queue' = queue \ cleared
          /\ Unqueue(cleared, net)
          /\ conn' = [conn EXCEPT ![p] =
                        [q \in Player |-> IF @[q] = "open" THEN "quitting" ELSE @[q]]]
      BY <2>1, <2>6 DEF PlayerLeave, OwnLeave
    <3>2. cleared = {}
      BY <1>1, <2>2, <2>6 DEF ServedInv, PacketsOK, PacketOK, CommandOK, ToRouter, FromRouter,
                              Directly, TypeOK
    <3> HIDE DEF cleared
    <3>3. net' \subseteq net \cup cleared
      BY <1>1, <3>1, UnqueueTypes DEF TypeOK
    <3>4. \A s, t \in Player :
             /\ conn[s][t] = "closed" => conn'[s][t] = "closed"
             /\ s # p => conn'[s][t] = conn[s][t]
      BY <1>1, <3>1 DEF TypeOK
    <3>5. queue' = queue /\ net' \subseteq net \cup queue
      BY <3>1, <3>2, <3>3
    <3>6. \A s, t \in Player : s = p => {s, t} \cap Leaving(frame[p]) # {}
      BY <2>3, <2>6
    <3>7. \A s, t \in Player :
             /\ conn[s][t] = "closed" => conn'[s][t] = "closed"
             /\ conn[s][t] = "open" /\ (s = p => {s, t} \cap Leaving(frame[p]) = {})
                   => conn'[s][t] = "open"
      BY <3>4, <3>6
    <3> QED
      BY <1>2, <2>4, <2>5, <3>5, <3>7
  <2>7. CASE p # r
    <3>1. conn' = [conn EXCEPT ![p][r] = "quitting"] /\ UNCHANGED <<queue, net>>
      BY <1>1, <2>1, <2>2, <2>7 DEF PlayerLeave, OtherLeave, traffic
    <3>2. \A s, t \in Player :
             conn'[s][t] = IF s = p /\ t = r THEN "quitting" ELSE conn[s][t]
      BY <1>1, <2>2, <3>1 DEF TypeOK
    <3>3. \A q \in Player : q \in inGame[p] <=> Executes(q, frame[p])
      BY <1>1 DEF PlayersOK, LinksOK
    <3>4. conn[p][r] # "closed"
      <4>1. Executes(r, frame[p])
        <5>1. PICK d \in script : d.type = "PLAYERLEAVE" /\ d.frame = frame[p] /\ d.player = r
          BY <2>1 DEF Leaving
        <5>2. \A l \in script : l.type = "PLAYERLEAVE" /\ l.player = r => l = d
          BY <1>1, <5>1, RelayAssumption
        <5>3. d.frame \in Nat
          BY <1>1, ScriptLeaves
        <5> QED
          BY <5>1, <5>2, <5>3 DEF Executes
      <4> QED
        BY <1>1, <2>2, <2>7, <3>3, <4>1 DEF PlayersOK, LinksOK, ExecuteFrame
    <3>5. \A s, t \in Player :
             /\ conn[s][t] = "closed" => conn'[s][t] = "closed"
             /\ conn[s][t] = "open" /\ (s = p => {s, t} \cap Leaving(frame[p]) = {})
                   => conn'[s][t] = "open"
      BY <2>3, <3>2, <3>4
    <3>6. queue' = queue /\ net' \subseteq net \cup queue
      BY <3>1
    <3> QED
      BY <1>2, <2>4, <2>5, <3>5, <3>6
  <2> QED
    BY <2>6, <2>7
<1> QED
  BY <1>3, <1>4

LEMMA ServedExecuteFrame ==
    ASSUME ServedInv, RouterStays, NothingAfterLeave, RelayInv', NEW p \in Player,
           Settled, ExecuteFrame(p)
    PROVE  ServedInv'
<1>1. TypeOK /\ script \in Scripts /\ PlayersOK /\ ~Left(p) /\ FrameReady(p) /\ Due(p) = {}
  BY DEF ServedInv, RelayInv, TypeOK, ExecuteFrame, Settled
<1>2. \A q \in Player : frame[q] \in Nat /\ frame'[q] = IF q = p THEN frame[q] + 1 ELSE frame[q]
  BY <1>1, RelayAssumption DEF ExecuteFrame, TypeOK
<1>3. /\ UNCHANGED <<script, has, router, queue, pending, relayed>>
      /\ net' \subseteq net \cup queue
      /\ inGame' = [inGame EXCEPT ![p] = @ \ Leaving(frame[p])]
      /\ \A s, t \in Player :
            /\ conn[s][t] = "closed" => conn'[s][t] = "closed"
            /\ conn[s][t] = "open" /\ (s = p => {s, t} \cap Leaving(frame[p]) = {})
                  => conn'[s][t] = "open"
  BY FrameLeaves
<1>4. \A q \in Player : inGame'[q] = IF q = p THEN inGame[q] \ Leaving(frame[q]) ELSE inGame[q]
  BY <1>1, <1>3 DEF TypeOK
<1>5. Later
  BY <1>2, <1>3, <1>4 DEF Later
<1>6. ASSUME NEW q \in Player, q # p PROVE LinksOK(q)' /\ GameOK(q)'
  <2>1. LinksOK(q) /\ GameOK(q) /\ frame'[q] = frame[q] /\ inGame'[q] = inGame[q]
        /\ inGame[q] \subseteq Player
    BY <1>1, <1>2, <1>4, <1>6 DEF PlayersOK, TypeOK
  <2>2. LinksOK(q)'
    BY <1>3, <1>6, <2>1 DEF LinksOK, Left, Executes
  <2>3. GameOK(q)'
    BY <1>3, <2>1 DEF GameOK, Left, Issued, Synchronized
  <2> QED
    BY <2>2, <2>3
<1>7. LinksOK(p)'
  <2>1. LinksOK(p) /\ inGame[p] \subseteq Player
    BY <1>1 DEF PlayersOK, TypeOK
  <2>2. \A q \in Player :
           Executes(q, frame[p] + 1) <=> Executes(q, frame[p]) /\ q \notin Leaving(frame[p])
    BY <1>1, <1>2, ExecutesNext
  <2>3. \A q \in Player : Executes(q, frame[p])' <=> Executes(q, frame[p] + 1)
    BY <1>2, <1>3 DEF Executes
  <2>4. \A q \in Player : (q \in inGame[p] <=> Executes(q, frame[p]))'
    BY <1>4, <2>1, <2>2, <2>3 DEF LinksOK
  <2>5. \A q \in inGame'[p] \ {p} : p \in inGame'[p] => conn'[p][q] = "open"
    BY <1>1, <1>3, <1>4, <2>1 DEF LinksOK
  <2> QED
    BY <1>3, <2>1, <2>4, <2>5 DEF LinksOK, Left
<1>8. GameOK(p)'
  <2>1. GameOK(p)
    BY <1>1 DEF PlayersOK
  <2>2. \A c \in script : c.frame \in Nat
    BY <1>1, ScriptLeaves
  <2>3. ASSUME NEW c \in script, Synchronized(c), c.frame < frame[p] + 1 PROVE c \in has[p]
    <3>1. c.frame < frame[p] \/ c.frame = frame[p]
      BY <1>2, <2>2, <2>3
    <3> QED
      BY <1>1, <2>1, <2>3, <3>1 DEF GameOK, FrameReady
  <2>4. ASSUME NEW c \in script \ has[p], c.player = p PROVE c.frame >= frame[p] + 1
    <3>1. ~(c.frame <= frame[p] + 1)
      BY <1>1, <2>4 DEF Due
    <3> QED
      BY <1>2, <2>2, <3>1
  <2>5. has'[p] \subseteq Issued'
    BY <1>3, <2>1 DEF GameOK, Issued
  <2> QED
    BY <1>2, <1>3, <2>3, <2>4, <2>5 DEF GameOK, Synchronized
<1>9. PlayersOK'
  BY <1>6, <1>7, <1>8 DEF PlayersOK
<1> QED
  BY <1>3, <1>5, <1>9, ServedQuiet

-----------------------------------------------------------------------------
(* A command that arrives at the router and is relayed: p is the router. *)
LEMMA OnlyTheRouterRelays ==
    ASSUME ServedInv, NEW h \in queue \cup net, CommandOK(h), h.relay \cap Open(h.dst) # {}
    PROVE  ToRouter(h)
<1>1. h.dst \in Player
  BY DEF ServedInv, RelayInv, TypeOK
<1>2. h.dst \notin Open(h.dst)
  BY <1>1 DEF ServedInv, PlayersOK, LinksOK, Open
<1> QED
  BY <1>2 DEF CommandOK, FromRouter, Directly

(* The acknowledgement of a command: whoever sends it does not need the     *)
(* command any more, and the router confirms both stages at once only when  *)
(* it has nobody to relay to.                                               *)
LEMMA AckIsOK ==
    ASSUME ServedInv, RouterStays, NothingAfterLeave, Later,
           NEW h \in queue \cup net, h.cmd \in Issued, CommandOK(h), ReceiveCommand(h.dst, h),
           NEW a \in AckCommand(h.dst, h)
    PROVE  PacketOK(a)'
<1> DEFINE p == h.dst
           c == h.cmd
<1>1. TypeOK /\ RelayInv /\ PlayersOK /\ script \in Scripts
      /\ p \in Player /\ c \in script /\ h.relay \subseteq Player
  BY DEF ServedInv, RelayInv, TypeOK
<1>2. a = Ack(AckKind(p, h), p, AckTo(p, c), {AckTo(p, c)}, c) /\ AckTo(p, c) \in Open(p)
  BY DEF AckCommand
<1>3. /\ a.kind = AckKind(p, h) /\ a.src = p /\ a.dst = AckTo(p, c)
      /\ a.relay = {a.dst} /\ a.cmd = c
  BY <1>2 DEF Ack
<1>4. has'[p] = IF Ignored(p, c) THEN has[p] ELSE has[p] \cup {c}
  BY <1>1 DEF ReceiveCommand, CommandOK, TypeOK
<1>5. ~Needs(p, c)'
  <2>1. CASE Ignored(p, c)
    <3>1. p # c.player
      BY DEF CommandOK
    <3>2. ~Needs(p, c)
      BY <1>1, <1>2, <2>1, <3>1, IgnoredNotNeeded DEF AckTo
    <3> QED
      BY <1>1, <3>2, NeedsShrink
  <2>2. CASE ~Ignored(p, c)
    BY <1>4, <2>2 DEF Needs
  <2> QED
    BY <2>1, <2>2
<1>6. c \in Issued'
  BY <1>1, NeedsShrink
<1>7. ASSUME AckKind(p, h) = "ACKBOTH", Relayed(c), AckTo(p, c) = c.player PROVE AllServed(c)'
  <2>1. p = 0 /\ 0 \in Player /\ h.relay \cap Open(p) = {}
    BY <1>1, <1>7, ScriptLeaves DEF AckTo, AckKind, Relayed, PlayersOK, LinksOK
  <2>2. h.relay = Player \ {c.player}
    BY <1>7, <2>1 DEF CommandOK, ToRouter, FromRouter, Directly
  <2>3. ~Left(0) /\ \A f : Executes(0, f)
    BY <1>1, <2>1, ScriptLeaves DEF PlayersOK, LinksOK, Left
  <2>4. ASSUME NEW q \in Player, Executes(q, MaxFrame + 1), Needs(q, c)' PROVE FALSE
    <3>1. Needs(q, c) /\ q # 0
      BY <1>1, <1>5, <2>1, <2>4, NeedsShrink
    <3>2. q # c.player
      BY <3>1 DEF Issued, Needs
    <3>3. q \in Open(0)
      BY <1>1, <2>1, <2>3, <2>4, <3>1, ReachesWhoNeedsIt
    <3> QED
      BY <2>1, <2>2, <2>4, <3>2, <3>3
  <2>5. \A q \in Player : Executes(q, MaxFrame + 1)' <=> Executes(q, MaxFrame + 1)
    BY DEF Later, Executes
  <2> QED
    BY <2>4, <2>5 DEF AllServed
<1> HIDE DEF p, c
<1>8. a.kind # "COMMAND"
  BY <1>3 DEF AckKind
<1>9. StageTwo(a) /\ Relayed(a.cmd) /\ a.dst = a.cmd.player => AllServed(a.cmd)'
  BY <1>3, <1>7 DEF StageTwo, AckKind
<1> QED
  BY <1>3, <1>5, <1>6, <1>8, <1>9 DEF PacketOK, AckOK, StageOne, StageTwo, Relayed, DirectSend

LEMMA ServedReceiveCommand ==
    ASSUME ServedInv, RouterStays, NothingAfterLeave, RelayInv',
           NEW h \in queue \cup net, ReceiveCommand(h.dst, h)
    PROVE  ServedInv'
<1> DEFINE p == h.dst
           c == h.cmd
           to == IF Ignored(p, c) THEN {} ELSE h.relay \cap Open(p)
<1>1. TypeOK /\ RelayInv /\ PlayersOK /\ script \in Scripts
      /\ p \in Player /\ c \in script /\ h.relay \subseteq Player /\ 0 \in Player
  BY ScriptLeaves DEF ServedInv, RelayInv, TypeOK
<1>2. h.kind = "COMMAND" /\ CommandOK(h) /\ c \in Issued
  BY DEF ReceiveCommand, ServedInv, PacketsOK, PacketOK
<1>3. /\ has' = [has EXCEPT ![p] = IF Ignored(p, c) \/ p \notin h.relay THEN @ ELSE @ \cup {c}]
      /\ relayed' = IF to = {} THEN relayed ELSE AddTo(relayed, p, to, c)
      /\ queue' = queue \cup NewIn(queue, DirectTo(p, to, c))
      /\ net' = (net \ {h}) \cup AckCommand(p, h)
      /\ UNCHANGED <<script, frame, links, pending>>
  BY DEF ReceiveCommand
<1>4. \A q \in Player : has'[q] = IF q = p /\ ~Ignored(p, c) THEN has[q] \cup {c} ELSE has[q]
  BY <1>1, <1>2, <1>3 DEF CommandOK, TypeOK
<1>5. Issued' = Issued
  <2>1. \A d \in script : d.player \in Player
    BY <1>1, ScriptLeaves
  <2>2. c \in has[c.player]
    BY <1>2 DEF Issued
  <2> QED
    BY <1>2, <1>3, <1>4, <2>1, <2>2 DEF Issued, CommandOK
<1>6. \A q \in Player : has[q] \subseteq has'[q] /\ has'[q] \subseteq Issued'
  BY <1>1, <1>2, <1>4, <1>5 DEF PlayersOK, GameOK
<1>7. Later /\ PlayersOK'
  BY <1>3, <1>6, PlayersStay
<1>8. to # {} => /\ ToRouter(h) /\ p = 0 /\ ~Ignored(p, c)
                 /\ to = (Player \ {c.player}) \cap Open(0)
  BY <1>2, OnlyTheRouterRelays DEF ToRouter
(* What the router has is listed for all that need it, and they confirm. *)
<1>9. ASSUME ~Ignored(p, c), p = 0, Relayed(c), NEW q \in Player, Needs(q, c)' PROVE q \in to
  <2>1. Needs(q, c) /\ q # 0
    BY <1>1, <1>4, <1>7, <1>9, NeedsShrink DEF Needs
  <2>2. q # c.player
    BY <1>2, <2>1 DEF Issued, Needs
  <2>3. ~Left(0)
    BY <1>1, ScriptLeaves DEF PlayersOK, LinksOK, Left
  <2>4. frame[0] <= c.frame
    BY <1>1, <1>9, NotIgnored
  <2>5. q \in Open(0)
    BY <1>1, <2>1, <2>3, <2>4, ReachesWhoNeedsIt
  <2>6. h.relay = Player \ {c.player}
    BY <1>2, <1>9 DEF CommandOK, ToRouter, FromRouter, Directly
  <2> QED
    BY <1>9, <2>2, <2>5, <2>6
<1>10. \A g \in DirectTo(p, to, c) : PacketOK(g)'
  <2>1. SUFFICES ASSUME NEW g \in DirectTo(p, to, c)
                 PROVE  g.kind = "COMMAND" /\ g.cmd = c /\ CommandOK(g)
    BY <1>2, <1>5 DEF PacketOK, CommandOK, ToRouter, FromRouter, Directly, Relayed, DirectSend
  <2>2. PICK q \in to \cap Open(p) : g = Carry(p, q, {q}, c)
    BY DEF DirectTo
  <2>3. p = 0 /\ Relayed(c) /\ q # c.player /\ q \in Open(0)
    BY <1>8, <2>2 DEF ToRouter
  <2>4. q # 0
    BY <1>1, <2>3 DEF Open, PlayersOK, LinksOK
  <2> QED
    BY <2>2, <2>3, <2>4 DEF Carry, CommandOK, FromRouter
<1>11. \A a \in AckCommand(p, h) : PacketOK(a)'
  BY <1>2, <1>7, AckIsOK
<1>12. /\ \A g \in queue \cup net : PacketOK(g)'
       /\ \A e \in relayed : RelayedOK(e)'
  BY <1>1, <1>7, PacketsStay DEF ServedInv, PacketsOK, ConfirmationsOK
<1> HIDE DEF p, c, to
<1>13. PacketsOK'
  BY <1>3, <1>10, <1>11, <1>12 DEF PacketsOK, NewIn
<1>14. ConfirmationsOK'
  <2>1. CASE to = {}
    BY <1>3, <1>12, <2>1 DEF ConfirmationsOK
  <2>2. CASE to # {}
    <3>1. SUFFICES ASSUME NEW e \in relayed', e \notin relayed PROVE RelayedOK(e)'
      BY <1>12 DEF ConfirmationsOK
    <3>2. relayed' \subseteq relayed \cup {[at |-> p, cmd |-> c, relay |-> to]}
      BY <1>3, <2>2 DEF AddTo
    <3>3. Relayed(c) /\ p = 0 /\ ~Ignored(p, c)
      BY <1>8, <2>2 DEF ToRouter, c
    <3>4. e.at = 0 /\ e.cmd = c /\ e.relay = to
      BY <3>1, <3>2, <3>3
    <3>5. ~Needs(0, c)'
      BY <1>1, <1>4, <3>3 DEF Needs
    <3>6. \A q \in Player : Needs(q, c)' => q \in to
      BY <1>9, <3>3
    <3> QED
      BY <1>2, <1>5, <3>3, <3>4, <3>5, <3>6 DEF RelayedOK, Relayed, DirectSend
  <2> QED
    BY <2>1, <2>2
<1>15. ASSUME NEW d \in Issued PROVE ServedOK(d)'
  <2>1. \A s, t \in Player : Listed(s, t, d) => Listed(s, t, d)'
    BY <1>3 DEF Listed
  <2>2. CASE Relayed(d) /\ d \in has'[0] => d \in has[0]
    BY <1>3, <1>7, <2>1, <2>2, ServedStays
  <2>3. CASE d \in has'[0] /\ d \notin has[0] /\ Relayed(d)
    <3>1. d = c /\ p = 0 /\ ~Ignored(p, c)
      BY <1>1, <1>4, <2>3
    <3>2. Relayed(d)'
      BY <2>3 DEF Relayed, DirectSend
    <3>3. ASSUME NEW q \in Player, Needs(q, d)' PROVE Listed(0, q, d)'
      <4>1. q \in to
        BY <1>9, <2>3, <3>1, <3>3
      <4>2. q \in to \cap Open(p)
        BY <1>8, <3>1, <4>1
      <4>3. Carry(p, q, {q}, c) \in DirectTo(p, to, c)
        BY <4>2 DEF DirectTo
      <4> QED
        BY <1>3, <3>1, <4>3, NowListed DEF Carry
    <3>4. PendingOK(d)
      BY <2>3 DEF ServedInv, CommandsOK, ServedOK
    <3>5. d \in script
      BY DEF Issued
    <3>6. AllServed(d) => AllServed(d)'
      BY <1>1, <1>7, <3>5, NeedsShrink
    <3>7. PendingOK(d)'
      BY <1>3, <3>4, <3>6 DEF PendingOK
    <3> QED
      BY <2>3, <3>2, <3>3, <3>7 DEF ServedOK, RouterOK
  <2> QED
    BY <2>2, <2>3
<1>16. CommandsOK'
  BY <1>5, <1>15 DEF CommandsOK
<1> QED
  BY <1>7, <1>13, <1>14, <1>16 DEF ServedInv

-----------------------------------------------------------------------------
(* A confirmation is taken off for a player that does not need the command, *)
(* so the router still waits for all that do; when it waits for nobody, all *)
(* are served, and the sender may forget the command.                       *)
LEMMA ServedReceiveAck ==
    ASSUME ServedInv, RouterStays, NothingAfterLeave, RelayInv',
           NEW h \in queue \cup net, ReceiveAck(h.dst, h)
    PROVE  ServedInv'
<1> DEFINE p == h.dst
           c == h.cmd
           acked == {g \in List(p, h.src) : StageOne(h) /\ g.cmd = c}
           waiting == {e \in relayed : StageTwo(h) /\ e.at = p /\ e.cmd = c}
           rest == UNION {e.relay \ {AckPlayer(h)} : e \in waiting}
           confirmed == waiting # {} /\ rest = {}
           via == IF ViaRouter(p, router[p], c) THEN router[p] ELSE c.player
           stageTwo == {Ack("ACKSTAGE2", p, q, {c.player}, c) :
                           q \in IF confirmed THEN {via} \cap Open(p) ELSE {}}
           passedOn == {Ack(h.kind, p, q, {q}, c) : q \in h.relay \cap Open(p)}
           kept == {[e EXCEPT !.relay = rest] : e \in IF confirmed THEN {} ELSE waiting}
<1>1. TypeOK /\ RelayInv /\ PlayersOK /\ script \in Scripts
      /\ p \in Player /\ c \in script /\ h.src \in Player /\ 0 \in Player
      /\ h.kind \in AckKinds \cup {"COMMAND"}
  BY ScriptLeaves DEF ServedInv, RelayInv, TypeOK
<1>2. h.kind # "COMMAND" /\ AckOK(h) /\ c \in Issued
  BY DEF ReceiveAck, ServedInv, PacketsOK, PacketOK
<1>3. /\ queue' = queue \ acked
      /\ pending' = {e \in pending : ~(StageTwo(h) /\ e.at = p /\ e.cmd = c)}
      /\ relayed' = (relayed \ waiting) \cup kept
      /\ Unqueue(acked, (net \ {h}) \cup stageTwo \cup passedOn)
      /\ UNCHANGED <<script, frame, has, links>>
  BY DEF ReceiveAck
<1>4. Issued' = Issued
  BY <1>3 DEF Issued
<1>5. \A s \in Player : has[s] \subseteq has'[s] /\ has'[s] \subseteq Issued'
  BY <1>1, <1>3, <1>4 DEF PlayersOK, GameOK
<1>6. Later /\ PlayersOK'
  BY <1>3, <1>5, PlayersStay
<1>7. /\ \A g \in queue \cup net : PacketOK(g)'
      /\ \A e \in relayed : RelayedOK(e) /\ RelayedOK(e)'
  BY <1>1, <1>6, PacketsStay DEF ServedInv, PacketsOK, ConfirmationsOK
<1>8. passedOn = {}
  BY <1>1, <1>2 DEF AckOK, Open, PlayersOK, LinksOK
<1>9. acked \subseteq queue
  BY DEF List
<1>10. \A e \in waiting : p = 0 /\ Relayed(c) /\ ~Needs(AckPlayer(h), c)
  <2>1. SUFFICES ASSUME NEW e \in waiting PROVE p = 0 /\ Relayed(c) /\ ~Needs(AckPlayer(h), c)
    OBVIOUS
  <2>2. e \in relayed /\ RelayedOK(e) /\ e.at = p /\ e.cmd = c /\ StageTwo(h)
    BY <1>7
  <2>3. h.kind = "ACKSTAGE2" => AckPlayer(h) = 0
    BY DEF AckPlayer
  <2>4. h.kind # "ACKSTAGE2" => AckPlayer(h) = h.src /\ StageOne(h)
    BY <2>2 DEF AckPlayer, StageOne, StageTwo
  <2> QED
    BY <1>2, <2>2, <2>3, <2>4 DEF RelayedOK, AckOK
<1>11. \A e \in waiting : \A q \in Player :
          Executes(q, MaxFrame + 1) /\ Needs(q, c) => q \in rest
  BY <1>7, <1>10 DEF RelayedOK
<1>12. confirmed => p = 0 /\ Relayed(c) /\ AllServed(c)
  BY <1>10, <1>11 DEF AllServed
<1>13. \A a \in stageTwo : PacketOK(a)'
  <2>1. SUFFICES ASSUME NEW a \in stageTwo PROVE PacketOK(a)'
    OBVIOUS
  <2>2. confirmed /\ a = Ack("ACKSTAGE2", p, via, {c.player}, c)
    OBVIOUS
  <2>3. via = c.player
    BY <1>1, <1>12, <2>2 DEF ViaRouter, PlayersOK, LinksOK
  <2>4. AllServed(c)'
    BY <1>1, <1>6, <1>12, <2>2, NeedsShrink
  <2>5. a.kind = "ACKSTAGE2" /\ a.relay = {a.dst} /\ a.cmd = c
    BY <2>2, <2>3 DEF Ack
  <2> HIDE DEF c
  <2> QED
    BY <1>2, <1>4, <2>4, <2>5 DEF PacketOK, AckOK, StageOne
<1>14. \A e \in kept : RelayedOK(e)'
  <2>1. SUFFICES ASSUME NEW d \in waiting, ~confirmed, NEW e, e = [d EXCEPT !.relay = rest]
                 PROVE  RelayedOK(e)'
    OBVIOUS
  <2>2. RelayedOK(d)' /\ d.cmd = c /\ d \in [at : Player, cmd : script, relay : SUBSET Player]
    BY <1>1, <1>7 DEF TypeOK
  <2> HIDE DEF rest, c
  <2>3. e.at = d.at /\ e.cmd = d.cmd /\ e.relay = rest
    BY <2>1, <2>2
  <2>4. \A q \in Player : Needs(q, c)' => Needs(q, c)
    BY <1>1, <1>6, NeedsShrink
  <2>5. \A q \in Player : Executes(q, MaxFrame + 1)' <=> Executes(q, MaxFrame + 1)
    BY <1>3 DEF Executes
  <2>6. \A q \in Player : (Executes(q, MaxFrame + 1) /\ Needs(q, c))' => q \in rest
    BY <1>11, <2>4, <2>5
  <2> QED
    BY <2>2, <2>3, <2>6 DEF RelayedOK
<1>15. ASSUME NEW d \in Issued PROVE ServedOK(d)'
  <2>1. ASSUME NEW s \in Player, NEW t \in Player, Listed(s, t, d), Needs(t, d)
        PROVE  Listed(s, t, d)'
    <3>1. PICK g \in queue : g.src = s /\ g.dst = t /\ g.cmd = d
      BY <2>1 DEF Listed
    <3>2. g \notin acked
      BY <1>2, <2>1, <3>1 DEF AckOK, List
    <3> QED
      BY <1>3, <3>1, <3>2 DEF Listed
  <2>2. ASSUME Relayed(d), NEW e \in pending, e.at = d.player, e.cmd = d, e \notin pending'
        PROVE  AllServed(d)
    BY <1>2, <1>3, <2>2 DEF AckOK
  <2> QED
    BY <1>3, <1>6, <2>1, <2>2, ServedStays
<1>16. CommandsOK'
  BY <1>4, <1>15 DEF CommandsOK
<1> HIDE DEF p, c, acked, waiting, rest, confirmed, via, stageTwo, passedOn, kept
<1>17. net' \subseteq ((net \ {h}) \cup stageTwo \cup passedOn) \cup acked
  BY <1>1, <1>3, UnqueueTypes DEF TypeOK
<1>18. PacketsOK'
  BY <1>3, <1>7, <1>8, <1>9, <1>13, <1>17 DEF PacketsOK
<1>19. ConfirmationsOK'
  BY <1>3, <1>7, <1>14 DEF ConfirmationsOK
<1> QED
  BY <1>6, <1>16, <1>18, <1>19 DEF ServedInv

LEMMA ServedStep == RouterStays /\ NothingAfterLeave /\ ServedInv /\ [Next]_vars => ServedInv'
<1> SUFFICES ASSUME RouterStays, NothingAfterLeave, ServedInv, [Next]_vars PROVE ServedInv'
  OBVIOUS
<1>1. RelayInv'
  BY RelayStep DEF ServedInv
<1>2. ASSUME NEW p \in Player, NEW c \in script, Issue(p, c) PROVE ServedInv'
  BY <1>1, <1>2, ServedIssue
<1>3. ASSUME NEW p \in Player, EndOfGame(p) PROVE ServedInv'
  BY <1>1, <1>3, ServedClose
<1>4. ASSUME NEW p \in Player, NEW q \in Player, CloseConnection(p, q) PROVE ServedInv'
  BY <1>1, <1>4, ServedClose
<1>5. ASSUME NEW p \in Player, Settled, ExecuteFrame(p) PROVE ServedInv'
  BY <1>1, <1>5, ServedExecuteFrame
<1>6. ASSUME NEW p \in Player, NEW q \in Player, QuitTimeout(p, q) PROVE ServedInv'
  BY <1>1, <1>6, ServedQuitTimeout
<1>7. ASSUME NEW h \in queue \cup net, Receive(h) PROVE ServedInv'
  BY <1>1, <1>7, ServedReceiveCommand, ServedReceiveAck DEF Receive
<1>8. ASSUME NEW h \in net, Lose(h) PROVE ServedInv'
  BY <1>1, <1>8, ServedLose
<1>9. CASE UNCHANGED vars
  <2>1. UNCHANGED <<script, frame, has, links, queue, pending, relayed, net>>
    BY <1>9 DEF vars, links
  <2>2. \A q \in Player : has[q] \subseteq has'[q] /\ has'[q] \subseteq Issued'
    BY <2>1 DEF ServedInv, PlayersOK, GameOK, Issued
  <2>3. Later /\ PlayersOK'
    BY <2>1, <2>2, PlayersStay
  <2> QED
    BY <1>1, <2>1, <2>3, ServedQuiet
<1> QED
  BY <1>2, <1>3, <1>4, <1>5, <1>6, <1>7, <1>8, <1>9 DEF Next, Urgent

(* The commands of a game are what they are from the start. *)
LEMMA ScriptStays == [Next]_vars => script' = script
<1> SUFFICES ASSUME [Next]_vars PROVE script' = script
  OBVIOUS
<1>1. \A p, q \in Player : CloseConnection(p, q) \/ QuitTimeout(p, q) => script' = script
  BY DEF CloseConnection, QuitTimeout
<1>2. \A p \in Player : EndOfGame(p) \/ ExecuteFrame(p) => script' = script
  BY DEF EndOfGame, ExecuteFrame
<1>3. \A p, c : Issue(p, c) => script' = script
  BY DEF Issue
<1>4. \A h : Receive(h) \/ Lose(h) => script' = script
  BY DEF Receive, ReceiveCommand, ReceiveAck, Lose
<1> QED
  BY <1>1, <1>2, <1>3, <1>4 DEF Next, Urgent, vars

ServedGames == RelayInv /\ (RouterStays /\ NothingAfterLeave => ServedInv)

LEMMA ServedAlways == Spec => []ServedGames
<1>1. Init => ServedGames
  BY RelayInit, ServedInit DEF ServedGames
<1>2. ServedGames /\ [Next]_vars => ServedGames'
  BY RelayStep, ServedStep, ScriptStays DEF ServedGames, RouterStays, NothingAfterLeave, DirectSend
<1> QED
  BY <1>1, <1>2, PTL DEF Spec

(* Whatever packets are lost, repeated or late and whichever clients leave: *)
(* a command that a player still needs is kept for it, in the list of a     *)
(* connection (sendLocalCommand, doRelay, processAck, and disconnectPlayer, *)
(* which drops what the player that leaves has relayed).                    *)
THEOREM KeptForWhoNeedsItAlways ==
    Spec => [](RouterStays /\ NothingAfterLeave => KeptForWhoNeedsIt)
<1>1. ServedInv => KeptForWhoNeedsIt
  <2> SUFFICES ASSUME ServedInv, NEW q \in Player, NEW c \in Issued, Needs(q, c)
               PROVE  KeptFor(q, c)
    BY DEF KeptForWhoNeedsIt
  <2>1. ServedOK(c) /\ script \in Scripts /\ c \in script /\ c \in has[c.player]
    BY DEF ServedInv, CommandsOK, RelayInv, TypeOK, Issued
  <2>2. CASE ~Relayed(c)
    <3>1. Listed(c.player, q, c)
      BY <2>1, <2>2 DEF ServedOK, DirectOK
    <3> QED
      BY <3>1 DEF Listed, KeptFor
  <2>3. CASE Relayed(c) /\ c \in has[0]
    <3>1. Listed(0, q, c)
      BY <2>1, <2>3 DEF ServedOK, RouterOK
    <3> QED
      BY <3>1 DEF Listed, KeptFor
  <2>4. CASE Relayed(c) /\ c \notin has[0]
    <3>1. PICK h \in queue : h.src = c.player /\ h.dst = 0 /\ h.cmd = c
      BY <2>1, <2>4 DEF ServedOK, RouterOK, Listed
    <3>2. h.kind = "COMMAND"
      BY DEF ServedInv, RelayInv, TypeOK
    <3>3. h.relay = Player \ {c.player}
      BY <2>4, <3>1, <3>2 DEF ServedInv, PacketsOK, PacketOK, CommandOK, ToRouter, FromRouter,
                              Directly, Relayed
    <3>4. q # c.player
      BY <2>1 DEF Needs
    <3> QED
      BY <3>1, <3>3, <3>4 DEF KeptFor
  <2> QED
    BY <2>2, <2>3, <2>4
<1>2. ServedGames => (RouterStays /\ NothingAfterLeave => KeptForWhoNeedsIt)
  BY <1>1 DEF ServedGames
<1> QED
  BY <1>2, ServedAlways, PTL

(* In the same games the second stage of the acknowledgement (ackCommand,   *)
(* processAck) comes to the sender of a command only when all that play to  *)
(* the end and need the command have it.                                    *)
THEOREM PendingUntilAllHaveItAlways ==
    Spec => [](RouterStays /\ NothingAfterLeave => PendingUntilAllHaveIt)
<1>1. ServedInv => PendingUntilAllHaveIt
  <2> SUFFICES ASSUME ServedInv, NEW c \in Issued, NEW q \in Player,
                      Needs(q, c), Executes(q, MaxFrame + 1)
               PROVE  \/ \E e \in pending : e.cmd = c /\ e.at = c.player
                      \/ \E h \in queue : h.cmd = c /\ h.src = c.player
    BY DEF PendingUntilAllHaveIt
  <2>1. ServedOK(c)
    BY DEF ServedInv, CommandsOK
  <2>2. CASE ~Relayed(c)
    BY <2>1, <2>2 DEF ServedOK, DirectOK, Listed
  <2>3. CASE Relayed(c)
    BY <2>1, <2>3 DEF ServedOK, PendingOK, AllServed
  <2> QED
    BY <2>2, <2>3
<1>2. ServedGames => (RouterStays /\ NothingAfterLeave => PendingUntilAllHaveIt)
  BY <1>1 DEF ServedGames
<1> QED
  BY <1>2, ServedAlways, PTL

=============================================================================
