-------------------------------- MODULE Relay --------------------------------
(***************************************************************************)
(* How a command gets to everybody although packets are lost, repeated and *)
(* reordered and the packet router may leave: connections that resend what *)
(* is not acknowledged, the router that relays and acknowledges in two     *)
(* stages, the sender that keeps a command pending until the second stage  *)
(* and gives it to the next router when the first one leaves.              *)
(*                                                                         *)
(* Connection.cpp, and in ConnectionManager.cpp the sending of commands,   *)
(* acknowledgements and players that leave.                                *)
(*                                                                         *)
(* What a frame holds is given by the script of the run (the counts of     *)
(* module Lockstep tell a player no more): a player executes a frame when  *)
(* it has all the commands of the script for it.                           *)
(***************************************************************************)
EXTENDS Naturals, FiniteSets

CONSTANTS
    N,              \* number of players; they are named 0 .. N-1
    MaxFrame,       \* last frame of the script
    Scripts,        \* sets of commands, one of which is the game played
    MaxFaults       \* bound: acknowledgements lost and packets that come late

CommandTypes == {"GAMECOMMAND", "PLAYERLEAVE", "LOADCOMPLETE"}

(* Somebody stays, nobody leaves twice, and no two players leave on one     *)
(* frame, which the code does not rule out: such games are left out.        *)
ASSUME RelayAssumption ==
    /\ N \in Nat \ {0}
    /\ MaxFrame \in Nat
    /\ MaxFaults \in Nat
    /\ \A s \in Scripts : \A c \in s :
          /\ c.player \in 0 .. N - 1
          /\ c.frame \in 1 .. MaxFrame
          /\ c.type \in CommandTypes
    /\ \A s \in Scripts :
          /\ \E q \in 0 .. N - 1 : \A c \in s : c.type = "PLAYERLEAVE" => c.player # q
          /\ \A c, d \in s :
                /\ c.type = "PLAYERLEAVE" /\ d.type = "PLAYERLEAVE"
                /\ c.frame = d.frame \/ c.player = d.player
                => c = d

VARIABLES
    script,     \* the commands of this game
    frame,      \* frame a player is about to execute
    has,        \* the commands in the frame data of each player, or processed
    conn,       \* m_connections[q] of p: open, quitting, or closed (null)
    router,     \* m_packetRouterSlot
    inGame,     \* m_packetRouterFallback
    queue,      \* m_netCommandList of every connection; what is in it is resent
    pending,    \* m_pendingCommands: what its sender keeps, and for whom
    relayed,    \* m_relayedCommands: who has not confirmed to the relaying player
    gone,       \* the players that have left the session
    net,        \* on the way: acknowledgements, and packets that come late
    faults      \* acknowledgements lost and packets that came late, so far

vars == <<script, frame, has, conn, router, inGame, queue, pending, relayed, gone, net, faults>>

links == <<conn, router, inGame, gone>>
traffic == <<net, faults>>

-----------------------------------------------------------------------------
Player == 0 .. N - 1

(* CommandRequiresDirectSend and IsCommandSynchronized. *)
DirectSend(c) == c.type = "LOADCOMPLETE"
Synchronized(c) == c.type \in {"GAMECOMMAND", "PLAYERLEAVE"}

Open(p) == {q \in Player : conn[p][q] = "open"}

Left(p) == p \notin inGame[p]

(* A command on its way, or in the list of the connection of src to dst. *)
Carry(src, dst, relay, c) ==
    [kind |-> "COMMAND", src |-> src, dst |-> dst, relay |-> relay, cmd |-> c]

Ack(kind, src, dst, relay, c) ==
    [kind |-> kind, src |-> src, dst |-> dst, relay |-> relay, cmd |-> c]

(* NetCommandList::addMessage: not when the command is in the list already. *)
NewIn(list, items) ==
    {h \in items : ~\E g \in list : g.src = h.src /\ g.dst = h.dst /\ g.cmd = h.cmd}

AddTo(list, at, relay, c) ==
    IF \E e \in list : e.at = at /\ e.cmd = c THEN list
    ELSE list \cup {[at |-> at, cmd |-> c, relay |-> relay]}

(* sendLocalCommandDirect. *)
DirectTo(p, relay, c) == {Carry(p, q, {q}, c) : q \in relay \cap Open(p)}

ViaRouter(p, r, c) == ~DirectSend(c) /\ r # p /\ conn[p][r] # "closed"

(* sendLocalCommand with r as the packet router. *)
SendLocal(p, r, relay, c) ==
    IF ViaRouter(p, r, c)
      THEN {Carry(p, q, relay \ {p}, c) : q \in {r} \cap Open(p)}
      ELSE DirectTo(p, relay, c)

(* What is taken off the lists is not resent, but some of it may be on its  *)
(* way still, and arrive after whatever happens next.                       *)
Unqueue(removed, acks) ==
    \E copies \in SUBSET removed :
        /\ Cardinality(copies) \in 0 .. MaxFaults - faults
        /\ faults' = faults + Cardinality(copies)
        /\ net' = acks \cup copies

-----------------------------------------------------------------------------
Init ==
    /\ script \in Scripts
    /\ frame = [p \in Player |-> 1]
    /\ has = [p \in Player |-> {}]
    /\ conn = [p \in Player |-> [q \in Player |-> IF p = q THEN "closed" ELSE "open"]]
    /\ router = [p \in Player |-> 0]
    /\ inGame = [p \in Player |-> Player]
    /\ queue = {}
    /\ pending = {}
    /\ relayed = {}
    /\ gone = {}
    /\ net = {}
    /\ faults = 0

(* The script has p send a command one frame before the one it is for.      *)
Due(p) == {c \in script \ has[p] : c.player = p /\ c.frame <= frame[p] + 1 /\ ~Left(p)}

(* sendLocalCommand. *)
Issue(p, c) ==
    /\ c \in Due(p)
    /\ has' = [has EXCEPT ![p] = @ \cup {c}]
    /\ pending' = IF ViaRouter(p, router[p], c)
                    THEN AddTo(pending, p, Player \ {p}, c) ELSE pending
    /\ queue' = queue \cup NewIn(queue, SendLocal(p, router[p], Player, c))
    /\ UNCHANGED <<script, frame, links, relayed, traffic>>

-----------------------------------------------------------------------------
FrameReady(p) == \A c \in script : (Synchronized(c) /\ c.frame = frame[p]) => c \in has[p]

RouterAfter(p, r) == CHOOSE q \in inGame[p] \ {r} : \A s \in inGame[p] \ {r} : q <= s

(* The player that leaves keeps nothing of what it relayed, and sends       *)
(* nothing new.                                                             *)
OwnLeave(p) ==
    LET cleared == {h \in queue : h.src = p /\ h.cmd.player # p}
    IN  /\ conn' = [conn EXCEPT ![p] = [q \in Player |-> IF @[q] = "open" THEN "quitting" ELSE @[q]]]
        /\ queue' = queue \ cleared
        /\ Unqueue(cleared, net)

(* Plausible bug: the new router is left to wait. *)
ResendNothing(p, r) == {}

(* resendPendingCommands: through the next router, to those it was for. *)
ResendPending(p, r) ==
    UNION {SendLocal(p, r, e.relay, e.cmd) : e \in {g \in pending : g.at = p}}

OtherLeave(p, r) ==
    /\ conn' = [conn EXCEPT ![p][r] = "quitting"]
    /\ queue' = IF router[p] = r
                  THEN queue \cup NewIn(queue, {h \in ResendPending(p, RouterAfter(p, r)) : h.dst # r})
                  ELSE queue
    /\ UNCHANGED traffic

(* processPlayerLeave. *)
PlayerLeave(p, r) ==
    /\ inGame' = [inGame EXCEPT ![p] = @ \ {r}]
    /\ router' = [router EXCEPT ![p] = IF router[p] = r THEN RouterAfter(p, r) ELSE @]
    /\ IF p = r THEN OwnLeave(p) ELSE OtherLeave(p, r)

Leaving(f) == {c.player : c \in {d \in script : d.type = "PLAYERLEAVE" /\ d.frame = f}}

(* A frame is executed when all its commands are there. *)
ExecuteFrame(p) ==
    /\ ~Left(p)
    /\ frame[p] <= MaxFrame
    /\ FrameReady(p)
    /\ frame' = [frame EXCEPT ![p] = @ + 1]
    /\ IF Leaving(frame[p]) = {}
         THEN UNCHANGED <<conn, router, inGame, queue, traffic>>
         ELSE \E r \in Leaving(frame[p]) : PlayerLeave(p, r)
    /\ UNCHANGED <<script, has, pending, relayed, gone>>

-----------------------------------------------------------------------------
Lose(h) ==
    /\ h \in net
    /\ faults < MaxFaults
    /\ faults' = faults + 1
    /\ net' = net \ {h}
    /\ UNCHANGED <<script, frame, has, links, queue, pending, relayed>>

List(p, q) == {h \in queue : h.src = p /\ h.dst = q}

(* Plausible bug: deleted with what is in its list. *)
CloseConnectionAtOnce(p, q) ==
    /\ conn[p][q] = "quitting"
    /\ conn' = [conn EXCEPT ![p][q] = "closed"]
    /\ UNCHANGED <<script, frame, has, router, inGame, gone, queue, pending, relayed, traffic>>

(* update: a quitting connection that has nothing to send is deleted. *)
CloseConnection(p, q) ==
    /\ conn[p][q] = "quitting"
    /\ List(p, q) = {}
    /\ conn' = [conn EXCEPT ![p][q] = "closed"]
    /\ UNCHANGED <<script, frame, has, router, inGame, gone, queue, pending, relayed, traffic>>

(* Thirty seconds are enough for a packet to arrive. *)
Arrived(h) == h.cmd \in has[h.dst] \/ Left(h.dst)

(* doSend of a connection that has been quitting for MaxQuitFlushTime. *)
QuitTimeout(p, q) ==
    /\ conn[p][q] = "quitting"
    /\ List(p, q) # {}
    /\ \A h \in net : {h.src, h.dst} = {p, q} => h.dst \in gone
    /\ \A h \in List(p, q) : Arrived(h)
    /\ queue' = queue \ List(p, q)
    /\ UNCHANGED <<script, frame, has, links, pending, relayed, traffic>>

(* endOfGameCheck, canILeave: all queues are empty. *)
EndOfGame(p) ==
    /\ Left(p)
    /\ p \notin gone
    /\ \A q \in Player : List(p, q) = {}
    /\ gone' = gone \cup {p}
    /\ UNCHANGED <<script, frame, has, conn, router, inGame, queue, pending, relayed, traffic>>

-----------------------------------------------------------------------------
(* Plausible bug: who is to relay the command vouches for the others. *)
AckKindBoth(p, h) == "ACKBOTH"

(* ackCommand: both stages at once when p has nobody to send it on to. *)
AckKind(p, h) == IF h.relay \cap Open(p) = {} THEN "ACKBOTH" ELSE "ACKSTAGE1"

(* Plausible bug: the router has nobody to acknowledge to. *)
AckToRouter(p, c) == router[p]

(* To the packet router, or from the router to who issued the command; one  *)
(* that needs no router is acknowledged to its sender.                      *)
AckTo(p, c) == IF DirectSend(c) \/ router[p] = p THEN c.player ELSE router[p]

AckCommand(p, h) ==
    {Ack(AckKind(p, h), p, q, {q}, h.cmd) : q \in {AckTo(p, h.cmd)} \cap Open(p)}

(* Plausible bug: the frame at hand counts as executed. *)
IgnoredAtFrame(p, c) ==
    \/ conn[p][c.player] = "closed"
    \/ Synchronized(c) /\ c.frame <= frame[p]

(* processNetCommand: from a player that is no longer in the game, or for   *)
(* a frame that has been executed: ignored, and not relayed.                *)
Ignored(p, c) ==
    \/ conn[p][c.player] = "closed"
    \/ Synchronized(c) /\ c.frame < frame[p]

(* doRelay of a packet with a command: acknowledge, process, relay. *)
ReceiveCommand(p, h) ==
    LET c == h.cmd
        to == IF Ignored(p, c) THEN {} ELSE h.relay \cap Open(p)
    IN  /\ h.kind = "COMMAND"
        /\ has' = [has EXCEPT ![p] = IF Ignored(p, c) \/ p \notin h.relay THEN @ ELSE @ \cup {c}]
        /\ relayed' = IF to = {} THEN relayed ELSE AddTo(relayed, p, to, c)
        /\ queue' = queue \cup NewIn(queue, DirectTo(p, to, c))
        /\ net' = (net \ {h}) \cup AckCommand(p, h)
        /\ UNCHANGED <<script, frame, links, pending, faults>>

(* The player an acknowledgement says it is from: the constructor of the    *)
(* second stage leaves it 0.                                                *)
AckPlayer(h) == IF h.kind = "ACKSTAGE2" THEN 0 ELSE h.src

StageOne(h) == h.kind \in {"ACKSTAGE1", "ACKBOTH"}
StageTwo(h) == h.kind \in {"ACKSTAGE2", "ACKBOTH"}

(* processAck; and sendRemoteCommand, which relays a second stage. *)
ReceiveAck(p, h) ==
    LET c == h.cmd
        acked == {g \in List(p, h.src) : StageOne(h) /\ g.cmd = c}
        waiting == {e \in relayed : StageTwo(h) /\ e.at = p /\ e.cmd = c}
        rest == UNION {e.relay \ {AckPlayer(h)} : e \in waiting}
        confirmed == waiting # {} /\ rest = {}
        via == IF ViaRouter(p, router[p], c) THEN router[p] ELSE c.player
        stageTwo == {Ack("ACKSTAGE2", p, q, {c.player}, c) :
                        q \in IF confirmed THEN {via} \cap Open(p) ELSE {}}
        passedOn == {Ack(h.kind, p, q, {q}, c) : q \in h.relay \cap Open(p)}
    IN  /\ h.kind # "COMMAND"
        /\ queue' = queue \ acked
        /\ pending' = {e \in pending : ~(StageTwo(h) /\ e.at = p /\ e.cmd = c)}
        /\ relayed' = (relayed \ waiting)
                        \cup {[e EXCEPT !.relay = rest] : e \in IF confirmed THEN {} ELSE waiting}
        /\ Unqueue(acked, (net \ {h}) \cup stageTwo \cup passedOn)
        /\ UNCHANGED <<script, frame, has, links>>

(* Connection::doSend: what is in a list is sent until it is acknowledged,  *)
(* again when no answer has come for m_retryTime.                           *)
Answered(h) == \E a \in net : a.src = h.dst /\ a.dst = h.src /\ a.cmd = h.cmd

Receive(h) ==
    /\ h \in net \/ (h \in queue /\ ~Answered(h))
    /\ h.dst \notin gone
    /\ ReceiveCommand(h.dst, h) \/ ReceiveAck(h.dst, h)

(* Commands are issued as soon as they are due; a connection is deleted and *)
(* the game left in the same update that finds the lists empty.             *)
Urgent ==
    \E p \in Player :
        \/ \E c \in script : Issue(p, c)
        \/ EndOfGame(p)
        \/ \E q \in Player : CloseConnection(p, q)

Settled ==
    \A p \in Player :
        /\ Due(p) = {}
        /\ Left(p) => p \in gone \/ \E q \in Player : List(p, q) # {}
        /\ \A q \in Player : conn[p][q] = "quitting" => List(p, q) # {}

Next ==
    \/ Urgent
    \/ /\ Settled
       /\ \/ \E p \in Player : ExecuteFrame(p) \/ \E q \in Player : QuitTimeout(p, q)
          \/ \E h \in queue \cup net : Receive(h)
          \/ \E h \in net : Lose(h)

Spec == Init /\ [][Next]_vars

-----------------------------------------------------------------------------
AckKinds == {"ACKSTAGE1", "ACKSTAGE2", "ACKBOTH"}

(* Every variable has its type; nothing is in the list of a connection that *)
(* is deleted, and what is in a list is to go on to somebody.               *)
TypeOK ==
    /\ script \in Scripts
    /\ frame \in [Player -> 1 .. MaxFrame + 1]
    /\ has \in [Player -> SUBSET script]
    /\ conn \in [Player -> [Player -> {"open", "quitting", "closed"}]]
    /\ router \in [Player -> Player]
    /\ inGame \in [Player -> SUBSET Player]
    /\ queue \subseteq [kind : {"COMMAND"}, src : Player, dst : Player,
                        relay : (SUBSET Player) \ {{}}, cmd : script]
    /\ \A h \in queue : conn[h.src][h.dst] # "closed"
    /\ pending \subseteq [at : Player, cmd : script, relay : SUBSET Player]
    /\ relayed \subseteq [at : Player, cmd : script, relay : (SUBSET Player) \ {{}}]
    /\ gone \subseteq Player
    /\ net \subseteq [kind : AckKinds \cup {"COMMAND"}, src : Player, dst : Player,
                      relay : SUBSET Player, cmd : script]
    /\ faults \in 0 .. MaxFaults

Issued == {c \in script : c \in has[c.player]}

(* The script has q execute frame f: it has not left before. *)
Executes(q, f) == ~\E d \in script : d.type = "PLAYERLEAVE" /\ d.player = q /\ d.frame < f

Needs(q, c) ==
    /\ c \notin has[q]
    /\ ~Left(q)
    /\ Synchronized(c) => frame[q] <= c.frame /\ Executes(q, c.frame)

KeptFor(q, c) ==
    \/ \E h \in queue : h.cmd = c /\ (h.dst = q \/ q \in h.relay)
    \/ \E e \in pending : e.cmd = c /\ e.at \notin gone /\ q \in e.relay

(* A command that a player still waits for is kept for it somewhere: by its *)
(* sender, pending, or in the list of a connection.                         *)
KeptForWhoNeedsIt ==
    \A q \in Player : \A c \in Issued : Needs(q, c) => KeptFor(q, c)

(* The sender forgets a command that goes through the router only when all  *)
(* that stay and need it have it: until then it can resend it through the   *)
(* next router.                                                             *)
PendingUntilAllHaveIt ==
    \A c \in Issued : \A q \in Player :
        (Needs(q, c) /\ Executes(q, MaxFrame + 1) /\ ~Left(c.player)) =>
            \/ \E e \in pending : e.cmd = c /\ e.at = c.player
            \/ \E h \in queue : h.cmd = c /\ h.src = c.player

-----------------------------------------------------------------------------
(* Every update receives and sends, what is resent arrives in the end, and  *)
(* a quitting connection times out.                                         *)
Arrives(p, q, t) ==
    \E h \in queue \cup net : h.src = p /\ h.dst = q /\ h.cmd.type = t /\ Settled /\ Receive(h)

Fairness ==
    /\ WF_vars(Urgent)
    /\ \A p \in Player : WF_vars(Settled /\ ExecuteFrame(p))
    /\ \A p \in Player : \A q \in Player \ {p} :
          /\ WF_vars(Settled /\ QuitTimeout(p, q))
          /\ \A t \in CommandTypes : WF_vars(Arrives(p, q, t))

FairSpec == Spec /\ Fairness

(* Everybody that stays gets to the end of the game. *)
EverybodyFinishes ==
    <>(\A p \in Player : Left(p) \/ frame[p] = MaxFrame + 1)

(* Who leaves gets away, and the others are left with nothing to send. *)
QueuesDrain ==
    <>[](/\ queue = {}
         /\ \A p \in Player : Left(p) => p \in gone)

=============================================================================
