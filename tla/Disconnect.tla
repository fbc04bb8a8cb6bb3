----------------------------- MODULE Disconnect -----------------------------
(***************************************************************************)
(* The lockstep game of module Lockstep with its disconnect manager: what  *)
(* the other players do when one of them crashes.  A player that is stuck  *)
(* on a frame turns on the disconnect screen and tells the others which    *)
(* frame it is on; whoever is ahead sends the frames the others miss; when *)
(* all that are left are known to be on one frame, the next packet router  *)
(* removes the lost player and tells the others to.                        *)
(*                                                                         *)
(* DisconnectManager.cpp, and in ConnectionManager.cpp the messages it     *)
(* sends, sendFrameDataToPlayer and disconnectPlayer.                      *)
(*                                                                         *)
(* Time is abstract.  Two things are taken for granted of it: a keep-alive *)
(* of a player that is there arrives before the timeout, and the packets   *)
(* of a player that crashed have all arrived, or never will, when it times *)
(* out or is voted out (60 seconds against the lifetime of a packet).      *)
(***************************************************************************)
EXTENDS Lockstep

CONSTANTS
    FirstFrame,     \* bound: the frame the model starts on
    Crashers,       \* the players that may crash; one of them does at most
    CrashBy,        \* bound: the last frame on which a player may crash
    Voters,         \* the players whose user may vote
    FrameModulus    \* 2 ^ width of UnsignedInt, scaled down

ASSUME DisconnectAssumption ==
    /\ FirstFrame \in Nat \ {0}
    /\ CrashBy \in Nat
    /\ Crashers \subseteq Player
    /\ Voters \subseteq Player
    /\ FrameModulus \in Nat
    /\ FrameModulus > 2 * MaxFrame + FramesToKeep

VARIABLES
    presence,           \* each player: up, crashed, or silent (its packets are gone too)
    screen,             \* m_disconnectState of p is not SCREENOFF
    notified,           \* m_haveNotifiedOtherPlayersOfCurrentFrame
    disconnectFrames,   \* m_disconnectFrames[q] of player p
    framesReceived,     \* the q with m_disconnectFramesReceived[q]
    playerVotes,        \* m_playerVotes: who voted whom out, on which frame
    timedOut,           \* the players whose time is up for p
    removedOn,          \* frame on which p removed q, 0 while it has not (history)
    notices             \* every message of the disconnect managers

screenVars == <<screen, notified>>
reports == <<disconnectFrames, framesReceived, playerVotes>>
managerVars == <<presence, screenVars, reports, timedOut, removedOn, notices>>
allVars == <<vars, managerVars>>

-----------------------------------------------------------------------------
Up(p) == presence[p] = "up"

Notice(type, p, q, slot, f) ==
    [type |-> type, src |-> p, dst |-> q, slot |-> slot, frame |-> f]

(* Sent to every open connection, never through the router. *)
Tell(type, p, slot, f) == {Notice(type, p, q, slot, f) : q \in Peers(p)}

(* countVotesForPlayer: votes for another frame than the current one do not count. *)
CountVotes(p, slot) ==
    Cardinality({v \in playerVotes[p] : v.slot = slot /\ v.frame = frame[p]})

IsPlayerVotedOut(p, q) == CountVotes(p, q) >= Cardinality(inGame[p]) - 1

IsPlayerInGame(p, q) ==
    q \in inGame[p] /\ ~IsPlayerVotedOut(p, q) /\ q \notin timedOut[p]

(* The manager is updated in every update, whose last act was to execute    *)
(* the frame if all its commands were there: they are not.                  *)
Stalled(p) == lastFrame[p] = frame[p] /\ ~AllCommandsReady(p)

OnScreen(p) == Stalled(p) /\ screen[p]

PeersInGame(p) == {q \in Peers(p) : IsPlayerInGame(p, q)}

(* Plausible bug: who has not reported its frame is not waited for. *)
AllOnSameFrameOfThoseHeard(p) ==
    \A q \in PeersInGame(p) \cap framesReceived[p] :
        disconnectFrames[p][q] = disconnectFrames[p][p]

AllOnSameFrame(p) ==
    \A q \in PeersInGame(p) :
        q \in framesReceived[p] /\ disconnectFrames[p][q] = disconnectFrames[p][p]

(* Plausible bug: whoever sees the packet router gone takes its place. *)
IsPacketRouterGone(p) == ~IsPlayerInGame(p, Router(p))

(* The first of the fallback plan that is still there is the local player. *)
IsLocalPlayerNextPacketRouter(p) == \A q \in PeersInGame(p) : p < q

GetMaxDisconnectFrame(p) ==
    CHOOSE f \in {disconnectFrames[p][q] : q \in Player} :
        \A q \in Player : disconnectFrames[p][q] <= f

(* resetPlayersVotes: the votes of a player on this frame or before. *)
WithoutVotesOf(votes, voter, f) == {v \in votes : v.voter # voter \/ v.frame > f}

(* sendSingleFrameToPlayer: unsigned, wraps when frame < FRAMES_TO_KEEP. *)
TooFarInThePast(p, f) == (frame[p] - FramesToKeep) % FrameModulus > f

(* Plausible bug: frames that were deleted with their player are sent too. *)
FrameDataForOfAll(p, q, start) ==
    UNION {Direct(p, {q}, Peers(p),
                  Cmd("FRAMEINFO", r, f, 0, frameData[p][r][SlotOf(f)].frameCommandCount))
             \cup UNION {Direct(p, {q}, Peers(p), c) : c \in frameData[p][r][SlotOf(f)].cmds} :
           r \in Player \ {q},
           f \in {g \in start .. frame[p] - 1 : ~TooFarInThePast(p, g)}}

(* sendFrameDataToPlayer: every frame this player has executed that the     *)
(* other has not, with the commands of everybody else and their counts.     *)
FrameDataFor(p, q, start) ==
    UNION {Direct(p, {q}, Peers(p),
                  Cmd("FRAMEINFO", r, f, 0, frameData[p][r][SlotOf(f)].frameCommandCount))
             \cup UNION {Direct(p, {q}, Peers(p), c) : c \in frameData[p][r][SlotOf(f)].cmds} :
           r \in inGame[p] \ {q},
           f \in {g \in start .. frame[p] - 1 : ~TooFarInThePast(p, g)}}

-----------------------------------------------------------------------------
(* A game in step that has come to FirstFrame: on the frame before, each    *)
(* player that has one to issue has issued a command for its execution      *)
(* frame, the frames up to there were announced without commands, and       *)
(* nobody has the others' commands yet.                                     *)
FirstExecutionFrame == FirstFrame + InitialRunAhead - 1

FirstCommand(p) == Cmd("GAME", p, FirstExecutionFrame, 1, 0)

FirstIssuers == {p \in Player : MaxCommands[p] > 0}

FirstCommands == {FirstCommand(p) : p \in FirstIssuers}

(* The oldest frame that is still kept on FirstFrame. *)
FirstKept == IF FirstFrame > FramesToKeep THEN FirstFrame - FramesToKeep ELSE 1

FirstRing(isLocal) ==
    ZeroFrames(EmptyRing(isLocal), FirstKept, FirstExecutionFrame - FirstKept)

DInit ==
    /\ frame = [p \in Player |-> FirstFrame]
    /\ runAhead = [p \in Player |-> InitialRunAhead]
    /\ lastExecutionFrame = [p \in Player |-> FirstExecutionFrame]
    /\ lastFrameCompleted = [p \in Player |-> FirstExecutionFrame - 1]
    /\ lastFrame = [p \in Player |-> FirstFrame - 1]
    /\ localStatus = [p \in Player |-> "INGAME"]
    /\ frameData = [p \in Player |-> [q \in Player |->
                      IF p = q /\ p \in FirstIssuers
                        THEN AddNetCommandMsg(TRUE, FirstRing(TRUE), FirstCommand(p))
                        ELSE FirstRing(p = q)]]
    /\ inGame = [p \in Player |-> Player]
    /\ issued = [p \in Player |-> IF p \in FirstIssuers THEN 1 ELSE 0]
    /\ created = FirstCommands
    /\ net = UNION {SendLocal(p, Player, FirstCommand(p)) : p \in FirstIssuers}
    /\ executed = [p \in Player |-> [f \in 1 .. FirstFrame - 1 |-> {}]]
    /\ presence = [p \in Player |-> "up"]
    /\ screen = [p \in Player |-> FALSE]
    /\ notified = [p \in Player |-> FALSE]
    /\ disconnectFrames = [p \in Player |-> [q \in Player |-> 0]]
    /\ framesReceived = [p \in Player |-> {}]
    /\ playerVotes = [p \in Player |-> {}]
    /\ timedOut = [p \in Player |-> {}]
    /\ removedOn = [p \in Player |-> [q \in Player |-> 0]]
    /\ notices = {}

-----------------------------------------------------------------------------
(* A player is gone; what it sent may still arrive. *)
Crash(p) ==
    /\ p \in Crashers
    /\ frame[p] <= CrashBy
    /\ \A q \in Player : Up(q)
    /\ presence' = [presence EXCEPT ![p] = "crashed"]
    /\ UNCHANGED <<vars, screenVars, reports, timedOut, removedOn, notices>>

(* What it sent and has not arrived never will. *)
Silence(p) ==
    /\ presence[p] = "crashed"
    /\ presence' = [presence EXCEPT ![p] = "silent"]
    /\ net' = {h \in net : h.src # p}
    /\ notices' = {m \in notices : m.src # p}
    /\ UNCHANGED <<frame, clock, frameData, inGame, issued, created, executed,
                   screenVars, reports, timedOut, removedOn>>

(* update: no new frame for m_networkDisconnectTime. *)
TurnOnScreen(p) ==
    /\ ~screen[p]
    /\ \E q \in Player : ~Up(q)
    /\ Stalled(p)
    /\ screen' = [screen EXCEPT ![p] = TRUE]
    /\ notified' = [notified EXCEPT ![p] = FALSE]
    /\ timedOut' = [timedOut EXCEPT ![p] = {}]
    /\ UNCHANGED <<vars, presence, reports, removedOn, notices>>

(* No keep-alive from q for m_networkPlayerTimeoutTime. *)
TimeOut(p, q) ==
    /\ OnScreen(p)
    /\ notified[p]
    /\ presence[q] = "silent"
    /\ q \in Peers(p) \ timedOut[p]
    /\ timedOut' = [timedOut EXCEPT ![p] = @ \cup {q}]
    /\ UNCHANGED <<vars, presence, screenVars, reports, removedOn, notices>>

(* voteForPlayerDisconnect: the user votes a lost player out, once a frame. *)
(* Nobody votes on the last frame of the model (bound).                     *)
VoteForPlayerDisconnect(p, q) ==
    /\ p \in Voters
    /\ frame[p] < MaxFrame
    /\ OnScreen(p)
    /\ presence[q] = "silent"
    /\ q \in Peers(p) \ timedOut[p]
    /\ ~\E v \in playerVotes[p] : v.slot = q /\ v.voter = p
    /\ playerVotes' = [playerVotes EXCEPT ![p] =
                         @ \cup {[slot |-> q, voter |-> p, frame |-> frame[p]]}]
    /\ notices' = notices \cup Tell("VOTE", p, q, frame[p])
    /\ UNCHANGED <<vars, presence, screenVars, disconnectFrames, framesReceived,
                   timedOut, removedOn>>

(* updateDisconnectStatus, notifyOthersOfCurrentFrame: the screen has been  *)
(* on for a while.  The local manager processes the message like a peer's:  *)
(* those already known to be behind are sent what they miss.                *)
NotifyOthersOfCurrentFrame(p) ==
    LET behind == {q \in PeersInGame(p) \cap framesReceived[p] :
                      disconnectFrames[p][q] < frame[p]}
    IN  /\ OnScreen(p)
        /\ ~notified[p]
        /\ notified' = [notified EXCEPT ![p] = TRUE]
        /\ notices' = notices \cup Tell("FRAME", p, p, frame[p])
        /\ IF disconnectFrames[p][p] >= frame[p]
             THEN UNCHANGED <<reports, net>>
             ELSE /\ playerVotes' = [playerVotes EXCEPT ![p] =
                                       WithoutVotesOf(@, p, frame[p] - 1)]
                  /\ disconnectFrames' = [disconnectFrames EXCEPT ![p][p] = frame[p]]
                  /\ framesReceived' = [framesReceived EXCEPT ![p] = @ \cup {p}]
                  /\ net' = net \cup UNION {FrameDataFor(p, q, disconnectFrames[p][q]) :
                                              q \in behind}
        /\ UNCHANGED <<frame, clock, frameData, inGame, issued, created, executed,
                       presence, screen, timedOut, removedOn>>

(* disconnectPlayer of both managers: connection, frames and place in the   *)
(* fallback plan of the player are deleted.                                 *)
DisconnectPlayer(p, q) ==
    /\ inGame' = [inGame EXCEPT ![p] = @ \ {q}]
    /\ removedOn' = [removedOn EXCEPT ![p][q] = frame[p]]

RouterWithout(p, q) == CHOOSE r \in inGame[p] \ {q} : \A s \in inGame[p] \ {q} : r <= s

(* If it was the packet router, pending commands go to the next one. *)
ResendIfRouter(p, q) ==
    IF Router(p) = q THEN ResendPending(p, q, RouterWithout(p, q), Peers(p) \ {q}) ELSE {}

(* updateDisconnectStatus: remove a player that is lost, tell the others to *)
(* and have the game destroy what it owned.                                 *)
RemovePlayer(p, q) ==
    LET exec == ExecutionFrame(p)
        cmd == Cmd("DESTROYPLAYER", p, exec + 1, issued[p] + 1, q)
    IN  /\ OnScreen(p)
        /\ notified[p]
        /\ q \in Peers(p)
        /\ ~IsPlayerInGame(p, q)
        /\ AllOnSameFrame(p)
        /\ IsLocalPlayerNextPacketRouter(p)
        /\ notices' = notices \cup Tell("PLAYER", p, q, GetMaxDisconnectFrame(p))
        /\ DisconnectPlayer(p, q)
        /\ issued' = [issued EXCEPT ![p] = @ + 1]
        /\ created' = created \cup {cmd}
        /\ lastExecutionFrame' = [lastExecutionFrame EXCEPT ![p] = exec]
        /\ frameData' = [frameData EXCEPT ![p][q] = EmptyRing(FALSE),
                                          ![p][p] = AddNetCommandMsg(TRUE, @, cmd)]
        /\ net' = net \cup ResendIfRouter(p, q)
                      \cup SendVia(p, RouterWithout(p, q), Player, Peers(p) \ {q}, cmd)
        /\ UNCHANGED <<frame, runAhead, lastFrameCompleted, lastFrame, localStatus,
                       executed, presence, screenVars, reports, timedOut>>

-----------------------------------------------------------------------------
(* processNetCommand: from a player that is no longer in the game, ignored. *)
Arrives(p, m) == m.dst = p /\ m.src \in Peers(p)

ProcessDisconnectPlayer(p, m) ==
    /\ Arrives(p, m) /\ m.type = "PLAYER"
    /\ m.slot \in Peers(p)
    /\ DisconnectPlayer(p, m.slot)
    /\ frameData' = [frameData EXCEPT ![p][m.slot] = EmptyRing(FALSE)]
    /\ net' = net \cup ResendIfRouter(p, m.slot)
    /\ UNCHANGED <<frame, clock, issued, created, executed, presence, screenVars,
                   reports, timedOut, notices>>

ProcessDisconnectVote(p, m) ==
    /\ Arrives(p, m) /\ m.type = "VOTE"
    /\ IsPlayerInGame(p, m.src)
    /\ playerVotes' = [playerVotes EXCEPT ![p] =
                         {v \in @ : v.slot # m.slot \/ v.voter # m.src}
                           \cup {[slot |-> m.slot, voter |-> m.src, frame |-> m.frame]}]
    /\ UNCHANGED <<vars, presence, screenVars, disconnectFrames, framesReceived,
                   timedOut, removedOn, notices>>

(* Plausible bug: a player that is behind is not sent anything. *)
ProcessDisconnectFrameOnly(p, m) ==
    /\ Arrives(p, m) /\ m.type = "FRAME"
    /\ disconnectFrames[p][m.src] < m.frame
    /\ playerVotes' = [playerVotes EXCEPT ![p] = WithoutVotesOf(@, m.src, m.frame - 1)]
    /\ disconnectFrames' = [disconnectFrames EXCEPT ![p][m.src] = m.frame]
    /\ framesReceived' = [framesReceived EXCEPT ![p] = @ \cup {m.src}]
    /\ UNCHANGED <<vars, presence, screenVars, timedOut, removedOn, notices>>

(* A peer reports the frame it is stuck on; it is behind: send the frames. *)
ProcessDisconnectFrame(p, m) ==
    /\ Arrives(p, m) /\ m.type = "FRAME"
    /\ disconnectFrames[p][m.src] < m.frame
    /\ playerVotes' = [playerVotes EXCEPT ![p] = WithoutVotesOf(@, m.src, m.frame - 1)]
    /\ disconnectFrames' = [disconnectFrames EXCEPT ![p][m.src] = m.frame]
    /\ framesReceived' = [framesReceived EXCEPT ![p] = @ \cup {m.src}]
    /\ net' = IF m.frame < disconnectFrames[p][p]
                THEN net \cup FrameDataFor(p, m.src, m.frame) ELSE net
    /\ UNCHANGED <<frame, clock, frameData, inGame, issued, created, executed,
                   presence, screenVars, timedOut, removedOn, notices>>

(* A peer goes on: what it reported for that frame or before is void. *)
ProcessDisconnectScreenOff(p, m) ==
    /\ Arrives(p, m) /\ m.type = "SCREENOFF"
    /\ m.frame >= disconnectFrames[p][m.src]
    /\ framesReceived' = [framesReceived EXCEPT ![p] = @ \ {m.src}]
    /\ disconnectFrames' = [disconnectFrames EXCEPT ![p][m.src] = m.frame]
    /\ playerVotes' = [playerVotes EXCEPT ![p] = WithoutVotesOf(@, m.src, m.frame)]
    /\ UNCHANGED <<vars, presence, screenVars, timedOut, removedOn, notices>>

(* allCommandsReady: the screen goes off and the others are told; votes of  *)
(* the local player are void.                                               *)
TurnOffScreen(p) ==
    /\ screen[p]
    /\ frame[p] < MaxFrame
    /\ lastFrame[p] = frame[p]
    /\ AllCommandsReady(p)
    /\ screen' = [screen EXCEPT ![p] = FALSE]
    /\ notices' = notices \cup Tell("SCREENOFF", p, p, frame[p])
    /\ framesReceived' = [framesReceived EXCEPT ![p] = @ \ {p}]
    /\ disconnectFrames' = [disconnectFrames EXCEPT ![p][p] = frame[p]]
    /\ playerVotes' = [playerVotes EXCEPT ![p] = {v \in @ : v.voter # p}]
    /\ UNCHANGED <<vars, presence, notified, timedOut, removedOn>>

(* When it is time for it, the frame is executed, and the timeouts of the   *)
(* next one start anew (nextFrame).                                         *)
AdvanceFrame(p) ==
    /\ ~screen[p]
    /\ ExecuteFrame(p)
    /\ timedOut' = [timedOut EXCEPT ![p] = {}]
    /\ UNCHANGED <<presence, screenVars, reports, removedOn, notices>>

-----------------------------------------------------------------------------
(* doRelay, for a command of a player that is still in the game. *)
ReceiveHop(p, h) ==
    /\ h.cmd.player \in inGame[p]
    /\ Receive(p, h)
    /\ UNCHANGED managerVars

ManagerStep(p) ==
    \/ TurnOnScreen(p)
    \/ NotifyOthersOfCurrentFrame(p)
    \/ TurnOffScreen(p)
    \/ AdvanceFrame(p)
    \/ \E q \in Player : \/ TimeOut(p, q)
                         \/ VoteForPlayerDisconnect(p, q)
                         \/ RemovePlayer(p, q)
    \/ \E m \in notices : \/ ProcessDisconnectPlayer(p, m)
                          \/ ProcessDisconnectVote(p, m)
                          \/ ProcessDisconnectFrame(p, m)
                          \/ ProcessDisconnectScreenOff(p, m)

(* The processing of a game frame.  The commands of the players and of the  *)
(* router's run-ahead are those of DInit: nothing more is issued than the   *)
(* command that goes with a removal, and nobody leaves.                     *)
Tick(p) == Up(p) /\ ProcessFrameTick(p) /\ UNCHANGED managerVars

Ticked == \A p \in Player : Up(p) => lastFrame[p] = frame[p]

DNext ==
    \E p \in Player :
        \/ Tick(p)
        \/ Ticked /\ (Crash(p) \/ Silence(p))
        \/ Ticked /\ Up(p) /\ ((\E h \in net : ReceiveHop(p, h)) \/ ManagerStep(p))

DSpec == DInit /\ [][DNext]_allVars

-----------------------------------------------------------------------------
Survivors == {p \in Player : Up(p)}

Kind == {"FRAME", "SCREENOFF", "PLAYER", "VOTE"}

Vote == [slot : Player, voter : Player, frame : Nat]

Notices == [type : Kind, src : Player, dst : Player, slot : Player, frame : Nat]

(* Every variable has its type. *)
DTypeOK ==
    /\ TypeOK
    /\ presence \in [Player -> {"up", "crashed", "silent"}]
    /\ screen \in [Player -> BOOLEAN]
    /\ notified \in [Player -> BOOLEAN]
    /\ disconnectFrames \in [Player -> [Player -> Nat]]
    /\ framesReceived \in [Player -> SUBSET Player]
    /\ playerVotes \in [Player -> SUBSET Vote]
    /\ timedOut \in [Player -> SUBSET Player]
    /\ removedOn \in [Player -> [Player -> Nat]]
    /\ notices \in SUBSET Notices

(* Nobody is left behind: when a player is removed, all that are left have  *)
(* come to the frame it is removed on, so nobody still needs a frame that   *)
(* the one who removes it could not send any more.                          *)
NobodyLeftBehind ==
    \A m \in {n \in notices : n.type = "PLAYER"} :
        \A r \in Survivors : frame[r] >= removedOn[m.src][m.slot]

(* Only one player takes it upon itself to remove a lost one. *)
OneRemover ==
    \A m, n \in notices :
        (m.type = "PLAYER" /\ n.type = "PLAYER" /\ m.slot = n.slot) => m.src = n.src

(* What two players that are left executed on a frame differs, if at all,   *)
(* by commands of the lost player alone, and only where the one that lacks  *)
(* them had already removed it on that frame or before.                     *)
DifferOnlyByTheLost ==
    \A p, q \in Survivors :
        \A f \in 1 .. frame[p] - 1 : f < frame[q] =>
            \A c \in executed[p][f] \ executed[q][f] :
                removedOn[q][c.player] \in 1 .. f

(* A player is removed on the same frame by all: disconnectPlayer "on the   *)
(* wrong frame" is what processDisconnectPlayer asserts never to happen.    *)
RemovedOnSameFrame ==
    \A p, q \in Survivors : \A r \in Player :
        (removedOn[p][r] # 0 /\ removedOn[q][r] # 0) => removedOn[p][r] = removedOn[q][r]

-----------------------------------------------------------------------------
(* Handlers run when they can, what a player that is up sends arrives in    *)
(* the end (it is resent until acknowledged), and a crashed player falls    *)
(* silent.  Each of these steps can be taken a bounded number of times, so  *)
(* it is enough that one of them is taken when some can be.  A repeated     *)
(* vote can undo what a screen-off message did: that one is fair by itself. *)
(* No user has to vote.                                                     *)
Handled(p) ==
    \/ Silence(p)
    \/ Tick(p)
    \/ /\ Up(p)
       /\ \/ TurnOnScreen(p)
          \/ NotifyOthersOfCurrentFrame(p)
          \/ TurnOffScreen(p)
          \/ AdvanceFrame(p)
          \/ \E q \in Player : TimeOut(p, q) \/ RemovePlayer(p, q)
          \/ \E h \in net : Up(h.src) /\ ReceiveHop(p, h)
          \/ \E m \in notices : /\ Up(m.src)
                                /\ \/ ProcessDisconnectPlayer(p, m)
                                   \/ ProcessDisconnectFrame(p, m)

ScreenOffHandled(p) ==
    Up(p) /\ \E m \in notices : Up(m.src) /\ ProcessDisconnectScreenOff(p, m)

DFairness ==
    /\ WF_allVars(\E p \in Player : Handled(p))
    /\ WF_allVars(\E p \in Player : ScreenOffHandled(p))

DFairSpec == DSpec /\ DFairness

(* One player crashing does not stop the game: whoever is left goes on to   *)
(* the end of it, whichever packets of the lost player came through.        *)
SurvivorsContinue == <>(\A p \in Player : frame[p] = MaxFrame \/ ~Up(p))

=============================================================================
