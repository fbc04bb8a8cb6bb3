------------------------------ MODULE Lockstep ------------------------------
(***************************************************************************)
(* The lockstep protocol of a network game: every player executes the same *)
(* commands on the same logic frame.  A command is issued for a frame      *)
(* "run ahead" frames in the future; the number of commands of a frame is  *)
(* announced once nothing can be added to it any more; a player executes a *)
(* frame when it holds the announced number of commands of every player.   *)
(* Commands of a client travel through the packet router, which relays     *)
(* them.  The router measures the game and changes the run-ahead with a    *)
(* command of its own; a player leaves with a command too.                 *)
(*                                                                         *)
(* Network.cpp (frame clock, execution), ConnectionManager.cpp (sending,   *)
(* relaying, receiving), FrameDataManager.cpp (buffers).                   *)
(*                                                                         *)
(* net is the set of every transmission ever made: one stays receivable,   *)
(* so it may be delayed for ever, repeated (Connection resends until it is *)
(* acknowledged and nothing removes duplicates on arrival) and reordered.  *)
(***************************************************************************)
EXTENDS FrameData

CONSTANTS
    N,                 \* number of players; the slots are 0 .. N-1
    MinRunAhead,       \* MIN_RUNAHEAD
    MaxRunAhead,       \* MAX_FRAMES_AHEAD / 2
    InitialRunAhead,   \* m_runAhead of Network::init
    FramesToKeep,      \* FRAMES_TO_KEEP
    Leavers,           \* the players whose user may leave the game
    MaxFrame,          \* bound: no frame from this one on is executed
    MaxCommands        \* bound: commands (GAME, RUNAHEAD) each player issues

ASSUME PlayersAssumption == N \in Nat \ {0} /\ Leavers \subseteq 0 .. N - 1

ASSUME RunAheadAssumption ==
    /\ MinRunAhead \in Nat \ {0}
    /\ MaxRunAhead \in Nat
    /\ InitialRunAhead \in MinRunAhead .. MaxRunAhead

ASSUME BoundsAssumption ==
    FramesToKeep \in Nat /\ MaxFrame \in Nat /\ MaxCommands \in [0 .. N - 1 -> Nat]

(* What the ring must hold at once: the frames kept for a peer that has to  *)
(* catch up, and everything a peer can have announced.  258 >= 65+2*64+3.   *)
ASSUME RingAssumption == FrameDataLength >= FramesToKeep + 2 * MaxRunAhead + 3

(* A command comes at most three run-aheads early: when players leave, its  *)
(* sender may be one ahead of the router, and the router one ahead of the   *)
(* receiver.  It must not reach round the ring to a frame that is not       *)
(* executed yet.  258 >= 3*64+4.                                            *)
ASSUME ReachAssumption == FrameDataLength >= 3 * MaxRunAhead + 4

VARIABLES
    frame,              \* TheGameLogic->getFrame()
    runAhead,           \* m_runAhead
    lastExecutionFrame, \* m_lastExecutionFrame
    lastFrameCompleted, \* m_lastFrameCompleted: last frame announced
    lastFrame,          \* m_lastFrame: last frame processCommand has seen
    localStatus,        \* m_localStatus
    frameData,          \* m_frameData[q] of player p, as frameData[p][q]
    inGame,             \* players p has not seen leave (fallback plan, connections)
    issued,             \* number of command IDs p has generated
    created,            \* every command created, by anyone (history)
    net,                \* every transmission made
    executed            \* commands p has executed on each frame (history)

vars == <<frame, runAhead, lastExecutionFrame, lastFrameCompleted, lastFrame,
          localStatus, frameData, inGame, issued, created, net, executed>>

clock == <<runAhead, lastExecutionFrame, lastFrameCompleted, lastFrame, localStatus>>

-----------------------------------------------------------------------------
Player == 0 .. N - 1

Statuses == {"PREGAME", "INGAME", "LEAVING", "LEFT"}

(* The packet router is the first player of the fallback plan that is left. *)
Router(p) == CHOOSE q \in inGame[p] : \A r \in inGame[p] : q <= r

(* Connections that are open and not quitting. *)
Peers(p) == inGame[p] \ {p}

Cmd(type, p, f, id, arg) ==
    [type |-> type, player |-> p, frame |-> f, id |-> id, arg |-> arg]

(* One transmission: who sends it, to whom, and for which players. *)
Hop(src, dst, relay, cmd) == [src |-> src, dst |-> dst, relay |-> relay, cmd |-> cmd]

Direct(p, relay, peers, cmd) == {Hop(p, i, {i}, cmd) : i \in relay \cap peers}

(* sendLocalCommand: the router sends to each player itself, a client sends *)
(* one copy to the router and names the players it is for.                  *)
SendVia(p, router, relay, peers, cmd) ==
    IF router = p
      THEN Direct(p, relay, peers, cmd)
      ELSE {Hop(p, router, relay \ {p}, cmd)}

SendLocal(p, relay, cmd) == SendVia(p, Router(p), relay, Peers(p), cmd)

-----------------------------------------------------------------------------
(* Plausible bug: the frame a command executes on is not kept monotone.     *)
ExecutionFrameNow(p) == frame[p] + runAhead[p]

(* getExecutionFrame: never goes back when the run-ahead shrinks. *)
ExecutionFrame(p) ==
    IF frame[p] + runAhead[p] > lastExecutionFrame[p]
      THEN frame[p] + runAhead[p]
      ELSE lastExecutionFrame[p]

FrameInfo(p, f, ring) ==
    Cmd("FRAMEINFO", p, f, 0, ring[SlotOf(f)].commandCount)

(* processFrameTick for each frame of frames. *)
Announce(p, frames, ring) ==
    UNION {SendLocal(p, Player \ {p}, FrameInfo(p, f, ring)) : f \in frames}

Init ==
    /\ frame = [p \in Player |-> 0]
    /\ runAhead = [p \in Player |-> InitialRunAhead]
    /\ lastExecutionFrame = [p \in Player |-> InitialRunAhead - 1]
    /\ lastFrameCompleted = [p \in Player |-> InitialRunAhead - 1]
    /\ lastFrame = [p \in Player |-> 0]
    /\ localStatus = [p \in Player |-> "PREGAME"]
    /\ frameData = [p \in Player |-> [q \in Player |->
                       ZeroFrames(EmptyRing(p = q), 1, InitialRunAhead - 1)]]
    /\ inGame = [p \in Player |-> Player]
    /\ issued = [p \in Player |-> 0]
    /\ created = {}
    /\ net = {}
    /\ executed = [p \in Player |-> <<>>]

-----------------------------------------------------------------------------
(* Plausible bug: the execution frame itself is announced as well. *)
ProcessFrameTickInclusive(p) ==
    LET exec == ExecutionFrame(p)
        playing == localStatus[p] = "INGAME" \/ localStatus[p] = "PREGAME"
    IN  /\ lastFrame[p] # frame[p]
        /\ localStatus[p] # "LEFT"
        /\ lastFrame' = [lastFrame EXCEPT ![p] = frame[p]]
        /\ localStatus' = [localStatus EXCEPT ![p] = IF playing THEN "INGAME" ELSE @]
        /\ IF playing
             THEN /\ lastExecutionFrame' = [lastExecutionFrame EXCEPT ![p] = exec]
                  /\ net' = net \cup Announce(p, lastFrameCompleted[p] + 1 .. exec,
                                              frameData[p][p])
                  /\ lastFrameCompleted' = [lastFrameCompleted EXCEPT ![p] = exec]
             ELSE UNCHANGED <<lastExecutionFrame, net, lastFrameCompleted>>
        /\ UNCHANGED <<frame, runAhead, frameData, inGame, issued, created, executed>>

(* The first message of an update on a new logic frame (processCommand):    *)
(* announce every frame no command can be issued for any more.              *)
ProcessFrameTick(p) ==
    LET exec == ExecutionFrame(p)
        playing == localStatus[p] = "INGAME" \/ localStatus[p] = "PREGAME"
    IN  /\ lastFrame[p] # frame[p]
        /\ localStatus[p] # "LEFT"
        /\ lastFrame' = [lastFrame EXCEPT ![p] = frame[p]]
        /\ localStatus' = [localStatus EXCEPT ![p] = IF playing THEN "INGAME" ELSE @]
        /\ IF playing
             THEN /\ lastExecutionFrame' = [lastExecutionFrame EXCEPT ![p] = exec]
                  /\ net' = net \cup Announce(p, lastFrameCompleted[p] + 1 .. exec - 1,
                                              frameData[p][p])
                  /\ lastFrameCompleted' = [lastFrameCompleted EXCEPT ![p] =
                                              IF exec - 1 > @ THEN exec - 1 ELSE @]
             ELSE UNCHANGED <<lastExecutionFrame, net, lastFrameCompleted>>
        /\ UNCHANGED <<frame, runAhead, frameData, inGame, issued, created, executed>>

(* A command created locally: stored in the own ring, sent to the others.   *)
IssueLocal(p, type, exec, f, arg) ==
    LET cmd == Cmd(type, p, f, issued[p] + 1, arg)
    IN  /\ issued' = [issued EXCEPT ![p] = @ + 1]
        /\ lastExecutionFrame' = [lastExecutionFrame EXCEPT ![p] = exec]
        /\ frameData' = [frameData EXCEPT ![p][p] = AddNetCommandMsg(TRUE, @, cmd)]
        /\ created' = created \cup {cmd}
        /\ net' = net \cup SendLocal(p, Player, cmd)

(* GetCommandsFromCommandList: a command of the user, for the execution frame. *)
IssueGameCommand(p) ==
    /\ localStatus[p] = "INGAME"
    /\ issued[p] < MaxCommands[p]
    /\ IssueLocal(p, "GAME", ExecutionFrame(p), ExecutionFrame(p), 0)
    /\ UNCHANGED <<frame, runAhead, lastFrameCompleted, lastFrame, localStatus,
                   inGame, executed>>

(* Plausible bug, and the one the code had: the new run-ahead takes effect  *)
(* on frame + run-ahead even when that frame has been announced.            *)
UpdateRunAheadTooEarly(p, newRunAhead) ==
    /\ localStatus[p] = "INGAME"
    /\ lastFrame[p] = frame[p]
    /\ Router(p) = p
    /\ issued[p] < MaxCommands[p]
    /\ IssueLocal(p, "RUNAHEAD", ExecutionFrame(p), ExecutionFrameNow(p), newRunAhead)
    /\ UNCHANGED <<frame, runAhead, lastFrameCompleted, lastFrame, localStatus,
                   inGame, executed>>

(* Plausible bug: the router uses the new run-ahead at once. *)
UpdateRunAheadAtOnce(p, newRunAhead) ==
    /\ localStatus[p] = "INGAME"
    /\ lastFrame[p] = frame[p]
    /\ Router(p) = p
    /\ issued[p] < MaxCommands[p]
    /\ IssueLocal(p, "RUNAHEAD", ExecutionFrame(p), ExecutionFrame(p), newRunAhead)
    /\ runAhead' = [runAhead EXCEPT ![p] = newRunAhead]
    /\ UNCHANGED <<frame, lastFrameCompleted, lastFrame, localStatus, inGame, executed>>

(* Plausible bug: the new run-ahead is not clamped to its maximum. *)
UpdateRunAheadUnclamped(p, newRunAhead) ==
    /\ localStatus[p] = "INGAME"
    /\ lastFrame[p] = frame[p]
    /\ Router(p) = p
    /\ issued[p] < MaxCommands[p]
    /\ IssueLocal(p, "RUNAHEAD", ExecutionFrame(p), ExecutionFrame(p), newRunAhead + 1)
    /\ UNCHANGED <<frame, runAhead, lastFrameCompleted, lastFrame, localStatus,
                   inGame, executed>>

(* updateRunAhead: the router sets a new run-ahead.  The two commands it    *)
(* sends (one for the slowest player) share ID, frame and run-ahead and     *)
(* differ in the frame rate only, which is left out.                        *)
UpdateRunAhead(p, newRunAhead) ==
    /\ localStatus[p] = "INGAME"
    /\ lastFrame[p] = frame[p]
    /\ Router(p) = p
    /\ issued[p] < MaxCommands[p]
    /\ IssueLocal(p, "RUNAHEAD", ExecutionFrame(p), ExecutionFrame(p), newRunAhead)
    /\ UNCHANGED <<frame, runAhead, lastFrameCompleted, lastFrame, localStatus,
                   inGame, executed>>

(* MSG_CLEAR_GAME_DATA: the player leaves one frame after its execution     *)
(* frame, and announces both frames, its last ones.                         *)
LeaveGame(p) ==
    LET exec == ExecutionFrame(p)
        cmd == Cmd("LEAVE", p, exec + 1, issued[p] + 1, 0)
        ring == AddNetCommandMsg(TRUE, frameData[p][p], cmd)
    IN  /\ p \in Leavers
        /\ localStatus[p] = "INGAME"
        /\ lastFrame[p] = frame[p]
        /\ issued' = [issued EXCEPT ![p] = @ + 1]
        /\ lastExecutionFrame' = [lastExecutionFrame EXCEPT ![p] = exec]
        /\ frameData' = [frameData EXCEPT ![p][p] = ring]
        /\ created' = created \cup {cmd}
        /\ net' = net \cup SendLocal(p, Player, cmd)
                      \cup Announce(p, {exec, exec + 1}, ring)
        /\ lastFrameCompleted' = [lastFrameCompleted EXCEPT ![p] = exec]
        /\ localStatus' = [localStatus EXCEPT ![p] = "LEAVING"]
        /\ UNCHANGED <<frame, runAhead, lastFrame, inGame, executed>>

-----------------------------------------------------------------------------
(* sendRemoteCommand: whoever receives a command passes it to the players   *)
(* its relay names; nobody checks that it is the router.                    *)
RelayOn(p, h) == Direct(p, h.relay, Peers(p), h.cmd)

(* Plausible bug: the check for out of date commands is missing (as it was). *)
StoreEvenLate(p, h) ==
    /\ frameData' =
         [frameData EXCEPT ![p][h.cmd.player] =
            IF h.cmd.type = "FRAMEINFO" THEN SetCount(@, h.cmd.frame, h.cmd.arg)
            ELSE IF p \in h.relay THEN AddNetCommandMsg(FALSE, @, h.cmd)
            ELSE @]
    /\ net' = net \cup RelayOn(p, h)

(* Plausible bug: a FRAMEINFO is stored and not relayed. *)
StoreInfoNoRelay(p, h) ==
    /\ h.cmd.frame >= frame[p]
    /\ frameData' =
         [frameData EXCEPT ![p][h.cmd.player] =
            IF h.cmd.type = "FRAMEINFO" THEN SetCount(@, h.cmd.frame, h.cmd.arg)
            ELSE IF p \in h.relay THEN AddNetCommandMsg(FALSE, @, h.cmd)
            ELSE @]
    /\ net' = IF h.cmd.type = "FRAMEINFO" THEN net ELSE net \cup RelayOn(p, h)

(* processNetCommand and sendRemoteCommand: an out of date command is       *)
(* neither stored nor relayed.                                              *)
Store(p, h) ==
    /\ h.cmd.frame >= frame[p]
    /\ frameData' =
         [frameData EXCEPT ![p][h.cmd.player] =
            IF h.cmd.type = "FRAMEINFO" THEN SetCount(@, h.cmd.frame, h.cmd.arg)
            ELSE IF p \in h.relay THEN AddNetCommandMsg(FALSE, @, h.cmd)
            ELSE @]
    /\ net' = net \cup RelayOn(p, h)

(* doRelay takes one command off the transport. *)
Receive(p, h) ==
    /\ h.dst = p
    /\ localStatus[p] # "LEFT"
    /\ Store(p, h)
    /\ UNCHANGED <<frame, clock, inGame, issued, created, executed>>

-----------------------------------------------------------------------------
(* Plausible bug: the answer of the last player of the loop stands for all. *)
AllCommandsReadyOfLast(p) ==
    \/ localStatus[p] = "PREGAME"
    \/ \E q \in inGame[p] : /\ \A r \in inGame[p] : r <= q
                            /\ IsReady(frameData[p][q][SlotOf(frame[p])])

(* Network::AllCommandsReady: before the game no commands are needed. *)
AllCommandsReady(p) ==
    \/ localStatus[p] = "PREGAME"
    \/ \A q \in inGame[p] : IsReady(frameData[p][q][SlotOf(frame[p])])

FrameCommands(p) == UNION {frameData[p][q][SlotOf(frame[p])].cmds : q \in Player}

(* Of several run-ahead changes on one frame the last in ID order stays. *)
NewRunAhead(p, cmds) ==
    LET changes == {c \in cmds : c.type = "RUNAHEAD"}
    IN  IF changes = {} THEN runAhead[p]
        ELSE (CHOOSE c \in changes : \A d \in changes : d.id <= c.id).arg

(* resendPendingCommands: the commands that went through the router that    *)
(* left are sent again through the new one.  The code resends those not     *)
(* known to have reached everyone; a resend of others changes nothing.      *)
ResendPending(p, oldRouter, newRouter, peers) ==
    UNION {SendVia(p, newRouter, h.relay, peers, h.cmd) :
             h \in {g \in net : g.src = p /\ g.dst = oldRouter /\ g.cmd.player = p}}

(* Plausible bug: one frame less is kept. *)
ClearOldFrameEarly(p, rings) ==
    IF frame[p] >= FramesToKeep
      THEN [q \in Player |-> ResetFrame(p = q, rings[q], frame[p] - FramesToKeep + 1)]
      ELSE rings

(* getFrameCommandList discards the frame FramesToKeep before this one. *)
ClearOldFrame(p, rings) ==
    IF frame[p] > FramesToKeep
      THEN [q \in Player |-> ResetFrame(p = q, rings[q], frame[p] - FramesToKeep)]
      ELSE rings

(* Frame 0 is run before the game starts, without commands. *)
StartGame(p) ==
    /\ localStatus[p] = "PREGAME"
    /\ frame[p] = 0
    /\ frame' = [frame EXCEPT ![p] = 1]
    /\ UNCHANGED <<clock, frameData, inGame, issued, created, net, executed>>

(* update with all the commands there, RelayCommandsToCommandList,          *)
(* processFrameSynchronizedNetCommand, and the logic frame they belong to.  *)
ExecuteFrame(p) ==
    LET cmds == FrameCommands(p)
        leaving == {c.player : c \in {d \in cmds : d.type = "LEAVE"}}
        left == inGame[p] \ leaving
        newRouter == CHOOSE q \in left : \A r \in left : q <= r
    IN  /\ localStatus[p] \in {"INGAME", "LEAVING"}
        /\ lastFrame[p] = frame[p]
        /\ frame[p] < MaxFrame
        /\ AllCommandsReady(p)
        /\ frame' = [frame EXCEPT ![p] = @ + 1]
        /\ executed' = [executed EXCEPT ![p] = Append(@, cmds)]
        /\ runAhead' = [runAhead EXCEPT ![p] = NewRunAhead(p, cmds)]
        /\ inGame' = [inGame EXCEPT ![p] = left]
        /\ localStatus' = [localStatus EXCEPT ![p] = IF p \in leaving THEN "LEFT" ELSE @]
        /\ frameData' = [frameData EXCEPT ![p] = ClearOldFrame(p, @)]
        /\ net' = IF Router(p) \in leaving /\ p \notin leaving
                    THEN net \cup ResendPending(p, Router(p), newRouter, left \ {p})
                    ELSE net
        /\ UNCHANGED <<lastExecutionFrame, lastFrameCompleted, lastFrame,
                       issued, created>>

-----------------------------------------------------------------------------
PlayerStep(p) ==
    \/ StartGame(p)
    \/ ProcessFrameTick(p)
    \/ IssueGameCommand(p)
    \/ \E ra \in MinRunAhead .. MaxRunAhead : UpdateRunAhead(p, ra)
    \/ LeaveGame(p)
    \/ \E h \in net : Receive(p, h)
    \/ ExecuteFrame(p)

Next == \E p \in Player : PlayerStep(p)

Spec == Init /\ [][Next]_vars

-----------------------------------------------------------------------------
Command ==
    {c \in [type : CommandTypes, player : Player, frame : Nat, id : Nat, arg : Nat] :
        c.type = "RUNAHEAD" => c.arg \in MinRunAhead .. MaxRunAhead}

Hops == [src : Player, dst : Player, relay : SUBSET Player, cmd : Command]

FrameDataType == [cmds : SUBSET Command, commandCount : Nat,
                  frameCommandCount : Nat \cup {Unknown}]

(* Every variable has its type. *)
TypeOK ==
    /\ frame \in [Player -> Nat]
    /\ runAhead \in [Player -> MinRunAhead .. MaxRunAhead]
    /\ lastExecutionFrame \in [Player -> Nat]
    /\ lastFrameCompleted \in [Player -> Nat]
    /\ lastFrame \in [Player -> Nat]
    /\ localStatus \in [Player -> Statuses]
    /\ frameData \in [Player -> [Player -> [SlotIndex -> FrameDataType]]]
    /\ inGame \in [Player -> SUBSET Player]
    /\ issued \in [Player -> Nat]
    /\ created \in SUBSET Command
    /\ net \in SUBSET Hops
    /\ executed \in [Player -> Seq(SUBSET Command)]

Playing(p) == localStatus[p] \in {"INGAME", "LEAVING"}

CommandsOf(p, f) == {c \in created : c.player = p /\ c.frame = f}

(* No desync: two players that executed the same frame executed the same    *)
(* commands on it, those created for it, however late either of them is.    *)
NoDesync ==
    \A p \in Player : \A f \in 1 .. Len(executed[p]) :
        executed[p][f] = {c \in created : c.frame = f}

(* A count that was announced is final: no command is created for a frame   *)
(* after the frame's count has been sent (the run-ahead bug that the        *)
(* comment in updateRunAhead tells of).                                     *)
AnnouncedCountIsFinal ==
    \A h \in net : h.cmd.type = "FRAMEINFO" =>
        h.cmd.arg = Cardinality(CommandsOf(h.cmd.player, h.cmd.frame))

(* The frames p has not executed yet that its rings have room for. *)
Awaited(p) == frame[p] .. frame[p] + FrameDataLength - FramesToKeep - 1

(* Nobody ever holds more commands for a frame it has not executed than     *)
(* were announced for it: the branch of allCommandsReady that throws a      *)
(* frame away and asks for it again is not taken while all play.            *)
NoOverrun ==
    \A p, q \in Player : \A f \in Awaited(p) : ~IsOverrun(frameData[p][q][SlotOf(f)])

(* A slot of the ring holds data of one frame only: nothing of a frame      *)
(* FrameDataLength earlier is left in it, or comes late, when the slot is   *)
(* used again (the bug that the comment in processNetCommand tells of).     *)
RingIsFresh ==
    \A p, q \in Player :
        (q \in inGame[p] /\ p # q /\ Playing(p)) =>
        \A f \in Awaited(p) :
            LET fd == frameData[p][q][SlotOf(f)]
            IN  /\ \A c \in fd.cmds : c \in CommandsOf(q, f)
                /\ fd.frameCommandCount # Unknown =>
                     \/ f < InitialRunAhead
                     \/ \E h \in net : /\ h.cmd.type = "FRAMEINFO"
                                       /\ h.cmd.player = q
                                       /\ h.cmd.frame = f
                                       /\ h.cmd.arg = fd.frameCommandCount

(* Whatever a player that is behind may still need from a peer ahead of it, *)
(* the peer still holds: FramesToKeep covers the largest possible lead.     *)
KeptForLaggards ==
    \A p, q \in Player :
        (q \in inGame[p] /\ Playing(p) /\ Playing(q)) =>
        \A f \in frame[q] .. frame[p] - 1 :
            executed[p][f] = UNION {frameData[p][r][SlotOf(f)].cmds : r \in Player}

(* Players on the same frame have the same run-ahead, await the same        *)
(* players and so have the same packet router.                              *)
SettingsAgree ==
    \A p, q \in Player :
        (frame[p] = frame[q] /\ Playing(p) /\ Playing(q)) =>
            runAhead[p] = runAhead[q] /\ inGame[p] = inGame[q]

-----------------------------------------------------------------------------
(* The protocol implements the replicated log: a command is created before  *)
(* anybody executes its frame, and everybody who executes the frame         *)
(* executes it, at that frame and nowhere else.                             *)
Log == INSTANCE Replicated
Replication == Log!Spec

(* Connections resend what is not acknowledged.  A player that has left     *)
(* only flushes commands of its own: clearCommandsExceptFrom throws away    *)
(* what it still had to relay.                                              *)
InQueue(h) == localStatus[h.src] # "LEFT" \/ h.cmd.player = h.src

Deliver(p) == \E h \in net : InQueue(h) /\ Receive(p, h)

(* The main loop runs: frames are ticked and executed when they can be, and *)
(* a transmission that is resent for long enough arrives.                   *)
Fairness ==
    \A p \in Player :
        /\ WF_vars(StartGame(p))
        /\ WF_vars(ProcessFrameTick(p))
        /\ WF_vars(ExecuteFrame(p))
        /\ WF_vars(Deliver(p))

FairSpec == Spec /\ Fairness

(* The game goes on: whatever the order in which commands arrive, whoever   *)
(* changes the run-ahead or leaves, nobody waits for ever for a frame.      *)
Progress == \A p \in Player : <>(frame[p] = MaxFrame \/ localStatus[p] = "LEFT")

=============================================================================
