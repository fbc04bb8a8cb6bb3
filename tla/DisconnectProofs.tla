-------------------------- MODULE DisconnectProofs --------------------------
(***************************************************************************)
(* A game that loses a player, for every number of players, run-ahead,     *)
(* buffer length and first frame, whoever crashes and whatever arrives of  *)
(* what it sent: every variable keeps its type, one player at most removes *)
(* the lost one, everybody has come to the frame on which it does, what    *)
(* the players that are left execute differs by commands of the lost one   *)
(* only, and no frame ever holds more commands than were announced for it. *)
(*                                                                         *)
(* The argument: only a player that fell silent is ever accused or         *)
(* removed, so whoever is up awaits everybody who is up, and the lead of   *)
(* one over another stays bounded as without crashes.  Forwarding a frame  *)
(* repeats what was announced, because the frames that are forwarded were  *)
(* executed.  Who removes the lost player has heard from everybody else    *)
(* that is up, and is before all of them in the fallback plan.             *)
(***************************************************************************)
EXTENDS Disconnect, DesyncProofs

-----------------------------------------------------------------------------
(* The game: nobody leaves it of their own accord, and the model starts on  *)
(* FirstFrame.                                                              *)
PlayOK(p) ==
    /\ localStatus[p] = "INGAME"
    /\ p \in inGame[p]
    /\ frame[p] >= FirstFrame
    /\ frame[p] = FirstFrame \/ frame[p] <= MaxFrame

NobodyLeaves == \A c \in created : c.type \in {"GAME", "DESTROYPLAYER"}

(* Nobody is ahead of what is announced by those it awaits. *)
LeadOK(p) == \A q \in inGame[p] : frame[p] <= lastFrameCompleted[q] + 1

(* A slot holds commands of one frame, and the count of that frame if any. *)
Exact(fd, q, f) ==
    /\ fd.cmds \subseteq CommandsOf(q, f)
    /\ fd.commandCount = Cardinality(fd.cmds)
    /\ fd.frameCommandCount # Unknown =>
          /\ fd.frameCommandCount = Cardinality(CommandsOf(q, f))
          /\ f <= lastFrameCompleted[q]

RingsExact(p) ==
    \A q \in Player \ {p} : \A f \in Window(p) : Exact(frameData[p][q][SlotOf(f)], q, f)

(* The count of a frame that is kept after it was executed is known: that   *)
(* is what sendFrameDataToPlayer sends on.                                  *)
CountsKnown(p) ==
    \A q \in inGame[p] : \A f \in FirstFrame .. frame[p] - 1 :
        f >= OldestKept(p) => frameData[p][q][SlotOf(f)].frameCommandCount # Unknown

(* A frame is executed with all commands of every player that has not been  *)
(* removed, and with nothing else.                                          *)
ExecutedOK(p) ==
    /\ Len(executed[p]) = frame[p] - 1
    /\ \A f \in 1 .. frame[p] - 1 :
          /\ \A c \in executed[p][f] : c \in created /\ c.frame = f
          /\ \A q \in Player :
                removedOn[p][q] \in 1 .. f \/ CommandsOf(q, f) \subseteq executed[p][f]

GameOK ==
    /\ AnnounceInv
    /\ NobodyLeaves
    /\ \A p \in Player : PlayOK(p)
    /\ \A p \in Player : LeadOK(p)
    /\ \A p \in Player : RingsExact(p)
    /\ \A p \in Player : OwnCountOK(p)
    /\ \A p \in Player : CountsKnown(p)
    /\ \A p \in Player : ExecutedOK(p)

(* The disconnect managers: one player at most is lost, and only one that   *)
(* fell silent is accused, timed out or removed.                            *)
ManagerTypes ==
    /\ presence \in [Player -> {"up", "crashed", "silent"}]
    /\ screen \in [Player -> BOOLEAN]
    /\ notified \in [Player -> BOOLEAN]
    /\ disconnectFrames \in [Player -> [Player -> Nat]]
    /\ framesReceived \in [Player -> SUBSET Player]
    /\ playerVotes \in [Player -> SUBSET Vote]
    /\ timedOut \in [Player -> SUBSET Player]
    /\ removedOn \in [Player -> [Player -> Nat]]
    /\ notices \in SUBSET Notices

Silent(q) == presence[q] = "silent"

OneLost == \A p, q \in Player : Up(p) \/ Up(q) \/ p = q

AccusedOK ==
    /\ \A p \in Player : \A q \in timedOut[p] : Silent(q)
    /\ \A p \in Player : \A v \in playerVotes[p] : Silent(v.slot)
    /\ \A m \in notices : m.type \in {"VOTE", "PLAYER"} => Silent(m.slot)

RemovedOK(p) ==
    \A q \in Player : /\ removedOn[p][q] <= frame[p]
                      /\ q \in inGame[p] => removedOn[p][q] = 0
                      /\ q \notin inGame[p] => removedOn[p][q] # 0 /\ Silent(q)

(* What is reported of a player's frame is never ahead of it. *)
ReportsOK(p) ==
    /\ \A q \in Player :
          /\ disconnectFrames[p][q] <= frame[q]
          /\ q \in framesReceived[p] => disconnectFrames[p][q] >= FirstFrame
    /\ screen[p] /\ notified[p] => disconnectFrames[p][p] = frame[p]

(* Whoever tells of a removal is the first of those that are up, and all    *)
(* of them have come to the frame of the removal.                           *)
NoticeOK(m) ==
    /\ m.type = "FRAME" => m.frame >= FirstFrame /\ m.frame <= frame[m.src]
    /\ m.type = "SCREENOFF" => m.frame <= frame[m.src]
    /\ m.type = "PLAYER" =>
          /\ m.slot # m.src
          /\ m.slot \notin inGame[m.src]
          /\ \A r \in Player \ {m.src, m.slot} : m.src < r
          /\ \A r \in Player : Up(r) => removedOn[m.src][m.slot] <= frame[r]

ManagerOK ==
    /\ ManagerTypes
    /\ OneLost
    /\ AccusedOK
    /\ \A p \in Player : RemovedOK(p)
    /\ \A p \in Player : ReportsOK(p)
    /\ \A m \in notices : NoticeOK(m)

DInv == GameOK /\ ManagerOK

-----------------------------------------------------------------------------
(* What the invariant says of one player, and of two. *)

LEMMA DConstants ==
    /\ FirstFrame \in Nat \ {0} /\ MaxFrame \in Nat /\ FrameModulus \in Nat
    /\ FrameModulus > 2 * MaxFrame + FramesToKeep
    /\ MaxCommands \in [Player -> Nat]
BY DisconnectAssumption, BoundsAssumption DEF Player

LEMMA GameFacts ==
    ASSUME GameOK, NEW p \in Player
    PROVE  /\ AnnounceInv /\ TypeInv
           /\ frame[p] \in Nat /\ frame[p] >= FirstFrame /\ frame[p] >= 1
           /\ lastFrameCompleted[p] \in Nat /\ lastExecutionFrame[p] \in Nat
           /\ frame[p] <= lastFrameCompleted[p] + 1
           /\ lastFrameCompleted[p] < lastExecutionFrame[p]
           /\ lastExecutionFrame[p] <= frame[p] + MaxRunAhead
           /\ localStatus[p] = "INGAME" /\ ~Leaving(p)
           /\ LastAnnounced(p) = lastFrameCompleted[p]
           /\ LastCreated(p) = lastExecutionFrame[p] + 1
           /\ p \in inGame[p] /\ inGame[p] \in SUBSET Player
<1>1. AnnounceInv /\ TypeInv
  BY DEF GameOK, AnnounceInv
<1>2. PlayOK(p) /\ ClockOK(p)
  BY <1>1 DEF GameOK, AnnounceInv
<1>3. /\ frame[p] \in Nat /\ lastFrameCompleted[p] \in Nat /\ lastExecutionFrame[p] \in Nat
      /\ inGame[p] \in SUBSET Player
  BY <1>1 DEF TypeInv, TypeOK
<1>4. localStatus[p] = "INGAME" /\ ~Leaving(p)
  BY <1>2 DEF PlayOK, Leaving
<1>5. /\ frame[p] <= lastFrameCompleted[p] + 1
      /\ lastFrameCompleted[p] < lastExecutionFrame[p]
      /\ lastExecutionFrame[p] <= frame[p] + MaxRunAhead
  BY <1>2, <1>4 DEF ClockOK
<1>6. frame[p] >= FirstFrame /\ frame[p] >= 1 /\ p \in inGame[p]
  BY <1>2, <1>3, DConstants DEF PlayOK
<1>7. LastAnnounced(p) = lastFrameCompleted[p] /\ LastCreated(p) = lastExecutionFrame[p] + 1
  BY <1>4 DEF LastAnnounced, LastCreated
<1> QED
  BY <1>1, <1>3, <1>4, <1>5, <1>6, <1>7

(* A player that is up is awaited by everybody, who is thus not far ahead. *)
LEMMA UpIsAwaited ==
    ASSUME DInv, NEW p \in Player, Up(p), NEW q \in Player
    PROVE  p \in inGame[q] /\ frame[q] <= lastFrameCompleted[p] + 1
<1>1. p \in inGame[q]
  BY DEF DInv, ManagerOK, RemovedOK, Silent, Up
<1> QED
  BY <1>1 DEF DInv, GameOK, LeadOK

(* Nothing comes earlier than the window reaches. *)
LEMMA ArrivesInWindow ==
    ASSUME DInv, NEW p \in Player, Up(p), NEW h \in net, h.cmd.frame >= frame[p]
    PROVE  h.cmd.frame \in Window(p)
<1> DEFINE q == h.cmd.player
           f == h.cmd.frame
<1>1. GameOK
  BY DEF DInv
<1>2. /\ frame[p] \in Nat /\ frame[p] >= 1
      /\ lastFrameCompleted[p] \in Nat /\ lastExecutionFrame[p] \in Nat
      /\ lastFrameCompleted[p] < lastExecutionFrame[p]
      /\ lastExecutionFrame[p] <= frame[p] + MaxRunAhead
  BY <1>1, GameFacts
<1>3. q \in Player /\ f \in Nat
  BY <1>1 DEF GameOK, AnnounceInv, TypeInv, TypeOK, Hops, Command
<1>4. /\ frame[q] \in Nat
      /\ lastFrameCompleted[q] \in Nat /\ lastExecutionFrame[q] \in Nat
      /\ lastFrameCompleted[q] < lastExecutionFrame[q]
      /\ lastExecutionFrame[q] <= frame[q] + MaxRunAhead
      /\ LastAnnounced(q) = lastFrameCompleted[q]
      /\ LastCreated(q) = lastExecutionFrame[q] + 1
  BY <1>1, <1>3, GameFacts
<1>5. frame[q] <= lastFrameCompleted[p] + 1
  BY <1>3, UpIsAwaited
<1>6. f <= lastExecutionFrame[q] + 1
  <2>1. CASE h.cmd.type = "FRAMEINFO"
    <3>1. f <= LastAnnounced(q)
      BY <1>1, <2>1 DEF GameOK, AnnounceInv, AnnouncedOK
    <3> QED
      BY <1>3, <1>4, <3>1
  <2>2. CASE h.cmd.type # "FRAMEINFO"
    <3>1. h.cmd \in created
      BY <1>1, <2>2 DEF GameOK, AnnounceInv, TypeInv, Sent
    <3> QED
      BY <1>1, <1>4, <3>1 DEF GameOK, AnnounceInv, CreatedOK
  <2> QED
    BY <2>1, <2>2
<1>7. f <= frame[p] + 2 * MaxRunAhead + 2
  BY <1>2, <1>3, <1>4, <1>5, <1>6, ConstantFacts
<1> QED
  BY <1>2, <1>3, <1>7, ConstantFacts DEF Window, OldestKept

-----------------------------------------------------------------------------
(* The first states: a game in step that has come to FirstFrame. *)

LEMMA FirstFacts ==
    /\ FirstExecutionFrame \in Nat /\ FirstKept \in Nat \ {0}
    /\ FirstExecutionFrame = FirstFrame + InitialRunAhead - 1
    /\ FirstExecutionFrame >= FirstFrame /\ FirstKept <= FirstFrame
    /\ FirstExecutionFrame <= FirstKept + FrameDataLength - 1
    /\ FirstIssuers \subseteq Player
    /\ \A p \in Player : /\ FirstCommand(p) \in Command
                         /\ FirstCommand(p).player = p
                         /\ FirstCommand(p).frame = FirstExecutionFrame
                         /\ FirstCommand(p).id = 1
                         /\ FirstCommand(p).type = "GAME"
<1>1. /\ FirstExecutionFrame \in Nat /\ FirstKept \in Nat \ {0}
      /\ FirstExecutionFrame = FirstFrame + InitialRunAhead - 1
      /\ FirstExecutionFrame >= FirstFrame /\ FirstKept <= FirstFrame
      /\ FirstExecutionFrame <= FirstKept + FrameDataLength - 1
  BY ConstantFacts, DConstants DEF FirstExecutionFrame, FirstKept
<1> QED
  BY <1>1 DEF FirstIssuers, FirstCommand, Cmd, Command, CommandTypes

(* The frames before the first execution frame were announced as empty. *)
LEMMA FirstRingFacts ==
    ASSUME NEW isLocal \in BOOLEAN
    PROVE  /\ FirstRing(isLocal) \in Ring
           /\ \A i \in SlotIndex :
                 LET fd == FirstRing(isLocal)[i]
                 IN  /\ fd.cmds = {} /\ fd.commandCount = 0
                     /\ isLocal => fd.frameCommandCount = 0
                     /\ fd.frameCommandCount # Unknown =>
                           /\ fd.frameCommandCount = 0
                           /\ isLocal \/ \E g \in FirstKept .. FirstExecutionFrame - 1 :
                                            SlotOf(g) = i
                     /\ (\E g \in FirstKept .. FirstExecutionFrame - 1 : SlotOf(g) = i) =>
                           fd.frameCommandCount # Unknown
<1>1. EmptyFrame \in FrameDataType
  BY DEF EmptyFrame, FrameDataType, Unknown
<1>2. EmptyRing(isLocal) \in Ring
  <2>1. CountIfLocal(isLocal, EmptyFrame) \in FrameDataType
    BY <1>1 DEF CountIfLocal, SetFrameCommandCount, FrameDataType
  <2> QED
    BY <2>1 DEF EmptyRing, Ring
<1>3. FirstRing(isLocal) \in Ring
  <2> DEFINE ring == EmptyRing(isLocal)
             n == FirstExecutionFrame - FirstKept
  <2>1. \A fd \in FrameDataType : ZeroFrame(fd) \in FrameDataType
    BY DEF ZeroFrame, FrameDataType
  <2>2. \A i \in SlotIndex : ring[i] \in FrameDataType
    BY <1>2 DEF Ring
  <2> HIDE DEF ring
  <2>3. ZeroFrames(ring, FirstKept, n) \in Ring
    BY <2>1, <2>2 DEF ZeroFrames, Ring
  <2> QED
    BY <2>3 DEF FirstRing, ring
<1>4. FirstKept + (FirstExecutionFrame - FirstKept) - 1 = FirstExecutionFrame - 1
  BY FirstFacts
<1>5. \A i \in SlotIndex :
         FirstRing(isLocal)[i] =
            IF \E g \in FirstKept .. FirstExecutionFrame - 1 : SlotOf(g) = i
              THEN ZeroFrame(CountIfLocal(isLocal, EmptyFrame))
              ELSE CountIfLocal(isLocal, EmptyFrame)
  BY <1>4 DEF FirstRing, ZeroFrames, EmptyRing
<1> DEFINE fd == CountIfLocal(isLocal, EmptyFrame)
<1>6. /\ fd.cmds = {} /\ fd.commandCount = 0
      /\ fd.frameCommandCount = IF isLocal THEN 0 ELSE Unknown
      /\ fd \in FrameDataType
  BY <1>1 DEF CountIfLocal, SetFrameCommandCount, EmptyFrame, FrameDataType
<1> HIDE DEF fd
<1>7. /\ ZeroFrame(fd).cmds = {} /\ ZeroFrame(fd).commandCount = 0
      /\ ZeroFrame(fd).frameCommandCount = 0
  BY <1>6 DEF ZeroFrame, FrameDataType
<1>8. \A i \in SlotIndex : FirstRing(isLocal)[i] =
         IF \E g \in FirstKept .. FirstExecutionFrame - 1 : SlotOf(g) = i
           THEN ZeroFrame(fd) ELSE fd
  BY <1>5 DEF fd
<1> QED
  BY <1>3, <1>6, <1>7, <1>8 DEF Unknown

(* What DInit says, of the game and of one player. *)
LEMMA FirstState ==
    ASSUME DInit
    PROVE  /\ created = FirstCommands /\ IsFiniteSet(created)
           /\ \A q \in Player : \A f : CommandsOf(q, f) =
                 IF q \in FirstIssuers /\ f = FirstExecutionFrame THEN {FirstCommand(q)} ELSE {}
           /\ \A p \in Player :
                 /\ frame[p] = FirstFrame /\ localStatus[p] = "INGAME"
                 /\ lastExecutionFrame[p] = FirstExecutionFrame
                 /\ lastFrameCompleted[p] = FirstExecutionFrame - 1
                 /\ lastFrame[p] = FirstFrame - 1
                 /\ inGame[p] = Player
                 /\ OldestKept(p) = FirstKept
                 /\ Window(p) = FirstKept .. FirstKept + FrameDataLength - 1
           /\ \A p, q \in Player : p # q => frameData[p][q] = FirstRing(FALSE)
           /\ \A p \in Player :
                 frameData[p][p] =
                    IF p \in FirstIssuers
                      THEN AddNetCommandMsg(TRUE, FirstRing(TRUE), FirstCommand(p))
                      ELSE FirstRing(TRUE)
<1>1. created = FirstCommands
  BY DEF DInit
<1>2. IsFiniteSet(FirstCommands)
  <2>1. IsFiniteSet(FirstIssuers)
    <3>1. IsFiniteSet(0 .. N - 1)
      BY ConstantFacts, FS_Interval
    <3> QED
      BY <3>1, FirstFacts, FS_Subset DEF Player
  <2> DEFINE f == [p \in FirstIssuers |-> FirstCommand(p)]
  <2>2. f \in Surjection(FirstIssuers, FirstCommands)
    BY DEF Surjection, FirstCommands
  <2> HIDE DEF f
  <2> QED
    BY <2>1, <2>2, FS_Surjection
<1>3. ASSUME NEW q \in Player, NEW f
      PROVE  CommandsOf(q, f) =
                IF q \in FirstIssuers /\ f = FirstExecutionFrame THEN {FirstCommand(q)} ELSE {}
  BY <1>1, FirstFacts DEF CommandsOf, FirstCommands
<1>4. \A p \in Player :
         /\ frame[p] = FirstFrame /\ localStatus[p] = "INGAME"
         /\ lastExecutionFrame[p] = FirstExecutionFrame
         /\ lastFrameCompleted[p] = FirstExecutionFrame - 1
         /\ lastFrame[p] = FirstFrame - 1
         /\ inGame[p] = Player
  BY DEF DInit
<1>5. \A p \in Player : OldestKept(p) = FirstKept
  BY <1>4 DEF OldestKept, FirstKept
<1>6. \A p, q \in Player : frameData[p][q] =
         IF p = q /\ p \in FirstIssuers
           THEN AddNetCommandMsg(TRUE, FirstRing(TRUE), FirstCommand(p))
           ELSE FirstRing(p = q)
  BY DEF DInit
<1>7. \A p, q \in Player : p # q => frameData[p][q] = FirstRing(FALSE)
  BY <1>6
<1>8. \A p \in Player : frameData[p][p] =
         IF p \in FirstIssuers
           THEN AddNetCommandMsg(TRUE, FirstRing(TRUE), FirstCommand(p)) ELSE FirstRing(TRUE)
  BY <1>6
<1> QED
  BY <1>1, <1>2, <1>3, <1>4, <1>5, <1>7, <1>8 DEF Window

(* The own ring of a player with a first command holds it and nothing else. *)
LEMMA FirstOwnRing ==
    ASSUME DInit, NEW p \in Player
    PROVE  /\ frameData[p][p] \in Ring
           /\ \A i \in SlotIndex :
                 /\ frameData[p][p][i].cmds \subseteq {c \in created : c.player = p}
                 /\ frameData[p][p][i].frameCommandCount = frameData[p][p][i].commandCount
           /\ \A f \in Window(p) : Holds(frameData[p][p][SlotOf(f)], CommandsOf(p, f))
<1> DEFINE ring == FirstRing(TRUE)
           cmd == FirstCommand(p)
<1>1. /\ ring \in Ring /\ cmd \in Command /\ cmd.frame = FirstExecutionFrame
      /\ \A i \in SlotIndex : /\ ring[i].cmds = {} /\ ring[i].commandCount = 0
                              /\ ring[i].frameCommandCount = 0
  BY FirstRingFacts, FirstFacts
<1>2. \A f \in Window(p) : f \in Nat /\ SlotOf(f) \in SlotIndex
  <2>1. Window(p) \subseteq Nat
    BY FirstState, FirstFacts, ConstantFacts
  <2> QED
    BY <2>1, SlotOfType
<1>3. \A i \in SlotIndex : Holds(ring[i], {})
  BY <1>1, FS_EmptySet DEF Holds
<1>4. CASE p \notin FirstIssuers
  <2>1. frameData[p][p] = ring
    BY <1>4, FirstState
  <2>2. \A f \in Window(p) : CommandsOf(p, f) = {}
    BY <1>4, FirstState
  <2> HIDE DEF ring
  <2> QED
    BY <1>1, <1>2, <1>3, <2>1, <2>2
<1>5. CASE p \in FirstIssuers
  <2> DEFINE e == FirstExecutionFrame
             own == AddNetCommandMsg(TRUE, ring, cmd)
  <2>1. frameData[p][p] = own
    BY <1>5, FirstState
  <2>2. \A f : CommandsOf(p, f) = IF f = e THEN {cmd} ELSE {}
    BY <1>5, FirstState
  <2>3. e \in Window(p) /\ \A f, g \in Window(p) : SlotOf(f) = SlotOf(g) => f = g
    <3>1. Window(p) = FirstKept .. FirstKept + FrameDataLength - 1
      BY FirstState
    <3>2. e \in Window(p)
      BY <3>1, FirstFacts, ConstantFacts, DConstants
    <3>3. ASSUME NEW f \in Window(p), NEW g \in Window(p), SlotOf(f) = SlotOf(g) PROVE f = g
      <4>1. f \in Nat /\ g \in Nat /\ f < g + FrameDataLength /\ g < f + FrameDataLength
        BY <3>1, FirstFacts, ConstantFacts
      <4> QED
        BY <3>3, <4>1, SlotUnique
    <3> QED
      BY <3>2, <3>3
  <2>4. cmd \in created /\ cmd.player = p
    BY <1>5, FirstState, FirstFacts DEF FirstCommands
  <2> HIDE DEF ring, cmd
  <2>5. own \in Ring
    BY <1>1, RingTypes, 0 \in Nat
  <2>6. \A i \in SlotIndex : own[i].cmds \subseteq ring[i].cmds \cup {cmd}
    BY <1>1, StoreContents
  <2>7. \A i \in SlotIndex : own[i].frameCommandCount = own[i].commandCount
    BY <1>1, OwnCountAdd
  <2>8. ASSUME NEW f \in Window(p) PROVE Holds(own[SlotOf(f)], CommandsOf(p, f))
    <3>1. SlotOf(e) \in SlotIndex /\ SlotOf(f) \in SlotIndex
      BY <1>2, <2>3
    <3>2. own[SlotOf(f)] = IF SlotOf(f) = SlotOf(e)
                             THEN CountIfLocal(TRUE, AddCommand(ring[SlotOf(e)], cmd))
                             ELSE ring[SlotOf(f)]
      BY <1>1, <3>1 DEF AddNetCommandMsg, Ring
    <3>3. CASE f = e
      <4> DEFINE fd == ring[SlotOf(e)]
      <4>1. fd \in FrameDataType /\ IsFiniteSet({}) /\ Holds(fd, {})
        BY <1>1, <1>3, <3>1, FS_EmptySet DEF Ring
      <4> HIDE DEF fd
      <4>2. Holds(CountIfLocal(TRUE, AddCommand(fd, cmd)), {} \cup {cmd})
        BY <1>1, <4>1, HoldsAdd
      <4> QED
        BY <2>2, <3>2, <3>3, <4>2 DEF fd
    <3>4. CASE f # e
      BY <1>3, <2>2, <2>3, <3>1, <3>2, <3>4
    <3> QED
      BY <3>3, <3>4
  <2> HIDE DEF own
  <2> QED
    BY <1>1, <2>1, <2>4, <2>5, <2>6, <2>7, <2>8
<1> QED
  BY <1>4, <1>5

(* Of what is on its way first, everything is a first command. *)
LEMMA FirstSent ==
    ASSUME DInit, NEW h \in net
    PROVE  /\ h \in Hops /\ h.cmd \in created /\ h.cmd.type # "FRAMEINFO"
           /\ h.dst # h.cmd.player /\ h.cmd.player \notin h.relay
<1>1. PICK p \in FirstIssuers : h \in SendLocal(p, Player, FirstCommand(p))
  BY DEF DInit
<1> DEFINE router == Router(p)
           peers == Peers(p)
           cmd == FirstCommand(p)
<1>2. p \in Player /\ cmd \in Command /\ cmd.player = p /\ cmd.type = "GAME"
  BY FirstFacts
<1>3. inGame \in [Player -> SUBSET Player] /\ p \in inGame[p]
  BY <1>2 DEF DInit
<1>4. router \in Player /\ peers \in SUBSET Player /\ p \notin peers
  BY <1>2, <1>3, RouterType DEF Peers
<1>5. h \in SendVia(p, router, Player, peers, cmd)
  BY <1>1 DEF SendLocal
<1>6. cmd \in created
  BY FirstState DEF FirstCommands
<1> HIDE DEF router, peers, cmd
<1>7. h \in Hops /\ h.cmd = cmd
  BY <1>2, <1>4, <1>5, SendTypes, Player \in SUBSET Player
<1>8. h.dst # p /\ p \notin h.relay
  BY <1>2, <1>4, <1>5, SendNotToSelf, Player \in SUBSET Player
<1> QED
  BY <1>2, <1>6, <1>7, <1>8

LEMMA DInitTypes == DInit => TypeInv
<1> SUFFICES ASSUME DInit PROVE TypeInv
  OBVIOUS
<1>1. \A p, q \in Player :
         /\ frameData[p][q] \in Ring
         /\ \A i \in SlotIndex : frameData[p][q][i].cmds \subseteq {c \in created : c.player = q}
  <2> SUFFICES ASSUME NEW p \in Player, NEW q \in Player
               PROVE  /\ frameData[p][q] \in Ring
                      /\ \A i \in SlotIndex :
                            frameData[p][q][i].cmds \subseteq {c \in created : c.player = q}
    OBVIOUS
  <2>1. CASE p = q
    BY <2>1, FirstOwnRing
  <2>2. CASE p # q
    BY <2>2, FirstState, FirstRingFacts
  <2> QED
    BY <2>1, <2>2
<1>2. frameData \in [Player -> [Player -> [SlotIndex -> FrameDataType]]]
  BY <1>1 DEF DInit, Ring
<1>3. created \in SUBSET Command /\ \A c \in created : c.id <= 1
  BY FirstState, FirstFacts DEF FirstCommands
<1>4. executed \in [Player -> Seq(SUBSET Command)]
  <2>1. FirstFrame - 1 \in Nat
    BY DConstants
  <2>2. [f \in 1 .. FirstFrame - 1 |-> {}] \in Seq(SUBSET Command)
    BY <2>1, {} \in SUBSET Command
  <2> QED
    BY <2>2 DEF DInit
<1>5. net \in SUBSET Hops
  BY FirstSent
<1>6. /\ frame \in [Player -> Nat] /\ lastExecutionFrame \in [Player -> Nat]
      /\ lastFrameCompleted \in [Player -> Nat] /\ lastFrame \in [Player -> Nat]
      /\ runAhead \in [Player -> MinRunAhead .. MaxRunAhead]
  <2>1. /\ FirstFrame \in Nat /\ FirstFrame - 1 \in Nat /\ FirstExecutionFrame \in Nat
        /\ FirstExecutionFrame - 1 \in Nat
    BY DConstants, FirstFacts
  <2> QED
    BY <2>1, ConstantFacts DEF DInit
<1>7. /\ localStatus \in [Player -> Statuses] /\ inGame \in [Player -> SUBSET Player]
      /\ issued \in [Player -> Nat]
  BY DEF DInit, Statuses
<1>8. TypeOK
  BY <1>2, <1>3, <1>4, <1>5, <1>6, <1>7 DEF TypeOK
<1>9. NotAlone /\ Sent /\ IdsBounded /\ Stored
  BY <1>1, <1>3, FirstState, FirstSent DEF NotAlone, Sent, IdsBounded, Stored
<1> QED
  BY <1>8, <1>9 DEF TypeInv

LEMMA DInitAnnounce == DInit => AnnounceInv
<1> SUFFICES ASSUME DInit PROVE AnnounceInv
  OBVIOUS
<1>1. TypeInv
  BY DInitTypes
<1>2. \A p \in Player : ClockOK(p)
  BY FirstState, FirstFacts, DConstants, ConstantFacts DEF ClockOK, Leaving
<1>3. CreatedOK
  <2>1. ASSUME NEW c \in created
        PROVE  c.frame <= LastCreated(c.player) /\ c.id <= issued[c.player]
    <3>1. PICK p \in FirstIssuers : c = FirstCommand(p)
      BY FirstState DEF FirstCommands
    <3>2. p \in Player /\ c.player = p /\ c.frame = FirstExecutionFrame /\ c.id = 1
      BY <3>1, FirstFacts
    <3>3. issued[p] = 1 /\ LastCreated(p) = FirstExecutionFrame + 1
      BY <3>2 DEF DInit, LastCreated
    <3> QED
      BY <3>2, <3>3, FirstFacts
  <2> QED
    BY <2>1, FirstState DEF CreatedOK
<1>4. NotToSelf /\ AnnouncedOK /\ AnnouncedCountIsFinal
  BY FirstSent DEF NotToSelf, AnnouncedOK, AnnouncedCountIsFinal
<1>5. \A p \in Player : OwnRingOK(p)
  BY FirstOwnRing DEF OwnRingOK
<1> QED
  BY <1>1, <1>2, <1>3, <1>4, <1>5 DEF AnnounceInv

LEMMA DInvInit == DInit => DInv
<1> SUFFICES ASSUME DInit PROVE DInv
  OBVIOUS
<1>1. AnnounceInv
  BY DInitAnnounce
<1>2. NobodyLeaves
  BY FirstState, FirstFacts DEF NobodyLeaves, FirstCommands
<1>3. \A p \in Player : PlayOK(p) /\ LeadOK(p) /\ OwnCountOK(p)
  BY FirstState, FirstFacts, FirstOwnRing, DConstants DEF PlayOK, LeadOK, OwnCountOK
<1>4. ASSUME NEW p \in Player PROVE RingsExact(p)
  <2> SUFFICES ASSUME NEW q \in Player \ {p}, NEW f \in Window(p)
               PROVE  Exact(frameData[p][q][SlotOf(f)], q, f)
    BY DEF RingsExact
  <2>1. f \in Nat /\ SlotOf(f) \in SlotIndex
    BY <1>1, WindowFacts, SlotOfType
  <2>2. frameData[p][q] = FirstRing(FALSE)
    BY FirstState
  <2>3. PICK fd : fd = frameData[p][q][SlotOf(f)]
    OBVIOUS
  <2>4. fd.cmds = {} /\ fd.commandCount = 0 /\ Cardinality({}) = 0
    BY <2>1, <2>2, <2>3, FirstRingFacts, FS_EmptySet
  <2>5. ASSUME fd.frameCommandCount # Unknown
        PROVE  /\ fd.frameCommandCount = Cardinality(CommandsOf(q, f))
               /\ f <= lastFrameCompleted[q]
    <3>1. PICK g \in FirstKept .. FirstExecutionFrame - 1 : SlotOf(g) = SlotOf(f)
      BY <2>1, <2>2, <2>3, <2>5, FirstRingFacts
    <3>2. g \in Window(p)
      BY FirstState, FirstFacts, ConstantFacts
    <3>3. f = g
      BY <1>1, <3>1, <3>2, WindowFacts
    <3>4. CommandsOf(q, f) = {}
      BY <3>3, FirstState, FirstFacts
    <3>5. fd.frameCommandCount = 0
      BY <2>1, <2>2, <2>3, <2>5, FirstRingFacts
    <3> QED
      BY <2>4, <3>3, <3>4, <3>5, FirstState
  <2> QED
    BY <2>3, <2>4, <2>5 DEF Exact
<1>5. \A p \in Player : CountsKnown(p)
  BY FirstState, DConstants DEF CountsKnown
<1>6. ASSUME NEW p \in Player PROVE ExecutedOK(p)
  <2>1. /\ executed[p] = [f \in 1 .. FirstFrame - 1 |-> {}]
        /\ frame[p] = FirstFrame /\ FirstFrame - 1 \in Nat
    BY DConstants DEF DInit
  <2>2. Len(executed[p]) = FirstFrame - 1
    BY <2>1
  <2>3. \A f \in 1 .. FirstFrame - 1 : executed[p][f] = {}
    BY <2>1
  <2>4. \A f \in 1 .. FirstFrame - 1 : \A q \in Player : CommandsOf(q, f) = {}
    BY FirstState, FirstFacts, DConstants
  <2> QED
    BY <2>1, <2>2, <2>3, <2>4 DEF ExecutedOK
<1>7. ManagerTypes
  BY DEF DInit, ManagerTypes
<1>8. OneLost /\ AccusedOK /\ \A m \in notices : NoticeOK(m)
  BY DEF DInit, OneLost, AccusedOK, Up
<1>9. \A p \in Player : RemovedOK(p) /\ ReportsOK(p)
  BY DConstants DEF DInit, RemovedOK, ReportsOK
<1> QED
  BY <1>1, <1>2, <1>3, <1>4, <1>5, <1>6, <1>7, <1>8, <1>9 DEF DInv, GameOK, ManagerOK

-----------------------------------------------------------------------------
(* Steps that leave the frames alone. *)

LEMMA GameKept ==
    ASSUME GameOK, UNCHANGED vars, UNCHANGED removedOn
    PROVE  GameOK'
<1>1. AnnounceInv'
  BY AnnounceStep DEF GameOK
<1>2. NobodyLeaves' /\ \A p \in Player : PlayOK(p)' /\ LeadOK(p)'
  BY DEF GameOK, vars, NobodyLeaves, PlayOK, LeadOK
<1>3. \A p \in Player : RingsExact(p)' /\ OwnCountOK(p)' /\ CountsKnown(p)'
  BY DEF GameOK, vars, RingsExact, Exact, CommandsOf, Window, OldestKept, OwnCountOK,
         CountsKnown
<1>4. \A p \in Player : ExecutedOK(p)'
  BY DEF GameOK, vars, ExecutedOK, CommandsOf
<1> QED
  BY <1>1, <1>2, <1>3, <1>4 DEF GameOK

(* Announcing and sending: nobody executes, stores or creates anything. *)
LEMMA GameAnnounces ==
    ASSUME GameOK, AnnounceInv',
           UNCHANGED <<frame, localStatus, frameData, inGame, created, executed, removedOn>>,
           \A q \in Player : lastFrameCompleted[q] <= lastFrameCompleted'[q]
    PROVE  GameOK'
<1>1. \A q \in Player : lastFrameCompleted[q] \in Nat /\ lastFrameCompleted'[q] \in Nat
  BY DEF GameOK, AnnounceInv, TypeInv, TypeOK
<1>2. \A q \in Player : frame[q] \in Nat /\ inGame[q] \in SUBSET Player
  BY DEF GameOK, AnnounceInv, TypeInv, TypeOK
<1>3. NobodyLeaves' /\ \A p \in Player : PlayOK(p)'
  BY DEF GameOK, NobodyLeaves, PlayOK
<1>4. ASSUME NEW p \in Player PROVE LeadOK(p)'
  <2> SUFFICES ASSUME NEW q \in inGame[p] PROVE frame[p] <= lastFrameCompleted'[q] + 1
    BY DEF LeadOK
  <2>1. q \in Player /\ frame[p] <= lastFrameCompleted[q] + 1
    BY <1>2 DEF GameOK, LeadOK
  <2> QED
    BY <1>1, <1>2, <2>1
<1>5. ASSUME NEW p \in Player PROVE RingsExact(p)'
  <2>1. Window(p)' = Window(p) /\ Window(p) \subseteq Nat
    BY WindowFacts DEF GameOK, Window, OldestKept
  <2>2. \A q : \A f : CommandsOf(q, f)' = CommandsOf(q, f)
    BY DEF CommandsOf
  <2> SUFFICES ASSUME NEW q \in Player \ {p}, NEW f \in Window(p)
               PROVE  Exact(frameData[p][q][SlotOf(f)], q, f)'
    BY <2>1 DEF RingsExact
  <2>3. Exact(frameData[p][q][SlotOf(f)], q, f)
    BY DEF GameOK, RingsExact
  <2>4. f \in Nat /\ lastFrameCompleted[q] <= lastFrameCompleted'[q]
    BY <2>1
  <2> QED
    BY <1>1, <2>2, <2>3, <2>4 DEF Exact
<1>6. \A p \in Player : OwnCountOK(p)' /\ CountsKnown(p)'
  BY DEF GameOK, OwnCountOK, CountsKnown, OldestKept
<1>7. \A p \in Player : ExecutedOK(p)'
  BY DEF GameOK, ExecutedOK, CommandsOf
<1> QED
  BY <1>3, <1>4, <1>5, <1>6, <1>7 DEF GameOK

LEMMA GameTick ==
    ASSUME GameOK, NEW p \in Player, ProcessFrameTick(p), UNCHANGED removedOn
    PROVE  GameOK'
<1>1. AnnounceInv'
  BY AnnounceProcessFrameTick DEF GameOK
<1>2. localStatus[p] = "INGAME" /\ \A q \in Player : lastFrameCompleted[q] \in Nat
  BY GameFacts
<1>3. localStatus' = localStatus
  BY <1>2 DEF ProcessFrameTick, GameOK, AnnounceInv, TypeInv, TypeOK
<1>4. UNCHANGED <<frame, frameData, inGame, created, executed>>
  BY DEF ProcessFrameTick
<1>5. \A q \in Player : lastFrameCompleted[q] <= lastFrameCompleted'[q]
  <2> DEFINE last == IF ExecutionFrame(p) - 1 > lastFrameCompleted[p]
                       THEN ExecutionFrame(p) - 1 ELSE lastFrameCompleted[p]
  <2>1. lastFrameCompleted' = [lastFrameCompleted EXCEPT ![p] = last]
    BY <1>2 DEF ProcessFrameTick
  <2>2. last >= lastFrameCompleted[p]
    BY <1>2, ExecutionFrameType DEF GameOK, AnnounceInv
  <2>3. lastFrameCompleted \in [Player -> Nat]
    BY DEF GameOK, AnnounceInv, TypeInv, TypeOK
  <2> HIDE DEF last
  <2> QED
    BY <1>2, <2>1, <2>2, <2>3
<1> QED
  BY <1>1, <1>3, <1>4, <1>5, GameAnnounces

(* What may be on its way: commands that were created, and counts that were *)
(* announced, never to the player they come from.                           *)
HopOK(h) ==
    /\ h \in Hops
    /\ h.dst # h.cmd.player /\ h.cmd.player \notin h.relay
    /\ IF h.cmd.type = "FRAMEINFO"
         THEN /\ h.cmd.frame <= LastAnnounced(h.cmd.player)
              /\ h.cmd.arg = Cardinality(CommandsOf(h.cmd.player, h.cmd.frame))
         ELSE h.cmd \in created

LEMMA HopsOK ==
    ASSUME AnnounceInv, NEW h \in net PROVE HopOK(h)
BY DEF HopOK, AnnounceInv, TypeInv, TypeOK, Sent, NotToSelf, AnnouncedOK,
       AnnouncedCountIsFinal

LEMMA GameSends ==
    ASSUME GameOK, \A h \in net' : HopOK(h),
           UNCHANGED <<frame, clock, frameData, inGame, issued, created, executed, removedOn>>
    PROVE  GameOK'
<1>1. AnnounceInv
  BY DEF GameOK
<1>2. TypeInv'
  <2>1. net' \in SUBSET Hops
    BY DEF HopOK
  <2>2. TypeOK'
    BY <1>1, <2>1 DEF AnnounceInv, TypeInv, TypeOK, clock
  <2>3. NotAlone' /\ Stored' /\ IdsBounded'
    BY <1>1 DEF AnnounceInv, TypeInv, NotAlone, Stored, IdsBounded, clock
  <2>4. Sent'
    BY DEF Sent, HopOK
  <2> QED
    BY <2>2, <2>3, <2>4 DEF TypeInv
<1>3. (\A p \in Player : ClockOK(p)') /\ CreatedOK'
  BY <1>1 DEF AnnounceInv, ClockOK, CreatedOK, LastCreated, Leaving, clock
<1>4. NotToSelf'
  BY DEF NotToSelf, HopOK
<1>5. \A q \in Player : LastAnnounced(q)' = LastAnnounced(q)
  BY DEF LastAnnounced, Leaving, clock
<1>6. AnnouncedOK'
  <2> SUFFICES ASSUME NEW h \in net', h.cmd.type = "FRAMEINFO"
               PROVE  h.cmd.frame <= LastAnnounced(h.cmd.player)'
    BY DEF AnnouncedOK
  <2>1. HopOK(h) /\ h.cmd.player \in Player
    BY DEF HopOK, Hops, Command
  <2> QED
    BY <1>5, <2>1 DEF HopOK
<1>7. AnnouncedCountIsFinal'
  BY DEF AnnouncedCountIsFinal, HopOK, CommandsOf
<1>8. \A p \in Player : OwnRingOK(p)'
  BY <1>1 DEF AnnounceInv, OwnRingOK, CommandsOf, Window, OldestKept
<1>9. AnnounceInv'
  BY <1>2, <1>3, <1>4, <1>6, <1>7, <1>8 DEF AnnounceInv
<1>10. \A q \in Player : lastFrameCompleted[q] <= lastFrameCompleted'[q]
  BY GameFacts DEF clock
<1> QED
  BY <1>9, <1>10, GameAnnounces DEF clock

-----------------------------------------------------------------------------
(* Forwarding: what is sent to a player that is behind was announced.       *)

LEMMA SmallRemainder ==
    ASSUME NEW n \in Nat \ {0}, NEW a \in 0 .. n - 1
    PROVE  a % n = a
<1>1. a \div n \in Int /\ a % n \in 0 .. n - 1 /\ 0 \in Int
  OBVIOUS
<1>2. (n * (a \div n)) + (a % n) = a
  OBVIOUS
<1>3. (n * (a \div n)) + (a % n) = (n * 0) + a
  BY <1>2
<1> QED
  BY <1>1, <1>3, RemainderUnique

(* A frame that is not too far in the past to be sent is still kept. *)
LEMMA SentIsKept ==
    ASSUME GameOK, NEW p \in Player, NEW f \in Nat,
           f >= FirstFrame, f < frame[p], ~TooFarInThePast(p, f)
    PROVE  f >= OldestKept(p) /\ f \in Window(p)
<1>1. /\ frame[p] \in Nat /\ FirstFrame \in Nat \ {0} /\ MaxFrame \in Nat
      /\ FrameModulus \in Nat /\ FrameModulus > 2 * MaxFrame + FramesToKeep
  BY GameFacts, DConstants
<1>2. frame[p] <= MaxFrame
  BY <1>1 DEF GameOK, PlayOK
<1>3. f >= OldestKept(p)
  <2>1. CASE frame[p] <= FramesToKeep
    BY <1>1, <2>1, ConstantFacts DEF OldestKept
  <2>2. CASE frame[p] > FramesToKeep
    <3> DEFINE old == frame[p] - FramesToKeep
    <3>1. old \in 0 .. FrameModulus - 1
      BY <1>1, <1>2, <2>2, ConstantFacts
    <3>2. old % FrameModulus = old
      <4> HIDE DEF old
      <4> QED
        BY <1>1, <3>1, SmallRemainder
    <3>3. ~(old > f)
      BY <3>2 DEF TooFarInThePast
    <3> QED
      BY <1>1, <2>2, <3>1, <3>3 DEF OldestKept
  <2> QED
    BY <1>1, <2>1, <2>2, ConstantFacts
<1>4. OldestKept(p) <= frame[p] /\ OldestKept(p) \in Nat
  BY <1>1, <1>2, ConstantFacts DEF OldestKept
<1>5. frame[p] <= OldestKept(p) + FramesToKeep
  BY <1>1, ConstantFacts DEF OldestKept
<1> QED
  BY <1>1, <1>3, <1>4, <1>5, ConstantFacts DEF Window

(* The count that is kept of a frame that was executed is the count of the  *)
(* frame, and the commands that are kept are commands of it.                *)
LEMMA KeptAsAnnounced ==
    ASSUME GameOK, NEW p \in Player, NEW r \in inGame[p], NEW f \in Window(p),
           f >= FirstFrame, f < frame[p]
    PROVE  LET fd == frameData[p][r][SlotOf(f)]
           IN  /\ fd.cmds \subseteq CommandsOf(r, f)
               /\ fd.frameCommandCount = Cardinality(CommandsOf(r, f))
               /\ fd.frameCommandCount \in Nat
               /\ f <= LastAnnounced(r)
<1> DEFINE fd == frameData[p][r][SlotOf(f)]
<1>1. /\ AnnounceInv /\ r \in Player /\ f \in Nat /\ SlotOf(f) \in SlotIndex
      /\ IsFiniteSet(created) /\ frame[p] \in Nat
  BY GameFacts, WindowFacts, SlotOfType DEF AnnounceInv, CreatedOK
<1>2. Cardinality(CommandsOf(r, f)) \in Nat
  <2>1. IsFiniteSet(CommandsOf(r, f))
    BY <1>1, FS_Subset DEF CommandsOf
  <2> QED
    BY <2>1, FS_CardinalityType
<1>3. CASE r = p
  <2>1. Holds(fd, CommandsOf(p, f))
    BY <1>1, <1>3 DEF AnnounceInv, OwnRingOK
  <2>2. fd.frameCommandCount = fd.commandCount
    BY <1>1, <1>3 DEF GameOK, OwnCountOK
  <2>3. f <= LastAnnounced(p)
    <3>1. /\ frame[p] <= lastFrameCompleted[p] + 1 /\ lastFrameCompleted[p] \in Nat
          /\ LastAnnounced(p) = lastFrameCompleted[p]
      BY GameFacts
    <3> QED
      BY <1>1, <3>1
  <2> QED
    BY <1>2, <1>3, <2>1, <2>2, <2>3 DEF Holds
<1>4. CASE r # p
  <2>1. Exact(fd, r, f)
    BY <1>1, <1>4 DEF GameOK, RingsExact
  <2>2. fd.frameCommandCount # Unknown
    <3>1. f \in FirstFrame .. frame[p] - 1 /\ f >= OldestKept(p)
      <4>1. OldestKept(p) \in Nat
        BY <1>1, WindowFacts
      <4>2. f >= OldestKept(p)
        BY <4>1, ConstantFacts DEF Window
      <4> QED
        BY <1>1, <4>2, DConstants
    <3> QED
      BY <3>1 DEF GameOK, CountsKnown
  <2>3. f <= LastAnnounced(r)
    BY <1>1, <2>1, <2>2, GameFacts DEF Exact
  <2> QED
    BY <1>2, <2>1, <2>2, <2>3 DEF Exact
<1> QED
  BY <1>3, <1>4

LEMMA ForwardedOK ==
    ASSUME GameOK, NEW p \in Player, NEW q \in Player, NEW start \in Nat,
           start >= FirstFrame, NEW h \in FrameDataFor(p, q, start)
    PROVE  HopOK(h)
<1> DEFINE info(r, f) ==
             Cmd("FRAMEINFO", r, f, 0, frameData[p][r][SlotOf(f)].frameCommandCount)
           cmds(r, f) == frameData[p][r][SlotOf(f)].cmds
           frames == {g \in start .. frame[p] - 1 : ~TooFarInThePast(p, g)}
<1>1. PICK r \in inGame[p] \ {q}, f \in frames :
         \/ h \in Direct(p, {q}, Peers(p), info(r, f))
         \/ \E c \in cmds(r, f) : h \in Direct(p, {q}, Peers(p), c)
  <2> DEFINE direct(c) == Direct(p, {q}, Peers(p), c)
             sent(r, f) == direct(info(r, f)) \cup UNION {direct(c) : c \in cmds(r, f)}
  <2>1. FrameDataFor(p, q, start) = UNION {sent(r, f) : r \in inGame[p] \ {q}, f \in frames}
    BY DEF FrameDataFor
  <2> HIDE DEF direct, info, cmds, frames
  <2>2. \E r \in inGame[p] \ {q}, f \in frames :
           h \in direct(info(r, f)) \/ \E c \in cmds(r, f) : h \in direct(c)
    BY <2>1
  <2> QED
    BY <2>2 DEF direct
<1>2. /\ AnnounceInv /\ inGame[p] \in SUBSET Player /\ frame[p] \in Nat /\ r \in Player
  BY GameFacts
<1>3. f \in Nat /\ f >= FirstFrame /\ f < frame[p] /\ ~TooFarInThePast(p, f)
  BY <1>2, DConstants
<1>4. f \in Window(p)
  BY <1>3, SentIsKept
<1>5. /\ cmds(r, f) \subseteq CommandsOf(r, f)
      /\ info(r, f).arg = Cardinality(CommandsOf(r, f))
      /\ info(r, f).arg \in Nat /\ info(r, f).player = r /\ info(r, f).frame = f
      /\ info(r, f).type = "FRAMEINFO" /\ info(r, f).id = 0
      /\ f <= LastAnnounced(r)
  BY <1>3, <1>4, KeptAsAnnounced DEF Cmd
<1>6. info(r, f) \in Command
  BY <1>2, <1>3, <1>5 DEF Command, CommandTypes, Cmd
<1>7. Peers(p) \in SUBSET Player
  BY <1>2 DEF Peers
<1>8. \A c : \A g \in Direct(p, {q}, Peers(p), c) : g = Hop(p, q, {q}, c)
  BY DEF Direct
<1> HIDE DEF info, cmds, frames
<1>9. CASE h \in Direct(p, {q}, Peers(p), info(r, f))
  <2>1. h = Hop(p, q, {q}, info(r, f))
    BY <1>8, <1>9
  <2>2. /\ h.cmd = info(r, f) /\ h.dst = q /\ h.relay = {q} /\ h \in Hops
    BY <1>6, <2>1 DEF Hop, Hops
  <2> QED
    BY <1>5, <2>2 DEF HopOK
<1>10. CASE \E c \in cmds(r, f) : h \in Direct(p, {q}, Peers(p), c)
  <2>1. PICK c \in cmds(r, f) : h = Hop(p, q, {q}, c)
    BY <1>8, <1>10
  <2>2. c \in created /\ c.player = r /\ c \in Command /\ c.type # "FRAMEINFO"
    BY <1>2, <1>5 DEF CommandsOf, GameOK, NobodyLeaves, AnnounceInv, TypeInv, TypeOK
  <2>3. h.cmd = c /\ h.dst = q /\ h.relay = {q} /\ h \in Hops
    BY <2>1, <2>2 DEF Hop, Hops
  <2> QED
    BY <2>2, <2>3 DEF HopOK
<1> QED
  BY <1>1, <1>9, <1>10

-----------------------------------------------------------------------------
(* Receiving: what arrives is of a frame of the window, whose slot is that  *)
(* of no other frame of it.                                                 *)

LEMMA ExactAdd ==
    ASSUME AnnounceInv, NEW q \in Player, NEW f \in Nat, NEW fd \in FrameDataType,
           Exact(fd, q, f), NEW cmd \in CommandsOf(q, f)
    PROVE  /\ Exact(CountIfLocal(FALSE, AddCommand(fd, cmd)), q, f)
           /\ CountIfLocal(FALSE, AddCommand(fd, cmd)).frameCommandCount = fd.frameCommandCount
<1>1. CountIfLocal(FALSE, AddCommand(fd, cmd)) = AddCommand(fd, cmd)
  BY DEF CountIfLocal
<1>2. CASE \E c \in fd.cmds : SameCommand(c, cmd)
  BY <1>1, <1>2 DEF AddCommand
<1>3. CASE ~ \E c \in fd.cmds : SameCommand(c, cmd)
  <2>1. cmd \notin fd.cmds
    BY <1>3 DEF SameCommand
  <2>2. IsFiniteSet(fd.cmds)
    <3>1. IsFiniteSet(created) /\ fd.cmds \subseteq created
      BY DEF AnnounceInv, CreatedOK, Exact, CommandsOf
    <3> QED
      BY <3>1, FS_Subset
  <2>3. Cardinality(fd.cmds \cup {cmd}) = Cardinality(fd.cmds) + 1
    BY <2>1, <2>2, FS_AddElement
  <2>4. AddCommand(fd, cmd) = [fd EXCEPT !.cmds = fd.cmds \cup {cmd},
                                         !.commandCount = fd.commandCount + 1]
    BY <1>3 DEF AddCommand
  <2>5. /\ AddCommand(fd, cmd).cmds = fd.cmds \cup {cmd}
        /\ AddCommand(fd, cmd).commandCount = fd.commandCount + 1
        /\ AddCommand(fd, cmd).frameCommandCount = fd.frameCommandCount
    BY <2>4 DEF FrameDataType
  <2> QED
    BY <1>1, <2>3, <2>5 DEF Exact
<1> QED
  BY <1>2, <1>3

LEMMA ExactCount ==
    ASSUME NEW q, NEW f, NEW n, NEW fd \in FrameDataType, Exact(fd, q, f),
           n = Cardinality(CommandsOf(q, f)), f <= lastFrameCompleted[q]
    PROVE  /\ Exact(SetFrameCommandCount(fd, n), q, f)
           /\ SetFrameCommandCount(fd, n).frameCommandCount = n
<1>1. /\ SetFrameCommandCount(fd, n).cmds = fd.cmds
      /\ SetFrameCommandCount(fd, n).commandCount = fd.commandCount
      /\ SetFrameCommandCount(fd, n).frameCommandCount = n
  BY DEF SetFrameCommandCount, FrameDataType
<1> QED
  BY <1>1 DEF Exact

LEMMA GameReceive ==
    ASSUME DInv, NEW p \in Player, Up(p), NEW h \in net, Receive(p, h), UNCHANGED removedOn
    PROVE  GameOK'
<1> DEFINE q == h.cmd.player
           cmd == h.cmd
           s == SlotOf(cmd.frame)
           old == frameData[p][q][s]
           new == IF cmd.type = "FRAMEINFO" THEN SetFrameCommandCount(old, cmd.arg)
                  ELSE IF p \in h.relay THEN CountIfLocal(FALSE, AddCommand(old, cmd))
                  ELSE old
<1>1. GameOK /\ AnnounceInv
  BY DEF DInv, GameOK
<1>2. AnnounceInv'
  BY <1>1, AnnounceReceive
<1>3. /\ cmd \in Command /\ q \in Player /\ cmd.frame \in Nat /\ cmd.arg \in Nat /\ s \in SlotIndex
      /\ q # p /\ cmd.frame >= frame[p] /\ HopOK(h)
  <2>1. h.dst = p /\ cmd.frame >= frame[p]
    BY DEF Receive, Store
  <2>2. HopOK(h)
    BY <1>1, HopsOK
  <2>3. cmd \in Command /\ q \in Player /\ cmd.frame \in Nat /\ cmd.arg \in Nat
    BY <2>2 DEF HopOK, Hops, Command
  <2> QED
    BY <2>1, <2>2, <2>3, SlotOfType DEF HopOK
<1>4. frameData \in [Player -> [Player -> Ring]] /\ old \in FrameDataType
  BY <1>1, <1>3 DEF AnnounceInv, TypeInv, TypeOK, Ring
<1>5. UNCHANGED <<frame, localStatus, lastFrameCompleted, inGame, created, executed>>
  BY DEF Receive, clock
<1>6. /\ \A k, r \in Player : ~(k = p /\ r = q) => frameData'[k][r] = frameData[k][r]
      /\ \A i \in SlotIndex : frameData'[p][q][i] = IF i = s THEN new ELSE frameData[p][q][i]
  <2> DEFINE ring == IF cmd.type = "FRAMEINFO" THEN SetCount(frameData[p][q], cmd.frame, cmd.arg)
                     ELSE IF p \in h.relay THEN AddNetCommandMsg(FALSE, frameData[p][q], cmd)
                     ELSE frameData[p][q]
  <2>1. frameData' = [frameData EXCEPT ![p][q] = ring]
    BY DEF Receive, Store
  <2>2. \A i \in SlotIndex : ring[i] = IF i = s THEN new ELSE frameData[p][q][i]
    BY <1>3, <1>4 DEF SetCount, AddNetCommandMsg, Ring
  <2> HIDE DEF ring, new
  <2> QED
    BY <1>3, <1>4, <2>1, <2>2
<1>7. cmd.frame \in Window(p)
  BY <1>3, ArrivesInWindow
<1>8. /\ Exact(new, q, cmd.frame)
      /\ new.frameCommandCount = old.frameCommandCount \/ new.frameCommandCount \in Nat
  <2>1. Exact(old, q, cmd.frame)
    BY <1>1, <1>3, <1>7 DEF GameOK, RingsExact
  <2>2. CASE cmd.type = "FRAMEINFO"
    <3>1. cmd.arg = Cardinality(CommandsOf(q, cmd.frame)) /\ cmd.frame <= lastFrameCompleted[q]
      BY <1>1, <1>3, <2>2, GameFacts DEF HopOK
    <3>2. new = SetFrameCommandCount(old, cmd.arg)
      BY <2>2
    <3> HIDE DEF new, old, cmd, q
    <3> QED
      BY <1>3, <1>4, <2>1, <3>1, <3>2, ExactCount
  <2>3. CASE cmd.type # "FRAMEINFO" /\ p \in h.relay
    <3>1. cmd \in CommandsOf(q, cmd.frame)
      BY <1>3, <2>3 DEF HopOK, CommandsOf
    <3>2. new = CountIfLocal(FALSE, AddCommand(old, cmd))
      BY <2>3
    <3> HIDE DEF new, old, cmd, q
    <3> QED
      BY <1>1, <1>3, <1>4, <2>1, <3>1, <3>2, ExactAdd
  <2>4. CASE cmd.type # "FRAMEINFO" /\ p \notin h.relay
    BY <2>1, <2>4
  <2> QED
    BY <2>2, <2>3, <2>4
<1> HIDE DEF new
<1>9. \A k \in Player : Window(k)' = Window(k) /\ Window(k) \subseteq Nat
  BY <1>1, <1>5, WindowFacts DEF Window, OldestKept
<1>10. \A r : \A f : CommandsOf(r, f)' = CommandsOf(r, f)
  BY <1>5 DEF CommandsOf
<1>11. ASSUME NEW k \in Player PROVE RingsExact(k)'
  <2> SUFFICES ASSUME NEW r \in Player \ {k}, NEW f \in Window(k)
               PROVE  Exact(frameData[k][r][SlotOf(f)], r, f)'
    BY <1>9 DEF RingsExact
  <2>1. f \in Nat /\ SlotOf(f) \in SlotIndex /\ Exact(frameData[k][r][SlotOf(f)], r, f)
    BY <1>1, <1>9, SlotOfType DEF GameOK, RingsExact
  <2>2. CASE k = p /\ r = q /\ SlotOf(f) = s
    <3>1. f = cmd.frame
      BY <1>1, <1>7, <2>2, WindowFacts
    <3>2. frameData'[k][r][SlotOf(f)] = new
      BY <1>6, <2>1, <2>2
    <3> QED
      BY <1>5, <1>8, <1>10, <2>2, <3>1, <3>2 DEF Exact
  <2>3. CASE ~(k = p /\ r = q /\ SlotOf(f) = s)
    <3>1. frameData'[k][r][SlotOf(f)] = frameData[k][r][SlotOf(f)]
      BY <1>6, <2>1, <2>3
    <3> QED
      BY <1>5, <1>10, <2>1, <3>1 DEF Exact
  <2> QED
    BY <2>2, <2>3
<1>12. \A k \in Player : OwnCountOK(k)'
  BY <1>1, <1>3, <1>6 DEF GameOK, OwnCountOK
<1>13. ASSUME NEW k \in Player PROVE CountsKnown(k)'
  <2> SUFFICES ASSUME NEW r \in inGame[k], NEW f \in FirstFrame .. frame[k] - 1,
                      f >= OldestKept(k)
               PROVE  frameData'[k][r][SlotOf(f)].frameCommandCount # Unknown
    BY <1>5 DEF CountsKnown, OldestKept
  <2>1. r \in Player /\ f \in Nat /\ SlotOf(f) \in SlotIndex
    BY <1>1, GameFacts, DConstants, SlotOfType
  <2>2. frameData[k][r][SlotOf(f)].frameCommandCount # Unknown
    BY <1>1 DEF GameOK, CountsKnown
  <2>3. CASE k = p /\ r = q /\ SlotOf(f) = s
    BY <1>6, <1>8, <2>1, <2>2, <2>3 DEF Unknown
  <2>4. CASE ~(k = p /\ r = q /\ SlotOf(f) = s)
    BY <1>6, <2>1, <2>2, <2>4
  <2> QED
    BY <2>3, <2>4
<1>14. NobodyLeaves' /\ \A k \in Player : PlayOK(k)' /\ LeadOK(k)' /\ ExecutedOK(k)'
  BY <1>1, <1>5, <1>10 DEF GameOK, NobodyLeaves, PlayOK, LeadOK, ExecutedOK
<1> QED
  BY <1>2, <1>11, <1>12, <1>13, <1>14 DEF GameOK

-----------------------------------------------------------------------------
(* Executing a frame: what is there of those that are still awaited is all  *)
(* that was created for it.                                                 *)

LEMMA ReadyAsAnnounced ==
    ASSUME GameOK, NEW p \in Player, lastFrame[p] = frame[p], AllCommandsReady(p)
    PROVE  /\ frame[p] \in Window(p)
           /\ FrameCommands(p) \subseteq {c \in created : c.frame = frame[p]}
           /\ \A q \in inGame[p] :
                 /\ CommandsOf(q, frame[p]) \subseteq FrameCommands(p)
                 /\ frame[p] <= lastFrameCompleted[q]
                 /\ frameData[p][q][SlotOf(frame[p])].frameCommandCount # Unknown
<1> DEFINE f == frame[p]
<1>1. /\ AnnounceInv /\ TypeInv /\ f \in Nat /\ f >= 1 /\ localStatus[p] = "INGAME"
      /\ inGame[p] \in SUBSET Player
  BY GameFacts
<1>2. f \in Window(p) /\ SlotOf(f) \in SlotIndex
  BY <1>1, WindowFacts, SlotOfType, ConstantFacts
<1>3. \A q \in Player : frameData[p][q][SlotOf(f)] \in FrameDataType
  BY <1>1, <1>2 DEF TypeInv, TypeOK
<1>4. frameData[p][p][SlotOf(f)].cmds = CommandsOf(p, f) /\ f <= lastFrameCompleted[p]
  BY <1>1, <1>2 DEF AnnounceInv, OwnRingOK, Holds, ClockOK
<1>5. \A q \in Player \ {p} : Exact(frameData[p][q][SlotOf(f)], q, f)
  BY <1>2 DEF GameOK, RingsExact
<1>6. \A q \in inGame[p] : frameData[p][q][SlotOf(f)].frameCommandCount # Unknown
  <2> SUFFICES ASSUME NEW q \in inGame[p]
               PROVE  frameData[p][q][SlotOf(f)].frameCommandCount # Unknown
    OBVIOUS
  <2>1. IsReady(frameData[p][q][SlotOf(f)])
    BY <1>1 DEF AllCommandsReady
  <2> QED
    BY <1>1, <1>3, <2>1 DEF IsReady, FrameDataType, Unknown
<1>7. ASSUME NEW q \in inGame[p], q # p
      PROVE  f <= lastFrameCompleted[q] /\ frameData[p][q][SlotOf(f)].cmds = CommandsOf(q, f)
  <2>1. PICK fd : fd = frameData[p][q][SlotOf(f)]
    OBVIOUS
  <2>2. Exact(fd, q, f) /\ fd.frameCommandCount # Unknown
    BY <1>1, <1>5, <1>6, <1>7, <2>1
  <2>3. IsReady(fd)
    BY <1>1, <2>1 DEF AllCommandsReady
  <2>4. /\ f <= lastFrameCompleted[q] /\ fd.cmds \subseteq CommandsOf(q, f)
        /\ Cardinality(fd.cmds) = Cardinality(CommandsOf(q, f))
    BY <2>2, <2>3 DEF Exact, IsReady
  <2>5. IsFiniteSet(CommandsOf(q, f))
    BY <1>1, FS_Subset DEF AnnounceInv, CreatedOK, CommandsOf
  <2>6. fd.cmds = CommandsOf(q, f)
    BY <2>4, <2>5, FS_Subset
  <2> QED
    BY <2>1, <2>4, <2>6
<1>8. \A q \in Player : frameData[p][q][SlotOf(f)].cmds \subseteq CommandsOf(q, f)
  BY <1>4, <1>5 DEF Exact
<1>9. FrameCommands(p) = UNION {frameData[p][q][SlotOf(f)].cmds : q \in Player}
  BY DEF FrameCommands
<1>10. FrameCommands(p) \subseteq {c \in created : c.frame = f}
  BY <1>8, <1>9 DEF CommandsOf
<1>11. \A q \in inGame[p] : CommandsOf(q, f) \subseteq FrameCommands(p)
  BY <1>1, <1>4, <1>7, <1>9
<1>12. \A q \in inGame[p] : f <= lastFrameCompleted[q]
  BY <1>4, <1>7
<1> QED
  BY <1>2, <1>6, <1>10, <1>11, <1>12

(* Nobody leaves on the frame: all that changes is the clock of the player  *)
(* and the oldest slot of its rings.                                        *)
LEMMA ExecutedFrame ==
    ASSUME GameOK, NEW p \in Player, ExecuteFrame(p)
    PROVE  /\ lastFrame[p] = frame[p] /\ AllCommandsReady(p) /\ frame[p] < MaxFrame
           /\ frame' = [frame EXCEPT ![p] = frame[p] + 1]
           /\ executed' = [executed EXCEPT ![p] = Append(executed[p], FrameCommands(p))]
           /\ UNCHANGED <<lastExecutionFrame, lastFrameCompleted, lastFrame, localStatus,
                          inGame, issued, created, net>>
           /\ \A q \in Player : q # p => frameData'[q] = frameData[q]
           /\ \A r \in Player : \A i \in SlotIndex :
                 frameData'[p][r][i] =
                    IF frame[p] > FramesToKeep /\ i = SlotOf(frame[p] - FramesToKeep)
                      THEN CountIfLocal(p = r, EmptyFrame) ELSE frameData[p][r][i]
<1> DEFINE cmds == FrameCommands(p)
           leaving == {c.player : c \in {d \in cmds : d.type = "LEAVE"}}
           old == frame[p] - FramesToKeep
<1>1. /\ lastFrame[p] = frame[p] /\ AllCommandsReady(p) /\ frame[p] < MaxFrame
      /\ frame' = [frame EXCEPT ![p] = frame[p] + 1]
      /\ executed' = [executed EXCEPT ![p] = Append(executed[p], cmds)]
      /\ inGame' = [inGame EXCEPT ![p] = inGame[p] \ leaving]
      /\ localStatus' = [localStatus EXCEPT ![p] = IF p \in leaving THEN "LEFT" ELSE localStatus[p]]
      /\ frameData' = [frameData EXCEPT ![p] = ClearOldFrame(p, frameData[p])]
      /\ Router(p) \notin leaving => net' = net
      /\ UNCHANGED <<lastExecutionFrame, lastFrameCompleted, lastFrame, issued, created>>
  BY DEF ExecuteFrame
<1>2. /\ AnnounceInv /\ frameData \in [Player -> [Player -> Ring]]
      /\ inGame \in [Player -> SUBSET Player] /\ localStatus \in [Player -> Statuses]
  BY DEF GameOK, AnnounceInv, TypeInv, TypeOK, Ring
<1>3. leaving = {}
  <2>1. cmds \subseteq created
    BY <1>1, ReadyAsAnnounced
  <2> QED
    BY <2>1 DEF GameOK, NobodyLeaves
<1> HIDE DEF leaving, cmds
<1>4. UNCHANGED <<inGame, localStatus, net>>
  BY <1>1, <1>2, <1>3
<1>5. frame[p] > FramesToKeep => old \in Nat /\ SlotOf(old) \in SlotIndex
  BY <1>2, WindowFacts, ConstantFacts, SlotOfType
<1> HIDE DEF old
<1>6. \A q \in Player : q # p => frameData'[q] = frameData[q]
  BY <1>1, <1>2
<1>7. frameData'[p] = ClearOldFrame(p, frameData[p])
  BY <1>1, <1>2
<1>8. ASSUME NEW r \in Player, NEW i \in SlotIndex
      PROVE  frameData'[p][r][i] =
               IF frame[p] > FramesToKeep /\ i = SlotOf(old)
                 THEN CountIfLocal(p = r, EmptyFrame) ELSE frameData[p][r][i]
  <2>1. CASE frame[p] > FramesToKeep
    <3>1. frameData'[p][r] = ResetFrame(p = r, frameData[p][r], old)
      BY <1>7, <2>1 DEF ClearOldFrame, old
    <3>2. frameData[p][r] \in [SlotIndex -> FrameDataType]
      BY <1>2 DEF Ring
    <3> QED
      BY <1>5, <2>1, <3>1, <3>2 DEF ResetFrame
  <2>2. CASE ~(frame[p] > FramesToKeep)
    BY <1>7, <2>2 DEF ClearOldFrame
  <2> QED
    BY <2>1, <2>2
<1> QED
  BY <1>1, <1>4, <1>6, <1>8 DEF cmds, old

LEMMA WindowMoves ==
    ASSUME GameOK, NEW p \in Player, ExecuteFrame(p), NEW f \in Window(p)'
    PROVE  /\ f \in Nat /\ SlotOf(f) \in SlotIndex
           /\ \/ /\ f \in Window(p)
                 /\ \A r \in Player :
                       frameData'[p][r][SlotOf(f)] = frameData[p][r][SlotOf(f)]
              \/ /\ f >= frame[p] + MaxRunAhead
                 /\ \A r \in Player :
                       frameData'[p][r][SlotOf(f)] = CountIfLocal(p = r, EmptyFrame)
<1> DEFINE old == frame[p] - FramesToKeep
           n == FrameDataLength
<1>1. /\ AnnounceInv /\ frame \in [Player -> Nat]
      /\ frame' = [frame EXCEPT ![p] = frame[p] + 1]
      /\ \A r \in Player : \A i \in SlotIndex :
            frameData'[p][r][i] =
               IF frame[p] > FramesToKeep /\ i = SlotOf(old)
                 THEN CountIfLocal(p = r, EmptyFrame) ELSE frameData[p][r][i]
  BY ExecutedFrame DEF GameOK, AnnounceInv, TypeInv, TypeOK
<1>2. CASE ~(frame[p] > FramesToKeep)
  <2>1. Window(p)' = Window(p)
    BY <1>1, <1>2, ConstantFacts DEF Window, OldestKept
  <2>2. f \in Nat /\ SlotOf(f) \in SlotIndex
    BY <1>1, <2>1, WindowFacts, SlotOfType
  <2> QED
    BY <1>1, <1>2, <2>1, <2>2
<1>3. CASE frame[p] > FramesToKeep
  <2>1. old = OldestKept(p) /\ OldestKept(p)' = old + 1 /\ old \in Nat /\ n \in Nat \ {0}
    BY <1>1, <1>3, ConstantFacts DEF OldestKept
  <2>2. /\ f \in Nat /\ f >= old + 1 /\ f <= old + n /\ SlotOf(f) \in SlotIndex
        /\ SlotOf(old) \in SlotIndex
    <3>1. f \in Nat /\ f >= old + 1 /\ f <= old + n
      BY <2>1 DEF Window
    <3> QED
      BY <2>1, <3>1, SlotOfType
  <2>3. CASE f = old + n
    <3>1. SlotOf(f) = SlotOf(old)
      BY <2>1, <2>3, SlotShift
    <3>2. f >= frame[p] + MaxRunAhead
      BY <1>1, <2>3, ConstantFacts
    <3> QED
      BY <1>1, <1>3, <2>2, <3>1, <3>2
  <2>4. CASE f # old + n
    <3>1. f \in Window(p) /\ old \in Window(p) /\ f # old
      BY <2>1, <2>2, <2>4 DEF Window
    <3>2. SlotOf(f) # SlotOf(old)
      BY <1>1, <3>1, WindowFacts
    <3> QED
      BY <1>1, <2>2, <3>1, <3>2
  <2> QED
    BY <2>3, <2>4
<1> QED
  BY <1>2, <1>3

LEMMA GameExecute ==
    ASSUME DInv, NEW p \in Player, ExecuteFrame(p), UNCHANGED removedOn
    PROVE  GameOK'
<1>1. GameOK /\ AnnounceInv /\ frame[p] \in Nat
  BY GameFacts DEF DInv
<1>2. AnnounceInv'
  BY <1>1, AnnounceExecuteFrame
<1>3. /\ lastFrame[p] = frame[p] /\ AllCommandsReady(p) /\ frame[p] < MaxFrame
      /\ frame' = [frame EXCEPT ![p] = frame[p] + 1]
      /\ executed' = [executed EXCEPT ![p] = Append(executed[p], FrameCommands(p))]
      /\ UNCHANGED <<lastExecutionFrame, lastFrameCompleted, lastFrame, localStatus,
                     inGame, issued, created, net>>
      /\ \A q \in Player : q # p => frameData'[q] = frameData[q]
  BY <1>1, ExecutedFrame
<1>4. /\ frame[p] \in Window(p)
      /\ FrameCommands(p) \subseteq {c \in created : c.frame = frame[p]}
      /\ \A q \in inGame[p] :
            /\ CommandsOf(q, frame[p]) \subseteq FrameCommands(p)
            /\ frame[p] <= lastFrameCompleted[q]
            /\ frameData[p][q][SlotOf(frame[p])].frameCommandCount # Unknown
  BY <1>1, <1>3, ReadyAsAnnounced
<1>5. /\ frame \in [Player -> Nat] /\ executed \in [Player -> Seq(SUBSET Command)]
      /\ lastFrameCompleted \in [Player -> Nat] /\ inGame \in [Player -> SUBSET Player]
      /\ frame'[p] = frame[p] + 1 /\ \A q \in Player : q # p => frame'[q] = frame[q]
      /\ frameData \in [Player -> [Player -> Ring]]
  BY <1>1, <1>3 DEF AnnounceInv, TypeInv, TypeOK, Ring
<1>6. \A q : \A f : CommandsOf(q, f)' = CommandsOf(q, f)
  BY <1>3 DEF CommandsOf
<1>7. NobodyLeaves'
  BY <1>1, <1>3 DEF GameOK, NobodyLeaves
<1>8. ASSUME NEW k \in Player PROVE PlayOK(k)'
  <2>1. PlayOK(k)
    BY <1>1 DEF GameOK
  <2>2. CASE k = p
    <3>1. frame'[k] >= FirstFrame /\ frame'[k] <= MaxFrame
      BY <1>1, <1>3, <1>5, <2>1, <2>2, DConstants DEF PlayOK
    <3> QED
      BY <1>3, <2>1, <3>1 DEF PlayOK
  <2>3. CASE k # p
    BY <1>3, <1>5, <2>1, <2>3 DEF PlayOK
  <2> QED
    BY <2>2, <2>3
<1>9. ASSUME NEW k \in Player PROVE LeadOK(k)'
  <2> SUFFICES ASSUME NEW q \in inGame[k] PROVE frame'[k] <= lastFrameCompleted[q] + 1
    BY <1>3 DEF LeadOK
  <2>1. q \in Player /\ lastFrameCompleted[q] \in Nat
    BY <1>5
  <2>2. CASE k = p
    BY <1>4, <1>5, <2>1, <2>2
  <2>3. CASE k # p
    BY <1>1, <1>5, <2>3 DEF GameOK, LeadOK
  <2> QED
    BY <2>2, <2>3
<1>10. ASSUME NEW k \in Player PROVE RingsExact(k)'
  <2>1. CASE k # p
    <3>1. Window(k)' = Window(k) /\ frameData'[k] = frameData[k]
      BY <1>3, <1>5, <2>1 DEF Window, OldestKept
    <3>2. RingsExact(k)
      BY <1>1 DEF GameOK
    <3> QED
      BY <1>3, <1>6, <3>1, <3>2 DEF RingsExact, Exact
  <2>2. CASE k = p
    <3> SUFFICES ASSUME NEW r \in Player \ {p}, NEW f \in Window(p)'
                 PROVE  Exact(frameData[p][r][SlotOf(f)], r, f)'
      BY <2>2 DEF RingsExact
    <3>1. CASE f \in Window(p) /\ frameData'[p][r][SlotOf(f)] = frameData[p][r][SlotOf(f)]
      <4>1. Exact(frameData[p][r][SlotOf(f)], r, f)
        BY <1>1, <3>1 DEF GameOK, RingsExact
      <4> QED
        BY <1>3, <1>6, <3>1, <4>1 DEF Exact
    <3>2. CASE frameData'[p][r][SlotOf(f)] = CountIfLocal(p = r, EmptyFrame)
      <4>1. frameData'[p][r][SlotOf(f)] = EmptyFrame
        BY <3>2 DEF CountIfLocal
      <4> QED
        BY <4>1, FS_EmptySet DEF Exact, EmptyFrame
    <3> QED
      BY <1>1, <3>1, <3>2, WindowMoves
  <2> QED
    BY <2>1, <2>2
<1>11. ASSUME NEW k \in Player PROVE OwnCountOK(k)'
  <2>1. OwnCountOK(k)
    BY <1>1 DEF GameOK
  <2>2. CASE k # p
    BY <1>3, <2>1, <2>2 DEF OwnCountOK
  <2>3. CASE k = p
    <3>1. \A i \in SlotIndex : \/ frameData'[p][p][i] = CountIfLocal(TRUE, EmptyFrame)
                               \/ frameData'[p][p][i] = frameData[p][p][i]
      BY <1>1, ExecutedFrame
    <3>2. CountIfLocal(TRUE, EmptyFrame).frameCommandCount
            = CountIfLocal(TRUE, EmptyFrame).commandCount
      BY DEF CountIfLocal, SetFrameCommandCount, EmptyFrame
    <3> QED
      BY <2>1, <2>3, <3>1, <3>2 DEF OwnCountOK
  <2> QED
    BY <2>2, <2>3
<1>12. ASSUME NEW k \in Player PROVE CountsKnown(k)'
  <2>1. CountsKnown(k)
    BY <1>1 DEF GameOK
  <2>2. CASE k # p
    <3>1. /\ frame'[k] = frame[k] /\ OldestKept(k)' = OldestKept(k)
          /\ frameData'[k] = frameData[k] /\ inGame'[k] = inGame[k]
      BY <1>3, <1>5, <2>2 DEF OldestKept
    <3> QED
      BY <2>1, <3>1 DEF CountsKnown
  <2>3. CASE k = p
    <3> SUFFICES ASSUME NEW q \in inGame[p], NEW f \in FirstFrame .. frame[p],
                        f >= OldestKept(p)'
                 PROVE  frameData'[p][q][SlotOf(f)].frameCommandCount # Unknown
      BY <1>3, <1>5, <2>3 DEF CountsKnown
    <3> PICK kept : kept = OldestKept(p)'
      OBVIOUS
    <3>1. q \in Player /\ f \in Nat /\ f <= frame[p] /\ FramesToKeep \in Nat
      BY <1>1, <1>5, DConstants, ConstantFacts
    <3>2. kept = IF frame[p] + 1 > FramesToKeep THEN frame[p] + 1 - FramesToKeep ELSE 1
      <4>1. frame'[p] = frame[p] + 1
        BY <1>5
      <4> QED
        BY <1>1, <3>1, <4>1 DEF OldestKept
    <3>3. Window(p)' = kept .. kept + FrameDataLength - 1
      BY DEF Window
    <3>4. f >= kept /\ kept \in Nat /\ OldestKept(p) <= kept /\ OldestKept(p) \in Nat
      <4>1. f >= kept
        OBVIOUS
      <4>2. kept \in Nat /\ OldestKept(p) <= kept /\ OldestKept(p) \in Nat
        BY <1>1, <3>1, <3>2 DEF OldestKept
      <4> QED
        BY <4>1, <4>2
    <3>5. f \in Window(p)'
      BY <1>1, <3>1, <3>2, <3>3, <3>4, ConstantFacts
    <3>6. frameData'[p][q][SlotOf(f)] = frameData[p][q][SlotOf(f)]
      <4>1. ~(f >= frame[p] + MaxRunAhead)
        BY <1>5, <3>1, ConstantFacts
      <4> QED
        BY <1>1, <3>1, <3>5, <4>1, WindowMoves
    <3>7. frameData[p][q][SlotOf(f)].frameCommandCount # Unknown
      <4>1. CASE f = frame[p]
        BY <1>4, <4>1
      <4>2. CASE f # frame[p]
        <5>1. f \in FirstFrame .. frame[p] - 1 /\ f >= OldestKept(p)
          BY <1>1, <3>1, <3>4, <4>2, DConstants
        <5> QED
          BY <2>1, <2>3, <5>1 DEF CountsKnown
      <4> QED
        BY <4>1, <4>2
    <3> QED
      BY <3>6, <3>7
  <2> QED
    BY <2>2, <2>3
<1>13. ASSUME NEW k \in Player PROVE ExecutedOK(k)'
  <2>1. ExecutedOK(k)
    BY <1>1 DEF GameOK
  <2>2. CASE k # p
    <3>1. executed'[k] = executed[k] /\ frame'[k] = frame[k]
      BY <1>3, <1>5, <2>2
    <3> QED
      BY <1>3, <1>6, <2>1, <3>1 DEF ExecutedOK
  <2>3. CASE k = p
    <3> DEFINE cmds == FrameCommands(p)
    <3>1. /\ executed[p] \in Seq(SUBSET Command) /\ cmds \in SUBSET Command
          /\ Len(executed[p]) = frame[p] - 1 /\ frame[p] >= 1
          /\ executed'[p] = Append(executed[p], cmds)
      BY <1>1, <1>3, <1>4, <1>5, <2>1, <2>3, GameFacts
         DEF ExecutedOK, AnnounceInv, TypeInv, TypeOK
    <3> HIDE DEF cmds
    <3>2. /\ Len(executed'[p]) = frame[p]
          /\ executed'[p][frame[p]] = cmds
          /\ \A f \in 1 .. frame[p] - 1 : executed'[p][f] = executed[p][f]
      BY <1>1, <3>1
    <3>3. ASSUME NEW f \in 1 .. frame[p]
          PROVE  /\ \A c \in executed'[p][f] : c \in created /\ c.frame = f
                 /\ \A q \in Player :
                       removedOn[p][q] \in 1 .. f \/ CommandsOf(q, f) \subseteq executed'[p][f]
      <4>1. CASE f = frame[p]
        <5>1. \A c \in executed'[p][f] : c \in created /\ c.frame = f
          BY <1>4, <3>2, <4>1 DEF cmds
        <5>2. \A q \in inGame[p] : CommandsOf(q, f) \subseteq executed'[p][f]
          BY <1>4, <3>2, <4>1 DEF cmds
        <5>3. \A q \in Player : q \notin inGame[p] => removedOn[p][q] \in 1 .. f
          <6>1. RemovedOK(p) /\ \A q \in Player : removedOn[p][q] \in Nat
            BY DEF DInv, ManagerOK, ManagerTypes
          <6> QED
            BY <1>1, <4>1, <6>1 DEF RemovedOK
        <5> QED
          BY <5>1, <5>2, <5>3
      <4>2. CASE f # frame[p]
        <5>1. f \in 1 .. frame[p] - 1
          BY <1>1, <4>2
        <5> QED
          BY <2>1, <2>3, <3>2, <5>1 DEF ExecutedOK
      <4> QED
        BY <4>1, <4>2
    <3>4. frame'[p] - 1 = frame[p]
      BY <1>1, <1>5
    <3> QED
      BY <1>3, <1>6, <2>3, <3>2, <3>3, <3>4 DEF ExecutedOK
  <2> QED
    BY <2>2, <2>3
<1> QED
  BY <1>2, <1>7, <1>8, <1>9, <1>10, <1>11, <1>12, <1>13 DEF GameOK

-----------------------------------------------------------------------------
(* Going on without a player: its frames are thrown away.  The one that     *)
(* decides it creates a command as well.                                    *)

LEMMA EmptyRings ==
    /\ EmptyRing(FALSE) \in Ring
    /\ \A i \in SlotIndex : EmptyRing(FALSE)[i] = EmptyFrame
    /\ EmptyFrame.cmds = {} /\ EmptyFrame \in FrameDataType
    /\ \A q, f : Exact(EmptyFrame, q, f)
<1>1. EmptyFrame \in FrameDataType /\ EmptyFrame.cmds = {}
  BY DEF EmptyFrame, FrameDataType, Unknown
<1>2. \A i \in SlotIndex : EmptyRing(FALSE)[i] = EmptyFrame
  BY DEF EmptyRing, CountIfLocal
<1>3. EmptyRing(FALSE) \in Ring
  BY <1>1 DEF EmptyRing, CountIfLocal, Ring
<1>4. \A q, f : Exact(EmptyFrame, q, f)
  BY FS_EmptySet DEF Exact, EmptyFrame
<1> QED
  BY <1>1, <1>2, <1>3, <1>4

LEMMA GameLoses ==
    ASSUME DInv, AnnounceInv', NobodyLeaves', NEW p \in Player, Up(p), NEW q \in Peers(p),
           inGame' = [inGame EXCEPT ![p] = inGame[p] \ {q}],
           removedOn' = [removedOn EXCEPT ![p][q] = frame[p]],
           UNCHANGED <<frame, lastFrameCompleted, localStatus, executed>>,
           \A k, r \in Player : ~(k = p /\ r \in {p, q}) => frameData'[k][r] = frameData[k][r],
           frameData'[p][q] = EmptyRing(FALSE),
           OwnCountOK(p)',
           created \subseteq created',
           \A c \in created' \ created : c.player = p /\ c.frame > lastFrameCompleted[p]
    PROVE  GameOK'
<1>1. GameOK /\ AnnounceInv /\ p \in inGame[p] /\ q \in Player /\ q # p
  <2>1. GameOK
    BY DEF DInv
  <2> QED
    BY <2>1, GameFacts DEF Peers
<1>2. /\ frame \in [Player -> Nat] /\ lastFrameCompleted \in [Player -> Nat]
      /\ inGame \in [Player -> SUBSET Player] /\ created' \in SUBSET Command
      /\ frameData' \in [Player -> [Player -> Ring]]
      /\ removedOn \in [Player -> [Player -> Nat]]
  BY <1>1 DEF AnnounceInv, TypeInv, TypeOK, Ring, DInv, ManagerOK, ManagerTypes
<1>3. \A k \in Player : /\ inGame'[k] \subseteq inGame[k]
                        /\ inGame'[k] = IF k = p THEN inGame[k] \ {q} ELSE inGame[k]
  BY <1>2
<1>4. \A k \in Player : /\ Window(k)' = Window(k) /\ Window(k) \subseteq Nat
                        /\ OldestKept(k)' = OldestKept(k)
  BY <1>1, WindowFacts DEF Window, OldestKept
<1>5. \A r \in Player : \A f \in Nat :
         /\ CommandsOf(r, f) \subseteq CommandsOf(r, f)'
         /\ r # p \/ f <= lastFrameCompleted[p] => CommandsOf(r, f)' = CommandsOf(r, f)
  <2>1. \A c \in created' \ created : c.player = p /\ c.frame > lastFrameCompleted[p]
    OBVIOUS
  <2>2. \A c \in created' : c.frame \in Nat
    BY <1>2 DEF Command
  <2>3. lastFrameCompleted[p] \in Nat
    BY <1>2
  <2> QED
    BY <2>1, <2>2, <2>3 DEF CommandsOf
<1>6. \A k \in Player : PlayOK(k)' /\ LeadOK(k)'
  BY <1>1, <1>3 DEF GameOK, PlayOK, LeadOK
<1>7. ASSUME NEW k \in Player PROVE RingsExact(k)'
  <2> SUFFICES ASSUME NEW r \in Player \ {k}, NEW f \in Window(k)
               PROVE  Exact(frameData[k][r][SlotOf(f)], r, f)'
    BY <1>4 DEF RingsExact
  <2>1. f \in Nat /\ SlotOf(f) \in SlotIndex /\ Exact(frameData[k][r][SlotOf(f)], r, f)
    BY <1>1, <1>4, SlotOfType DEF GameOK, RingsExact
  <2>2. CASE k = p /\ r = q
    <3>1. frameData'[k][r][SlotOf(f)] = EmptyFrame
      BY <2>1, <2>2, EmptyRings
    <3> QED
      BY <3>1, FS_EmptySet DEF Exact, EmptyFrame
  <2>3. CASE ~(k = p /\ r = q)
    <3>1. frameData'[k][r] = frameData[k][r]
      BY <2>3
    <3>2. PICK fd : fd = frameData[k][r][SlotOf(f)]
      OBVIOUS
    <3>3. fd.cmds \subseteq CommandsOf(r, f)' /\ fd.commandCount = Cardinality(fd.cmds)
      BY <1>5, <2>1, <3>2 DEF Exact
    <3>4. ASSUME fd.frameCommandCount # Unknown
          PROVE  /\ fd.frameCommandCount = Cardinality(CommandsOf(r, f)')
                 /\ f <= lastFrameCompleted[r]
      <4>1. /\ fd.frameCommandCount = Cardinality(CommandsOf(r, f))
            /\ f <= lastFrameCompleted[r]
        BY <2>1, <3>2, <3>4 DEF Exact
      <4>2. CommandsOf(r, f)' = CommandsOf(r, f)
        BY <1>5, <2>1, <4>1
      <4> QED
        BY <4>1, <4>2
    <3> QED
      BY <3>1, <3>2, <3>3, <3>4 DEF Exact
  <2> QED
    BY <2>2, <2>3
<1>8. \A k \in Player : OwnCountOK(k)'
  <2>1. ASSUME NEW k \in Player, k # p PROVE OwnCountOK(k)'
    <3>1. frameData'[k][k] = frameData[k][k] /\ OwnCountOK(k)
      BY <1>1, <2>1 DEF GameOK
    <3> QED
      BY <3>1 DEF OwnCountOK
  <2> QED
    BY <2>1
<1>9. ASSUME NEW k \in Player PROVE CountsKnown(k)'
  <2> SUFFICES ASSUME NEW r \in inGame'[k], NEW f \in FirstFrame .. frame[k] - 1,
                      f >= OldestKept(k)
               PROVE  frameData'[k][r][SlotOf(f)].frameCommandCount # Unknown
    BY <1>4 DEF CountsKnown
  <2>1. f \in Nat /\ SlotOf(f) \in SlotIndex /\ r \in Player
    BY <1>2, <1>3, DConstants, SlotOfType
  <2>2. CASE k = p /\ r = p
    <3>1. frameData'[p][p][SlotOf(f)] \in FrameDataType
      BY <1>2, <2>1 DEF Ring
    <3>2. frameData'[p][p][SlotOf(f)].frameCommandCount = frameData'[p][p][SlotOf(f)].commandCount
      BY <2>1 DEF OwnCountOK
    <3> QED
      BY <2>2, <3>1, <3>2 DEF FrameDataType, Unknown
  <2>3. CASE ~(k = p /\ r = p)
    <3>1. r \in inGame[k] /\ ~(k = p /\ r = q)
      BY <1>3
    <3>2. frameData'[k][r] = frameData[k][r]
      BY <2>1, <2>3, <3>1
    <3> QED
      BY <1>1, <3>1, <3>2 DEF GameOK, CountsKnown
  <2> QED
    BY <2>2, <2>3
<1>10. ASSUME NEW k \in Player PROVE ExecutedOK(k)'
  <2>1. ExecutedOK(k) /\ frame[k] \in Nat
    BY <1>1, <1>2 DEF GameOK
  <2>2. Len(executed'[k]) = frame'[k] - 1
    BY <2>1 DEF ExecutedOK
  <2>3. ASSUME NEW f \in 1 .. frame[k] - 1
        PROVE  /\ \A c \in executed[k][f] : c \in created' /\ c.frame = f
               /\ \A r \in Player : \/ removedOn'[k][r] \in 1 .. f
                                    \/ CommandsOf(r, f)' \subseteq executed[k][f]
    <3>1. f \in Nat
      BY <2>1
    <3>2. \A c \in executed[k][f] : c \in created' /\ c.frame = f
      BY <2>1 DEF ExecutedOK
    <3>3. ASSUME NEW r \in Player
          PROVE  removedOn'[k][r] \in 1 .. f \/ CommandsOf(r, f)' \subseteq executed[k][f]
      <4>1. CommandsOf(r, f)' = CommandsOf(r, f)
        <5>1. frame[k] <= lastFrameCompleted[p] + 1 /\ lastFrameCompleted[p] \in Nat
          BY <1>2, UpIsAwaited
        <5>2. f <= lastFrameCompleted[p]
          BY <2>1, <3>1, <5>1
        <5> QED
          BY <1>5, <3>1, <5>2
      <4>2. removedOn[k][r] \in 1 .. f \/ CommandsOf(r, f) \subseteq executed[k][f]
        BY <2>1 DEF ExecutedOK
      <4>3. CASE k = p /\ r = q
        <5>1. removedOn[p][q] = 0
          BY <1>1 DEF DInv, ManagerOK, RemovedOK, Peers
        <5> QED
          BY <4>1, <4>2, <4>3, <5>1
      <4>4. CASE ~(k = p /\ r = q)
        <5>1. removedOn'[k][r] = removedOn[k][r]
          BY <1>2, <4>4
        <5> QED
          BY <4>1, <4>2, <5>1
      <4> QED
        BY <4>3, <4>4
    <3> QED
      BY <3>2, <3>3
  <2> QED
    BY <2>2, <2>3 DEF ExecutedOK
<1> QED
  BY <1>6, <1>7, <1>8, <1>9, <1>10 DEF GameOK

(* The router that is left is a player, and what is sent to it again was    *)
(* sent before.                                                             *)
LEMMA RerouteOK ==
    ASSUME GameOK, NEW p \in Player, NEW q \in Peers(p)
    PROVE  /\ RouterWithout(p, q) \in Player
           /\ Peers(p) \ {q} \in SUBSET Player /\ p \notin Peers(p) \ {q}
           /\ \A h \in ResendIfRouter(p, q) : HopOK(h)
<1>1. /\ AnnounceInv /\ p \in inGame[p] /\ inGame[p] \in SUBSET Player /\ q # p
  BY GameFacts DEF Peers
<1> DEFINE left == inGame[p] \ {q}
           peers == Peers(p) \ {q}
           router == RouterWithout(p, q)
<1>2. router \in Player
  <2>1. left \in SUBSET Player /\ left # {}
    BY <1>1
  <2>2. \E r \in left : \A s \in left : r <= s
    <3> HIDE DEF left
    <3> QED
      BY <2>1, FirstPlayer
  <2>3. router \in left
    BY <2>2, Zenon DEF RouterWithout
  <2> QED
    BY <2>1, <2>3
<1>3. peers \in SUBSET Player /\ p \notin peers
  BY <1>1 DEF Peers
<1> HIDE DEF left, peers, router
<1>4. ASSUME NEW h \in ResendPending(p, q, router, peers) PROVE HopOK(h)
  <2>1. /\ h \in Hops
        /\ \E g \in net : /\ g.cmd.player = p /\ h.cmd = g.cmd
                          /\ h \in SendVia(p, router, g.relay, peers, g.cmd)
    BY <1>1, <1>2, <1>3, ResendTypes DEF AnnounceInv
  <2>2. PICK g \in net : /\ g.cmd.player = p /\ h.cmd = g.cmd
                         /\ h \in SendVia(p, router, g.relay, peers, g.cmd)
    BY <2>1
  <2>3. HopOK(g) /\ g.relay \in SUBSET Player
    BY <1>1, HopsOK DEF HopOK, Hops
  <2>4. h.dst # p /\ p \notin h.relay
    BY <1>2, <1>3, <2>2, <2>3, SendNotToSelf
  <2> QED
    BY <2>1, <2>2, <2>3, <2>4 DEF HopOK
<1>5. \A h \in ResendIfRouter(p, q) : HopOK(h)
  <2>1. \A h \in ResendIfRouter(p, q) : h \in ResendPending(p, q, router, peers)
    BY DEF ResendIfRouter, router, peers
  <2> QED
    BY <1>4, <2>1
<1> QED
  BY <1>2, <1>3, <1>5 DEF peers, router

LEMMA AnnounceLoses ==
    ASSUME GameOK, NEW p \in Player, NEW q \in Peers(p), \A h \in net' : HopOK(h),
           inGame' = [inGame EXCEPT ![p] = inGame[p] \ {q}],
           frameData' = [frameData EXCEPT ![p][q] = EmptyRing(FALSE)],
           UNCHANGED <<frame, clock, issued, created, executed>>
    PROVE  AnnounceInv'
<1>1. AnnounceInv /\ TypeInv /\ q \in Player /\ q # p /\ p \in inGame[p]
  BY GameFacts DEF Peers
<1>2. frameData \in [Player -> [Player -> Ring]] /\ inGame \in [Player -> SUBSET Player]
  BY <1>1 DEF TypeInv, TypeOK, Ring
<1>3. /\ frameData' \in [Player -> [Player -> Ring]]
      /\ frameData'[p][q] = EmptyRing(FALSE)
      /\ \A k, r \in Player : ~(k = p /\ r = q) => frameData'[k][r] = frameData[k][r]
  BY <1>1, <1>2, EmptyRings
<1>4. TypeInv'
  <2>1. net' \in SUBSET Hops
    BY DEF HopOK
  <2>2. inGame' \in [Player -> SUBSET Player]
    BY <1>2
  <2>3. frameData' \in [Player -> [Player -> [SlotIndex -> FrameDataType]]]
    BY <1>3 DEF Ring
  <2>4. TypeOK'
    BY <1>1, <2>1, <2>2, <2>3 DEF TypeInv, TypeOK, clock
  <2>5. NotAlone'
    BY <1>1, <1>2 DEF TypeInv, NotAlone, clock
  <2>6. Stored'
    <3> SUFFICES ASSUME NEW k \in Player, NEW r \in Player, NEW i \in SlotIndex
                 PROVE  frameData'[k][r][i].cmds \subseteq {c \in created : c.player = r}
      BY DEF Stored
    <3>1. CASE k = p /\ r = q
      BY <1>3, <3>1, EmptyRings
    <3>2. CASE ~(k = p /\ r = q)
      BY <1>1, <1>3, <3>2 DEF TypeInv, Stored
    <3> QED
      BY <3>1, <3>2
  <2>7. IdsBounded'
    BY <1>1 DEF TypeInv, IdsBounded
  <2>8. Sent'
    BY DEF Sent, HopOK
  <2> QED
    BY <2>4, <2>5, <2>6, <2>7, <2>8 DEF TypeInv
<1>5. (\A k \in Player : ClockOK(k)') /\ CreatedOK'
  BY <1>1 DEF AnnounceInv, ClockOK, CreatedOK, LastCreated, Leaving, clock
<1>6. NotToSelf'
  BY DEF NotToSelf, HopOK
<1>7. \A k \in Player : LastAnnounced(k)' = LastAnnounced(k)
  BY DEF LastAnnounced, Leaving, clock
<1>8. AnnouncedOK'
  <2> SUFFICES ASSUME NEW h \in net', h.cmd.type = "FRAMEINFO"
               PROVE  h.cmd.frame <= LastAnnounced(h.cmd.player)'
    BY DEF AnnouncedOK
  <2>1. HopOK(h) /\ h.cmd.player \in Player
    BY DEF HopOK, Hops, Command
  <2> QED
    BY <1>7, <2>1 DEF HopOK
<1>9. AnnouncedCountIsFinal'
  BY DEF AnnouncedCountIsFinal, HopOK, CommandsOf
<1>10. \A k \in Player : OwnRingOK(k)'
  <2>1. \A k \in Player : frameData'[k][k] = frameData[k][k]
    BY <1>1, <1>3
  <2> QED
    BY <1>1, <2>1 DEF AnnounceInv, OwnRingOK, CommandsOf, Window, OldestKept
<1> QED
  BY <1>4, <1>5, <1>6, <1>8, <1>9, <1>10 DEF AnnounceInv

LEMMA GameGoesOn ==
    ASSUME DInv, NEW p \in Player, Up(p), NEW m \in notices, ProcessDisconnectPlayer(p, m)
    PROVE  GameOK'
<1> DEFINE q == m.slot
<1>1. GameOK /\ AnnounceInv
  BY DEF DInv, GameOK
<1>2. /\ q \in Peers(p)
      /\ inGame' = [inGame EXCEPT ![p] = inGame[p] \ {q}]
      /\ removedOn' = [removedOn EXCEPT ![p][q] = frame[p]]
      /\ frameData' = [frameData EXCEPT ![p][q] = EmptyRing(FALSE)]
      /\ net' = net \cup ResendIfRouter(p, q)
      /\ UNCHANGED <<frame, clock, issued, created, executed>>
  BY DEF ProcessDisconnectPlayer, DisconnectPlayer
<1> HIDE DEF q
<1>3. \A h \in net' : HopOK(h)
  BY <1>1, <1>2, HopsOK, RerouteOK
<1>4. AnnounceInv'
  BY <1>1, <1>2, <1>3, AnnounceLoses
<1>5. frameData \in [Player -> [Player -> Ring]] /\ q \in Player /\ q # p
  BY <1>1, <1>2 DEF AnnounceInv, TypeInv, TypeOK, Ring, Peers
<1>6. /\ \A k, r \in Player : ~(k = p /\ r \in {p, q}) => frameData'[k][r] = frameData[k][r]
      /\ frameData'[p][q] = EmptyRing(FALSE) /\ frameData'[p][p] = frameData[p][p]
  BY <1>2, <1>5
<1>7. OwnCountOK(p)' /\ NobodyLeaves'
  BY <1>1, <1>2, <1>6 DEF GameOK, OwnCountOK, NobodyLeaves
<1>8. created \subseteq created' /\ created' \ created = {}
  BY <1>2
<1> QED
  BY <1>2, <1>4, <1>6, <1>7, <1>8, GameLoses DEF clock

(* The command of the player that goes on first: it is for a frame nobody   *)
(* has announced, and one after the execution frame.                        *)
LEMMA GameRemove ==
    ASSUME DInv, NEW p \in Player, Up(p), NEW q \in Player, RemovePlayer(p, q)
    PROVE  GameOK'
<1> DEFINE exec == ExecutionFrame(p)
           cmd == Cmd("DESTROYPLAYER", p, exec + 1, issued[p] + 1, q)
           ring == AddNetCommandMsg(TRUE, frameData[p][p], cmd)
           router == RouterWithout(p, q)
           peers == Peers(p) \ {q}
           sent == SendVia(p, router, Player, peers, cmd)
           resent == ResendIfRouter(p, q)
<1>1. /\ GameOK /\ AnnounceInv /\ TypeInv /\ p \in inGame[p] /\ q # p /\ q \in Peers(p)
      /\ localStatus[p] = "INGAME" /\ ~Leaving(p)
  <2>1. GameOK /\ q \in Peers(p)
    BY DEF DInv, RemovePlayer
  <2> QED
    BY <2>1, GameFacts DEF Peers
<1>2. /\ frame \in [Player -> Nat] /\ lastFrameCompleted \in [Player -> Nat]
      /\ lastExecutionFrame \in [Player -> Nat] /\ issued \in [Player -> Nat]
      /\ frameData \in [Player -> [Player -> Ring]] /\ inGame \in [Player -> SUBSET Player]
      /\ created \in SUBSET Command
  BY <1>1 DEF TypeInv, TypeOK, Ring
<1>3. /\ lastFrameCompleted[p] < exec /\ frame[p] < exec /\ exec \in Nat
      /\ exec >= lastExecutionFrame[p] /\ exec <= frame[p] + MaxRunAhead
  BY <1>1, ExecutionFrameAhead, WindowFacts
<1>4. /\ cmd \in Command /\ cmd.player = p /\ cmd.frame = exec + 1
      /\ cmd.id = issued[p] + 1 /\ cmd.type = "DESTROYPLAYER"
  <2> HIDE DEF exec
  <2>1. exec + 1 \in Nat /\ issued[p] + 1 \in Nat /\ q \in Nat
    BY <1>2, <1>3, ConstantFacts
  <2> QED
    BY <2>1 DEF Cmd, Command, CommandTypes
<1>5. /\ inGame' = [inGame EXCEPT ![p] = inGame[p] \ {q}]
      /\ removedOn' = [removedOn EXCEPT ![p][q] = frame[p]]
      /\ issued' = [issued EXCEPT ![p] = issued[p] + 1]
      /\ created' = created \cup {cmd}
      /\ lastExecutionFrame' = [lastExecutionFrame EXCEPT ![p] = exec]
      /\ net' = net \cup resent \cup sent
      /\ UNCHANGED <<frame, runAhead, lastFrameCompleted, lastFrame, localStatus, executed>>
  BY DEF RemovePlayer, DisconnectPlayer
<1>6. /\ frameData'[p][q] = EmptyRing(FALSE) /\ frameData'[p][p] = ring
      /\ \A k, r \in Player : ~(k = p /\ r \in {p, q}) => frameData'[k][r] = frameData[k][r]
      /\ frameData' \in [Player -> [Player -> Ring]]
      /\ \A i \in SlotIndex : ring[i].cmds \subseteq {c \in created' : c.player = p}
      /\ created' \in SUBSET Command /\ \E b \in Nat : \A c \in created' : c.id <= b
  <2>1. frameData' = [frameData EXCEPT ![p][q] = EmptyRing(FALSE), ![p][p] = ring]
    <3>1. frameData' = [frameData EXCEPT ![p][q] = EmptyRing(FALSE),
                                         ![p][p] = AddNetCommandMsg(TRUE, @, cmd)]
      BY DEF RemovePlayer
    <3> HIDE DEF cmd
    <3> QED
      BY <1>1, <1>2, <3>1
  <2>2. /\ ring \in Ring
        /\ \A i \in SlotIndex : ring[i].cmds \subseteq {c \in created \cup {cmd} : c.player = p}
        /\ created \cup {cmd} \in SUBSET Command
        /\ \E b \in Nat : \A c \in created \cup {cmd} : c.id <= b
    <3> DEFINE made == cmd
    <3>1. made \in Command /\ made.player = p /\ localStatus[p] # "LEFT"
      BY <1>1, <1>4
    <3> HIDE DEF cmd, made
    <3>2. /\ AddNetCommandMsg(TRUE, frameData[p][p], made) \in Ring
          /\ \A i \in SlotIndex :
                AddNetCommandMsg(TRUE, frameData[p][p], made)[i].cmds
                   \subseteq {c \in created \cup {made} : c.player = p}
          /\ created \cup {made} \in SUBSET Command
          /\ \E b \in Nat : \A c \in created \cup {made} : c.id <= b
      BY <1>1, <3>1, CreateTypes
    <3> QED
      BY <3>2 DEF made
  <2> HIDE DEF ring, cmd
  <2>3. /\ frameData'[p][q] = EmptyRing(FALSE) /\ frameData'[p][p] = ring
        /\ \A k, r \in Player : ~(k = p /\ r \in {p, q}) => frameData'[k][r] = frameData[k][r]
        /\ frameData' \in [Player -> [Player -> Ring]]
    BY <1>1, <1>2, <2>1, <2>2, EmptyRings
  <2> QED
    BY <1>5, <2>2, <2>3
<1>7. /\ \A h \in resent : HopOK(h)
      /\ router \in Player /\ peers \in SUBSET Player /\ p \notin peers
  BY <1>1, RerouteOK
<1>8. \A h \in sent : h.cmd = cmd /\ h \in Hops /\ h.dst # p /\ p \notin h.relay
  <2> DEFINE made == cmd
             all == Player
  <2>1. made \in Command /\ all \in SUBSET Player
    BY <1>4
  <2>2. sent = SendVia(p, router, all, peers, made)
    OBVIOUS
  <2> HIDE DEF made, all, sent, router, peers, cmd
  <2>3. \A h \in sent : h.cmd = made /\ h \in Hops
    BY <1>7, <2>1, <2>2, SendTypes
  <2>4. \A h \in sent : h.dst # p /\ p \notin h.relay
    BY <1>7, <2>1, <2>2, SendNotToSelf
  <2> QED
    BY <2>3, <2>4 DEF made
<1> HIDE DEF exec, cmd, router, peers, sent, resent
<1>9. cmd.frame \in Window(p) /\ cmd.frame > lastFrameCompleted[p]
  <2>1. /\ cmd.frame \in Nat /\ cmd.frame >= frame[p] /\ cmd.frame >= 1
        /\ cmd.frame <= frame[p] + MaxRunAhead + 1
    BY <1>2, <1>3, <1>4, ConstantFacts
  <2> QED
    BY <1>1, <1>2, <1>3, <1>4, <2>1, WindowFacts
<1>10. TypeInv'
  <2>1. net' \in SUBSET Hops
    BY <1>1, <1>5, <1>7, <1>8, HopsOK DEF HopOK
  <2>2. /\ inGame' \in [Player -> SUBSET Player] /\ issued' \in [Player -> Nat]
        /\ lastExecutionFrame' \in [Player -> Nat]
    BY <1>2, <1>3, <1>5
  <2>3. TypeOK'
    BY <1>1, <1>5, <1>6, <2>1, <2>2 DEF TypeInv, TypeOK, Ring
  <2>4. NotAlone'
    BY <1>1, <1>2, <1>5 DEF TypeInv, NotAlone
  <2>5. Stored'
    <3> SUFFICES ASSUME NEW k \in Player, NEW r \in Player, NEW i \in SlotIndex
                 PROVE  frameData'[k][r][i].cmds \subseteq {c \in created' : c.player = r}
      BY DEF Stored
    <3>1. CASE k = p /\ r = q
      BY <1>6, <3>1, EmptyRings
    <3>2. CASE k = p /\ r = p
      BY <1>6, <3>2
    <3>3. CASE ~(k = p /\ r \in {p, q})
      <4>1. frameData'[k][r][i].cmds \subseteq {c \in created : c.player = r}
        BY <1>1, <1>6, <3>3 DEF TypeInv, Stored
      <4> QED
        BY <1>5, <4>1
    <3> QED
      BY <3>1, <3>2, <3>3
  <2>6. IdsBounded'
    BY <1>6 DEF IdsBounded
  <2>7. Sent'
    <3> SUFFICES ASSUME NEW h \in net', h.cmd.type # "FRAMEINFO" PROVE h.cmd \in created'
      BY DEF Sent
    <3>1. CASE h \in sent
      BY <1>5, <1>8, <3>1
    <3>2. CASE h \in net \cup resent
      BY <1>1, <1>5, <1>7, <3>2, HopsOK DEF HopOK
    <3> QED
      BY <1>5, <3>1, <3>2
  <2> QED
    BY <2>3, <2>4, <2>5, <2>6, <2>7 DEF TypeInv
<1>11. /\ \A k \in Player : OwnRingOK(k)'
       /\ \A k \in Player : \A f \in Nat :
             f <= LastAnnounced(k) => CommandsOf(k, f)' = CommandsOf(k, f)
  <2>1. \A k \in Player : frameData'[k][k] = IF k = p THEN ring ELSE frameData[k][k]
    BY <1>6
  <2>2. ring = AddNetCommandMsg(TRUE, frameData[p][p], cmd)
    OBVIOUS
  <2> HIDE DEF ring
  <2>3. created' = created \cup {cmd} /\ frame' = frame
    BY <1>5
  <2> QED
    BY <1>1, <1>4, <1>9, <2>1, <2>2, <2>3, CreateKeeps
<1> HIDE DEF ring
<1>12. NotToSelf'
  BY <1>1, <1>4, <1>5, <1>7, <1>8, HopsOK DEF NotToSelf, HopOK
<1>13. \A k \in Player : LastAnnounced(k)' = LastAnnounced(k) /\ LastAnnounced(k) \in Nat
  BY <1>2, <1>5 DEF LastAnnounced, Leaving
<1>14. AnnouncedOK' /\ AnnouncedCountIsFinal'
  <2> SUFFICES ASSUME NEW h \in net', h.cmd.type = "FRAMEINFO"
               PROVE  /\ h.cmd.frame <= LastAnnounced(h.cmd.player)'
                      /\ h.cmd.arg = Cardinality(CommandsOf(h.cmd.player, h.cmd.frame)')
    BY DEF AnnouncedOK, AnnouncedCountIsFinal
  <2>1. h \notin sent
    BY <1>4, <1>8
  <2>2. HopOK(h) /\ h.cmd.player \in Player /\ h.cmd.frame \in Nat
    BY <1>1, <1>5, <1>7, <2>1, HopsOK DEF HopOK, Hops, Command
  <2>3. /\ h.cmd.frame <= LastAnnounced(h.cmd.player)
        /\ h.cmd.arg = Cardinality(CommandsOf(h.cmd.player, h.cmd.frame))
    BY <2>2 DEF HopOK
  <2>4. CommandsOf(h.cmd.player, h.cmd.frame)' = CommandsOf(h.cmd.player, h.cmd.frame)
    BY <1>11, <2>2, <2>3
  <2> QED
    BY <1>13, <2>2, <2>3, <2>4
<1>15. \A k \in Player : ClockOK(k)'
  <2> SUFFICES ASSUME NEW k \in Player PROVE ClockOK(k)'
    OBVIOUS
  <2>1. ClockOK(k)
    BY <1>1 DEF AnnounceInv
  <2>2. CASE k = p
    <3>1. lastExecutionFrame'[p] = exec /\ lastExecutionFrame[p] \in Nat
      BY <1>2, <1>5
    <3> QED
      BY <1>1, <1>2, <1>3, <1>5, <2>1, <2>2, <3>1, ConstantFacts DEF ClockOK, Leaving
  <2>3. CASE k # p
    BY <1>2, <1>5, <2>1, <2>3 DEF ClockOK, Leaving
  <2> QED
    BY <2>2, <2>3
<1>16. CreatedOK'
  <2>1. IsFiniteSet(created')
    BY <1>1, <1>5, FS_AddElement DEF AnnounceInv, CreatedOK
  <2>2. /\ LastCreated(p)' = exec + 1 /\ issued'[p] = issued[p] + 1
        /\ LastCreated(p) = lastExecutionFrame[p] + 1
    BY <1>2, <1>5 DEF LastCreated
  <2>3. ASSUME NEW c \in created'
        PROVE  c.frame <= LastCreated(c.player)' /\ c.id <= issued'[c.player]
    <3>1. CASE c = cmd
      BY <1>2, <1>3, <1>4, <2>2, <3>1
    <3>2. CASE c \in created
      <4>1. /\ c.player \in Player /\ c.frame \in Nat /\ c.id \in Nat
            /\ c.frame <= LastCreated(c.player) /\ c.id <= issued[c.player]
        BY <1>1, <1>2, <3>2 DEF AnnounceInv, CreatedOK, Command
      <4>2. CASE c.player = p
        BY <1>2, <1>3, <2>2, <4>1, <4>2
      <4>3. CASE c.player # p
        BY <1>2, <1>5, <4>1, <4>3 DEF LastCreated
      <4> QED
        BY <4>2, <4>3
    <3> QED
      BY <1>5, <3>1, <3>2
  <2> QED
    BY <2>1, <2>3 DEF CreatedOK
<1>17. AnnounceInv'
  BY <1>10, <1>11, <1>12, <1>14, <1>15, <1>16 DEF AnnounceInv
<1>18. OwnCountOK(p)'
  <2>1. OwnCountOK(p) /\ frameData[p][p] \in Ring
    BY <1>1, <1>2 DEF GameOK
  <2>2. \A i \in SlotIndex :
           AddNetCommandMsg(TRUE, frameData[p][p], cmd)[i].frameCommandCount
             = AddNetCommandMsg(TRUE, frameData[p][p], cmd)[i].commandCount
    <3> DEFINE own == frameData[p][p]
    <3>1. /\ own \in Ring
          /\ \A i \in SlotIndex : own[i].frameCommandCount = own[i].commandCount
      BY <2>1 DEF OwnCountOK
    <3> HIDE DEF own
    <3>2. \A i \in SlotIndex : AddNetCommandMsg(TRUE, own, cmd)[i].frameCommandCount
                                 = AddNetCommandMsg(TRUE, own, cmd)[i].commandCount
      BY <1>4, <3>1, OwnCountAdd
    <3> QED
      BY <3>2 DEF own
  <2> QED
    BY <1>6, <2>2 DEF OwnCountOK, ring
<1>19. NobodyLeaves'
  BY <1>1, <1>4, <1>5 DEF GameOK, NobodyLeaves
<1>20. /\ created \subseteq created'
       /\ \A c \in created' \ created : c.player = p /\ c.frame > lastFrameCompleted[p]
  BY <1>4, <1>5, <1>9
<1> QED
  BY <1>1, <1>5, <1>6, <1>17, <1>18, <1>19, <1>20, GameLoses

-----------------------------------------------------------------------------
(* Packets that are lost, and frames that are sent on. *)

LEMMA GameSilence ==
    ASSUME DInv, NEW p \in Player, Silence(p) PROVE GameOK'
<1>1. GameOK /\ AnnounceInv
  BY DEF DInv, GameOK
<1>2. /\ net' \subseteq net
      /\ UNCHANGED <<frame, clock, frameData, inGame, issued, created, executed, removedOn>>
  BY DEF Silence
<1>3. \A h \in net' : HopOK(h)
  BY <1>1, <1>2, HopsOK
<1> QED
  BY <1>1, <1>2, <1>3, GameSends

LEMMA GameNotify ==
    ASSUME DInv, NEW p \in Player, NotifyOthersOfCurrentFrame(p) PROVE GameOK'
<1> DEFINE behind == {q \in PeersInGame(p) \cap framesReceived[p] :
                        disconnectFrames[p][q] < frame[p]}
           forwarded == UNION {FrameDataFor(p, q, disconnectFrames[p][q]) : q \in behind}
<1>1. GameOK /\ AnnounceInv /\ ReportsOK(p) /\ ManagerTypes
  BY DEF DInv, GameOK, ManagerOK
<1>2. /\ net' = net \/ net' = net \cup forwarded
      /\ UNCHANGED <<frame, clock, frameData, inGame, issued, created, executed, removedOn>>
  BY DEF NotifyOthersOfCurrentFrame
<1>3. \A h \in forwarded : HopOK(h)
  <2> SUFFICES ASSUME NEW q \in behind, NEW h \in FrameDataFor(p, q, disconnectFrames[p][q])
               PROVE  HopOK(h)
    OBVIOUS
  <2> DEFINE start == disconnectFrames[p][q]
  <2>1. q \in Player /\ start \in Nat /\ start >= FirstFrame
    <3>1. inGame[p] \in SUBSET Player
      BY <1>1, GameFacts
    <3>2. q \in Player /\ q \in framesReceived[p]
      BY <3>1 DEF PeersInGame, Peers
    <3> QED
      BY <1>1, <3>2 DEF ReportsOK, ManagerTypes
  <2>2. h \in FrameDataFor(p, q, start)
    OBVIOUS
  <2> HIDE DEF start, behind
  <2> QED
    BY <1>1, <2>1, <2>2, ForwardedOK
<1> HIDE DEF forwarded, behind
<1>4. \A h \in net' : HopOK(h)
  BY <1>1, <1>2, <1>3, HopsOK
<1> QED
  BY <1>1, <1>2, <1>4, GameSends

LEMMA GameSendsFrames ==
    ASSUME DInv, NEW p \in Player, NEW m \in notices, ProcessDisconnectFrame(p, m)
    PROVE  GameOK'
<1>1. GameOK /\ AnnounceInv /\ NoticeOK(m) /\ ManagerTypes
  BY DEF DInv, GameOK, ManagerOK
<1>2. /\ net' = net \/ net' = net \cup FrameDataFor(p, m.src, m.frame)
      /\ UNCHANGED <<frame, clock, frameData, inGame, issued, created, executed, removedOn>>
  BY DEF ProcessDisconnectFrame
<1> DEFINE src == m.src
           start == m.frame
<1>3. src \in Player /\ start \in Nat /\ start >= FirstFrame
  BY <1>1 DEF NoticeOK, ManagerTypes, Notices, ProcessDisconnectFrame
<1>4. net' = net \/ net' = net \cup FrameDataFor(p, src, start)
  BY <1>2
<1> HIDE DEF src, start
<1>5. \A h \in FrameDataFor(p, src, start) : HopOK(h)
  BY <1>1, <1>3, ForwardedOK
<1>6. \A h \in net' : HopOK(h)
  BY <1>1, <1>4, <1>5, HopsOK
<1> QED
  BY <1>1, <1>2, <1>6, GameSends

(* Every step keeps the game in order. *)
LEMMA GameStep == DInv /\ [DNext]_allVars => GameOK'
<1> SUFFICES ASSUME DInv, [DNext]_allVars PROVE GameOK'
  OBVIOUS
<1>1. GameOK
  BY DEF DInv
<1>2. CASE UNCHANGED allVars
  BY <1>1, <1>2, GameKept DEF allVars, managerVars
<1>3. ASSUME NEW p \in Player, Tick(p) PROVE GameOK'
  BY <1>1, <1>3, GameTick DEF Tick, managerVars
<1>4. ASSUME NEW p \in Player, Crash(p) PROVE GameOK'
  BY <1>1, <1>4, GameKept DEF Crash
<1>5. ASSUME NEW p \in Player, Silence(p) PROVE GameOK'
  BY <1>5, GameSilence
<1>6. ASSUME NEW p \in Player, Up(p), NEW h \in net, ReceiveHop(p, h) PROVE GameOK'
  BY <1>6, GameReceive DEF ReceiveHop, managerVars
<1>7. ASSUME NEW p \in Player, Up(p), ManagerStep(p) PROVE GameOK'
  <2>1. CASE TurnOnScreen(p)
    BY <1>1, <2>1, GameKept DEF TurnOnScreen
  <2>2. CASE NotifyOthersOfCurrentFrame(p)
    BY <2>2, GameNotify
  <2>3. CASE AdvanceFrame(p)
    BY <2>3, GameExecute DEF AdvanceFrame
  <2>11. CASE TurnOffScreen(p)
    BY <1>1, <2>11, GameKept DEF TurnOffScreen
  <2>4. ASSUME NEW q \in Player, TimeOut(p, q) PROVE GameOK'
    BY <1>1, <2>4, GameKept DEF TimeOut
  <2>5. ASSUME NEW q \in Player, VoteForPlayerDisconnect(p, q) PROVE GameOK'
    BY <1>1, <2>5, GameKept DEF VoteForPlayerDisconnect
  <2>6. ASSUME NEW q \in Player, RemovePlayer(p, q) PROVE GameOK'
    BY <1>7, <2>6, GameRemove
  <2>7. ASSUME NEW m \in notices, ProcessDisconnectPlayer(p, m) PROVE GameOK'
    BY <1>7, <2>7, GameGoesOn
  <2>8. ASSUME NEW m \in notices, ProcessDisconnectVote(p, m) PROVE GameOK'
    BY <1>1, <2>8, GameKept DEF ProcessDisconnectVote
  <2>9. ASSUME NEW m \in notices, ProcessDisconnectFrame(p, m) PROVE GameOK'
    BY <2>9, GameSendsFrames
  <2>10. ASSUME NEW m \in notices, ProcessDisconnectScreenOff(p, m) PROVE GameOK'
    BY <1>1, <2>10, GameKept DEF ProcessDisconnectScreenOff
  <2> QED
    BY <1>7, <2>1, <2>2, <2>3, <2>4, <2>5, <2>6, <2>7, <2>8, <2>9, <2>10, <2>11
       DEF ManagerStep
<1> QED
  BY <1>2, <1>3, <1>4, <1>5, <1>6, <1>7 DEF DNext

-----------------------------------------------------------------------------
(* The managers.  Nobody counts a player out that did not fall silent.      *)

LEMMA ManagerFacts ==
    ASSUME DInv
    PROVE  /\ GameOK /\ AnnounceInv /\ ManagerTypes /\ OneLost /\ AccusedOK
           /\ \A p \in Player : /\ RemovedOK(p) /\ ReportsOK(p)
                                /\ frame[p] \in Nat /\ frame[p] >= FirstFrame /\ frame[p] >= 1
                                /\ inGame[p] \in SUBSET Player /\ p \in inGame[p]
                                /\ Peers(p) \in SUBSET Player
           /\ \A m \in notices : NoticeOK(m) /\ m \in Notices
           /\ frame \in [Player -> Nat] /\ inGame \in [Player -> SUBSET Player]
<1>1. GameOK /\ ManagerOK /\ AnnounceInv
  BY DEF DInv, GameOK
<1>2. \A p \in Player : /\ frame[p] \in Nat /\ frame[p] >= FirstFrame /\ frame[p] >= 1
                        /\ inGame[p] \in SUBSET Player /\ p \in inGame[p]
                        /\ Peers(p) \in SUBSET Player
  BY <1>1, GameFacts DEF Peers
<1> QED
  BY <1>1, <1>2 DEF ManagerOK, ManagerTypes, AnnounceInv, TypeInv, TypeOK

LEMMA StillInGame ==
    ASSUME DInv, NEW p \in Player, NEW q \in Peers(p), ~Silent(q)
    PROVE  IsPlayerInGame(p, q)
<1>1. q \in inGame[p] /\ q # p /\ q \in Player
  BY ManagerFacts DEF Peers
<1>2. q \notin timedOut[p] /\ CountVotes(p, q) = 0
  <2>1. {v \in playerVotes[p] : v.slot = q /\ v.frame = frame[p]} = {}
    BY <1>1, ManagerFacts DEF AccusedOK
  <2>2. q \notin timedOut[p]
    BY <1>1, ManagerFacts DEF AccusedOK
  <2> QED
    BY <2>1, <2>2, FS_EmptySet DEF CountVotes
<1>3. Cardinality(inGame[p]) \in Nat /\ Cardinality(inGame[p]) >= 2
  <2>1. IsFiniteSet(inGame[p])
    <3>1. IsFiniteSet(Player)
      BY ConstantFacts, FS_Interval DEF Player
    <3> QED
      BY <3>1, ManagerFacts, FS_Subset
  <2>2. {p, q} \subseteq inGame[p]
    BY <1>1, ManagerFacts
  <2>3. Cardinality({p, q}) = 2
    <3>1. Cardinality({p}) = 1 /\ IsFiniteSet({p})
      BY FS_Singleton
    <3>2. Cardinality({p} \cup {q}) = Cardinality({p}) + 1
      BY <1>1, <3>1, FS_AddElement
    <3>3. {p} \cup {q} = {p, q}
      OBVIOUS
    <3> QED
      BY <3>1, <3>2, <3>3
  <2>4. Cardinality({p, q}) <= Cardinality(inGame[p])
    BY <2>1, <2>2, FS_Subset
  <2>5. Cardinality(inGame[p]) \in Nat
    BY <2>1, FS_CardinalityType
  <2> QED
    BY <2>3, <2>4, <2>5
<1>4. ~IsPlayerVotedOut(p, q)
  BY <1>2, <1>3 DEF IsPlayerVotedOut
<1> QED
  BY <1>1, <1>2, <1>4 DEF IsPlayerInGame

(* Notices stay true while players go on and connections are closed. *)
LEMMA NoticesKept ==
    ASSUME DInv, frame' \in [Player -> Nat],
           \A r \in Player : frame[r] <= frame'[r] /\ (Up(r)' => Up(r)),
           \A r \in Player : inGame'[r] \subseteq inGame[r],
           \A r \in Player : \A s \in Player \ inGame[r] : removedOn'[r][s] = removedOn[r][s]
    PROVE  \A m \in notices : NoticeOK(m)'
<1> SUFFICES ASSUME NEW m \in notices PROVE NoticeOK(m)'
  OBVIOUS
<1>1. NoticeOK(m) /\ m.src \in Player /\ m.slot \in Player /\ m.frame \in Nat
  BY ManagerFacts DEF Notices
<1>2. \A r \in Player : frame[r] \in Nat /\ frame'[r] \in Nat /\ frame[r] <= frame'[r]
  BY ManagerFacts
<1>3. m.type \in {"FRAME", "SCREENOFF"} => m.frame <= frame'[m.src]
  BY <1>1, <1>2 DEF NoticeOK
<1>4. ASSUME m.type = "PLAYER"
      PROVE  /\ m.slot # m.src
             /\ m.slot \notin inGame'[m.src]
             /\ \A r \in Player \ {m.src, m.slot} : m.src < r
             /\ \A r \in Player : Up(r)' => removedOn'[m.src][m.slot] <= frame'[r]
  <2>1. /\ m.slot # m.src /\ m.slot \notin inGame[m.src]
        /\ \A r \in Player \ {m.src, m.slot} : m.src < r
        /\ \A r \in Player : Up(r) => removedOn[m.src][m.slot] <= frame[r]
    BY <1>1, <1>4 DEF NoticeOK
  <2>2. removedOn'[m.src][m.slot] = removedOn[m.src][m.slot]
        /\ removedOn[m.src][m.slot] \in Nat
    BY <1>1, <2>1, ManagerFacts DEF ManagerTypes
  <2>3. m.slot \notin inGame'[m.src]
    BY <1>1, <2>1
  <2>4. ASSUME NEW r \in Player, Up(r)' PROVE removedOn'[m.src][m.slot] <= frame'[r]
    <3>1. removedOn[m.src][m.slot] <= frame[r]
      BY <2>1, <2>4
    <3> QED
      BY <1>2, <2>2, <3>1
  <2> QED
    BY <2>1, <2>3, <2>4
<1>5. m.type = "FRAME" => m.frame >= FirstFrame
  BY <1>1 DEF NoticeOK
<1> QED
  BY <1>3, <1>4, <1>5 DEF NoticeOK

(* Ticks and packets do not concern the managers. *)
LEMMA ManagerKept ==
    ASSUME DInv, UNCHANGED <<managerVars, frame, inGame>>
    PROVE  ManagerOK'
<1>1. ManagerTypes' /\ OneLost' /\ AccusedOK'
  BY ManagerFacts DEF managerVars, screenVars, reports, ManagerTypes, OneLost, Up, AccusedOK,
                      Silent
<1>2. \A p \in Player : RemovedOK(p)' /\ ReportsOK(p)'
  BY ManagerFacts DEF managerVars, screenVars, reports, RemovedOK, ReportsOK, Silent
<1>3. \A m \in notices' : NoticeOK(m)'
  BY ManagerFacts DEF managerVars, NoticeOK, Up
<1> QED
  BY <1>1, <1>2, <1>3 DEF ManagerOK

LEMMA ManagerCrash ==
    ASSUME DInv, NEW p \in Player, Crash(p) PROVE ManagerOK'
<1>1. /\ \A q \in Player : Up(q)
      /\ presence' = [presence EXCEPT ![p] = "crashed"]
      /\ UNCHANGED <<frame, inGame, screenVars, reports, timedOut, removedOn, notices>>
  BY DEF Crash, vars
<1>2. ManagerTypes /\ \A q \in Player : presence'[q] = IF q = p THEN "crashed" ELSE "up"
  BY <1>1, ManagerFacts DEF ManagerTypes, Up
<1>3. ManagerTypes'
  BY <1>1, <1>2 DEF ManagerTypes, screenVars, reports
<1>4. OneLost'
  BY <1>2 DEF OneLost, Up
<1>5. \A q \in Player : ~Silent(q)
  BY <1>1 DEF Silent, Up
<1>6. AccusedOK'
  <2>1. \A q \in Player : timedOut[q] = {} /\ playerVotes[q] = {}
    BY <1>5, ManagerFacts DEF AccusedOK, ManagerTypes, Vote
  <2>2. \A m \in notices : m.type \notin {"VOTE", "PLAYER"}
    BY <1>5, ManagerFacts DEF AccusedOK, Notices
  <2> QED
    BY <1>1, <2>1, <2>2 DEF AccusedOK, reports
<1>7. \A q \in Player : RemovedOK(q)'
  BY <1>1, <1>5, ManagerFacts DEF RemovedOK
<1>8. \A q \in Player : ReportsOK(q)'
  BY <1>1, ManagerFacts DEF ReportsOK, screenVars, reports
<1>9. \A m \in notices' : NoticeOK(m)'
  BY <1>1, ManagerFacts DEF NoticeOK
<1> QED
  BY <1>3, <1>4, <1>6, <1>7, <1>8, <1>9 DEF ManagerOK

LEMMA ManagerSilence ==
    ASSUME DInv, NEW p \in Player, Silence(p) PROVE ManagerOK'
<1>1. /\ presence[p] = "crashed"
      /\ presence' = [presence EXCEPT ![p] = "silent"]
      /\ notices' \subseteq notices
      /\ UNCHANGED <<frame, inGame, screenVars, reports, timedOut, removedOn>>
  BY DEF Silence
<1>2. /\ ManagerTypes
      /\ \A q \in Player : presence'[q] = IF q = p THEN "silent" ELSE presence[q]
  BY <1>1, ManagerFacts DEF ManagerTypes
<1>3. \A q \in Player : (Up(q)' <=> Up(q)) /\ (Silent(q) => Silent(q)')
  BY <1>1, <1>2 DEF Up, Silent
<1>4. ManagerTypes'
  BY <1>1, <1>2 DEF ManagerTypes, screenVars, reports
<1>5. OneLost'
  BY <1>3, ManagerFacts DEF OneLost
<1>6. AccusedOK'
  BY <1>1, <1>3, ManagerFacts DEF AccusedOK, reports, ManagerTypes, Vote, Notices
<1>7. \A q \in Player : RemovedOK(q)'
  BY <1>1, <1>3, ManagerFacts DEF RemovedOK
<1>8. \A q \in Player : ReportsOK(q)'
  BY <1>1, ManagerFacts DEF ReportsOK, screenVars, reports
<1>9. \A m \in notices' : NoticeOK(m)'
  BY <1>1, <1>3, ManagerFacts DEF NoticeOK
<1> QED
  BY <1>4, <1>5, <1>6, <1>7, <1>8, <1>9 DEF ManagerOK

LEMMA ManagerTurnOnScreen ==
    ASSUME DInv, NEW p \in Player, TurnOnScreen(p) PROVE ManagerOK'
<1>1. /\ screen' = [screen EXCEPT ![p] = TRUE] /\ notified' = [notified EXCEPT ![p] = FALSE]
      /\ timedOut' = [timedOut EXCEPT ![p] = {}]
      /\ UNCHANGED <<frame, inGame, presence, reports, removedOn, notices>>
  BY DEF TurnOnScreen, vars
<1>2. ManagerTypes'
  BY <1>1, ManagerFacts DEF ManagerTypes, reports
<1>3. OneLost' /\ AccusedOK'
  BY <1>1, ManagerFacts DEF ManagerTypes, OneLost, AccusedOK, Up, Silent, reports
<1>4. \A q \in Player : RemovedOK(q)'
  BY <1>1, ManagerFacts DEF RemovedOK, Silent
<1>5. ASSUME NEW q \in Player PROVE ReportsOK(q)'
  BY <1>1, ManagerFacts DEF ReportsOK, reports, ManagerTypes
<1>6. \A m \in notices' : NoticeOK(m)'
  BY <1>1, ManagerFacts DEF NoticeOK, Up
<1> QED
  BY <1>2, <1>3, <1>4, <1>5, <1>6 DEF ManagerOK

LEMMA ManagerTimeOut ==
    ASSUME DInv, NEW p \in Player, NEW q \in Player, TimeOut(p, q) PROVE ManagerOK'
<1>1. /\ Silent(q) /\ timedOut' = [timedOut EXCEPT ![p] = timedOut[p] \cup {q}]
      /\ UNCHANGED <<frame, inGame, presence, screenVars, reports, removedOn, notices>>
  BY DEF TimeOut, vars, Silent
<1>2. ManagerTypes'
  BY <1>1, ManagerFacts DEF ManagerTypes, reports, screenVars
<1>3. OneLost' /\ AccusedOK'
  BY <1>1, ManagerFacts DEF ManagerTypes, OneLost, AccusedOK, Up, Silent, reports
<1>4. \A r \in Player : RemovedOK(r)' /\ ReportsOK(r)'
  BY <1>1, ManagerFacts DEF RemovedOK, Silent, ReportsOK, reports, screenVars
<1>5. \A m \in notices' : NoticeOK(m)'
  BY <1>1, ManagerFacts DEF NoticeOK, Up
<1> QED
  BY <1>2, <1>3, <1>4, <1>5 DEF ManagerOK

(* What a manager tells the others. *)
LEMMA TellFacts ==
    ASSUME DInv, NEW p \in Player, NEW type \in Kind, NEW slot \in Player, NEW f \in Nat
    PROVE  /\ Tell(type, p, slot, f) \in SUBSET Notices
           /\ \A m \in Tell(type, p, slot, f) :
                 m.type = type /\ m.src = p /\ m.slot = slot /\ m.frame = f
<1>1. Peers(p) \in SUBSET Player
  BY ManagerFacts
<1> QED
  BY <1>1 DEF Tell, Notice, Notices

LEMMA ManagerVote ==
    ASSUME DInv, NEW p \in Player, NEW q \in Player, VoteForPlayerDisconnect(p, q)
    PROVE  ManagerOK'
<1> DEFINE vote == [slot |-> q, voter |-> p, frame |-> frame[p]]
           told == Tell("VOTE", p, q, frame[p])
<1>1. /\ Silent(q)
      /\ playerVotes' = [playerVotes EXCEPT ![p] = playerVotes[p] \cup {vote}]
      /\ notices' = notices \cup told
      /\ UNCHANGED <<frame, inGame, presence, screenVars, disconnectFrames, framesReceived,
                     timedOut, removedOn>>
  BY DEF VoteForPlayerDisconnect, vars, Silent
<1>2. /\ told \in SUBSET Notices
      /\ \A m \in told : m.type = "VOTE" /\ m.slot = q
  BY ManagerFacts, TellFacts DEF Kind
<1>3. vote \in Vote /\ vote.slot = q
  BY ManagerFacts DEF Vote
<1> HIDE DEF vote, told
<1>4. ManagerTypes'
  BY <1>1, <1>2, <1>3, ManagerFacts DEF ManagerTypes, screenVars
<1>5. OneLost'
  BY <1>1, ManagerFacts DEF OneLost, Up
<1>6. AccusedOK'
  BY <1>1, <1>2, <1>3, ManagerFacts DEF ManagerTypes, AccusedOK, Silent
<1>7. \A r \in Player : RemovedOK(r)' /\ ReportsOK(r)'
  BY <1>1, ManagerFacts DEF RemovedOK, Silent, ReportsOK, screenVars
<1>8. \A m \in notices' : NoticeOK(m)'
  <2>1. \A m \in notices : NoticeOK(m)'
    BY <1>1, ManagerFacts DEF NoticeOK, Up
  <2> QED
    BY <1>1, <1>2, <2>1 DEF NoticeOK
<1> QED
  BY <1>4, <1>5, <1>6, <1>7, <1>8 DEF ManagerOK

LEMMA VotesWithout ==
    ASSUME DInv, NEW p \in Player, NEW voter, NEW f
    PROVE  /\ WithoutVotesOf(playerVotes[p], voter, f) \in SUBSET Vote
           /\ WithoutVotesOf(playerVotes[p], voter, f) \subseteq playerVotes[p]
BY ManagerFacts DEF WithoutVotesOf, ManagerTypes

LEMMA ManagerNotify ==
    ASSUME DInv, NEW p \in Player, NotifyOthersOfCurrentFrame(p) PROVE ManagerOK'
<1> DEFINE told == Tell("FRAME", p, p, frame[p])
           votes == WithoutVotesOf(playerVotes[p], p, frame[p] - 1)
<1>1. /\ notified' = [notified EXCEPT ![p] = TRUE]
      /\ notices' = notices \cup told
      /\ UNCHANGED <<frame, inGame, presence, screen, timedOut, removedOn>>
      /\ \/ disconnectFrames[p][p] >= frame[p] /\ UNCHANGED reports
         \/ /\ playerVotes' = [playerVotes EXCEPT ![p] = votes]
            /\ disconnectFrames' = [disconnectFrames EXCEPT ![p][p] = frame[p]]
            /\ framesReceived' = [framesReceived EXCEPT ![p] = framesReceived[p] \cup {p}]
  BY DEF NotifyOthersOfCurrentFrame
<1>2. /\ told \in SUBSET Notices
      /\ \A m \in told : m.type = "FRAME" /\ m.src = p /\ m.frame = frame[p]
  BY ManagerFacts, TellFacts DEF Kind
<1>3. votes \in SUBSET Vote /\ votes \subseteq playerVotes[p]
  BY VotesWithout
<1> HIDE DEF told, votes
<1>4. ManagerTypes'
  <2>1. disconnectFrames' \in [Player -> [Player -> Nat]]
    BY <1>1, ManagerFacts DEF ManagerTypes, reports
  <2>2. playerVotes' \in [Player -> SUBSET Vote]
    BY <1>1, <1>3, ManagerFacts DEF ManagerTypes, reports
  <2>3. framesReceived' \in [Player -> SUBSET Player]
    BY <1>1, ManagerFacts DEF ManagerTypes, reports
  <2>4. notices' \in SUBSET Notices /\ notified' \in [Player -> BOOLEAN]
    BY <1>1, <1>2, ManagerFacts DEF ManagerTypes
  <2> QED
    BY <1>1, <2>1, <2>2, <2>3, <2>4, ManagerFacts DEF ManagerTypes
<1>5. OneLost'
  BY <1>1, ManagerFacts DEF OneLost, Up
<1>6. AccusedOK'
  <2>1. \A r \in Player : playerVotes'[r] \subseteq playerVotes[r]
    BY <1>1, <1>3, ManagerFacts DEF ManagerTypes, reports
  <2> QED
    BY <1>1, <1>2, <2>1, ManagerFacts DEF AccusedOK, Silent
<1>7. \A r \in Player : RemovedOK(r)'
  BY <1>1, ManagerFacts DEF RemovedOK, Silent
<1>8. ASSUME NEW r \in Player PROVE ReportsOK(r)'
  <2>1. ReportsOK(r) /\ frame[r] \in Nat /\ frame[r] >= FirstFrame
    BY ManagerFacts
  <2>2. CASE r # p
    <3>1. /\ notified'[r] = notified[r] /\ disconnectFrames'[r] = disconnectFrames[r]
          /\ framesReceived'[r] = framesReceived[r]
      BY <1>1, <2>2, ManagerFacts DEF ManagerTypes, reports
    <3> QED
      BY <1>1, <2>1, <3>1 DEF ReportsOK
  <2>3. CASE r = p /\ disconnectFrames[p][p] >= frame[p] /\ UNCHANGED reports
    <3>1. disconnectFrames[p][p] = frame[p]
      <4>1. disconnectFrames[p][p] \in Nat /\ frame[p] \in Nat
        BY ManagerFacts DEF ManagerTypes
      <4>2. disconnectFrames[p][p] <= frame[p]
        BY ManagerFacts DEF ReportsOK
      <4> QED
        BY <2>3, <4>1, <4>2
    <3> QED
      BY <1>1, <2>1, <2>3, <3>1 DEF ReportsOK, reports
  <2>4. CASE /\ r = p
             /\ disconnectFrames' = [disconnectFrames EXCEPT ![p][p] = frame[p]]
             /\ framesReceived' = [framesReceived EXCEPT ![p] = framesReceived[p] \cup {p}]
    <3>1. \A s \in Player : /\ disconnectFrames'[p][s] =
                                 IF s = p THEN frame[p] ELSE disconnectFrames[p][s]
                            /\ s \in framesReceived'[p] <=> s = p \/ s \in framesReceived[p]
      BY <2>4, ManagerFacts DEF ManagerTypes
    <3> QED
      BY <1>1, <2>1, <2>4, <3>1 DEF ReportsOK
  <2> QED
    BY <1>1, <2>2, <2>3, <2>4
<1>9. \A m \in notices' : NoticeOK(m)'
  <2>1. \A m \in notices : NoticeOK(m)'
    BY <1>1, ManagerFacts DEF NoticeOK, Up
  <2>2. \A m \in told : NoticeOK(m)'
    BY <1>1, <1>2, ManagerFacts DEF NoticeOK
  <2> QED
    BY <1>1, <2>1, <2>2
<1> QED
  BY <1>4, <1>5, <1>6, <1>7, <1>8, <1>9 DEF ManagerOK

(* Of the frames that were reported there is a last one. *)
LEMMA MaxFrameType ==
    ASSUME DInv, NEW p \in Player
    PROVE  GetMaxDisconnectFrame(p) \in Nat
<1> DEFINE last == MaxFrame + FirstFrame
           reported(q) == disconnectFrames[p][q]
           before == {last - reported(q) : q \in Player}
<1>1. last \in Nat
  BY DConstants
<1>2. \A q \in Player : reported(q) \in Nat /\ reported(q) <= last
  <2> SUFFICES ASSUME NEW q \in Player PROVE reported(q) \in Nat /\ reported(q) <= last
    OBVIOUS
  <2>1. reported(q) \in Nat /\ reported(q) <= frame[q] /\ frame[q] \in Nat
    BY ManagerFacts DEF ManagerTypes, ReportsOK
  <2>2. frame[q] = FirstFrame \/ frame[q] <= MaxFrame
    BY ManagerFacts DEF GameOK, PlayOK
  <2> QED
    BY <2>1, <2>2, DConstants
<1>3. 0 \in Player
  BY ConstantFacts
<1> HIDE DEF last, reported
<1>4. before \subseteq Nat /\ before # {}
  BY <1>1, <1>2, <1>3
<1>5. \E n \in before : \A m \in before : ~(<<m, n>> \in OpToRel(<, Nat))
  BY <1>4, WFMin, NatLessThanWellFounded, Zenon
<1>6. PICK n \in before : \A m \in before : ~(<<m, n>> \in OpToRel(<, Nat))
  BY <1>5
<1>7. \A m \in before : ~(m < n)
  BY <1>4, <1>6, Zenon DEF OpToRel
<1>8. PICK r \in Player : n = last - reported(r)
  OBVIOUS
<1>9. \A q \in Player : reported(q) <= reported(r)
  <2> SUFFICES ASSUME NEW q \in Player PROVE reported(q) <= reported(r)
    OBVIOUS
  <2>1. ~(last - reported(q) < last - reported(r))
    BY <1>7, <1>8
  <2> QED
    BY <1>1, <1>2, <2>1
<1>10. reported(r) \in {disconnectFrames[p][q] : q \in Player}
  BY DEF reported
<1>11. /\ GetMaxDisconnectFrame(p) \in {disconnectFrames[p][q] : q \in Player}
       /\ \A q \in Player : disconnectFrames[p][q] <= GetMaxDisconnectFrame(p)
  <2>1. \E f \in {disconnectFrames[p][q] : q \in Player} :
           \A q \in Player : disconnectFrames[p][q] <= f
    BY <1>9, <1>10 DEF reported
  <2> QED
    BY <2>1, Zenon DEF GetMaxDisconnectFrame
<1> QED
  BY <1>2, <1>11 DEF reported

(* Going on without a player: it is silent, and it was still there. *)
LEMMA ManagerLoses ==
    ASSUME DInv, NEW p \in Player, NEW q \in Peers(p), Silent(q),
           inGame' = [inGame EXCEPT ![p] = inGame[p] \ {q}],
           removedOn' = [removedOn EXCEPT ![p][q] = frame[p]],
           UNCHANGED <<frame, presence, screenVars, reports, timedOut>>
    PROVE  /\ OneLost'
           /\ \A k \in Player : RemovedOK(k)' /\ ReportsOK(k)'
           /\ removedOn' \in [Player -> [Player -> Nat]]
           /\ \A m \in notices : NoticeOK(m)'
<1>1. /\ q \in Player /\ q \in inGame[p] /\ q # p /\ frame[p] \in Nat /\ frame[p] >= 1
      /\ removedOn \in [Player -> [Player -> Nat]] /\ inGame \in [Player -> SUBSET Player]
  BY ManagerFacts DEF Peers, ManagerTypes
<1>2. OneLost' /\ \A k \in Player : ReportsOK(k)'
  BY ManagerFacts DEF OneLost, Up, ReportsOK, screenVars, reports
<1>3. removedOn' \in [Player -> [Player -> Nat]]
  BY <1>1
<1>4. \A k, r \in Player :
         /\ removedOn'[k][r] = IF k = p /\ r = q THEN frame[p] ELSE removedOn[k][r]
         /\ r \in inGame'[k] <=> r \in inGame[k] /\ ~(k = p /\ r = q)
  BY <1>1
<1>5. ASSUME NEW k \in Player PROVE RemovedOK(k)'
  <2> SUFFICES ASSUME NEW r \in Player
               PROVE  /\ removedOn'[k][r] <= frame[k]
                      /\ r \in inGame'[k] => removedOn'[k][r] = 0
                      /\ r \notin inGame'[k] => removedOn'[k][r] # 0 /\ Silent(r)
    BY DEF RemovedOK, Silent
  <2>1. RemovedOK(k)
    BY ManagerFacts
  <2>2. CASE k = p /\ r = q
    BY <1>1, <1>4, <2>2
  <2>3. CASE ~(k = p /\ r = q)
    BY <1>4, <2>1, <2>3 DEF RemovedOK
  <2> QED
    BY <2>2, <2>3
<1>6. \A m \in notices : NoticeOK(m)'
  <2>1. /\ frame' \in [Player -> Nat]
        /\ \A r \in Player : frame[r] <= frame'[r] /\ (Up(r)' => Up(r))
    BY ManagerFacts DEF Up
  <2>2. \A r \in Player : inGame'[r] \subseteq inGame[r]
    BY <1>1
  <2>3. \A r \in Player : \A s \in Player \ inGame[r] : removedOn'[r][s] = removedOn[r][s]
    BY <1>1, <1>4
  <2> QED
    BY <2>1, <2>2, <2>3, NoticesKept
<1> QED
  BY <1>2, <1>3, <1>5, <1>6

LEMMA ManagerRemove ==
    ASSUME DInv, NEW p \in Player, NEW q \in Player, RemovePlayer(p, q) PROVE ManagerOK'
<1> DEFINE top == GetMaxDisconnectFrame(p)
           told == Tell("PLAYER", p, q, top)
<1>1. /\ inGame' = [inGame EXCEPT ![p] = inGame[p] \ {q}]
      /\ removedOn' = [removedOn EXCEPT ![p][q] = frame[p]]
      /\ notices' = notices \cup told
      /\ UNCHANGED <<frame, presence, screenVars, reports, timedOut>>
      /\ q \in Peers(p) /\ ~IsPlayerInGame(p, q) /\ screen[p] /\ notified[p]
      /\ AllOnSameFrame(p) /\ IsLocalPlayerNextPacketRouter(p)
  BY DEF RemovePlayer, DisconnectPlayer, OnScreen
<1>2. Silent(q)
  BY <1>1, StillInGame
<1>3. top \in Nat
  BY MaxFrameType
<1>4. told \in SUBSET Notices /\ \A m \in told : m.type = "PLAYER" /\ m.src = p /\ m.slot = q
  <2> HIDE DEF top
  <2> QED
    BY <1>3, TellFacts DEF Kind
<1> HIDE DEF told, top
<1>5. /\ OneLost' /\ \A k \in Player : RemovedOK(k)' /\ ReportsOK(k)'
      /\ removedOn' \in [Player -> [Player -> Nat]]
      /\ \A m \in notices : NoticeOK(m)'
  BY <1>1, <1>2, ManagerLoses
<1>6. ManagerTypes' /\ AccusedOK'
  BY <1>1, <1>2, <1>4, <1>5, ManagerFacts
     DEF ManagerTypes, AccusedOK, Silent, screenVars, reports
<1>7. q # p /\ removedOn'[p][q] = frame[p] /\ q \notin inGame'[p]
  BY <1>1, ManagerFacts DEF Peers, ManagerTypes
<1>8. ASSUME NEW r \in Player \ {p, q} PROVE r \in PeersInGame(p) /\ Up(r)
  <2>1. Up(r)
    BY <1>2, ManagerFacts DEF OneLost, Up, Silent
  <2>2. r \in Peers(p)
    BY <2>1, UpIsAwaited DEF Peers
  <2> QED
    BY <2>1, <2>2, StillInGame DEF PeersInGame, Up, Silent
<1>9. \A r \in Player \ {p, q} : p < r
  BY <1>1, <1>8 DEF IsLocalPlayerNextPacketRouter
<1>10. ASSUME NEW r \in Player, Up(r) PROVE frame[p] <= frame[r]
  <2>1. CASE r = p
    BY <2>1, ManagerFacts
  <2>2. CASE r # p
    <3>1. r \in PeersInGame(p)
      BY <1>2, <1>8, <1>10, <2>2 DEF Up, Silent
    <3>2. disconnectFrames[p][r] = disconnectFrames[p][p]
      BY <1>1, <3>1 DEF AllOnSameFrame
    <3>3. disconnectFrames[p][p] = frame[p] /\ disconnectFrames[p][r] <= frame[r]
      BY <1>1, ManagerFacts DEF ReportsOK
    <3> QED
      BY <3>2, <3>3
  <2> QED
    BY <2>1, <2>2
<1>11. \A m \in told : NoticeOK(m)'
  BY <1>1, <1>4, <1>7, <1>9, <1>10 DEF NoticeOK, Up
<1> QED
  BY <1>1, <1>5, <1>6, <1>11 DEF ManagerOK

LEMMA ManagerGoesOn ==
    ASSUME DInv, NEW p \in Player, NEW m \in notices, ProcessDisconnectPlayer(p, m)
    PROVE  ManagerOK'
<1> DEFINE q == m.slot
<1>1. /\ inGame' = [inGame EXCEPT ![p] = inGame[p] \ {q}]
      /\ removedOn' = [removedOn EXCEPT ![p][q] = frame[p]]
      /\ UNCHANGED <<frame, presence, screenVars, reports, timedOut, notices>>
      /\ q \in Peers(p) /\ m.type = "PLAYER"
  BY DEF ProcessDisconnectPlayer, DisconnectPlayer
<1>2. Silent(q)
  BY <1>1, ManagerFacts DEF AccusedOK
<1> HIDE DEF q
<1>3. /\ OneLost' /\ \A k \in Player : RemovedOK(k)' /\ ReportsOK(k)'
      /\ removedOn' \in [Player -> [Player -> Nat]]
      /\ \A n \in notices : NoticeOK(n)'
  BY <1>1, <1>2, ManagerLoses
<1>4. ManagerTypes' /\ AccusedOK'
  BY <1>1, <1>3, ManagerFacts DEF ManagerTypes, AccusedOK, Silent, screenVars, reports
<1> QED
  BY <1>1, <1>3, <1>4 DEF ManagerOK

LEMMA ManagerProcessVote ==
    ASSUME DInv, NEW p \in Player, NEW m \in notices, ProcessDisconnectVote(p, m)
    PROVE  ManagerOK'
<1> DEFINE vote == [slot |-> m.slot, voter |-> m.src, frame |-> m.frame]
           others == {v \in playerVotes[p] : v.slot # m.slot \/ v.voter # m.src}
<1>1. /\ m.type = "VOTE"
      /\ playerVotes' = [playerVotes EXCEPT ![p] = others \cup {vote}]
      /\ UNCHANGED <<frame, inGame, presence, screenVars, disconnectFrames, framesReceived,
                     timedOut, removedOn, notices>>
  BY DEF ProcessDisconnectVote, vars
<1>2. vote \in Vote /\ Silent(vote.slot)
  BY <1>1, ManagerFacts DEF Vote, Notices, AccusedOK
<1>3. others \subseteq playerVotes[p] /\ playerVotes[p] \in SUBSET Vote
  BY ManagerFacts DEF ManagerTypes
<1> HIDE DEF vote, others
<1>4. playerVotes' \in [Player -> SUBSET Vote]
  BY <1>1, <1>2, <1>3, ManagerFacts DEF ManagerTypes
<1>5. ManagerTypes'
  BY <1>1, <1>4, ManagerFacts DEF ManagerTypes, screenVars
<1>6. OneLost'
  BY <1>1, ManagerFacts DEF OneLost, Up
<1>7. AccusedOK'
  <2>1. \A k \in Player : \A v \in playerVotes'[k] : Silent(v.slot)
    BY <1>1, <1>2, <1>3, ManagerFacts DEF ManagerTypes, AccusedOK
  <2> QED
    BY <1>1, <2>1, ManagerFacts DEF AccusedOK, Silent
<1>8. \A k \in Player : RemovedOK(k)' /\ ReportsOK(k)'
  BY <1>1, ManagerFacts DEF RemovedOK, Silent, ReportsOK, screenVars
<1>9. \A n \in notices' : NoticeOK(n)'
  BY <1>1, ManagerFacts DEF NoticeOK, Up
<1> QED
  BY <1>5, <1>6, <1>7, <1>8, <1>9 DEF ManagerOK

(* A report of a peer, or its going on, is of a frame the peer has come to. *)
LEMMA ManagerReported ==
    ASSUME DInv, NEW p \in Player, NEW src \in Player, src # p, NEW f \in Nat, f <= frame[src],
           NEW votes \in SUBSET Vote, votes \subseteq playerVotes[p],
           NEW received \in SUBSET Player, received \subseteq framesReceived[p] \cup {src},
           src \in received => f >= FirstFrame,
           playerVotes' = [playerVotes EXCEPT ![p] = votes],
           disconnectFrames' = [disconnectFrames EXCEPT ![p][src] = f],
           framesReceived' = [framesReceived EXCEPT ![p] = received],
           UNCHANGED <<frame, inGame, presence, screenVars, timedOut, removedOn, notices>>
    PROVE  ManagerOK'
<1>1. /\ disconnectFrames' \in [Player -> [Player -> Nat]]
      /\ framesReceived' \in [Player -> SUBSET Player]
      /\ playerVotes' \in [Player -> SUBSET Vote]
  BY ManagerFacts DEF ManagerTypes
<1>2. ManagerTypes'
  BY <1>1, ManagerFacts DEF ManagerTypes, screenVars
<1>3. OneLost'
  BY ManagerFacts DEF OneLost, Up
<1>4. AccusedOK'
  <2>1. \A k \in Player : playerVotes'[k] \subseteq playerVotes[k]
    BY ManagerFacts DEF ManagerTypes
  <2> QED
    BY <2>1, ManagerFacts DEF AccusedOK, Silent
<1>5. \A k \in Player : RemovedOK(k)'
  BY ManagerFacts DEF RemovedOK, Silent
<1>6. ASSUME NEW k \in Player PROVE ReportsOK(k)'
  <2>1. ReportsOK(k) /\ screen' = screen /\ notified' = notified
    BY ManagerFacts DEF screenVars
  <2>2. CASE k # p
    <3>1. disconnectFrames'[k] = disconnectFrames[k] /\ framesReceived'[k] = framesReceived[k]
      BY <2>2, ManagerFacts DEF ManagerTypes
    <3> QED
      BY <2>1, <3>1 DEF ReportsOK
  <2>3. CASE k = p
    <3>1. /\ \A s \in Player : disconnectFrames'[p][s] =
                                  IF s = src THEN f ELSE disconnectFrames[p][s]
          /\ framesReceived'[p] = received
      BY ManagerFacts DEF ManagerTypes
    <3>2. disconnectFrames'[p][p] = disconnectFrames[p][p]
      BY <3>1
    <3>3. \A s \in Player : disconnectFrames'[p][s] <= frame[s]
      BY <2>1, <2>3, <3>1 DEF ReportsOK
    <3>4. \A s \in Player : s \in received => disconnectFrames'[p][s] >= FirstFrame
      BY <2>1, <2>3, <3>1 DEF ReportsOK
    <3> QED
      BY <2>1, <2>3, <3>1, <3>2, <3>3, <3>4 DEF ReportsOK
  <2> QED
    BY <2>2, <2>3
<1>7. \A n \in notices' : NoticeOK(n)'
  BY ManagerFacts DEF NoticeOK, Up
<1> QED
  BY <1>2, <1>3, <1>4, <1>5, <1>6, <1>7 DEF ManagerOK

LEMMA ManagerProcessFrame ==
    ASSUME DInv, NEW p \in Player, NEW m \in notices, ProcessDisconnectFrame(p, m)
    PROVE  ManagerOK'
<1> DEFINE src == m.src
           f == m.frame
           votes == WithoutVotesOf(playerVotes[p], src, f - 1)
           received == framesReceived[p] \cup {src}
<1>1. /\ m.type = "FRAME" /\ src \in Peers(p)
      /\ playerVotes' = [playerVotes EXCEPT ![p] = votes]
      /\ disconnectFrames' = [disconnectFrames EXCEPT ![p][src] = f]
      /\ framesReceived' = [framesReceived EXCEPT ![p] = received]
      /\ UNCHANGED <<frame, inGame, presence, screenVars, timedOut, removedOn, notices>>
  BY DEF ProcessDisconnectFrame, Arrives
<1>2. /\ src \in Player /\ src # p /\ f \in Nat /\ f <= frame[src] /\ f >= FirstFrame
      /\ votes \in SUBSET Vote /\ votes \subseteq playerVotes[p]
      /\ received \in SUBSET Player /\ received \subseteq framesReceived[p] \cup {src}
  BY <1>1, ManagerFacts, VotesWithout DEF Peers, Notices, NoticeOK, ManagerTypes
<1> HIDE DEF src, f, votes, received
<1> QED
  BY <1>1, <1>2, ManagerReported

LEMMA ManagerProcessScreenOff ==
    ASSUME DInv, NEW p \in Player, NEW m \in notices, ProcessDisconnectScreenOff(p, m)
    PROVE  ManagerOK'
<1> DEFINE src == m.src
           f == m.frame
           votes == WithoutVotesOf(playerVotes[p], src, f)
           received == framesReceived[p] \ {src}
<1>1. /\ m.type = "SCREENOFF" /\ src \in Peers(p)
      /\ playerVotes' = [playerVotes EXCEPT ![p] = votes]
      /\ disconnectFrames' = [disconnectFrames EXCEPT ![p][src] = f]
      /\ framesReceived' = [framesReceived EXCEPT ![p] = received]
      /\ UNCHANGED <<frame, inGame, presence, screenVars, timedOut, removedOn, notices>>
  BY DEF ProcessDisconnectScreenOff, Arrives, vars
<1>2. /\ src \in Player /\ src # p /\ f \in Nat /\ f <= frame[src]
      /\ votes \in SUBSET Vote /\ votes \subseteq playerVotes[p]
      /\ received \in SUBSET Player /\ received \subseteq framesReceived[p] \cup {src}
      /\ src \notin received
  BY <1>1, ManagerFacts, VotesWithout DEF Peers, Notices, NoticeOK, ManagerTypes
<1> HIDE DEF src, f, votes, received
<1> QED
  BY <1>1, <1>2, ManagerReported

(* The screen goes off: what p tells the others of its frame is true. *)
LEMMA ManagerTurnOff ==
    ASSUME DInv, NEW p \in Player, TurnOffScreen(p) PROVE ManagerOK'
<1> DEFINE told == Tell("SCREENOFF", p, p, frame[p])
           votes == {v \in playerVotes[p] : v.voter # p}
<1>1. /\ screen' = [screen EXCEPT ![p] = FALSE]
      /\ notices' = notices \cup told
      /\ framesReceived' = [framesReceived EXCEPT ![p] = framesReceived[p] \ {p}]
      /\ disconnectFrames' = [disconnectFrames EXCEPT ![p][p] = frame[p]]
      /\ playerVotes' = [playerVotes EXCEPT ![p] = votes]
      /\ UNCHANGED <<frame, inGame, presence, notified, timedOut, removedOn>>
  BY DEF TurnOffScreen, vars
<1>2. /\ told \in SUBSET Notices
      /\ \A m \in told : m.type = "SCREENOFF" /\ m.src = p /\ m.frame = frame[p]
  BY ManagerFacts, TellFacts DEF Kind
<1>3. votes \in SUBSET Vote /\ votes \subseteq playerVotes[p]
  BY ManagerFacts DEF ManagerTypes
<1> HIDE DEF told, votes
<1>4. ManagerTypes'
  <2>1. /\ disconnectFrames' \in [Player -> [Player -> Nat]]
        /\ framesReceived' \in [Player -> SUBSET Player]
        /\ playerVotes' \in [Player -> SUBSET Vote]
    BY <1>1, <1>3, ManagerFacts DEF ManagerTypes
  <2>2. notices' \in SUBSET Notices /\ screen' \in [Player -> BOOLEAN]
    BY <1>1, <1>2, ManagerFacts DEF ManagerTypes
  <2> QED
    BY <1>1, <2>1, <2>2, ManagerFacts DEF ManagerTypes
<1>5. OneLost'
  BY <1>1, ManagerFacts DEF OneLost, Up
<1>6. AccusedOK'
  <2>1. \A r \in Player : playerVotes'[r] \subseteq playerVotes[r]
    BY <1>1, <1>3, ManagerFacts DEF ManagerTypes
  <2> QED
    BY <1>1, <1>2, <2>1, ManagerFacts DEF AccusedOK, Silent
<1>7. \A r \in Player : RemovedOK(r)'
  BY <1>1, ManagerFacts DEF RemovedOK, Silent
<1>8. ASSUME NEW r \in Player PROVE ReportsOK(r)'
  <2>1. ReportsOK(r)
    BY ManagerFacts
  <2>2. CASE r # p
    <3>1. /\ disconnectFrames'[r] = disconnectFrames[r] /\ framesReceived'[r] = framesReceived[r]
          /\ screen'[r] = screen[r]
      BY <1>1, <2>2, ManagerFacts DEF ManagerTypes
    <3> QED
      BY <1>1, <2>1, <3>1 DEF ReportsOK
  <2>3. CASE r = p
    <3>1. /\ \A q \in Player : disconnectFrames'[p][q] =
                                  IF q = p THEN frame[p] ELSE disconnectFrames[p][q]
          /\ framesReceived'[p] = framesReceived[p] \ {p} /\ ~screen'[p]
      BY <1>1, ManagerFacts DEF ManagerTypes
    <3>2. \A q \in Player : disconnectFrames'[p][q] <= frame[q]
      BY <2>1, <2>3, <3>1, ManagerFacts DEF ReportsOK
    <3>3. \A q \in Player : q \in framesReceived'[p] => disconnectFrames'[p][q] >= FirstFrame
      BY <2>1, <2>3, <3>1 DEF ReportsOK
    <3> QED
      BY <1>1, <2>3, <3>1, <3>2, <3>3 DEF ReportsOK
  <2> QED
    BY <2>2, <2>3
<1>9. \A m \in notices' : NoticeOK(m)'
  <2>1. \A m \in notices : NoticeOK(m)'
    BY <1>1, ManagerFacts DEF NoticeOK, Up
  <2>2. \A m \in told : NoticeOK(m)'
    BY <1>1, <1>2, ManagerFacts DEF NoticeOK
  <2> QED
    BY <1>1, <2>1, <2>2
<1> QED
  BY <1>4, <1>5, <1>6, <1>7, <1>8, <1>9 DEF ManagerOK

(* Executing a frame: what was reported before stays true. *)
LEMMA ManagerAdvance ==
    ASSUME DInv, NEW p \in Player, AdvanceFrame(p) PROVE ManagerOK'
<1>1. /\ ExecuteFrame(p) /\ ~screen[p]
      /\ timedOut' = [timedOut EXCEPT ![p] = {}]
      /\ screen' = screen /\ notified' = notified /\ disconnectFrames' = disconnectFrames
      /\ framesReceived' = framesReceived /\ playerVotes' = playerVotes
      /\ UNCHANGED <<presence, removedOn, notices>>
  BY DEF AdvanceFrame, screenVars, reports
<1>2. /\ frame' = [frame EXCEPT ![p] = frame[p] + 1] /\ inGame' = inGame
      /\ frame' \in [Player -> Nat] /\ frame'[p] = frame[p] + 1
      /\ \A r \in Player : frame[r] <= frame'[r] /\ frame[r] \in Nat /\ frame'[r] \in Nat
  <2>1. frame' = [frame EXCEPT ![p] = frame[p] + 1] /\ inGame' = inGame
    BY <1>1, ManagerFacts, ExecutedFrame
  <2> QED
    BY <2>1, ManagerFacts
<1>3. ManagerTypes'
  <2>1. timedOut' \in [Player -> SUBSET Player]
    BY <1>1, ManagerFacts DEF ManagerTypes
  <2> QED
    BY <1>1, <2>1, ManagerFacts DEF ManagerTypes
<1>4. OneLost'
  BY <1>1, ManagerFacts DEF OneLost, Up
<1>5. AccusedOK'
  <2>1. \A r \in Player : timedOut'[r] \subseteq timedOut[r]
    BY <1>1, ManagerFacts DEF ManagerTypes
  <2> QED
    BY <1>1, <2>1, ManagerFacts DEF AccusedOK, Silent
<1>6. ASSUME NEW r \in Player PROVE RemovedOK(r)'
  <2>1. RemovedOK(r) /\ \A q \in Player : removedOn[r][q] \in Nat
    BY ManagerFacts DEF ManagerTypes
  <2>2. \A q \in Player : removedOn[r][q] <= frame'[r]
    BY <1>2, <2>1 DEF RemovedOK
  <2> QED
    BY <1>1, <1>2, <2>1, <2>2 DEF RemovedOK, Silent
<1>7. ASSUME NEW r \in Player PROVE ReportsOK(r)'
  <2>1. ReportsOK(r) /\ \A q \in Player : disconnectFrames[r][q] \in Nat
    BY ManagerFacts DEF ManagerTypes
  <2>2. \A q \in Player : disconnectFrames[r][q] <= frame'[q]
    <3>1. \A q \in Player : disconnectFrames[r][q] <= frame[q]
      BY <2>1 DEF ReportsOK
    <3> QED
      BY <1>2, <2>1, <3>1
  <2>3. r # p => frame'[r] = frame[r]
    BY <1>2
  <2> QED
    BY <1>1, <2>1, <2>2, <2>3 DEF ReportsOK
<1>8. \A m \in notices' : NoticeOK(m)'
  <2>1. \A r \in Player : frame[r] <= frame'[r] /\ (Up(r)' => Up(r))
    BY <1>1, <1>2 DEF Up
  <2>2. \A r \in Player : inGame'[r] \subseteq inGame[r]
    BY <1>2
  <2>3. \A r \in Player : \A s \in Player \ inGame[r] : removedOn'[r][s] = removedOn[r][s]
    BY <1>1
  <2> QED
    BY <1>1, <1>2, <2>1, <2>2, <2>3, NoticesKept
<1> QED
  BY <1>3, <1>4, <1>5, <1>6, <1>7, <1>8 DEF ManagerOK

(* Every step keeps the managers in order. *)
LEMMA ManagersStep == DInv /\ [DNext]_allVars => ManagerOK'
<1> SUFFICES ASSUME DInv, [DNext]_allVars PROVE ManagerOK'
  OBVIOUS
<1>1. CASE UNCHANGED allVars
  BY <1>1, ManagerKept DEF allVars, vars
<1>2. ASSUME NEW p \in Player, Tick(p) PROVE ManagerOK'
  BY <1>2, ManagerKept DEF Tick, ProcessFrameTick
<1>3. ASSUME NEW p \in Player, Crash(p) PROVE ManagerOK'
  BY <1>3, ManagerCrash
<1>4. ASSUME NEW p \in Player, Silence(p) PROVE ManagerOK'
  BY <1>4, ManagerSilence
<1>5. ASSUME NEW p \in Player, NEW h \in net, ReceiveHop(p, h) PROVE ManagerOK'
  BY <1>5, ManagerKept DEF ReceiveHop, Receive
<1>6. ASSUME NEW p \in Player, ManagerStep(p) PROVE ManagerOK'
  <2>1. CASE TurnOnScreen(p)
    BY <2>1, ManagerTurnOnScreen
  <2>2. CASE NotifyOthersOfCurrentFrame(p)
    BY <2>2, ManagerNotify
  <2>3. CASE AdvanceFrame(p)
    BY <2>3, ManagerAdvance
  <2>11. CASE TurnOffScreen(p)
    BY <2>11, ManagerTurnOff
  <2>4. ASSUME NEW q \in Player, TimeOut(p, q) PROVE ManagerOK'
    BY <2>4, ManagerTimeOut
  <2>5. ASSUME NEW q \in Player, VoteForPlayerDisconnect(p, q) PROVE ManagerOK'
    BY <2>5, ManagerVote
  <2>6. ASSUME NEW q \in Player, RemovePlayer(p, q) PROVE ManagerOK'
    BY <2>6, ManagerRemove
  <2>7. ASSUME NEW m \in notices, ProcessDisconnectPlayer(p, m) PROVE ManagerOK'
    BY <2>7, ManagerGoesOn
  <2>8. ASSUME NEW m \in notices, ProcessDisconnectVote(p, m) PROVE ManagerOK'
    BY <2>8, ManagerProcessVote
  <2>9. ASSUME NEW m \in notices, ProcessDisconnectFrame(p, m) PROVE ManagerOK'
    BY <2>9, ManagerProcessFrame
  <2>10. ASSUME NEW m \in notices, ProcessDisconnectScreenOff(p, m) PROVE ManagerOK'
    BY <2>10, ManagerProcessScreenOff
  <2> QED
    BY <1>6, <2>1, <2>2, <2>3, <2>4, <2>5, <2>6, <2>7, <2>8, <2>9, <2>10, <2>11
       DEF ManagerStep
<1> QED
  BY <1>1, <1>2, <1>3, <1>4, <1>5, <1>6 DEF DNext

LEMMA DInvariant == DSpec => []DInv
<1>1. DInv /\ [DNext]_allVars => DInv'
  BY GameStep, ManagersStep DEF DInv
<1> QED
  BY DInvInit, <1>1, PTL DEF DSpec

-----------------------------------------------------------------------------
(* The theorems. *)

(* Whoever crashes, and however its last packets and the disconnect         *)
(* messages cross, every variable of the game and of the disconnect         *)
(* managers (DisconnectManager.h, ConnectionManager.h) keeps its type.      *)
THEOREM DisconnectTypes == DSpec => []DTypeOK
<1>1. DInv => DTypeOK
  <2>1. DInv => TypeOK /\ ManagerTypes
    BY DEF DInv, GameOK, ManagerOK, AnnounceInv, TypeInv
  <2> QED
    BY <2>1 DEF DTypeOK, ManagerTypes
<1> QED
  BY <1>1, DInvariant, PTL

(* One remover: updateDisconnectStatus has a lost player removed by the     *)
(* next packet router only.  Whenever two players each take themselves for  *)
(* it, they are one and the same.                                           *)
THEOREM OneRemoverAlways == DSpec => []OneRemover
<1>1. DInv => OneRemover
  <2> SUFFICES ASSUME DInv, NEW m \in notices, NEW n \in notices,
                      m.type = "PLAYER", n.type = "PLAYER", m.slot = n.slot
               PROVE  m.src = n.src
    BY DEF OneRemover
  <2>1. /\ m.src \in Player /\ n.src \in Player
        /\ m.slot # m.src /\ n.slot # n.src
        /\ \A r \in Player \ {m.src, m.slot} : m.src < r
        /\ \A r \in Player \ {n.src, n.slot} : n.src < r
    BY ManagerFacts DEF NoticeOK, Notices
  <2> QED
    BY <2>1 DEF Player
<1> QED
  BY <1>1, DInvariant, PTL

(* Nobody is left behind: when the lost player is removed                   *)
(* (updateDisconnectStatus, disconnectPlayer), all that are left have come  *)
(* to the frame on which it is, so that nobody needs a frame any more that  *)
(* is not kept.                                                             *)
THEOREM NobodyLeftBehindAlways == DSpec => []NobodyLeftBehind
<1>1. DInv => NobodyLeftBehind
  <2> SUFFICES ASSUME DInv, NEW m \in notices, m.type = "PLAYER",
                      NEW r \in Player, Up(r)
               PROVE  frame[r] >= removedOn[m.src][m.slot]
    BY DEF NobodyLeftBehind, Survivors
  <2>1. /\ removedOn[m.src][m.slot] <= frame[r]
        /\ removedOn[m.src][m.slot] \in Nat /\ frame[r] \in Nat
    BY ManagerFacts DEF NoticeOK, Notices, ManagerTypes
  <2> QED
    BY <2>1
<1> QED
  BY <1>1, DInvariant, PTL

(* No desync among those that are left but for the lost player: what one    *)
(* executes on a frame (Network::update) and another does not is of a       *)
(* player that the other had removed by then (disconnectPlayer).            *)
THEOREM DifferOnlyByTheLostAlways == DSpec => []DifferOnlyByTheLost
<1>1. DInv => DifferOnlyByTheLost
  <2> SUFFICES ASSUME DInv, NEW p \in Survivors, NEW q \in Survivors,
                      NEW f \in 1 .. frame[p] - 1, f < frame[q],
                      NEW c \in executed[p][f] \ executed[q][f]
               PROVE  removedOn[q][c.player] \in 1 .. f
    BY DEF DifferOnlyByTheLost
  <2>1. p \in Player /\ q \in Player
    BY DEF Survivors
  <2>2. /\ ExecutedOK(p) /\ ExecutedOK(q) /\ created \in SUBSET Command
        /\ frame[p] \in Nat /\ frame[q] \in Nat
    BY <2>1, ManagerFacts DEF GameOK, AnnounceInv, TypeInv, TypeOK
  <2>3. c \in created /\ c.frame = f /\ f \in 1 .. frame[q] - 1
    BY <2>2 DEF ExecutedOK
  <2>4. c.player \in Player /\ c \in CommandsOf(c.player, f)
    BY <2>2, <2>3 DEF Command, CommandsOf
  <2> QED
    BY <2>2, <2>3, <2>4 DEF ExecutedOK
<1> QED
  BY <1>1, DInvariant, PTL

(* The frames that are sent again to those who miss them                    *)
(* (sendFrameDataToPlayer), and the commands that take another way when the *)
(* packet router is removed, never bring more commands for a frame than     *)
(* were announced for it: allCommandsReady throws none away.                *)
THEOREM NeverOverrunDespiteLoss == DSpec => []NoOverrun
<1>1. DInv => NoOverrun
  <2> SUFFICES ASSUME DInv, NEW p \in Player, NEW q \in Player, NEW f \in Awaited(p)
               PROVE  ~IsOverrun(frameData[p][q][SlotOf(f)])
    BY DEF NoOverrun
  <2>1. GameOK /\ AnnounceInv /\ TypeInv /\ frame[p] \in Nat /\ frame[p] >= 1
    BY ManagerFacts DEF AnnounceInv
  <2>2. f \in Window(p) /\ f \in Nat /\ SlotOf(f) \in SlotIndex
    <3>1. f \in Window(p) /\ f \in Nat
      BY <2>1, ConstantFacts DEF Awaited, Window, OldestKept
    <3> QED
      BY <3>1, SlotOfType
  <2>3. PICK fd \in FrameDataType : fd = frameData[p][q][SlotOf(f)]
    BY <2>1, <2>2 DEF TypeInv, TypeOK
  <2>4. CASE p = q
    <3>1. fd.frameCommandCount = fd.commandCount
      BY <2>1, <2>2, <2>3, <2>4 DEF GameOK, OwnCountOK
    <3> QED
      BY <2>3, <3>1 DEF IsOverrun, FrameDataType
  <2>5. CASE p # q
    <3>1. Exact(fd, q, f)
      BY <2>1, <2>2, <2>3, <2>5 DEF GameOK, RingsExact
    <3>2. IsFiniteSet(CommandsOf(q, f))
      BY <2>1, FS_Subset DEF AnnounceInv, CreatedOK, CommandsOf
    <3>3. Cardinality(fd.cmds) <= Cardinality(CommandsOf(q, f))
      BY <3>1, <3>2, FS_Subset DEF Exact
    <3>4. fd.frameCommandCount # Unknown => fd.commandCount <= fd.frameCommandCount
      BY <3>1, <3>3 DEF Exact
    <3> QED
      BY <2>3, <3>4 DEF IsOverrun, FrameDataType, Unknown
  <2> QED
    BY <2>4, <2>5
<1> QED
  BY <1>1, DInvariant, PTL

=============================================================================
