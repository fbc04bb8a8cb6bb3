---------------------------- MODULE DesyncProofs ----------------------------
(***************************************************************************)
(* No desync, for every number of players, run-ahead and buffer length:    *)
(* everybody who executes a frame executes exactly the commands created    *)
(* for it, so that the protocol implements the replicated log.             *)
(*                                                                         *)
(* The argument: a player executes a frame only when everybody in its game *)
(* has announced it, which bounds the lead of one player over another, so  *)
(* a transmission comes at most three run-aheads early; the ring is long   *)
(* enough that the slot of a frame still to be executed holds commands of  *)
(* that frame only; as many as were announced are therefore all of them,   *)
(* and after the announcement none is created.                             *)
(***************************************************************************)
EXTENDS AnnounceProofs

-----------------------------------------------------------------------------
(* What a player has executed and from where its announcements start. *)
StartOK(p) ==
    /\ \/ /\ frame[p] = 0 /\ lastFrame[p] = 0
          /\ localStatus[p] = "PREGAME" /\ executed[p] = <<>>
       \/ frame[p] = Len(executed[p]) + 1
    /\ InitialRunAhead <= lastFrameCompleted[p] + 1
    /\ Leaving(p) => lastExecutionFrame[p] = lastFrameCompleted[p]

(* A player leaves with one command, for the last frame it announces. *)
LeaveOK ==
    /\ \A c \in created : c.type = "LEAVE" =>
          Leaving(c.player) /\ c.frame = LastAnnounced(c.player)
    /\ \A q \in Player : Leaving(q) =>
          \E c \in created : c.type = "LEAVE" /\ c.player = q /\ c.frame = LastAnnounced(q)

(* The frames a player has executed were announced by everybody in its game *)
(* and the others are those whose last frame it has executed.               *)
SkewOK(p) ==
    \A q \in Player :
        IF q \in inGame[p]
          THEN /\ frame[p] <= LastAnnounced(q) + 1
               /\ Leaving(q) => frame[p] <= LastAnnounced(q)
          ELSE Leaving(q) /\ LastAnnounced(q) < frame[p]

(* How early a transmission can come, at the router and at the others. *)
ReachOK ==
    \A h \in net :
        /\ h.cmd.frame >= 1
        /\ \/ h.cmd.frame <= frame[h.dst] + 2 * MaxRunAhead + 2
           \/ h.relay \subseteq {h.dst} /\ h.cmd.frame <= frame[h.dst] + 3 * MaxRunAhead + 3

(* The frames of the window that p has not executed. *)
Future(p) == {f \in Window(p) : f >= frame[p]}

(* n is the count q has announced for frame f. *)
AnnouncedFor(q, f, n) ==
    /\ f <= LastAnnounced(q)
    /\ n = Cardinality(CommandsOf(q, f))
    /\ \/ f < InitialRunAhead
       \/ \E h \in net : /\ h.cmd.type = "FRAMEINFO"
                         /\ h.cmd.player = q
                         /\ h.cmd.frame = f
                         /\ h.cmd.arg = n

(* What a slot holds is of one frame. *)
Fresh(fd, q, f) ==
    /\ fd.cmds \subseteq CommandsOf(q, f)
    /\ fd.commandCount = Cardinality(fd.cmds)
    /\ fd.frameCommandCount # Unknown => AnnouncedFor(q, f, fd.frameCommandCount)

RemoteOK(p, q) == \A f \in Future(p) : Fresh(frameData[p][q][SlotOf(f)], q, f)

(* The local player's counts are final. *)
OwnCountOK(p) ==
    \A i \in SlotIndex :
        frameData[p][p][i].frameCommandCount = frameData[p][p][i].commandCount

(* The run-ahead is that of the last change executed. *)
ChangesAt(f) == {c \in created : c.frame = f /\ c.type = "RUNAHEAD"}

LastOf(changes) == (CHOOSE c \in changes : \A d \in changes : d.id <= c.id).arg

RunAheadAt(f, ra) ==
    \/ /\ ra = InitialRunAhead
       /\ \A g \in 1 .. f - 1 : ChangesAt(g) = {}
    \/ \E g \in 1 .. f - 1 :
          /\ ChangesAt(g) # {}
          /\ ra = LastOf(ChangesAt(g))
          /\ \A k \in g + 1 .. f - 1 : ChangesAt(k) = {}

DesyncInv ==
    /\ AnnounceInv
    /\ \A p \in Player : StartOK(p)
    /\ LeaveOK
    /\ \A p \in Player : SkewOK(p)
    /\ ReachOK
    /\ \A p, q \in Player : p # q => RemoteOK(p, q)
    /\ \A p \in Player : OwnCountOK(p)
    /\ NoDesync
    /\ \A p \in Player : RunAheadAt(frame[p], runAhead[p])

-----------------------------------------------------------------------------
(* What the invariant says of two players. *)

LEMMA ReachFacts == FrameDataLength >= 3 * MaxRunAhead + 4
BY ReachAssumption

LEMMA ClockTypes ==
    ASSUME AnnounceInv, NEW p \in Player
    PROVE  /\ frame[p] \in Nat /\ lastFrameCompleted[p] \in Nat
           /\ lastExecutionFrame[p] \in Nat /\ lastFrame[p] \in Nat
           /\ runAhead[p] \in MinRunAhead .. MaxRunAhead
           /\ LastAnnounced(p) \in Nat /\ LastCreated(p) \in Nat
           /\ LastAnnounced(p) <= LastCreated(p)
           /\ LastCreated(p) <= frame[p] + MaxRunAhead + 1
<1>1. /\ frame[p] \in Nat /\ lastFrameCompleted[p] \in Nat
      /\ lastExecutionFrame[p] \in Nat /\ lastFrame[p] \in Nat
      /\ runAhead[p] \in MinRunAhead .. MaxRunAhead
  BY DEF AnnounceInv, TypeInv, TypeOK
<1>2. /\ lastFrameCompleted[p] <= lastExecutionFrame[p]
      /\ lastExecutionFrame[p] <= frame[p] + MaxRunAhead
  BY DEF AnnounceInv, ClockOK
<1> QED
  BY <1>1, <1>2, ConstantFacts DEF LastAnnounced, LastCreated

(* Nobody is further ahead of a player in its game than that player can     *)
(* have announced.                                                          *)
LEMMA Lead ==
    ASSUME DesyncInv, NEW p \in Player, NEW q \in Player, q \in inGame[p]
    PROVE  frame[p] <= frame[q] + MaxRunAhead + 1
<1>1. AnnounceInv /\ frame[p] \in Nat /\ frame[q] \in Nat /\ MaxRunAhead \in Nat
  BY ClockTypes, ConstantFacts DEF DesyncInv
<1>2. /\ frame[p] <= LastAnnounced(q) + 1
      /\ Leaving(q) => frame[p] <= LastAnnounced(q)
  BY DEF DesyncInv, SkewOK
<1>3. LastAnnounced(q) \in Nat /\ LastAnnounced(q) <= frame[q] + MaxRunAhead + 1
  BY <1>1, ClockTypes
<1>4. CASE Leaving(q)
  BY <1>1, <1>2, <1>3, <1>4
<1>5. CASE ~Leaving(q)
  <2>1. LastAnnounced(q) <= frame[q] + MaxRunAhead
    <3>1. ClockOK(q) /\ lastFrameCompleted[q] \in Nat /\ lastExecutionFrame[q] \in Nat
      BY <1>1, ClockTypes DEF AnnounceInv
    <3> QED
      BY <1>1, <1>5, <3>1 DEF LastAnnounced, ClockOK
  <2> QED
    BY <1>1, <1>2, <1>3, <2>1
<1> QED
  BY <1>4, <1>5

(* A player that does not leave has announced what anybody has executed. *)
LEMMA Passed ==
    ASSUME DesyncInv, NEW p \in Player, NEW q \in Player, ~Leaving(q)
    PROVE  frame[p] <= LastAnnounced(q) + 1
BY DEF DesyncInv, SkewOK

(* A player that has left has created nothing for the frames from here on. *)
LEMMA NothingAfterLeaving ==
    ASSUME DesyncInv, NEW p \in Player, NEW q \in Player, q \notin inGame[p],
           NEW f \in Nat, f >= frame[p]
    PROVE  CommandsOf(q, f) = {} /\ f > LastAnnounced(q)
<1>1. Leaving(q) /\ LastAnnounced(q) < frame[p]
  BY DEF DesyncInv, SkewOK
<1>2. LastCreated(q) = LastAnnounced(q)
  BY <1>1 DEF DesyncInv, StartOK, LastCreated, LastAnnounced
<1>3. AnnounceInv /\ frame[p] \in Nat /\ LastAnnounced(q) \in Nat
  BY ClockTypes DEF DesyncInv
<1>4. f > LastAnnounced(q)
  BY <1>1, <1>3
<1>5. ASSUME NEW c \in CommandsOf(q, f) PROVE FALSE
  <2>1. f <= LastCreated(q)
    BY <1>3, <1>5 DEF CommandsOf, AnnounceInv, CreatedOK
  <2> QED
    BY <1>2, <1>3, <1>4, <2>1
<1> QED
  BY <1>4, <1>5

(* A frame that is not too early shares its slot with no other to come. *)
LEMMA FutureSlots ==
    ASSUME DesyncInv, NEW p \in Player, NEW f \in Future(p), NEW g \in Nat,
           g >= 1, g >= frame[p], g <= frame[p] + 3 * MaxRunAhead + 3,
           SlotOf(f) = SlotOf(g)
    PROVE  f = g
<1>1. frame[p] \in Nat /\ OldestKept(p) \in Nat
  BY WindowFacts DEF DesyncInv
<1>2. f \in Nat /\ f >= frame[p] /\ f <= OldestKept(p) + FrameDataLength - 1
  BY <1>1, ConstantFacts DEF Future, Window
<1>3. f < g + FrameDataLength
  <2>1. OldestKept(p) <= frame[p] \/ OldestKept(p) = 1
    BY <1>1, ConstantFacts DEF OldestKept
  <2> QED
    BY <1>1, <1>2, <2>1, ConstantFacts
<1>4. g < f + FrameDataLength
  BY <1>1, <1>2, ConstantFacts, ReachFacts
<1> QED
  BY <1>2, <1>3, <1>4, SlotUnique

(* What stays of a slot when commands are created for later frames. *)
LEMMA FreshKept ==
    ASSUME DesyncInv, NEW q \in Player, NEW f \in Nat, NEW fd, Fresh(fd, q, f),
           created \subseteq created', net \subseteq net',
           LastAnnounced(q) <= LastAnnounced(q)', LastAnnounced(q)' \in Nat,
           f <= LastAnnounced(q) => CommandsOf(q, f)' = CommandsOf(q, f)
    PROVE  /\ fd.cmds \subseteq CommandsOf(q, f)'
           /\ fd.commandCount = Cardinality(fd.cmds)
           /\ fd.frameCommandCount # Unknown => AnnouncedFor(q, f, fd.frameCommandCount)'
<1>1. fd.cmds \subseteq CommandsOf(q, f)' /\ fd.commandCount = Cardinality(fd.cmds)
  BY DEF Fresh, CommandsOf
<1>2. ASSUME fd.frameCommandCount # Unknown
      PROVE  AnnouncedFor(q, f, fd.frameCommandCount)'
  <2> DEFINE n == fd.frameCommandCount
  <2>1. /\ f <= LastAnnounced(q)
        /\ n = Cardinality(CommandsOf(q, f))
        /\ \/ f < InitialRunAhead
           \/ \E h \in net : /\ h.cmd.type = "FRAMEINFO" /\ h.cmd.player = q
                             /\ h.cmd.frame = f /\ h.cmd.arg = n
    BY <1>2 DEF Fresh, AnnouncedFor
  <2>2. LastAnnounced(q) \in Nat
    BY ClockTypes DEF DesyncInv
  <2>3. f <= LastAnnounced(q)'
    BY <2>1, <2>2
  <2>4. n = Cardinality(CommandsOf(q, f)')
    BY <2>1
  <2>5. \/ f < InitialRunAhead
        \/ \E h \in net' : /\ h.cmd.type = "FRAMEINFO" /\ h.cmd.player = q
                           /\ h.cmd.frame = f /\ h.cmd.arg = n
    BY <2>1
  <2> QED
    BY <2>3, <2>4, <2>5 DEF AnnouncedFor
<1> QED
  BY <1>1, <1>2

-----------------------------------------------------------------------------
(* A step in which p announces frames, or creates a command for a frame it  *)
(* has not announced, and nobody executes anything.                         *)

CreatesAhead(p) ==
    \/ created' = created
    \/ /\ ~Leaving(p)
       /\ \E cmd : /\ cmd.player = p
                   /\ cmd.frame \in Nat
                   /\ LastAnnounced(p) < cmd.frame
                   /\ created' = created \cup {cmd}

(* Frames that are announced, or executed by anybody, get no more commands. *)
LEMMA CreatesAheadKeeps ==
    ASSUME DesyncInv, NEW p \in Player, CreatesAhead(p)
    PROVE  /\ created \subseteq created'
           /\ \A q \in Player : \A f \in Nat :
                 f <= LastAnnounced(q) => CommandsOf(q, f)' = CommandsOf(q, f)
           /\ \A q \in Player : \A f \in Nat :
                 f < frame[q] => {c \in created' : c.frame = f} = {c \in created : c.frame = f}
<1>1. CASE created' = created
  BY <1>1 DEF CommandsOf
<1>2. CASE created' # created
  <2>1. PICK cmd : /\ ~Leaving(p) /\ cmd.player = p /\ cmd.frame \in Nat
                   /\ LastAnnounced(p) < cmd.frame /\ created' = created \cup {cmd}
    BY <1>2 DEF CreatesAhead
  <2>2. LastAnnounced(p) \in Nat
    BY ClockTypes DEF DesyncInv
  <2>3. ASSUME NEW q \in Player, NEW f \in Nat, f <= LastAnnounced(q)
        PROVE  CommandsOf(q, f)' = CommandsOf(q, f)
    <3>1. q = p => f # cmd.frame
      BY <2>1, <2>2, <2>3
    <3> QED
      BY <2>1, <3>1 DEF CommandsOf
  <2>4. ASSUME NEW q \in Player, NEW f \in Nat, f < frame[q]
        PROVE  {c \in created' : c.frame = f} = {c \in created : c.frame = f}
    <3>1. frame[q] <= LastAnnounced(p) + 1 /\ frame[q] \in Nat
      BY <2>1, Passed, ClockTypes DEF DesyncInv
    <3>2. f # cmd.frame
      BY <2>1, <2>2, <2>4, <3>1
    <3> QED
      BY <2>1, <3>2
  <2> QED
    BY <2>1, <2>3, <2>4
<1> QED
  BY <1>1, <1>2

(* The run-ahead of a frame depends on the commands of earlier frames only. *)
LEMMA RunAheadKept ==
    ASSUME NEW f \in Nat, NEW ra, RunAheadAt(f, ra),
           \A g \in Nat : g < f =>
              {c \in created' : c.frame = g} = {c \in created : c.frame = g}
    PROVE  RunAheadAt(f, ra)'
<1>1. \A g \in 1 .. f - 1 : ChangesAt(g)' = ChangesAt(g)
  <2> SUFFICES ASSUME NEW g \in 1 .. f - 1 PROVE ChangesAt(g)' = ChangesAt(g)
    OBVIOUS
  <2>1. g \in Nat /\ g < f
    OBVIOUS
  <2>2. {c \in created' : c.frame = g} = {c \in created : c.frame = g}
    BY <2>1
  <2>3. /\ ChangesAt(g) = {c \in {d \in created : d.frame = g} : c.type = "RUNAHEAD"}
        /\ ChangesAt(g)' = {c \in {d \in created' : d.frame = g} : c.type = "RUNAHEAD"}
    BY DEF ChangesAt
  <2> QED
    BY <2>2, <2>3
<1>2. CASE ra = InitialRunAhead /\ \A g \in 1 .. f - 1 : ChangesAt(g) = {}
  BY <1>1, <1>2 DEF RunAheadAt
<1>3. CASE \E g \in 1 .. f - 1 : /\ ChangesAt(g) # {}
                                 /\ ra = LastOf(ChangesAt(g))
                                 /\ \A k \in g + 1 .. f - 1 : ChangesAt(k) = {}
  <2>1. PICK g \in 1 .. f - 1 : /\ ChangesAt(g) # {}
                                /\ ra = LastOf(ChangesAt(g))
                                /\ \A k \in g + 1 .. f - 1 : ChangesAt(k) = {}
    BY <1>3
  <2>2. ChangesAt(g)' # {} /\ ra = LastOf(ChangesAt(g)')
    BY <1>1, <2>1
  <2>3. \A k \in g + 1 .. f - 1 : ChangesAt(k)' = {}
    BY <1>1, <2>1
  <2> QED
    BY <2>2, <2>3 DEF RunAheadAt, LastOf
<1> QED
  BY <1>2, <1>3 DEF RunAheadAt

LEMMA CreatingStep ==
    ASSUME DesyncInv, AnnounceInv', NEW p \in Player, CreatesAhead(p),
           UNCHANGED <<frame, runAhead, inGame, executed>>,
           \A q, r \in Player : q # r => frameData'[q][r] = frameData[q][r],
           \A q \in Player :
              /\ LastAnnounced(q) <= LastAnnounced(q)'
              /\ Leaving(q) => Leaving(q)' /\ LastAnnounced(q)' = LastAnnounced(q)
              /\ Leaving(q)' /\ ~Leaving(q) => LastAnnounced(q) < LastAnnounced(q)',
           net \subseteq net',
           \A h \in net' : h \notin net => /\ h.dst \in inGame[p]
                                           /\ h.cmd.frame \in 1 .. frame[p] + MaxRunAhead + 1
    PROVE  /\ \A q \in Player : SkewOK(q)'
           /\ ReachOK'
           /\ \A q, r \in Player : q # r => RemoteOK(q, r)'
           /\ NoDesync'
           /\ \A q \in Player : RunAheadAt(frame[q], runAhead[q])'
<1>1. /\ created \subseteq created'
      /\ \A q \in Player : \A f \in Nat :
            f <= LastAnnounced(q) => CommandsOf(q, f)' = CommandsOf(q, f)
      /\ \A q \in Player : \A f \in Nat :
            f < frame[q] => {c \in created' : c.frame = f} = {c \in created : c.frame = f}
  BY CreatesAheadKeeps
<1>2. AnnounceInv /\ MaxRunAhead \in Nat /\ inGame \in [Player -> SUBSET Player]
  BY ConstantFacts DEF DesyncInv, AnnounceInv, TypeInv, TypeOK
<1>3. \A q \in Player : /\ frame[q] \in Nat /\ LastAnnounced(q) \in Nat
                        /\ LastAnnounced(q)' \in Nat
  <2> SUFFICES ASSUME NEW q \in Player
               PROVE  /\ frame[q] \in Nat /\ LastAnnounced(q) \in Nat
                      /\ LastAnnounced(q)' \in Nat
    OBVIOUS
  <2>1. frame[q] \in Nat /\ LastAnnounced(q) \in Nat
    BY <1>2, ClockTypes
  <2>2. lastFrameCompleted'[q] \in Nat
    BY DEF AnnounceInv, TypeInv, TypeOK
  <2> QED
    BY <2>1, <2>2 DEF LastAnnounced
<1>4. ASSUME NEW q \in Player PROVE SkewOK(q)'
  <2> SUFFICES ASSUME NEW r \in Player
               PROVE  IF r \in inGame[q]
                        THEN /\ frame[q] <= LastAnnounced(r)' + 1
                             /\ Leaving(r)' => frame[q] <= LastAnnounced(r)'
                        ELSE Leaving(r)' /\ LastAnnounced(r)' < frame[q]
    BY DEF SkewOK
  <2>1. IF r \in inGame[q]
          THEN /\ frame[q] <= LastAnnounced(r) + 1
               /\ Leaving(r) => frame[q] <= LastAnnounced(r)
          ELSE Leaving(r) /\ LastAnnounced(r) < frame[q]
    BY DEF DesyncInv, SkewOK
  <2> QED
    BY <1>3, <2>1
<1>5. ReachOK'
  <2> SUFFICES ASSUME NEW h \in net'
               PROVE  /\ h.cmd.frame >= 1
                      /\ \/ h.cmd.frame <= frame[h.dst] + 2 * MaxRunAhead + 2
                         \/ /\ h.relay \subseteq {h.dst}
                            /\ h.cmd.frame <= frame[h.dst] + 3 * MaxRunAhead + 3
    BY DEF ReachOK
  <2>1. CASE h \in net
    BY <2>1 DEF DesyncInv, ReachOK
  <2>2. CASE h \notin net
    <3>1. h.dst \in Player /\ h.cmd.frame \in Nat
      BY DEF AnnounceInv, TypeInv, TypeOK, Hops, Command
    <3>2. /\ h.dst \in inGame[p]
          /\ h.cmd.frame >= 1 /\ h.cmd.frame <= frame[p] + MaxRunAhead + 1
      BY <2>2
    <3>3. frame[p] <= frame[h.dst] + MaxRunAhead + 1
      BY <3>1, <3>2, Lead
    <3> QED
      BY <1>2, <1>3, <3>1, <3>2, <3>3
  <2> QED
    BY <2>1, <2>2
<1>6. ASSUME NEW q \in Player, NEW r \in Player, q # r PROVE RemoteOK(q, r)'
  <2>1. Future(q)' = Future(q) /\ Future(q) \subseteq Nat
    BY <1>2, WindowFacts DEF Future, Window, OldestKept
  <2> SUFFICES ASSUME NEW f \in Future(q)
               PROVE  Fresh(frameData[q][r][SlotOf(f)], r, f)'
    BY <2>1 DEF RemoteOK
  <2>2. PICK fd : fd = frameData[q][r][SlotOf(f)]
    OBVIOUS
  <2>3. Fresh(fd, r, f)
    BY <1>6, <2>2 DEF DesyncInv, RemoteOK
  <2>4. /\ fd.cmds \subseteq CommandsOf(r, f)'
        /\ fd.commandCount = Cardinality(fd.cmds)
        /\ fd.frameCommandCount # Unknown => AnnouncedFor(r, f, fd.frameCommandCount)'
    BY <1>1, <1>3, <2>1, <2>3, FreshKept
  <2>5. (frameData[q][r][SlotOf(f)])' = fd
    BY <1>6, <2>2
  <2> QED
    BY <2>4, <2>5 DEF Fresh
<1>7. NoDesync'
  <2> SUFFICES ASSUME NEW q \in Player, NEW f \in 1 .. Len(executed[q])
               PROVE  executed[q][f] = {c \in created' : c.frame = f}
    BY DEF NoDesync
  <2>1. executed[q][f] = {c \in created : c.frame = f}
    BY DEF DesyncInv, NoDesync
  <2>2. Len(executed[q]) \in Nat /\ f \in Nat
    <3>1. executed[q] \in Seq(SUBSET Command)
      BY <1>2 DEF AnnounceInv, TypeInv, TypeOK
    <3> QED
      BY <3>1
  <2>3. f < frame[q]
    BY <1>3, <2>2 DEF DesyncInv, StartOK
  <2> QED
    BY <1>1, <2>1, <2>2, <2>3
<1>8. ASSUME NEW q \in Player PROVE RunAheadAt(frame[q], runAhead[q])'
  <2>1. RunAheadAt(frame[q], runAhead[q])
    BY DEF DesyncInv
  <2> DEFINE f == frame[q]
             ra == runAhead[q]
  <2>2. f \in Nat /\ f' = f /\ ra' = ra
    BY <1>3
  <2>3. \A g \in Nat : g < f => {c \in created' : c.frame = g} = {c \in created : c.frame = g}
    BY <1>1
  <2> HIDE DEF f, ra
  <2>4. RunAheadAt(f, ra)'
    BY <1>1, <2>1, <2>2, <2>3, RunAheadKept DEF f, ra, RunAheadAt
  <2> QED
    BY <2>4 DEF f, ra
<1> QED
  BY <1>4, <1>5, <1>6, <1>7, <1>8

-----------------------------------------------------------------------------
(* Everything is sent to players of the game. *)

LEMMA SendViaDst ==
    ASSUME NEW p, NEW router, NEW relay, NEW peers, NEW cmd, NEW S,
           router \in S, peers \subseteq S,
           NEW h \in SendVia(p, router, relay, peers, cmd)
    PROVE  h.dst \in S
<1>1. CASE router = p
  <2>1. PICK i \in relay \cap peers : h = Hop(p, i, {i}, cmd)
    BY <1>1 DEF SendVia, Direct
  <2> QED
    BY <2>1 DEF Hop
<1>2. CASE router # p
  <2>1. h = Hop(p, router, relay \ {p}, cmd)
    BY <1>2 DEF SendVia
  <2> QED
    BY <2>1 DEF Hop
<1> QED
  BY <1>1, <1>2

LEMMA SendLocalDst ==
    ASSUME TypeInv, NEW p \in Player, localStatus[p] # "LEFT", NEW relay, NEW cmd,
           NEW h \in SendLocal(p, relay, cmd)
    PROVE  h.dst \in inGame[p]
<1> DEFINE router == Router(p)
           peers == Peers(p)
<1>1. router \in inGame[p] /\ peers \subseteq inGame[p]
  BY RouterType DEF TypeInv, TypeOK, NotAlone, Peers
<1>2. h \in SendVia(p, router, relay, peers, cmd)
  BY DEF SendLocal
<1> HIDE DEF router, peers
<1> QED
  BY <1>1, <1>2, SendViaDst

LEMMA AnnounceDst ==
    ASSUME TypeInv, NEW p \in Player, localStatus[p] # "LEFT", NEW frames, NEW ring,
           NEW h \in Announce(p, frames, ring)
    PROVE  h.dst \in inGame[p]
<1>1. PICK f \in frames : h \in SendLocal(p, Player \ {p}, FrameInfo(p, f, ring))
  BY DEF Announce
<1> QED
  BY <1>1, SendLocalDst

(* The local player's counts stay final when it stores a command. *)
LEMMA OwnCountAdd ==
    ASSUME NEW ring \in Ring, NEW cmd \in Command,
           \A i \in SlotIndex : ring[i].frameCommandCount = ring[i].commandCount
    PROVE  \A i \in SlotIndex :
              AddNetCommandMsg(TRUE, ring, cmd)[i].frameCommandCount
                = AddNetCommandMsg(TRUE, ring, cmd)[i].commandCount
<1> DEFINE s == SlotOf(cmd.frame)
           new == CountIfLocal(TRUE, AddCommand(ring[s], cmd))
<1>1. s \in SlotIndex
  BY SlotOfType DEF Command
<1>2. ring[s] \in FrameDataType
  BY <1>1 DEF Ring
<1>3. AddCommand(ring[s], cmd) \in FrameDataType
  <2>1. 0 \in Nat /\ TRUE \in BOOLEAN
    OBVIOUS
  <2> QED
    BY <1>2, <2>1, FrameTypes
<1>4. new.frameCommandCount = new.commandCount
  BY <1>3 DEF CountIfLocal, SetFrameCommandCount, FrameDataType
<1>5. AddNetCommandMsg(TRUE, ring, cmd) = [ring EXCEPT ![s] = new]
  BY DEF AddNetCommandMsg
<1> HIDE DEF new, s
<1> QED
  BY <1>1, <1>4, <1>5 DEF Ring

-----------------------------------------------------------------------------
(* The invariant holds initially and is preserved by every action. *)

LEMMA DesyncInit == Init => DesyncInv
<1> SUFFICES ASSUME Init PROVE DesyncInv
  OBVIOUS
<1>1. AnnounceInv
  BY AnnounceInit
<1>2. \A p \in Player :
         /\ frame[p] = 0 /\ localStatus[p] = "PREGAME" /\ executed[p] = <<>>
         /\ lastFrame[p] = 0
         /\ ~Leaving(p) /\ inGame[p] = Player /\ runAhead[p] = InitialRunAhead
         /\ lastFrameCompleted[p] = InitialRunAhead - 1
         /\ LastAnnounced(p) = InitialRunAhead - 1
  BY DEF Init, Leaving, LastAnnounced
<1>3. InitialRunAhead \in Nat \ {0}
  BY ConstantFacts
<1>4. \A p \in Player : StartOK(p)
  BY <1>2, <1>3 DEF StartOK
<1>5. LeaveOK /\ ReachOK
  BY <1>2 DEF LeaveOK, ReachOK, Init
<1>6. \A p \in Player : SkewOK(p)
  BY <1>2, <1>3 DEF SkewOK
<1>7. NoDesync
  BY <1>2 DEF NoDesync
<1>8. \A p \in Player : RunAheadAt(frame[p], runAhead[p])
  <2>1. \A g \in 1 .. 0 - 1 : ChangesAt(g) = {}
    OBVIOUS
  <2> QED
    BY <1>2, <2>1 DEF RunAheadAt
<1>9. \A p, q \in Player : \A i \in SlotIndex :
         LET fd == frameData[p][q][i]
         IN  /\ fd.cmds = {} /\ fd.commandCount = 0
             /\ p = q => fd.frameCommandCount = 0
             /\ fd.frameCommandCount # Unknown =>
                   /\ fd.frameCommandCount = 0
                   /\ p = q \/ \E f \in 1 .. InitialRunAhead - 1 : SlotOf(f) = i
  <2> SUFFICES ASSUME NEW p \in Player, NEW q \in Player, NEW i \in SlotIndex
               PROVE  LET fd == frameData[p][q][i]
                      IN  /\ fd.cmds = {} /\ fd.commandCount = 0
                          /\ p = q => fd.frameCommandCount = 0
                          /\ fd.frameCommandCount # Unknown =>
                                /\ fd.frameCommandCount = 0
                                /\ p = q \/ \E f \in 1 .. InitialRunAhead - 1 : SlotOf(f) = i
    OBVIOUS
  <2>1. frameData[p][q] = ZeroFrames(EmptyRing(p = q), 1, InitialRunAhead - 1)
    BY DEF Init
  <2>2. 1 + (InitialRunAhead - 1) - 1 = InitialRunAhead - 1
    BY <1>3
  <2>3. frameData[p][q][i] =
          IF \E f \in 1 .. InitialRunAhead - 1 : SlotOf(f) = i
            THEN ZeroFrame(CountIfLocal(p = q, EmptyFrame)) ELSE CountIfLocal(p = q, EmptyFrame)
    BY <2>1, <2>2 DEF ZeroFrames, EmptyRing
  <2> QED
    BY <2>3 DEF CountIfLocal, SetFrameCommandCount, EmptyFrame, ZeroFrame, Unknown
<1>10. \A p \in Player : OwnCountOK(p)
  BY <1>9 DEF OwnCountOK
<1>11. ASSUME NEW p \in Player, NEW q \in Player, p # q PROVE RemoteOK(p, q)
  <2> SUFFICES ASSUME NEW f \in Future(p)
               PROVE  Fresh(frameData[p][q][SlotOf(f)], q, f)
    BY DEF RemoteOK
  <2>1. f \in Window(p) /\ f \in Nat /\ SlotOf(f) \in SlotIndex
    BY <1>1, WindowFacts, SlotOfType DEF Future
  <2>2. CommandsOf(q, f) = {} /\ Cardinality({}) = 0
    BY FS_EmptySet DEF Init, CommandsOf
  <2>3. PICK fd : fd = frameData[p][q][SlotOf(f)]
    OBVIOUS
  <2>4. fd.cmds = {} /\ fd.commandCount = 0
    BY <1>9, <2>1, <2>3
  <2>5. ASSUME fd.frameCommandCount # Unknown PROVE AnnouncedFor(q, f, fd.frameCommandCount)
    <3>1. fd.frameCommandCount = 0
      BY <1>9, <2>1, <2>3, <2>5
    <3>2. PICK g \in 1 .. InitialRunAhead - 1 : SlotOf(g) = SlotOf(f)
      BY <1>9, <1>11, <2>1, <2>3, <2>5
    <3>3. g \in Window(p)
      <4>1. g \in Nat /\ g >= frame[p] /\ g >= 1 /\ g <= frame[p] + MaxRunAhead + 1
        BY <1>2, <1>3, ConstantFacts
      <4> QED
        BY <1>1, <4>1, WindowFacts
    <3>4. f = g
      BY <1>1, <2>1, <3>2, <3>3, WindowFacts
    <3> QED
      BY <1>2, <1>3, <2>2, <3>1, <3>4 DEF AnnouncedFor
  <2> QED
    BY <2>2, <2>3, <2>4, <2>5 DEF Fresh
<1> QED
  BY <1>1, <1>4, <1>5, <1>6, <1>7, <1>8, <1>10, <1>11 DEF DesyncInv

LEMMA DesyncStartGame ==
    ASSUME DesyncInv, NEW p \in Player, StartGame(p) PROVE DesyncInv'
<1>1. AnnounceInv /\ AnnounceInv'
  BY AnnounceStartGame DEF DesyncInv
<1>2. /\ frame[p] = 0 /\ frame' = [frame EXCEPT ![p] = 1] /\ localStatus[p] = "PREGAME"
      /\ UNCHANGED <<runAhead, lastExecutionFrame, lastFrameCompleted, lastFrame, localStatus>>
      /\ UNCHANGED <<frameData, inGame, issued, created, net, executed>>
      /\ frame \in [Player -> Nat]
  BY <1>1 DEF StartGame, clock, AnnounceInv, TypeInv, TypeOK
<1>3. \A q \in Player : /\ frame[q] \in Nat /\ frame'[q] \in Nat /\ frame[q] <= frame'[q]
                        /\ q # p => frame'[q] = frame[q]
  BY <1>2
<1>4. frame'[p] = 1
  BY <1>2
<1>5. \A q \in Player : /\ Leaving(q)' = Leaving(q) /\ LastAnnounced(q)' = LastAnnounced(q)
                        /\ LastAnnounced(q) \in Nat
                        /\ StartOK(q) /\ SkewOK(q)
  BY <1>1, <1>2, ClockTypes DEF Leaving, LastAnnounced, DesyncInv
<1>6. \A q \in Player : StartOK(q)'
  <2> SUFFICES ASSUME NEW q \in Player PROVE StartOK(q)'
    OBVIOUS
  <2>1. CASE q = p
    <3>1. executed[p] = <<>>
      <4>1. executed[p] \in Seq(SUBSET Command)
        BY <1>1 DEF AnnounceInv, TypeInv, TypeOK
      <4> QED
        BY <1>2, <1>5, <4>1 DEF StartOK
    <3>2. frame'[p] = Len(executed[p]) + 1
      BY <1>4, <3>1
    <3> QED
      BY <1>2, <1>5, <2>1, <3>2 DEF StartOK
  <2>2. CASE q # p
    BY <1>2, <1>3, <1>5, <2>2 DEF StartOK
  <2> QED
    BY <2>1, <2>2
<1>7. LeaveOK'
  BY <1>1, <1>2, <1>5 DEF DesyncInv, LeaveOK, AnnounceInv, TypeInv, TypeOK, Command
<1>8. \A q \in Player : SkewOK(q)'
  <2> SUFFICES ASSUME NEW q \in Player PROVE SkewOK(q)'
    OBVIOUS
  <2>1. CASE q # p
    BY <1>2, <1>3, <1>5, <2>1 DEF SkewOK
  <2>2. CASE q = p
    <3> SUFFICES ASSUME NEW r \in Player
                 PROVE  IF r \in inGame[p]
                          THEN /\ 1 <= LastAnnounced(r) + 1
                               /\ Leaving(r) => 1 <= LastAnnounced(r)
                          ELSE Leaving(r) /\ LastAnnounced(r) < 1
      BY <1>2, <1>4, <1>5, <2>2 DEF SkewOK
    <3>1. r \notin inGame[p] => Leaving(r) /\ LastAnnounced(r) < 0
      BY <1>2, <1>5 DEF SkewOK
    <3>2. Leaving(r) => 1 <= LastAnnounced(r)
      BY <1>1, <1>5, ConstantFacts, ClockTypes DEF StartOK, LastAnnounced
    <3> QED
      BY <1>5, <3>1, <3>2
  <2> QED
    BY <2>1, <2>2
<1>9. ReachOK'
  <2>1. \A h \in net : h.dst \in Player /\ h.cmd.frame \in Nat
    BY <1>1 DEF AnnounceInv, TypeInv, TypeOK, Hops, Command
  <2> QED
    BY <1>2, <1>3, <2>1, ConstantFacts DEF DesyncInv, ReachOK
<1>10. \A q, r \in Player : q # r => RemoteOK(q, r)'
  <2> SUFFICES ASSUME NEW q \in Player, NEW r \in Player, q # r, NEW f \in Future(q)'
               PROVE  Fresh(frameData[q][r][SlotOf(f)], r, f)'
    BY DEF RemoteOK
  <2>1. f \in Future(q)
    <3>1. OldestKept(q)' = OldestKept(q)
      BY <1>2, <1>3, <1>4, ConstantFacts DEF OldestKept
    <3>2. f \in Window(q) /\ f >= frame'[q]
      BY <3>1 DEF Future, Window
    <3>3. f \in Nat
      BY <1>1, <3>2, WindowFacts
    <3>4. frame[q] \in Nat /\ frame'[q] \in Nat /\ frame[q] <= frame'[q]
      BY <1>2
    <3>5. f >= frame[q]
      BY <3>2, <3>3, <3>4
    <3> QED
      BY <3>2, <3>5 DEF Future
  <2>2. Fresh(frameData[q][r][SlotOf(f)], r, f)
    BY <2>1 DEF DesyncInv, RemoteOK
  <2>3. CommandsOf(r, f)' = CommandsOf(r, f) /\ LastAnnounced(r)' = LastAnnounced(r)
    BY <1>2, <1>5 DEF CommandsOf
  <2> QED
    BY <1>2, <2>2, <2>3 DEF Fresh, AnnouncedFor
<1>11. \A q \in Player : OwnCountOK(q)'
  BY <1>2 DEF DesyncInv, OwnCountOK
<1>12. NoDesync'
  BY <1>2 DEF DesyncInv, NoDesync
<1>13. \A q \in Player : RunAheadAt(frame[q], runAhead[q])'
  <2> SUFFICES ASSUME NEW q \in Player PROVE RunAheadAt(frame[q], runAhead[q])'
    OBVIOUS
  <2>1. RunAheadAt(frame[q], runAhead[q])
    BY DEF DesyncInv
  <2>2. CASE q # p
    <3>1. frame'[q] = frame[q] /\ runAhead'[q] = runAhead[q] /\ created' = created
      BY <1>2, <1>3, <2>2
    <3> QED
      BY <2>1, <3>1 DEF RunAheadAt, ChangesAt
  <2>3. CASE q = p
    <3>1. runAhead[p] = InitialRunAhead
      BY <1>2, <2>1, <2>3 DEF RunAheadAt
    <3>2. frame'[q] = 1 /\ runAhead'[q] = InitialRunAhead
      BY <1>2, <1>4, <2>3, <3>1
    <3> QED
      BY <3>2 DEF RunAheadAt
  <2> QED
    BY <2>2, <2>3
<1> QED
  BY <1>1, <1>6, <1>7, <1>8, <1>9, <1>10, <1>11, <1>12, <1>13 DEF DesyncInv

LEMMA DesyncProcessFrameTick ==
    ASSUME DesyncInv, NEW p \in Player, ProcessFrameTick(p) PROVE DesyncInv'
<1> DEFINE playing == localStatus[p] \in {"PREGAME", "INGAME"}
           exec == ExecutionFrame(p)
           frames == lastFrameCompleted[p] + 1 .. exec - 1
           infos == Announce(p, frames, frameData[p][p])
<1>1. AnnounceInv /\ AnnounceInv' /\ TypeInv
  BY AnnounceProcessFrameTick DEF DesyncInv, AnnounceInv
<1>2. /\ localStatus[p] # "LEFT" /\ lastFrame[p] # frame[p]
      /\ lastFrame' = [lastFrame EXCEPT ![p] = frame[p]]
      /\ UNCHANGED <<frame, runAhead, frameData, inGame, issued, created, executed>>
  BY DEF ProcessFrameTick
<1>3. /\ frame \in [Player -> Nat] /\ lastFrameCompleted \in [Player -> Nat]
      /\ lastExecutionFrame \in [Player -> Nat] /\ localStatus \in [Player -> Statuses]
      /\ frameData[p][p] \in Ring
  BY <1>1 DEF TypeInv, TypeOK, Ring
<1>4. /\ net \subseteq net'
      /\ \A h \in net' : h \notin net => playing /\ h \in infos
      /\ \A q \in Player : q # p => /\ lastFrameCompleted'[q] = lastFrameCompleted[q]
                                    /\ lastExecutionFrame'[q] = lastExecutionFrame[q]
                                    /\ localStatus'[q] = localStatus[q]
      /\ ~playing => UNCHANGED <<lastFrameCompleted, lastExecutionFrame, localStatus>>
      /\ playing => localStatus'[p] = "INGAME" /\ lastFrameCompleted'[p] = exec - 1
  <2>1. CASE ~playing
    BY <1>3, <2>1 DEF ProcessFrameTick
  <2>2. CASE playing
    <3>1. /\ lastExecutionFrame' = [lastExecutionFrame EXCEPT ![p] = exec]
          /\ net' = net \cup infos
          /\ lastFrameCompleted' = [lastFrameCompleted EXCEPT ![p] =
                                      IF exec - 1 > lastFrameCompleted[p] THEN exec - 1
                                      ELSE lastFrameCompleted[p]]
          /\ localStatus' = [localStatus EXCEPT ![p] = "INGAME"]
      BY <2>2 DEF ProcessFrameTick
    <3>2. lastFrameCompleted[p] < exec /\ exec \in Nat /\ lastFrameCompleted[p] \in Nat
      BY <1>1, <2>2, ExecutionFrameAhead
    <3> HIDE DEF exec, infos
    <3>3. (IF exec - 1 > lastFrameCompleted[p] THEN exec - 1 ELSE lastFrameCompleted[p])
             = exec - 1
      BY <3>2
    <3> QED
      BY <1>3, <2>2, <3>1, <3>3
  <2> QED
    BY <2>1, <2>2
<1>5. playing => /\ lastFrameCompleted[p] < exec /\ frame[p] < exec /\ exec \in Nat
                 /\ exec <= frame[p] + MaxRunAhead
                 /\ ~Leaving(p) /\ ~Leaving(p)'
  BY <1>1, <1>4, ExecutionFrameAhead, WindowFacts DEF Leaving
<1>6. \A q \in Player : /\ Leaving(q)' <=> Leaving(q)
                        /\ LastAnnounced(q) <= LastAnnounced(q)'
                        /\ Leaving(q) => LastAnnounced(q)' = LastAnnounced(q)
  <2> SUFFICES ASSUME NEW q \in Player
               PROVE  /\ Leaving(q)' <=> Leaving(q)
                      /\ LastAnnounced(q) <= LastAnnounced(q)'
                      /\ Leaving(q) => LastAnnounced(q)' = LastAnnounced(q)
    OBVIOUS
  <2>1. LastAnnounced(q) \in Nat /\ lastFrameCompleted[q] \in Nat
    BY <1>1, <1>3, ClockTypes
  <2>2. CASE q # p \/ ~playing
    <3>1. lastFrameCompleted'[q] = lastFrameCompleted[q] /\ localStatus'[q] = localStatus[q]
      BY <1>4, <2>2
    <3> QED
      BY <2>1, <3>1 DEF LastAnnounced, Leaving
  <2>3. CASE q = p /\ playing
    <3>1. lastFrameCompleted'[p] = exec - 1 /\ ~Leaving(p) /\ ~Leaving(p)'
      BY <1>4, <1>5, <2>3
    <3> HIDE DEF exec
    <3> QED
      BY <1>5, <2>1, <2>3, <3>1 DEF LastAnnounced
  <2> QED
    BY <2>2, <2>3
<1>7. \A h \in net' : h \notin net =>
         h.dst \in inGame[p] /\ h.cmd.frame \in 1 .. frame[p] + MaxRunAhead + 1
  <2> SUFFICES ASSUME NEW h \in net', h \notin net
               PROVE  h.dst \in inGame[p] /\ h.cmd.frame \in 1 .. frame[p] + MaxRunAhead + 1
    OBVIOUS
  <2>1. playing /\ h \in infos
    BY <1>4
  <2>2. h.dst \in inGame[p]
    BY <1>1, <1>2, <2>1, AnnounceDst
  <2>3. frames \in SUBSET Nat
    BY <1>3, <1>5, <2>1
  <2>4. PICK f \in frames : h.cmd = FrameInfo(p, f, frameData[p][p])
    BY <1>1, <1>2, <1>3, <2>1, <2>3, AnnounceTypes
  <2>5. h.cmd.frame = f
    BY <2>4 DEF FrameInfo, Cmd
  <2>6. f <= exec - 1 /\ f >= 1 /\ f \in Nat
    BY <1>3, <1>5, <2>1
  <2> HIDE DEF exec, frames
  <2> QED
    BY <1>3, <1>5, <2>1, <2>2, <2>5, <2>6, ConstantFacts
<1> HIDE DEF infos, frames
<1>8. /\ \A q \in Player : SkewOK(q)'
      /\ ReachOK'
      /\ \A q, r \in Player : q # r => RemoteOK(q, r)'
      /\ NoDesync'
      /\ \A q \in Player : RunAheadAt(frame[q], runAhead[q])'
  BY <1>1, <1>2, <1>4, <1>6, <1>7, CreatingStep DEF CreatesAhead
<1>9. \A q \in Player : StartOK(q)'
  <2> SUFFICES ASSUME NEW q \in Player PROVE StartOK(q)'
    OBVIOUS
  <2>1. StartOK(q)
    BY DEF DesyncInv
  <2>2. CASE q # p \/ ~playing
    <3>1. /\ lastFrameCompleted'[q] = lastFrameCompleted[q] /\ localStatus'[q] = localStatus[q]
          /\ lastExecutionFrame'[q] = lastExecutionFrame[q]
      BY <1>4, <2>2
    <3> QED
      BY <1>2, <1>6, <2>1, <3>1 DEF StartOK
  <2>3. CASE q = p /\ playing
    <3>1. InitialRunAhead <= lastFrameCompleted'[p] + 1
      <4>1. lastFrameCompleted[p] < exec /\ exec \in Nat /\ lastFrameCompleted[p] \in Nat
        BY <1>3, <1>5, <2>3
      <4> HIDE DEF exec
      <4> QED
        BY <1>4, <2>1, <2>3, <4>1, ConstantFacts DEF StartOK
    <3>2. frame[p] = Len(executed[p]) + 1
      BY <1>2, <2>1, <2>3 DEF StartOK
    <3>3. ~Leaving(q)'
      BY <1>5, <2>3
    <3> QED
      BY <1>2, <2>3, <3>1, <3>2, <3>3 DEF StartOK
  <2> QED
    BY <2>2, <2>3
<1>10. LeaveOK'
  <2>1. \A c \in created : c.player \in Player
    BY <1>1 DEF TypeInv, TypeOK, Command
  <2> QED
    BY <1>2, <1>6, <2>1 DEF DesyncInv, LeaveOK
<1>11. \A q \in Player : OwnCountOK(q)'
  BY <1>2 DEF DesyncInv, OwnCountOK
<1> QED
  BY <1>1, <1>8, <1>9, <1>10, <1>11 DEF DesyncInv

(* A command stored in the own ring leaves the others alone and the own     *)
(* counts final.                                                            *)
LEMMA OwnRingOnly ==
    ASSUME DesyncInv, NEW p \in Player, NEW cmd \in Command,
           frameData' = [frameData EXCEPT ![p][p] =
                            AddNetCommandMsg(TRUE, frameData[p][p], cmd)]
    PROVE  /\ \A q, r \in Player : q # r => frameData'[q][r] = frameData[q][r]
           /\ \A q \in Player : OwnCountOK(q)'
<1>1. frameData \in [Player -> [Player -> Ring]]
  BY DEF DesyncInv, AnnounceInv, TypeInv, TypeOK, Ring
<1>2. \A q, r \in Player : q # r => frameData'[q][r] = frameData[q][r]
  BY <1>1
<1>3. ASSUME NEW q \in Player PROVE OwnCountOK(q)'
  <2>1. OwnCountOK(q)
    BY DEF DesyncInv
  <2>2. CASE q = p
    <3>1. frameData'[p][p] = AddNetCommandMsg(TRUE, frameData[p][p], cmd)
      BY <1>1
    <3>2. \A i \in SlotIndex :
             frameData[p][p][i].frameCommandCount = frameData[p][p][i].commandCount
      BY <2>1, <2>2 DEF OwnCountOK
    <3>3. frameData[p][p] \in Ring
      BY <1>1
    <3>4. \A i \in SlotIndex :
             AddNetCommandMsg(TRUE, frameData[p][p], cmd)[i].frameCommandCount
               = AddNetCommandMsg(TRUE, frameData[p][p], cmd)[i].commandCount
      BY <3>2, <3>3, OwnCountAdd
    <3> QED
      BY <2>2, <3>1, <3>4 DEF OwnCountOK
  <2>3. CASE q # p
    <3>1. frameData'[q][q] = frameData[q][q]
      BY <1>1, <2>3
    <3> QED
      BY <2>1, <3>1 DEF OwnCountOK
  <2> QED
    BY <2>2, <2>3
<1> QED
  BY <1>2, <1>3

LEMMA DesyncIssueLocal ==
    ASSUME DesyncInv, AnnounceInv', NEW p \in Player, localStatus[p] = "INGAME",
           NEW type \in {"GAME", "RUNAHEAD"}, NEW arg \in Nat,
           type = "RUNAHEAD" => arg \in MinRunAhead .. MaxRunAhead,
           IssueLocal(p, type, ExecutionFrame(p), ExecutionFrame(p), arg),
           UNCHANGED <<frame, runAhead, lastFrameCompleted, lastFrame, localStatus,
                       inGame, executed>>
    PROVE  DesyncInv'
<1> DEFINE exec == ExecutionFrame(p)
           cmd == Cmd(type, p, exec, issued[p] + 1, arg)
<1>1. /\ AnnounceInv /\ TypeInv
      /\ issued \in [Player -> Nat] /\ lastExecutionFrame \in [Player -> Nat]
  BY DEF DesyncInv, AnnounceInv, TypeInv, TypeOK
<1>2. /\ lastFrameCompleted[p] < exec /\ frame[p] \in Nat /\ exec \in Nat
      /\ exec <= frame[p] + MaxRunAhead
      /\ LastAnnounced(p) = lastFrameCompleted[p] /\ lastFrameCompleted[p] \in Nat
  BY <1>1, ExecutionFrameAhead, WindowFacts
<1>3. /\ cmd \in Command /\ cmd.player = p /\ cmd.frame = exec /\ cmd.type = type
  BY <1>1, <1>2 DEF Cmd, Command, CommandTypes
<1>4. /\ lastExecutionFrame' = [lastExecutionFrame EXCEPT ![p] = exec]
      /\ frameData' = [frameData EXCEPT ![p][p] =
                          AddNetCommandMsg(TRUE, frameData[p][p], cmd)]
      /\ created' = created \cup {cmd}
      /\ net' = net \cup SendLocal(p, Player, cmd)
  BY DEF IssueLocal
<1> HIDE DEF exec, cmd
<1>5. ~Leaving(p)
  BY DEF Leaving
<1>6. CreatesAhead(p)
  BY <1>2, <1>3, <1>4, <1>5 DEF CreatesAhead
<1>7. \A q \in Player : /\ Leaving(q)' = Leaving(q)
                        /\ LastAnnounced(q)' = LastAnnounced(q)
                        /\ LastAnnounced(q) \in Nat
  BY <1>1, ClockTypes DEF LastAnnounced, Leaving
<1>8. \A q \in Player : /\ LastAnnounced(q) <= LastAnnounced(q)'
                        /\ Leaving(q) => Leaving(q)' /\ LastAnnounced(q)' = LastAnnounced(q)
                        /\ Leaving(q)' /\ ~Leaving(q) => LastAnnounced(q) < LastAnnounced(q)'
  BY <1>7
<1>9. \A h \in net' : h \notin net =>
         h.dst \in inGame[p] /\ h.cmd.frame \in 1 .. frame[p] + MaxRunAhead + 1
  <2> SUFFICES ASSUME NEW h \in SendLocal(p, Player, cmd)
               PROVE  h.dst \in inGame[p] /\ h.cmd.frame \in 1 .. frame[p] + MaxRunAhead + 1
    BY <1>4
  <2>1. localStatus[p] # "LEFT"
    OBVIOUS
  <2>2. h.dst \in inGame[p]
    BY <1>1, <2>1, SendLocalDst
  <2>3. \A g \in SendLocal(p, Player, cmd) : g.cmd = cmd
    BY <1>1, <1>3, <2>1, CreateTypes
  <2> QED
    BY <1>2, <1>3, <2>2, <2>3, ConstantFacts
<1>10. /\ \A q, r \in Player : q # r => frameData'[q][r] = frameData[q][r]
       /\ \A q \in Player : OwnCountOK(q)'
  BY <1>3, <1>4, OwnRingOnly
<1>11. net \subseteq net'
  BY <1>4
<1>12. /\ \A q \in Player : SkewOK(q)'
       /\ ReachOK'
       /\ \A q, r \in Player : q # r => RemoteOK(q, r)'
       /\ NoDesync'
       /\ \A q \in Player : RunAheadAt(frame[q], runAhead[q])'
  BY <1>6, <1>8, <1>9, <1>10, <1>11, CreatingStep
<1>13. \A q \in Player : StartOK(q)'
  <2> SUFFICES ASSUME NEW q \in Player PROVE StartOK(q)'
    OBVIOUS
  <2>1. StartOK(q)
    BY DEF DesyncInv
  <2>2. Leaving(q)' => Leaving(q) /\ lastExecutionFrame'[q] = lastExecutionFrame[q]
    BY <1>1, <1>4, <1>5, <1>7
  <2> QED
    BY <2>1, <2>2 DEF StartOK
<1>14. LeaveOK'
  <2>1. \A c \in created : c.player \in Player
    BY <1>1 DEF TypeInv, TypeOK, Command
  <2>2. cmd.type # "LEAVE"
    BY <1>3
  <2> QED
    BY <1>4, <1>7, <2>1, <2>2 DEF DesyncInv, LeaveOK
<1> QED
  BY <1>10, <1>12, <1>13, <1>14 DEF DesyncInv

LEMMA DesyncLeaveGame ==
    ASSUME DesyncInv, NEW p \in Player, LeaveGame(p) PROVE DesyncInv'
<1> DEFINE exec == ExecutionFrame(p)
           cmd == Cmd("LEAVE", p, exec + 1, issued[p] + 1, 0)
           ring == AddNetCommandMsg(TRUE, frameData[p][p], cmd)
           frames == {exec, exec + 1}
           infos == Announce(p, frames, ring)
<1>1. /\ AnnounceInv /\ AnnounceInv' /\ TypeInv
      /\ issued \in [Player -> Nat] /\ lastExecutionFrame \in [Player -> Nat]
      /\ lastFrameCompleted \in [Player -> Nat] /\ localStatus \in [Player -> Statuses]
  BY AnnounceLeaveGame DEF DesyncInv, AnnounceInv, TypeInv, TypeOK
<1>2. localStatus[p] = "INGAME" /\ localStatus[p] # "LEFT" /\ ~Leaving(p)
  BY DEF LeaveGame, Leaving
<1>3. /\ lastFrameCompleted[p] < exec /\ frame[p] \in Nat /\ exec \in Nat
      /\ exec <= frame[p] + MaxRunAhead
      /\ LastAnnounced(p) = lastFrameCompleted[p] /\ lastFrameCompleted[p] \in Nat
  BY <1>1, <1>2, ExecutionFrameAhead, WindowFacts
<1>4. /\ cmd \in Command /\ cmd.player = p /\ cmd.frame = exec + 1 /\ cmd.type = "LEAVE"
  BY <1>1, <1>3 DEF Cmd, Command, CommandTypes
<1>5. /\ frameData' = [frameData EXCEPT ![p][p] = ring]
      /\ created' = created \cup {cmd}
      /\ net' = net \cup SendLocal(p, Player, cmd) \cup infos
      /\ lastExecutionFrame' = [lastExecutionFrame EXCEPT ![p] = exec]
      /\ lastFrameCompleted' = [lastFrameCompleted EXCEPT ![p] = exec]
      /\ localStatus' = [localStatus EXCEPT ![p] = "LEAVING"]
      /\ UNCHANGED <<frame, runAhead, lastFrame, inGame, executed>>
  BY DEF LeaveGame
<1>6. ring \in Ring
  BY <1>1, <1>2, <1>4, CreateTypes
<1> HIDE DEF exec, cmd
<1>7. CreatesAhead(p)
  BY <1>2, <1>3, <1>4, <1>5 DEF CreatesAhead
<1>8. /\ Leaving(p)' /\ LastAnnounced(p)' = exec + 1
      /\ \A q \in Player : q # p => /\ Leaving(q)' = Leaving(q)
                                    /\ LastAnnounced(q)' = LastAnnounced(q)
  BY <1>1, <1>5 DEF LastAnnounced, Leaving
<1>9. \A q \in Player : /\ LastAnnounced(q) <= LastAnnounced(q)'
                        /\ Leaving(q) => Leaving(q)' /\ LastAnnounced(q)' = LastAnnounced(q)
                        /\ Leaving(q)' /\ ~Leaving(q) => LastAnnounced(q) < LastAnnounced(q)'
  <2> SUFFICES ASSUME NEW q \in Player
               PROVE  /\ LastAnnounced(q) <= LastAnnounced(q)'
                      /\ Leaving(q) => Leaving(q)' /\ LastAnnounced(q)' = LastAnnounced(q)
                      /\ Leaving(q)' /\ ~Leaving(q) => LastAnnounced(q) < LastAnnounced(q)'
    OBVIOUS
  <2>1. CASE q = p
    BY <1>2, <1>3, <1>8, <2>1
  <2>2. CASE q # p
    <3>1. LastAnnounced(q) \in Nat
      BY <1>1, ClockTypes
    <3> QED
      BY <1>8, <2>2, <3>1
  <2> QED
    BY <2>1, <2>2
<1>10. \A h \in net' : h \notin net =>
          h.dst \in inGame[p] /\ h.cmd.frame \in 1 .. frame[p] + MaxRunAhead + 1
  <2> SUFFICES ASSUME NEW h \in SendLocal(p, Player, cmd) \cup infos
               PROVE  h.dst \in inGame[p] /\ h.cmd.frame \in 1 .. frame[p] + MaxRunAhead + 1
    BY <1>5
  <2>1. CASE h \in SendLocal(p, Player, cmd)
    <3>1. h.dst \in inGame[p]
      BY <1>1, <1>2, <2>1, SendLocalDst
    <3>2. \A g \in SendLocal(p, Player, cmd) : g.cmd = cmd
      BY <1>1, <1>2, <1>4, CreateTypes
    <3> QED
      BY <1>3, <1>4, <2>1, <3>1, <3>2, ConstantFacts
  <2>2. CASE h \in infos
    <3>1. h.dst \in inGame[p]
      BY <1>1, <1>2, <2>2, AnnounceDst
    <3>2. frames \in SUBSET Nat
      BY <1>3
    <3>3. PICK f \in frames : h.cmd = FrameInfo(p, f, ring)
      BY <1>1, <1>2, <1>6, <2>2, <3>2, AnnounceTypes
    <3>4. h.cmd.frame = f
      BY <3>3 DEF FrameInfo, Cmd
    <3> QED
      BY <1>3, <3>1, <3>4, ConstantFacts
  <2> QED
    BY <2>1, <2>2
<1>11. /\ \A q, r \in Player : q # r => frameData'[q][r] = frameData[q][r]
       /\ \A q \in Player : OwnCountOK(q)'
  BY <1>4, <1>5, OwnRingOnly
<1>12. net \subseteq net'
  BY <1>5
<1>13. /\ \A q \in Player : SkewOK(q)'
       /\ ReachOK'
       /\ \A q, r \in Player : q # r => RemoteOK(q, r)'
       /\ NoDesync'
       /\ \A q \in Player : RunAheadAt(frame[q], runAhead[q])'
  BY <1>1, <1>5, <1>7, <1>9, <1>10, <1>11, <1>12, CreatingStep
<1>14. \A q \in Player : StartOK(q)'
  <2> SUFFICES ASSUME NEW q \in Player PROVE StartOK(q)'
    OBVIOUS
  <2>1. StartOK(q)
    BY DEF DesyncInv
  <2>2. CASE q = p
    <3>1. frame[p] = Len(executed[p]) + 1
      BY <1>2, <2>1, <2>2 DEF StartOK
    <3>2. lastFrameCompleted'[p] = exec /\ lastExecutionFrame'[p] = exec
      BY <1>1, <1>5
    <3>3. InitialRunAhead <= exec + 1
      BY <1>3, <2>1, <2>2, ConstantFacts DEF StartOK
    <3> QED
      BY <1>5, <2>2, <3>1, <3>2, <3>3 DEF StartOK
  <2>3. CASE q # p
    <3>1. /\ lastFrameCompleted'[q] = lastFrameCompleted[q] /\ Leaving(q)' = Leaving(q)
          /\ lastExecutionFrame'[q] = lastExecutionFrame[q]
          /\ localStatus'[q] = localStatus[q]
      BY <1>1, <1>5, <1>8, <2>3
    <3> QED
      BY <1>5, <2>1, <3>1 DEF StartOK
  <2> QED
    BY <2>2, <2>3
<1>15. LeaveOK'
  <2>1. \A c \in created : c.player \in Player
    BY <1>1 DEF TypeInv, TypeOK, Command
  <2>2. ASSUME NEW c \in created', c.type = "LEAVE"
        PROVE  Leaving(c.player)' /\ c.frame = LastAnnounced(c.player)'
    <3>1. CASE c = cmd
      BY <1>4, <1>8, <3>1
    <3>2. CASE c # cmd
      <4>1. c \in created
        BY <1>5, <3>2
      <4>2. Leaving(c.player) /\ c.frame = LastAnnounced(c.player) /\ c.player \in Player
        BY <2>1, <2>2, <4>1 DEF DesyncInv, LeaveOK
      <4>3. c.player # p
        BY <1>2, <4>2
      <4> QED
        BY <1>8, <4>2, <4>3
    <3> QED
      BY <3>1, <3>2
  <2>3. ASSUME NEW q \in Player, Leaving(q)'
        PROVE  \E c \in created' : /\ c.type = "LEAVE" /\ c.player = q
                                   /\ c.frame = LastAnnounced(q)'
    <3>1. CASE q = p
      BY <1>4, <1>5, <1>8, <3>1
    <3>2. CASE q # p
      BY <1>5, <1>8, <2>3, <3>2 DEF DesyncInv, LeaveOK
    <3> QED
      BY <3>1, <3>2
  <2> QED
    BY <2>2, <2>3 DEF LeaveOK
<1> QED
  BY <1>1, <1>11, <1>13, <1>14, <1>15 DEF DesyncInv

(* A slot stays fresh when a command, or a count, of its frame arrives. *)
LEMMA FreshAdd ==
    ASSUME DesyncInv, NEW q \in Player, NEW f \in Nat, NEW fd \in FrameDataType,
           Fresh(fd, q, f), NEW cmd \in CommandsOf(q, f)
    PROVE  Fresh(CountIfLocal(FALSE, AddCommand(fd, cmd)), q, f)
<1>1. CountIfLocal(FALSE, AddCommand(fd, cmd)) = AddCommand(fd, cmd)
  BY DEF CountIfLocal
<1>2. CASE \E c \in fd.cmds : SameCommand(c, cmd)
  BY <1>1, <1>2 DEF AddCommand
<1>3. CASE ~ \E c \in fd.cmds : SameCommand(c, cmd)
  <2>1. cmd \notin fd.cmds
    BY <1>3 DEF SameCommand
  <2>2. IsFiniteSet(fd.cmds)
    <3>1. IsFiniteSet(created) /\ fd.cmds \subseteq created
      BY DEF DesyncInv, AnnounceInv, CreatedOK, Fresh, CommandsOf
    <3> QED
      BY <3>1, FS_Subset
  <2>3. Cardinality(fd.cmds \cup {cmd}) = Cardinality(fd.cmds) + 1
    BY <2>1, <2>2, FS_AddElement
  <2>4. AddCommand(fd, cmd) = [fd EXCEPT !.cmds = fd.cmds \cup {cmd},
                                         !.commandCount = fd.commandCount + 1]
    BY <1>3 DEF AddCommand
  <2>5. /\ AddCommand(fd, cmd).cmds = fd.cmds \cup {cmd}
        /\ AddCommand(fd, cmd).commandCount = fd.commandCount + 1
        /\ AddCommand(fd, cmd).frameCommandCount = fd.frameCommandCount
    BY <2>4 DEF FrameDataType
  <2> QED
    BY <1>1, <2>3, <2>5 DEF Fresh
<1> QED
  BY <1>2, <1>3

LEMMA FreshCount ==
    ASSUME NEW q, NEW f, NEW n, NEW fd \in FrameDataType, Fresh(fd, q, f),
           AnnouncedFor(q, f, n)
    PROVE  Fresh(SetFrameCommandCount(fd, n), q, f)
<1>1. /\ SetFrameCommandCount(fd, n).cmds = fd.cmds
      /\ SetFrameCommandCount(fd, n).commandCount = fd.commandCount
      /\ SetFrameCommandCount(fd, n).frameCommandCount = n
  BY DEF SetFrameCommandCount, FrameDataType
<1> QED
  BY <1>1 DEF Fresh

(* Receiving: what arrives is of a frame to be executed, and near enough    *)
(* for its slot to be that of no other.                                     *)
LEMMA DesyncReceive ==
    ASSUME DesyncInv, NEW p \in Player, NEW h \in net, Receive(p, h) PROVE DesyncInv'
<1> DEFINE s == h.cmd.player
           g == h.cmd.frame
           ring == IF h.cmd.type = "FRAMEINFO"
                     THEN SetCount(frameData[p][s], g, h.cmd.arg)
                   ELSE IF p \in h.relay THEN AddNetCommandMsg(FALSE, frameData[p][s], h.cmd)
                   ELSE frameData[p][s]
<1>1. /\ AnnounceInv /\ AnnounceInv' /\ TypeInv
      /\ frameData \in [Player -> [Player -> Ring]] /\ frame \in [Player -> Nat]
  BY AnnounceReceive DEF DesyncInv, AnnounceInv, TypeInv, TypeOK, Ring
<1>2. /\ UNCHANGED <<frame, runAhead, lastExecutionFrame, lastFrameCompleted, lastFrame,
                     localStatus, inGame, issued, created, executed>>
      /\ net' = net \cup RelayOn(p, h)
      /\ h.dst = p /\ g >= frame[p]
      /\ frameData' = [frameData EXCEPT ![p][s] = ring]
  BY DEF Receive, Store, clock
<1>3. /\ h \in Hops /\ s \in Player /\ g \in Nat /\ h.cmd \in Command /\ h.cmd.arg \in Nat
  BY <1>1 DEF TypeInv, TypeOK, Hops, Command
<1>4. s # p
  BY <1>1, <1>2 DEF AnnounceInv, NotToSelf
<1>5. g >= 1 /\ g <= frame[p] + 3 * MaxRunAhead + 3
  <2>1. frame[p] \in Nat
    BY <1>1
  <2> QED
    BY <1>2, <1>3, <2>1, ConstantFacts DEF DesyncInv, ReachOK
<1>6. \A q \in Player : /\ Leaving(q)' = Leaving(q) /\ LastAnnounced(q)' = LastAnnounced(q)
                        /\ \A f : CommandsOf(q, f)' = CommandsOf(q, f)
  BY <1>2 DEF Leaving, LastAnnounced, CommandsOf
<1>7. \A q, r \in Player : frameData'[q][r] = IF q = p /\ r = s THEN ring ELSE frameData[q][r]
  BY <1>1, <1>2, <1>3
<1>8. \A f \in Nat :
         ring[SlotOf(f)] =
           IF SlotOf(f) # SlotOf(g) THEN frameData[p][s][SlotOf(f)]
           ELSE IF h.cmd.type = "FRAMEINFO"
             THEN SetFrameCommandCount(frameData[p][s][SlotOf(f)], h.cmd.arg)
           ELSE IF p \in h.relay
             THEN CountIfLocal(FALSE, AddCommand(frameData[p][s][SlotOf(f)], h.cmd))
           ELSE frameData[p][s][SlotOf(f)]
  <2> SUFFICES ASSUME NEW f \in Nat
               PROVE  ring[SlotOf(f)] =
                        IF SlotOf(f) # SlotOf(g) THEN frameData[p][s][SlotOf(f)]
                        ELSE IF h.cmd.type = "FRAMEINFO"
                          THEN SetFrameCommandCount(frameData[p][s][SlotOf(f)], h.cmd.arg)
                        ELSE IF p \in h.relay
                          THEN CountIfLocal(FALSE, AddCommand(frameData[p][s][SlotOf(f)], h.cmd))
                        ELSE frameData[p][s][SlotOf(f)]
    OBVIOUS
  <2>1. SlotOf(f) \in SlotIndex /\ SlotOf(g) \in SlotIndex /\ frameData[p][s] \in Ring
    BY <1>1, <1>3, SlotOfType
  <2> QED
    BY <2>1 DEF SetCount, AddNetCommandMsg, Ring
<1> HIDE DEF ring
<1>9. ASSUME NEW q \in Player, NEW r \in Player, q # r PROVE RemoteOK(q, r)'
  <2>1. Future(q)' = Future(q) /\ Future(q) \subseteq Nat
    BY <1>1, <1>2, WindowFacts DEF Future, Window, OldestKept
  <2> SUFFICES ASSUME NEW f \in Future(q)
               PROVE  Fresh(frameData[q][r][SlotOf(f)], r, f)'
    BY <2>1 DEF RemoteOK
  <2>2. SlotOf(f) \in SlotIndex
    BY <2>1, SlotOfType
  <2>3. frameData[q][r][SlotOf(f)] \in FrameDataType
    BY <1>1, <2>2 DEF Ring
  <2>4. PICK fd \in FrameDataType : fd = frameData[q][r][SlotOf(f)]
    BY <2>3
  <2>5. Fresh(fd, r, f)
    BY <1>9, <2>4 DEF DesyncInv, RemoteOK
  <2>6. PICK new : new = frameData'[q][r][SlotOf(f)]
    OBVIOUS
  <2>7. Fresh(new, r, f)
    <3>1. CASE ~(q = p /\ r = s /\ SlotOf(f) = SlotOf(g))
      BY <1>7, <1>8, <2>1, <2>4, <2>5, <2>6, <3>1
    <3>2. CASE q = p /\ r = s /\ SlotOf(f) = SlotOf(g)
      <4>1. f = g
        BY <1>2, <1>3, <1>5, <3>2, FutureSlots
      <4>2. CASE h.cmd.type = "FRAMEINFO"
        <5>1. new = SetFrameCommandCount(fd, h.cmd.arg)
          BY <1>7, <1>8, <2>1, <2>4, <2>6, <3>2, <4>2
        <5>2. AnnouncedFor(r, f, h.cmd.arg)
          BY <1>1, <3>2, <4>1, <4>2
             DEF AnnouncedFor, AnnounceInv, AnnouncedOK, AnnouncedCountIsFinal
        <5> QED
          BY <2>5, <5>1, <5>2, FreshCount
      <4>3. CASE h.cmd.type # "FRAMEINFO" /\ p \in h.relay
        <5>1. new = CountIfLocal(FALSE, AddCommand(fd, h.cmd))
          BY <1>7, <1>8, <2>1, <2>4, <2>6, <3>2, <4>3
        <5>2. h.cmd \in CommandsOf(r, f)
          BY <1>1, <3>2, <4>1, <4>3 DEF TypeInv, Sent, CommandsOf
        <5> QED
          BY <2>1, <2>5, <5>1, <5>2, FreshAdd
      <4>4. CASE h.cmd.type # "FRAMEINFO" /\ p \notin h.relay
        BY <1>7, <1>8, <2>1, <2>4, <2>5, <2>6, <3>2, <4>4
      <4> QED
        BY <4>2, <4>3, <4>4
    <3> QED
      BY <3>1, <3>2
  <2>8. /\ new.cmds \subseteq CommandsOf(r, f)'
        /\ new.commandCount = Cardinality(new.cmds)
        /\ new.frameCommandCount # Unknown => AnnouncedFor(r, f, new.frameCommandCount)'
    BY <1>2, <1>6, <2>7 DEF Fresh, AnnouncedFor
  <2> QED
    BY <2>6, <2>8 DEF Fresh
<1>10. ReachOK'
  <2> SUFFICES ASSUME NEW k \in net'
               PROVE  /\ k.cmd.frame >= 1
                      /\ \/ k.cmd.frame <= frame[k.dst] + 2 * MaxRunAhead + 2
                         \/ /\ k.relay \subseteq {k.dst}
                            /\ k.cmd.frame <= frame[k.dst] + 3 * MaxRunAhead + 3
    BY <1>2 DEF ReachOK
  <2>1. CASE k \in net
    BY <2>1 DEF DesyncInv, ReachOK
  <2>2. CASE k \in RelayOn(p, h)
    <3>1. PICK i \in h.relay \cap Peers(p) : k = Hop(p, i, {i}, h.cmd)
      BY <2>2 DEF RelayOn, Direct
    <3>2. k.dst = i /\ k.relay = {i} /\ k.cmd = h.cmd /\ i \in inGame[p] /\ i # p
      BY <3>1 DEF Hop, Peers
    <3>3. i \in Player
      BY <1>1, <3>2 DEF TypeInv, TypeOK
    <3>4. ~(h.relay \subseteq {h.dst})
      BY <1>2, <3>1, <3>2
    <3>5. g <= frame[p] + 2 * MaxRunAhead + 2
      BY <1>2, <3>4 DEF DesyncInv, ReachOK
    <3>6. frame[p] <= frame[i] + MaxRunAhead + 1
      BY <3>2, <3>3, Lead
    <3> QED
      BY <1>1, <1>3, <1>5, <3>2, <3>3, <3>5, <3>6, ConstantFacts
  <2> QED
    BY <1>2, <2>1, <2>2
<1>11. \A q \in Player : StartOK(q)' /\ SkewOK(q)' /\ RunAheadAt(frame[q], runAhead[q])'
  <2>1. \A q \in Player : StartOK(q) /\ SkewOK(q) /\ RunAheadAt(frame[q], runAhead[q])
    BY DEF DesyncInv
  <2>2. \A q \in Player : StartOK(q)'
    BY <1>2, <1>6, <2>1 DEF StartOK
  <2>3. \A q \in Player : SkewOK(q)'
    BY <1>2, <1>6, <2>1 DEF SkewOK
  <2>4. ASSUME NEW q \in Player PROVE RunAheadAt(frame[q], runAhead[q])'
    <3>1. \A f : ChangesAt(f)' = ChangesAt(f)
      BY <1>2 DEF ChangesAt
    <3>2. frame'[q] = frame[q] /\ runAhead'[q] = runAhead[q]
      BY <1>2
    <3> QED
      BY <2>1, <3>1, <3>2 DEF RunAheadAt, LastOf
  <2> QED
    BY <2>2, <2>3, <2>4
<1>12. LeaveOK' /\ NoDesync'
  <2>1. \A c \in created : c.player \in Player
    BY <1>1 DEF TypeInv, TypeOK, Command
  <2>2. LeaveOK'
    BY <1>2, <1>6, <2>1 DEF DesyncInv, LeaveOK
  <2>3. NoDesync'
    BY <1>2 DEF DesyncInv, NoDesync
  <2> QED
    BY <2>2, <2>3
<1>13. \A q \in Player : OwnCountOK(q)'
  BY <1>4, <1>7 DEF DesyncInv, OwnCountOK
<1> QED
  BY <1>1, <1>9, <1>10, <1>11, <1>12, <1>13 DEF DesyncInv

-----------------------------------------------------------------------------
(* Executing a frame. *)

(* A player that is ready for a frame holds all that was created for it,    *)
(* and everybody in its game has announced it.                              *)
LEMMA ReadyFrame ==
    ASSUME DesyncInv, NEW p \in Player, localStatus[p] \in {"INGAME", "LEAVING"},
           lastFrame[p] = frame[p], AllCommandsReady(p)
    PROVE  /\ frame[p] \in Nat \ {0}
           /\ frame[p] = Len(executed[p]) + 1
           /\ \A q \in inGame[p] : q \in Player /\ frame[p] <= LastAnnounced(q)
           /\ FrameCommands(p) = {c \in created : c.frame = frame[p]}
           /\ \A q \in Player :
                 frameData[p][q][SlotOf(frame[p])].cmds = CommandsOf(q, frame[p])
<1>1. /\ AnnounceInv /\ TypeInv /\ inGame \in [Player -> SUBSET Player]
      /\ executed[p] \in Seq(SUBSET Command) /\ frame[p] \in Nat
  BY DEF DesyncInv, AnnounceInv, TypeInv, TypeOK
<1>2. PICK f : f = frame[p]
  OBVIOUS
<1>3. f = Len(executed[p]) + 1 /\ f \in Nat \ {0}
  <2>1. Len(executed[p]) \in Nat
    BY <1>1
  <2>2. f = Len(executed[p]) + 1
    BY <1>2 DEF DesyncInv, StartOK
  <2> QED
    BY <2>1, <2>2
<1>4. f \in Window(p) /\ f \in Future(p) /\ SlotOf(f) \in SlotIndex
  <2>1. f >= frame[p] /\ f >= 1 /\ f <= frame[p] + MaxRunAhead + 1
    BY <1>2, <1>3, ConstantFacts
  <2>2. f \in Window(p)
    BY <1>1, <1>3, <2>1, WindowFacts
  <2> QED
    BY <1>3, <2>1, <2>2, SlotOfType DEF Future
<1>5. \A q \in Player : IsFiniteSet(CommandsOf(q, f))
  BY <1>1, FS_Subset DEF AnnounceInv, CreatedOK, CommandsOf
<1>6. ASSUME NEW q \in inGame[p], q # p
      PROVE  f <= LastAnnounced(q) /\ frameData[p][q][SlotOf(f)].cmds = CommandsOf(q, f)
  <2>1. q \in Player
    BY <1>1
  <2>2. frameData[p][q][SlotOf(f)] \in FrameDataType
    BY <1>1, <1>4, <2>1 DEF TypeInv, TypeOK
  <2>3. PICK fd \in FrameDataType : fd = frameData[p][q][SlotOf(f)]
    BY <2>2
  <2>4. Fresh(fd, q, f)
    BY <1>4, <1>6, <2>1, <2>3 DEF DesyncInv, RemoteOK
  <2>5. fd.frameCommandCount = fd.commandCount
    BY <1>2, <2>3 DEF AllCommandsReady, IsReady
  <2>6. fd.frameCommandCount # Unknown
    BY <2>5 DEF FrameDataType, Unknown
  <2>7. /\ f <= LastAnnounced(q)
        /\ Cardinality(fd.cmds) = Cardinality(CommandsOf(q, f))
        /\ fd.cmds \subseteq CommandsOf(q, f)
    BY <2>4, <2>5, <2>6 DEF Fresh, AnnouncedFor
  <2>8. fd.cmds = CommandsOf(q, f)
    BY <1>5, <2>1, <2>7, FS_Subset
  <2> QED
    BY <2>3, <2>7, <2>8
<1>7. f <= LastAnnounced(p) /\ frameData[p][p][SlotOf(f)].cmds = CommandsOf(p, f)
  <2>1. frameData[p][p][SlotOf(f)].cmds = CommandsOf(p, f)
    BY <1>1, <1>4 DEF AnnounceInv, OwnRingOK, Holds
  <2>2. CASE localStatus[p] = "INGAME"
    <3>1. frame[p] <= lastFrameCompleted[p] /\ ~Leaving(p)
      BY <1>1, <2>2 DEF AnnounceInv, ClockOK, Leaving
    <3> QED
      BY <1>2, <2>1, <3>1 DEF LastAnnounced
  <2>3. CASE localStatus[p] = "LEAVING"
    <3>1. Leaving(p) /\ p \in inGame[p]
      BY <1>1, <2>3 DEF Leaving, TypeInv, NotAlone
    <3>2. SkewOK(p)
      BY DEF DesyncInv
    <3>3. frame[p] <= LastAnnounced(p)
      BY <3>1, <3>2 DEF SkewOK
    <3> QED
      BY <1>2, <2>1, <3>3
  <2> QED
    BY <2>1, <2>2, <2>3
<1>8. ASSUME NEW q \in Player, q \notin inGame[p]
      PROVE  frameData[p][q][SlotOf(f)].cmds = CommandsOf(q, f)
  <2>1. CommandsOf(q, f) = {}
    <3>1. f \in Nat /\ f >= frame[p]
      BY <1>2, <1>3
    <3> QED
      BY <1>8, <3>1, NothingAfterLeaving
  <2>2. q # p
    BY <1>1, <1>8 DEF TypeInv, NotAlone
  <2>3. frameData[p][q][SlotOf(f)].cmds \subseteq CommandsOf(q, f)
    BY <1>4, <2>2 DEF DesyncInv, RemoteOK, Fresh
  <2> QED
    BY <2>1, <2>3
<1>9. \A q \in Player : frameData[p][q][SlotOf(f)].cmds = CommandsOf(q, f)
  BY <1>6, <1>7, <1>8
<1>10. FrameCommands(p) = {c \in created : c.frame = f}
  <2>1. \A c \in created : c.player \in Player
    BY <1>1 DEF TypeInv, TypeOK, Command
  <2>2. FrameCommands(p) = UNION {CommandsOf(q, f) : q \in Player}
    BY <1>2, <1>9 DEF FrameCommands
  <2> QED
    BY <2>1, <2>2 DEF CommandsOf
<1> QED
  BY <1>1, <1>2, <1>3, <1>6, <1>7, <1>9, <1>10

(* Those who leave on a frame are those for whom it is the last. *)
LEMMA LeavingOnFrame ==
    ASSUME DesyncInv, NEW f, NEW q \in Player
    PROVE  q \in {c.player : c \in {d \in {e \in created : e.frame = f} : d.type = "LEAVE"}}
             <=> Leaving(q) /\ LastAnnounced(q) = f
<1> DEFINE leaves == {d \in {e \in created : e.frame = f} : d.type = "LEAVE"}
<1>1. ASSUME NEW c \in leaves, c.player = q PROVE Leaving(q) /\ LastAnnounced(q) = f
  BY <1>1 DEF DesyncInv, LeaveOK
<1>2. ASSUME Leaving(q), LastAnnounced(q) = f PROVE \E c \in leaves : c.player = q
  BY <1>2 DEF DesyncInv, LeaveOK
<1> QED
  BY <1>1, <1>2

(* The run-ahead after a frame's commands. *)
LEMMA RunAheadNext ==
    ASSUME NEW p \in Player, NEW f \in Nat \ {0}, RunAheadAt(f, runAhead[p])
    PROVE  RunAheadAt(f + 1, NewRunAhead(p, {c \in created : c.frame = f}))
<1> DEFINE ra == runAhead[p]
           new == NewRunAhead(p, {c \in created : c.frame = f})
<1>1. ChangesAt(f) = {d \in {c \in created : c.frame = f} : d.type = "RUNAHEAD"}
  BY DEF ChangesAt
<1>2. new = IF ChangesAt(f) = {} THEN ra ELSE LastOf(ChangesAt(f))
  BY <1>1 DEF NewRunAhead, LastOf
<1> HIDE DEF ra, new
<1>3. CASE ChangesAt(f) # {}
  <2>1. f \in 1 .. (f + 1) - 1 /\ f + 1 .. (f + 1) - 1 = {}
    OBVIOUS
  <2>2. RunAheadAt(f + 1, new)
    BY <1>2, <1>3, <2>1 DEF RunAheadAt
  <2> QED
    BY <2>2 DEF new
<1>4. CASE ChangesAt(f) = {}
  <2>1. new = ra /\ RunAheadAt(f, ra)
    BY <1>2, <1>4 DEF ra
  <2>2. \A k \in 1 .. (f + 1) - 1 : k \in 1 .. f - 1 \/ k = f
    OBVIOUS
  <2>3. CASE ra = InitialRunAhead /\ \A g \in 1 .. f - 1 : ChangesAt(g) = {}
    <3>1. \A g \in 1 .. (f + 1) - 1 : ChangesAt(g) = {}
      BY <1>4, <2>2, <2>3
    <3> QED
      BY <2>1, <2>3, <3>1 DEF RunAheadAt, new
  <2>4. CASE \E g \in 1 .. f - 1 : /\ ChangesAt(g) # {}
                                   /\ ra = LastOf(ChangesAt(g))
                                   /\ \A k \in g + 1 .. f - 1 : ChangesAt(k) = {}
    <3>1. PICK g \in 1 .. f - 1 : /\ ChangesAt(g) # {}
                                  /\ ra = LastOf(ChangesAt(g))
                                  /\ \A k \in g + 1 .. f - 1 : ChangesAt(k) = {}
      BY <2>4
    <3>2. /\ g \in 1 .. (f + 1) - 1
          /\ \A k \in g + 1 .. (f + 1) - 1 : k \in g + 1 .. f - 1 \/ k = f
      OBVIOUS
    <3>3. \A k \in g + 1 .. (f + 1) - 1 : ChangesAt(k) = {}
      BY <1>4, <3>1, <3>2
    <3> QED
      BY <2>1, <3>1, <3>2, <3>3 DEF RunAheadAt, new
  <2> QED
    BY <2>1, <2>3, <2>4 DEF RunAheadAt
<1> QED
  BY <1>3, <1>4

(* The window moves on by one frame, whose slot has just been reset.        *)
LEMMA ClearedRings ==
    ASSUME DesyncInv, NEW p \in Player, ExecuteFrame(p)
    PROVE  /\ \A q, r \in Player : q # r => RemoteOK(q, r)'
           /\ \A q \in Player : OwnCountOK(q)'
<1> DEFINE old == frame[p] - FramesToKeep
           n == FrameDataLength
<1>1. /\ frame \in [Player -> Nat] /\ frameData \in [Player -> [Player -> Ring]]
      /\ AnnounceInv /\ IsFiniteSet({}) /\ Cardinality({}) = 0
  BY FS_EmptySet DEF DesyncInv, AnnounceInv, TypeInv, TypeOK, Ring
<1>2. /\ frame' = [frame EXCEPT ![p] = frame[p] + 1]
      /\ frameData' = [frameData EXCEPT ![p] = ClearOldFrame(p, frameData[p])]
      /\ net \subseteq net' /\ created' = created
      /\ localStatus' = localStatus \/ localStatus' = [localStatus EXCEPT ![p] = "LEFT"]
      /\ UNCHANGED <<lastFrameCompleted>>
      /\ localStatus[p] \in {"INGAME", "LEAVING"}
  BY <1>1 DEF ExecuteFrame, AnnounceInv, TypeInv, TypeOK
<1>3. /\ frame[p] \in Nat /\ OldestKept(p) \in Nat /\ n \in Nat \ {0} /\ FramesToKeep \in Nat
  BY <1>1, ConstantFacts, WindowFacts
<1>4. /\ \A q \in Player : q # p => frameData'[q] = frameData[q]
      /\ \A r \in Player : \A i \in SlotIndex :
            frameData'[p][r][i] =
              IF frame[p] > FramesToKeep /\ i = SlotOf(old)
                THEN CountIfLocal(p = r, EmptyFrame) ELSE frameData[p][r][i]
  <2>1. frame[p] > FramesToKeep => old \in Nat /\ SlotOf(old) \in SlotIndex
    BY <1>3, SlotOfType
  <2> HIDE DEF old
  <2>2. \A q \in Player : q # p => frameData'[q] = frameData[q]
    BY <1>1, <1>2
  <2>3. frameData'[p] = ClearOldFrame(p, frameData[p])
    BY <1>1, <1>2
  <2>4. \A q \in Player :
           ClearOldFrame(p, frameData[p])[q] =
             IF frame[p] > FramesToKeep THEN ResetFrame(p = q, frameData[p][q], old)
             ELSE frameData[p][q]
    BY DEF ClearOldFrame, old
  <2>5. ASSUME NEW r \in Player, NEW i \in SlotIndex
        PROVE  frameData'[p][r][i] =
                 IF frame[p] > FramesToKeep /\ i = SlotOf(old)
                   THEN CountIfLocal(p = r, EmptyFrame) ELSE frameData[p][r][i]
    <3>1. frameData[p][r] \in Ring
      BY <1>1
    <3>2. CASE frame[p] > FramesToKeep
      <4>1. frameData'[p][r] = ResetFrame(p = r, frameData[p][r], old)
        BY <2>3, <2>4, <3>2
      <4> QED
        BY <2>1, <3>1, <3>2, <4>1 DEF ResetFrame, Ring
    <3>3. CASE ~(frame[p] > FramesToKeep)
      BY <2>3, <2>4, <3>3
    <3> QED
      BY <3>2, <3>3
  <2> QED
    BY <2>2, <2>5
<1>5. \A q \in Player : \A f \in Nat : \A fd :
         Fresh(fd, q, f) => /\ fd.cmds \subseteq CommandsOf(q, f)'
                            /\ fd.commandCount = Cardinality(fd.cmds)
                            /\ fd.frameCommandCount # Unknown =>
                                  AnnouncedFor(q, f, fd.frameCommandCount)'
  <2> SUFFICES ASSUME NEW q \in Player, NEW f \in Nat, NEW fd, Fresh(fd, q, f)
               PROVE  /\ fd.cmds \subseteq CommandsOf(q, f)'
                      /\ fd.commandCount = Cardinality(fd.cmds)
                      /\ fd.frameCommandCount # Unknown =>
                            AnnouncedFor(q, f, fd.frameCommandCount)'
    OBVIOUS
  <2>1. LastAnnounced(q) \in Nat /\ lastFrameCompleted[q] \in Nat
    BY <1>1, ClockTypes
  <2>2. Leaving(q) => Leaving(q)'
    BY <1>1, <1>2 DEF Leaving, AnnounceInv, TypeInv, TypeOK
  <2>3. LastAnnounced(q) <= LastAnnounced(q)' /\ LastAnnounced(q)' \in Nat
    BY <1>2, <2>1, <2>2 DEF LastAnnounced
  <2>4. CommandsOf(q, f)' = CommandsOf(q, f)
    BY <1>2 DEF CommandsOf
  <2> QED
    BY <1>2, <2>3, <2>4, FreshKept
<1>6. ASSUME NEW q \in Player, NEW r \in Player, q # r PROVE RemoteOK(q, r)'
  <2> SUFFICES ASSUME NEW f \in Future(q)'
               PROVE  Fresh(frameData[q][r][SlotOf(f)], r, f)'
    BY DEF RemoteOK
  <2>1. CASE q # p
    <3>1. f \in Future(q) /\ f \in Nat
      <4>1. Future(q)' = Future(q)
        BY <1>1, <1>2, <2>1 DEF Future, Window, OldestKept
      <4> QED
        BY <1>1, <4>1, WindowFacts DEF Future
    <3>2. PICK fd : fd = frameData[q][r][SlotOf(f)]
      OBVIOUS
    <3>3. Fresh(fd, r, f)
      BY <1>6, <3>1, <3>2 DEF DesyncInv, RemoteOK
    <3>4. frameData'[q][r][SlotOf(f)] = fd
      <4>1. SlotOf(f) \in SlotIndex
        BY <3>1, SlotOfType
      <4> QED
        BY <1>4, <2>1, <3>2, <4>1
    <3> QED
      BY <1>5, <3>1, <3>3, <3>4 DEF Fresh
  <2>2. CASE q = p
    <3>1. /\ f \in Nat /\ f >= frame[p] + 1
          /\ IF frame[p] > FramesToKeep
               THEN f >= old + 1 /\ f <= old + n
               ELSE f \in Window(p)
      <4>1. frame'[p] = frame[p] + 1
        BY <1>1, <1>2
      <4>2. OldestKept(p)' = IF frame[p] > FramesToKeep THEN old + 1 ELSE OldestKept(p)
        BY <1>3, <4>1 DEF OldestKept
      <4>3. /\ f \in OldestKept(p)' .. OldestKept(p)' + n - 1
            /\ f >= frame[p] + 1
        BY <2>2, <4>1 DEF Future, Window
      <4> QED
        BY <1>3, <4>2, <4>3 DEF Window
    <3>2. SlotOf(f) \in SlotIndex
      BY <3>1, SlotOfType
    <3>3. PICK new : new = frameData'[p][r][SlotOf(f)]
      OBVIOUS
    <3>4. CASE frame[p] > FramesToKeep /\ SlotOf(f) = SlotOf(old)
      <4>1. new = EmptyFrame
        BY <1>4, <1>6, <2>2, <3>2, <3>3, <3>4 DEF CountIfLocal
      <4>2. new.cmds = {} /\ new.commandCount = 0 /\ new.frameCommandCount = Unknown
        BY <4>1 DEF EmptyFrame
      <4> QED
        BY <1>1, <2>2, <3>3, <4>2 DEF Fresh
    <3>5. CASE ~(frame[p] > FramesToKeep /\ SlotOf(f) = SlotOf(old))
      <4>1. f \in Future(p)
        <5>1. CASE frame[p] > FramesToKeep
          <6>1. old \in Nat /\ OldestKept(p) = old
            BY <1>3, <5>1 DEF OldestKept
          <6>2. f # old + n
            <7> HIDE DEF old
            <7> QED
              BY <3>5, <5>1, <6>1, SlotShift
          <6> QED
            BY <1>3, <3>1, <5>1, <6>1, <6>2 DEF Future, Window
        <5>2. CASE ~(frame[p] > FramesToKeep)
          BY <1>3, <3>1, <5>2 DEF Future
        <5> QED
          BY <5>1, <5>2
      <4>2. new = frameData[p][r][SlotOf(f)]
        BY <1>4, <3>2, <3>3, <3>5
      <4>3. Fresh(new, r, f)
        BY <1>6, <2>2, <4>1, <4>2 DEF DesyncInv, RemoteOK
      <4> QED
        BY <1>5, <2>2, <3>1, <3>3, <4>3 DEF Fresh
    <3> QED
      BY <3>4, <3>5
  <2> QED
    BY <2>1, <2>2
<1>7. ASSUME NEW q \in Player PROVE OwnCountOK(q)'
  <2> SUFFICES ASSUME NEW i \in SlotIndex
               PROVE  frameData'[q][q][i].frameCommandCount = frameData'[q][q][i].commandCount
    BY DEF OwnCountOK
  <2>1. frameData[q][q][i].frameCommandCount = frameData[q][q][i].commandCount
    BY DEF DesyncInv, OwnCountOK
  <2>2. /\ CountIfLocal(TRUE, EmptyFrame).frameCommandCount = 0
        /\ CountIfLocal(TRUE, EmptyFrame).commandCount = 0
    BY DEF CountIfLocal, SetFrameCommandCount, EmptyFrame
  <2>3. CASE q # p
    BY <1>4, <2>1, <2>3
  <2>4. CASE q = p
    BY <1>4, <2>1, <2>2, <2>4
  <2> QED
    BY <2>3, <2>4
<1> QED
  BY <1>6, <1>7

(* What a player sends again goes to players of the game it is in, and not  *)
(* further ahead than what it created.                                      *)
LEMMA ResentReach ==
    ASSUME DesyncInv, NEW p \in Player, NEW left \in SUBSET inGame[p],
           NEW newRouter \in left,
           NEW h \in ResendPending(p, Router(p), newRouter, left \ {p})
    PROVE  /\ h.dst \in inGame[p] /\ h.dst \in Player
           /\ h.cmd.frame \in Nat /\ h.cmd.frame >= 1
           /\ h.cmd.frame <= frame[p] + MaxRunAhead + 1
<1> DEFINE peers == left \ {p}
<1>1. AnnounceInv /\ TypeInv /\ inGame[p] \in SUBSET Player
  BY DEF DesyncInv, AnnounceInv, TypeInv, TypeOK
<1>2. newRouter \in Player /\ peers \in SUBSET Player /\ peers \subseteq left
  BY <1>1
<1>3. h \in ResendPending(p, Router(p), newRouter, peers)
  OBVIOUS
<1> HIDE DEF peers
<1>4. PICK g \in net : /\ g.cmd.player = p /\ h.cmd = g.cmd
                       /\ h \in SendVia(p, newRouter, g.relay, peers, g.cmd)
  BY <1>1, <1>2, <1>3, ResendTypes
<1>5. h.dst \in left
  BY <1>2, <1>4, SendViaDst
<1>6. g.cmd.frame \in Nat /\ g.cmd \in Command
  BY <1>1 DEF TypeInv, TypeOK, Hops, Command
<1>7. /\ LastAnnounced(p) \in Nat /\ LastCreated(p) \in Nat /\ frame[p] \in Nat
      /\ LastAnnounced(p) <= LastCreated(p)
      /\ LastCreated(p) <= frame[p] + MaxRunAhead + 1
  BY <1>1, ClockTypes
<1>8. g.cmd.frame <= LastCreated(p)
  <2>1. CASE g.cmd.type = "FRAMEINFO"
    <3>1. g.cmd.frame <= LastAnnounced(p)
      BY <1>1, <1>4, <2>1 DEF AnnounceInv, AnnouncedOK
    <3> QED
      BY <1>6, <1>7, <3>1
  <2>2. CASE g.cmd.type # "FRAMEINFO"
    <3>1. g.cmd \in created
      BY <1>1, <2>2 DEF TypeInv, Sent
    <3> QED
      BY <1>1, <1>4, <3>1 DEF AnnounceInv, CreatedOK
  <2> QED
    BY <2>1, <2>2
<1>9. g.cmd.frame >= 1
  BY DEF DesyncInv, ReachOK
<1> QED
  BY <1>1, <1>4, <1>5, <1>6, <1>7, <1>8, <1>9, ConstantFacts

LEMMA DesyncExecuteFrame ==
    ASSUME DesyncInv, NEW p \in Player, ExecuteFrame(p) PROVE DesyncInv'
<1> DEFINE cmds == {c \in created : c.frame = frame[p]}
           leaving == {c.player : c \in {d \in cmds : d.type = "LEAVE"}}
           left == inGame[p] \ leaving
           newRouter == CHOOSE q \in left : \A r \in left : q <= r
           resent == ResendPending(p, Router(p), newRouter, left \ {p})
<1>1. /\ AnnounceInv /\ AnnounceInv' /\ TypeInv
      /\ frame \in [Player -> Nat] /\ runAhead \in [Player -> MinRunAhead .. MaxRunAhead]
      /\ inGame \in [Player -> SUBSET Player] /\ localStatus \in [Player -> Statuses]
      /\ executed \in [Player -> Seq(SUBSET Command)]
  BY AnnounceExecuteFrame DEF DesyncInv, AnnounceInv, TypeInv, TypeOK
<1>2. /\ localStatus[p] \in {"INGAME", "LEAVING"} /\ lastFrame[p] = frame[p]
      /\ AllCommandsReady(p)
  BY DEF ExecuteFrame
<1>3. /\ frame[p] \in Nat \ {0} /\ frame[p] = Len(executed[p]) + 1
      /\ \A q \in inGame[p] : q \in Player /\ frame[p] <= LastAnnounced(q)
      /\ FrameCommands(p) = cmds
  BY <1>2, ReadyFrame
<1>4. /\ frame' = [frame EXCEPT ![p] = frame[p] + 1]
      /\ executed' = [executed EXCEPT ![p] = Append(executed[p], cmds)]
      /\ runAhead' = [runAhead EXCEPT ![p] = NewRunAhead(p, cmds)]
      /\ inGame' = [inGame EXCEPT ![p] = left]
      /\ localStatus' = [localStatus EXCEPT ![p] =
                           IF p \in leaving THEN "LEFT" ELSE localStatus[p]]
      /\ net' = net \/ (p \notin leaving /\ net' = net \cup resent)
      /\ UNCHANGED <<lastExecutionFrame, lastFrameCompleted, lastFrame, issued, created>>
  BY <1>3 DEF ExecuteFrame
<1>5. \A q \in Player : q \in leaving <=> Leaving(q) /\ LastAnnounced(q) = frame[p]
  BY LeavingOnFrame
<1> HIDE DEF leaving
<1>6. \A q \in Player :
         /\ Leaving(q)' = Leaving(q) /\ LastAnnounced(q)' = LastAnnounced(q)
         /\ LastAnnounced(q) \in Nat /\ frame[q] \in Nat /\ frame'[q] \in Nat
         /\ frame[q] <= frame'[q]
         /\ q # p => /\ frame'[q] = frame[q] /\ inGame'[q] = inGame[q]
                     /\ runAhead'[q] = runAhead[q] /\ executed'[q] = executed[q]
                     /\ localStatus'[q] = localStatus[q]
  <2> SUFFICES ASSUME NEW q \in Player
               PROVE  /\ Leaving(q)' = Leaving(q) /\ LastAnnounced(q)' = LastAnnounced(q)
                      /\ LastAnnounced(q) \in Nat /\ frame[q] \in Nat /\ frame'[q] \in Nat
                      /\ frame[q] <= frame'[q]
                      /\ q # p => /\ frame'[q] = frame[q] /\ inGame'[q] = inGame[q]
                                  /\ runAhead'[q] = runAhead[q] /\ executed'[q] = executed[q]
                                  /\ localStatus'[q] = localStatus[q]
    OBVIOUS
  <2>1. q # p => /\ frame'[q] = frame[q] /\ inGame'[q] = inGame[q]
                 /\ runAhead'[q] = runAhead[q] /\ executed'[q] = executed[q]
                 /\ localStatus'[q] = localStatus[q]
    BY <1>1, <1>4
  <2>2. frame[q] \in Nat /\ frame'[q] \in Nat /\ frame[q] <= frame'[q]
    BY <1>1, <1>4
  <2>3. LastAnnounced(q) \in Nat
    BY <1>1, ClockTypes
  <2>4. Leaving(q)' = Leaving(q)
    <3>1. CASE q # p
      BY <2>1, <3>1 DEF Leaving
    <3>2. CASE q = p /\ p \notin leaving
      BY <1>1, <1>4, <3>2 DEF Leaving
    <3>3. CASE q = p /\ p \in leaving
      BY <1>1, <1>4, <1>5, <3>3 DEF Leaving
    <3> QED
      BY <3>1, <3>2, <3>3
  <2>5. LastAnnounced(q)' = LastAnnounced(q)
    BY <1>4, <2>4 DEF LastAnnounced
  <2> QED
    BY <2>1, <2>2, <2>3, <2>4, <2>5
<1>7. /\ frame'[p] = frame[p] + 1 /\ inGame'[p] = left
      /\ executed'[p] = Append(executed[p], cmds) /\ executed[p] \in Seq(SUBSET Command)
      /\ runAhead'[p] = NewRunAhead(p, cmds)
      /\ Len(executed[p]) \in Nat
  BY <1>1, <1>4
<1>8. \A q \in Player : StartOK(q)'
  <2> SUFFICES ASSUME NEW q \in Player PROVE StartOK(q)'
    OBVIOUS
  <2>1. StartOK(q)
    BY DEF DesyncInv
  <2>2. CASE q # p
    BY <1>4, <1>6, <2>1, <2>2 DEF StartOK
  <2>3. CASE q = p
    <3>1. Len(executed'[p]) = Len(executed[p]) + 1
      <4> HIDE DEF cmds
      <4> QED
        BY <1>7
    <3>2. frame'[p] = Len(executed'[p]) + 1
      BY <1>3, <1>7, <3>1
    <3> QED
      BY <1>4, <1>6, <2>1, <2>3, <3>2 DEF StartOK
  <2> QED
    BY <2>2, <2>3
<1>9. LeaveOK'
  <2>1. \A c \in created : c.player \in Player
    BY <1>1 DEF TypeInv, TypeOK, Command
  <2>2. \A q \in Player : Leaving(q)' = Leaving(q) /\ LastAnnounced(q)' = LastAnnounced(q)
    BY <1>6
  <2>3. created' = created
    BY <1>4
  <2> QED
    BY <2>1, <2>2, <2>3 DEF DesyncInv, LeaveOK
<1>10. \A q \in Player : SkewOK(q)'
  <2> SUFFICES ASSUME NEW q \in Player, NEW r \in Player
               PROVE  IF r \in inGame'[q]
                        THEN /\ frame'[q] <= LastAnnounced(r) + 1
                             /\ Leaving(r) => frame'[q] <= LastAnnounced(r)
                        ELSE Leaving(r) /\ LastAnnounced(r) < frame'[q]
    BY <1>6 DEF SkewOK
  <2>1. IF r \in inGame[q]
          THEN /\ frame[q] <= LastAnnounced(r) + 1
               /\ Leaving(r) => frame[q] <= LastAnnounced(r)
          ELSE Leaving(r) /\ LastAnnounced(r) < frame[q]
    BY DEF DesyncInv, SkewOK
  <2>2. CASE q # p
    BY <1>6, <2>1, <2>2
  <2>3. CASE q = p /\ r \in left
    <3>1. frame[p] <= LastAnnounced(r) /\ (Leaving(r) => LastAnnounced(r) # frame[p])
      BY <1>3, <1>5, <2>3
    <3> QED
      BY <1>6, <1>7, <2>3, <3>1
  <2>4. CASE q = p /\ r \notin left
    <3>1. Leaving(r) /\ LastAnnounced(r) <= frame[p]
      BY <1>5, <1>6, <2>1, <2>4
    <3> QED
      BY <1>6, <1>7, <2>4, <3>1
  <2> QED
    BY <2>2, <2>3, <2>4
<1>11. ReachOK'
  <2> SUFFICES ASSUME NEW h \in net'
               PROVE  /\ h.cmd.frame >= 1
                      /\ \/ h.cmd.frame <= frame'[h.dst] + 2 * MaxRunAhead + 2
                         \/ /\ h.relay \subseteq {h.dst}
                            /\ h.cmd.frame <= frame'[h.dst] + 3 * MaxRunAhead + 3
    BY DEF ReachOK
  <2>1. CASE h \in net
    <3>1. h.dst \in Player /\ h.cmd.frame \in Nat
      BY <1>1, <2>1 DEF TypeInv, TypeOK, Hops, Command
    <3>2. /\ h.cmd.frame >= 1
          /\ \/ h.cmd.frame <= frame[h.dst] + 2 * MaxRunAhead + 2
             \/ /\ h.relay \subseteq {h.dst}
                /\ h.cmd.frame <= frame[h.dst] + 3 * MaxRunAhead + 3
      BY <2>1 DEF DesyncInv, ReachOK
    <3>3. /\ frame[h.dst] \in Nat /\ frame'[h.dst] \in Nat
          /\ frame[h.dst] <= frame'[h.dst] /\ MaxRunAhead \in Nat
      BY <1>6, <3>1, ConstantFacts
    <3> QED
      BY <3>1, <3>2, <3>3
  <2>2. CASE p \notin leaving /\ h \in resent
    <3>1. left \in SUBSET inGame[p] /\ left \in SUBSET Player /\ p \in left
      BY <1>1, <1>2, <2>2 DEF TypeInv, NotAlone
    <3> HIDE DEF left
    <3>2. \E q \in left : \A r \in left : q <= r
      BY <3>1, FirstPlayer
    <3>3. newRouter \in left
      BY <3>2, Zenon
    <3> HIDE DEF newRouter
    <3>4. /\ h.dst \in inGame[p] /\ h.dst \in Player
          /\ h.cmd.frame \in Nat /\ h.cmd.frame >= 1
          /\ h.cmd.frame <= frame[p] + MaxRunAhead + 1
      BY <2>2, <3>1, <3>3, ResentReach
    <3>5. frame[p] <= frame[h.dst] + MaxRunAhead + 1
      BY <3>4, Lead
    <3>6. /\ frame[h.dst] \in Nat /\ frame'[h.dst] \in Nat /\ frame[p] \in Nat
          /\ frame[h.dst] <= frame'[h.dst] /\ MaxRunAhead \in Nat
      BY <1>6, <3>4, ConstantFacts
    <3> QED
      BY <3>4, <3>5, <3>6
  <2> QED
    BY <1>4, <2>1, <2>2
<1>12. /\ \A q, r \in Player : q # r => RemoteOK(q, r)'
       /\ \A q \in Player : OwnCountOK(q)'
  BY ClearedRings
<1>13. NoDesync'
  <2> SUFFICES ASSUME NEW q \in Player, NEW f \in 1 .. Len(executed'[q])
               PROVE  executed'[q][f] = {c \in created : c.frame = f}
    BY <1>4 DEF NoDesync
  <2>1. CASE q # p
    BY <1>6, <2>1 DEF DesyncInv, NoDesync
  <2>2. CASE q = p
    <3>1. PICK entry : entry = cmds
      OBVIOUS
    <3>2. f \in 1 .. Len(Append(executed[p], entry))
      BY <1>7, <2>2, <3>1
    <3>3. CASE f = frame[p]
      <4>1. Append(executed[p], entry)[f] = entry
        BY <1>3, <1>7, <3>3
      <4> QED
        BY <1>7, <2>2, <3>1, <3>3, <4>1
    <3>4. CASE f # frame[p]
      <4>1. f \in 1 .. Len(executed[p]) /\ Append(executed[p], entry)[f] = executed[p][f]
        BY <1>3, <1>7, <3>2, <3>4
      <4> QED
        BY <1>7, <2>2, <3>1, <4>1 DEF DesyncInv, NoDesync
    <3> QED
      BY <3>3, <3>4
  <2> QED
    BY <2>1, <2>2
<1>14. ASSUME NEW q \in Player PROVE RunAheadAt(frame[q], runAhead[q])'
  <2>1. RunAheadAt(frame[q], runAhead[q])
    BY DEF DesyncInv
  <2>2. \A f : ChangesAt(f)' = ChangesAt(f)
    BY <1>4 DEF ChangesAt
  <2>3. PICK f, ra : f = frame'[q] /\ ra = runAhead'[q]
    OBVIOUS
  <2>4. RunAheadAt(f, ra)
    <3>1. CASE q # p
      BY <1>6, <2>1, <2>3, <3>1
    <3>2. CASE q = p
      <4>1. RunAheadAt(frame[p] + 1, NewRunAhead(p, cmds))
        BY <1>3, <2>1, <3>2, RunAheadNext
      <4> QED
        BY <1>7, <2>3, <3>2, <4>1
    <3> QED
      BY <3>1, <3>2
  <2> QED
    BY <2>2, <2>3, <2>4 DEF RunAheadAt, LastOf
<1> QED
  BY <1>1, <1>8, <1>9, <1>10, <1>11, <1>12, <1>13, <1>14 DEF DesyncInv

LEMMA DesyncStep == DesyncInv /\ [Next]_vars => DesyncInv'
<1> SUFFICES ASSUME DesyncInv, [Next]_vars PROVE DesyncInv'
  OBVIOUS
<1>1. AnnounceInv'
  BY AnnounceStep DEF DesyncInv
<1>2. ASSUME NEW p \in Player, StartGame(p) PROVE DesyncInv'
  BY <1>2, DesyncStartGame
<1>3. ASSUME NEW p \in Player, ProcessFrameTick(p) PROVE DesyncInv'
  BY <1>3, DesyncProcessFrameTick
<1>4. ASSUME NEW p \in Player, IssueGameCommand(p) PROVE DesyncInv'
  <2>1. localStatus[p] = "INGAME" /\ 0 \in Nat
    BY <1>4 DEF IssueGameCommand
  <2>2. IssueLocal(p, "GAME", ExecutionFrame(p), ExecutionFrame(p), 0)
    BY <1>4 DEF IssueGameCommand
  <2>3. UNCHANGED <<frame, runAhead, lastFrameCompleted, lastFrame, localStatus,
                    inGame, executed>>
    BY <1>4 DEF IssueGameCommand
  <2> QED
    BY <1>1, <2>1, <2>2, <2>3, DesyncIssueLocal
<1>5. ASSUME NEW p \in Player, NEW ra \in MinRunAhead .. MaxRunAhead, UpdateRunAhead(p, ra)
      PROVE  DesyncInv'
  <2>1. localStatus[p] = "INGAME" /\ ra \in Nat
    BY <1>5, ConstantFacts DEF UpdateRunAhead
  <2>2. IssueLocal(p, "RUNAHEAD", ExecutionFrame(p), ExecutionFrame(p), ra)
    BY <1>5 DEF UpdateRunAhead
  <2>3. UNCHANGED <<frame, runAhead, lastFrameCompleted, lastFrame, localStatus,
                    inGame, executed>>
    BY <1>5 DEF UpdateRunAhead
  <2> QED
    BY <1>1, <2>1, <2>2, <2>3, DesyncIssueLocal
<1>6. ASSUME NEW p \in Player, LeaveGame(p) PROVE DesyncInv'
  BY <1>6, DesyncLeaveGame
<1>7. ASSUME NEW p \in Player, NEW h \in net, Receive(p, h) PROVE DesyncInv'
  BY <1>7, DesyncReceive
<1>8. ASSUME NEW p \in Player, ExecuteFrame(p) PROVE DesyncInv'
  BY <1>8, DesyncExecuteFrame
<1>9. CASE UNCHANGED vars
  <2>1. UNCHANGED <<frame, runAhead, lastExecutionFrame, lastFrameCompleted, lastFrame,
                    localStatus, frameData, inGame, created, net, executed>>
    BY <1>9 DEF vars
  <2>2. (\A p \in Player : StartOK(p)') /\ LeaveOK'
    BY <2>1 DEF DesyncInv, StartOK, LeaveOK, Leaving, LastAnnounced
  <2>3. (\A p \in Player : SkewOK(p)') /\ ReachOK' /\ NoDesync'
    BY <2>1 DEF DesyncInv, SkewOK, ReachOK, NoDesync, Leaving, LastAnnounced
  <2>4. \A p, q \in Player : p # q => RemoteOK(p, q)'
    BY <2>1 DEF DesyncInv, RemoteOK, Future, Window, OldestKept, Fresh, AnnouncedFor,
                CommandsOf, LastAnnounced, Leaving
  <2>5. \A p \in Player : OwnCountOK(p)' /\ RunAheadAt(frame[p], runAhead[p])'
    BY <2>1 DEF DesyncInv, OwnCountOK, RunAheadAt, ChangesAt, LastOf
  <2> QED
    BY <1>1, <2>2, <2>3, <2>4, <2>5 DEF DesyncInv
<1> QED
  BY <1>2, <1>3, <1>4, <1>5, <1>6, <1>7, <1>8, <1>9 DEF Next, PlayerStep

LEMMA DesyncInvariant == Spec => []DesyncInv
BY DesyncInit, DesyncStep, PTL DEF Spec

-----------------------------------------------------------------------------
(* The theorems. *)

(* No desync: whatever is delayed, repeated or reordered, whatever the      *)
(* run-ahead does and whoever leaves, a player that executes a frame        *)
(* (Network::update, RelayCommandsToCommandList) executes the commands that *)
(* were created for it, all of them and no others.                          *)
THEOREM NobodyDesyncs == Spec => []NoDesync
<1>1. DesyncInv => NoDesync
  BY DEF DesyncInv
<1> QED
  BY <1>1, DesyncInvariant, PTL

(* The frames awaited are in the window, frame 0 in the slot of the last.   *)
LEMMA AwaitedFuture ==
    ASSUME DesyncInv, NEW p \in Player, NEW f \in Awaited(p)
    PROVE  /\ f \in Nat
           /\ frame[p] >= 1 => f \in Future(p)
           /\ \E g \in Future(p) : SlotOf(g) = SlotOf(f)
<1>1. frame[p] \in Nat /\ OldestKept(p) \in Nat \ {0}
  BY WindowFacts DEF DesyncInv
<1>2. f \in Nat /\ f >= frame[p] /\ f <= frame[p] + FrameDataLength - FramesToKeep - 1
  BY <1>1, ConstantFacts DEF Awaited
<1>3. f >= 1 => f \in Future(p)
  BY <1>1, <1>2, ConstantFacts DEF Future, Window, OldestKept
<1>4. CASE f = 0
  <2>1. FrameDataLength \in Future(p)
    BY <1>1, <1>2, <1>4, ConstantFacts DEF Future, Window, OldestKept
  <2>2. SlotOf(FrameDataLength) = SlotOf(f)
    <3>1. 0 + FrameDataLength = FrameDataLength /\ 0 \in Nat
      BY ConstantFacts
    <3> QED
      BY <1>4, <3>1, SlotShift
  <2> QED
    BY <1>1, <1>2, <1>4, <2>1, <2>2
<1> QED
  BY <1>1, <1>2, <1>3, <1>4

(* FrameDataManager::allCommandsReady never finds more commands for a frame *)
(* than were announced for it, and so never throws one away to ask for it   *)
(* again, while all play on.                                                *)
THEOREM NeverOverrun == Spec => []NoOverrun
<1>1. DesyncInv => NoOverrun
  <2> SUFFICES ASSUME DesyncInv, NEW p \in Player, NEW q \in Player, NEW f \in Awaited(p)
               PROVE  ~IsOverrun(frameData[p][q][SlotOf(f)])
    BY DEF NoOverrun
  <2>1. f \in Nat /\ SlotOf(f) \in SlotIndex
    BY AwaitedFuture, SlotOfType
  <2>2. frameData[p][q][SlotOf(f)] \in FrameDataType
    BY <2>1 DEF DesyncInv, AnnounceInv, TypeInv, TypeOK
  <2>3. PICK fd \in FrameDataType : fd = frameData[p][q][SlotOf(f)]
    BY <2>2
  <2>4. CASE p = q
    <3>1. fd.frameCommandCount = fd.commandCount
      BY <2>1, <2>3, <2>4 DEF DesyncInv, OwnCountOK
    <3> QED
      BY <2>3, <3>1 DEF IsOverrun, FrameDataType
  <2>5. CASE p # q
    <3>1. PICK g \in Future(p) : SlotOf(g) = SlotOf(f)
      BY AwaitedFuture
    <3>2. Fresh(fd, q, g)
      BY <2>3, <2>5, <3>1 DEF DesyncInv, RemoteOK
    <3>3. IsFiniteSet(CommandsOf(q, g))
      BY FS_Subset DEF DesyncInv, AnnounceInv, CreatedOK, CommandsOf
    <3>4. Cardinality(fd.cmds) <= Cardinality(CommandsOf(q, g))
      BY <3>2, <3>3, FS_Subset DEF Fresh
    <3>5. fd.frameCommandCount # Unknown => fd.commandCount <= fd.frameCommandCount
      BY <3>2, <3>4 DEF Fresh, AnnouncedFor
    <3> QED
      BY <2>3, <3>5 DEF IsOverrun, FrameDataType, Unknown
  <2> QED
    BY <2>4, <2>5
<1> QED
  BY <1>1, DesyncInvariant, PTL

(* The ring never mixes two frames: a slot that a frame to be executed maps *)
(* to holds commands of that frame only and, if a count, the announced one. *)
THEOREM RingStaysFresh == Spec => []RingIsFresh
<1>1. DesyncInv => RingIsFresh
  <2> SUFFICES ASSUME DesyncInv, NEW p \in Player, NEW q \in Player, p # q, Playing(p),
                      NEW f \in Awaited(p)
               PROVE  LET fd == frameData[p][q][SlotOf(f)]
                      IN  /\ \A c \in fd.cmds : c \in CommandsOf(q, f)
                          /\ fd.frameCommandCount # Unknown =>
                               \/ f < InitialRunAhead
                               \/ \E h \in net : /\ h.cmd.type = "FRAMEINFO"
                                                 /\ h.cmd.player = q
                                                 /\ h.cmd.frame = f
                                                 /\ h.cmd.arg = fd.frameCommandCount
    BY DEF RingIsFresh
  <2>1. frame[p] >= 1
    <3>1. frame[p] = Len(executed[p]) + 1
      BY DEF DesyncInv, StartOK, Playing
    <3>2. executed[p] \in Seq(SUBSET Command)
      BY DEF DesyncInv, AnnounceInv, TypeInv, TypeOK
    <3>3. Len(executed[p]) \in Nat
      BY <3>2
    <3> QED
      BY <3>1, <3>3
  <2>2. f \in Future(p)
    BY <2>1, AwaitedFuture
  <2>3. Fresh(frameData[p][q][SlotOf(f)], q, f)
    BY <2>2 DEF DesyncInv, RemoteOK
  <2> QED
    BY <2>3 DEF Fresh, AnnouncedFor
<1> QED
  BY <1>1, DesyncInvariant, PTL

(* The commands of the earlier frames leave no choice of the run-ahead. *)
LEMMA RunAheadUnique ==
    ASSUME NEW f \in Nat, NEW a, NEW b, RunAheadAt(f, a), RunAheadAt(f, b)
    PROVE  a = b
<1> DEFINE None == \A g \in 1 .. f - 1 : ChangesAt(g) = {}
           Last(g, ra) == /\ ChangesAt(g) # {}
                          /\ ra = LastOf(ChangesAt(g))
                          /\ \A k \in g + 1 .. f - 1 : ChangesAt(k) = {}
<1>1. /\ (a = InitialRunAhead /\ None) \/ (\E g \in 1 .. f - 1 : Last(g, a))
      /\ (b = InitialRunAhead /\ None) \/ (\E g \in 1 .. f - 1 : Last(g, b))
  BY DEF RunAheadAt
<1>2. ASSUME None, NEW ra, NEW g \in 1 .. f - 1, Last(g, ra) PROVE FALSE
  BY <1>2
<1>3. CASE None
  BY <1>1, <1>2, <1>3
<1>4. CASE ~None
  <2>1. PICK g \in 1 .. f - 1 : Last(g, a)
    BY <1>1, <1>4
  <2>2. PICK k \in 1 .. f - 1 : Last(k, b)
    BY <1>1, <1>4
  <2>3. g = k
    <3>1. ~(g < k)
      BY <2>1, <2>2
    <3>2. ~(k < g)
      BY <2>1, <2>2
    <3> QED
      BY <3>1, <3>2
  <2> QED
    BY <2>1, <2>2, <2>3
<1> QED
  BY <1>3, <1>4

(* Players on the same frame have the same run-ahead, wait for the same     *)
(* players and send to the same packet router, although each learns of a    *)
(* change (processRunAheadCommand, processPlayerLeaveCommand) on its own.   *)
THEOREM SettingsNeverDiffer == Spec => []SettingsAgree
<1>1. DesyncInv => SettingsAgree
  <2> SUFFICES ASSUME DesyncInv, NEW p \in Player, NEW q \in Player, frame[p] = frame[q]
               PROVE  runAhead[p] = runAhead[q] /\ inGame[p] = inGame[q]
    BY DEF SettingsAgree
  <2>1. /\ frame[p] \in Nat /\ inGame[p] \in SUBSET Player /\ inGame[q] \in SUBSET Player
    BY DEF DesyncInv, AnnounceInv, TypeInv, TypeOK
  <2>2. \A r \in Player : LastAnnounced(r) \in Nat
    BY ClockTypes DEF DesyncInv
  <2>3. \A r \in Player : /\ r \in inGame[p] <=> ~(Leaving(r) /\ LastAnnounced(r) < frame[p])
                          /\ r \in inGame[q] <=> ~(Leaving(r) /\ LastAnnounced(r) < frame[q])
    BY <2>1, <2>2 DEF DesyncInv, SkewOK
  <2>4. inGame[p] = inGame[q]
    BY <2>1, <2>3
  <2>5. PICK f \in Nat : f = frame[p]
    BY <2>1
  <2>6. RunAheadAt(f, runAhead[p]) /\ RunAheadAt(f, runAhead[q])
    BY <2>5 DEF DesyncInv
  <2>7. runAhead[p] = runAhead[q]
    BY <2>6, RunAheadUnique
  <2> QED
    BY <2>4, <2>7
<1> QED
  BY <1>1, DesyncInvariant, PTL

-----------------------------------------------------------------------------
(* The protocol implements the replicated log, step by step. *)

LEMMA LogInit == Init => Log!Init
BY DEF Init, Log!Init

(* Nobody has executed the frame that a command is created for. *)
LEMMA LogCreate ==
    ASSUME DesyncInv, NEW p \in Player, ~Leaving(p), NEW cmd, cmd.frame \in Nat,
           LastAnnounced(p) < cmd.frame, created' = created \cup {cmd}, executed' = executed
    PROVE  Log!Create
<1>1. ASSUME NEW q \in Player PROVE Len(executed[q]) < cmd.frame
  <2>1. /\ frame[q] \in Nat /\ LastAnnounced(p) \in Nat /\ frame[q] <= LastAnnounced(p) + 1
    BY ClockTypes, Passed DEF DesyncInv
  <2>2. executed[q] \in Seq(SUBSET Command)
    BY DEF DesyncInv, AnnounceInv, TypeInv, TypeOK
  <2>3. Len(executed[q]) \in Nat
    BY <2>2
  <2>4. (frame[q] = 0 /\ Len(executed[q]) = 0) \/ frame[q] = Len(executed[q]) + 1
    BY DEF DesyncInv, StartOK
  <2> QED
    BY <2>1, <2>3, <2>4
<1>2. cmd \in created'
  OBVIOUS
<1> QED
  BY <1>1, <1>2 DEF Log!Create

LEMMA LogExecute ==
    ASSUME DesyncInv, NEW p \in Player, ExecuteFrame(p)
    PROVE  Log!Execute(p)
<1>1. /\ frame[p] = Len(executed[p]) + 1
      /\ FrameCommands(p) = {c \in created : c.frame = frame[p]}
  BY ReadyFrame DEF ExecuteFrame
<1>2. /\ executed' = [executed EXCEPT ![p] = Append(executed[p], FrameCommands(p))]
      /\ created' = created
  BY DEF ExecuteFrame
<1>3. FrameCommands(p) = {c \in created : c.frame = Len(executed[p]) + 1}
  BY <1>1
<1>4. executed' = [executed EXCEPT ![p] =
                     Append(executed[p], {c \in created : c.frame = Len(executed[p]) + 1})]
  BY <1>2, <1>3
<1> QED
  BY <1>2, <1>4 DEF Log!Execute

LEMMA LogStep == DesyncInv /\ [Next]_vars => [Log!Next]_<<created, executed>>
<1> SUFFICES ASSUME DesyncInv, [Next]_vars
             PROVE  Log!Next \/ UNCHANGED <<created, executed>>
  OBVIOUS
<1>1. AnnounceInv /\ TypeInv /\ issued \in [Player -> Nat]
  BY DEF DesyncInv, AnnounceInv, TypeInv, TypeOK
<1>2. ASSUME NEW p \in Player, localStatus[p] = "INGAME"
      PROVE  /\ ~Leaving(p) /\ LastAnnounced(p) < ExecutionFrame(p)
             /\ LastAnnounced(p) \in Nat /\ ExecutionFrame(p) \in Nat
  <2>1. LastAnnounced(p) \in Nat
    BY <1>1, ClockTypes
  <2> QED
    BY <1>1, <1>2, <2>1, ExecutionFrameAhead DEF Leaving
<1>3. ASSUME NEW p \in Player, localStatus[p] = "INGAME", NEW type, NEW arg,
             IssueLocal(p, type, ExecutionFrame(p), ExecutionFrame(p), arg),
             executed' = executed
      PROVE  Log!Next
  <2> DEFINE cmd == Cmd(type, p, ExecutionFrame(p), issued[p] + 1, arg)
  <2>1. cmd.frame = ExecutionFrame(p) /\ created' = created \cup {cmd}
    BY <1>3 DEF IssueLocal, Cmd
  <2> HIDE DEF cmd
  <2>2. Log!Create
    BY <1>2, <1>3, <2>1, LogCreate
  <2> QED
    BY <2>2 DEF Log!Next
<1>4. ASSUME NEW p \in Player, LeaveGame(p) PROVE Log!Next
  <2> DEFINE cmd == Cmd("LEAVE", p, ExecutionFrame(p) + 1, issued[p] + 1, 0)
  <2>1. /\ cmd.frame = ExecutionFrame(p) + 1 /\ created' = created \cup {cmd}
        /\ executed' = executed /\ localStatus[p] = "INGAME"
    BY <1>4 DEF LeaveGame, Cmd
  <2> HIDE DEF cmd
  <2>2. cmd.frame \in Nat /\ LastAnnounced(p) < cmd.frame /\ ~Leaving(p)
    BY <1>2, <2>1
  <2>3. Log!Create
    BY <2>1, <2>2, LogCreate
  <2> QED
    BY <2>3 DEF Log!Next
<1>5. ASSUME NEW p \in Player, ExecuteFrame(p) PROVE Log!Next
  BY <1>5, LogExecute DEF Log!Next
<1>6. ASSUME NEW p \in Player, StartGame(p) \/ ProcessFrameTick(p) \/ \E h \in net : Receive(p, h)
      PROVE  UNCHANGED <<created, executed>>
  BY <1>6 DEF StartGame, ProcessFrameTick, Receive
<1>7. ASSUME NEW p \in Player, IssueGameCommand(p) PROVE Log!Next
  BY <1>3, <1>7 DEF IssueGameCommand
<1>8. ASSUME NEW p \in Player, NEW ra \in MinRunAhead .. MaxRunAhead, UpdateRunAhead(p, ra)
      PROVE  Log!Next
  BY <1>3, <1>8 DEF UpdateRunAhead
<1>9. CASE UNCHANGED vars
  BY <1>9 DEF vars
<1> QED
  BY <1>4, <1>5, <1>6, <1>7, <1>8, <1>9 DEF Next, PlayerStep

(* The protocol implements the log: a command is created only for a frame   *)
(* nobody has executed, and the players append the same entries in order.   *)
THEOREM ImplementsLog == Spec => Replication
<1>1. Init => Log!Init
  BY LogInit
<1>2. DesyncInv /\ [Next]_vars => [Log!Next]_<<created, executed>>
  BY LogStep
<1> QED
  BY <1>1, <1>2, DesyncInvariant, PTL DEF Spec, Replication, Log!Spec

-----------------------------------------------------------------------------
(* What a player keeps for those behind it, under two more conditions on    *)
(* the constants.  65 > 64 is true of the code.  Its ring, 258 frames, is   *)
(* 3 short of the second condition's first half, so that the frames are     *)
(* kept for certain while at most one player leaves.                        *)

KeepsEnough ==
    /\ FramesToKeep > MaxRunAhead
    /\ \/ FrameDataLength > 4 * MaxRunAhead + 4
       \/ \A l, k \in Leavers : l = k

(* Somebody that p waits for has not executed frame f yet. *)
StillNeeded(p, f) == f >= 1 /\ f < frame[p] /\ \E q \in inGame[p] : frame[q] <= f

KeptOK(p) ==
    \A f \in Nat : StillNeeded(p, f) =>
        \A r \in Player \ {p} : frameData[p][r][SlotOf(f)].cmds = CommandsOf(r, f)

LeaversOnly == \A p \in Player : Leaving(p) => p \in Leavers

KeptInv ==
    /\ DesyncInv
    /\ LeaversOnly
    /\ \A p \in Player : KeptOK(p)

LEMMA KeptInit == Init => KeptInv
<1> SUFFICES ASSUME Init PROVE KeptInv
  OBVIOUS
<1>1. LeaversOnly
  BY DEF Init, LeaversOnly, Leaving
<1>2. \A p \in Player : KeptOK(p)
  BY DEF Init, KeptOK, StillNeeded
<1> QED
  BY <1>1, <1>2, DesyncInit DEF KeptInv

(* Frames that somebody is yet to execute lie one run-ahead behind at most. *)
LEMMA NeededRange ==
    ASSUME DesyncInv, NEW p \in Player, NEW f \in Nat, StillNeeded(p, f)
    PROVE  frame[p] <= f + MaxRunAhead + 1 /\ frame[p] \in Nat
<1>1. PICK q \in inGame[p] : frame[q] <= f
  BY DEF StillNeeded
<1>2. q \in Player /\ frame[p] \in Nat /\ frame[q] \in Nat
  BY <1>1, ClockTypes DEF DesyncInv, AnnounceInv, TypeInv, TypeOK
<1>3. frame[p] <= frame[q] + MaxRunAhead + 1
  BY <1>1, <1>2, Lead
<1> QED
  BY <1>1, <1>2, <1>3, ConstantFacts

(* Creating commands changes nothing that is kept for others. *)
LEMMA KeptCreating ==
    ASSUME KeptInv, NEW p \in Player, CreatesAhead(p),
           UNCHANGED <<frame, inGame>>,
           \A q, r \in Player : q # r => frameData'[q][r] = frameData[q][r]
    PROVE  \A q \in Player : KeptOK(q)'
<1> SUFFICES ASSUME NEW q \in Player, NEW f \in Nat, StillNeeded(q, f)',
                    NEW r \in Player \ {q}
             PROVE  frameData'[q][r][SlotOf(f)].cmds = CommandsOf(r, f)'
  BY DEF KeptOK
<1>1. StillNeeded(q, f)
  BY DEF StillNeeded
<1>2. frameData[q][r][SlotOf(f)].cmds = CommandsOf(r, f)
  BY <1>1 DEF KeptInv, KeptOK
<1>3. {c \in created' : c.frame = f} = {c \in created : c.frame = f}
  BY <1>1, CreatesAheadKeeps DEF KeptInv, StillNeeded
<1>4. CommandsOf(r, f)' = CommandsOf(r, f)
  BY <1>3 DEF CommandsOf
<1> QED
  BY <1>2, <1>4

(* What a player receives does not reach round the ring to a frame that     *)
(* somebody has yet to execute.                                             *)
LEMMA NeededSlots ==
    ASSUME KeepsEnough, KeptInv, NEW p \in Player, NEW h \in net, h.dst = p,
           h.cmd.frame >= frame[p], NEW f \in Nat, StillNeeded(p, f)
    PROVE  SlotOf(h.cmd.frame) # SlotOf(f)
<1> DEFINE s == h.cmd.player
           g == h.cmd.frame
<1>1. /\ DesyncInv /\ AnnounceInv /\ TypeInv /\ MaxRunAhead \in Nat
      /\ inGame \in [Player -> SUBSET Player]
  BY ConstantFacts DEF KeptInv, DesyncInv, AnnounceInv, TypeInv, TypeOK
<1>2. s \in Player /\ g \in Nat
  BY <1>1 DEF TypeInv, TypeOK, Hops, Command
<1>3. PICK q \in inGame[p] : frame[q] <= f
  BY DEF StillNeeded
<1>4. q \in Player
  BY <1>1, <1>3
<1>5. /\ frame[p] \in Nat /\ frame[q] \in Nat /\ frame[s] \in Nat
      /\ LastAnnounced(s) \in Nat /\ LastCreated(s) \in Nat
      /\ LastAnnounced(s) <= LastCreated(s)
      /\ LastCreated(s) <= frame[s] + MaxRunAhead + 1
  BY <1>1, <1>2, <1>4, ClockTypes
<1>6. frame[p] <= frame[q] + MaxRunAhead + 1
  BY <1>1, <1>3, <1>4, Lead
<1>7. f < g
  BY <1>2, <1>5 DEF StillNeeded
<1>8. g <= frame[s] + MaxRunAhead + 1
  <2>1. g <= LastCreated(s)
    <3>1. CASE h.cmd.type = "FRAMEINFO"
      <4>1. g <= LastAnnounced(s)
        BY <1>1, <3>1 DEF AnnounceInv, AnnouncedOK
      <4> QED
        BY <1>2, <1>5, <4>1
    <3>2. CASE h.cmd.type # "FRAMEINFO"
      BY <1>1, <3>2 DEF TypeInv, Sent, AnnounceInv, CreatedOK
    <3> QED
      BY <3>1, <3>2
  <2> QED
    BY <1>1, <1>2, <1>5, <2>1
<1> HIDE DEF s, g
<1>9. g < f + FrameDataLength
  <2>1. CASE FrameDataLength > 4 * MaxRunAhead + 4
    <3>1. g <= frame[p] + 3 * MaxRunAhead + 3
      BY <1>1, <1>2, <1>5 DEF DesyncInv, ReachOK, g
    <3> QED
      BY <1>1, <1>2, <1>3, <1>5, <1>6, <2>1, <3>1, ConstantFacts
  <2>2. CASE p \in inGame[s]
    <3>1. frame[s] <= frame[p] + MaxRunAhead + 1
      BY <1>1, <1>2, <2>2, Lead
    <3> QED
      BY <1>1, <1>2, <1>3, <1>5, <1>6, <1>8, <3>1, ConstantFacts, ReachFacts
  <2>3. CASE q \in inGame[s]
    <3>1. frame[s] <= frame[q] + MaxRunAhead + 1
      BY <1>1, <1>2, <1>4, <2>3, Lead
    <3> QED
      BY <1>1, <1>2, <1>3, <1>5, <1>8, <3>1, ConstantFacts, ReachFacts
  <2>4. CASE p \notin inGame[s] /\ q \notin inGame[s] /\ \A l, k \in Leavers : l = k
    <3>1. Leaving(p) /\ Leaving(q)
      BY <1>1, <1>2, <1>4, <2>4 DEF DesyncInv, SkewOK
    <3>2. p = q
      BY <1>4, <2>4, <3>1 DEF KeptInv, LeaversOnly
    <3> QED
      BY <1>3, <1>5, <3>2 DEF StillNeeded
  <2> QED
    BY <2>1, <2>2, <2>3, <2>4 DEF KeepsEnough
<1>10. f # g /\ g \in Nat
  BY <1>2, <1>7
<1>11. f < g + FrameDataLength
  BY <1>2, <1>7, ConstantFacts
<1>12. SlotOf(g) # SlotOf(f)
  BY <1>9, <1>10, <1>11, SlotUnique
<1> QED
  BY <1>12 DEF g

LEMMA KeptReceive ==
    ASSUME KeepsEnough, KeptInv, NEW p \in Player, NEW h \in net, Receive(p, h)
    PROVE  \A q \in Player : KeptOK(q)'
<1> SUFFICES ASSUME NEW q \in Player, NEW f \in Nat, StillNeeded(q, f)',
                    NEW r \in Player \ {q}
             PROVE  frameData'[q][r][SlotOf(f)].cmds = CommandsOf(r, f)'
  BY DEF KeptOK
<1>1. /\ TypeInv /\ frameData \in [Player -> [Player -> Ring]]
  BY DEF KeptInv, DesyncInv, AnnounceInv, TypeInv, TypeOK, Ring
<1>2. /\ UNCHANGED <<frame, inGame, created>>
      /\ h.dst = p /\ h.cmd.frame >= frame[p]
      /\ frameData' = [frameData EXCEPT ![p][h.cmd.player] =
            IF h.cmd.type = "FRAMEINFO" THEN SetCount(@, h.cmd.frame, h.cmd.arg)
            ELSE IF p \in h.relay THEN AddNetCommandMsg(FALSE, @, h.cmd)
            ELSE @]
  BY DEF Receive, Store
<1>3. StillNeeded(q, f)
  BY <1>2 DEF StillNeeded
<1>4. frameData[q][r][SlotOf(f)].cmds = CommandsOf(r, f)
  BY <1>3 DEF KeptInv, KeptOK
<1>5. CommandsOf(r, f)' = CommandsOf(r, f)
  BY <1>2 DEF CommandsOf
<1>6. frameData'[q][r][SlotOf(f)] = frameData[q][r][SlotOf(f)]
  <2>1. CASE q # p \/ r # h.cmd.player
    BY <1>1, <1>2, <2>1
  <2>2. CASE q = p /\ r = h.cmd.player
    <3>1. h.cmd.frame \in Nat
      BY <1>1 DEF TypeInv, TypeOK, Hops, Command
    <3>2. SlotOf(h.cmd.frame) # SlotOf(f)
      BY <1>2, <1>3, <2>2, NeededSlots
    <3>3. /\ SlotOf(f) \in SlotIndex /\ frameData[p][r] \in Ring
      BY <1>1, SlotOfType
    <3>4. frameData'[p][r] =
            IF h.cmd.type = "FRAMEINFO"
              THEN SetCount(frameData[p][r], h.cmd.frame, h.cmd.arg)
            ELSE IF p \in h.relay THEN AddNetCommandMsg(FALSE, frameData[p][r], h.cmd)
            ELSE frameData[p][r]
      BY <1>1, <1>2, <2>2
    <3> QED
      BY <2>2, <3>2, <3>3, <3>4 DEF SetCount, AddNetCommandMsg, Ring
  <2> QED
    BY <2>1, <2>2
<1> QED
  BY <1>4, <1>5, <1>6

(* The frame just executed is kept, and the one that is reset is so old     *)
(* that nobody needs it.                                                    *)
LEMMA KeptExecuteFrame ==
    ASSUME KeepsEnough, KeptInv, NEW p \in Player, ExecuteFrame(p)
    PROVE  \A q \in Player : KeptOK(q)'
<1> SUFFICES ASSUME NEW q \in Player, NEW f \in Nat, StillNeeded(q, f)',
                    NEW r \in Player \ {q}
             PROVE  frameData'[q][r][SlotOf(f)].cmds = CommandsOf(r, f)'
  BY DEF KeptOK
<1> DEFINE old == frame[p] - FramesToKeep
<1>1. /\ DesyncInv /\ DesyncInv' /\ AnnounceInv
      /\ frame \in [Player -> Nat] /\ inGame \in [Player -> SUBSET Player]
      /\ frameData \in [Player -> [Player -> Ring]]
  BY DesyncExecuteFrame DEF KeptInv, DesyncInv, AnnounceInv, TypeInv, TypeOK, Ring
<1>2. /\ frame' = [frame EXCEPT ![p] = frame[p] + 1] /\ created' = created
      /\ frameData' = [frameData EXCEPT ![p] = ClearOldFrame(p, frameData[p])]
      /\ \E left \in SUBSET inGame[p] : inGame' = [inGame EXCEPT ![p] = left]
  BY DEF ExecuteFrame
<1>3. CommandsOf(r, f)' = CommandsOf(r, f)
  BY <1>2 DEF CommandsOf
<1>4. CASE q # p
  <2>1. StillNeeded(q, f)
    <3>1. frame'[q] = frame[q] /\ inGame'[q] = inGame[q] /\ inGame[q] \in SUBSET Player
      BY <1>1, <1>2, <1>4
    <3>2. PICK k \in inGame[q] : frame'[k] <= f
      BY <3>1 DEF StillNeeded
    <3>3. frame[k] <= f
      BY <1>1, <1>2, <3>1, <3>2
    <3> QED
      BY <3>1, <3>2, <3>3 DEF StillNeeded
  <2>2. frameData[q][r][SlotOf(f)].cmds = CommandsOf(r, f)
    BY <2>1 DEF KeptInv, KeptOK
  <2>3. frameData'[q] = frameData[q]
    BY <1>1, <1>2, <1>4
  <2> QED
    BY <1>3, <2>2, <2>3
<1>5. CASE q = p
  <2>1. /\ frame[p] \in Nat /\ frame'[p] = frame[p] + 1 /\ f <= frame[p] /\ f >= 1
        /\ inGame'[p] \subseteq inGame[p]
        /\ FramesToKeep \in Nat /\ MaxRunAhead \in Nat /\ FrameDataLength \in Nat \ {0}
    <3>1. frame[p] \in Nat /\ frame'[p] = frame[p] + 1
      BY <1>1, <1>2
    <3>2. f < frame'[p] /\ f >= 1
      BY <1>5 DEF StillNeeded
    <3>3. inGame'[p] \subseteq inGame[p]
      BY <1>1, <1>2
    <3> QED
      BY <3>1, <3>2, <3>3, ConstantFacts
  <2>2. frame[p] <= f + MaxRunAhead
    <3>1. PICK k \in inGame'[p] : frame'[k] <= f
      BY <1>5 DEF StillNeeded
    <3>2. k \in Player /\ k # p /\ frame'[k] = frame[k] /\ frame[k] \in Nat
      BY <1>1, <1>2, <2>1, <3>1
    <3>3. /\ lastFrameCompleted'[k] = lastFrameCompleted[k]
          /\ localStatus'[k] = localStatus[k]
      BY <3>2 DEF ExecuteFrame, DesyncInv, AnnounceInv, TypeInv, TypeOK
    <3>4. /\ frame'[p] <= LastAnnounced(k) + 1
          /\ Leaving(k) => frame'[p] <= LastAnnounced(k)
      BY <1>1, <3>1, <3>2, <3>3 DEF DesyncInv, SkewOK, LastAnnounced, Leaving
    <3>5. /\ LastAnnounced(k) \in Nat
          /\ LastAnnounced(k) <= frame[k] + MaxRunAhead + 1
          /\ ~Leaving(k) => LastAnnounced(k) <= frame[k] + MaxRunAhead
      <4>1. /\ lastFrameCompleted[k] \in Nat /\ lastExecutionFrame[k] \in Nat
            /\ LastAnnounced(k) \in Nat
            /\ LastAnnounced(k) <= LastCreated(k) /\ LastCreated(k) \in Nat
            /\ LastCreated(k) <= frame[k] + MaxRunAhead + 1
        BY <1>1, <3>2, ClockTypes
      <4>2. ClockOK(k)
        BY <1>1, <3>2 DEF AnnounceInv
      <4> QED
        BY <2>1, <3>2, <4>1, <4>2 DEF ClockOK, LastAnnounced
    <3> QED
      BY <2>1, <3>1, <3>2, <3>4, <3>5
  <2>3. SlotOf(f) \in SlotIndex
    BY SlotOfType
  <2>4. frameData'[p][r][SlotOf(f)] = frameData[p][r][SlotOf(f)]
    <3>1. frameData'[p] = ClearOldFrame(p, frameData[p])
      BY <1>1, <1>2
    <3>2. CASE ~(frame[p] > FramesToKeep)
      BY <3>1, <3>2 DEF ClearOldFrame
    <3>3. CASE frame[p] > FramesToKeep
      <4>1. old \in Nat /\ SlotOf(old) # SlotOf(f)
        <5>1. old \in Nat /\ old < f /\ f < old + FrameDataLength
          BY <2>1, <2>2, <3>3, ConstantFacts DEF KeepsEnough
        <5> HIDE DEF old
        <5>2. f < old + FrameDataLength /\ old < f + FrameDataLength /\ old # f
          BY <2>1, <5>1
        <5> QED
          BY <5>1, <5>2, SlotUnique
      <4>2. frameData'[p][r] = ResetFrame(p = r, frameData[p][r], old)
        BY <3>1, <3>3 DEF ClearOldFrame
      <4>3. frameData[p][r] \in Ring
        BY <1>1
      <4> HIDE DEF old
      <4> QED
        BY <2>3, <4>1, <4>2, <4>3 DEF ResetFrame, Ring
    <3> QED
      BY <3>2, <3>3
  <2>5. frameData[p][r][SlotOf(f)].cmds = CommandsOf(r, f)
    <3>1. CASE f = frame[p]
      BY <3>1, ReadyFrame, <1>1 DEF ExecuteFrame
    <3>2. CASE f < frame[p]
      <4>1. PICK k \in inGame'[p] : frame'[k] <= f
        BY <1>5 DEF StillNeeded
      <4>2. k \in inGame[p] /\ frame[k] <= f
        BY <1>1, <1>2, <2>1, <4>1
      <4>3. StillNeeded(p, f)
        BY <2>1, <3>2, <4>2 DEF StillNeeded
      <4> QED
        BY <1>5, <4>3 DEF KeptInv, KeptOK
    <3> QED
      BY <2>1, <3>1, <3>2
  <2> QED
    BY <1>3, <1>5, <2>4, <2>5
<1> QED
  BY <1>4, <1>5

(* Only the user makes a player leave. *)
LEMMA LeaversStep ==
    ASSUME DesyncInv, LeaversOnly, [Next]_vars PROVE LeaversOnly'
<1>1. localStatus \in [Player -> Statuses]
  BY DEF DesyncInv, AnnounceInv, TypeInv, TypeOK
<1> SUFFICES ASSUME NEW q \in Player, Leaving(q)', ~Leaving(q) PROVE q \in Leavers
  BY DEF LeaversOnly
<1>2. localStatus'[q] # localStatus[q]
  BY DEF Leaving
<1>3. ASSUME NEW p \in Player, LeaveGame(p) PROVE q \in Leavers
  BY <1>1, <1>2, <1>3 DEF LeaveGame
<1>4. ASSUME NEW p \in Player, ProcessFrameTick(p) PROVE FALSE
  BY <1>1, <1>2, <1>4 DEF ProcessFrameTick, Leaving
<1>5. ASSUME NEW p \in Player, ExecuteFrame(p) PROVE FALSE
  <2> DEFINE leaving == {c.player : c \in {d \in FrameCommands(p) : d.type = "LEAVE"}}
  <2>1. q = p /\ p \in leaving
    <3>1. localStatus' = [localStatus EXCEPT ![p] = IF p \in leaving THEN "LEFT" ELSE @]
      BY <1>5 DEF ExecuteFrame
    <3> HIDE DEF leaving
    <3> QED
      BY <1>1, <1>2, <3>1
  <2>2. FrameCommands(p) = {c \in created : c.frame = frame[p]}
    BY <1>5, ReadyFrame DEF ExecuteFrame
  <2>3. Leaving(p)
    BY <2>1, <2>2, LeavingOnFrame
  <2> QED
    BY <2>1, <2>3
<1>6. ASSUME NEW p \in Player,
             \/ StartGame(p) \/ IssueGameCommand(p) \/ (\E h \in net : Receive(p, h))
             \/ \E ra \in MinRunAhead .. MaxRunAhead : UpdateRunAhead(p, ra)
      PROVE  FALSE
  BY <1>2, <1>6 DEF StartGame, IssueGameCommand, Receive, UpdateRunAhead, clock
<1>7. CASE UNCHANGED vars
  BY <1>2, <1>7 DEF vars
<1> QED
  BY <1>3, <1>4, <1>5, <1>6, <1>7 DEF Next, PlayerStep

LEMMA KeptStep ==
    ASSUME KeepsEnough, KeptInv, [Next]_vars PROVE KeptInv'
<1>1. DesyncInv /\ DesyncInv' /\ AnnounceInv /\ TypeInv
  BY DesyncStep DEF KeptInv, DesyncInv, AnnounceInv
<1>2. /\ frame \in [Player -> Nat] /\ frameData \in [Player -> [Player -> Ring]]
      /\ localStatus \in [Player -> Statuses] /\ issued \in [Player -> Nat]
  BY <1>1 DEF TypeInv, TypeOK, Ring
<1>3. LeaversOnly'
  BY <1>1, LeaversStep DEF KeptInv
<1>4. ASSUME NEW p \in Player, localStatus[p] = "INGAME"
      PROVE  /\ ~Leaving(p) /\ LastAnnounced(p) < ExecutionFrame(p)
             /\ LastAnnounced(p) \in Nat /\ ExecutionFrame(p) \in Nat
  BY <1>1, <1>4, ClockTypes, ExecutionFrameAhead DEF Leaving
<1>5. ASSUME NEW p \in Player, StartGame(p) PROVE \A q \in Player : KeptOK(q)'
  <2> SUFFICES ASSUME NEW q \in Player, NEW f \in Nat, StillNeeded(q, f)'
               PROVE  \A r \in Player \ {q} :
                         frameData'[q][r][SlotOf(f)].cmds = CommandsOf(r, f)'
    BY DEF KeptOK
  <2>1. /\ frame[p] = 0 /\ frame' = [frame EXCEPT ![p] = 1]
        /\ UNCHANGED <<frameData, inGame, created>>
    BY <1>5 DEF StartGame
  <2>2. q # p /\ frame'[q] = frame[q]
    BY <1>2, <2>1 DEF StillNeeded
  <2>3. PICK k \in inGame[q] : frame'[k] <= f
    BY <2>1 DEF StillNeeded
  <2>4. k \in Player /\ frame[k] <= frame'[k] /\ frame[k] \in Nat /\ frame'[k] \in Nat
    BY <1>1, <1>2, <2>1, <2>3 DEF TypeInv, TypeOK
  <2>5. StillNeeded(q, f)
    BY <2>2, <2>3, <2>4 DEF StillNeeded
  <2>6. \A r \in Player \ {q} : frameData[q][r][SlotOf(f)].cmds = CommandsOf(r, f)
    BY <2>5 DEF KeptInv, KeptOK
  <2> QED
    BY <2>1, <2>6 DEF CommandsOf
<1>6. ASSUME NEW p \in Player, ProcessFrameTick(p) PROVE \A q \in Player : KeptOK(q)'
  BY <1>6, KeptCreating DEF ProcessFrameTick, CreatesAhead
<1>7. ASSUME NEW p \in Player, NEW type, NEW arg, localStatus[p] = "INGAME",
             IssueLocal(p, type, ExecutionFrame(p), ExecutionFrame(p), arg),
             UNCHANGED <<frame, inGame>>
      PROVE  \A q \in Player : KeptOK(q)'
  <2> DEFINE cmd == Cmd(type, p, ExecutionFrame(p), issued[p] + 1, arg)
  <2>1. /\ cmd.player = p /\ cmd.frame = ExecutionFrame(p) /\ created' = created \cup {cmd}
        /\ \A q, r \in Player : q # r => frameData'[q][r] = frameData[q][r]
    BY <1>2, <1>7 DEF IssueLocal, Cmd
  <2> HIDE DEF cmd
  <2>2. CreatesAhead(p)
    BY <1>4, <1>7, <2>1 DEF CreatesAhead
  <2> QED
    BY <1>7, <2>1, <2>2, KeptCreating
<1>8. ASSUME NEW p \in Player, LeaveGame(p) PROVE \A q \in Player : KeptOK(q)'
  <2> DEFINE cmd == Cmd("LEAVE", p, ExecutionFrame(p) + 1, issued[p] + 1, 0)
  <2>1. /\ cmd.player = p /\ cmd.frame = ExecutionFrame(p) + 1
        /\ created' = created \cup {cmd}
        /\ \A q, r \in Player : q # r => frameData'[q][r] = frameData[q][r]
        /\ UNCHANGED <<frame, inGame>> /\ localStatus[p] = "INGAME"
    BY <1>2, <1>8 DEF LeaveGame, Cmd
  <2> HIDE DEF cmd
  <2>2. CreatesAhead(p)
    BY <1>4, <2>1 DEF CreatesAhead
  <2> QED
    BY <2>1, <2>2, KeptCreating
<1>9. CASE UNCHANGED vars
  <2>1. UNCHANGED <<frame, frameData, inGame, created>>
    BY <1>9 DEF vars
  <2> QED
    BY <1>1, <1>3, <2>1 DEF KeptInv, KeptOK, StillNeeded, CommandsOf
<1>10. \A q \in Player : KeptOK(q)'
  <2>1. ASSUME NEW p \in Player, IssueGameCommand(p) PROVE \A q \in Player : KeptOK(q)'
    BY <1>7, <2>1 DEF IssueGameCommand
  <2>2. ASSUME NEW p \in Player, NEW ra \in MinRunAhead .. MaxRunAhead, UpdateRunAhead(p, ra)
        PROVE  \A q \in Player : KeptOK(q)'
    BY <1>7, <2>2 DEF UpdateRunAhead
  <2>3. ASSUME NEW p \in Player, NEW h \in net, Receive(p, h)
        PROVE  \A q \in Player : KeptOK(q)'
    BY <2>3, KeptReceive
  <2>4. ASSUME NEW p \in Player, ExecuteFrame(p) PROVE \A q \in Player : KeptOK(q)'
    BY <2>4, KeptExecuteFrame
  <2>5. CASE UNCHANGED vars
    BY <1>9, <2>5 DEF KeptInv
  <2> QED
    BY <1>5, <1>6, <1>8, <2>1, <2>2, <2>3, <2>4, <2>5 DEF Next, PlayerStep
<1> QED
  BY <1>1, <1>3, <1>10 DEF KeptInv

(* FRAMES_TO_KEEP is enough: whatever a player that is behind may still ask *)
(* a peer ahead of it for (sendFrameDataToPlayer), the peer holds just as   *)
(* it executed it.                                                          *)
THEOREM LaggardsServed ==
    ASSUME KeepsEnough PROVE Spec => []KeptForLaggards
<1>1. KeptInv /\ [Next]_vars => KeptInv'
  BY KeptStep
<1>2. KeptInv => KeptForLaggards
  <2> SUFFICES ASSUME KeptInv, NEW p \in Player, NEW q \in Player, q \in inGame[p],
                      Playing(p), Playing(q), NEW f \in frame[q] .. frame[p] - 1
               PROVE  executed[p][f] = UNION {frameData[p][r][SlotOf(f)].cmds : r \in Player}
    BY DEF KeptForLaggards
  <2>1. /\ DesyncInv /\ AnnounceInv /\ TypeInv
        /\ executed[p] \in Seq(SUBSET Command) /\ executed[q] \in Seq(SUBSET Command)
        /\ frame[p] \in Nat /\ frame[q] \in Nat
    BY DEF KeptInv, DesyncInv, AnnounceInv, TypeInv, TypeOK
  <2>2. Len(executed[p]) \in Nat /\ Len(executed[q]) \in Nat
    BY <2>1
  <2>3. frame[p] = Len(executed[p]) + 1 /\ frame[q] = Len(executed[q]) + 1
    BY <2>1 DEF DesyncInv, StartOK, Playing
  <2>4. f \in Nat /\ f \in 1 .. Len(executed[p]) /\ StillNeeded(p, f)
    BY <2>1, <2>2, <2>3 DEF StillNeeded
  <2>5. executed[p][f] = {c \in created : c.frame = f}
    BY <2>1, <2>4 DEF DesyncInv, NoDesync
  <2>6. f \in Window(p)
    <3>1. frame[p] <= f + MaxRunAhead + 1
      BY <2>1, <2>4, NeededRange
    <3> QED
      BY <2>1, <2>2, <2>3, <2>4, <3>1, ConstantFacts DEF KeepsEnough, Window, OldestKept
  <2>7. \A r \in Player : frameData[p][r][SlotOf(f)].cmds = CommandsOf(r, f)
    BY <2>1, <2>4, <2>6 DEF KeptInv, KeptOK, AnnounceInv, OwnRingOK, Holds
  <2>8. \A c \in created : c.player \in Player
    BY <2>1 DEF TypeInv, TypeOK, Command
  <2> QED
    BY <2>5, <2>7, <2>8 DEF CommandsOf
<1> QED
  BY <1>1, <1>2, KeptInit, PTL DEF Spec

=============================================================================
