--------------------------- MODULE AnnounceProofs ---------------------------
(***************************************************************************)
(* A count that has been announced is final, for every number of players,  *)
(* run-ahead and buffer length: the theorem, the inductive invariant it    *)
(* needs and the proof.  The argument: a command is created for the        *)
(* execution frame, the execution frame never goes back, only frames below *)
(* it are announced, and the slot of the own ring that a frame maps to     *)
(* holds exactly the commands created for it when the frame is announced.  *)
(***************************************************************************)
EXTENDS LockstepProofs

-----------------------------------------------------------------------------
Leaving(p) == localStatus[p] \in {"LEAVING", "LEFT"}

(* The last frame p may have announced, or created a command for.  A player *)
(* that leaves does both once more, for the frame after its execution frame;*)
(* so does, while it plays on, one that removes a lost player.              *)
LastAnnounced(p) ==
    IF Leaving(p) THEN lastFrameCompleted[p] + 1 ELSE lastFrameCompleted[p]

LastCreated(p) == lastExecutionFrame[p] + 1

(* The frames the rings of p hold: every slot is the slot of one of them.   *)
OldestKept(p) == IF frame[p] > FramesToKeep THEN frame[p] - FramesToKeep ELSE 1

Window(p) == OldestKept(p) .. OldestKept(p) + FrameDataLength - 1

(* The frames announced stay behind the execution frame and, while new      *)
(* commands are created, not behind the frame to be executed.               *)
ClockOK(p) ==
    /\ localStatus[p] = "PREGAME" =>
          /\ runAhead[p] = InitialRunAhead
          /\ lastFrameCompleted[p] = InitialRunAhead - 1
    /\ lastFrameCompleted[p] <= lastExecutionFrame[p]
    /\ lastExecutionFrame[p] <= frame[p] + MaxRunAhead
    /\ ~Leaving(p) => frame[p] <= lastFrameCompleted[p] + 1
    /\ localStatus[p] = "INGAME" =>
          /\ lastFrameCompleted[p] < lastExecutionFrame[p]
          /\ lastFrame[p] = frame[p] => frame[p] <= lastFrameCompleted[p]

CreatedOK ==
    /\ IsFiniteSet(created)
    /\ \A c \in created : c.frame <= LastCreated(c.player) /\ c.id <= issued[c.player]

(* Nobody is sent a command of its own. *)
NotToSelf == \A h \in net : h.dst # h.cmd.player /\ h.cmd.player \notin h.relay

AnnouncedOK ==
    \A h \in net : h.cmd.type = "FRAMEINFO" => h.cmd.frame <= LastAnnounced(h.cmd.player)

(* The slot of a frame holds what was created for the frame. *)
Holds(fd, cmds) == fd.cmds = cmds /\ fd.commandCount = Cardinality(cmds)

OwnRingOK(p) ==
    \A f \in Window(p) : Holds(frameData[p][p][SlotOf(f)], CommandsOf(p, f))

AnnounceInv ==
    /\ TypeInv
    /\ \A p \in Player : ClockOK(p)
    /\ CreatedOK
    /\ NotToSelf
    /\ AnnouncedOK
    /\ \A p \in Player : OwnRingOK(p)
    /\ AnnouncedCountIsFinal

-----------------------------------------------------------------------------
(* Slots: frames FrameDataLength apart share one, nearer ones do not. *)

LEMMA RemainderUnique ==
    ASSUME NEW n \in Nat \ {0}, NEW a \in Int, NEW b \in Int,
           NEW r \in 0 .. n - 1, NEW s \in 0 .. n - 1, (n * a) + r = (n * b) + s
    PROVE  r = s
<1>1. n * (a - b) = s - r
  OBVIOUS
<1>2. \A d \in Int : d >= 1 => n * d >= n
  OBVIOUS
<1>3. \A d \in Int : d <= -1 => n * d <= -n
  OBVIOUS
<1>4. ~(a - b >= 1) /\ ~(a - b <= -1)
  <2>1. s - r < n /\ s - r > -n
    OBVIOUS
  <2> DEFINE d == a - b
  <2>2. d \in Int /\ n * d = s - r
    BY <1>1
  <2> HIDE DEF d
  <2>3. ~(d >= 1) /\ ~(d <= -1)
    BY <1>2, <1>3, <2>1, <2>2
  <2> QED
    BY <2>3 DEF d
<1>5. a = b
  BY <1>4
<1> QED
  BY <1>5

LEMMA SlotQuotient ==
    ASSUME NEW f \in Nat
    PROVE  /\ SlotOf(f) \in 0 .. FrameDataLength - 1
           /\ \E a \in Int : f = (FrameDataLength * a) + SlotOf(f)
<1>1. FrameDataLength \in Nat \ {0}
  BY ConstantFacts
<1>2. f \div FrameDataLength \in Int
  BY <1>1
<1>3. f = (FrameDataLength * (f \div FrameDataLength)) + (f % FrameDataLength)
  BY <1>1
<1>4. f % FrameDataLength \in 0 .. FrameDataLength - 1
  BY <1>1
<1> QED
  BY <1>2, <1>3, <1>4 DEF SlotOf

LEMMA SlotShift ==
    ASSUME NEW f \in Nat
    PROVE  SlotOf(f + FrameDataLength) = SlotOf(f)
<1> DEFINE n == FrameDataLength
           g == f + n
<1>1. n \in Nat \ {0} /\ g \in Nat
  BY ConstantFacts
<1>2. PICK a \in Int : f = (n * a) + SlotOf(f)
  BY SlotQuotient
<1>3. PICK b \in Int : g = (n * b) + SlotOf(g)
  BY <1>1, SlotQuotient
<1>4. SlotOf(f) \in 0 .. n - 1 /\ SlotOf(g) \in 0 .. n - 1
  BY <1>1, SlotQuotient
<1>5. (n * (a + 1)) + SlotOf(f) = (n * b) + SlotOf(g)
  <2>1. n * (a + 1) = (n * a) + n
    BY <1>1
  <2> QED
    BY <1>1, <1>2, <1>3, <1>4, <2>1
<1>6. a + 1 \in Int
  OBVIOUS
<1> QED
  BY <1>1, <1>4, <1>5, <1>6, RemainderUnique

LEMMA SlotUnique ==
    ASSUME NEW f \in Nat, NEW g \in Nat, SlotOf(f) = SlotOf(g),
           f < g + FrameDataLength, g < f + FrameDataLength
    PROVE  f = g
<1> DEFINE n == FrameDataLength
<1>1. n \in Nat \ {0}
  BY ConstantFacts
<1>2. PICK a \in Int : f = (n * a) + SlotOf(f)
  BY SlotQuotient
<1>3. PICK b \in Int : g = (n * b) + SlotOf(g)
  BY SlotQuotient
<1>4. SlotOf(f) \in Int
  BY <1>1, SlotQuotient
<1> DEFINE d == a - b
<1>5. d \in Int /\ f - g = n * d
  <2>1. n * (a - b) = (n * a) - (n * b)
    BY <1>1
  <2>2. n * a \in Int /\ n * b \in Int
    BY <1>1
  <2>3. f - g = (n * a) - (n * b)
    BY <1>2, <1>3, <1>4, <2>2
  <2> QED
    BY <2>1, <2>3
<1> HIDE DEF d
<1>6. (d >= 1 => n * d >= n) /\ (d <= -1 => n * d <= -n)
  BY <1>1, <1>5
<1>7. d = 0
  BY <1>1, <1>5, <1>6
<1>8. n * d = 0
  BY <1>1, <1>7
<1> QED
  BY <1>5, <1>8

(* The window spans the ring, and everything that can be created is in it. *)
LEMMA WindowFacts ==
    ASSUME AnnounceInv, NEW p \in Player
    PROVE  /\ OldestKept(p) \in Nat \ {0} /\ frame[p] \in Nat
           /\ Window(p) \subseteq Nat
           /\ \A f, g \in Window(p) : SlotOf(f) = SlotOf(g) => f = g
           /\ ExecutionFrame(p) <= frame[p] + MaxRunAhead
           /\ \A f \in Nat :
                  f >= frame[p] /\ f >= 1 /\ f <= frame[p] + MaxRunAhead + 1 => f \in Window(p)
<1>1. /\ frame[p] \in Nat /\ runAhead[p] \in MinRunAhead .. MaxRunAhead
      /\ lastExecutionFrame[p] <= frame[p] + MaxRunAhead
  BY DEF AnnounceInv, TypeInv, TypeOK, ClockOK
<1>2. OldestKept(p) \in Nat \ {0}
  BY <1>1, ConstantFacts DEF OldestKept
<1>3. Window(p) \subseteq Nat
  BY <1>2, ConstantFacts DEF Window
<1>4. ASSUME NEW f \in Window(p), NEW g \in Window(p), SlotOf(f) = SlotOf(g) PROVE f = g
  <2>1. f \in Nat /\ g \in Nat /\ f < g + FrameDataLength /\ g < f + FrameDataLength
    BY <1>2, ConstantFacts DEF Window
  <2> QED
    BY <1>4, <2>1, SlotUnique
<1>5. ExecutionFrame(p) <= frame[p] + MaxRunAhead
  BY <1>1, ConstantFacts DEF ExecutionFrame
<1>6. ASSUME NEW f \in Nat, f >= frame[p], f >= 1, f <= frame[p] + MaxRunAhead + 1
      PROVE  f \in Window(p)
  BY <1>1, <1>6, ConstantFacts DEF Window, OldestKept
<1> QED
  BY <1>1, <1>2, <1>3, <1>4, <1>5, <1>6

-----------------------------------------------------------------------------
(* Sending: nothing goes back to the player it comes from. *)

LEMMA SendNotToSelf ==
    ASSUME NEW p \in Player, NEW router \in Player, NEW relay \in SUBSET Player,
           NEW peers \in SUBSET Player, p \notin peers, NEW cmd,
           NEW h \in SendVia(p, router, relay, peers, cmd)
    PROVE  h.dst # p /\ p \notin h.relay
<1>1. CASE router = p
  <2>1. PICK i \in relay \cap peers : h = Hop(p, i, {i}, cmd)
    BY <1>1 DEF SendVia, Direct
  <2> QED
    BY <2>1 DEF Hop
<1>2. CASE router # p
  <2>1. h = Hop(p, router, relay \ {p}, cmd)
    BY <1>2 DEF SendVia
  <2> QED
    BY <1>2, <2>1 DEF Hop
<1> QED
  BY <1>1, <1>2

LEMMA SendLocalNotToSelf ==
    ASSUME TypeInv, NEW p \in Player, localStatus[p] # "LEFT",
           NEW relay \in SUBSET Player, NEW cmd, NEW h \in SendLocal(p, relay, cmd)
    PROVE  h.dst # p /\ p \notin h.relay
<1> DEFINE router == Router(p)
           peers == Peers(p)
<1>1. router \in Player /\ peers \in SUBSET Player /\ p \notin peers
  BY RouterType DEF TypeInv, TypeOK, NotAlone, Peers
<1>2. h \in SendVia(p, router, relay, peers, cmd)
  BY DEF SendLocal
<1> HIDE DEF router, peers
<1> QED
  BY <1>1, <1>2, SendNotToSelf

LEMMA AnnounceNotToSelf ==
    ASSUME TypeInv, NEW p \in Player, localStatus[p] # "LEFT", NEW frames, NEW ring,
           NEW h \in Announce(p, frames, ring)
    PROVE  h.dst # p /\ p \notin h.relay
<1>1. PICK f \in frames : h \in SendLocal(p, Player \ {p}, FrameInfo(p, f, ring))
  BY DEF Announce
<1>2. Player \ {p} \in SUBSET Player
  OBVIOUS
<1> QED
  BY <1>1, <1>2, SendLocalNotToSelf

(* A step in which p announces the counts of frames, and for which nothing  *)
(* changes that has been announced, keeps every count.                      *)
LEMMA CountsKept ==
    ASSUME AnnounceInv, NEW p \in Player, NEW frames \in SUBSET Nat, NEW ring,
           \A f \in frames : /\ ring[SlotOf(f)].commandCount = Cardinality(CommandsOf(p, f)')
                             /\ f <= LastAnnounced(p)',
           \A q \in Player : LastAnnounced(q) <= LastAnnounced(q)' /\ LastAnnounced(q)' \in Nat,
           \A q \in Player : \A f \in Nat :
              f <= LastAnnounced(q) => CommandsOf(q, f)' = CommandsOf(q, f),
           \A h \in net' : \/ \E g \in net : h.cmd = g.cmd
                           \/ h.cmd.type # "FRAMEINFO"
                           \/ \E f \in frames : h.cmd = FrameInfo(p, f, ring)
    PROVE  AnnouncedOK' /\ AnnouncedCountIsFinal'
<1> SUFFICES ASSUME NEW h \in net', h.cmd.type = "FRAMEINFO"
             PROVE  /\ h.cmd.frame <= LastAnnounced(h.cmd.player)'
                    /\ h.cmd.arg = Cardinality(CommandsOf(h.cmd.player, h.cmd.frame)')
  BY DEF AnnouncedOK, AnnouncedCountIsFinal
<1>1. ASSUME NEW g \in net, h.cmd = g.cmd
      PROVE  /\ h.cmd.frame <= LastAnnounced(h.cmd.player)'
             /\ h.cmd.arg = Cardinality(CommandsOf(h.cmd.player, h.cmd.frame)')
  <2>1. h.cmd.player \in Player /\ h.cmd.frame \in Nat
    BY <1>1 DEF AnnounceInv, TypeInv, TypeOK, Hops, Command
  <2>2. /\ h.cmd.frame <= LastAnnounced(h.cmd.player)
        /\ h.cmd.arg = Cardinality(CommandsOf(h.cmd.player, h.cmd.frame))
    BY <1>1 DEF AnnounceInv, AnnouncedOK, AnnouncedCountIsFinal
  <2>3. LastAnnounced(h.cmd.player) \in Nat
    BY SMTT(30), <2>1 DEF LastAnnounced, AnnounceInv, TypeInv, TypeOK
  <2>4. h.cmd.frame <= LastAnnounced(h.cmd.player)'
    BY <2>1, <2>2, <2>3
  <2>5. CommandsOf(h.cmd.player, h.cmd.frame)' = CommandsOf(h.cmd.player, h.cmd.frame)
    BY <2>1, <2>2
  <2> QED
    BY <2>2, <2>4, <2>5
<1>2. ASSUME NEW f \in frames, h.cmd = FrameInfo(p, f, ring)
      PROVE  /\ h.cmd.frame <= LastAnnounced(h.cmd.player)'
             /\ h.cmd.arg = Cardinality(CommandsOf(h.cmd.player, h.cmd.frame)')
  <2>1. h.cmd.player = p /\ h.cmd.frame = f /\ h.cmd.arg = ring[SlotOf(f)].commandCount
    BY <1>2 DEF FrameInfo, Cmd
  <2> QED
    BY <2>1
<1> QED
  BY <1>1, <1>2

(* A step that creates nothing and sends nothing new keeps every count. *)
LEMMA AnnouncementsKept ==
    ASSUME AnnounceInv, created' = created,
           \A q \in Player : LastAnnounced(q) <= LastAnnounced(q)' /\ LastAnnounced(q)' \in Nat,
           \A h \in net' : \E g \in net : h.cmd = g.cmd
    PROVE  AnnouncedOK' /\ AnnouncedCountIsFinal'
<1>1. \A q \in Player : \A f \in Nat : CommandsOf(q, f)' = CommandsOf(q, f)
  BY DEF CommandsOf
<1>2. PICK p \in Player : TRUE
  BY ConstantFacts
<1> DEFINE frames == {}
           ring == frameData[p][p]
<1>3. /\ frames \in SUBSET Nat
      /\ \A f \in frames : /\ ring[SlotOf(f)].commandCount = Cardinality(CommandsOf(p, f)')
                           /\ f <= LastAnnounced(p)'
      /\ \A h \in net' : \/ \E g \in net : h.cmd = g.cmd
                         \/ \E f \in frames : h.cmd = FrameInfo(p, f, ring)
  OBVIOUS
<1> HIDE DEF frames, ring
<1> QED
  BY <1>1, <1>2, <1>3, CountsKept

-----------------------------------------------------------------------------
(* Frames that hold what was created. *)

LEMMA HoldsAdd ==
    ASSUME NEW fd \in FrameDataType, NEW S, IsFiniteSet(S), Holds(fd, S),
           NEW cmd \in Command, \A c \in S : ~SameCommand(c, cmd)
    PROVE  Holds(CountIfLocal(TRUE, AddCommand(fd, cmd)), S \cup {cmd})
<1>1. cmd \notin S
  BY DEF SameCommand
<1>2. Cardinality(S \cup {cmd}) = Cardinality(S) + 1
  BY <1>1, FS_AddElement
<1>3. /\ AddCommand(fd, cmd).cmds = S \cup {cmd}
      /\ AddCommand(fd, cmd).commandCount = Cardinality(S) + 1
      /\ AddCommand(fd, cmd) \in FrameDataType
  <2>1. AddCommand(fd, cmd) = [fd EXCEPT !.cmds = fd.cmds \cup {cmd},
                                         !.commandCount = fd.commandCount + 1]
    BY DEF AddCommand, Holds
  <2>2. AddCommand(fd, cmd) \in FrameDataType
    BY FrameTypes
  <2> QED
    BY <2>1, <2>2 DEF Holds, FrameDataType
<1>4. /\ CountIfLocal(TRUE, AddCommand(fd, cmd)).cmds = AddCommand(fd, cmd).cmds
      /\ CountIfLocal(TRUE, AddCommand(fd, cmd)).commandCount = AddCommand(fd, cmd).commandCount
  BY <1>3 DEF CountIfLocal, SetFrameCommandCount, FrameDataType
<1> QED
  BY <1>2, <1>3, <1>4 DEF Holds

(* A command with a new ID, created for a frame of the window, is stored in *)
(* the slot of its frame and in no other.                                   *)
LEMMA OwnRingAdd ==
    ASSUME AnnounceInv, NEW p \in Player, NEW cmd \in Command, cmd.player = p,
           cmd.id = issued[p] + 1, cmd.frame \in Window(p),
           created' = created \cup {cmd}
    PROVE  \A f \in Window(p) :
              Holds(AddNetCommandMsg(TRUE, frameData[p][p], cmd)[SlotOf(f)], CommandsOf(p, f)')
<1> SUFFICES ASSUME NEW f \in Window(p)
             PROVE  Holds(AddNetCommandMsg(TRUE, frameData[p][p], cmd)[SlotOf(f)],
                          CommandsOf(p, f)')
  OBVIOUS
<1> DEFINE ring == frameData[p][p]
           old == ring[SlotOf(f)]
           new == CountIfLocal(TRUE, AddCommand(old, cmd))
<1>1. f \in Nat /\ cmd.frame \in Nat /\ SlotOf(f) \in SlotIndex /\ SlotOf(cmd.frame) \in SlotIndex
  BY WindowFacts, SlotOfType
<1>2. ring \in [SlotIndex -> FrameDataType] /\ old \in FrameDataType
  BY <1>1 DEF AnnounceInv, TypeInv, TypeOK
<1>3. Holds(old, CommandsOf(p, f))
  BY DEF AnnounceInv, OwnRingOK
<1>4. AddNetCommandMsg(TRUE, ring, cmd)[SlotOf(f)] =
        IF SlotOf(f) = SlotOf(cmd.frame) THEN new ELSE old
  BY <1>1, <1>2 DEF AddNetCommandMsg
<1>5. CASE f = cmd.frame
  <2>1. CommandsOf(p, f)' = CommandsOf(p, f) \cup {cmd}
    BY <1>5 DEF CommandsOf
  <2>2. IsFiniteSet(CommandsOf(p, f))
    BY FS_Subset DEF CommandsOf, AnnounceInv, CreatedOK
  <2>3. \A c \in CommandsOf(p, f) : ~SameCommand(c, cmd)
    <3> SUFFICES ASSUME NEW c \in CommandsOf(p, f) PROVE c.id # cmd.id
      BY DEF SameCommand
    <3>1. c \in created /\ c.player = p /\ c.id \in Nat /\ issued[p] \in Nat
      BY DEF CommandsOf, AnnounceInv, TypeInv, TypeOK, Command
    <3>2. c.id <= issued[p]
      BY <3>1 DEF AnnounceInv, CreatedOK
    <3> QED
      BY <3>1, <3>2
  <2>4. Holds(new, CommandsOf(p, f) \cup {cmd})
    <3> DEFINE S == CommandsOf(p, f)
    <3>1. IsFiniteSet(S) /\ Holds(old, S) /\ \A c \in S : ~SameCommand(c, cmd)
      BY <1>3, <2>2, <2>3
    <3> HIDE DEF old, S
    <3>2. Holds(CountIfLocal(TRUE, AddCommand(old, cmd)), S \cup {cmd})
      BY <1>2, <3>1, HoldsAdd
    <3> QED
      BY <3>2 DEF S
  <2> QED
    BY <1>4, <1>5, <2>1, <2>4
<1>6. CASE f # cmd.frame
  <2>1. CommandsOf(p, f)' = CommandsOf(p, f)
    BY <1>6 DEF CommandsOf
  <2>2. SlotOf(f) # SlotOf(cmd.frame)
    BY <1>6, WindowFacts
  <2> QED
    BY <1>3, <1>4, <2>1, <2>2
<1> QED
  BY <1>5, <1>6

LEMMA HoldsNothing ==
    /\ Holds(EmptyFrame, {})
    /\ Holds(CountIfLocal(TRUE, EmptyFrame), {})
    /\ Holds(ZeroFrame(EmptyFrame), {})
    /\ Holds(ZeroFrame(CountIfLocal(TRUE, EmptyFrame)), {})
BY FS_EmptySet DEF Holds, EmptyFrame, CountIfLocal, SetFrameCommandCount, ZeroFrame

-----------------------------------------------------------------------------
(* The invariant holds initially and is preserved by every action. *)

LEMMA AnnounceInit == Init => AnnounceInv
<1> SUFFICES ASSUME Init PROVE AnnounceInv
  OBVIOUS
<1>1. TypeInv
  BY TypeInit
<1>2. \A p \in Player : ClockOK(p)
  BY ConstantFacts DEF Init, ClockOK, Leaving
<1>3. CreatedOK /\ NotToSelf /\ AnnouncedOK /\ AnnouncedCountIsFinal
  BY FS_EmptySet DEF Init, CreatedOK, NotToSelf, AnnouncedOK, AnnouncedCountIsFinal
<1>4. ASSUME NEW p \in Player PROVE OwnRingOK(p)
  <2> SUFFICES ASSUME NEW f \in Window(p)
               PROVE  Holds(frameData[p][p][SlotOf(f)], CommandsOf(p, f))
    BY DEF OwnRingOK
  <2>1. SlotOf(f) \in SlotIndex
    <3>1. OldestKept(p) \in Nat
      BY SMTT(30), <1>1, ConstantFacts DEF OldestKept, TypeInv, TypeOK
    <3>2. f \in Nat
      BY <3>1, ConstantFacts DEF Window
    <3> QED
      BY <3>2, SlotOfType
  <2>2. frameData[p][p] = ZeroFrames(EmptyRing(TRUE), 1, InitialRunAhead - 1)
    BY DEF Init
  <2>3. \/ frameData[p][p][SlotOf(f)] = CountIfLocal(TRUE, EmptyFrame)
        \/ frameData[p][p][SlotOf(f)] = ZeroFrame(CountIfLocal(TRUE, EmptyFrame))
    BY <2>1, <2>2 DEF ZeroFrames, EmptyRing
  <2>4. CommandsOf(p, f) = {}
    BY DEF Init, CommandsOf
  <2> QED
    BY <2>3, <2>4, HoldsNothing
<1> QED
  BY <1>1, <1>2, <1>3, <1>4 DEF AnnounceInv

LEMMA AnnounceStartGame ==
    ASSUME AnnounceInv, NEW p \in Player, StartGame(p) PROVE AnnounceInv'
<1>1. TypeInv'
  BY TypeStartGame DEF AnnounceInv
<1>2. /\ frame[p] = 0 /\ frame' = [frame EXCEPT ![p] = 1] /\ localStatus[p] = "PREGAME"
      /\ UNCHANGED <<lastExecutionFrame, lastFrameCompleted, lastFrame, localStatus, runAhead>>
      /\ UNCHANGED <<frameData, issued, created, net>>
      /\ frame \in [Player -> Nat] /\ lastFrameCompleted \in [Player -> Nat]
      /\ lastExecutionFrame \in [Player -> Nat]
  BY DEF StartGame, clock, AnnounceInv, TypeInv, TypeOK
<1>3. \A q \in Player : ClockOK(q)'
  <2> SUFFICES ASSUME NEW q \in Player PROVE ClockOK(q)'
    OBVIOUS
  <2>1. ClockOK(q)
    BY DEF AnnounceInv
  <2>2. frame'[q] = frame[q] \/ (q = p /\ frame[q] = 0 /\ frame'[q] = 1)
    BY <1>2
  <2>3. lastFrameCompleted[q] \in Nat /\ lastExecutionFrame[q] \in Nat /\ frame[q] \in Nat
    BY <1>2
  <2> QED
    BY <1>2, <2>1, <2>2, <2>3, ConstantFacts DEF ClockOK, Leaving
<1>4. CreatedOK' /\ NotToSelf'
  BY <1>2 DEF AnnounceInv, CreatedOK, NotToSelf, LastCreated, Leaving
<1>5. \A q \in Player : LastAnnounced(q)' = LastAnnounced(q) /\ LastAnnounced(q) \in Nat
  BY <1>2 DEF LastAnnounced, Leaving
<1>6. AnnouncedOK' /\ AnnouncedCountIsFinal'
  BY <1>2, <1>5, AnnouncementsKept
<1>7. \A q \in Player : OwnRingOK(q)'
  <2> SUFFICES ASSUME NEW q \in Player PROVE OwnRingOK(q)'
    OBVIOUS
  <2>1. Window(q)' = Window(q)
    BY <1>2, ConstantFacts DEF Window, OldestKept
  <2> QED
    BY <1>2, <2>1 DEF AnnounceInv, OwnRingOK, CommandsOf
<1> QED
  BY <1>1, <1>3, <1>4, <1>6, <1>7 DEF AnnounceInv

LEMMA AnnounceReceive ==
    ASSUME AnnounceInv, NEW p \in Player, NEW h \in net, Receive(p, h) PROVE AnnounceInv'
<1>1. TypeInv'
  BY TypeReceive DEF AnnounceInv
<1>2. /\ UNCHANGED <<frame, lastExecutionFrame, lastFrameCompleted, lastFrame, localStatus>>
      /\ UNCHANGED <<runAhead, issued, created>>
      /\ net' = net \cup RelayOn(p, h)
      /\ h.dst = p
  BY DEF Receive, Store, clock
<1>3. h.cmd.player # p /\ h.cmd.player \notin h.relay
  BY <1>2 DEF AnnounceInv, NotToSelf
<1>4. \A g \in RelayOn(p, h) :
         g.cmd = h.cmd /\ g.dst # h.cmd.player /\ h.cmd.player \notin g.relay
  <2> SUFFICES ASSUME NEW g \in RelayOn(p, h)
               PROVE  g.cmd = h.cmd /\ g.dst # h.cmd.player /\ h.cmd.player \notin g.relay
    OBVIOUS
  <2>1. PICK i \in h.relay \cap Peers(p) : g = Hop(p, i, {i}, h.cmd)
    BY DEF RelayOn, Direct
  <2> QED
    BY <1>3, <2>1 DEF Hop
<1>5. \A q \in Player : ClockOK(q)'
  BY <1>2 DEF AnnounceInv, ClockOK, Leaving
<1>6. CreatedOK' /\ NotToSelf'
  BY <1>2, <1>4 DEF AnnounceInv, CreatedOK, NotToSelf, LastCreated, Leaving
<1>7. \A q \in Player : LastAnnounced(q)' = LastAnnounced(q) /\ LastAnnounced(q) \in Nat
  BY <1>2 DEF LastAnnounced, Leaving, AnnounceInv, TypeInv, TypeOK
<1>8. AnnouncedOK' /\ AnnouncedCountIsFinal'
  BY <1>2, <1>4, <1>7, AnnouncementsKept
<1>9. \A q \in Player : OwnRingOK(q)'
  <2> SUFFICES ASSUME NEW q \in Player PROVE OwnRingOK(q)'
    OBVIOUS
  <2>1. frameData'[q][q] = frameData[q][q]
    BY <1>3 DEF Receive, Store, AnnounceInv, TypeInv, TypeOK
  <2>2. OwnRingOK(q)
    BY DEF AnnounceInv
  <2> QED
    BY <1>2, <2>1, <2>2 DEF OwnRingOK, CommandsOf, Window, OldestKept
<1> QED
  BY <1>1, <1>5, <1>6, <1>8, <1>9 DEF AnnounceInv

(* What ClockOK says of the execution frame of a player that plays on. *)
LEMMA ExecutionFrameAhead ==
    ASSUME AnnounceInv, NEW p \in Player, localStatus[p] \in {"PREGAME", "INGAME"}
    PROVE  /\ lastFrameCompleted[p] < ExecutionFrame(p)
           /\ frame[p] < ExecutionFrame(p)
           /\ frame[p] <= lastFrameCompleted[p] + 1
           /\ ExecutionFrame(p) \in Nat /\ lastFrameCompleted[p] \in Nat /\ frame[p] \in Nat
           /\ ExecutionFrame(p) >= lastExecutionFrame[p] /\ lastExecutionFrame[p] \in Nat
           /\ LastAnnounced(p) = lastFrameCompleted[p]
<1>1. /\ frame[p] \in Nat /\ lastFrameCompleted[p] \in Nat /\ lastExecutionFrame[p] \in Nat
      /\ runAhead[p] \in Nat \ {0}
  BY SMTT(30), ConstantFacts DEF AnnounceInv, TypeInv, TypeOK
<1>2. ClockOK(p)
  BY DEF AnnounceInv
<1>3. ExecutionFrame(p) \in Nat /\ ExecutionFrame(p) >= lastExecutionFrame[p]
      /\ ExecutionFrame(p) >= frame[p] + runAhead[p]
  BY <1>1 DEF ExecutionFrame
<1>4. ~Leaving(p)
  BY DEF Leaving
<1>5. LastAnnounced(p) = lastFrameCompleted[p]
  BY <1>4 DEF LastAnnounced
<1>6. frame[p] <= lastFrameCompleted[p] + 1
  BY <1>2, <1>4 DEF ClockOK
<1>7. CASE localStatus[p] = "PREGAME"
  BY <1>1, <1>2, <1>3, <1>5, <1>6, <1>7, ConstantFacts DEF ClockOK
<1>8. CASE localStatus[p] = "INGAME"
  BY <1>1, <1>2, <1>3, <1>5, <1>6, <1>8 DEF ClockOK
<1> QED
  BY <1>7, <1>8

LEMMA AnnounceProcessFrameTick ==
    ASSUME AnnounceInv, NEW p \in Player, ProcessFrameTick(p) PROVE AnnounceInv'
<1> DEFINE playing == localStatus[p] \in {"PREGAME", "INGAME"}
           exec == ExecutionFrame(p)
           frames == lastFrameCompleted[p] + 1 .. exec - 1
           infos == Announce(p, frames, frameData[p][p])
<1>1. TypeInv'
  BY TypeProcessFrameTick DEF AnnounceInv
<1>2. /\ localStatus[p] # "LEFT"
      /\ lastFrame' = [lastFrame EXCEPT ![p] = frame[p]]
      /\ UNCHANGED <<frame, runAhead, frameData, issued, created>>
  BY DEF ProcessFrameTick
<1>3. /\ frame \in [Player -> Nat] /\ lastFrameCompleted \in [Player -> Nat]
      /\ lastExecutionFrame \in [Player -> Nat] /\ lastFrame \in [Player -> Nat]
      /\ localStatus \in [Player -> Statuses] /\ frameData[p][p] \in Ring
  BY DEF AnnounceInv, TypeInv, TypeOK, Ring
<1>4. \A q \in Player : ClockOK(q)
  BY DEF AnnounceInv
<1>5. CASE ~playing
  <2>1. UNCHANGED <<lastExecutionFrame, lastFrameCompleted, localStatus, net>>
    BY <1>3, <1>5 DEF ProcessFrameTick
  <2>2. \A q \in Player : ClockOK(q)'
    BY <1>2, <1>3, <1>4, <1>5, <2>1 DEF ClockOK, Leaving
  <2>3. CreatedOK' /\ NotToSelf'
    BY <1>2, <2>1 DEF AnnounceInv, CreatedOK, NotToSelf, LastCreated, Leaving
  <2>4. \A q \in Player : LastAnnounced(q)' = LastAnnounced(q) /\ LastAnnounced(q) \in Nat
    BY <1>3, <2>1 DEF LastAnnounced, Leaving
  <2>5. AnnouncedOK' /\ AnnouncedCountIsFinal'
    BY <1>2, <2>1, <2>4, AnnouncementsKept
  <2>6. \A q \in Player : OwnRingOK(q)'
    BY <1>2 DEF AnnounceInv, OwnRingOK, CommandsOf, Window, OldestKept
  <2> QED
    BY <1>1, <2>2, <2>3, <2>5, <2>6 DEF AnnounceInv
<1>6. CASE playing
  <2>1. /\ lastExecutionFrame' = [lastExecutionFrame EXCEPT ![p] = exec]
        /\ net' = net \cup infos
        /\ lastFrameCompleted' = [lastFrameCompleted EXCEPT ![p] =
                                    IF exec - 1 > lastFrameCompleted[p] THEN exec - 1
                                    ELSE lastFrameCompleted[p]]
        /\ localStatus' = [localStatus EXCEPT ![p] = "INGAME"]
    BY <1>6 DEF ProcessFrameTick
  <2>2. /\ lastFrameCompleted[p] < exec /\ frame[p] < exec /\ exec \in Nat
        /\ frame[p] <= lastFrameCompleted[p] + 1 /\ exec >= lastExecutionFrame[p]
        /\ exec <= frame[p] + MaxRunAhead
        /\ LastAnnounced(p) = lastFrameCompleted[p]
    BY <1>6, ExecutionFrameAhead, WindowFacts
  <2> HIDE DEF exec
  <2>3. lastFrameCompleted' = [lastFrameCompleted EXCEPT ![p] = exec - 1]
    <3>1. lastFrameCompleted[p] \in Nat
      BY <1>3
    <3>2. (IF exec - 1 > lastFrameCompleted[p] THEN exec - 1 ELSE lastFrameCompleted[p])
            = exec - 1
      BY <2>2, <3>1
    <3> QED
      BY <2>1, <3>2
  <2>4. \A q \in Player : ClockOK(q)'
    <3> SUFFICES ASSUME NEW q \in Player PROVE ClockOK(q)'
      OBVIOUS
    <3>1. CASE q = p
      <4>1. /\ lastFrameCompleted'[p] = exec - 1 /\ lastExecutionFrame'[p] = exec
            /\ localStatus'[p] = "INGAME" /\ frame'[p] = frame[p]
        BY <1>2, <1>3, <2>1, <2>3
      <4> QED
        BY <1>3, <2>2, <3>1, <4>1, ConstantFacts DEF ClockOK, Leaving
    <3>2. CASE q # p
      BY <1>2, <1>3, <1>4, <2>1, <2>3, <3>2 DEF ClockOK, Leaving
    <3> QED
      BY <3>1, <3>2
  <2>5. /\ \A q \in Player : LastAnnounced(q) <= LastAnnounced(q)' /\ LastAnnounced(q)' \in Nat
        /\ \A q \in Player : LastCreated(q) <= LastCreated(q)' /\ LastCreated(q) \in Nat
                            /\ LastCreated(q)' \in Nat
        /\ LastAnnounced(p)' = exec - 1
    <3> SUFFICES ASSUME NEW q \in Player
                 PROVE  /\ LastAnnounced(q) <= LastAnnounced(q)' /\ LastAnnounced(q)' \in Nat
                        /\ LastCreated(q) <= LastCreated(q)' /\ LastCreated(q) \in Nat
                        /\ LastCreated(q)' \in Nat
                        /\ q = p => LastAnnounced(q)' = exec - 1
      OBVIOUS
    <3>1. CASE q = p
      BY <1>3, <2>1, <2>2, <2>3, <3>1 DEF LastAnnounced, LastCreated, Leaving
    <3>2. CASE q # p
      BY <1>3, <2>1, <2>3, <3>2 DEF LastAnnounced, LastCreated, Leaving
    <3> QED
      BY <3>1, <3>2
  <2>6. CreatedOK'
    <3>1. \A c \in created : c.player \in Player /\ c.frame \in Nat
      BY DEF AnnounceInv, TypeInv, TypeOK, Command
    <3> QED
      BY <1>2, <2>5, <3>1 DEF AnnounceInv, CreatedOK
  <2>7. frames \in SUBSET Nat /\ frames \subseteq Window(p)
    <3>1. \A f \in frames : f \in Nat /\ f >= frame[p] /\ f >= 1 /\ f <= frame[p] + MaxRunAhead + 1
      BY <1>3, <2>2, ConstantFacts
    <3> QED
      BY <3>1, WindowFacts
  <2>8. \A h \in infos : \E f \in frames : h.cmd = FrameInfo(p, f, frameData[p][p])
    BY <1>2, <1>3, <2>7, AnnounceTypes DEF AnnounceInv
  <2>9. \A h \in infos : h.dst # p /\ p \notin h.relay /\ h.cmd.player = p
    <3>1. \A h \in infos : h.dst # p /\ p \notin h.relay
      BY <1>2, AnnounceNotToSelf DEF AnnounceInv
    <3>2. \A f \in frames : FrameInfo(p, f, frameData[p][p]).player = p
      BY DEF FrameInfo, Cmd
    <3> HIDE DEF infos, frames
    <3> QED
      BY <2>8, <3>1, <3>2
  <2>10. NotToSelf'
    <3> HIDE DEF infos
    <3> QED
      BY <2>1, <2>9 DEF AnnounceInv, NotToSelf
  <2>11. \A f \in frames :
            /\ frameData[p][p][SlotOf(f)].commandCount = Cardinality(CommandsOf(p, f)')
            /\ f <= LastAnnounced(p)'
    <3> SUFFICES ASSUME NEW f \in frames
                 PROVE  /\ frameData[p][p][SlotOf(f)].commandCount = Cardinality(CommandsOf(p, f)')
                        /\ f <= LastAnnounced(p)'
      OBVIOUS
    <3>1. CommandsOf(p, f)' = CommandsOf(p, f)
      BY <1>2 DEF CommandsOf
    <3>2. Holds(frameData[p][p][SlotOf(f)], CommandsOf(p, f))
      BY <2>7 DEF AnnounceInv, OwnRingOK
    <3>3. f <= exec - 1
      BY <1>3, <2>2
    <3> QED
      BY <2>5, <3>1, <3>2, <3>3 DEF Holds
  <2>12. \A q \in Player : \A f \in Nat : CommandsOf(q, f)' = CommandsOf(q, f)
    BY <1>2 DEF CommandsOf
  <2>13. AnnouncedOK' /\ AnnouncedCountIsFinal'
    <3> DEFINE ring == frameData[p][p]
    <3>1. /\ \A h \in net' : \/ \E g \in net : h.cmd = g.cmd
                             \/ \E f \in frames : h.cmd = FrameInfo(p, f, ring)
          /\ \A f \in frames : /\ ring[SlotOf(f)].commandCount = Cardinality(CommandsOf(p, f)')
                               /\ f <= LastAnnounced(p)'
      BY <2>1, <2>8, <2>11
    <3> HIDE DEF ring, frames
    <3> QED
      BY <2>5, <2>7, <2>12, <3>1, CountsKept
  <2>14. \A q \in Player : OwnRingOK(q)'
    BY <1>2 DEF AnnounceInv, OwnRingOK, CommandsOf, Window, OldestKept
  <2> QED
    BY <1>1, <2>4, <2>6, <2>10, <2>13, <2>14 DEF AnnounceInv
<1> QED
  BY <1>5, <1>6

(* Creating a command for a frame that can still be in the window keeps     *)
(* what does not concern the announcements.                                 *)
LEMMA CreateKeeps ==
    ASSUME AnnounceInv, NEW p \in Player, localStatus[p] = "INGAME",
           NEW cmd \in Command, cmd.player = p, cmd.id = issued[p] + 1,
           cmd.frame \in Window(p), cmd.frame > lastFrameCompleted[p],
           NEW ring, ring = AddNetCommandMsg(TRUE, frameData[p][p], cmd),
           \A q \in Player : frameData'[q][q] = IF q = p THEN ring ELSE frameData[q][q],
           created' = created \cup {cmd},
           frame' = frame
    PROVE  /\ \A q \in Player : OwnRingOK(q)'
           /\ \A f \in Window(p) : Holds(ring[SlotOf(f)], CommandsOf(p, f)')
           /\ \A q \in Player : \A f \in Nat :
                 f <= LastAnnounced(q) => CommandsOf(q, f)' = CommandsOf(q, f)
<1>1. \A f \in Window(p) : Holds(ring[SlotOf(f)], CommandsOf(p, f)')
  BY OwnRingAdd
<1>2. \A q \in Player : Window(q)' = Window(q)
  BY DEF Window, OldestKept
<1>3. ASSUME NEW q \in Player PROVE OwnRingOK(q)'
  <2>1. CASE q = p
    BY <1>1, <1>2, <2>1 DEF OwnRingOK
  <2>2. CASE q # p
    <3>1. \A f : CommandsOf(q, f)' = CommandsOf(q, f)
      BY <2>2 DEF CommandsOf
    <3>2. frameData'[q][q] = frameData[q][q] /\ OwnRingOK(q)
      BY <2>2 DEF AnnounceInv
    <3> QED
      BY <1>2, <3>1, <3>2 DEF OwnRingOK
  <2> QED
    BY <2>1, <2>2
<1>4. ASSUME NEW q \in Player, NEW f \in Nat, f <= LastAnnounced(q)
      PROVE  CommandsOf(q, f)' = CommandsOf(q, f)
  <2>1. CASE q = p
    <3>1. f <= lastFrameCompleted[p]
      BY <1>4, <2>1 DEF LastAnnounced, Leaving
    <3>2. f # cmd.frame
      <4>1. lastFrameCompleted[p] \in Nat /\ cmd.frame \in Nat
        BY DEF AnnounceInv, TypeInv, TypeOK, Command
      <4> QED
        BY <3>1, <4>1
    <3> QED
      BY <2>1, <3>2 DEF CommandsOf
  <2>2. CASE q # p
    BY <2>2 DEF CommandsOf
  <2> QED
    BY <2>1, <2>2
<1> QED
  BY <1>1, <1>3, <1>4

LEMMA AnnounceIssueLocal ==
    ASSUME AnnounceInv, TypeInv', NEW p \in Player, localStatus[p] = "INGAME",
           NEW type \in {"GAME", "RUNAHEAD"}, NEW arg \in Nat,
           type = "RUNAHEAD" => arg \in MinRunAhead .. MaxRunAhead,
           IssueLocal(p, type, ExecutionFrame(p), ExecutionFrame(p), arg),
           UNCHANGED <<frame, runAhead, lastFrameCompleted, lastFrame, localStatus,
                       inGame, executed>>
    PROVE  AnnounceInv'
<1> DEFINE exec == ExecutionFrame(p)
           cmd == Cmd(type, p, exec, issued[p] + 1, arg)
           ring == AddNetCommandMsg(TRUE, frameData[p][p], cmd)
<1>1. /\ frame \in [Player -> Nat] /\ lastFrameCompleted \in [Player -> Nat]
      /\ lastExecutionFrame \in [Player -> Nat] /\ issued \in [Player -> Nat]
      /\ TypeInv
  BY DEF AnnounceInv, TypeInv, TypeOK
<1>2. /\ lastFrameCompleted[p] < exec /\ frame[p] < exec /\ exec \in Nat
      /\ exec >= lastExecutionFrame[p] /\ exec <= frame[p] + MaxRunAhead
  BY ExecutionFrameAhead, WindowFacts
<1>3. /\ cmd \in Command /\ cmd.player = p /\ cmd.frame = exec
      /\ cmd.id = issued[p] + 1 /\ cmd.type # "FRAMEINFO"
  BY <1>1, <1>2 DEF Cmd, Command, CommandTypes
<1>4. /\ issued' = [issued EXCEPT ![p] = issued[p] + 1]
      /\ lastExecutionFrame' = [lastExecutionFrame EXCEPT ![p] = exec]
      /\ frameData' = [frameData EXCEPT ![p][p] = ring]
      /\ created' = created \cup {cmd}
      /\ net' = net \cup SendLocal(p, Player, cmd)
      /\ ring = AddNetCommandMsg(TRUE, frameData[p][p], cmd)
  BY DEF IssueLocal
<1> HIDE DEF exec, cmd, ring
<1>5. cmd.frame \in Window(p) /\ cmd.frame > lastFrameCompleted[p]
  <2>1. exec >= frame[p] /\ exec >= 1 /\ exec <= frame[p] + MaxRunAhead + 1
    BY <1>1, <1>2, ConstantFacts
  <2> QED
    BY <1>2, <1>3, <2>1, WindowFacts
<1>6. /\ \A q \in Player : OwnRingOK(q)'
      /\ \A q \in Player : \A f \in Nat :
            f <= LastAnnounced(q) => CommandsOf(q, f)' = CommandsOf(q, f)
  <2>1. \A q \in Player : frameData'[q][q] = IF q = p THEN ring ELSE frameData[q][q]
    BY <1>1, <1>4 DEF TypeInv, TypeOK
  <2>2. /\ ring = AddNetCommandMsg(TRUE, frameData[p][p], cmd)
        /\ created' = created \cup {cmd} /\ frame' = frame
    BY <1>4
  <2> QED
    BY <1>1, <1>3, <1>5, <2>1, <2>2, CreateKeeps
<1>7. \A h \in SendLocal(p, Player, cmd) : h.cmd = cmd /\ h.dst # p /\ p \notin h.relay
  <2>1. \A h \in SendLocal(p, Player, cmd) : h.dst # p /\ p \notin h.relay
    BY <1>1, SendLocalNotToSelf, Player \in SUBSET Player
  <2>2. \A h \in SendLocal(p, Player, cmd) : h.cmd = cmd
    BY <1>1, <1>3, CreateTypes
  <2> QED
    BY <2>1, <2>2
<1>8. NotToSelf'
  BY <1>3, <1>4, <1>7 DEF AnnounceInv, NotToSelf
<1>9. \A q \in Player : LastAnnounced(q)' = LastAnnounced(q) /\ LastAnnounced(q) \in Nat
  BY <1>1 DEF LastAnnounced, Leaving
<1>10. AnnouncedOK' /\ AnnouncedCountIsFinal'
  <2> DEFINE none == {}
             own == frameData[p][p]
  <2>1. /\ none \in SUBSET Nat
        /\ \A f \in none : /\ own[SlotOf(f)].commandCount = Cardinality(CommandsOf(p, f)')
                           /\ f <= LastAnnounced(p)'
        /\ \A h \in net' : \/ \E g \in net : h.cmd = g.cmd
                           \/ h.cmd.type # "FRAMEINFO"
                           \/ \E f \in none : h.cmd = FrameInfo(p, f, own)
    BY <1>3, <1>4, <1>7
  <2>2. \A q \in Player : LastAnnounced(q) <= LastAnnounced(q)' /\ LastAnnounced(q)' \in Nat
    BY <1>9
  <2> HIDE DEF none, own
  <2> QED
    BY <1>6, <2>1, <2>2, CountsKept
<1>11. \A q \in Player : ClockOK(q)'
  <2> SUFFICES ASSUME NEW q \in Player PROVE ClockOK(q)'
    OBVIOUS
  <2>1. ClockOK(q)
    BY DEF AnnounceInv
  <2>2. CASE q = p
    <3>1. lastExecutionFrame'[p] = exec /\ lastExecutionFrame[p] \in Nat
      BY <1>1, <1>4
    <3> QED
      BY <1>1, <1>2, <2>1, <2>2, <3>1, ConstantFacts DEF ClockOK, Leaving
  <2>3. CASE q # p
    BY <1>1, <1>4, <2>1, <2>3 DEF ClockOK, Leaving
  <2> QED
    BY <2>2, <2>3
<1>12. CreatedOK'
  <2>1. IsFiniteSet(created')
    BY <1>4, FS_AddElement DEF AnnounceInv, CreatedOK
  <2>2. ASSUME NEW c \in created'
        PROVE  c.frame <= LastCreated(c.player)' /\ c.id <= issued'[c.player]
    <3>1. CASE c = cmd
      <4>1. LastCreated(p)' = exec + 1
        BY <1>1, <1>4 DEF LastCreated, Leaving
      <4> QED
        BY <1>1, <1>2, <1>3, <1>4, <3>1, <4>1
    <3>2. CASE c \in created
      <4>1. /\ c.player \in Player /\ c.frame \in Nat /\ c.id \in Nat
            /\ c.frame <= LastCreated(c.player) /\ c.id <= issued[c.player]
        BY <3>2 DEF AnnounceInv, CreatedOK, TypeInv, TypeOK, Command
      <4>2. CASE c.player = p
        <5>1. /\ LastCreated(p)' = exec + 1 /\ issued'[p] = issued[p] + 1
              /\ LastCreated(p) = lastExecutionFrame[p] + 1
          BY <1>1, <1>4 DEF LastCreated
        <5> QED
          BY <1>1, <1>2, <4>1, <4>2, <5>1
      <4>3. CASE c.player # p
        BY <1>1, <1>4, <4>1, <4>3 DEF LastCreated, Leaving
      <4> QED
        BY <4>2, <4>3
    <3> QED
      BY <1>4, <3>1, <3>2
  <2> QED
    BY <2>1, <2>2 DEF CreatedOK
<1> QED
  BY <1>6, <1>8, <1>10, <1>11, <1>12 DEF AnnounceInv

(* Leaving: the last command and the last two announcements. *)
LEMMA AnnounceLeaveGame ==
    ASSUME AnnounceInv, NEW p \in Player, LeaveGame(p) PROVE AnnounceInv'
<1> DEFINE exec == ExecutionFrame(p)
           cmd == Cmd("LEAVE", p, exec + 1, issued[p] + 1, 0)
           ring == AddNetCommandMsg(TRUE, frameData[p][p], cmd)
           frames == {exec, exec + 1}
           infos == Announce(p, frames, ring)
<1>1. /\ frame \in [Player -> Nat] /\ lastFrameCompleted \in [Player -> Nat]
      /\ lastExecutionFrame \in [Player -> Nat] /\ issued \in [Player -> Nat]
      /\ localStatus \in [Player -> Statuses] /\ frameData[p][p] \in Ring
      /\ TypeInv /\ TypeInv' /\ localStatus[p] = "INGAME"
  <2>1. TypeInv /\ TypeInv'
    BY TypeLeaveGame DEF AnnounceInv
  <2>2. localStatus[p] = "INGAME"
    BY DEF LeaveGame
  <2>3. /\ frame \in [Player -> Nat] /\ lastFrameCompleted \in [Player -> Nat]
        /\ lastExecutionFrame \in [Player -> Nat] /\ issued \in [Player -> Nat]
        /\ localStatus \in [Player -> Statuses] /\ frameData[p][p] \in Ring
    BY DEF AnnounceInv, TypeInv, TypeOK, Ring
  <2> QED
    BY <2>1, <2>2, <2>3
<1>2. /\ lastFrameCompleted[p] < exec /\ frame[p] < exec /\ exec \in Nat
      /\ exec >= lastExecutionFrame[p] /\ exec <= frame[p] + MaxRunAhead
      /\ LastAnnounced(p) = lastFrameCompleted[p]
  BY <1>1, ExecutionFrameAhead, WindowFacts
<1>3. /\ cmd \in Command /\ cmd.player = p /\ cmd.frame = exec + 1
      /\ cmd.id = issued[p] + 1 /\ cmd.type # "FRAMEINFO"
  BY <1>1, <1>2 DEF Cmd, Command, CommandTypes
<1>4. /\ frameData' = [frameData EXCEPT ![p][p] = ring]
      /\ created' = created \cup {cmd}
      /\ net' = net \cup SendLocal(p, Player, cmd) \cup infos
      /\ lastExecutionFrame' = [lastExecutionFrame EXCEPT ![p] = exec]
      /\ lastFrameCompleted' = [lastFrameCompleted EXCEPT ![p] = exec]
      /\ issued' = [issued EXCEPT ![p] = issued[p] + 1]
      /\ localStatus' = [localStatus EXCEPT ![p] = "LEAVING"]
      /\ UNCHANGED <<frame, runAhead, lastFrame, inGame, executed>>
      /\ ring = AddNetCommandMsg(TRUE, frameData[p][p], cmd)
  BY DEF LeaveGame
<1> HIDE DEF exec, cmd, ring
<1>5. cmd.frame \in Window(p) /\ cmd.frame > lastFrameCompleted[p] /\ frames \subseteq Window(p)
  <2>1. \A f \in frames : f \in Nat /\ f >= frame[p] /\ f >= 1 /\ f <= frame[p] + MaxRunAhead + 1
    BY <1>1, <1>2, ConstantFacts
  <2>2. frames \subseteq Window(p)
    BY <2>1, WindowFacts
  <2> QED
    BY <1>1, <1>2, <1>3, <2>2
<1>6. /\ \A q \in Player : OwnRingOK(q)'
      /\ \A f \in Window(p) : Holds(ring[SlotOf(f)], CommandsOf(p, f)')
      /\ \A q \in Player : \A f \in Nat :
            f <= LastAnnounced(q) => CommandsOf(q, f)' = CommandsOf(q, f)
  <2>1. \A q \in Player : frameData'[q][q] = IF q = p THEN ring ELSE frameData[q][q]
    BY <1>1, <1>4 DEF TypeInv, TypeOK
  <2>2. /\ ring = AddNetCommandMsg(TRUE, frameData[p][p], cmd)
        /\ created' = created \cup {cmd} /\ frame' = frame
    BY <1>4
  <2> QED
    BY <1>1, <1>3, <1>5, <2>1, <2>2, CreateKeeps
<1>7. \A h \in SendLocal(p, Player, cmd) : h.cmd = cmd /\ h.dst # p /\ p \notin h.relay
  <2>1. \A h \in SendLocal(p, Player, cmd) : h.dst # p /\ p \notin h.relay
    BY <1>1, SendLocalNotToSelf, Player \in SUBSET Player, localStatus[p] # "LEFT"
  <2>2. \A h \in SendLocal(p, Player, cmd) : h.cmd = cmd
    BY <1>1, <1>3, CreateTypes, localStatus[p] # "LEFT"
  <2> QED
    BY <2>1, <2>2
<1>8. \A h \in infos : /\ \E f \in frames : h.cmd = FrameInfo(p, f, ring)
                       /\ h.cmd.player = p /\ h.dst # p /\ p \notin h.relay
  <2>1. ring \in Ring /\ frames \in SUBSET Nat /\ localStatus[p] # "LEFT"
    <3>1. localStatus[p] # "LEFT"
      BY <1>1
    <3>2. AddNetCommandMsg(TRUE, frameData[p][p], cmd) \in Ring
      BY <1>1, <1>3, <3>1, CreateTypes
    <3>3. frames \in SUBSET Nat
      BY <1>2
    <3> QED
      BY <1>4, <3>1, <3>2, <3>3
  <2>2. \A h \in infos : \E f \in frames : h.cmd = FrameInfo(p, f, ring)
    BY <1>1, <2>1, AnnounceTypes
  <2>3. \A h \in infos : h.dst # p /\ p \notin h.relay
    BY <1>1, <2>1, AnnounceNotToSelf
  <2>4. \A f \in frames : FrameInfo(p, f, ring).player = p
    BY DEF FrameInfo, Cmd
  <2> HIDE DEF infos, frames
  <2> QED
    BY <2>2, <2>3, <2>4
<1> HIDE DEF infos
<1>9. NotToSelf'
  BY <1>3, <1>4, <1>7, <1>8 DEF AnnounceInv, NotToSelf
<1>10. /\ \A q \in Player : LastAnnounced(q) <= LastAnnounced(q)' /\ LastAnnounced(q)' \in Nat
       /\ LastAnnounced(p)' = exec + 1
  <2> SUFFICES ASSUME NEW q \in Player
               PROVE  /\ LastAnnounced(q) <= LastAnnounced(q)' /\ LastAnnounced(q)' \in Nat
                      /\ q = p => LastAnnounced(q)' = exec + 1
    OBVIOUS
  <2>1. CASE q = p
    BY <1>1, <1>2, <1>4, <2>1 DEF LastAnnounced, Leaving
  <2>2. CASE q # p
    BY <1>1, <1>4, <2>2 DEF LastAnnounced, Leaving
  <2> QED
    BY <2>1, <2>2
<1>11. AnnouncedOK' /\ AnnouncedCountIsFinal'
  <2>1. \A f \in frames : /\ ring[SlotOf(f)].commandCount = Cardinality(CommandsOf(p, f)')
                          /\ f <= LastAnnounced(p)'
    <3> SUFFICES ASSUME NEW f \in frames
                 PROVE  /\ ring[SlotOf(f)].commandCount = Cardinality(CommandsOf(p, f)')
                        /\ f <= LastAnnounced(p)'
      OBVIOUS
    <3>1. Holds(ring[SlotOf(f)], CommandsOf(p, f)')
      BY <1>5, <1>6
    <3>2. f <= LastAnnounced(p)'
      BY <1>2, <1>10
    <3> QED
      BY <3>1, <3>2 DEF Holds
  <2>2. \A h \in net' : \/ \E g \in net : h.cmd = g.cmd
                        \/ h.cmd.type # "FRAMEINFO"
                        \/ \E f \in frames : h.cmd = FrameInfo(p, f, ring)
    BY <1>3, <1>4, <1>7, <1>8
  <2>3. frames \in SUBSET Nat
    BY <1>2
  <2>4. \A q \in Player : LastAnnounced(q) <= LastAnnounced(q)' /\ LastAnnounced(q)' \in Nat
    BY <1>10
  <2>5. \A q \in Player : \A f \in Nat :
           f <= LastAnnounced(q) => CommandsOf(q, f)' = CommandsOf(q, f)
    BY <1>6
  <2> HIDE DEF frames
  <2> QED
    BY <2>1, <2>2, <2>3, <2>4, <2>5, CountsKept
<1>12. \A q \in Player : ClockOK(q)'
  <2> SUFFICES ASSUME NEW q \in Player PROVE ClockOK(q)'
    OBVIOUS
  <2>1. ClockOK(q)
    BY DEF AnnounceInv
  <2>2. CASE q = p
    <3>1. /\ lastExecutionFrame'[p] = exec /\ lastFrameCompleted'[p] = exec
          /\ localStatus'[p] = "LEAVING" /\ frame'[p] = frame[p]
      BY <1>1, <1>4
    <3> QED
      BY <1>1, <1>2, <2>2, <3>1, ConstantFacts DEF ClockOK, Leaving
  <2>3. CASE q # p
    BY <1>1, <1>4, <2>1, <2>3 DEF ClockOK, Leaving
  <2> QED
    BY <2>2, <2>3
<1>13. CreatedOK'
  <2>1. IsFiniteSet(created')
    BY <1>4, FS_AddElement DEF AnnounceInv, CreatedOK
  <2>2. /\ LastCreated(p)' = exec + 1 /\ issued'[p] = issued[p] + 1
        /\ LastCreated(p) = lastExecutionFrame[p] + 1
    BY <1>1, <1>4 DEF LastCreated
  <2>3. ASSUME NEW c \in created'
        PROVE  c.frame <= LastCreated(c.player)' /\ c.id <= issued'[c.player]
    <3>1. CASE c = cmd
      BY <1>1, <1>2, <1>3, <2>2, <3>1
    <3>2. CASE c \in created
      <4>1. /\ c.player \in Player /\ c.frame \in Nat /\ c.id \in Nat
            /\ c.frame <= LastCreated(c.player) /\ c.id <= issued[c.player]
        BY <3>2 DEF AnnounceInv, CreatedOK, TypeInv, TypeOK, Command
      <4>2. CASE c.player = p
        BY <1>1, <1>2, <2>2, <4>1, <4>2
      <4>3. CASE c.player # p
        BY <1>1, <1>4, <4>1, <4>3 DEF LastCreated, Leaving
      <4> QED
        BY <4>2, <4>3
    <3> QED
      BY <1>4, <3>1, <3>2
  <2> QED
    BY <2>1, <2>3 DEF CreatedOK
<1> QED
  BY <1>1, <1>6, <1>9, <1>11, <1>12, <1>13 DEF AnnounceInv

(* Executing a frame: the window moves on by one frame, which nobody has    *)
(* created a command for and whose slot has just been reset.                *)
LEMMA AnnounceExecuteFrame ==
    ASSUME AnnounceInv, NEW p \in Player, ExecuteFrame(p) PROVE AnnounceInv'
<1> DEFINE leaving == {c.player : c \in {d \in FrameCommands(p) : d.type = "LEAVE"}}
           left == inGame[p] \ leaving
           newRouter == CHOOSE q \in left : \A r \in left : q <= r
           resent == ResendPending(p, Router(p), newRouter, left \ {p})
<1>1. /\ frame \in [Player -> Nat] /\ lastFrameCompleted \in [Player -> Nat]
      /\ lastExecutionFrame \in [Player -> Nat] /\ localStatus \in [Player -> Statuses]
      /\ TypeInv /\ TypeInv'
  BY TypeExecuteFrame DEF AnnounceInv, TypeInv, TypeOK
<1>2. /\ localStatus[p] \in {"INGAME", "LEAVING"} /\ lastFrame[p] = frame[p]
      /\ frame' = [frame EXCEPT ![p] = frame[p] + 1]
      /\ localStatus' = localStatus \/ localStatus' = [localStatus EXCEPT ![p] = "LEFT"]
      /\ frameData' = [frameData EXCEPT ![p] = ClearOldFrame(p, frameData[p])]
      /\ net' = net \/ (p \notin leaving /\ net' = net \cup resent)
      /\ \A q \in Player : q # p => runAhead'[q] = runAhead[q]
      /\ UNCHANGED <<lastExecutionFrame, lastFrameCompleted, lastFrame, issued, created>>
  BY <1>1 DEF ExecuteFrame, TypeInv, TypeOK
<1>3. left \in SUBSET Player /\ (p \notin leaving => p \in left)
  BY <1>1, <1>2 DEF TypeInv, TypeOK, NotAlone
<1> HIDE DEF leaving, left
<1>4. p \notin leaving => newRouter \in Player
  <2> SUFFICES ASSUME p \notin leaving PROVE newRouter \in Player
    OBVIOUS
  <2>1. \E q \in left : \A r \in left : q <= r
    BY <1>3, FirstPlayer
  <2>2. newRouter \in left
    BY <2>1, Zenon
  <2> QED
    BY <1>3, <2>2
<1> HIDE DEF newRouter
<1>5. p \notin leaving =>
        \A h \in resent : /\ \E g \in net : h.cmd = g.cmd
                          /\ h.cmd.player = p /\ h.dst # p /\ p \notin h.relay
  <2> SUFFICES ASSUME p \notin leaving, NEW h \in resent
               PROVE  /\ \E g \in net : h.cmd = g.cmd
                      /\ h.cmd.player = p /\ h.dst # p /\ p \notin h.relay
    OBVIOUS
  <2> DEFINE peers == left \ {p}
  <2>1. newRouter \in Player /\ peers \in SUBSET Player /\ p \notin peers
    BY <1>3, <1>4
  <2>2. h \in ResendPending(p, Router(p), newRouter, peers)
    OBVIOUS
  <2> HIDE DEF peers, resent
  <2>3. PICK g \in net : /\ g.cmd.player = p /\ h.cmd = g.cmd
                         /\ h \in SendVia(p, newRouter, g.relay, peers, g.cmd)
    BY <1>1, <2>1, <2>2, ResendTypes
  <2>4. g.relay \in SUBSET Player
    BY <1>1 DEF TypeInv, TypeOK, Hops
  <2>5. h.dst # p /\ p \notin h.relay
    BY <2>1, <2>3, <2>4, SendNotToSelf
  <2> QED
    BY <2>3, <2>5
<1> HIDE DEF resent
<1>6. NotToSelf'
  BY <1>2, <1>5 DEF AnnounceInv, NotToSelf
<1>7. \A q \in Player : /\ LastAnnounced(q) <= LastAnnounced(q)' /\ LastAnnounced(q)' \in Nat
                        /\ LastCreated(q) <= LastCreated(q)'
                        /\ LastCreated(q) \in Nat /\ LastCreated(q)' \in Nat
  BY <1>1, <1>2 DEF LastAnnounced, LastCreated, Leaving
<1>8. AnnouncedOK' /\ AnnouncedCountIsFinal'
  BY <1>2, <1>5, <1>7, AnnouncementsKept
<1>9. CreatedOK'
  <2>1. \A c \in created : c.player \in Player /\ c.frame \in Nat
    BY <1>1 DEF TypeInv, TypeOK, Command
  <2> QED
    BY <1>2, <1>7, <2>1 DEF AnnounceInv, CreatedOK
<1>10. \A q \in Player : ClockOK(q)'
  <2> SUFFICES ASSUME NEW q \in Player PROVE ClockOK(q)'
    OBVIOUS
  <2>1. ClockOK(q)
    BY DEF AnnounceInv
  <2>2. CASE q = p
    <3>1. frame'[p] = frame[p] + 1 /\ (localStatus'[p] = localStatus[p] \/ localStatus'[p] = "LEFT")
      BY <1>1, <1>2
    <3>2. frame[p] \in Nat /\ lastFrameCompleted[p] \in Nat /\ lastExecutionFrame[p] \in Nat
      BY <1>1
    <3> QED
      BY <1>2, <2>1, <2>2, <3>1, <3>2, ConstantFacts DEF ClockOK, Leaving
  <2>3. CASE q # p
    BY <1>1, <1>2, <2>1, <2>3 DEF ClockOK, Leaving
  <2> QED
    BY <2>2, <2>3
<1>11. ASSUME NEW q \in Player PROVE OwnRingOK(q)'
  <2>1. \A f : CommandsOf(q, f)' = CommandsOf(q, f)
    BY <1>2 DEF CommandsOf
  <2>2. OwnRingOK(q)
    BY DEF AnnounceInv
  <2>3. frameData \in [Player -> [Player -> Ring]]
    BY <1>1 DEF TypeInv, TypeOK, Ring
  <2>4. CASE q # p
    <3>1. frameData'[q][q] = frameData[q][q] /\ Window(q)' = Window(q)
      BY <1>1, <1>2, <2>3, <2>4 DEF Window, OldestKept
    <3> QED
      BY <2>1, <2>2, <3>1 DEF OwnRingOK
  <2>5. CASE q = p /\ ~(frame[p] > FramesToKeep)
    <3>1. frameData'[q][q] = frameData[q][q]
      BY <1>2, <2>3, <2>5 DEF ClearOldFrame
    <3>2. Window(q)' = Window(q)
      BY <1>1, <1>2, <2>5, ConstantFacts DEF Window, OldestKept
    <3> QED
      BY <2>1, <2>2, <3>1, <3>2 DEF OwnRingOK
  <2>6. CASE q = p /\ frame[p] > FramesToKeep
    <3> DEFINE old == frame[p] - FramesToKeep
               n == FrameDataLength
    <3>1. old = OldestKept(p) /\ OldestKept(p)' = old + 1 /\ old \in Nat /\ n \in Nat \ {0}
      BY <1>1, <1>2, <2>6, ConstantFacts DEF OldestKept
    <3>2. frameData'[p][p] = ResetFrame(TRUE, frameData[p][p], old)
      BY <1>2, <2>3, <2>6 DEF ClearOldFrame
    <3> SUFFICES ASSUME NEW f \in Window(p)'
                 PROVE  Holds(frameData'[p][p][SlotOf(f)], CommandsOf(p, f))
      BY <2>1, <2>6 DEF OwnRingOK
    <3>3. f \in Nat /\ f >= old + 1 /\ f <= old + n /\ SlotOf(f) \in SlotIndex
          /\ SlotOf(old) \in SlotIndex
      <4>1. f \in Nat /\ f >= old + 1 /\ f <= old + n
        BY <3>1 DEF Window
      <4> QED
        BY <4>1, <3>1, SlotOfType
    <3>4. frameData'[p][p][SlotOf(f)] =
            IF SlotOf(f) = SlotOf(old) THEN CountIfLocal(TRUE, EmptyFrame)
            ELSE frameData[p][p][SlotOf(f)]
      BY <2>3, <3>2, <3>3 DEF ResetFrame, Ring
    <3>5. CASE f = old + n
      <4>1. SlotOf(f) = SlotOf(old)
        BY <3>1, <3>5, SlotShift
      <4>2. CommandsOf(p, f) = {}
        <5> SUFFICES ASSUME NEW c \in created, c.player = p, c.frame = f PROVE FALSE
          BY DEF CommandsOf
        <5>1. f <= LastCreated(p) /\ LastCreated(p) <= frame[p] + MaxRunAhead + 1
          <6>1. f <= LastCreated(p)
            BY DEF AnnounceInv, CreatedOK
          <6>2. lastExecutionFrame[p] <= frame[p] + MaxRunAhead
            BY DEF AnnounceInv, ClockOK
          <6>3. frame[p] \in Nat /\ lastExecutionFrame[p] \in Nat
            BY <1>1
          <6> QED
            BY <6>1, <6>2, <6>3, ConstantFacts DEF LastCreated
        <5> QED
          BY <1>1, <1>7, <3>1, <3>3, <3>5, <5>1, ConstantFacts
      <4> QED
        BY <3>4, <4>1, <4>2, HoldsNothing
    <3>6. CASE f # old + n
      <4>1. f \in Window(p) /\ old \in Window(p) /\ f # old
        BY <3>1, <3>3, <3>6 DEF Window
      <4>2. SlotOf(f) # SlotOf(old)
        BY <4>1, WindowFacts
      <4> QED
        BY <2>2, <2>6, <3>4, <4>1, <4>2 DEF OwnRingOK
    <3> QED
      BY <3>5, <3>6
  <2> QED
    BY <2>4, <2>5, <2>6
<1> QED
  BY <1>1, <1>6, <1>8, <1>9, <1>10, <1>11 DEF AnnounceInv

LEMMA AnnounceStep == AnnounceInv /\ [Next]_vars => AnnounceInv'
<1> SUFFICES ASSUME AnnounceInv, [Next]_vars PROVE AnnounceInv'
  OBVIOUS
<1>1. ASSUME NEW p \in Player, StartGame(p) PROVE AnnounceInv'
  BY <1>1, AnnounceStartGame
<1>2. ASSUME NEW p \in Player, ProcessFrameTick(p) PROVE AnnounceInv'
  BY <1>2, AnnounceProcessFrameTick
<1>3. TypeInv'
  BY TypeStep DEF AnnounceInv
<1>4. ASSUME NEW p \in Player, IssueGameCommand(p) PROVE AnnounceInv'
  <2>1. localStatus[p] = "INGAME" /\ 0 \in Nat
    BY <1>4 DEF IssueGameCommand
  <2>2. IssueLocal(p, "GAME", ExecutionFrame(p), ExecutionFrame(p), 0)
    BY <1>4 DEF IssueGameCommand
  <2>3. UNCHANGED <<frame, runAhead, lastFrameCompleted, lastFrame, localStatus,
                    inGame, executed>>
    BY <1>4 DEF IssueGameCommand
  <2> QED
    BY <1>3, <2>1, <2>2, <2>3, AnnounceIssueLocal
<1>5. ASSUME NEW p \in Player, NEW ra \in MinRunAhead .. MaxRunAhead, UpdateRunAhead(p, ra)
      PROVE  AnnounceInv'
  <2>1. localStatus[p] = "INGAME" /\ ra \in Nat
    BY <1>5, ConstantFacts DEF UpdateRunAhead
  <2>2. IssueLocal(p, "RUNAHEAD", ExecutionFrame(p), ExecutionFrame(p), ra)
    BY <1>5 DEF UpdateRunAhead
  <2>3. UNCHANGED <<frame, runAhead, lastFrameCompleted, lastFrame, localStatus,
                    inGame, executed>>
    BY <1>5 DEF UpdateRunAhead
  <2> QED
    BY <1>3, <2>1, <2>2, <2>3, AnnounceIssueLocal
<1>6. ASSUME NEW p \in Player, LeaveGame(p) PROVE AnnounceInv'
  BY <1>6, AnnounceLeaveGame
<1>7. ASSUME NEW p \in Player, NEW h \in net, Receive(p, h) PROVE AnnounceInv'
  BY <1>7, AnnounceReceive
<1>8. ASSUME NEW p \in Player, ExecuteFrame(p) PROVE AnnounceInv'
  BY <1>8, AnnounceExecuteFrame
<1>9. CASE UNCHANGED vars
  BY <1>3, <1>9 DEF vars, AnnounceInv, ClockOK, CreatedOK, NotToSelf, AnnouncedOK, OwnRingOK,
                    AnnouncedCountIsFinal, CommandsOf, Window, OldestKept, LastAnnounced,
                    LastCreated, Leaving
<1> QED
  BY <1>1, <1>2, <1>4, <1>5, <1>6, <1>7, <1>8, <1>9 DEF Next, PlayerStep

(* A count that was announced is final: whatever the run-ahead does and     *)
(* whoever leaves, no command is created for a frame after processFrameTick *)
(* has sent how many there are.                                             *)
THEOREM AnnouncedCountsFinal == Spec => []AnnouncedCountIsFinal
<1>1. AnnounceInv => AnnouncedCountIsFinal
  BY DEF AnnounceInv
<1> QED
  BY <1>1, AnnounceInit, AnnounceStep, PTL DEF Spec

=============================================================================
