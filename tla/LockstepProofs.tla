--------------------------- MODULE LockstepProofs ---------------------------
(***************************************************************************)
(* Theorems about the lockstep protocol, for every number of players,      *)
(* run-ahead, buffer length and bound, and their proofs.                   *)
(***************************************************************************)
EXTENDS Lockstep, FiniteSetTheorems, WellFoundedInduction, TLAPS

-----------------------------------------------------------------------------
(* Constants. *)

LEMMA ConstantFacts ==
    /\ N \in Nat \ {0} /\ Player \subseteq Nat /\ 0 \in Player
    /\ MinRunAhead \in Nat \ {0} /\ MaxRunAhead \in Nat
    /\ MinRunAhead <= MaxRunAhead
    /\ InitialRunAhead \in MinRunAhead .. MaxRunAhead
    /\ FramesToKeep \in Nat /\ FrameDataLength \in Nat \ {0}
    /\ FrameDataLength >= FramesToKeep + 2 * MaxRunAhead + 3
BY PlayersAssumption, RunAheadAssumption, BoundsAssumption,
   FrameDataLengthAssumption, RingAssumption DEF Player

(* A slot of the ring is a slot. *)
LEMMA SlotOfType == \A f \in Nat : SlotOf(f) \in SlotIndex
BY ConstantFacts DEF SlotOf, SlotIndex

(* The remaining players have a first one. *)
LEMMA FirstPlayer ==
    ASSUME NEW S \in SUBSET Player, S # {}
    PROVE  \E q \in S : \A r \in S : q <= r
<1>1. S \subseteq Nat
  BY ConstantFacts
<1>2. \E q \in S : \A r \in S : ~(<<r, q>> \in OpToRel(<, Nat))
  BY <1>1, WFMin, NatLessThanWellFounded, Zenon
<1>3. \A q, r \in S : ~(<<r, q>> \in OpToRel(<, Nat)) => ~(r < q)
  BY <1>1, Zenon DEF OpToRel
<1>4. PICK q \in S : \A r \in S : ~(r < q)
  BY <1>2, <1>3
<1>5. \A r \in S : q <= r
  BY <1>1, <1>4
<1> QED
  BY <1>5

-----------------------------------------------------------------------------
(* The operators on frames and rings keep their types. *)

Ring == [SlotIndex -> FrameDataType]

LEMMA FrameTypes ==
    ASSUME NEW fd \in FrameDataType, NEW cmd \in Command, NEW count \in Nat,
           NEW isLocal \in BOOLEAN
    PROVE  /\ EmptyFrame \in FrameDataType
           /\ AddCommand(fd, cmd) \in FrameDataType
           /\ SetFrameCommandCount(fd, count) \in FrameDataType
           /\ CountIfLocal(isLocal, fd) \in FrameDataType
           /\ ZeroFrame(fd) \in FrameDataType
<1>1. EmptyFrame \in FrameDataType
  BY DEF EmptyFrame, FrameDataType, Unknown
<1>2. AddCommand(fd, cmd) \in FrameDataType
  <2>1. \A S \in SUBSET Command : \A n \in Nat :
          [fd EXCEPT !.cmds = S, !.commandCount = n] \in FrameDataType
    BY DEF FrameDataType
  <2>2. /\ fd.cmds \cup {cmd} \in SUBSET Command
        /\ fd.commandCount + 1 \in Nat
    BY DEF FrameDataType
  <2> QED
    BY <2>1, <2>2 DEF AddCommand
<1>3. SetFrameCommandCount(fd, count) \in FrameDataType
  BY DEF SetFrameCommandCount, FrameDataType
<1>4. CountIfLocal(isLocal, fd) \in FrameDataType
  BY DEF CountIfLocal, SetFrameCommandCount, FrameDataType
<1>5. ZeroFrame(fd) \in FrameDataType
  BY DEF ZeroFrame, FrameDataType
<1> QED
  BY <1>1, <1>2, <1>3, <1>4, <1>5

LEMMA RingTypes ==
    ASSUME NEW ring \in Ring, NEW cmd \in Command, NEW f \in Nat, NEW count \in Nat,
           NEW isLocal \in BOOLEAN
    PROVE  /\ AddNetCommandMsg(isLocal, ring, cmd) \in Ring
           /\ SetCount(ring, f, count) \in Ring
           /\ ResetFrame(isLocal, ring, f) \in Ring
           /\ EmptyRing(isLocal) \in Ring
           /\ \A n \in Int : ZeroFrames(ring, f, n) \in Ring
<1>1. cmd.frame \in Nat
  BY DEF Command
<1>2. \A i \in SlotIndex : ring[i] \in FrameDataType
  BY DEF Ring
<1>3. AddNetCommandMsg(isLocal, ring, cmd) \in Ring
  BY <1>1, <1>2, SlotOfType, FrameTypes DEF AddNetCommandMsg, Ring
<1>4. SetCount(ring, f, count) \in Ring
  BY <1>2, SlotOfType, FrameTypes DEF SetCount, Ring
<1>5. /\ ResetFrame(isLocal, ring, f) \in Ring
      /\ EmptyRing(isLocal) \in Ring
  BY <1>2, SlotOfType, FrameTypes DEF ResetFrame, EmptyRing, Ring
<1>6. \A n \in Int : ZeroFrames(ring, f, n) \in Ring
  BY <1>2, FrameTypes DEF ZeroFrames, Ring
<1> QED
  BY <1>3, <1>4, <1>5, <1>6

(* What the operators do to the commands a frame or a ring holds. *)

LEMMA FrameContents ==
    ASSUME NEW fd \in FrameDataType, NEW cmd \in Command, NEW count \in Nat,
           NEW isLocal \in BOOLEAN
    PROVE  /\ AddCommand(fd, cmd).cmds = fd.cmds \/ AddCommand(fd, cmd).cmds = fd.cmds \cup {cmd}
           /\ SetFrameCommandCount(fd, count).cmds = fd.cmds
           /\ CountIfLocal(isLocal, fd).cmds = fd.cmds
           /\ CountIfLocal(isLocal, fd).commandCount = fd.commandCount
           /\ ZeroFrame(fd).cmds = fd.cmds
BY DEF FrameDataType, AddCommand, SetFrameCommandCount, CountIfLocal, ZeroFrame

LEMMA RingContents ==
    ASSUME NEW ring \in Ring, NEW cmd \in Command, NEW f \in Nat, NEW count \in Nat,
           NEW isLocal \in BOOLEAN, NEW i \in SlotIndex
    PROVE  /\ AddNetCommandMsg(isLocal, ring, cmd)[i].cmds \subseteq ring[i].cmds \cup {cmd}
           /\ SetCount(ring, f, count)[i].cmds = ring[i].cmds
           /\ ResetFrame(isLocal, ring, f)[i].cmds \subseteq ring[i].cmds
           /\ EmptyRing(isLocal)[i].cmds = {}
           /\ \A n \in Int : ZeroFrames(ring, f, n)[i].cmds = ring[i].cmds
<1>1. cmd.frame \in Nat
  BY DEF Command
<1>2. \A j \in SlotIndex : ring[j] \in FrameDataType
  BY DEF Ring
<1>3. EmptyFrame \in FrameDataType /\ EmptyFrame.cmds = {}
  BY FrameTypes, <1>2 DEF EmptyFrame
<1>4. \A j \in SlotIndex :
         /\ AddCommand(ring[j], cmd) \in FrameDataType
         /\ CountIfLocal(isLocal, AddCommand(ring[j], cmd)).cmds \subseteq ring[j].cmds \cup {cmd}
  BY SMTT(30), <1>2, FrameTypes, FrameContents
<1>5. AddNetCommandMsg(isLocal, ring, cmd)[i].cmds \subseteq ring[i].cmds \cup {cmd}
  BY <1>1, <1>4, SlotOfType DEF AddNetCommandMsg, Ring
<1>6. SetCount(ring, f, count)[i].cmds = ring[i].cmds
  BY <1>2, SlotOfType, FrameContents DEF SetCount, Ring
<1>7. /\ ResetFrame(isLocal, ring, f)[i].cmds \subseteq ring[i].cmds
      /\ EmptyRing(isLocal)[i].cmds = {}
  BY <1>2, <1>3, SlotOfType, FrameContents DEF ResetFrame, EmptyRing, Ring
<1>8. \A n \in Int : ZeroFrames(ring, f, n)[i].cmds = ring[i].cmds
  BY <1>2, FrameContents DEF ZeroFrames, Ring
<1> QED
  BY <1>5, <1>6, <1>7, <1>8

(* Storing a command adds at most that command. *)
LEMMA StoreContents ==
    ASSUME NEW ring \in Ring, NEW cmd \in Command, NEW isLocal \in BOOLEAN
    PROVE  \A i \in SlotIndex :
              AddNetCommandMsg(isLocal, ring, cmd)[i].cmds \subseteq ring[i].cmds \cup {cmd}
<1>1. 0 \in Nat
  OBVIOUS
<1> QED
  BY <1>1, RingContents

(* Setting a count leaves the commands alone. *)
LEMMA SetCountRing ==
    ASSUME NEW ring \in Ring, NEW f \in Nat, NEW count \in Nat
    PROVE  \A i \in SlotIndex : SetCount(ring, f, count)[i].cmds = ring[i].cmds
BY SlotOfType DEF SetCount, SetFrameCommandCount, Ring, FrameDataType

(* What ResetFrame leaves of a ring. *)
LEMMA ResetFrameRing ==
    ASSUME NEW ring \in Ring, NEW f \in Nat, NEW isLocal \in BOOLEAN
    PROVE  /\ ResetFrame(isLocal, ring, f) \in Ring
           /\ \A i \in SlotIndex :
                 ResetFrame(isLocal, ring, f)[i].cmds \subseteq ring[i].cmds
<1>1. EmptyFrame \in FrameDataType /\ EmptyFrame.cmds = {}
  BY DEF EmptyFrame, FrameDataType, Unknown
<1>2. /\ CountIfLocal(isLocal, EmptyFrame) \in FrameDataType
      /\ CountIfLocal(isLocal, EmptyFrame).cmds = {}
  BY <1>1 DEF CountIfLocal, SetFrameCommandCount, FrameDataType
<1> QED
  BY <1>2, SlotOfType DEF ResetFrame, Ring

-----------------------------------------------------------------------------
(* Sending. *)

(* What a player sends directly goes to players and carries cmd. *)
LEMMA DirectTypes ==
    ASSUME NEW p \in Player, NEW relay \in SUBSET Player,
           NEW peers \in SUBSET Player, NEW cmd \in Command
    PROVE  /\ Direct(p, relay, peers, cmd) \subseteq Hops
           /\ \A h \in Direct(p, relay, peers, cmd) : h.cmd = cmd
<1>1. ASSUME NEW h \in Direct(p, relay, peers, cmd)
      PROVE  h \in Hops /\ h.cmd = cmd
  <2>1. PICK i \in relay \cap peers : h = Hop(p, i, {i}, cmd)
    BY DEF Direct
  <2>2. i \in Player /\ {i} \in SUBSET Player
    OBVIOUS
  <2> QED
    BY <2>1, <2>2 DEF Hop, Hops
<1> QED
  BY <1>1

(* The same of what is sent through the router. *)
LEMMA SendTypes ==
    ASSUME NEW p \in Player, NEW router \in Player, NEW relay \in SUBSET Player,
           NEW peers \in SUBSET Player, NEW cmd \in Command
    PROVE  /\ SendVia(p, router, relay, peers, cmd) \subseteq Hops
           /\ \A h \in SendVia(p, router, relay, peers, cmd) : h.cmd = cmd
<1>1. \A d \in Player, r \in SUBSET Player :
         Hop(p, d, r, cmd) \in Hops /\ Hop(p, d, r, cmd).cmd = cmd
  BY DEF Hop, Hops
<1>2. /\ Direct(p, relay, peers, cmd) \subseteq Hops
      /\ \A h \in Direct(p, relay, peers, cmd) : h.cmd = cmd
  BY DirectTypes
<1>3. relay \ {p} \in SUBSET Player
  OBVIOUS
<1> QED
  BY <1>1, <1>2, <1>3 DEF SendVia

(* A player that is still in its own game has a router. *)
LEMMA RouterType ==
    ASSUME NEW p \in Player, inGame \in [Player -> SUBSET Player], p \in inGame[p]
    PROVE  Router(p) \in inGame[p] /\ Router(p) \in Player
<1>1. \E q \in inGame[p] : \A r \in inGame[p] : q <= r
  BY FirstPlayer
<1> QED
  BY <1>1, Zenon DEF Router

LEMMA SendLocalTypes ==
    ASSUME NEW p \in Player, NEW relay \in SUBSET Player, NEW cmd \in Command,
           Router(p) \in Player, Peers(p) \in SUBSET Player
    PROVE  /\ SendLocal(p, relay, cmd) \subseteq Hops
           /\ \A h \in SendLocal(p, relay, cmd) : h.cmd = cmd
<1>1. SendLocal(p, relay, cmd) = SendVia(p, Router(p), relay, Peers(p), cmd)
  BY DEF SendLocal
<1> DEFINE router == Router(p)
           peers == Peers(p)
<1>2. router \in Player /\ peers \in SUBSET Player
  OBVIOUS
<1>3. SendLocal(p, relay, cmd) = SendVia(p, router, relay, peers, cmd)
  BY <1>1
<1> HIDE DEF router, peers
<1>4. /\ SendVia(p, router, relay, peers, cmd) \subseteq Hops
      /\ \A h \in SendVia(p, router, relay, peers, cmd) : h.cmd = cmd
  BY <1>2, SendTypes
<1> QED
  BY <1>3, <1>4

-----------------------------------------------------------------------------
(* Type correctness.  The types alone are not inductive: the router of a    *)
(* player exists because the player itself has not left, and a new run-     *)
(* ahead is in range because the commands of a frame are commands that were *)
(* created, of which one has the largest ID.                                *)

NotAlone == \A p \in Player : localStatus[p] # "LEFT" => p \in inGame[p]

Stored ==
    \A p, q \in Player : \A i \in SlotIndex :
        frameData[p][q][i].cmds \subseteq {c \in created : c.player = q}

Sent == \A h \in net : h.cmd.type # "FRAMEINFO" => h.cmd \in created

IdsBounded == \E b \in Nat : \A c \in created : c.id <= b

TypeInv == TypeOK /\ NotAlone /\ Stored /\ Sent /\ IdsBounded

LEMMA TypeInit == Init => TypeInv
<1> SUFFICES ASSUME Init PROVE TypeInv
  OBVIOUS
<1> USE ConstantFacts
<1>1. \A isLocal \in BOOLEAN :
         /\ EmptyRing(isLocal) \in Ring
         /\ \A i \in SlotIndex : EmptyRing(isLocal)[i].cmds = {}
  <2> SUFFICES ASSUME NEW isLocal \in BOOLEAN
               PROVE  /\ EmptyRing(isLocal) \in Ring
                      /\ \A i \in SlotIndex : EmptyRing(isLocal)[i].cmds = {}
    OBVIOUS
  <2>1. EmptyFrame \in FrameDataType /\ EmptyFrame.cmds = {}
    BY DEF EmptyFrame, FrameDataType, Unknown
  <2>2. CountIfLocal(isLocal, EmptyFrame) \in FrameDataType
        /\ CountIfLocal(isLocal, EmptyFrame).cmds = {}
    BY <2>1 DEF CountIfLocal, SetFrameCommandCount, FrameDataType
  <2> QED
    BY <2>2 DEF EmptyRing, Ring
<1>2. \A isLocal \in BOOLEAN :
         LET ring == ZeroFrames(EmptyRing(isLocal), 1, InitialRunAhead - 1)
         IN  ring \in Ring /\ \A i \in SlotIndex : ring[i].cmds = {}
  <2> SUFFICES ASSUME NEW isLocal \in BOOLEAN
               PROVE  LET ring == ZeroFrames(EmptyRing(isLocal), 1, InitialRunAhead - 1)
                      IN  ring \in Ring /\ \A i \in SlotIndex : ring[i].cmds = {}
    OBVIOUS
  <2>1. \A fd \in FrameDataType : ZeroFrame(fd) \in FrameDataType /\ ZeroFrame(fd).cmds = fd.cmds
    BY DEF ZeroFrame, FrameDataType
  <2>2. \A i \in SlotIndex : EmptyRing(isLocal)[i] \in FrameDataType
    BY <1>1 DEF Ring
  <2> QED
    BY <1>1, <2>1, <2>2 DEF ZeroFrames, Ring
<1>3. \A p, q \in Player :
         frameData[p][q] \in Ring /\ \A i \in SlotIndex : frameData[p][q][i].cmds = {}
  BY <1>2 DEF Init
<1>4. frameData \in [Player -> [Player -> [SlotIndex -> FrameDataType]]]
  BY <1>3 DEF Init, Ring
<1>5. executed \in [Player -> Seq(SUBSET Command)]
  BY DEF Init
<1>6. TypeOK
  BY <1>4, <1>5 DEF Init, TypeOK, Statuses
<1>7. NotAlone /\ Sent /\ IdsBounded
  BY DEF Init, NotAlone, Sent, IdsBounded
<1>8. Stored
  BY <1>3 DEF Stored
<1> QED
  BY <1>6, <1>7, <1>8 DEF TypeInv

(* What a player announces: counts, in its own name. *)
LEMMA AnnounceTypes ==
    ASSUME TypeInv, NEW p \in Player, localStatus[p] # "LEFT",
           NEW frames \in SUBSET Nat, NEW ring \in Ring
    PROVE  /\ Announce(p, frames, ring) \subseteq Hops
           /\ \A h \in Announce(p, frames, ring) :
                 \E f \in frames : h.cmd = FrameInfo(p, f, ring)
<1>1. Router(p) \in Player /\ Peers(p) \in SUBSET Player
  BY RouterType DEF TypeInv, TypeOK, NotAlone, Peers
<1>2. \A f \in frames : FrameInfo(p, f, ring) \in Command
  <2> SUFFICES ASSUME NEW f \in frames PROVE FrameInfo(p, f, ring) \in Command
    OBVIOUS
  <2>1. ring[SlotOf(f)].commandCount \in Nat
    BY SlotOfType DEF Ring, FrameDataType
  <2> QED
    BY <2>1 DEF FrameInfo, Cmd, Command, CommandTypes
<1>3. ASSUME NEW h \in Announce(p, frames, ring)
      PROVE  h \in Hops /\ \E f \in frames : h.cmd = FrameInfo(p, f, ring)
  <2>1. PICK f \in frames : h \in SendLocal(p, Player \ {p}, FrameInfo(p, f, ring))
    BY DEF Announce
  <2>2. Player \ {p} \in SUBSET Player
    OBVIOUS
  <2>3. h \in Hops /\ h.cmd = FrameInfo(p, f, ring)
    BY <1>1, <1>2, <2>1, <2>2, SendLocalTypes
  <2> QED
    BY <2>3
<1> QED
  BY <1>3

(* What creating a command does to the player's own ring and to the net. *)
LEMMA CreateTypes ==
    ASSUME TypeInv, NEW p \in Player, localStatus[p] # "LEFT",
           NEW cmd \in Command, cmd.player = p
    PROVE  LET ring == AddNetCommandMsg(TRUE, frameData[p][p], cmd)
           IN  /\ ring \in Ring
               /\ \A i \in SlotIndex :
                     ring[i].cmds \subseteq {c \in created \cup {cmd} : c.player = p}
               /\ SendLocal(p, Player, cmd) \subseteq Hops
               /\ \A h \in SendLocal(p, Player, cmd) : h.cmd = cmd
               /\ created \cup {cmd} \in SUBSET Command
               /\ \E b \in Nat : \A c \in created \cup {cmd} : c.id <= b
<1> DEFINE ring == AddNetCommandMsg(TRUE, frameData[p][p], cmd)
<1>1. frameData[p][p] \in Ring
  BY DEF TypeInv, TypeOK, Ring
<1>2. cmd.frame \in Nat /\ cmd.id \in Nat
  BY DEF Command
<1>3. ring \in Ring
  BY <1>1, <1>2, RingTypes
<1>4. \A i \in SlotIndex : ring[i].cmds \subseteq {c \in created \cup {cmd} : c.player = p}
  <2> SUFFICES ASSUME NEW i \in SlotIndex
               PROVE  ring[i].cmds \subseteq {c \in created \cup {cmd} : c.player = p}
    OBVIOUS
  <2>1. ring[i].cmds \subseteq frameData[p][p][i].cmds \cup {cmd}
    <3>1. \A j \in SlotIndex : ring[j].cmds \subseteq frameData[p][p][j].cmds \cup {cmd}
      BY <1>1, StoreContents
    <3> HIDE DEF ring
    <3> QED
      BY <3>1
  <2>2. frameData[p][p][i].cmds \subseteq {c \in created : c.player = p}
    BY DEF TypeInv, Stored
  <2> HIDE DEF ring
  <2> QED
    BY <2>1, <2>2
<1>5. Router(p) \in Player /\ Peers(p) \in SUBSET Player
  BY RouterType DEF TypeInv, TypeOK, NotAlone, Peers
<1>6. /\ SendLocal(p, Player, cmd) \subseteq Hops
      /\ \A h \in SendLocal(p, Player, cmd) : h.cmd = cmd
  BY <1>5, SendLocalTypes
<1>7. created \in SUBSET Command
  BY DEF TypeInv, TypeOK
<1>8. \E b \in Nat : \A c \in created \cup {cmd} : c.id <= b
  <2>1. PICK b \in Nat : \A c \in created : c.id <= b
    BY DEF TypeInv, IdsBounded
  <2>2. \A c \in created : c.id \in Nat
    BY <1>7 DEF Command
  <2> QED
    BY <1>2, <2>1, <2>2, b + cmd.id \in Nat, \A c \in created \cup {cmd} : c.id <= b + cmd.id
<1> QED
  BY <1>3, <1>4, <1>6, <1>7, <1>8

(* Of the commands of a frame that change the run-ahead one has the largest *)
(* ID, and what it asks for is in range.                                    *)
LEMMA RunAheadType ==
    ASSUME TypeInv, NEW p \in Player, NEW cmds \in SUBSET created
    PROVE  NewRunAhead(p, cmds) \in MinRunAhead .. MaxRunAhead
<1> DEFINE changes == {c \in cmds : c.type = "RUNAHEAD"}
           bounds == {n \in Nat : \A c \in changes : c.id <= n}
<1>1. changes \subseteq Command
  BY DEF TypeInv, TypeOK
<1>2. \A c \in changes : c.id \in Nat /\ c.arg \in MinRunAhead .. MaxRunAhead
  BY <1>1 DEF Command
<1>3. CASE changes = {}
  BY <1>3 DEF NewRunAhead, TypeInv, TypeOK
<1>4. CASE changes # {}
  <2>1. PICK b \in Nat : \A c \in created : c.id <= b
    BY DEF TypeInv, IdsBounded
  <2>2. b \in bounds /\ bounds \subseteq Nat
    BY <2>1
  <2>3. PICK n \in bounds : \A m \in bounds : n <= m
    <3>1. \E n \in bounds : \A m \in bounds : ~(<<m, n>> \in OpToRel(<, Nat))
      BY <2>2, WFMin, NatLessThanWellFounded, Zenon
    <3>2. \A n, m \in bounds : ~(<<m, n>> \in OpToRel(<, Nat)) => ~(m < n)
      BY <2>2, Zenon DEF OpToRel
    <3>3. PICK n \in bounds : \A m \in bounds : ~(m < n)
      BY <3>1, <3>2
    <3>4. \A m \in bounds : n <= m
      BY <2>2, <3>3
    <3> QED
      BY <3>4
  <2>4. \E c \in changes : \A d \in changes : d.id <= c.id
    <3>1. CASE \E c \in changes : c.id = n
      BY <3>1, <2>3
    <3>2. CASE \A c \in changes : c.id # n
      <4>1. \A c \in changes : c.id < n
        BY <3>2, <1>2, <2>3
      <4>2. n - 1 \in bounds
        BY <4>1, <1>2, <1>4, <2>3
      <4> QED
        BY <4>2, <2>3
    <3> QED
      BY <3>1, <3>2
  <2>5. (CHOOSE c \in changes : \A d \in changes : d.id <= c.id) \in changes
    BY <2>4, Zenon
  <2>6. NewRunAhead(p, cmds) = (CHOOSE c \in changes : \A d \in changes : d.id <= c.id).arg
    BY <1>4 DEF NewRunAhead
  <2> HIDE DEF changes
  <2> QED
    BY <2>5, <2>6, <1>2
<1> QED
  BY <1>3, <1>4

(* Creating cmd, storing it in the own ring and sending nothing else but    *)
(* announcements keeps the invariant.                                       *)
LEMMA CreateStep ==
    ASSUME TypeInv, NEW p \in Player, localStatus[p] # "LEFT",
           NEW cmd \in Command, cmd.player = p,
           NEW ring, ring = AddNetCommandMsg(TRUE, frameData[p][p], cmd),
           frameData' = [frameData EXCEPT ![p][p] = ring],
           created' = created \cup {cmd},
           NEW infos \in SUBSET Hops, \A h \in infos : h.cmd.type = "FRAMEINFO",
           net' = net \cup SendLocal(p, Player, cmd) \cup infos
    PROVE  /\ frameData' \in [Player -> [Player -> [SlotIndex -> FrameDataType]]]
           /\ created' \in SUBSET Command
           /\ net' \in SUBSET Hops
           /\ Stored' /\ Sent' /\ IdsBounded'
<1>1. /\ ring \in Ring
      /\ \A i \in SlotIndex : ring[i].cmds \subseteq {c \in created' : c.player = p}
      /\ SendLocal(p, Player, cmd) \subseteq Hops
      /\ \A h \in SendLocal(p, Player, cmd) : h.cmd = cmd
      /\ created' \in SUBSET Command
      /\ \E b \in Nat : \A c \in created' : c.id <= b
  <2> DEFINE stored == AddNetCommandMsg(TRUE, frameData[p][p], cmd)
  <2>1. /\ stored \in Ring
        /\ \A i \in SlotIndex : stored[i].cmds \subseteq {c \in created \cup {cmd} : c.player = p}
        /\ SendLocal(p, Player, cmd) \subseteq Hops
        /\ \A h \in SendLocal(p, Player, cmd) : h.cmd = cmd
        /\ created \cup {cmd} \in SUBSET Command
        /\ \E b \in Nat : \A c \in created \cup {cmd} : c.id <= b
    <3>1. ASSUME NEW c \in Command, c.player = p
          PROVE  LET r == AddNetCommandMsg(TRUE, frameData[p][p], c)
                 IN  /\ r \in Ring
                     /\ \A i \in SlotIndex :
                           r[i].cmds \subseteq {d \in created \cup {c} : d.player = p}
                     /\ SendLocal(p, Player, c) \subseteq Hops
                     /\ \A h \in SendLocal(p, Player, c) : h.cmd = c
                     /\ created \cup {c} \in SUBSET Command
                     /\ \E b \in Nat : \A d \in created \cup {c} : d.id <= b
      BY <3>1, CreateTypes
    <3> QED
      BY <3>1
  <2>2. ring = stored /\ created' = created \cup {cmd}
    OBVIOUS
  <2> HIDE DEF stored
  <2> QED
    BY <2>1, <2>2
<1>2. frameData \in [Player -> [Player -> Ring]]
  BY DEF TypeInv, TypeOK, Ring
<1>3. /\ frameData' \in [Player -> [Player -> [SlotIndex -> FrameDataType]]]
      /\ frameData'[p][p] = ring
      /\ \A r, s \in Player : (r # p \/ s # p) => frameData'[r][s] = frameData[r][s]
  <2>1. frameData' \in [Player -> [Player -> Ring]]
    BY <1>1, <1>2
  <2> QED
    BY <1>2, <2>1 DEF Ring
<1>4. net' \in SUBSET Hops
  BY <1>1 DEF TypeInv, TypeOK
<1>5. Stored'
  <2> SUFFICES ASSUME NEW r \in Player, NEW s \in Player, NEW i \in SlotIndex
               PROVE  frameData'[r][s][i].cmds \subseteq {c \in created' : c.player = s}
    BY DEF Stored
  <2>1. CASE r = p /\ s = p
    <3>1. frameData'[r][s][i] = ring[i]
      BY <2>1, <1>3
    <3> QED
      BY <3>1, <2>1, <1>1
  <2>2. CASE ~(r = p /\ s = p)
    <3>1. frameData'[r][s][i].cmds = frameData[r][s][i].cmds
      BY <2>2, <1>3
    <3>2. frameData[r][s][i].cmds \subseteq {c \in created : c.player = s}
      BY DEF TypeInv, Stored
    <3> QED
      BY <3>1, <3>2
  <2> QED
    BY <2>1, <2>2
<1>6. Sent'
  BY <1>1 DEF TypeInv, Sent
<1>7. IdsBounded'
  BY <1>1 DEF IdsBounded
<1> QED
  BY <1>1, <1>3, <1>4, <1>5, <1>6, <1>7

(* The frame a command is issued for is a frame. *)
LEMMA ExecutionFrameType ==
    ASSUME TypeInv, NEW p \in Player
    PROVE  /\ ExecutionFrame(p) \in Nat
           /\ ExecutionFrame(p) >= lastExecutionFrame[p]
           /\ ExecutionFrame(p) >= frame[p] + runAhead[p]
           /\ ExecutionFrame(p) = lastExecutionFrame[p] \/ ExecutionFrame(p) = frame[p] + runAhead[p]
BY SMTT(30), ConstantFacts DEF TypeInv, TypeOK, ExecutionFrame

LEMMA TypeStartGame ==
    ASSUME TypeInv, NEW p \in Player, StartGame(p) PROVE TypeInv'
BY DEF TypeInv, StartGame, clock, TypeOK, NotAlone, Stored, Sent, IdsBounded, Command,
       Hops, FrameDataType

LEMMA TypeProcessFrameTick ==
    ASSUME TypeInv, NEW p \in Player, ProcessFrameTick(p) PROVE TypeInv'
<1> DEFINE frames == lastFrameCompleted[p] + 1 .. ExecutionFrame(p) - 1
           infos == Announce(p, frames, frameData[p][p])
<1>1. ExecutionFrame(p) \in Nat
  BY ExecutionFrameType
<1>2. lastFrameCompleted[p] \in Nat /\ frames \in SUBSET Nat
  BY <1>1 DEF TypeInv, TypeOK
<1>3. localStatus[p] # "LEFT" /\ frameData[p][p] \in Ring
  BY DEF ProcessFrameTick, TypeInv, TypeOK, Ring
<1>4. infos \subseteq Hops /\ \A h \in infos : h.cmd.type = "FRAMEINFO"
  <2>1. infos \subseteq Hops /\ \A h \in infos : \E f \in frames : h.cmd = FrameInfo(p, f, frameData[p][p])
    BY <1>2, <1>3, AnnounceTypes
  <2>2. \A f \in frames : FrameInfo(p, f, frameData[p][p]).type = "FRAMEINFO"
    BY DEF FrameInfo, Cmd
  <2> HIDE DEF frames, infos
  <2> QED
    BY <2>1, <2>2
<1>5. net' = net \/ net' = net \cup infos
  BY DEF ProcessFrameTick
<1> HIDE DEF infos
<1>6. net' \in SUBSET Hops /\ Sent'
  BY <1>4, <1>5 DEF ProcessFrameTick, TypeInv, TypeOK, Sent
<1>7. /\ lastExecutionFrame' \in [Player -> Nat]
      /\ lastFrameCompleted' \in [Player -> Nat]
      /\ lastFrame' \in [Player -> Nat]
      /\ localStatus' \in [Player -> Statuses]
  <2> DEFINE exec == ExecutionFrame(p)
  <2>1. exec \in Nat /\ lastFrameCompleted[p] \in Nat /\ frame[p] \in Nat
        /\ (IF exec - 1 > lastFrameCompleted[p] THEN exec - 1 ELSE lastFrameCompleted[p]) \in Nat
    BY <1>1 DEF TypeInv, TypeOK
  <2>2. /\ lastExecutionFrame' = lastExecutionFrame
           \/ lastExecutionFrame' = [lastExecutionFrame EXCEPT ![p] = exec]
        /\ lastFrameCompleted' = lastFrameCompleted
           \/ lastFrameCompleted' = [lastFrameCompleted EXCEPT ![p] =
                 IF exec - 1 > lastFrameCompleted[p] THEN exec - 1 ELSE lastFrameCompleted[p]]
        /\ lastFrame' = [lastFrame EXCEPT ![p] = frame[p]]
        /\ localStatus' = localStatus \/ localStatus' = [localStatus EXCEPT ![p] = "INGAME"]
    BY DEF ProcessFrameTick, TypeInv, TypeOK
  <2> HIDE DEF exec
  <2>3. lastExecutionFrame' \in [Player -> Nat]
    BY <2>1, <2>2 DEF TypeInv, TypeOK
  <2>4. lastFrameCompleted' \in [Player -> Nat]
    BY <2>1, <2>2 DEF TypeInv, TypeOK
  <2>5. lastFrame' \in [Player -> Nat]
    BY <2>1, <2>2 DEF TypeInv, TypeOK
  <2>6. localStatus' \in [Player -> Statuses]
    BY <2>2 DEF TypeInv, TypeOK, Statuses
  <2> QED
    BY <2>3, <2>4, <2>5, <2>6
<1>8. TypeOK'
  BY <1>6, <1>7 DEF ProcessFrameTick, TypeInv, TypeOK, Command, Hops, FrameDataType
<1>9. NotAlone'
  BY DEF ProcessFrameTick, TypeInv, TypeOK, NotAlone
<1>10. Stored' /\ IdsBounded'
  BY DEF ProcessFrameTick, TypeInv, Stored, IdsBounded
<1> QED
  BY <1>6, <1>8, <1>9, <1>10 DEF TypeInv

(* The two actions that create a command with IssueLocal. *)
LEMMA TypeIssueLocal ==
    ASSUME TypeInv, NEW p \in Player, localStatus[p] = "INGAME",
           NEW type \in {"GAME", "RUNAHEAD"}, NEW arg \in Nat,
           type = "RUNAHEAD" => arg \in MinRunAhead .. MaxRunAhead,
           IssueLocal(p, type, ExecutionFrame(p), ExecutionFrame(p), arg),
           UNCHANGED <<frame, runAhead, lastFrameCompleted, lastFrame, localStatus,
                       inGame, executed>>
    PROVE  TypeInv'
<1> DEFINE exec == ExecutionFrame(p)
           cmd == Cmd(type, p, exec, issued[p] + 1, arg)
<1>1. exec \in Nat /\ issued[p] + 1 \in Nat
  BY SMTT(30), ExecutionFrameType DEF TypeInv, TypeOK
<1>2. cmd \in Command /\ cmd.player = p
  BY <1>1 DEF Cmd, Command, CommandTypes
<1> DEFINE ring == AddNetCommandMsg(TRUE, frameData[p][p], cmd)
<1>3. /\ frameData' = [frameData EXCEPT ![p][p] = ring]
      /\ created' = created \cup {cmd}
      /\ net' = net \cup SendLocal(p, Player, cmd) \cup {}
  BY DEF IssueLocal, TypeInv, TypeOK
<1>4. /\ lastExecutionFrame' = [lastExecutionFrame EXCEPT ![p] = exec]
      /\ issued' = [issued EXCEPT ![p] = issued[p] + 1]
  BY DEF IssueLocal
<1> HIDE DEF cmd, exec
<1>5. /\ frameData' \in [Player -> [Player -> [SlotIndex -> FrameDataType]]]
      /\ created' \in SUBSET Command
      /\ net' \in SUBSET Hops
      /\ Stored' /\ Sent' /\ IdsBounded'
  BY <1>2, <1>3, CreateStep, {} \in SUBSET Hops, localStatus[p] # "LEFT"
<1>6. lastExecutionFrame' \in [Player -> Nat] /\ issued' \in [Player -> Nat]
  BY <1>1, <1>4 DEF TypeInv, TypeOK
<1>7. TypeOK'
  BY <1>5, <1>6 DEF TypeInv, TypeOK, Command, Hops, FrameDataType
<1>8. NotAlone'
  BY DEF TypeInv, NotAlone
<1> QED
  BY <1>5, <1>7, <1>8 DEF TypeInv

LEMMA TypeLeaveGame ==
    ASSUME TypeInv, NEW p \in Player, LeaveGame(p) PROVE TypeInv'
<1> DEFINE exec == ExecutionFrame(p)
           cmd == Cmd("LEAVE", p, exec + 1, issued[p] + 1, 0)
           ring == AddNetCommandMsg(TRUE, frameData[p][p], cmd)
           frames == {exec, exec + 1}
           infos == Announce(p, frames, ring)
<1>1. exec \in Nat /\ issued[p] + 1 \in Nat /\ frames \in SUBSET Nat
  BY SMTT(30), ExecutionFrameType DEF TypeInv, TypeOK
<1>2. cmd \in Command /\ cmd.player = p
  BY <1>1 DEF Cmd, Command, CommandTypes
<1>3. localStatus[p] # "LEFT"
  BY DEF LeaveGame
<1>4. ring \in Ring
  <2> HIDE DEF cmd
  <2>1. frameData[p][p] \in Ring /\ cmd.frame \in Nat
    BY <1>2 DEF TypeInv, TypeOK, Ring, Command
  <2> QED
    BY <1>2, <2>1, RingTypes
<1>5. /\ frameData' = [frameData EXCEPT ![p][p] = ring]
      /\ created' = created \cup {cmd}
      /\ net' = net \cup SendLocal(p, Player, cmd) \cup infos
      /\ lastExecutionFrame' = [lastExecutionFrame EXCEPT ![p] = exec]
      /\ lastFrameCompleted' = [lastFrameCompleted EXCEPT ![p] = exec]
      /\ issued' = [issued EXCEPT ![p] = issued[p] + 1]
      /\ localStatus' = [localStatus EXCEPT ![p] = "LEAVING"]
      /\ UNCHANGED <<frame, runAhead, lastFrame, inGame, executed>>
  BY DEF LeaveGame
<1>6. ring = AddNetCommandMsg(TRUE, frameData[p][p], cmd)
  OBVIOUS
<1> HIDE DEF cmd, exec, ring, frames
<1>7. infos \subseteq Hops /\ \A h \in infos : h.cmd.type = "FRAMEINFO"
  <2>1. infos \subseteq Hops /\ \A h \in infos : \E f \in frames : h.cmd = FrameInfo(p, f, ring)
    BY <1>1, <1>3, <1>4, AnnounceTypes
  <2>2. \A f \in frames : FrameInfo(p, f, ring).type = "FRAMEINFO"
    BY DEF FrameInfo, Cmd
  <2> HIDE DEF infos
  <2> QED
    BY <2>1, <2>2
<1> HIDE DEF infos
<1>8. /\ frameData' \in [Player -> [Player -> [SlotIndex -> FrameDataType]]]
      /\ created' \in SUBSET Command
      /\ net' \in SUBSET Hops
      /\ Stored' /\ Sent' /\ IdsBounded'
  BY <1>2, <1>3, <1>5, <1>6, <1>7, CreateStep
<1>9. TypeOK'
  BY <1>1, <1>5, <1>8 DEF TypeInv, TypeOK, Command, Hops, FrameDataType, Statuses
<1>10. NotAlone'
  BY <1>3, <1>5 DEF TypeInv, TypeOK, NotAlone
<1> QED
  BY <1>8, <1>9, <1>10 DEF TypeInv

LEMMA TypeReceive ==
    ASSUME TypeInv, NEW p \in Player, NEW h \in net, Receive(p, h) PROVE TypeInv'
<1> DEFINE q == h.cmd.player
           ring == IF h.cmd.type = "FRAMEINFO"
                     THEN SetCount(frameData[p][q], h.cmd.frame, h.cmd.arg)
                   ELSE IF p \in h.relay THEN AddNetCommandMsg(FALSE, frameData[p][q], h.cmd)
                   ELSE frameData[p][q]
<1>1. /\ h \in Hops /\ h.cmd \in Command /\ h.relay \in SUBSET Player
      /\ q \in Player /\ h.cmd.frame \in Nat /\ h.cmd.arg \in Nat
  BY DEF TypeInv, TypeOK, Hops, Command
<1>2. frameData \in [Player -> [Player -> Ring]]
  BY DEF TypeInv, TypeOK, Ring
<1>3. frameData[p][q] \in Ring
  BY <1>1, <1>2
<1>4. ring \in Ring
  BY <1>1, <1>3, RingTypes
<1>5. \A i \in SlotIndex : ring[i].cmds \subseteq {c \in created : c.player = q}
  <2> SUFFICES ASSUME NEW i \in SlotIndex
               PROVE  ring[i].cmds \subseteq {c \in created : c.player = q}
    OBVIOUS
  <2>1. frameData[p][q][i].cmds \subseteq {c \in created : c.player = q}
    BY <1>1 DEF TypeInv, Stored
  <2>2. CASE h.cmd.type = "FRAMEINFO"
    <3>1. \A r \in Ring, f \in Nat, n \in Nat : SetCount(r, f, n)[i].cmds = r[i].cmds
      BY SetCountRing
    <3>2. ring = SetCount(frameData[p][q], h.cmd.frame, h.cmd.arg)
      BY <2>2
    <3> HIDE DEF ring
    <3>3. ring[i].cmds = frameData[p][q][i].cmds
      BY <3>1, <3>2, <1>1, <1>3
    <3> QED
      BY <2>1, <3>3
  <2>3. CASE h.cmd.type # "FRAMEINFO"
    <3>1. ring[i].cmds \subseteq frameData[p][q][i].cmds \cup {h.cmd}
      <4>1. \A j \in SlotIndex : AddNetCommandMsg(FALSE, frameData[p][q], h.cmd)[j].cmds
                                   \subseteq frameData[p][q][j].cmds \cup {h.cmd}
        BY <1>1, <1>3, StoreContents
      <4>2. ring = AddNetCommandMsg(FALSE, frameData[p][q], h.cmd) \/ ring = frameData[p][q]
        BY <2>3
      <4> HIDE DEF ring
      <4> QED
        BY <4>1, <4>2
    <3>2. h.cmd \in created
      BY <2>3 DEF TypeInv, Sent
    <3> HIDE DEF ring
    <3> QED
      BY <2>1, <3>1, <3>2
  <2> QED
    BY <2>2, <2>3
<1>6. frameData' = [frameData EXCEPT ![p][q] = ring]
  BY DEF Receive, Store
<1>7. net' = net \cup RelayOn(p, h)
  BY DEF Receive, Store
<1> HIDE DEF ring
<1>8. RelayOn(p, h) \subseteq Hops /\ \A g \in RelayOn(p, h) : g.cmd = h.cmd
  <2>1. Peers(p) \in SUBSET Player
    BY DEF TypeInv, TypeOK, Peers
  <2>2. h.relay \in SUBSET Player /\ h.cmd \in Command
    BY <1>1
  <2>3. /\ Direct(p, h.relay, Peers(p), h.cmd) \subseteq Hops
        /\ \A g \in Direct(p, h.relay, Peers(p), h.cmd) : g.cmd = h.cmd
    BY <2>1, <2>2, DirectTypes
  <2> QED
    BY <2>3 DEF RelayOn
<1>9. frameData' \in [Player -> [Player -> Ring]]
  BY <1>1, <1>2, <1>4, <1>6
<1>10. frameData' \in [Player -> [Player -> [SlotIndex -> FrameDataType]]]
  BY <1>9 DEF Ring
<1>11. net' \in SUBSET Hops
  BY <1>7, <1>8 DEF TypeInv, TypeOK
<1>12. TypeOK'
  BY <1>10, <1>11 DEF Receive, clock, TypeInv, TypeOK, Command, Hops, FrameDataType
<1>13. Stored'
  <2> SUFFICES ASSUME NEW r \in Player, NEW s \in Player, NEW i \in SlotIndex
               PROVE  frameData'[r][s][i].cmds \subseteq {c \in created : c.player = s}
    BY DEF Stored, Receive
  <2>1. CASE r = p /\ s = q
    <3>1. frameData'[r][s][i] = ring[i]
      BY <2>1, <1>1, <1>2, <1>6, <1>9
    <3> QED
      BY <3>1, <2>1, <1>5
  <2>2. CASE ~(r = p /\ s = q)
    <3>1. frameData'[r][s][i].cmds = frameData[r][s][i].cmds
      BY <2>2, <1>1, <1>2, <1>6, <1>9
    <3>2. frameData[r][s][i].cmds \subseteq {c \in created : c.player = s}
      BY DEF TypeInv, Stored
    <3> QED
      BY <3>1, <3>2
  <2> QED
    BY <2>1, <2>2
<1>14. Sent'
  <2> SUFFICES ASSUME NEW g \in net', g.cmd.type # "FRAMEINFO"
               PROVE  g.cmd \in created
    BY DEF Sent, Receive
  <2>1. g \in net \/ g.cmd = h.cmd
    BY <1>7, <1>8
  <2> QED
    BY <2>1 DEF TypeInv, Sent
<1>15. NotAlone' /\ IdsBounded'
  BY DEF Receive, clock, TypeInv, NotAlone, IdsBounded
<1> QED
  BY <1>12, <1>13, <1>14, <1>15 DEF TypeInv

(* Resending changes neither what is sent nor who may receive it. *)
LEMMA ResendTypes ==
    ASSUME TypeInv, NEW p \in Player, NEW old, NEW router \in Player,
           NEW peers \in SUBSET Player
    PROVE  /\ ResendPending(p, old, router, peers) \subseteq Hops
           /\ \A h \in ResendPending(p, old, router, peers) :
                 \E g \in net : g.cmd.player = p /\ h \in SendVia(p, router, g.relay, peers, g.cmd)
                             /\ h.cmd = g.cmd
<1> SUFFICES ASSUME NEW h \in ResendPending(p, old, router, peers)
             PROVE  /\ h \in Hops
                    /\ \E g \in net : g.cmd.player = p
                                   /\ h \in SendVia(p, router, g.relay, peers, g.cmd)
                                   /\ h.cmd = g.cmd
  OBVIOUS
<1>1. PICK g \in net : g.cmd.player = p /\ h \in SendVia(p, router, g.relay, peers, g.cmd)
  BY DEF ResendPending
<1>2. g.relay \in SUBSET Player /\ g.cmd \in Command
  BY DEF TypeInv, TypeOK, Hops
<1>3. h \in Hops /\ h.cmd = g.cmd
  <2> DEFINE relay == g.relay
             cmd == g.cmd
  <2>1. relay \in SUBSET Player /\ cmd \in Command /\ h \in SendVia(p, router, relay, peers, cmd)
    BY <1>1, <1>2
  <2> HIDE DEF relay, cmd
  <2>2. h \in Hops /\ h.cmd = cmd
    BY <2>1, SendTypes
  <2> QED
    BY <2>2 DEF cmd
<1> QED
  BY <1>1, <1>3

LEMMA TypeExecuteFrame ==
    ASSUME TypeInv, NEW p \in Player, ExecuteFrame(p) PROVE TypeInv'
<1> DEFINE cmds == FrameCommands(p)
           leaving == {c.player : c \in {d \in cmds : d.type = "LEAVE"}}
           left == inGame[p] \ leaving
           newRouter == CHOOSE q \in left : \A r \in left : q <= r
           resent == ResendPending(p, Router(p), newRouter, left \ {p})
           rings == ClearOldFrame(p, frameData[p])
<1>1. SlotOf(frame[p]) \in SlotIndex /\ frame[p] \in Nat
  BY SlotOfType DEF TypeInv, TypeOK
<1>2. cmds \in SUBSET created /\ cmds \in SUBSET Command
  <2>1. \A q \in Player : frameData[p][q][SlotOf(frame[p])].cmds \subseteq created
    BY <1>1 DEF TypeInv, Stored
  <2> QED
    BY <2>1 DEF FrameCommands, TypeInv, TypeOK
<1>3. NewRunAhead(p, cmds) \in MinRunAhead .. MaxRunAhead
  BY <1>2, RunAheadType
<1>4. /\ frame' = [frame EXCEPT ![p] = frame[p] + 1]
      /\ executed' = [executed EXCEPT ![p] = Append(executed[p], cmds)]
      /\ runAhead' = [runAhead EXCEPT ![p] = NewRunAhead(p, cmds)]
      /\ inGame' = [inGame EXCEPT ![p] = left]
      /\ localStatus' = [localStatus EXCEPT ![p] =
                           IF p \in leaving THEN "LEFT" ELSE localStatus[p]]
      /\ frameData' = [frameData EXCEPT ![p] = rings]
      /\ net' = net \/ (p \notin leaving /\ net' = net \cup resent)
      /\ UNCHANGED <<lastExecutionFrame, lastFrameCompleted, lastFrame, issued, created>>
      /\ localStatus[p] # "LEFT"
  BY DEF ExecuteFrame
<1> HIDE DEF cmds
<1>5. left \in SUBSET Player /\ (p \notin leaving => p \in left)
  BY <1>4 DEF TypeInv, TypeOK, NotAlone
<1> HIDE DEF leaving, left
<1>6. p \notin leaving => newRouter \in Player
  <2> SUFFICES ASSUME p \notin leaving PROVE newRouter \in Player
    OBVIOUS
  <2>1. \E q \in left : \A r \in left : q <= r
    BY <1>5, FirstPlayer
  <2>2. newRouter \in left
    BY <2>1, Zenon
  <2> QED
    BY <1>5, <2>2
<1> HIDE DEF newRouter
<1>7. p \notin leaving =>
        resent \subseteq Hops /\ \A h \in resent : \E g \in net : h.cmd = g.cmd
  <2> SUFFICES ASSUME p \notin leaving
               PROVE  resent \subseteq Hops /\ \A h \in resent : \E g \in net : h.cmd = g.cmd
    OBVIOUS
  <2>1. newRouter \in Player /\ left \ {p} \in SUBSET Player
    BY <1>5, <1>6
  <2> QED
    BY <2>1, ResendTypes
<1> HIDE DEF resent
<1>8. net' \in SUBSET Hops /\ Sent'
  BY <1>4, <1>7 DEF TypeInv, TypeOK, Sent
<1>9. \A q \in Player :
         /\ rings[q] \in Ring
         /\ \A i \in SlotIndex : rings[q][i].cmds \subseteq {c \in created : c.player = q}
  <2> SUFFICES ASSUME NEW q \in Player
               PROVE  /\ rings[q] \in Ring
                      /\ \A i \in SlotIndex :
                            rings[q][i].cmds \subseteq {c \in created : c.player = q}
    OBVIOUS
  <2> DEFINE old == frame[p] - FramesToKeep
             reset == ResetFrame(p = q, frameData[p][q], old)
  <2>1. /\ frameData[p][q] \in Ring
        /\ \A i \in SlotIndex : frameData[p][q][i].cmds \subseteq {c \in created : c.player = q}
    BY SMTT(30) DEF TypeInv, TypeOK, Ring, Stored
  <2>2. CASE frame[p] > FramesToKeep
    <3>1. old \in Nat /\ (p = q) \in BOOLEAN
      BY <1>1, <2>2, ConstantFacts
    <3>2. rings[q] = reset
      BY <2>2 DEF ClearOldFrame
    <3>3. reset \in Ring /\ \A i \in SlotIndex : reset[i].cmds \subseteq frameData[p][q][i].cmds
      <4> HIDE DEF old
      <4> QED
        BY <2>1, <3>1, ResetFrameRing
    <3> QED
      BY <2>1, <3>2, <3>3
  <2>3. CASE ~(frame[p] > FramesToKeep)
    BY <2>1, <2>3 DEF ClearOldFrame
  <2> QED
    BY <2>2, <2>3
<1>10. DOMAIN rings = Player /\ rings = [q \in Player |-> rings[q]]
  BY DEF ClearOldFrame, TypeInv, TypeOK
<1> HIDE DEF rings
<1>11. frameData' \in [Player -> [Player -> [SlotIndex -> FrameDataType]]]
  <2>1. rings \in [Player -> Ring]
    BY <1>9, <1>10
  <2> QED
    BY <1>4, <2>1 DEF TypeInv, TypeOK, Ring
<1>12. Stored'
  <2> SUFFICES ASSUME NEW r \in Player, NEW s \in Player, NEW i \in SlotIndex
               PROVE  frameData'[r][s][i].cmds \subseteq {c \in created : c.player = s}
    BY <1>4 DEF Stored
  <2>1. CASE r = p
    BY <2>1, <1>4, <1>9 DEF TypeInv, TypeOK
  <2>2. CASE r # p
    BY <2>2, <1>4 DEF TypeInv, TypeOK, Stored
  <2> QED
    BY <2>1, <2>2
<1>13. executed' \in [Player -> Seq(SUBSET Command)]
  <2>1. Append(executed[p], cmds) \in Seq(SUBSET Command)
    BY <1>2 DEF TypeInv, TypeOK
  <2> QED
    BY <1>4, <2>1 DEF TypeInv, TypeOK
<1>14. /\ frame' \in [Player -> Nat]
       /\ runAhead' \in [Player -> MinRunAhead .. MaxRunAhead]
       /\ inGame' \in [Player -> SUBSET Player]
       /\ localStatus' \in [Player -> Statuses]
  <2>1. frame' \in [Player -> Nat] /\ runAhead' \in [Player -> MinRunAhead .. MaxRunAhead]
    BY <1>1, <1>3, <1>4 DEF TypeInv, TypeOK
  <2>2. inGame' \in [Player -> SUBSET Player] /\ localStatus' \in [Player -> Statuses]
    BY <1>4, <1>5 DEF TypeInv, TypeOK, Statuses
  <2> QED
    BY <2>1, <2>2
<1>15. TypeOK'
  BY <1>4, <1>8, <1>11, <1>13, <1>14 DEF TypeInv, TypeOK, Command, Hops, FrameDataType
<1>16. NotAlone'
  BY <1>4, <1>5 DEF TypeInv, TypeOK, NotAlone
<1>17. IdsBounded'
  BY <1>4 DEF TypeInv, IdsBounded
<1> QED
  BY <1>8, <1>12, <1>15, <1>16, <1>17 DEF TypeInv

LEMMA TypeStep == TypeInv /\ [Next]_vars => TypeInv'
<1> SUFFICES ASSUME TypeInv, [Next]_vars PROVE TypeInv'
  OBVIOUS
<1>1. ASSUME NEW p \in Player, StartGame(p) PROVE TypeInv'
  BY <1>1, TypeStartGame
<1>2. ASSUME NEW p \in Player, ProcessFrameTick(p) PROVE TypeInv'
  BY <1>2, TypeProcessFrameTick
<1>3. ASSUME NEW p \in Player, IssueGameCommand(p) PROVE TypeInv'
  <2>1. localStatus[p] = "INGAME" /\ 0 \in Nat
    BY <1>3 DEF IssueGameCommand
  <2>2. IssueLocal(p, "GAME", ExecutionFrame(p), ExecutionFrame(p), 0)
    BY <1>3 DEF IssueGameCommand
  <2>3. UNCHANGED <<frame, runAhead, lastFrameCompleted, lastFrame, localStatus,
                    inGame, executed>>
    BY <1>3 DEF IssueGameCommand
  <2> QED
    BY <2>1, <2>2, <2>3, TypeIssueLocal
<1>4. ASSUME NEW p \in Player, NEW ra \in MinRunAhead .. MaxRunAhead, UpdateRunAhead(p, ra)
      PROVE  TypeInv'
  <2>1. localStatus[p] = "INGAME" /\ ra \in Nat
    BY <1>4, ConstantFacts DEF UpdateRunAhead
  <2>2. IssueLocal(p, "RUNAHEAD", ExecutionFrame(p), ExecutionFrame(p), ra)
    BY <1>4 DEF UpdateRunAhead
  <2>3. UNCHANGED <<frame, runAhead, lastFrameCompleted, lastFrame, localStatus,
                    inGame, executed>>
    BY <1>4 DEF UpdateRunAhead
  <2> QED
    BY <2>1, <2>2, <2>3, TypeIssueLocal
<1>5. ASSUME NEW p \in Player, LeaveGame(p) PROVE TypeInv'
  BY <1>5, TypeLeaveGame
<1>6. ASSUME NEW p \in Player, NEW h \in net, Receive(p, h) PROVE TypeInv'
  BY <1>6, TypeReceive
<1>7. ASSUME NEW p \in Player, ExecuteFrame(p) PROVE TypeInv'
  BY <1>7, TypeExecuteFrame
<1>8. CASE UNCHANGED vars
  BY <1>8 DEF vars, TypeInv, TypeOK, NotAlone, Stored, Sent, IdsBounded, Command, Hops,
              FrameDataType
<1> QED
  BY <1>1, <1>2, <1>3, <1>4, <1>5, <1>6, <1>7, <1>8 DEF Next, PlayerStep

(* Every variable keeps its type: whatever is executed, the run-ahead stays *)
(* between its bounds and every command is one that a player of the game    *)
(* created.                                                                 *)
THEOREM TypeCorrect == Spec => []TypeOK
<1>1. TypeInv => TypeOK
  BY DEF TypeInv
<1> QED
  BY <1>1, TypeInit, TypeStep, PTL DEF Spec

=============================================================================
