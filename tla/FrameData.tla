----------------------------- MODULE FrameData -----------------------------
(***************************************************************************)
(* The command buffers of the lockstep engine: one FrameData is what a     *)
(* player knows of one other player's commands for one logic frame, one    *)
(* ring of FrameDataLength of them is a FrameDataManager                   *)
(* (GameNetwork/FrameData.cpp and GameNetwork/FrameDataManager.cpp).       *)
(* The operators are pure: Lockstep keeps one ring per pair of players.    *)
(***************************************************************************)
EXTENDS Integers, FiniteSets, Sequences

CONSTANTS
    FrameDataLength   \* FRAME_DATA_LENGTH (258 in the code)

ASSUME FrameDataLengthAssumption == FrameDataLength \in Nat \ {0}

-----------------------------------------------------------------------------
(* A synchronized command: its type, the player who issued it, the frame it *)
(* executes on, its ID, and its argument (the new run-ahead of a RUNAHEAD,  *)
(* the command count of a FRAMEINFO, 0 for the others).                     *)
CommandTypes == {"GAME", "RUNAHEAD", "LEAVE", "DESTROYPLAYER", "FRAMEINFO"}

(* isEqualCommandMsg for the commands that carry an ID: same player and ID. *)
SameCommand(a, b) == a.player = b.player /\ a.id = b.id

(* m_frameCommandCount is unsigned and starts at -1: larger than any count. *)
Unknown == -1

EmptyFrame == [cmds |-> {}, commandCount |-> 0, frameCommandCount |-> Unknown]

(* Plausible bug: a frame is ready as soon as its count is known. *)
IsReadyOnceAnnounced(fd) == fd.frameCommandCount # Unknown

(* The three answers of allCommandsReady: READY, RESEND (more commands than *)
(* announced: the frame is discarded and asked for again) and, otherwise,   *)
(* NOTREADY.                                                                *)
IsReady(fd) == fd.frameCommandCount = fd.commandCount

IsOverrun(fd) ==
    /\ fd.frameCommandCount # Unknown
    /\ fd.commandCount > fd.frameCommandCount

SetFrameCommandCount(fd, count) == [fd EXCEPT !.frameCommandCount = count]

(* Plausible bug: commands are counted without looking for a duplicate. *)
AddCommandNoDedup(fd, cmd) ==
    [fd EXCEPT !.cmds = @ \cup {cmd}, !.commandCount = @ + 1]

(* Add a command to a frame, unless the frame already holds it. *)
AddCommand(fd, cmd) ==
    IF \E c \in fd.cmds : SameCommand(c, cmd)
      THEN fd
      ELSE [fd EXCEPT !.cmds = @ \cup {cmd}, !.commandCount = @ + 1]

ZeroFrame(fd) == [fd EXCEPT !.commandCount = 0, !.frameCommandCount = 0]

-----------------------------------------------------------------------------
SlotIndex == 0 .. FrameDataLength - 1

SlotOf(frame) == frame % FrameDataLength

(* The local player's own counts are always final: what it has is all       *)
(* there is.                                                                *)
CountIfLocal(isLocal, fd) ==
    IF isLocal THEN SetFrameCommandCount(fd, fd.commandCount) ELSE fd

EmptyRing(isLocal) == [i \in SlotIndex |-> CountIfLocal(isLocal, EmptyFrame)]

AddNetCommandMsg(isLocal, ring, cmd) ==
    [ring EXCEPT ![SlotOf(cmd.frame)] = CountIfLocal(isLocal, AddCommand(@, cmd))]

SetCount(ring, frame, count) ==
    [ring EXCEPT ![SlotOf(frame)] = SetFrameCommandCount(@, count)]

ResetFrame(isLocal, ring, frame) ==
    [ring EXCEPT ![SlotOf(frame)] = CountIfLocal(isLocal, EmptyFrame)]

ZeroFrames(ring, first, count) ==
    [i \in SlotIndex |->
        IF \E f \in first .. first + count - 1 : SlotOf(f) = i
          THEN ZeroFrame(ring[i]) ELSE ring[i]]

=============================================================================
