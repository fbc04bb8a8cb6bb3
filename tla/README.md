# Formal verification of the network game protocol

TLA+ specifications, TLC models and TLAPS proofs for the multiplayer core of this
repository (`src/Core/GameEngine/Source/GameNetwork`). The game is a deterministic
simulation that every player runs for himself; the network code has to see to it that
all of them run the same commands on the same logic frame. When it fails the players
"desync", usually minutes after the cause, which is what makes this code worth a
specification.

Contents: 1 inventory, 2 modules and how they correspond to the code, 3 runs,
4 fairness, 5 theorems and their proofs, 6 findings, 7 what is not modelled, 8 plan.

## 1. Inventory

| Component | State | Operations | Talks to |
|---|---|---|---|
| `Network` (Network.cpp) | `m_runAhead`, `m_lastExecutionFrame`, `m_lastFrameCompleted`, `m_lastFrame`, `m_localStatus`, frame rate | `update`, `GetCommandsFromCommandList`, `processCommand`, `RelayCommandsToCommandList`, `processFrameSynchronizedNetCommand` | game logic (frame, command list), `ConnectionManager` |
| `ConnectionManager` | connections, frame data of every player, `m_packetRouterSlot` and fallback plan, `m_pendingCommands`, `m_relayedCommands`, metrics | `doRelay`, `processNetCommand`, `sendLocalCommand`, `sendRemoteCommand`, `processAck`, `updateRunAhead`, `processPlayerLeave`, `getFrameCommandList` | everything below |
| `FrameData`, `FrameDataManager` | per player a ring of `FRAME_DATA_LENGTH` frames: commands, their number, the number announced | add, set count, ready?, reset, zero | `NetCommandList` |
| `NetCommandList` | sorted linked list, place of the last insertion | `addMessage`, `removeMessage`, `reset`, `findMessage` | frame data, connections, pending and relayed commands |
| `NetCommandWrapperList`, `NetPacket` | parts of big commands by command ID | split, `processWrapper`, `getReadyCommands` | `Connection`, `doRelay` |
| `Connection` | send queue, retry timer, quitting | `sendNetCommandMsg`, `doSend`, `processAck`, `clearCommandsExceptFrom` | `Transport` |
| `DisconnectManager` | screen state, timeouts, votes, frames of the others | timeouts, votes, disconnect, exchange of frames | `ConnectionManager` |
| `FrameMetrics` | histories of frame rate, latency, cushion | record, average | `updateRunAhead` |
| `Transport`, `UDP` | message buffers | `doSend`, `doRecv`, `queueSend` | socket |
| `FileTransfer` | progress per player | send and await the map | big commands |
| `NAT`, `FirewallHelper` | connection rounds, probes, ports | rounds with timeouts and retries | GameSpy messages |
| `LANAPI`, `GameInfo` | slots, games and players in the lobby | join, leave, options, accept, start | LAN messages |
| GameSpy threads | request and response queues | log in, chat, match | user interface |
| the rest: game logic, client, rendering, libraries, tools, Android port | | | |

How they interact: the user's commands are taken from the game's command list on each
update, stamped with an execution frame `runAhead` frames ahead and sent. A client
sends to the *packet router* (the first player of the fallback plan), which relays.
When the logic frame advances, each player announces for every frame that no command
can be issued for any more how many commands it issued (FRAMEINFO). A frame is run when
for every player in the game the announced number of commands is there; otherwise the
game waits. Everything is acknowledged in two stages and resent until it is; nothing is
in order, nothing comes exactly once.

Hard behaviours, and what makes each component correct:

* *Clock and counts.* The run-ahead changes while frames are announced; a count must be
  final when it is sent, execution frames must not go back, and frames ahead must not
  overrun the ring. (AnnouncedCountIsFinal, NoDesync, RingIsFresh)
* *Receiving.* Late, repeated and reordered commands; a ring slot is reused every 258
  frames. (NoOverrun, RingIsFresh, KeptForLaggards)
* *Leaving and handover.* A player leaves with a command of its own frame; if it was the
  router the others resend through the next one. (Replication, SettingsAgree, Progress)
* *Lists.* The order of a frame's commands must not depend on the order of arrival; a
  fast path and a cached pointer stand against that. (OrderIsCanonical, NothingLost)
* *Big commands.* Chunks with their own acknowledgements, relayed twice. (Integrity,
  EventuallyDelivered)
* *Acknowledgements.* Two stages, a router in between that may leave, quitting connections
  that take nothing new and give up after 30 seconds. (KeptForWhoNeedsIt,
  PendingUntilAllHaveIt, EverybodyFinishes, QueuesDrain)
* *Crashes.* Those that are left are on different frames, each decides by its own timeouts
  and votes who is lost, and the frames somebody misses have to be sent by another.
  (OneRemover, NobodyLeftBehind, DifferOnlyByTheLost, RemovedOnSameFrame, SurvivorsContinue)
* *NAT.* Rounds at different speeds, each word said once, timeouts that fire on one side
  only. (DoneWhenHeard, NoneForgotten, AllKnowWhere, NobodyHangs, ConnectsUnlessSkipped)
* *Lobby, transport.* Crossing messages, full buffers. Not modelled, see 7; every hazard is
  listed in PROJECT.json.

## 2. Modules

| Module | Models | Composition |
|---|---|---|
| `Replicated` | abstract: a log of frames that every player executes alike | implemented by `Lockstep` |
| `FrameData` | operators: one frame of one player, and the ring of them | used by `Lockstep` |
| `Lockstep` | N players: clock, sending, relaying, receiving, execution, run-ahead, leaving | EXTENDS `FrameData`; refines `Replicated` |
| `OrderedCommands` | abstract: a list of commands is an ordered set | implemented by `CommandList` |
| `CommandList` | `NetCommandList` | refines `OrderedCommands` |
| `BigCommands` | splitting, chunks in flight, putting together, players that leave | |
| `Disconnect` | the disconnect manager of every player, one of whom crashes | EXTENDS `Lockstep`: `ProcessFrameTick`, `Receive` and `ExecuteFrame` run beside the actions of the managers |
| `Relay` | connections, the two stages of acknowledgement, pending and relayed commands, players that leave | the level below `Lockstep`'s `net` |
| `NAT` | how the players of an online game get through their firewalls, before it begins | ends before `Lockstep` starts |
| `MCLockstep`, `MCCommandList`, `MCBigCommands`, `MCDisconnect`, `MCRelay`, `MCNAT` | values for TLC | |
| `LockstepProofs`, `AnnounceProofs`, `DesyncProofs`, `DisconnectProofs`, `CommandListProofs`, `BigCommandProofs`, `RelayProofs`, `NATProofs` | theorems | |

### Lockstep

| Variable | Code |
|---|---|
| `frame[p]` | `TheGameLogic->getFrame()` at player p |
| `runAhead`, `lastExecutionFrame`, `lastFrameCompleted`, `lastFrame`, `localStatus` | members of `Network` |
| `frameData[p][q]` | `m_frameData[q]` at player p |
| `inGame[p]` | players p has not seen leave: open connections and fallback plan |
| `issued[p]` | number of command IDs p generated |
| `net` | every hop ever sent: source, destination, players it is for, command |
| `created`, `executed` | history, for the properties |

| Action | Code |
|---|---|
| `StartGame` | frame 0 is run without commands (`Network::AllCommandsReady`, PREGAME) |
| `ProcessFrameTick` | first message of a new logic frame (`Network::processCommand`, `processFrameTick`) |
| `IssueGameCommand` | `GetCommandsFromCommandList`, `sendLocalGameMessage`, `sendLocalCommand` |
| `UpdateRunAhead` | `ConnectionManager::updateRunAhead` at the router |
| `LeaveGame` | `MSG_CLEAR_GAME_DATA` in `Network::processCommand`, `handleLocalPlayerLeaving` |
| `Receive` | `doRelay` for one command: `processNetCommand`, then `sendRemoteCommand` |
| `ExecuteFrame` | `Network::update` with the frame's commands there: run them, change run-ahead, drop players, resend through a new router, discard the frame `FRAMES_TO_KEEP` back |

Abstractions, with the reason:

* `net` only grows. A hop can be received at any later time, or again, or never. That
  is more than `Connection` (resend every two seconds until acknowledged) can do, so
  safety results carry over; acknowledgements, which only decide when the resending ends,
  are left out. `ResendPending` likewise resends all of a player's own commands that
  went through the old router, those known to have arrived too.
* A frame's commands are a set, its ID order is the matter of `CommandList`.
* FRAMEINFO has an ID in the code and 0 here; it is never stored in a frame.
* The two run-ahead commands of `updateRunAhead` share ID, frame and run-ahead and
  differ in the frame rate, which paces the display; one command stands for both. Any
  run-ahead between the limits may be chosen.
* `processCommand` and the other messages of one update are separate actions; new
  commands require `lastFrame = frame` where the code orders them so.
* A player that has LEFT does nothing more.
* The branch of `allCommandsReady` that finds too many commands, discards the frame and
  asks for a resend is not an action: `NoOverrun` shows that its condition never holds for a
  frame still to be executed, the only ones it is asked of.

### CommandList

The linked list is a sequence, `m_lastMessageInserted` an index (0 for null). `content`
is history: what was added and not removed. `AddMessage` keeps the order of the code's
cases: the fast path behind the last insertion, the two ends, then the three loops, and
compares with the one neighbour the code compares with. `OrderedCommands` is a set of commands, read in
order; acks, which have no ID and stand before all others, are no part of it (`CommandsWithID`: the list from its first
command with an ID on). `RequiresID` tells acks from the rest; `DoesCommandRequireACommandID` is false of
further types (keep-alives, progress, disconnect chat, ...), which the model's lists do not hold.

### BigCommands

One receiver. `nodes` is the `NetCommandWrapperList` by command ID; a node is the number of
chunks, the set present and the bytes, each byte told from every other and from memory
never written. `relaying` marks the loop of `doRelay` over its packets: inside it
`ProcessNetCommand` handles one chunk, and `GetReadyCommands` ends it; a connection closes
outside the loop only. `net` keeps every chunk, so it can repeat and come late, which
happens without any loss too: the router relays each chunk and, when it has put the
command together, relays the command again.

### Disconnect

| Variable | Code |
|---|---|
| `screen`, `notified` | `m_disconnectState`, `m_haveNotifiedOtherPlayersOfCurrentFrame` |
| `disconnectFrames`, `framesReceived`, `playerVotes` | `m_disconnectFrames`, `m_disconnectFramesReceived`, `m_playerVotes` |
| `timedOut[p]` | players for which `hasPlayerTimedOut` holds at p |
| `notices` | every message of the managers, receivable again and again |
| `presence`, `removedOn` | who has crashed; history |

| Action | Code |
|---|---|
| `Crash`, `Silence` | a process fails; later nothing of what it sent is under way |
| `TurnOnScreen` | `DisconnectManager::update` finds no new frame for `m_networkDisconnectTime` |
| `NotifyOthersOfCurrentFrame` | `ConnectionManager::notifyOthersOfCurrentFrame`, and the local processing of the same message, which may send frames |
| `TimeOut`, `VoteForPlayerDisconnect` | `hasPlayerTimedOut`, `voteForPlayerDisconnect` |
| `RemovePlayer` | `updateDisconnectStatus`: the next router removes a lost player, has its belongings destroyed by a command (DESTROYPLAYER) and tells the others |
| `ProcessDisconnect...` | the four messages |
| `TurnOffScreen` | `DisconnectManager::allCommandsReady`: the frame is complete, the others are told |
| `AdvanceFrame` | `Lockstep!ExecuteFrame`, when `timeForNewFrame` lets it, and `nextFrame` of the manager: other updates and messages may come between the screen's going off and this |
| `ReceiveHop`, `Tick` | `Lockstep!Receive` of a player still in the game, `Lockstep!ProcessFrameTick` |

Time is abstract. Two things are assumed of it: a player that is there is never silent for the
60 seconds of a timeout, nor voted out (once it has been stuck on a frame for `m_networkDisconnectTime`, `DisconnectManager::sendKeepAlive`
sends a keep-alive every half second, DisconnectManager.cpp:478; the code does not keep a user from voting against somebody who is there), and by the time
a crashed player has timed out, or is voted out, its last packets have arrived or are lost. The screen comes on only
when someone has crashed.

Of `Lockstep`'s actions `IssueGameCommand`, `UpdateRunAhead` and `LeaveGame` are left out: the run-ahead is the one the game has come
to `FirstFrame` with, whatever it is, nobody leaves, and what is issued is `FirstCommands` and the DESTROYPLAYER of a removal.
`DInit` is a game in step at `FirstFrame`, after the frames in which
the wrap of ConnectionManager.cpp:2393 bites (see 6): every frame before the execution frame is announced and empty in the
rings, the oldest one still kept included (`FirstRing`), and who has a command to issue (`FirstIssuers`) has just sent it for the
execution frame.

### Relay

| Variable | Code |
|---|---|
| `conn[p][q]` | `m_connections[q]` at p: open, quitting (`m_isQuitting`), closed (null) |
| `router[p]`, `inGame[p]` | `m_packetRouterSlot`, `m_packetRouterFallback` |
| `queue` | `m_netCommandList` of every connection: what is in it is (re)sent |
| `pending`, `relayed` | `m_pendingCommands`, `m_relayedCommands`, with their relay masks |
| `net` | acknowledgements under way, and packets under way when their command left the list |
| `has[p]` | commands that are in p's frame data or have been processed by p |
| `gone` | players that have left the session |
| `script` | the commands of this game; a frame is executed when all of them for it are there |

`Receive` is one command of a packet in `doRelay`: it is acknowledged first, then ignored or
stored, then relayed. A command is received straight from a list, any number of times while it
is in it, and once more (`Unqueue`) after it has been taken off; an acknowledgement is in `net` and
may be lost. What the code does in the same update that finds the condition (issuing,
deleting an empty quitting connection, leaving) comes before anything else (`Urgent`), which loses
no interleaving of messages. While an answer to a message is under way the message is not sent
again (`Answered`): the retry time of two seconds is longer than the way there and back, and an
answer that is lost, which the bound counts, makes it resent.
No two players leave on the same frame, which the code allows (`RelayAssumption`). `QuitTimeout` takes thirty seconds for long enough that nothing is under way between the two any
more and each packet got through once. A second-stage acknowledgement names player 0 as its
sender whoever sends it, as the constructor leaves it (NetCommandMsg.cpp:421).

The frame counts and the run-ahead are the matter of `Lockstep`: here a script says what a frame
holds. FRAMEINFO is relayed and acknowledged like a game command.

### NAT

| Variable | Code |
|---|---|
| `natState`, `round`, `state[p][n]` | `m_NATState`, `m_connectionRound`, `m_connectionStates[n]` at node p |
| `beenProbed`, `numRetries`, `noRetry` | `m_beenProbed`, `m_numRetries`, `m_timeTillNextSend == -1` |
| `previousKnown`, `sourceKnown` | `m_previousSourcePort`, `m_sourcePorts[target]`: whether it is the right port, not which |
| `portKnown[p]` | the slots whose port p has right |
| `inbox`, `probes` | the chat server's queue for a node (NAT messages only), PROBE datagrams under way |
| `expired` | `m_roundTimeout` is over, and whether a message has been read since |
| `heard`, `timedOut`, `skipped` | history, for the properties |
| `setup` | the firewalls of the players and the faults that may happen, chosen once |

| Action | Code |
|---|---|
| `EstablishConnectionPaths` | the same, when the start of the game reaches p |
| `NextRound`, `LastRound`, `Fail` | `NAT::update`: `allConnectionsDoneThisRound`, `allConnectionsDone`, a failed connection |
| `ResendPort`, `ReceiveProbe`, `ProbeTarget`, `ManglerResponse` | the parts of `connectionUpdate` |
| `TooManyRetries` | `connectionUpdate`: the probes are used up (5.5 seconds), with the failure of the update it is in |
| `PortTimeout` | `connectionUpdate`: no port from the target for 15 seconds, likewise |
| `RoundTimeout` | `NAT::update` after `connectionUpdate`: the others are told; `Fail` is the next update, which tells them again |
| `ProcessGlobalMessage` | the same, called by WOLGameSetupMenu.cpp for one message between two updates |

One update is a row of these actions. What one update does for a node in a row other nodes cannot tell
from the same actions one by one; where it matters to the node itself the guards say so: a message that
ends the round is the last one before the next round begins, and one message at most is read between
the round timeout and the update that acts upon it (`Listens`, `expired`).

The chat server is external: what is said in the staging room reaches everybody in one order, so that the start of
the game, which the host says, comes before what others say after it. Ports are right or wrong: each node picks a starting port from its own
clock (attachSlotList), so nobody knows another's port before it is told, and a slot's port is never 0. `m_timeTillNextSend` is not set
by the constructor; the allocator of the engine clears memory, so it starts as 0.

Time is abstract, and clocks run down in their order: retries are over when nothing is on its way and nobody has anything else to do (`Quiet`), a
timeout of 15 seconds fires when no retries are running out either (`LongQuiet`); each may be too early, `setup.late` times in all. The retry
interval of half a second is longer than what is on its way takes, and than the nodes of a pair are apart: a probe or port is sent again only when the
target is in the same round and the messages that have come are read (`ProbeDue`, `PortDue`), where the code goes by the clock alone. So that a node's
retries run out before its target comes to the round is not in the model (see 6). A probe taken in the very update in which `Fail` happens counts as lost.

## 3. Runs

| Run | Instance | Checks |
|---|---|---|
| `LockstepRing` | 2 players, run-ahead 1, keep 2, ring 7, 8 frames, client may leave, one command each | TypeOK, NoOverrun, RingIsFresh, KeptForLaggards |
| `LockstepRunAhead` | 2 players, run-ahead 1..3, 5 frames, the router changes it twice | NoDesync, AnnouncedCountIsFinal, SettingsAgree |
| `LockstepHandover` | 3 players, the router may leave, a client issues a command | Replication (refinement) |
| `LockstepProgress` | 3 players, a client may leave | Progress (liveness) |
| `CommandListOrder` | 11 messages of 2 players and acks, lists up to 7 | TypeOK, NothingLost, OrderIsCanonical (refinement) |
| `BigCommandsDelivery` | commands of 4 and 7 bytes, chunks of 2, both players may leave | NodesOK, Integrity, EventuallyDelivered (liveness) |
| `BigCommandsSameID` | two commands with the same ID | Integrity, violated |
| `DisconnectSurvive` | 3 players, the router crashes on its first frame with a command issued, the others vote or time out | DTypeOK, OneRemover, DifferOnlyByTheLost, NoOverrun, NobodyLeftBehind, SurvivorsContinue (liveness) |
| `DisconnectSameFrame` | the same, one frame longer, nobody votes | RemovedOnSameFrame, violated |
| `RelayDelivery` | 3 players; router or client leaves while a command is under way; one packet lost or late | TypeOK, KeptForWhoNeedsIt, PendingUntilAllHaveIt, EverybodyFinishes, QueuesDrain (liveness) |
| `NATRounds` | 3 players, 3 rounds, 1 retry; four setups: a netgear, a firewall that asks the mangler each round, one that asks once and a lost probe, one timeout too early | TypeOK, DoneWhenHeard, NoneForgotten, AllKnowWhere, NobodyHangs, ConnectsUnlessSkipped (both liveness) |
| `NATMangler` | 2 players, one asks the mangler, 11 retries, no fault | PortIsSent, violated |

Bounds, and why they are enough:

* `MaxFrame`: in `LockstepRing` the ring has seven slots and eight frames are run, so
  each player's ring wraps: every way a slot can be used for the wrong frame can occur. The ring
  is as short as `RingAssumption` (keep + 2 * run-ahead + 3) and `ReachAssumption`
  (3 * run-ahead + 4) allow: TLC finds a violation with one less. The constants of the code
  (258, 65, 64) meet the same inequalities: 65 + 2 * 64 + 3 = 3 * 64 + 4 = 196. The `Disconnect`
  runs have a ring of seven for the same reason.
* `LockstepRunAhead`: three run-aheads and two changes give growing, shrinking and
  shrinking-then-growing while frames are announced, which is the case the comment in
  `updateRunAhead` (ConnectionManager.cpp:1273) tells of. Without the maximum taken
  there the run fails (mutant `UpdateRunAheadTooEarly`). Nobody leaves in this run: that `SettingsAgree` holds of
  the players awaited and the router too when players leave is what `SettingsNeverDiffer` proves.
* Three players are the fewest with a relayed command that concerns somebody other than
  sender and router, and with a handover.
* Two commands from each of the lists' sections, with gaps, reach every branch of
  `addMessage`; seven places let each section have neighbours on both sides.
* `DisconnectSurvive`: any part of the crashed router's packets has reached any of the others,
  the two that are left are on the same frame or one apart (no two players are further
  apart with a run-ahead of one); the router is removed on its last frame, which the others then have to execute, or on the one
  after it. Users vote on the first of the two; their votes may arrive on the second.
* `RelayDelivery`: the four scripts are the pairs of who leaves (router, the next router, a client) and who has
  a command under way (relayed, or sent past the router); one fault is enough for every branch, since a lost
  acknowledgement and a late packet are what makes a command be received again.
* `NATRounds`: three players are the fewest with rounds at different speeds and with one that is alone in a round; each of them
  is alone once, meets a node that asks the mangler and one that does not. A retry more than `MaxRetries` = 0 allows behaves like
  the first. The table of pairs for 2 to 8 players is checked in full by the assumption `RoundRobin`.
* Chunk arithmetic: a size that is a multiple and one that is not.

Every property has a mutant in PROJECT.json: a plausible bug at a named place of the
code, kept in the modules as an operator with "Plausible bug" above it, that makes TLC
report the property violated.

## 4. Fairness

`Lockstep!Fairness`: the main loop runs (weak fairness of StartGame, ProcessFrameTick and
ExecuteFrame for every player) and what is resent long enough arrives (weak fairness of
`Deliver`). The second holds for a connection that is open (it resends until
acknowledged) and for one that quits as far as its own commands go: a leaving player
calls `clearCommandsExceptFrom`, so hops it would still have relayed are exempt
(`InQueue`). No fairness is assumed of users or of run-ahead changes.

With this fairness `Progress` does *not* hold when the packet router leaves: what it had
not yet relayed of others is gone, the others resend through the next router only once
they have executed the router's leave command, and two that each miss a different
command wait for ever. In the program the disconnect manager then comes to
the rescue by sending whole frames. The run therefore lets a client leave;
`LockstepHandover` shows that the handover is safe. `Relay`, with one command besides the leave
command and acknowledgements instead of a permanent net, shows what does hold: `EverybodyFinishes`.

`Disconnect!DFairness`: some handler that can do something for the game runs, a message of a player that
is up arrives in the end, a crashed player falls silent and then times out. No
user has to vote: a vote only makes it faster.

`Relay!Fairness`: a message that is resent arrives for each pair of players (a lossy network that
loses everything for ever is what the disconnect manager is for), frames are executed when
ready, and a quitting connection times out.

`BigCommands!Fairness`: each chunk that was sent is received (its connection resends it
until acknowledged, and it is acknowledged when it is processed), and doRelay ends.

`NAT!Fairness`: the menu updates every node, each update does all its parts, the chat server delivers, the mangler
answers, a probe that is not lost arrives, and when nothing else can happen time passes until a timeout fires.

## 5. Theorems

For all values of the constants that the ASSUMEs allow; no bound of a run matters.

* `LockstepProofs!TypeCorrect`: `Spec => []TypeOK`. Not only types: `runAhead` stays within
  its limits, and `Router` and `NewRunAhead` are CHOOSEs, so the invariant `TypeInv` has to
  know that a player in the game is never alone without itself (`inGame[p]` holds p until it
  has LEFT), that commands in rings and in `net` were created, and that IDs are bounded, so
  that the last run-ahead change of a frame exists (well-foundedness of Nat).
* `AnnounceProofs!AnnouncedCountsFinal`: `Spec => []AnnouncedCountIsFinal`, no command is created for a
  frame whose count is out. The inductive invariant `AnnounceInv` adds to `TypeInv`
  - `ClockOK`: announced frames stay below the execution frame while the player plays, and the
    execution frame never goes back and is at most `MaxRunAhead` ahead;
  - `CreatedOK`, `AnnouncedOK`: commands exist for frames up to the execution frame,
    counts for frames below it (one more of each for a player that leaves);
  - `NotToSelf`: nobody is sent its own commands, so no one writes into its own ring but
    itself;
  - `OwnRingOK`: within the window of frames kept, the slot of a frame in the own ring
    holds exactly the commands created for it, so that the count sent is their number.
  `OwnRingOK` is where `RingAssumption` is needed: the window from the oldest frame kept
  to the last one announced must not be longer than the ring, by `SlotUnique`.
* `DesyncProofs`: `NobodyDesyncs` (`Spec => []NoDesync`), `NeverOverrun`, `RingStaysFresh`, `SettingsNeverDiffer`
  (`NoOverrun`, `RingIsFresh`, `SettingsAgree`) and `ImplementsLog` (`Spec => Replication`: the
  initial states map to those of `Replicated`, each `ExecuteFrame` to a step of the log, every other action to a
  stutter). The inductive invariant `DesyncInv` adds to `AnnounceInv`, in the order of the argument:
  - `StartOK`, `LeaveOK`: how many frames have been executed, and that a player leaves with one command, for
    the last frame it announces;
  - `SkewOK`: a frame is executed only when everybody in the game has announced it, so nobody is more than
    `MaxRunAhead` + 1 frames ahead of one it waits for (`Lead`), and who has been dropped has announced nothing later;
  - `ReachOK`: hence a transmission comes at most 2 * `MaxRunAhead` + 2 frames early at the router, and one
    run-ahead and a frame more where a router relays to a slower player;
  - `RemoteOK`, `OwnCountOK`: hence the slot of a frame still to be executed holds commands of that frame only,
    each once, and a count that was announced. This is where `ReachAssumption` is needed: what comes
    that early must not go round the ring to a frame that is awaited;
  - `NoDesync`, `RunAheadAt`: a frame is executed when the count of every player equals the number announced, which by
    `AnnouncedCountIsFinal` is the number of all commands ever created for it; a subset as large as the
    whole is the whole. The run-ahead and the players in the game follow from the commands executed.
* `DesyncProofs!LaggardsServed`: `KeepsEnough` implies `Spec => []KeptForLaggards`. `KeptInv` adds to `DesyncInv`
  that the slots of frames somebody in the game has yet to execute hold all commands of the frame. Two more
  conditions on the constants are needed, `KeepsEnough`: `FramesToKeep > MaxRunAhead` (65 > 64), and either no two players leave or
  the ring is longer than 4 * `MaxRunAhead` + 4. The code's ring of 258 is 3 short of the latter, and `KeptForLaggards`
  is indeed false for such a ring when two of four players leave (see 6).
* `DisconnectProofs!DisconnectTypes`, `OneRemoverAlways`, `NobodyLeftBehindAlways`, `DifferOnlyByTheLostAlways` and
  `NeverOverrunDespiteLoss` (`DTypeOK`, `OneRemover`, `NobodyLeftBehind`, `DifferOnlyByTheLost`, `NoOverrun`), all of them
  `DSpec => [](...)`: the game with one crash and a disconnect manager beside every player, with the run-ahead it has come
  to the crash with, nothing issued but what section 2 says, and nobody leaving. `DifferOnlyByTheLost` allows a difference from the frame of the removal
  on, never before it. What `Lockstep!Spec` never does, frames
  sent a second time by somebody else and a player dropped without a command of its own, takes an invariant of its own, `DInv`.
  It is `GameOK` and `ManagerOK`:
  - `AccusedOK`, `OneLost`, `RemovedOK`: only a player that has fallen silent is timed out, voted out or removed, and there is one such player
    at most. So whoever is up awaits everybody who is up;
  - `LeadOK`: hence nobody is further ahead of one who is up than without crashes, and `RingsExact`: every slot of the window holds
    commands of its frame and, if any, the count that was announced;
  - `CountsKnown`: a frame kept after it was executed has its count, so that `sendFrameDataToPlayer` repeats
    what was announced; `ExecutedOK`: a frame is executed with all commands of every player not removed, and nothing else;
  - `ReportsOK`, `NoticeOK`: what is reported of frames was so when it was sent. The one that removes has heard
    from everybody else that is up and is before all of them in the fallback plan, so there is one, and nobody is behind it.
* `CommandListProofs!LastInsertedValid`, `AddedStays`: `Spec => []TypeOK` and `Spec => []NothingLost`, for any set of messages.
  The place of the last insertion is always a place of the list, which the code dereferences; and what the neighbour of a new
  message says to be a duplicate is one, so no message is dropped. Both follow from what one insertion or removal does to a sequence.
* `CommandListProofs!OrderIsCanonicalAlways`: `Spec => OrderIsCanonical`, the list implements `OrderedCommands` for any set of messages. The
  invariant `OrderInv` says that the list is sorted. A search loop that skips what is smaller stops where the list is in order (no induction:
  it stops on the least place with a property, `FirstFrom`) and the place fits (`SearchFits`); so does that of the fast path, because
  it looks at both neighbours (`FollowsLastFits`); and acks come first. `IsOrdering` leaves one list for a set of commands.
* `RelayProofs!RelayTypeCorrect`: `Spec => []TypeOK`, for any number of players, scripts and faults. It needs that
  the next router exists (`SomebodyStays`: not everybody leaves) and that pending commands are for others than who keeps them (`PendingForOthers`).
* `RelayProofs!KeptForWhoNeedsItAlways`, `PendingUntilAllHaveItAlways`: `Spec => [](RouterStays /\ NothingAfterLeave => ...)` of
  `KeptForWhoNeedsIt` and `PendingUntilAllHaveIt`, for any number of players, clients that leave (no two on the same frame, `RelayAssumption`), and faults. The two conditions are on
  the script of the game that is played: its packet router does not leave (with one that does and four players both are false, see 6),
  and a player issues nothing for frames after the one it leaves on (nobody leaves while others load). Two of the four scripts of
  `RelayDelivery` are such games. The invariant `ServedInv`, which was also checked by TLC for three players and two frames
  and for four players:
  - `LinksOK`, `GameOK`: connections and fallback plan follow the frames executed, so who has yet to execute the frame of a command
    is connected to whoever issues or relays it in time (`ReachesWhoNeedsIt`), and what is ignored is not needed (`IgnoredNotNeeded`);
  - `CommandOK`: a command goes one of three ways, to the router, from it, or directly; an acknowledged one is not needed by who
    acknowledges it (`AckOK`); hence a list loses a command only when the player at its end does not need it;
  - `RelayedOK`: the router waits for all that play to the end and need the command, so that a second stage says
    that nobody does (`AllServed`); until then the sender has it pending (`PendingOK`).
* `NATProofs!NATTypeCorrect`, `DoneWhenHeardAlways`, `NoneForgottenAlways`, `AllKnowWhereAlways`: the first two are `Spec => []TypeOK` and `Spec => []DoneWhenHeard`, for 2 to 8 players with any
  firewalls and any number of faults. The invariant `NATInv` adds to the types that every CONNDONE under way says what is so
  (`Truthful`) and that only who has to asks the mangler. A CONNDONE of another round is harmless because
  its sender is compared with the partner of the round, and partners are mutual (`PartnerMutual`, from the assumption `RoundRobin`:
  a formula about the table alone, which TLC evaluates in full whenever it loads the module). The other two are about
  what is never lost, and depend on what the two at the ends of a connection have said to each other:
  - `TalkInv` adds to `NATInv` what a message, a probe and a state of a node say of its sender's past (`NodeOK`, `MessagesOK`,
    `ProbesOK`, `HeardOK`, `KnownOK`, `SourceAt`, `WordAt`). `Summary(p)` is all that the other nodes can see of a step of
    node p. Each action is shown once to have it (`StepSummary`); what is kept for the others is proved from it alone;
  - `EndedHeard`: in a round that somebody has been through, everybody that has not failed has been heard. It rests on
    the table: two players meet in one round only (`MeetOnce`) and in some (`MeetSome`);
  - `ToldInv`, for `NoneForgotten`: who has been heard is told of (`Told`), and the word of a round comes before that of later ones
    (`Ordered`), so that one read and thrown away is always one of a round that is over. It needs that no two netgears meet and that nobody has timed out;
  - `PortInv`, for `AllKnowWhere`: the port a target has been told is right or a right one is coming after it
    (`RightPortAfter`), one that was probed has told its port (`PortAfterProbe`), and a round that is over leaves the port known (`EndedKnown`).
* `BigCommandProofs!PutTogetherAsSplit`, `NodesInOrder`: with `UniqueIDs`, `Spec => []Integrity` and `Spec => []NodesOK`,
  for all sizes of commands, packets and wrappers. The invariant: a node is at all times
  `NodeOf(c, S)`, command c with the chunks S written. Lemmas: the k-th chunk is the bytes
  with quotient k (`QuotientUnique`), chunks cover the command (`ChunksCover`), a chunk fits
  into the node of its command (`CopyFillsNode`), all chunks make the buffer
  (`CompleteIsBuffer`).

Model-checked only:

* Liveness, out of the prover's reach: `Progress`, `EventuallyDelivered`, `SurvivorsContinue`, `EverybodyFinishes`, `QueuesDrain`,
  `NobodyHangs`, `ConnectsUnlessSkipped`.
* `KeptForWhoNeedsIt` and `PendingUntilAllHaveIt` of `Relay` in games whose packet router leaves: they hold for three
  players, which is what the run checks, and not for four (see 6).
* The properties of `Lockstep` in a game in which somebody crashes, except for those of `DisconnectProofs`: the theorems about
  `Lockstep!Spec` do not carry over, and some are then false (`NoDesync`, see the second finding).

## 6. Findings

1. *Big commands mixed* (`BigCommandsSameID`): parts of big commands are told apart by the
   command ID alone, IDs are unique per player only, and all players start at 64000. Two players
   that send a big command with the same ID at the same time are mixed into one that nobody
   sent. A rare desync.
2. *Removal on different frames* (`DisconnectSameFrame`): `processDisconnectPlayer` asserts that the player is
   removed on the frame the remover named (DisconnectManager.cpp:315). The packet router
   crashes when its count for a frame, and its command on it, have reached one of two others. The one that
   has nothing removes it, tells the other, and as the new router resends its own count. If that
   overtakes the message (a lost packet, or simply `doSend`, where FRAMEINFO sorts before
   DISCONNECTPLAYER and what does not fit the packet is put off), the other executes the frame with
   the lost player's commands: the games differ. `DifferOnlyByTheLost` shows that this is all
   that can differ.

3. *The mangler's answer forgotten* (`NATMangler`): "find the next mangled source port, and then send it to the other player. if this requires
   talking to the mangler, we'll have to wait till a later update to send our port out" (NAT.cpp:724). While a node waits for the mangler, the port of
   its target may come first; `gotMangledPort` then sets WAITINGFORRESPONSE (NAT.cpp:1009), and the answer, which only WAITINGFORMANGLERRESPONSE
   reads, is never read: no later update sends the port out. The port messages that are resent carry 0, which the target takes for 1024. The run's
   trace goes on, with nothing lost: the probe of the node comes through and the target says so; the target probes a port nobody listens on eleven
   times, has too many retries after 5.5 seconds and fails; the node, whose connections are then all done or failed, goes on to the game alone.
   `ConnectsUnlessSkipped` shows that this is all that can stop them when no timeout fires too early.

Also seen, not stated as runs:

* *Rings.* NetworkDefs.h:39 sizes the rings by "one beyond twice the max runahead". When players leave one after the other a
  command can be up to 3 * `MaxRunAhead` + 3 frames early at one that is leaving. The 258 slots have room for the frames still to be executed
  (`ReachAssumption`, `NeverOverrun`); only the comment is wrong about these.
* *Rings and two that leave.* The slots of frames executed, kept for players that are behind, have no such room. Four players, run-ahead M and a
  ring of 4 * M + 2 (258 for the code's 64): q, which leaves, is on frame F - M - 1; p, which leaves too, on F; the router, which has
  dropped q, on F + M + 1; another client, which has dropped both, is on F + 2 * M + 1 and issues a command for F + 3 * M + 1. The router relays it
  to p, where it falls into the slot of F - M - 1, which q has yet to execute: should p send q that frame (`sendFrameDataToPlayer`), it sends
  the later command with it. It takes the largest run-ahead and harms only one that is leaving anyway. With one leaver
  at most, or a ring three frames longer, it cannot happen (`LaggardsServed`).
* *Duplicate acks.* `addMessage` compares with one neighbour only; acks of two players' commands with equal IDs hide each
  other, and the same ack is queued twice (in `CommandList`, with acks 1 and 2 of two players). Costs traffic.
* *NAT, two netgears*: "nodes with a netgear bug behavior need to be matched up first" (NAT.cpp:504). Of two that meet, a first PROBED that comes late,
  after the connection is done, sets WAITINGFORRESPONSE again (NAT.cpp:961); nobody says again that it is done, and the node fails.
  Hence the condition of `NoneForgotten` that there is one netgear at most.
* *NAT, round timeout*: it is noted after `connectionUpdate` has returned (NAT.cpp:249), the others are told, but the node itself fails only
  if the next update still sees it. A port message or the next round undoes it: the node can end with success, one that the others count as
  failed, and no longer wait for. It runs again with the same round timeout in the next round.
* *NAT, netgears never retry again*: `m_timeTillNextSend` stays -1 for all later rounds, and the constructor does not set it.
* *NAT, retries*: eleven probes half a second apart are over after 5.5 seconds, the round timeout is 15: a node that starts long before its target fails.
* *NAT, unused*: `m_myConnections` is never set, so no keep-alive is sent; `getPort() == 0` (NAT.cpp:893, 954) never holds;
  a probe from an unexpected port sets `m_sourcePorts[target]`, the own port, to the target's (NAT.cpp:358).

* *Four players and a router that leaves.* With N = 4 and a leaving router, `PendingUntilAllHaveIt` is violated:
  a client that already has the next router, namely itself, acknowledges what the old router relayed not to
  it but to the sender of the command, with both stages at once (ConnectionManager.cpp:1087). The sender forgets the command; the
  old router, leaving, clears it from its lists (ConnectionManager.cpp:960) before the fourth player has it. That one
  waits until the disconnect manager sends it the frame.
* *The wrap in `sendSingleFrameToPlayer`* (ConnectionManager.cpp:2393): the unsigned subtraction wraps in the first
  65 frames, every frame counts as too far in the past, and a player that is behind gets none. With
  FirstFrame = 1 and FramesToKeep = 3 (ring 8) `SurvivorsContinue` is violated; with 1 and 1 it holds.
* A message that reaches a leaver after it executed its own leave command is never acknowledged, since a quitting connection takes
  nothing new (Connection.cpp:142): who sent it waits for the 30 seconds.
* `FRAMES_TO_KEEP` of 65 is exactly what the largest lead, `MaxRunAhead` + 1, needs (first half of `KeepsEnough`).

## 7. Not modelled

* Run-ahead metrics (`Lockstep` lets the router choose any value), the transport's buffers, file transfer, the
  16-bit wrap of command IDs, the LAN lobby: protocol code that would make modules of its own; their hazards
  are in PROJECT.json.
* Of NAT: the detection of a firewall's kind (`FirewallHelper`), the arithmetic of the next port, players behind the
  same NAT, a mangler that is not found or does not answer, keep-alives, the wait for statistics.
* Two crashes in one game and a network that is split in two: four players with disconnect managers are out of
  TLC's reach, and the code has no protocol for a split: each part goes on alone.
* Packet encoding field by field (the compression of repeated fields).
* Game logic, client and rendering: the payload that is replicated, far outside the reach of a model checker. They are
  nearly all of the repository's 1.7 million lines, so the share of lines the modules stand for is a fraction of a
  percent whatever is modelled of the network code.
* Libraries, tools and platform code (third-party or without protocol), the online lobby (services that no longer exist).

## 8. Plan

1. *Done*: `FrameData`, `Lockstep`, `Replicated`, `CommandList`, `OrderedCommands`, `BigCommands`, `Disconnect`, `Relay`, `NAT`, and the theorems of 5.
2. *Next, proofs*: every safety property that a run checks is a theorem now. What could still be stated: `Relay` with a leaving router and three
   players, which needs the order in which the old and the new router acknowledge; `Relay` as the implementation of `Lockstep`'s `net`.
3. *Models, in place of runs that say least*: `RunAhead` (the calculation on bounded inputs), `CommandIDs` (the wrap), the lobby's slots, the transport's buffers.
