---------------------------- MODULE BigCommands ----------------------------
(***************************************************************************)
(* Commands too big for a packet: the sender splits them into wrapper      *)
(* commands (NetPacket::ConstructBigCommandPacketList), each of which is   *)
(* sent, relayed, resent and acknowledged as a command of its own; the     *)
(* receiver puts them together again (NetCommandWrapperList).              *)
(*                                                                         *)
(* One receiver is modelled.  net is the set of every chunk that was sent: *)
(* one stays receivable, so it may be late, repeated and out of order.     *)
(* Chunks do come twice even without loss: the packet router relays the    *)
(* chunks, and then the whole command again when it has all of them.       *)
(***************************************************************************)
EXTENDS Naturals, FiniteSets, Sequences

CONSTANTS
    Commands,       \* the big commands: records of player, id and size
    MaxPacketSize,  \* MAX_PACKET_SIZE
    WrapperSize     \* size of a wrapper command without data

ASSUME SizesAssumption ==
    /\ MaxPacketSize \in Nat /\ WrapperSize \in 1 .. MaxPacketSize - 1
    /\ Commands \subseteq [player : Nat, id : Nat, size : Nat]
    /\ \A c \in Commands : c.size > MaxPacketSize

VARIABLES
    net,        \* every chunk that was sent
    connected,  \* players whose connection is open
    relaying,   \* the receiver is in the loop of doRelay over the packets
    nodes,      \* m_netCommandWrapperList: the nodes by wrapped command ID
    delivered   \* the data of every command put together (history)

vars == <<net, connected, relaying, nodes, delivered>>

-----------------------------------------------------------------------------
Senders == {c.player : c \in Commands}

(* Every byte is told from every other, and from memory not written yet. *)
Byte(c, i) == <<c.player, c.id, i>>
Uninitialized == <<>>

Buffer(c) == [i \in 0 .. c.size - 1 |-> Byte(c, i)]

CommandSizePerPacket == MaxPacketSize - WrapperSize

(* Plausible bug: a chunk too many when the size is a multiple. *)
NumChunksAlwaysOneMore(size) == size \div CommandSizePerPacket + 1

NumChunks(size) ==
    size \div CommandSizePerPacket
        + (IF size % CommandSizePerPacket > 0 THEN 1 ELSE 0)

Chunk(c, k) ==
    LET offset == k * CommandSizePerPacket
        rest == c.size - offset
        length == IF rest < CommandSizePerPacket THEN rest ELSE CommandSizePerPacket
    IN  [player |-> c.player, wrappedCommandID |-> c.id, chunkNumber |-> k,
         numChunks |-> NumChunks(c.size), dataOffset |-> offset,
         data |-> [i \in 1 .. length |-> Byte(c, offset + i - 1)],
         totalDataLength |-> c.size]

ConstructBigCommandPacketList(c) == {Chunk(c, k) : k \in 0 .. NumChunks(c.size) - 1}

-----------------------------------------------------------------------------
NewNode(chunk) ==
    [numChunks |-> chunk.numChunks,
     chunksPresent |-> {},
     data |-> [i \in 0 .. chunk.totalDataLength - 1 |-> Uninitialized]]

IsComplete(node) == Cardinality(node.chunksPresent) = node.numChunks

(* Plausible bug: the chunk at the very end does not fit. *)
FitsStrictly(node, chunk) ==
    /\ chunk.chunkNumber < node.numChunks
    /\ chunk.chunkNumber \notin node.chunksPresent
    /\ chunk.dataOffset \in DOMAIN node.data
    /\ Len(chunk.data) <= MaxPacketSize
    /\ chunk.dataOffset + Len(chunk.data) < Cardinality(DOMAIN node.data)

(* The checks of copyChunkData: a chunk that does not fit is ignored. *)
Fits(node, chunk) ==
    /\ chunk.chunkNumber < node.numChunks
    /\ chunk.chunkNumber \notin node.chunksPresent
    /\ chunk.dataOffset \in DOMAIN node.data
    /\ Len(chunk.data) <= MaxPacketSize
    /\ chunk.dataOffset + Len(chunk.data) <= Cardinality(DOMAIN node.data)

(* Plausible bug: the offset is worked out from the chunk's own length. *)
CopyChunkDataByLength(node, chunk) ==
    LET from == chunk.chunkNumber * Len(chunk.data)
    IN  IF Fits(node, chunk)
          THEN [node EXCEPT
                  !.chunksPresent = @ \cup {chunk.chunkNumber},
                  !.data = [i \in DOMAIN @ |->
                              IF i \in from .. from + Len(chunk.data) - 1
                                THEN chunk.data[i - from + 1] ELSE @[i]]]
          ELSE node

CopyChunkData(node, chunk) ==
    LET from == chunk.dataOffset
    IN  IF Fits(node, chunk)
          THEN [node EXCEPT
                  !.chunksPresent = @ \cup {chunk.chunkNumber},
                  !.data = [i \in DOMAIN @ |->
                              IF i \in from .. from + Len(chunk.data) - 1
                                THEN chunk.data[i - from + 1] ELSE @[i]]]
          ELSE node

(* processWrapper: the node of the wrapped command ID, a new one if there   *)
(* is none.  Who sent the chunk plays no part.                              *)
ProcessWrapper(chunk, list) ==
    LET id == chunk.wrappedCommandID
        node == IF id \in DOMAIN list THEN list[id] ELSE NewNode(chunk)
    IN  [i \in DOMAIN list \cup {id} |->
            IF i = id THEN CopyChunkData(node, chunk) ELSE list[i]]

Ready == {id \in DOMAIN nodes : IsComplete(nodes[id])}

Init ==
    /\ net = {}
    /\ connected = Senders
    /\ relaying = FALSE
    /\ nodes = <<>>
    /\ delivered = {}

SendBigCommand(c) ==
    /\ c.player \in connected
    /\ net' = net \cup ConstructBigCommandPacketList(c)
    /\ UNCHANGED <<connected, relaying, nodes, delivered>>

(* doRelay, for each packet there is: process the chunk in it, unless its   *)
(* player has gone.                                                         *)
ProcessNetCommand(chunk) ==
    /\ chunk \in net
    /\ relaying' = TRUE
    /\ nodes' = IF chunk.player \in connected THEN ProcessWrapper(chunk, nodes) ELSE nodes
    /\ UNCHANGED <<net, connected, delivered>>

(* The end of doRelay: take out the commands that are complete.  *)
GetReadyCommands ==
    /\ relaying
    /\ relaying' = FALSE
    /\ delivered' = delivered \cup {nodes[id].data : id \in Ready}
    /\ nodes' = [id \in DOMAIN nodes \ Ready |-> nodes[id]]
    /\ UNCHANGED <<net, connected>>

(* The connection to a player closes; what it has sent so far stays. *)
Disconnect(p) ==
    /\ ~relaying
    /\ p \in connected
    /\ connected' = connected \ {p}
    /\ UNCHANGED <<net, relaying, nodes, delivered>>

Next ==
    \/ \E c \in Commands : SendBigCommand(c)
    \/ \E chunk \in net : ProcessNetCommand(chunk)
    \/ GetReadyCommands
    \/ \E p \in Senders : Disconnect(p)

Spec == Init /\ [][Next]_vars

-----------------------------------------------------------------------------
(* The IDs of the big commands tell them apart. *)
UniqueIDs == \A c, d \in Commands : c.id = d.id => c = d

(* The list holds one node for each ID, none without a chunk (the node made *)
(* for a chunk never turns it away); outside doRelay none is complete.      *)
NodesOK ==
    /\ DOMAIN nodes \subseteq {c.id : c \in Commands}
    /\ \A id \in DOMAIN nodes :
          /\ nodes[id].chunksPresent # {}
          /\ nodes[id].chunksPresent \subseteq 0 .. nodes[id].numChunks - 1
          /\ ~relaying => ~IsComplete(nodes[id])

(* A command that is put together is, byte for byte, one that was split:    *)
(* no byte of another command and none that was never written.              *)
Integrity == \A data \in delivered : \E c \in Commands : data = Buffer(c)

-----------------------------------------------------------------------------
(* A connection resends each chunk until it is acknowledged, which the      *)
(* receiver does when it processes it, and doRelay ends.                    *)
Fairness ==
    /\ WF_vars(GetReadyCommands)
    /\ \A c \in Commands : \A k \in 0 .. NumChunks(c.size) - 1 :
          WF_vars(ProcessNetCommand(Chunk(c, k)))

FairSpec == Spec /\ Fairness

(* A big command arrives, unless its player leaves before it does. *)
EventuallyDelivered ==
    \A c \in Commands :
        (\E chunk \in net : chunk.player = c.player /\ chunk.wrappedCommandID = c.id)
            ~> (Buffer(c) \in delivered \/ c.player \notin connected)

=============================================================================
