-------------------------- MODULE BigCommandProofs --------------------------
(***************************************************************************)
(* When their IDs tell the big commands apart, a command that is put       *)
(* together is one that was split, whatever the sizes of commands and      *)
(* packets: theorem and proof.  The argument: a node is at any time what   *)
(* one command looks like when some of its chunks have been written.       *)
(***************************************************************************)
EXTENDS BigCommands, FiniteSetTheorems, TLAPS

-----------------------------------------------------------------------------
Bytes(c) == 0 .. c.size - 1
ChunkNumbers(c) == 0 .. NumChunks(c.size) - 1

(* The chunk a byte travels in. *)
ChunkOfByte(i) == i \div CommandSizePerPacket

(* A node that has received the chunks of S, of command c. *)
NodeOf(c, S) ==
    [numChunks |-> NumChunks(c.size),
     chunksPresent |-> S,
     data |-> [i \in Bytes(c) |->
                 IF ChunkOfByte(i) \in S THEN Byte(c, i) ELSE Uninitialized]]

ChunksSent == \A chunk \in net : \E c \in Commands : \E k \in ChunkNumbers(c) :
                  chunk = Chunk(c, k)

NodesFilled ==
    \A id \in DOMAIN nodes : \E c \in Commands : \E S \in SUBSET ChunkNumbers(c) :
        c.id = id /\ S # {} /\ nodes[id] = NodeOf(c, S)

NoneReady == ~relaying => \A id \in DOMAIN nodes : ~IsComplete(nodes[id])

PutTogetherInv ==
    /\ relaying \in BOOLEAN
    /\ ChunksSent
    /\ NodesFilled
    /\ NoneReady
    /\ Integrity

-----------------------------------------------------------------------------
(* Arithmetic of chunks. *)

LEMMA ChunkSize == CommandSizePerPacket \in Nat \ {0}
BY SizesAssumption DEF CommandSizePerPacket

LEMMA CommandFacts ==
    ASSUME NEW c \in Commands
    PROVE  c.id \in Nat /\ c.size \in Nat \ {0}
BY SizesAssumption

LEMMA Division ==
    ASSUME NEW n \in Nat \ {0}, NEW i \in Nat
    PROVE  /\ i \div n \in Nat /\ i % n \in 0 .. n - 1
           /\ i = (n * (i \div n)) + (i % n)
OBVIOUS

LEMMA ProductGrows ==
    ASSUME NEW n \in Nat \ {0}, NEW a \in Nat, NEW b \in Nat, a < b
    PROVE  (n * a) + n <= n * b
<1> DEFINE d == b - a
<1>1. d \in Nat /\ d >= 1 /\ b = a + d
  OBVIOUS
<1>2. n * b = (n * a) + (n * d)
  BY <1>1
<1>3. n * d >= n
  BY <1>1
<1> HIDE DEF d
<1> QED
  BY <1>1, <1>2, <1>3

(* A number is in the k-th chunk when it is at k * n or behind it, and      *)
(* before the next one.                                                     *)
LEMMA QuotientUnique ==
    ASSUME NEW n \in Nat \ {0}, NEW i \in Nat, NEW k \in Nat
    PROVE  i \div n = k <=> (k * n <= i /\ i < (k * n) + n)
<1> DEFINE q == i \div n
           r == i % n
<1>1. q \in Nat /\ r \in 0 .. n - 1 /\ i = (n * q) + r
  BY Division
<1> HIDE DEF q, r
<1>2. k * n = n * k /\ n * k \in Nat /\ n * q \in Nat
  BY <1>1
<1>3. CASE q = k
  BY <1>1, <1>2, <1>3 DEF q
<1>4. CASE q < k
  <2>1. (n * q) + n <= n * k
    BY <1>1, <1>4, ProductGrows
  <2> QED
    BY <1>1, <1>2, <1>4, <2>1 DEF q
<1>5. CASE k < q
  <2>1. (n * k) + n <= n * q
    BY <1>1, <1>5, ProductGrows
  <2> QED
    BY <1>1, <1>2, <1>5, <2>1 DEF q
<1> QED
  BY <1>1, <1>3, <1>4, <1>5

(* The chunks cover the command: every byte is in one, none begins behind   *)
(* the end.                                                                 *)
LEMMA ChunksCover ==
    ASSUME NEW size \in Nat \ {0}
    PROVE  /\ NumChunks(size) \in Nat
           /\ \A i \in 0 .. size - 1 : ChunkOfByte(i) \in 0 .. NumChunks(size) - 1
           /\ \A k \in 0 .. NumChunks(size) - 1 : k * CommandSizePerPacket < size
<1> DEFINE n == CommandSizePerPacket
           q == size \div n
           r == size % n
           m == NumChunks(size)
<1>1. n \in Nat \ {0}
  BY ChunkSize
<1>2. q \in Nat /\ r \in 0 .. n - 1 /\ size = (n * q) + r
  BY <1>1, Division
<1>3. m = q + (IF r > 0 THEN 1 ELSE 0)
  BY DEF NumChunks
<1>4. \A i \in Nat : i \div n = ChunkOfByte(i)
  BY DEF ChunkOfByte
<1> HIDE DEF n, q, r, m
<1>5. m \in Nat
  BY <1>2, <1>3
<1>6. ASSUME NEW i \in 0 .. size - 1 PROVE ChunkOfByte(i) \in 0 .. m - 1
  <2> DEFINE d == ChunkOfByte(i)
  <2>1. d \in Nat /\ d * n <= i
    <3>1. i \in Nat /\ i \div n = d
      BY <1>4
    <3>2. i \div n \in Nat
      BY <1>1, <3>1, Division
    <3> QED
      BY <1>1, <3>1, <3>2, QuotientUnique
  <2> HIDE DEF d
  <2>2. ~(m - 1 < d)
    <3> SUFFICES ASSUME m - 1 < d PROVE FALSE
      OBVIOUS
    <3>1. d * n = n * d /\ n * q \in Nat
      BY <1>1, <1>2, <2>1
    <3>2. CASE r > 0
      <4>1. (n * q) + n <= n * d
        BY <1>1, <1>2, <1>3, <2>1, <3>2, ProductGrows
      <4> QED
        BY <1>1, <1>2, <2>1, <3>1, <4>1
    <3>3. CASE r = 0
      <4>1. d = q \/ q < d
        BY <1>2, <1>3, <2>1, <3>3
      <4>2. n * q <= n * d
        BY <1>1, <1>2, <2>1, <4>1, ProductGrows
      <4> QED
        BY <1>1, <1>2, <2>1, <3>1, <3>3, <4>2
    <3> QED
      BY <1>2, <3>2, <3>3
  <2> QED
    BY <1>5, <2>1, <2>2 DEF d
<1>7. ASSUME NEW k \in 0 .. m - 1 PROVE k * n < size
  <2>1. k \in Nat /\ k * n = n * k /\ n * k \in Nat /\ n * q \in Nat
    BY <1>1, <1>2
  <2>2. CASE r > 0
    <3>1. k = q \/ k < q
      BY <1>2, <1>3, <2>2
    <3>2. n * k <= n * q
      BY <1>1, <1>2, <2>1, <3>1, ProductGrows
    <3> QED
      BY <1>2, <2>1, <2>2, <3>2
  <2>3. CASE r = 0
    <3>1. (n * k) + n <= n * q
      BY <1>1, <1>2, <1>3, <2>1, <2>3, ProductGrows
    <3> QED
      BY <1>1, <1>2, <2>1, <2>3, <3>1
  <2> QED
    BY <1>2, <2>2, <2>3
<1> QED
  BY <1>5, <1>6, <1>7 DEF m, n

(* A chunk starts and ends where the bytes that travel in it do, and fits.  *)
LEMMA ChunkBounds ==
    ASSUME NEW c \in Commands, NEW k \in ChunkNumbers(c)
    PROVE  /\ Chunk(c, k).chunkNumber = k
           /\ Chunk(c, k).dataOffset \in Bytes(c)
           /\ Len(Chunk(c, k).data) \in Nat
           /\ Len(Chunk(c, k).data) <= MaxPacketSize
           /\ Chunk(c, k).dataOffset + Len(Chunk(c, k).data) <= c.size
           /\ \A i \in Bytes(c) :
                 i \in Chunk(c, k).dataOffset
                        .. Chunk(c, k).dataOffset + Len(Chunk(c, k).data) - 1
                   <=> ChunkOfByte(i) = k
           /\ \A i \in Bytes(c) : ChunkOfByte(i) = k =>
                 Chunk(c, k).data[i - Chunk(c, k).dataOffset + 1] = Byte(c, i)
<1> DEFINE n == CommandSizePerPacket
           from == k * n
           length == IF c.size - from < n THEN c.size - from ELSE n
<1>1. n \in Nat \ {0} /\ n <= MaxPacketSize /\ MaxPacketSize \in Nat
  BY SizesAssumption DEF CommandSizePerPacket
<1>2. c.size \in Nat \ {0}
  BY CommandFacts
<1>3. k \in Nat /\ k * n < c.size
  BY <1>2, ChunksCover DEF ChunkNumbers
<1>4. from \in Nat /\ from < c.size
  BY <1>1, <1>3
<1>5. /\ Chunk(c, k).chunkNumber = k
      /\ Chunk(c, k).dataOffset = from
      /\ Chunk(c, k).data = [i \in 1 .. length |-> Byte(c, from + i - 1)]
  BY DEF Chunk
<1>6. \A i \in Bytes(c) : ChunkOfByte(i) = k <=> (from <= i /\ i < from + n)
  <2>1. \A i \in Bytes(c) : i \in Nat
    BY <1>2 DEF Bytes
  <2> QED
    BY <1>1, <1>3, <2>1, QuotientUnique DEF ChunkOfByte
<1>7. \A i \in Bytes(c) : i \in Nat /\ i < c.size
  BY <1>2 DEF Bytes
<1> HIDE DEF n, from
<1>8. length \in Nat /\ length <= n /\ from + length <= c.size
  BY <1>1, <1>2, <1>4
<1>9. \A i \in Bytes(c) : ChunkOfByte(i) = k <=> i \in from .. from + length - 1
  BY <1>1, <1>2, <1>4, <1>6, <1>7
<1> HIDE DEF length
<1>10. Len(Chunk(c, k).data) = length
  BY <1>5, <1>8
<1>11. \A i \in from .. from + length - 1 :
          Chunk(c, k).data[i - from + 1] = Byte(c, i)
  <2> SUFFICES ASSUME NEW i \in from .. from + length - 1
               PROVE  Chunk(c, k).data[i - from + 1] = Byte(c, i)
    OBVIOUS
  <2>1. i - from + 1 \in 1 .. length /\ from + (i - from + 1) - 1 = i
    BY <1>4, <1>8
  <2> QED
    BY <1>5, <2>1
<1>12. from \in Bytes(c)
  BY <1>2, <1>4 DEF Bytes
<1>13. /\ Chunk(c, k).dataOffset \in Bytes(c)
       /\ Len(Chunk(c, k).data) \in Nat
       /\ Len(Chunk(c, k).data) <= MaxPacketSize
       /\ Chunk(c, k).dataOffset + Len(Chunk(c, k).data) <= c.size
  BY <1>1, <1>5, <1>8, <1>10, <1>12
<1>14. \A i \in Bytes(c) :
          i \in Chunk(c, k).dataOffset
                 .. Chunk(c, k).dataOffset + Len(Chunk(c, k).data) - 1
            <=> ChunkOfByte(i) = k
  BY <1>5, <1>9, <1>10
<1>15. \A i \in Bytes(c) : ChunkOfByte(i) = k =>
          Chunk(c, k).data[i - Chunk(c, k).dataOffset + 1] = Byte(c, i)
  BY <1>5, <1>9, <1>11
<1> QED
  BY <1>5, <1>13, <1>14, <1>15

(* A chunk always fits into a node of its own command, and adds itself.     *)
LEMMA CopyFillsNode ==
    ASSUME NEW c \in Commands, NEW k \in ChunkNumbers(c), NEW S \in SUBSET ChunkNumbers(c)
    PROVE  CopyChunkData(NodeOf(c, S), Chunk(c, k)) = NodeOf(c, S \cup {k})
<1> DEFINE node == NodeOf(c, S)
           chunk == Chunk(c, k)
           from == chunk.dataOffset
<1>1. c.size \in Nat \ {0} /\ NumChunks(c.size) \in Nat
  BY CommandFacts, ChunksCover
<1>2. /\ node.numChunks = NumChunks(c.size) /\ node.chunksPresent = S
      /\ DOMAIN node.data = Bytes(c)
      /\ \A i \in Bytes(c) : node.data[i] =
            IF ChunkOfByte(i) \in S THEN Byte(c, i) ELSE Uninitialized
      /\ node = [numChunks |-> node.numChunks, chunksPresent |-> node.chunksPresent,
                 data |-> node.data]
  BY DEF NodeOf
<1>3. Cardinality(Bytes(c)) = c.size
  BY SMTT(30), <1>1, FS_Interval DEF Bytes
<1>4. k < NumChunks(c.size)
  BY <1>1 DEF ChunkNumbers
<1>5. CASE k \in S
  <2>1. ~Fits(node, chunk)
    BY <1>2, <1>5, ChunkBounds DEF Fits
  <2>2. S \cup {k} = S
    BY <1>5
  <2> QED
    BY <2>1, <2>2 DEF CopyChunkData
<1>6. CASE k \notin S
  <2>1. Fits(node, chunk)
    BY <1>2, <1>3, <1>4, <1>6, ChunkBounds DEF Fits
  <2> DEFINE data == [i \in Bytes(c) |->
                        IF i \in from .. from + Len(chunk.data) - 1
                          THEN chunk.data[i - from + 1] ELSE node.data[i]]
  <2>2. CopyChunkData(node, chunk) =
          [numChunks |-> NumChunks(c.size), chunksPresent |-> S \cup {k}, data |-> data]
    <3>1. chunk.chunkNumber = k
      BY ChunkBounds
    <3> HIDE DEF node, chunk
    <3> QED
      BY <1>2, <2>1, <3>1 DEF CopyChunkData
  <2>3. ASSUME NEW i \in Bytes(c)
        PROVE  data[i] = IF ChunkOfByte(i) \in S \cup {k} THEN Byte(c, i) ELSE Uninitialized
    <3>1. data[i] = IF ChunkOfByte(i) = k THEN chunk.data[i - from + 1] ELSE node.data[i]
      BY ChunkBounds
    <3>2. ChunkOfByte(i) = k => chunk.data[i - from + 1] = Byte(c, i)
      BY ChunkBounds
    <3> HIDE DEF data, node, chunk
    <3> QED
      BY <1>2, <3>1, <3>2
  <2>4. data = [i \in Bytes(c) |->
                  IF ChunkOfByte(i) \in S \cup {k} THEN Byte(c, i) ELSE Uninitialized]
    BY <2>3
  <2> QED
    BY <2>2, <2>4 DEF NodeOf
<1> QED
  BY <1>5, <1>6

LEMMA NewNodeIsEmpty ==
    ASSUME NEW c \in Commands, NEW k \in ChunkNumbers(c)
    PROVE  NewNode(Chunk(c, k)) = NodeOf(c, {})
BY DEF NewNode, NodeOf, Chunk, Bytes

(* A node that has all its chunks holds the whole command. *)
LEMMA CompleteIsBuffer ==
    ASSUME NEW c \in Commands, NEW S \in SUBSET ChunkNumbers(c),
           IsComplete(NodeOf(c, S))
    PROVE  NodeOf(c, S).data = Buffer(c)
<1>1. c.size \in Nat \ {0} /\ NumChunks(c.size) \in Nat
  BY CommandFacts, ChunksCover
<1>2. IsFiniteSet(ChunkNumbers(c)) /\ Cardinality(ChunkNumbers(c)) = NumChunks(c.size)
  <2> DEFINE m == NumChunks(c.size)
  <2> HIDE DEF m
  <2>1. m \in Nat
    BY <1>1 DEF m
  <2>2. IsFiniteSet(0 .. m - 1) /\ Cardinality(0 .. m - 1) = m
    BY <2>1, FS_Interval
  <2> QED
    BY <2>2 DEF m, ChunkNumbers
<1>3. Cardinality(S) = NumChunks(c.size)
  BY DEF IsComplete, NodeOf
<1>4. S = ChunkNumbers(c)
  BY <1>2, <1>3, FS_Subset
<1>5. \A i \in Bytes(c) : ChunkOfByte(i) \in S
  BY <1>1, <1>4, ChunksCover DEF Bytes, ChunkNumbers
<1> QED
  BY <1>5 DEF NodeOf, Buffer, Bytes

-----------------------------------------------------------------------------
(* The steps. *)

LEMMA PutTogetherInit == Init => PutTogetherInv
<1> SUFFICES ASSUME Init PROVE PutTogetherInv
  OBVIOUS
<1>1. DOMAIN nodes = {}
  BY DEF Init
<1> QED
  BY <1>1 DEF Init, PutTogetherInv, ChunksSent, NodesFilled, NoneReady, Integrity

LEMMA PutTogetherStep ==
    ASSUME UniqueIDs
    PROVE  PutTogetherInv /\ [Next]_vars => PutTogetherInv'
<1> SUFFICES ASSUME PutTogetherInv, [Next]_vars PROVE PutTogetherInv'
  OBVIOUS
<1> USE DEF PutTogetherInv
<1>1. ASSUME NEW c \in Commands, SendBigCommand(c) PROVE PutTogetherInv'
  <2>1. ChunksSent'
    BY <1>1 DEF SendBigCommand, ChunksSent, ConstructBigCommandPacketList, ChunkNumbers
  <2>2. (relaying \in BOOLEAN /\ NodesFilled /\ NoneReady /\ Integrity)'
    BY <1>1 DEF SendBigCommand, NodesFilled, NoneReady, Integrity
  <2> QED
    BY <2>1, <2>2
<1>2. ASSUME NEW chunk \in net, ProcessNetCommand(chunk) PROVE PutTogetherInv'
  <2>1. (relaying \in BOOLEAN /\ ChunksSent /\ NoneReady /\ Integrity)'
    BY <1>2 DEF ProcessNetCommand, ChunksSent, NoneReady, Integrity
  <2>2. NodesFilled'
    <3>1. CASE nodes' = nodes
      BY <3>1 DEF NodesFilled
    <3>2. CASE nodes' = ProcessWrapper(chunk, nodes)
      <4>1. PICK c \in Commands : \E k \in ChunkNumbers(c) : chunk = Chunk(c, k)
        BY DEF ChunksSent
      <4>2. PICK k \in ChunkNumbers(c) : chunk = Chunk(c, k)
        BY <4>1
      <4>3. chunk.wrappedCommandID = c.id
        BY <4>2 DEF Chunk
      <4> DEFINE node == IF c.id \in DOMAIN nodes THEN nodes[c.id] ELSE NewNode(chunk)
      <4>4. PICK S \in SUBSET ChunkNumbers(c) : node = NodeOf(c, S)
        <5>1. CASE c.id \in DOMAIN nodes
          <6>1. PICK d \in Commands : \E S \in SUBSET ChunkNumbers(d) :
                    d.id = c.id /\ S # {} /\ nodes[c.id] = NodeOf(d, S)
            BY <5>1 DEF NodesFilled
          <6>2. d = c
            BY <6>1 DEF UniqueIDs
          <6> QED
            BY <5>1, <6>1, <6>2
        <5>2. CASE c.id \notin DOMAIN nodes
          <6>1. {} \in SUBSET ChunkNumbers(c) /\ node = NodeOf(c, {})
            BY <4>2, <5>2, NewNodeIsEmpty
          <6> QED
            BY <6>1
        <5> QED
          BY <5>1, <5>2
      <4>5. nodes' = [id \in DOMAIN nodes \cup {c.id} |->
                        IF id = c.id THEN CopyChunkData(node, chunk) ELSE nodes[id]]
        BY <3>2, <4>3 DEF ProcessWrapper
      <4>6. CopyChunkData(node, chunk) = NodeOf(c, S \cup {k})
        BY <4>2, <4>4, CopyFillsNode
      <4> HIDE DEF node
      <4> SUFFICES ASSUME NEW id \in DOMAIN nodes \cup {c.id}
                   PROVE  \E d \in Commands : \E T \in SUBSET ChunkNumbers(d) :
                              d.id = id /\ T # {} /\ nodes'[id] = NodeOf(d, T)
        BY <4>5 DEF NodesFilled
      <4>7. CASE id = c.id
        <5>1. S \cup {k} \in SUBSET ChunkNumbers(c) /\ S \cup {k} # {}
          OBVIOUS
        <5>2. nodes'[id] = NodeOf(c, S \cup {k})
          BY <4>5, <4>6, <4>7
        <5> QED
          BY <4>7, <5>1, <5>2
      <4>8. CASE id # c.id
        <5>1. id \in DOMAIN nodes /\ nodes'[id] = nodes[id]
          BY <4>5, <4>8
        <5> QED
          BY <5>1 DEF NodesFilled
      <4> QED
        BY <4>7, <4>8
    <3> QED
      BY <1>2, <3>1, <3>2 DEF ProcessNetCommand
  <2> QED
    BY <2>1, <2>2
<1>3. CASE GetReadyCommands
  <2>1. relaying' \in BOOLEAN /\ ChunksSent'
    BY <1>3 DEF GetReadyCommands, ChunksSent
  <2>2. DOMAIN nodes' = DOMAIN nodes \ Ready /\ \A id \in DOMAIN nodes' : nodes'[id] = nodes[id]
    BY <1>3 DEF GetReadyCommands
  <2>3. NodesFilled'
    BY <2>2 DEF NodesFilled
  <2>4. NoneReady'
    BY <2>2 DEF NoneReady, Ready, IsComplete
  <2>5. ASSUME NEW id \in Ready PROVE \E c \in Commands : nodes[id].data = Buffer(c)
    <3>1. id \in DOMAIN nodes /\ IsComplete(nodes[id])
      BY DEF Ready
    <3>2. PICK c \in Commands : \E S \in SUBSET ChunkNumbers(c) : nodes[id] = NodeOf(c, S)
      BY <3>1 DEF NodesFilled
    <3>3. PICK S \in SUBSET ChunkNumbers(c) : nodes[id] = NodeOf(c, S)
      BY <3>2
    <3>4. IsComplete(NodeOf(c, S))
      BY <3>1, <3>3
    <3> QED
      BY <3>3, <3>4, CompleteIsBuffer
  <2>6. delivered' = delivered \cup {nodes[id].data : id \in Ready}
    BY <1>3 DEF GetReadyCommands
  <2>7. Integrity'
    BY <2>5, <2>6 DEF Integrity
  <2> QED
    BY <2>1, <2>3, <2>4, <2>7
<1>4. ASSUME NEW p \in Senders, Disconnect(p) PROVE PutTogetherInv'
  BY <1>4 DEF Disconnect, ChunksSent, NodesFilled, NoneReady, Integrity
<1>5. CASE UNCHANGED vars
  BY <1>5 DEF vars, ChunksSent, NodesFilled, NoneReady, Integrity
<1> QED
  BY <1>1, <1>2, <1>3, <1>4, <1>5 DEF Next

(* The nodes are in order: one for each ID, none empty, none complete       *)
(* outside doRelay (NetCommandWrapperList).                                 *)
LEMMA PutTogetherNodes == PutTogetherInv => NodesOK
<1> SUFFICES ASSUME PutTogetherInv, NEW id \in DOMAIN nodes
             PROVE  /\ id \in {c.id : c \in Commands}
                    /\ nodes[id].chunksPresent # {}
                    /\ nodes[id].chunksPresent \subseteq 0 .. nodes[id].numChunks - 1
                    /\ ~relaying => ~IsComplete(nodes[id])
  BY DEF NodesOK
<1>1. PICK c \in Commands : \E S \in SUBSET ChunkNumbers(c) :
          c.id = id /\ S # {} /\ nodes[id] = NodeOf(c, S)
  BY DEF PutTogetherInv, NodesFilled
<1>2. PICK S \in SUBSET ChunkNumbers(c) : S # {} /\ nodes[id] = NodeOf(c, S)
  BY <1>1
<1>3. nodes[id].chunksPresent = S /\ nodes[id].numChunks = NumChunks(c.size)
  BY <1>2 DEF NodeOf
<1>4. /\ nodes[id].chunksPresent # {}
      /\ nodes[id].chunksPresent \subseteq 0 .. nodes[id].numChunks - 1
  BY <1>2, <1>3 DEF ChunkNumbers
<1> QED
  BY <1>1, <1>4 DEF PutTogetherInv, NoneReady

(* A big command that the receiver puts together (processWrapper) is one    *)
(* that was split: for all sizes, numbers of commands and players, and      *)
(* chunks in any order and number, as long as the IDs of the commands tell  *)
(* them apart.                                                              *)
THEOREM PutTogetherAsSplit ==
    ASSUME UniqueIDs
    PROVE  Spec => []Integrity
<1>1. Init => PutTogetherInv
  BY PutTogetherInit
<1>2. PutTogetherInv /\ [Next]_vars => PutTogetherInv'
  BY PutTogetherStep
<1>3. PutTogetherInv => Integrity
  BY DEF PutTogetherInv
<1> QED
  BY <1>1, <1>2, <1>3, PTL DEF Spec

(* Every node of NetCommandWrapperList is a part of one command and counts  *)
(* the chunks it has, whatever is repeated, late or out of order.           *)
THEOREM NodesInOrder ==
    ASSUME UniqueIDs
    PROVE  Spec => []NodesOK
<1>1. Init => PutTogetherInv
  BY PutTogetherInit
<1>2. PutTogetherInv /\ [Next]_vars => PutTogetherInv'
  BY PutTogetherStep
<1>3. PutTogetherInv => NodesOK
  BY PutTogetherNodes DEF PutTogetherInv
<1> QED
  BY <1>1, <1>2, <1>3, PTL DEF Spec

=============================================================================
