------------------------------ MODULE NATProofs ------------------------------
(***************************************************************************)
(* Proofs about NAT, for 2 to 8 players with any firewalls and any number  *)
(* of faults.  Of the table of pairs they use RoundRobin only.             *)
(*                                                                         *)
(* NATInv is enough for what a node takes for done.  What it is never left *)
(* without (the word that a connection is done, the port of its target)    *)
(* depends on what the two at the ends of a connection have said to each   *)
(* other: that is TalkInv, and Summary is all that the others see of a     *)
(* step.  ToldInv adds what a node has been told, in which order; PortInv  *)
(* what becomes of the ports.                                              *)
(***************************************************************************)
EXTENDS NAT, SequenceTheorems, FiniteSetTheorems, TLAPS

(* Only a node whose firewall changes its port asks the mangler. *)
AskersMangled ==
    \A p \in Node : state[p][p] = "WAITINGFORMANGLERRESPONSE" => p \in Mangled

(* Every CONNDONE says what is so: the node has been heard by its sender. *)
Truthful(box, h) ==
    \A p \in Node : \A i \in DOMAIN box[p] :
        box[p][i].type = "CONNDONE" => box[p][i].node \in h[box[p][i].src]

(* DoneWhenHeard, of those that have ended the negotiation too. *)
DoneHeard ==
    \A p, q \in Node :
        LET t == Partner(N, round[p], q)
        IN  state[p][q] = "DONE" /\ t # -1 => q \in heard[t]

(* The inductive invariant. *)
NATInv == TypeOK /\ AskersMangled /\ Truthful(inbox, heard) /\ DoneHeard

-----------------------------------------------------------------------------
LEMMA RoundsNat == RequiredRounds(N) \in Nat \ {0}
BY NATAssumption DEF RequiredRounds

(* Who is paired with somebody in a round is that one's partner too. *)
LEMMA PartnerMutual ==
    ASSUME NEW r \in 0 .. RequiredRounds(N) - 1, NEW p \in Node
    PROVE  LET q == Partner(N, r, p)
           IN  \/ q \in Node \ {p} /\ Partner(N, r, q) = p
               \/ q = -1
BY NATAssumption, RoundRobin DEF Node

LEMMA MessageTypes ==
    ASSUME NEW p \in Node, NEW n \in Node, NEW good \in BOOLEAN
    PROVE  /\ Port(p, good) \in Message /\ Port(p, good).type # "CONNDONE"
           /\ Probed(p) \in Message /\ Probed(p).type # "CONNDONE"
           /\ ConnFailed(p) \in Message /\ ConnFailed(p).type # "CONNDONE"
           /\ ConnDone(n, p) \in Message /\ ConnDone(n, p).node = n /\ ConnDone(n, p).src = p
BY DEF Message, Port, Probed, ConnFailed, ConnDone

LEMMA PostKeeps ==
    ASSUME inbox \in [Node -> Seq(Message)], NEW nodes, NEW m \in Message, NEW h,
           Truthful(inbox, h), m.type = "CONNDONE" => m.node \in h[m.src]
    PROVE  Post(nodes, m) \in [Node -> Seq(Message)] /\ Truthful(Post(nodes, m), h)
<1>1. Post(nodes, m) \in [Node -> Seq(Message)]
  BY DEF Post
<1>2. ASSUME NEW p \in Node, NEW i \in DOMAIN Post(nodes, m)[p],
             Post(nodes, m)[p][i].type = "CONNDONE"
      PROVE  Post(nodes, m)[p][i].node \in h[Post(nodes, m)[p][i].src]
  <2>1. CASE Post(nodes, m)[p] = inbox[p]
    BY <1>2, <2>1 DEF Truthful
  <2>2. CASE Post(nodes, m)[p] = Append(inbox[p], m)
    <3>1. i \in 1 .. Len(inbox[p]) + 1
      BY <1>2, <2>2
    <3>2. CASE i \in 1 .. Len(inbox[p])
      <4>1. Post(nodes, m)[p][i] = inbox[p][i] /\ i \in DOMAIN inbox[p]
        BY <2>2, <3>2
      <4>. QED  BY <1>2, <4>1 DEF Truthful
    <3>3. CASE i = Len(inbox[p]) + 1
      <4>1. Post(nodes, m)[p][i] = m
        BY <2>2, <3>3
      <4>. QED  BY <1>2, <4>1
    <3>. QED  BY <3>1, <3>2, <3>3
  <2>. QED  BY <2>1, <2>2 DEF Post
<1>. QED  BY <1>1, <1>2 DEF Truthful

LEMMA TailKeeps ==
    ASSUME inbox \in [Node -> Seq(Message)], NEW box \in [Node -> Seq(Message)], NEW p \in Node,
           inbox[p] # <<>>, NEW h, Truthful(inbox, h), Truthful(box, h)
    PROVE  /\ [box EXCEPT ![p] = Tail(inbox[p])] \in [Node -> Seq(Message)]
           /\ Truthful([box EXCEPT ![p] = Tail(inbox[p])], h)
<1> DEFINE new == [box EXCEPT ![p] = Tail(inbox[p])]
<1>1. Tail(inbox[p]) \in Seq(Message)
  OBVIOUS
<1>2. new \in [Node -> Seq(Message)]
  BY <1>1
<1>3. ASSUME NEW q \in Node, NEW i \in DOMAIN new[q], new[q][i].type = "CONNDONE"
      PROVE  new[q][i].node \in h[new[q][i].src]
  <2>1. CASE q = p
    <3>1. new[q] = Tail(inbox[p])
      BY <2>1
    <3>2. i \in 1 .. Len(inbox[p]) - 1
      BY <1>3, <3>1
    <3>3. new[q][i] = inbox[p][i + 1] /\ i + 1 \in DOMAIN inbox[p]
      BY <3>1, <3>2
    <3>. QED  BY <1>3, <3>3 DEF Truthful
  <2>2. CASE q # p
    <3>1. new[q] = box[q]
      BY <2>2
    <3>. QED  BY <1>3, <3>1 DEF Truthful
  <2>. QED  BY <2>1, <2>2
<1>. HIDE DEF new
<1>4. Truthful(new, h)
  BY <1>3 DEF Truthful
<1>. QED  BY <1>2, <1>4 DEF new

LEMMA EmptyKeeps ==
    ASSUME NEW box \in [Node -> Seq(Message)], NEW p \in Node, NEW h, Truthful(box, h)
    PROVE  /\ [box EXCEPT ![p] = <<>>] \in [Node -> Seq(Message)]
           /\ Truthful([box EXCEPT ![p] = <<>>], h)
<1>1. \A q \in Node : [box EXCEPT ![p] = <<>>][q] = IF q = p THEN <<>> ELSE box[q]
  OBVIOUS
<1>2. DOMAIN <<>> = {}
  OBVIOUS
<1>. QED  BY <1>1, <1>2 DEF Truthful

(* What has been heard stays heard. *)
LEMMA HeardGrows ==
    ASSUME inbox \in [Node -> Seq(Message)], NEW h, NEW g,
           \A q \in Node : h[q] \subseteq g[q], Truthful(inbox, h)
    PROVE  Truthful(inbox, g)
<1>1. ASSUME NEW p \in Node, NEW i \in DOMAIN inbox[p], inbox[p][i].type = "CONNDONE"
      PROVE  inbox[p][i].node \in g[inbox[p][i].src]
  <2>1. inbox[p][i] \in Message
    OBVIOUS
  <2>2. inbox[p][i].src \in Node
    BY <2>1 DEF Message
  <2>3. inbox[p][i].node \in h[inbox[p][i].src]
    BY <1>1 DEF Truthful
  <2>. QED  BY <2>2, <2>3
<1>. QED  BY <1>1 DEF Truthful

-----------------------------------------------------------------------------
LEMMA InitInv == Init => NATInv
<1>. SUFFICES ASSUME Init PROVE NATInv
  OBVIOUS
<1>. USE NATAssumption DEF Init
<1>1. RequiredRounds(N) - 1 \in Nat
  BY RoundsNat
<1>2. \A p \in Node : inbox[p] = <<>> /\ inbox[p] \in Seq(Message)
  OBVIOUS
<1>3. inbox \in [Node -> Seq(Message)]
  BY <1>2
<1>4. setup.lost \in Nat /\ setup.late \in Nat
  OBVIOUS
<1>5. TypeOK
  BY <1>1, <1>3, <1>4 DEF TypeOK
<1>6. DOMAIN <<>> = {}
  OBVIOUS
<1>7. Truthful(inbox, heard)
  BY <1>2, <1>6 DEF Truthful
<1>8. AskersMangled /\ DoneHeard
  BY DEF AskersMangled, DoneHeard
<1>. QED  BY <1>5, <1>7, <1>8 DEF NATInv

(* A new round: its states are as they should be at its beginning. *)
LEMMA RoundStarts ==
    ASSUME NATInv, NEW p \in Node, NEW r \in 0 .. RequiredRounds(N) - 1,
           DoThisConnectionRound(p, r)
    PROVE  /\ round' \in [Node -> 0 .. RequiredRounds(N) - 1]
           /\ state' \in [Node -> [Node -> {"NOSTATE", "DONE", "FAILED", "WAITINGFORRESPONSE",
                                    "WAITINGFORMANGLERRESPONSE", "WAITINGFORMANGLEDPORT"}]]
           /\ beenProbed' \in [Node -> BOOLEAN]
           /\ numRetries' \in [Node -> 0 .. MaxRetries + 1]
           /\ noRetry' \in [Node -> BOOLEAN]
           /\ previousKnown' \in [Node -> BOOLEAN]
           /\ sourceKnown' \in [Node -> BOOLEAN]
           /\ inbox' \in [Node -> Seq(Message)]
           /\ Truthful(inbox', heard)
           /\ \A n \in Node : state'[n][n] = "WAITINGFORMANGLERRESPONSE" => n \in Mangled
           /\ \A n, q \in Node :
                 LET t == Partner(N, round'[n], q)
                 IN  state'[n][q] = "DONE" /\ t # -1 => q \in heard[t]
<1> DEFINE q == Partner(N, r, p)
<1>. USE NATAssumption DEF NATInv, TypeOK, DoThisConnectionRound
<1>1. round' \in [Node -> 0 .. RequiredRounds(N) - 1] /\ numRetries' \in [Node -> 0 .. MaxRetries + 1]
  OBVIOUS
<1>2. /\ beenProbed' \in [Node -> BOOLEAN]
      /\ noRetry' \in [Node -> BOOLEAN]
      /\ previousKnown' \in [Node -> BOOLEAN]
      /\ sourceKnown' \in [Node -> BOOLEAN]
  BY DEF AsksMangler
<1>3. StateForRound(p, r) \in [Node -> {"NOSTATE", "DONE", "FAILED", "WAITINGFORRESPONSE",
                                    "WAITINGFORMANGLERRESPONSE", "WAITINGFORMANGLEDPORT"}]
  BY DEF StateForRound
<1>4. state' \in [Node -> [Node -> {"NOSTATE", "DONE", "FAILED", "WAITINGFORRESPONSE",
                                    "WAITINGFORMANGLERRESPONSE", "WAITINGFORMANGLEDPORT"}]]
  BY <1>3
<1>5. inbox' \in [Node -> Seq(Message)] /\ Truthful(inbox', heard)
  <2>1. Post({q}, Port(p, TRUE)) \in [Node -> Seq(Message)] /\ Truthful(Post({q}, Port(p, TRUE)), heard)
    BY PostKeeps, MessageTypes
  <2>2. inbox' = Post({q}, Port(p, TRUE)) \/ inbox' = inbox
    OBVIOUS
  <2>. QED  BY <2>1, <2>2
<1>6. \A n \in Node : n # p => state'[n] = state[n] /\ round'[n] = round[n]
  OBVIOUS
<1>7. state'[p] = StateForRound(p, r) /\ round'[p] = r
  OBVIOUS
<1>8. \A n \in Node : state'[n][n] = "WAITINGFORMANGLERRESPONSE" => n \in Mangled
  BY <1>6, <1>7 DEF StateForRound, AsksMangler, AskersMangled
<1>9. \A m \in Node : StateForRound(p, r)[m] = "DONE" => Partner(N, r, m) = -1
  BY DEF StateForRound
<1>10. \A n, m \in Node :
         LET t == Partner(N, round'[n], m)
         IN  state'[n][m] = "DONE" /\ t # -1 => m \in heard[t]
  BY <1>6, <1>7, <1>9 DEF DoneHeard
<1>. QED  BY <1>1, <1>2, <1>4, <1>5, <1>8, <1>10

(* A state that is set for one node: what has to hold of it. *)
LEMMA SetKeeps ==
    ASSUME NATInv, NEW p \in Node, NEW n \in Node,
           NEW s \in {"DONE", "FAILED", "WAITINGFORRESPONSE"}, NEW h,
           \A q \in Node : heard[q] \subseteq h[q],
           s = "DONE" => LET t == Partner(N, round[p], n) IN t # -1 => n \in h[t],
           state' = Set(p, n, s), round' = round, setup' = setup
    PROVE  /\ state' \in [Node -> [Node -> {"NOSTATE", "DONE", "FAILED", "WAITINGFORRESPONSE",
                                    "WAITINGFORMANGLERRESPONSE", "WAITINGFORMANGLEDPORT"}]]
           /\ AskersMangled'
           /\ \A m, q \in Node :
                 LET t == Partner(N, round'[m], q)
                 IN  state'[m][q] = "DONE" /\ t # -1 => q \in h[t]
<1>. USE DEF NATInv, TypeOK, Set
<1>1. state' \in [Node -> [Node -> {"NOSTATE", "DONE", "FAILED", "WAITINGFORRESPONSE",
                                    "WAITINGFORMANGLERRESPONSE", "WAITINGFORMANGLEDPORT"}]]
  OBVIOUS
<1>2. \A m, q \in Node : state'[m][q] = IF m = p /\ q = n THEN s ELSE state[m][q]
  OBVIOUS
<1>3. AskersMangled'
  BY <1>2 DEF AskersMangled, Mangled
<1>4. ASSUME NEW m \in Node, NEW q \in Node, state'[m][q] = "DONE",
             Partner(N, round[m], q) # -1
      PROVE  q \in h[Partner(N, round[m], q)]
  <2>1. CASE m = p /\ q = n
    BY <1>2, <1>4, <2>1
  <2>2. CASE ~(m = p /\ q = n)
    <3>1. q \in heard[Partner(N, round[m], q)]
      BY <1>2, <1>4, <2>2 DEF DoneHeard
    <3>2. Partner(N, round[m], q) \in Node
      BY <1>4, PartnerMutual
    <3>. QED  BY <3>1, <3>2
  <2>. QED  BY <2>1, <2>2
<1>. QED  BY <1>1, <1>3, <1>4

(* The parts of the invariant that a step leaves alone. *)
LEMMA Unchanged ==
    ASSUME NATInv
    PROVE  /\ (UNCHANGED state /\ UNCHANGED setup) => AskersMangled'
           /\ (UNCHANGED state /\ UNCHANGED round /\ UNCHANGED heard) => DoneHeard'
           /\ (UNCHANGED inbox /\ UNCHANGED heard) => Truthful(inbox, heard)'
BY DEF NATInv, AskersMangled, Mangled, DoneHeard, Truthful

LEMMA TargetType ==
    ASSUME NATInv, NEW p \in Node
    PROVE  LET q == Target(p)
           IN  \/ q \in Node \ {p} /\ Partner(N, round[p], q) = p
               \/ q = -1
BY PartnerMutual DEF NATInv, TypeOK, Target

-----------------------------------------------------------------------------
LEMMA StepEstablish ==
    ASSUME NATInv, NEW p \in Node, EstablishConnectionPaths(p)
    PROVE  NATInv'
<1>1. DoThisConnectionRound(p, 0) /\ 0 \in 0 .. RequiredRounds(N) - 1
  BY RoundsNat DEF EstablishConnectionPaths
<1>. USE DEF NATInv, TypeOK, EstablishConnectionPaths, history, faults
<1>2. TypeOK'
  BY <1>1, RoundStarts, NATAssumption DEF Mangled
<1>3. AskersMangled' /\ DoneHeard' /\ Truthful(inbox, heard)'
  BY <1>1, RoundStarts DEF AskersMangled, DoneHeard, Mangled, Truthful
<1>. QED  BY <1>2, <1>3

LEMMA StepNextRound ==
    ASSUME NATInv, NEW p \in Node, NextRound(p)
    PROVE  NATInv'
<1>1. DoThisConnectionRound(p, round[p] + 1) /\ round[p] + 1 \in 0 .. RequiredRounds(N) - 1
  BY RoundsNat DEF NextRound, RoundsLeft, NATInv, TypeOK
<1>. USE DEF NATInv, TypeOK, NextRound, history, faults
<1>2. TypeOK'
  BY <1>1, RoundStarts, NATAssumption DEF Mangled
<1>3. AskersMangled' /\ DoneHeard' /\ Truthful(inbox, heard)'
  BY <1>1, RoundStarts DEF AskersMangled, DoneHeard, Mangled, Truthful
<1>. QED  BY <1>2, <1>3

LEMMA StepFinish ==
    ASSUME NATInv, NEW p \in Node, NEW s \in {"DONE", "FAILED"}, Finish(p, s)
    PROVE  NATInv'
<1>. USE DEF NATInv, Finish, roundVars, history, faults
<1>1. inbox' \in [Node -> Seq(Message)] /\ Truthful(inbox', heard)
  BY EmptyKeeps DEF TypeOK
<1>2. TypeOK'
  BY <1>1 DEF TypeOK, Mangled
<1>3. Truthful(inbox, heard)'
  BY <1>1 DEF Truthful
<1>. QED  BY <1>2, <1>3, Unchanged

LEMMA StepResendPort ==
    ASSUME NATInv, NEW p \in Node, ResendPort(p)
    PROVE  NATInv'
<1>. USE DEF NATInv, ResendPort, roundVars, history, faults
<1>0. /\ Port(p, sourceKnown[p]) \in Message
      /\ Port(p, sourceKnown[p]).type # "CONNDONE"
  <2>1. sourceKnown[p] \in BOOLEAN
    BY DEF TypeOK
  <2>. QED  BY <2>1, MessageTypes
<1>1. inbox' \in [Node -> Seq(Message)] /\ Truthful(inbox', heard)
  BY <1>0, PostKeeps DEF TypeOK
<1>2. TypeOK'
  BY <1>1 DEF TypeOK, Mangled
<1>3. Truthful(inbox, heard)'
  BY <1>1 DEF Truthful
<1>. QED  BY <1>2, <1>3, Unchanged

LEMMA StepReceiveProbe ==
    ASSUME NATInv, NEW p \in Node, ReceiveProbe(p)
    PROVE  NATInv'
<1>. USE DEF NATInv, ReceiveProbe, faults
<1>1. PICK h \in probes :
          /\ h[2] = p
          /\ probes' = probes \ {h}
          /\ IF h[1] = Target(p)
               THEN /\ state' = Set(p, h[1], "DONE")
                    /\ heard' = [heard EXCEPT ![p] = @ \cup {h[1]}]
                    /\ portKnown' = [portKnown EXCEPT ![p] = @ \cup {h[1]}]
                    /\ sourceKnown' = [sourceKnown EXCEPT ![p] = @ /\ h[1] \in portKnown[p]]
                    /\ inbox' = Post(Others(p), ConnDone(h[1], p))
               ELSE UNCHANGED <<state, heard, portKnown, sourceKnown, inbox>>
  OBVIOUS
<1>2. h[1] \in Node
  BY DEF TypeOK
<1>3. CASE h[1] = Target(p)
  <2>1. h[1] \in Node \ {p} /\ Partner(N, round[p], h[1]) = p
    BY <1>2, <1>3, TargetType DEF Node
  <2>0. /\ state' = Set(p, h[1], "DONE")
        /\ heard' = [heard EXCEPT ![p] = heard[p] \cup {h[1]}]
        /\ portKnown' = [portKnown EXCEPT ![p] = portKnown[p] \cup {h[1]}]
        /\ sourceKnown' = [sourceKnown EXCEPT ![p] = sourceKnown[p] /\ h[1] \in portKnown[p]]
        /\ inbox' = Post(Others(p), ConnDone(h[1], p))
    BY <1>1, <1>3, Zenon
  <2>2. heard' \in [Node -> SUBSET Node] /\ h[1] \in heard'[p]
    BY <1>2, <2>0 DEF TypeOK
  <2>3. \A q \in Node : heard[q] \subseteq heard'[q]
    BY <1>2, <2>0 DEF TypeOK
  <2>4. /\ state' \in [Node -> [Node -> {"NOSTATE", "DONE", "FAILED", "WAITINGFORRESPONSE",
                                    "WAITINGFORMANGLERRESPONSE", "WAITINGFORMANGLEDPORT"}]]
        /\ AskersMangled'
        /\ DoneHeard'
    BY <1>2, <2>0, <2>1, <2>2, <2>3, SetKeeps DEF DoneHeard
  <2>5. Truthful(inbox, heard')
    BY <2>3, HeardGrows DEF TypeOK
  <2>6. inbox' \in [Node -> Seq(Message)] /\ Truthful(inbox', heard')
    BY <1>2, <2>0, <2>2, <2>5, PostKeeps, MessageTypes DEF TypeOK
  <2>7. portKnown' \in [Node -> SUBSET Node] /\ sourceKnown' \in [Node -> BOOLEAN]
    BY <1>2, <2>0 DEF TypeOK
  <2>8. TypeOK'
    BY <1>1, <2>2, <2>4, <2>6, <2>7 DEF TypeOK, Mangled
  <2>. QED  BY <2>4, <2>6, <2>8 DEF Truthful
<1>4. CASE h[1] # Target(p)
  <2>1. TypeOK'
    BY <1>1, <1>4 DEF TypeOK, Mangled
  <2>. QED  BY <1>1, <1>4, <2>1, Unchanged
<1>. QED  BY <1>3, <1>4

LEMMA StepProbeTarget ==
    ASSUME NATInv, NEW p \in Node, ProbeTarget(p)
    PROVE  NATInv'
<1>. USE DEF NATInv, ProbeTarget, history, faults
<1>1. inbox' \in [Node -> Seq(Message)] /\ Truthful(inbox', heard)
  BY PostKeeps, MessageTypes DEF TypeOK
<1>2. Probe(p, Target(p)) \subseteq Node \X Node
  BY TargetType DEF Probe, TypeOK
<1>3. numRetries' \in [Node -> 0 .. MaxRetries + 1]
  BY NATAssumption DEF TypeOK, RetriesLeft
<1>4. TypeOK'
  BY <1>1, <1>2, <1>3 DEF TypeOK, Mangled
<1>5. Truthful(inbox, heard)'
  BY <1>1 DEF Truthful
<1>. QED  BY <1>4, <1>5, Unchanged

LEMMA StepManglerResponse ==
    ASSUME NATInv, NEW p \in Node, ManglerResponse(p)
    PROVE  NATInv'
<1>. USE DEF NATInv, ManglerResponse, history, faults
<1>1. inbox' \in [Node -> Seq(Message)] /\ Truthful(inbox', heard)
  BY PostKeeps, MessageTypes DEF TypeOK
<1>2. /\ state' \in [Node -> [Node -> {"NOSTATE", "DONE", "FAILED", "WAITINGFORRESPONSE",
                                    "WAITINGFORMANGLERRESPONSE", "WAITINGFORMANGLEDPORT"}]]
      /\ AskersMangled'
      /\ DoneHeard'
  BY SetKeeps DEF DoneHeard
<1>3. TypeOK'
  BY <1>1, <1>2 DEF TypeOK, Mangled
<1>. QED  BY <1>1, <1>2, <1>3 DEF Truthful

(* A clock changes nothing but the count of those that were too early. *)
LEMMA PassedKeeps ==
    ASSUME NATInv, NEW time \in BOOLEAN, Passed(time), setup' = setup
    PROVE  late' \in 0 .. setup'.late
<1>1. setup.late \in Nat /\ late \in 0 .. setup.late
  BY NATAssumption DEF NATInv, TypeOK
<1>. QED  BY <1>1 DEF Passed

LEMMA StepFailConnection ==
    ASSUME NATInv, NEW p \in Node, FailConnection(p), late' \in 0 .. setup'.late
    PROVE  NATInv'
<1>. USE DEF NATInv, FailConnection, NotifyUsersOfConnectionFailed, roundVars
<1> DEFINE posted == Post(Others(p), ConnFailed(p))
<1>1. posted \in [Node -> Seq(Message)] /\ Truthful(posted, heard)
  BY PostKeeps, MessageTypes DEF TypeOK
<1>2. inbox' \in [Node -> Seq(Message)] /\ Truthful(inbox', heard)
  <2>. HIDE DEF posted
  <2>1. inbox' = [posted EXCEPT ![p] = <<>>]
    BY DEF posted
  <2>2. /\ [posted EXCEPT ![p] = <<>>] \in [Node -> Seq(Message)]
        /\ Truthful([posted EXCEPT ![p] = <<>>], heard)
    BY <1>1, EmptyKeeps
  <2>. QED  BY <2>1, <2>2
<1>3. /\ state' \in [Node -> [Node -> {"NOSTATE", "DONE", "FAILED", "WAITINGFORRESPONSE",
                                    "WAITINGFORMANGLERRESPONSE", "WAITINGFORMANGLEDPORT"}]]
      /\ AskersMangled'
      /\ DoneHeard'
  BY SetKeeps DEF DoneHeard
<1>4. TypeOK'
  BY <1>2, <1>3 DEF TypeOK, Mangled
<1>. QED  BY <1>2, <1>3, <1>4 DEF Truthful

LEMMA StepRoundTimeout ==
    ASSUME NATInv, NEW p \in Node, RoundTimeout(p)
    PROVE  NATInv'
<1>. USE DEF NATInv, RoundTimeout, NotifyUsersOfConnectionFailed, roundVars
<1>1. inbox' \in [Node -> Seq(Message)] /\ Truthful(inbox', heard)
  BY PostKeeps, MessageTypes DEF TypeOK
<1>2. /\ state' \in [Node -> [Node -> {"NOSTATE", "DONE", "FAILED", "WAITINGFORRESPONSE",
                                    "WAITINGFORMANGLERRESPONSE", "WAITINGFORMANGLEDPORT"}]]
      /\ AskersMangled'
      /\ DoneHeard'
  BY SetKeeps DEF DoneHeard
<1>3. late' \in 0 .. setup'.late
  <2>1. LongQuiet \in BOOLEAN
    BY DEF LongQuiet
  <2>2. late \in 0 .. setup.late
    BY DEF TypeOK
  <2>. QED  BY <2>1, <2>2, PassedKeeps
<1>4. TypeOK'
  BY <1>1, <1>2, <1>3 DEF TypeOK, Mangled
<1>. QED  BY <1>1, <1>2, <1>4 DEF Truthful

LEMMA StepLose ==
    ASSUME NATInv, NEW h \in probes, Lose(h)
    PROVE  NATInv'
<1>. USE DEF NATInv, Lose, roundVars, history
<1>1. lost' \in 0 .. setup'.lost
  <2>1. setup.lost \in Nat /\ setup \in Setups
    BY NATAssumption DEF TypeOK
  <2>2. lost \in 0 .. setup.lost
    BY DEF TypeOK
  <2>. QED  BY <2>1, <2>2
<1>2. probes' \subseteq Node \X Node
  BY DEF TypeOK
<1>3. TypeOK'
  BY <1>1, <1>2 DEF TypeOK, Mangled
<1>. QED  BY <1>3, Unchanged

-----------------------------------------------------------------------------
(* What a message does to the state, the probes and the inbox. *)
LEMMA MessageKeeps ==
    ASSUME NATInv, NEW p \in Node, inbox[p] # <<>>, NEW m, m = Head(inbox[p]),
           \/ GotMangledPort(p, m)
           \/ GotProbed(p, m)
           \/ GotConnDone(p, m)
           \/ GotConnFailed(p, m),
           UNCHANGED <<setup, round, heard>>
    PROVE  /\ state' \in [Node -> [Node -> {"NOSTATE", "DONE", "FAILED", "WAITINGFORRESPONSE",
                                    "WAITINGFORMANGLERRESPONSE", "WAITINGFORMANGLEDPORT"}]]
           /\ beenProbed' \in [Node -> BOOLEAN]
           /\ portKnown' \in [Node -> SUBSET Node]
           /\ inbox' \in [Node -> Seq(Message)]
           /\ probes' \subseteq Node \X Node
           /\ skipped' \subseteq Mangled
           /\ AskersMangled'
           /\ DoneHeard'
           /\ Truthful(inbox, heard)'
<1>. USE DEF NATInv
<1>0. inbox[p] \in Seq(Message) /\ m \in Message
  <2>1. inbox[p] \in Seq(Message)
    BY DEF TypeOK
  <2>. QED  BY <2>1
<1>1. m.node \in Node /\ m.src \in Node /\ m.good \in BOOLEAN
  BY <1>0 DEF Message
<1>2. m.type = "CONNDONE" => m.node \in heard[m.src]
  <2>1. m = inbox[p][1] /\ 1 \in DOMAIN inbox[p]
    BY DEF TypeOK
  <2>. QED  BY <2>1 DEF Truthful
<1>3. Rest(p) \in [Node -> Seq(Message)] /\ Truthful(Rest(p), heard)
  BY TailKeeps DEF Rest, TypeOK
<1>4. CASE /\ UNCHANGED <<state, probes, skipped>>
           /\ inbox' = Rest(p)
           /\ beenProbed' \in [Node -> BOOLEAN]
           /\ portKnown' \in [Node -> SUBSET Node]
  BY <1>3, <1>4, Unchanged DEF TypeOK, Truthful, Mangled
<1>5. ASSUME NEW known, AnswerWithProbe(p, m.src, known),
             beenProbed' \in [Node -> BOOLEAN], portKnown' \in [Node -> SUBSET Node]
      PROVE  /\ state' \in [Node -> [Node -> {"NOSTATE", "DONE", "FAILED", "WAITINGFORRESPONSE",
                                    "WAITINGFORMANGLERRESPONSE", "WAITINGFORMANGLEDPORT"}]]
             /\ inbox' \in [Node -> Seq(Message)]
             /\ probes' \subseteq Node \X Node
             /\ skipped' \subseteq Mangled
             /\ AskersMangled'
             /\ DoneHeard'
             /\ Truthful(inbox, heard)'
  <2>. USE DEF AnswerWithProbe
  <2> DEFINE posted == Post({m.src}, Probed(p))
  <2>1. posted \in [Node -> Seq(Message)] /\ Truthful(posted, heard)
    BY PostKeeps, MessageTypes DEF TypeOK
  <2>2. inbox' \in [Node -> Seq(Message)] /\ Truthful(inbox', heard)
    <3>1. inbox' = [posted EXCEPT ![p] = Tail(inbox[p])]
      BY <1>5
    <3>. HIDE DEF posted
    <3>. QED  BY <2>1, <3>1, TailKeeps DEF TypeOK
  <2>3. /\ state' \in [Node -> [Node -> {"NOSTATE", "DONE", "FAILED", "WAITINGFORRESPONSE",
                                    "WAITINGFORMANGLERRESPONSE", "WAITINGFORMANGLEDPORT"}]]
        /\ AskersMangled'
        /\ DoneHeard'
    BY <1>5, SetKeeps DEF DoneHeard
  <2>4. probes' \subseteq Node \X Node
    BY <1>1, <1>5 DEF TypeOK
  <2>5. skipped' \subseteq Mangled
    BY <1>5 DEF TypeOK, AskersMangled
  <2>. QED  BY <2>2, <2>3, <2>4, <2>5 DEF Truthful
<1>6. CASE GotMangledPort(p, m)
  <2>1. beenProbed' \in [Node -> BOOLEAN]
    BY <1>6 DEF GotMangledPort, TypeOK
  <2>2. portKnown' \in [Node -> SUBSET Node]
    BY <1>1, <1>6 DEF GotMangledPort, TypeOK
  <2>3. Ignore(p) \/ AnswerWithProbe(p, m.src, m.good)
    BY <1>6 DEF GotMangledPort
  <2>. QED  BY <1>4, <1>5, <2>1, <2>2, <2>3 DEF Ignore
<1>7. CASE GotProbed(p, m)
  <2>1. beenProbed' \in [Node -> BOOLEAN]
    BY <1>7 DEF GotProbed, TypeOK
  <2>2. portKnown' \in [Node -> SUBSET Node]
    BY <1>7 DEF GotProbed, TypeOK
  <2>3. Ignore(p) \/ AnswerWithProbe(p, m.src, m.src \in portKnown[p])
    BY <1>7 DEF GotProbed
  <2>. QED  BY <1>4, <1>5, <2>1, <2>2, <2>3 DEF Ignore
<1>8. CASE GotConnDone(p, m)
  <2>. USE DEF GotConnDone
  <2>1. CASE Partner(N, round[p], m.node) = m.src
    <3>1. state' = Set(p, m.node, "DONE")
      BY <1>8, <2>1
    <3>2. /\ state' \in [Node -> [Node -> {"NOSTATE", "DONE", "FAILED", "WAITINGFORRESPONSE",
                                    "WAITINGFORMANGLERRESPONSE", "WAITINGFORMANGLEDPORT"}]]
          /\ AskersMangled'
          /\ DoneHeard'
      BY <1>1, <1>2, <1>8, <2>1, <3>1, SetKeeps DEF DoneHeard
    <3>. QED  BY <1>3, <1>8, <3>2 DEF TypeOK, Truthful
  <2>2. CASE Partner(N, round[p], m.node) # m.src
    BY <1>4, <1>8, <2>2 DEF TypeOK
  <2>. QED  BY <2>1, <2>2
<1>9. CASE GotConnFailed(p, m)
  <2>. USE DEF GotConnFailed
  <2>1. /\ state' \in [Node -> [Node -> {"NOSTATE", "DONE", "FAILED", "WAITINGFORRESPONSE",
                                    "WAITINGFORMANGLERRESPONSE", "WAITINGFORMANGLEDPORT"}]]
        /\ AskersMangled'
        /\ DoneHeard'
    BY <1>1, <1>9, SetKeeps DEF DoneHeard
  <2>. QED  BY <1>3, <1>9, <2>1 DEF TypeOK, Truthful
<1>. QED  BY <1>6, <1>7, <1>8, <1>9

LEMMA StepMessage ==
    ASSUME NATInv, NEW p \in Node, ProcessGlobalMessage(p)
    PROVE  NATInv'
<1>. USE DEF NATInv, ProcessGlobalMessage, faults
<1>1. PICK m : /\ m = Head(inbox[p])
               /\ GotMangledPort(p, m) \/ GotProbed(p, m) \/ GotConnDone(p, m) \/ GotConnFailed(p, m)
  OBVIOUS
<1>2. inbox[p] # <<>>
  BY DEF Listens
<1>3. /\ state' \in [Node -> [Node -> {"NOSTATE", "DONE", "FAILED", "WAITINGFORRESPONSE",
                                    "WAITINGFORMANGLERRESPONSE", "WAITINGFORMANGLEDPORT"}]]
      /\ beenProbed' \in [Node -> BOOLEAN]
      /\ portKnown' \in [Node -> SUBSET Node]
      /\ inbox' \in [Node -> Seq(Message)]
      /\ probes' \subseteq Node \X Node
      /\ skipped' \subseteq Mangled
      /\ AskersMangled' /\ DoneHeard' /\ Truthful(inbox, heard)'
  BY <1>1, <1>2, MessageKeeps
<1>4. TypeOK'
  BY <1>3 DEF TypeOK, Mangled
<1>. QED  BY <1>3, <1>4

LEMMA StepInv == NATInv /\ [Next]_vars => NATInv'
<1>. SUFFICES ASSUME NATInv, [Next]_vars PROVE NATInv'
  OBVIOUS
<1>1. ASSUME NEW p \in Node, EstablishConnectionPaths(p) PROVE NATInv'
  BY <1>1, StepEstablish
<1>2. ASSUME NEW p \in Node, NextRound(p) PROVE NATInv'
  BY <1>2, StepNextRound
<1>3. ASSUME NEW p \in Node, LastRound(p) PROVE NATInv'
  <2>1. Finish(p, "DONE") \/ Finish(p, "FAILED")
    BY <1>3 DEF LastRound
  <2>. QED  BY <2>1, StepFinish
<1>4. ASSUME NEW p \in Node, Fail(p) PROVE NATInv'
  <2>1. FailConnection(p) /\ late' = late /\ setup' = setup
    BY <1>4 DEF Fail, FailConnection
  <2>2. late \in 0 .. setup.late
    BY DEF NATInv, TypeOK
  <2>. QED  BY <2>1, <2>2, StepFailConnection
<1>5. ASSUME NEW p \in Node, ResendPort(p) PROVE NATInv'
  BY <1>5, StepResendPort
<1>6. ASSUME NEW p \in Node, ReceiveProbe(p) PROVE NATInv'
  BY <1>6, StepReceiveProbe
<1>7. ASSUME NEW p \in Node, ProbeTarget(p) PROVE NATInv'
  BY <1>7, StepProbeTarget
<1>8. ASSUME NEW p \in Node, ManglerResponse(p) PROVE NATInv'
  BY <1>8, StepManglerResponse
<1>9. ASSUME NEW p \in Node, TooManyRetries(p) \/ PortTimeout(p) PROVE NATInv'
  <2>1. FailConnection(p) /\ setup' = setup /\ (Passed(Quiet) \/ Passed(LongQuiet))
    BY <1>9 DEF TooManyRetries, PortTimeout, FailConnection
  <2>2. Quiet \in BOOLEAN /\ LongQuiet \in BOOLEAN
    BY DEF Quiet, LongQuiet
  <2>3. late' \in 0 .. setup'.late
    BY <2>1, <2>2, PassedKeeps
  <2>. QED  BY <2>1, <2>3, StepFailConnection
<1>10. ASSUME NEW p \in Node, RoundTimeout(p) PROVE NATInv'
  BY <1>10, StepRoundTimeout
<1>11. ASSUME NEW p \in Node, ProcessGlobalMessage(p) PROVE NATInv'
  BY <1>11, StepMessage
<1>12. ASSUME NEW h \in probes, Lose(h) PROVE NATInv'
  BY <1>12, StepLose
<1>13. CASE UNCHANGED vars
  <2>1. TypeOK'
    BY <1>13 DEF NATInv, TypeOK, Mangled, vars, roundVars, history, faults
  <2>. QED  BY <1>13, <2>1, Unchanged DEF NATInv, vars, roundVars, history, faults
<1>. QED
  BY <1>1, <1>2, <1>3, <1>4, <1>5, <1>6, <1>7, <1>8, <1>9, <1>10, <1>11, <1>12, <1>13 DEF Next

-----------------------------------------------------------------------------
(* Type correctness: the rounds, states and messages are those NAT.cpp      *)
(* knows, and no more probes are sent than the retries allow.               *)
THEOREM NATTypeCorrect == Spec => []TypeOK
<1>1. NATInv => TypeOK
  BY DEF NATInv
<1>. QED  BY InitInv, StepInv, <1>1, PTL DEF Spec

(* Nobody takes a connection of its round for done (processGlobalMessage,   *)
(* connectionUpdate) whose node has not been heard by its partner, for any  *)
(* number of players, at whatever speed, and whatever fails or is lost.     *)
THEOREM DoneWhenHeardAlways == Spec => []DoneWhenHeard
<1>1. NATInv => DoneWhenHeard
  BY DEF NATInv, DoneHeard, DoneWhenHeard
<1>. QED  BY InitInv, StepInv, <1>1, PTL DEF Spec

-----------------------------------------------------------------------------
Rounds == 0 .. RequiredRounds(N) - 1

(* Two nodes meet in one round only. *)
LEMMA MeetOnce ==
    ASSUME NEW r \in Rounds, NEW s \in Rounds, NEW p \in Node,
           Partner(N, r, p) = Partner(N, s, p), Partner(N, r, p) # -1
    PROVE  r = s
<1> DEFINE q == Partner(N, r, p)
           met == {u \in Rounds : Partner(N, u, p) = q}
<1>1. q \in Node \ {p}
  BY PartnerMutual DEF Rounds
<1>2. Cardinality(met) = 1
  BY <1>1, NATAssumption, RoundRobin DEF Node, Rounds
<1>3. IsFiniteSet(Rounds)
  <2>1. RequiredRounds(N) - 1 \in Int
    BY RoundsNat
  <2>. QED  BY <2>1, FS_Interval DEF Rounds
<1>4. IsFiniteSet(met)
  BY <1>3, FS_Subset
<1>5. PICK x : met = {x}
  BY <1>2, <1>4, FS_Singleton
<1>6. r \in met /\ s \in met
  OBVIOUS
<1>. QED  BY <1>5, <1>6

(* ... and in one there is. *)
LEMMA MeetSome ==
    ASSUME NEW p \in Node, NEW q \in Node \ {p}
    PROVE  \E r \in Rounds : Partner(N, r, p) = q
<1> DEFINE met == {u \in Rounds : Partner(N, u, p) = q}
<1>1. Cardinality(met) = 1
  BY NATAssumption, RoundRobin DEF Node, Rounds
<1>2. IsFiniteSet(Rounds)
  <2>1. RequiredRounds(N) - 1 \in Int
    BY RoundsNat
  <2>. QED  BY <2>1, FS_Interval DEF Rounds
<1>3. IsFiniteSet(met)
  BY <1>2, FS_Subset
<1>4. PICK x : met = {x}
  BY <1>1, <1>3, FS_Singleton
<1>. QED  BY <1>4

-----------------------------------------------------------------------------
Waits(p) == state[p][p] = "WAITINGFORMANGLERRESPONSE"
OneNetgear == \A p, q \in Netgear : p = q
Smooth == timedOut \cup skipped = {}
Listener(p) == natState[p] \in {"IDLE", "CONNECTING"}

(* p has come to the round in which it meets t. *)
Been(p, t) ==
    \A r \in Rounds : Partner(N, r, p) = t => natState[p] # "IDLE" /\ r <= round[p]

(* ... and does not wait for the mangler's answer in it any more. *)
Exposed(p, t) ==
    \A r \in Rounds : Partner(N, r, p) = t =>
        /\ natState[p] # "IDLE"
        /\ r < round[p] \/ (r = round[p] /\ ~Waits(p))

(* A netgear that has probed t has been probed by it. *)
ProbedFirst(p, t) ==
    OneNetgear /\ p \in Netgear =>
        \A r \in Rounds : Partner(N, r, p) = t /\ r = round[p] => beenProbed[p]

(* What the state of one node says of its round. *)
NodeOK(p) ==
    /\ natState[p] = "IDLE" => round[p] = 0 /\ \A q \in Node : state[p][q] = "NOSTATE"
    /\ natState[p] \in {"DONE", "FAILED"} => inbox[p] = <<>>
    /\ natState[p] = "DONE" => ~RoundsLeft(p)
    /\ natState[p] # "IDLE" =>
          \A q \in Node : Partner(N, round[p], q) = -1 => state[p][q] \in {"DONE", "FAILED"}
    /\ Waits(p) => ~sourceKnown[p]
    /\ OneNetgear /\ p \in Netgear /\ natState[p] # "IDLE" /\ Target(p) # -1 => noRetry[p]
    /\ \A q \in Node : state[p][q] = "FAILED" => q \in timedOut

(* A message that p may find in its inbox. *)
MessageOK(p, m) ==
    /\ m.type \in {"PORT", "PROBED"} => Been(m.src, p)
    /\ m.type = "PORT" /\ m.good /\ Smooth => Exposed(m.src, p)
    /\ m.type = "PORT" /\ ~m.good => Been(p, m.src)
    /\ m.type = "CONNFAILED" => m.node \in timedOut

MessagesOK == \A p \in Node : \A i \in DOMAIN inbox[p] : MessageOK(p, inbox[p][i])

(* p has probed t. *)
Met(p, t) ==
    /\ Been(p, t) /\ Been(t, p)
    /\ ProbedFirst(p, t)
    /\ Smooth => Exposed(p, t) /\ Exposed(t, p)

ProbesOK == \A h \in probes : Met(h[1], h[2])
HeardOK == \A t \in Node : \A p \in heard[t] : Met(p, t)
KnownOK == Smooth => \A p \in Node : \A t \in portKnown[p] : Exposed(t, p)

(* A node that does not know its port has yet to ask, or has been probed. *)
SourceAt(p) ==
    natState[p] = "CONNECTING" /\ Target(p) # -1 /\ ~sourceKnown[p] =>
        Waits(p) \/ Target(p) \in heard[p]

InBox(p, m) == \E i \in DOMAIN inbox[p] : inbox[p][i] = m

(* With each probe comes the word of it. *)
WordAt(p) ==
    LET t == Target(p)
    IN  natState[p] = "CONNECTING" /\ t # -1 /\ (<<t, p>> \in probes \/ t \in heard[p]) =>
           beenProbed[p] \/ InBox(p, Probed(t))

TalkInv ==
    /\ NATInv
    /\ \A p \in Node : NodeOK(p)
    /\ MessagesOK
    /\ ProbesOK
    /\ HeardOK
    /\ KnownOK
    /\ Smooth => \A p \in Node : SourceAt(p)
    /\ \A p \in Node : WordAt(p)

-----------------------------------------------------------------------------
(* A message that a step of p puts into the inbox of n. *)
NewMessage(p, n, m) ==
    /\ m \in Message /\ m.src = p
    /\ m.type \in {"PORT", "PROBED"} => n = Target(p)'
    /\ m.type = "PORT" /\ m.good /\ Smooth' => ~Waits(p)'
    /\ m.type = "PORT" /\ ~m.good =>
          /\ natState[n] = "CONNECTING" /\ round[n] = round[p] /\ round'[p] = round[p]
          /\ Smooth' => Waits(p)'
    /\ m.type = "CONNDONE" =>
          /\ natState[p] = "CONNECTING" /\ round'[p] = round[p] /\ Target(p) \in Node \ {p}
          /\ m = ConnDone(Target(p), p) /\ Target(p) \in heard'[p]
    /\ m.type = "CONNFAILED" => m.node \in timedOut'

(* What a step of p does to another node. *)
SeenBy(p, n) ==
    /\ natState'[n] = natState[n] /\ round'[n] = round[n] /\ state'[n] = state[n]
    /\ beenProbed'[n] = beenProbed[n] /\ noRetry'[n] = noRetry[n]
    /\ sourceKnown'[n] = sourceKnown[n] /\ portKnown'[n] = portKnown[n] /\ heard'[n] = heard[n]
    /\ \/ inbox'[n] = inbox[n]
       \/ /\ Listener(n)
          /\ \E m : NewMessage(p, n, m) /\ inbox'[n] = Append(inbox[n], m)

(* p hears the probe of its target, and says so to everybody. *)
Hears(p) ==
    /\ natState[p] = "CONNECTING" /\ natState'[p] = "CONNECTING" /\ round'[p] = round[p]
    /\ Target(p) \in Node \ {p} /\ <<Target(p), p>> \in probes
    /\ heard'[p] = heard[p] \cup {Target(p)}
    /\ inbox'[p] = inbox[p]
    /\ \A n \in Node : state'[p][n] = IF n = Target(p) THEN "DONE" ELSE state[p][n]
    /\ \A n \in Node \ {p} : Listener(n) => inbox'[n] = Append(inbox[n], ConnDone(Target(p), p))

(* p probes its target. *)
Probes(p) ==
    /\ natState[p] = "CONNECTING" /\ round'[p] = round[p]
    /\ Target(p) \in Node \ {p} /\ Been(Target(p), p)
    /\ OneNetgear /\ p \in Netgear => beenProbed'[p]
    /\ Smooth' => Exposed(Target(p), p) /\ ~Waits(p)' /\ Target(p) \in portKnown'[p]
    /\ natState[Target(p)] = "CONNECTING" /\ round[Target(p)] = round[p] =>
          inbox'[Target(p)] = Append(inbox[Target(p)], Probed(p))

(* A step of p, as the others and the histories see it. *)
Summary(p) ==
    /\ setup' = setup
    /\ \A n \in Node \ {p} : SeenBy(p, n)
    /\ natState'[p] # "IDLE" /\ round[p] <= round'[p]
    /\ natState[p] # "IDLE" /\ round'[p] = round[p] =>
          (~Waits(p) => ~Waits(p)') /\ (beenProbed[p] => beenProbed'[p])
    /\ timedOut \subseteq timedOut' /\ skipped \subseteq skipped'
    /\ heard'[p] = heard[p] \/ Hears(p)
    /\ \A h \in probes' : h \in probes \/ (h = <<p, Target(p)>> /\ Probes(p))
    /\ \A t \in portKnown'[p] : t \in portKnown[p] \/ (Smooth => Exposed(t, p))
    /\ \A i \in DOMAIN inbox'[p] : \E j \in DOMAIN inbox[p] : inbox'[p][i] = inbox[p][j]

-----------------------------------------------------------------------------
LEMMA PostAt ==
    ASSUME NATInv, NEW nodes, NEW m, NEW n \in Node
    PROVE  /\ n \notin nodes \/ ~Listener(n) => Post(nodes, m)[n] = inbox[n]
           /\ n \in nodes /\ Listener(n) => Post(nodes, m)[n] = Append(inbox[n], m)
BY DEF Post, Listener

LEMMA SetAt ==
    ASSUME NATInv, NEW p \in Node, NEW n \in Node, NEW s, state' = Set(p, n, s)
    PROVE  /\ \A m \in Node \ {p} : state'[m] = state[m]
           /\ \A q \in Node : state'[p][q] = IF q = n THEN s ELSE state[p][q]
BY DEF NATInv, TypeOK, Set

LEMMA BeginSummary ==
    ASSUME TalkInv, NEW p \in Node, NEW r \in Rounds, DoThisConnectionRound(p, r),
           \/ natState[p] = "IDLE" /\ r = 0
           \/ natState[p] = "CONNECTING" /\ r = round[p] + 1,
           natState' = [natState EXCEPT ![p] = "CONNECTING"],
           UNCHANGED <<portKnown, probes, history, faults>>
    PROVE  Summary(p) /\ NodeOK(p)'
<1> DEFINE q == Partner(N, r, p)
<1>. USE DEF TalkInv, DoThisConnectionRound, history, faults
<1>0. NATInv /\ NodeOK(p)
  OBVIOUS
<1>1. /\ setup' = setup /\ timedOut' = timedOut /\ skipped' = skipped
      /\ heard' = heard /\ probes' = probes /\ portKnown' = portKnown
  OBVIOUS
<1>2. /\ natState'[p] = "CONNECTING" /\ round'[p] = r
      /\ beenProbed'[p] = FALSE
      /\ noRetry'[p] = (noRetry[p] \/ (q # -1 /\ p \in Netgear /\ q \notin Netgear))
      /\ sourceKnown'[p] = ~AsksMangler(p)
      /\ \A n \in Node \ {p} :
            /\ natState'[n] = natState[n] /\ round'[n] = round[n] /\ state'[n] = state[n]
            /\ beenProbed'[n] = beenProbed[n] /\ noRetry'[n] = noRetry[n]
            /\ sourceKnown'[n] = sourceKnown[n]
  BY DEF NATInv, TypeOK
<1>3. state'[p] = StateForRound(p, r)
  BY DEF NATInv, TypeOK
<1>4. round[p] \in Int /\ r \in Int /\ (round'[p] # round[p] \/ natState[p] = "IDLE")
  BY <1>2, RoundsNat DEF NATInv, TypeOK, Rounds
<1>5. round[p] <= round'[p]
  BY <1>2, <1>4 DEF NodeOK
<1>6. q = -1 \/ q \in Node \ {p}
  BY PartnerMutual DEF Rounds
<1>7. StateForRound(p, r)[p] = "WAITINGFORMANGLERRESPONSE" <=> (q # -1 /\ AsksMangler(p))
  BY DEF StateForRound
<1>8. Target(p)' = q
  BY <1>2 DEF Target
<1>9. ASSUME NEW n \in Node \ {p} PROVE SeenBy(p, n)
  <2>1. inbox'[n] = inbox[n] \/
          (Listener(n) /\ n = q /\ ~AsksMangler(p) /\ inbox'[n] = Append(inbox[n], Port(p, TRUE)))
    BY <1>0, <1>6, PostAt
  <2>2. n = q /\ ~AsksMangler(p) => NewMessage(p, n, Port(p, TRUE))
    <3>0. Port(p, TRUE) \in Message
      BY MessageTypes
    <3>1. /\ Port(p, TRUE) \in Message /\ Port(p, TRUE).src = p
          /\ Port(p, TRUE).type = "PORT" /\ Port(p, TRUE).good = TRUE
      BY <3>0 DEF Port
    <3>2. n = q /\ ~AsksMangler(p) => n = Target(p)' /\ ~Waits(p)'
      BY <1>3, <1>7, <1>8 DEF Waits
    <3>. QED  BY <3>1, <3>2 DEF NewMessage
  <2>. QED  BY <1>1, <1>2, <2>1, <2>2 DEF SeenBy
<1>10. inbox'[p] = inbox[p]
  BY <1>0, <1>6, PostAt
<1>11. \A i \in DOMAIN inbox'[p] : \E j \in DOMAIN inbox[p] : inbox'[p][i] = inbox[p][j]
  BY <1>10
<1>12. Summary(p)
  BY <1>1, <1>2, <1>4, <1>5, <1>9, <1>11 DEF Summary
<1>13. \A n \in Node : state'[p][n] = "NOSTATE" => FALSE
  BY <1>3 DEF StateForRound
<1>14. /\ \A n \in Node : Partner(N, r, n) = -1 => state'[p][n] = "DONE"
       /\ \A n \in Node : state'[p][n] # "FAILED"
  BY <1>3 DEF StateForRound
<1>15. Waits(p)' => ~sourceKnown'[p]
  BY <1>2, <1>3, <1>7 DEF Waits
<1>16. OneNetgear' /\ p \in Netgear' /\ Target(p)' # -1 => noRetry'[p]
  BY <1>1, <1>2, <1>6, <1>8 DEF OneNetgear, Netgear
<1>17. NodeOK(p)'
  <2>1. natState'[p] = "CONNECTING" /\ round'[p] = r
    BY <1>2
  <2>2. \A n \in Node : Partner(N, round'[p], n) = -1 => state'[p][n] \in {"DONE", "FAILED"}
    BY <1>14, <2>1
  <2>. QED  BY <2>1, <2>2, <1>14, <1>15, <1>16 DEF NodeOK
<1>. QED  BY <1>12, <1>17

LEMMA FinishSummary ==
    ASSUME TalkInv, NEW p \in Node, NEW s \in {"DONE", "FAILED"}, natState[p] = "CONNECTING",
           s = "DONE" => ~RoundsLeft(p), Finish(p, s)
    PROVE  Summary(p) /\ NodeOK(p)'
<1>. USE DEF TalkInv, Finish, roundVars, history, faults
<1>0. NATInv /\ NodeOK(p)
  OBVIOUS
<1>1. /\ natState'[p] = s /\ inbox'[p] = <<>>
      /\ \A n \in Node \ {p} : natState'[n] = natState[n] /\ inbox'[n] = inbox[n]
  BY DEF NATInv, TypeOK
<1>2. /\ round' = round /\ state' = state /\ beenProbed' = beenProbed /\ noRetry' = noRetry
      /\ sourceKnown' = sourceKnown /\ portKnown' = portKnown /\ probes' = probes
      /\ setup' = setup /\ heard' = heard /\ timedOut' = timedOut /\ skipped' = skipped
  OBVIOUS
<1>3. \A n \in Node \ {p} : SeenBy(p, n)
  BY <1>1, <1>2 DEF SeenBy
<1>4. round[p] <= round'[p]
  BY <1>2 DEF NATInv, TypeOK
<1>5. DOMAIN inbox'[p] = {}
  BY <1>1
<1>6. Summary(p)
  BY <1>1, <1>2, <1>3, <1>4, <1>5 DEF Summary, Waits
<1>7. NodeOK(p)'
  BY <1>0, <1>1, <1>2 DEF NodeOK, Waits, OneNetgear, Netgear, Target, RoundsLeft
<1>. QED  BY <1>6, <1>7

LEMMA ResendSummary ==
    ASSUME TalkInv, NEW p \in Node, ResendPort(p)
    PROVE  Summary(p) /\ NodeOK(p)'
<1> DEFINE m == Port(p, sourceKnown[p])
<1>. USE DEF TalkInv, ResendPort, roundVars, history, faults
<1>0. NATInv /\ NodeOK(p) /\ natState[p] = "CONNECTING"
  BY DEF Active
<1>1. /\ round' = round /\ state' = state /\ beenProbed' = beenProbed /\ noRetry' = noRetry
      /\ sourceKnown' = sourceKnown /\ portKnown' = portKnown /\ probes' = probes
      /\ setup' = setup /\ heard' = heard /\ timedOut' = timedOut /\ skipped' = skipped
      /\ natState' = natState
  OBVIOUS
<1>2. Target(p) \in Node \ {p}
  BY TargetType DEF PortDue
<1>3. inbox'[p] = inbox[p]
  BY <1>0, <1>2, PostAt
<1>4. natState[Target(p)] = "CONNECTING" /\ round[Target(p)] = round[p]
  BY DEF PortDue, WithTarget
<1>5. sourceKnown[p] => ~Waits(p)
  BY <1>0 DEF NodeOK
<1>6. ~sourceKnown[p] /\ Smooth => Waits(p)
  <2>1. ~beenProbed[p] /\ ~InBox(p, Probed(Target(p)))
    <3>1. inbox[p] = <<>>
      BY DEF PortDue
    <3>2. DOMAIN inbox[p] = {}
      BY <3>1
    <3>. QED  BY <3>2 DEF PortDue, InBox
  <2>3. Target(p) # -1
    BY <1>2 DEF Node
  <2>2. Target(p) \notin heard[p]
    BY <1>0, <2>1, <2>3, Zenon DEF WordAt
  <2>. QED  BY <1>0, <2>2, <2>3 DEF SourceAt
<1>7. NewMessage(p, Target(p), m)
  <2>1. sourceKnown[p] \in BOOLEAN
    BY DEF NATInv, TypeOK
  <2>2. m \in Message
    BY <2>1, MessageTypes
  <2>3. m.src = p /\ m.type = "PORT" /\ m.good = sourceKnown[p]
    BY DEF Port
  <2>4. Target(p)' = Target(p) /\ (Waits(p)' <=> Waits(p)) /\ (Smooth' <=> Smooth)
    BY <1>1 DEF Target, Waits, Smooth
  <2>. HIDE DEF m
  <2>. QED  BY <1>1, <1>4, <1>5, <1>6, <2>2, <2>3, <2>4 DEF NewMessage
<1>8. ASSUME NEW n \in Node \ {p} PROVE SeenBy(p, n)
  <2>1. inbox'[n] = inbox[n] \/ (Listener(n) /\ n = Target(p) /\ inbox'[n] = Append(inbox[n], m))
    BY <1>0, PostAt
  <2>. QED  BY <1>1, <1>7, <2>1 DEF SeenBy
<1>9. \A i \in DOMAIN inbox'[p] : \E j \in DOMAIN inbox[p] : inbox'[p][i] = inbox[p][j]
  BY <1>3
<1>10. round[p] <= round'[p]
  BY <1>1 DEF NATInv, TypeOK
<1>11. Summary(p)
  BY <1>0, <1>1, <1>8, <1>9, <1>10 DEF Summary, Waits
<1>12. NodeOK(p)'
  BY <1>0, <1>1, <1>3 DEF NodeOK, Waits, OneNetgear, Netgear, Target
<1>. QED  BY <1>11, <1>12

LEMMA ProbeSummary ==
    ASSUME TalkInv, NEW p \in Node, ProbeTarget(p)
    PROVE  Summary(p) /\ NodeOK(p)'
<1>. USE DEF TalkInv, ProbeTarget, history, faults
<1>0. NATInv /\ NodeOK(p) /\ natState[p] = "CONNECTING" /\ state[p][p] = "WAITINGFORRESPONSE"
  BY DEF Active, ProbeDue
<1>1. /\ round' = round /\ state' = state /\ beenProbed' = beenProbed /\ noRetry' = noRetry
      /\ sourceKnown' = sourceKnown /\ portKnown' = portKnown
      /\ setup' = setup /\ heard' = heard /\ timedOut' = timedOut /\ skipped' = skipped
      /\ natState' = natState
  OBVIOUS
<1>2. Target(p) \in Node \ {p}
  <2>1. Target(p) # -1
    BY <1>0 DEF NodeOK, Target
  <2>. QED  BY <2>1, TargetType
<1>3. inbox'[p] = inbox[p]
  BY <1>0, <1>2, PostAt
<1>4. natState[Target(p)] = "CONNECTING" /\ round[Target(p)] = round[p]
  BY DEF ProbeDue, WithTarget
<1>5. NewMessage(p, Target(p), Probed(p))
  <2>1. Probed(p) \in Message
    BY MessageTypes
  <2>2. Probed(p).src = p /\ Probed(p).type = "PROBED"
    BY DEF Probed
  <2>3. Target(p)' = Target(p)
    BY <1>1 DEF Target
  <2>. QED  BY <2>1, <2>2, <2>3 DEF NewMessage
<1>6. ASSUME NEW n \in Node \ {p} PROVE SeenBy(p, n)
  <2>1. inbox'[n] = inbox[n] \/ (Listener(n) /\ n = Target(p) /\ inbox'[n] = Append(inbox[n], Probed(p)))
    BY <1>0, PostAt
  <2>. QED  BY <1>1, <1>5, <2>1 DEF SeenBy
<1>7. \A i \in DOMAIN inbox'[p] : \E j \in DOMAIN inbox[p] : inbox'[p][i] = inbox[p][j]
  BY <1>3
<1>8. round[p] <= round'[p]
  BY <1>1 DEF NATInv, TypeOK
<1>9. ASSUME NEW h \in probes', h \notin probes PROVE h = <<p, Target(p)>> /\ Probes(p)
  <2>1. h = <<p, Target(p)>> /\ Target(p) \in portKnown[p]
    BY <1>9 DEF Probe
  <2>2. Been(Target(p), p)
    <3>1. Partner(N, round[Target(p)], Target(p)) = p
      BY <1>2, <1>4, TargetType DEF Node
    <3>2. round[Target(p)] \in Rounds
      BY <1>2 DEF NATInv, TypeOK, Rounds
    <3>3. p # -1
      BY DEF Node
    <3>4. \A r \in Rounds : Partner(N, r, Target(p)) = p => r = round[Target(p)]
      BY <1>2, <3>1, <3>2, <3>3, MeetOnce
    <3>. QED  BY <1>4, <3>2, <3>4 DEF Been, Rounds
  <2>3. OneNetgear /\ p \in Netgear => FALSE
    BY <1>0, <1>2 DEF NodeOK, ProbeDue, Node
  <2>4. Smooth' => Exposed(Target(p), p)
    BY <1>1, <1>2, <2>1 DEF KnownOK, Smooth
  <2>5. ~Waits(p)'
    BY <1>0, <1>1 DEF Waits
  <2>6. inbox'[Target(p)] = Append(inbox[Target(p)], Probed(p))
    BY <1>0, <1>2, <1>4, PostAt DEF Listener
  <2>. QED  BY <1>0, <1>1, <1>2, <2>1, <2>2, <2>3, <2>4, <2>5, <2>6 DEF Probes
<1>11. Summary(p)
  BY <1>0, <1>1, <1>6, <1>7, <1>8, <1>9 DEF Summary, Waits
<1>12. NodeOK(p)'
  BY <1>0, <1>1, <1>3 DEF NodeOK, Waits, OneNetgear, Netgear, Target
<1>. QED  BY <1>11, <1>12

LEMMA HearSummary ==
    ASSUME TalkInv, NEW p \in Node, ReceiveProbe(p)
    PROVE  Summary(p) /\ NodeOK(p)'
<1>. USE DEF TalkInv, ReceiveProbe, faults
<1>0. NATInv /\ NodeOK(p) /\ natState[p] = "CONNECTING" /\ Target(p) \in Node \ {p}
  BY TargetType DEF Active
<1>1. PICK h \in probes :
          /\ h[2] = p
          /\ probes' = probes \ {h}
          /\ IF h[1] = Target(p)
               THEN /\ state' = Set(p, h[1], "DONE")
                    /\ heard' = [heard EXCEPT ![p] = @ \cup {h[1]}]
                    /\ portKnown' = [portKnown EXCEPT ![p] = @ \cup {h[1]}]
                    /\ sourceKnown' = [sourceKnown EXCEPT ![p] = @ /\ h[1] \in portKnown[p]]
                    /\ inbox' = Post(Others(p), ConnDone(h[1], p))
               ELSE UNCHANGED <<state, heard, portKnown, sourceKnown, inbox>>
  OBVIOUS
<1>2. /\ round' = round /\ beenProbed' = beenProbed /\ noRetry' = noRetry
      /\ setup' = setup /\ timedOut' = timedOut /\ skipped' = skipped
      /\ natState' = natState
  OBVIOUS
<1>3. round[p] <= round'[p]
  BY <1>2 DEF NATInv, TypeOK
<1>4. CASE h[1] # Target(p)
  <2>1. /\ state' = state /\ heard' = heard /\ portKnown' = portKnown
        /\ sourceKnown' = sourceKnown /\ inbox' = inbox
    BY <1>1, <1>4
  <2>2. \A n \in Node \ {p} : SeenBy(p, n)
    BY <1>2, <2>1 DEF SeenBy
  <2>3. Summary(p)
    BY <1>0, <1>1, <1>2, <1>3, <2>1, <2>2 DEF Summary, Waits
  <2>4. NodeOK(p)'
    BY <1>0, <1>2, <2>1 DEF NodeOK, Waits, OneNetgear, Netgear, Target
  <2>. QED  BY <2>3, <2>4
<1>5. CASE h[1] = Target(p)
  <2> DEFINE q == Target(p)
  <2>1. /\ state' = Set(p, q, "DONE")
        /\ heard' = [heard EXCEPT ![p] = heard[p] \cup {q}]
        /\ portKnown' = [portKnown EXCEPT ![p] = portKnown[p] \cup {q}]
        /\ sourceKnown' = [sourceKnown EXCEPT ![p] = sourceKnown[p] /\ q \in portKnown[p]]
        /\ inbox' = Post(Others(p), ConnDone(q, p))
    BY <1>1, <1>5, Zenon
  <2>2. /\ \A n \in Node : state'[p][n] = IF n = q THEN "DONE" ELSE state[p][n]
        /\ \A n \in Node \ {p} : state'[n] = state[n]
    BY <1>0, <2>1, SetAt
  <2>3. /\ heard'[p] = heard[p] \cup {q} /\ portKnown'[p] = portKnown[p] \cup {q}
        /\ sourceKnown'[p] = (sourceKnown[p] /\ q \in portKnown[p])
        /\ \A n \in Node \ {p} : /\ heard'[n] = heard[n] /\ portKnown'[n] = portKnown[n]
                                 /\ sourceKnown'[n] = sourceKnown[n]
    BY <2>1 DEF NATInv, TypeOK
  <2>4. inbox'[p] = inbox[p]
    BY <1>0, <2>1, PostAt DEF Others
  <2>5. \A n \in Node \ {p} :
           /\ Listener(n) => inbox'[n] = Append(inbox[n], ConnDone(q, p))
           /\ ~Listener(n) => inbox'[n] = inbox[n]
    BY <1>0, <2>1, PostAt DEF Others
  <2>6. h = <<q, p>> /\ <<q, p>> \in probes
    <3>1. h \in Node \X Node
      BY DEF NATInv, TypeOK
    <3>. QED  BY <1>1, <1>5, <3>1
  <2>7. Hears(p)
    BY <1>0, <1>2, <2>2, <2>3, <2>4, <2>5, <2>6 DEF Hears
  <2>8. \A n \in Node \ {p} : NewMessage(p, n, ConnDone(q, p))
    <3>1. ConnDone(q, p) \in Message
      BY <1>0, MessageTypes
    <3>2. ConnDone(q, p).src = p /\ ConnDone(q, p).type = "CONNDONE"
      BY DEF ConnDone
    <3>. QED  BY <1>0, <1>2, <2>3, <3>1, <3>2 DEF NewMessage
  <2>9. \A n \in Node \ {p} : SeenBy(p, n)
    BY <1>2, <2>2, <2>3, <2>5, <2>8 DEF SeenBy
  <2>10. Smooth => Exposed(q, p)
    BY <2>6, Zenon DEF ProbesOK, Met
  <2>11. Waits(p)' <=> Waits(p)
    BY <1>0, <2>2 DEF Waits
  <2>12. Summary(p)
    BY <1>0, <1>1, <1>2, <1>3, <2>3, <2>4, <2>7, <2>9, <2>10, <2>11 DEF Summary
  <2>13. NodeOK(p)'
    <3>1. Waits(p)' => ~sourceKnown'[p]
      <4>1. Waits(p) => ~sourceKnown[p]
        BY <1>0 DEF NodeOK
      <4>. QED  BY <2>3, <2>11, <4>1, Zenon
    <3>2. \A n \in Node :
             /\ Partner(N, round[p], n) = -1 => state'[p][n] \in {"DONE", "FAILED"}
             /\ state'[p][n] = "FAILED" => n \in timedOut
      BY <1>0, <2>2 DEF NodeOK
    <3>3. OneNetgear' /\ p \in Netgear' /\ Target(p)' # -1 => noRetry'[p]
      BY <1>0, <1>2 DEF NodeOK, OneNetgear, Netgear, Target
    <3>. QED  BY <1>0, <1>2, <3>1, <3>2, <3>3 DEF NodeOK
  <2>. QED  BY <2>12, <2>13
<1>. QED  BY <1>4, <1>5

LEMMA ManglerSummary ==
    ASSUME TalkInv, NEW p \in Node, ManglerResponse(p)
    PROVE  Summary(p) /\ NodeOK(p)'
<1>. USE DEF TalkInv
<1>0. NATInv /\ NodeOK(p) /\ natState[p] = "CONNECTING" /\ Waits(p)
  BY DEF ManglerResponse, Active, Waits
<1>1. /\ round' = round /\ beenProbed' = beenProbed /\ noRetry' = noRetry
      /\ portKnown' = portKnown /\ probes' = probes
      /\ setup' = setup /\ heard' = heard /\ timedOut' = timedOut /\ skipped' = skipped
      /\ natState' = natState
      /\ state' = Set(p, p, "WAITINGFORRESPONSE")
  BY DEF ManglerResponse, history, faults
<1>m. PICK m : m = Port(p, TRUE) /\ inbox' = Post({Target(p)}, m)
  BY DEF ManglerResponse
<1>f. m \in Message /\ m.src = p /\ m.type = "PORT" /\ m.good = TRUE
  BY <1>m, MessageTypes DEF Port
<1>i. inbox' = Post({Target(p)}, m)
  BY <1>m
<1>2. Target(p) \in Node \ {p}
  <2>1. Target(p) # -1
    BY <1>0 DEF NodeOK, Waits, Target
  <2>. QED  BY <2>1, TargetType
<1>3. /\ \A n \in Node \ {p} : state'[n] = state[n]
      /\ \A n \in Node : state'[p][n] = IF n = p THEN "WAITINGFORRESPONSE" ELSE state[p][n]
  BY <1>0, <1>1, SetAt
<1>4. sourceKnown'[p] = TRUE /\ \A n \in Node \ {p} : sourceKnown'[n] = sourceKnown[n]
  BY DEF ManglerResponse, NATInv, TypeOK
<1>5. inbox'[p] = inbox[p]
  BY <1>0, <1>i, <1>2, PostAt
<1>6. ~Waits(p)'
  BY <1>3 DEF Waits
<1>7. NewMessage(p, Target(p), m)
  <2>1. Target(p)' = Target(p)
    BY <1>1 DEF Target
  <2>. QED  BY <1>6, <1>f, <2>1 DEF NewMessage
<1>8. ASSUME NEW n \in Node \ {p} PROVE SeenBy(p, n)
  <2>1. inbox'[n] = inbox[n] \/ (Listener(n) /\ n = Target(p) /\ inbox'[n] = Append(inbox[n], m))
    BY <1>0, <1>i, PostAt
  <2>. QED  BY <1>1, <1>3, <1>4, <1>7, <2>1 DEF SeenBy
<1>9. \A i \in DOMAIN inbox'[p] : \E j \in DOMAIN inbox[p] : inbox'[p][i] = inbox[p][j]
  BY <1>5
<1>10. round[p] <= round'[p]
  BY <1>1 DEF NATInv, TypeOK
<1>11. Summary(p)
  BY <1>0, <1>1, <1>6, <1>8, <1>9, <1>10 DEF Summary
<1>12. NodeOK(p)'
  <2>1. \A n \in Node : Partner(N, round[p], n) = -1 => n # p
    BY <1>2 DEF Target, Node
  <2>. QED  BY <1>0, <1>1, <1>3, <1>4, <1>5, <1>6, <2>1 DEF NodeOK, OneNetgear, Netgear, Target
<1>. QED  BY <1>11, <1>12

(* A failure: what p tells the others, and notes. *)
LEMMA FailSummary ==
    ASSUME TalkInv, NEW p \in Node, natState[p] = "CONNECTING", NotifyUsersOfConnectionFailed(p),
           \/ natState' = natState /\ inbox' = Post(Others(p), ConnFailed(p))
           \/ /\ natState' = [natState EXCEPT ![p] = "FAILED"]
              /\ inbox' = [Post(Others(p), ConnFailed(p)) EXCEPT ![p] = <<>>],
           UNCHANGED <<roundVars, portKnown, probes, heard, skipped, setup>>
    PROVE  Summary(p) /\ NodeOK(p)'
<1> DEFINE posted == Post(Others(p), ConnFailed(p))
<1>. USE DEF TalkInv, NotifyUsersOfConnectionFailed, roundVars
<1>0. NATInv /\ NodeOK(p) /\ natState[p] = "CONNECTING"
  OBVIOUS
<1>1. /\ round' = round /\ beenProbed' = beenProbed /\ noRetry' = noRetry
      /\ sourceKnown' = sourceKnown /\ portKnown' = portKnown /\ probes' = probes
      /\ setup' = setup /\ heard' = heard /\ skipped' = skipped
      /\ timedOut' = timedOut \cup {p}
      /\ state' = Set(p, p, "FAILED")
  OBVIOUS
<1>2. /\ \A n \in Node \ {p} : state'[n] = state[n]
      /\ \A n \in Node : state'[p][n] = IF n = p THEN "FAILED" ELSE state[p][n]
  BY <1>0, <1>1, SetAt
<1>3. /\ posted[p] = inbox[p]
      /\ \A n \in Node \ {p} :
            posted[n] = inbox[n] \/ (Listener(n) /\ posted[n] = Append(inbox[n], ConnFailed(p)))
  BY <1>0, PostAt DEF Others
<1>4. /\ \/ inbox'[p] = inbox[p] /\ natState'[p] = "CONNECTING"
         \/ inbox'[p] = <<>> /\ natState'[p] = "FAILED"
      /\ \A n \in Node \ {p} : inbox'[n] = posted[n] /\ natState'[n] = natState[n]
  <2>1. posted \in [Node -> Seq(Message)]
    BY PostKeeps, MessageTypes DEF NATInv, TypeOK
  <2>. HIDE DEF posted
  <2>2. natState \in [Node -> {"IDLE", "CONNECTING", "DONE", "FAILED"}]
    BY DEF NATInv, TypeOK
  <2>3. \/ natState' = natState /\ inbox' = posted
        \/ natState' = [natState EXCEPT ![p] = "FAILED"] /\ inbox' = [posted EXCEPT ![p] = <<>>]
    BY DEF posted
  <2>4. posted[p] = inbox[p]
    BY <1>3 DEF posted
  <2>. QED  BY <1>0, <2>1, <2>2, <2>3, <2>4
<1>. HIDE DEF posted
<1>5. \A n \in Node \ {p} : NewMessage(p, n, ConnFailed(p))
  <2>1. ConnFailed(p) \in Message
    BY MessageTypes
  <2>2. ConnFailed(p).src = p /\ ConnFailed(p).type = "CONNFAILED" /\ ConnFailed(p).node = p
    BY DEF ConnFailed
  <2>. QED  BY <1>1, <2>1, <2>2 DEF NewMessage
<1>6. \A n \in Node \ {p} : SeenBy(p, n)
  BY <1>1, <1>2, <1>3, <1>4, <1>5 DEF SeenBy
<1>7. \A i \in DOMAIN inbox'[p] : \E j \in DOMAIN inbox[p] : inbox'[p][i] = inbox[p][j]
  <2>1. DOMAIN <<>> = {}
    OBVIOUS
  <2>. QED  BY <1>4, <2>1
<1>8. round[p] <= round'[p]
  BY <1>1 DEF NATInv, TypeOK
<1>9. ~Waits(p)' /\ natState'[p] # "IDLE"
  BY <1>2, <1>4 DEF Waits
<1>10. Summary(p)
  BY <1>0, <1>1, <1>6, <1>7, <1>8, <1>9 DEF Summary
<1>11. NodeOK(p)'
  <2>1. natState'[p] # "DONE" /\ (natState'[p] = "FAILED" => inbox'[p] = <<>>)
    BY <1>4
  <2>. QED  BY <1>0, <1>1, <1>2, <1>9, <2>1 DEF NodeOK, OneNetgear, Netgear, Target
<1>. QED  BY <1>10, <1>11

(* What reading a message does, whatever it is. *)
Reads(p) ==
    /\ \A n \in Node \ {p} : /\ state'[n] = state[n] /\ beenProbed'[n] = beenProbed[n]
                             /\ portKnown'[n] = portKnown[n]
    /\ inbox'[p] = Tail(inbox[p])
    /\ \A n \in Node \ {p} :
          \/ inbox'[n] = inbox[n]
          \/ Listener(n) /\ n = Target(p) /\ inbox'[n] = Append(inbox[n], Probed(p))
    /\ \A q \in Node :
          \/ state'[p][q] = state[p][q]
          \/ q = p /\ Target(p) # -1 /\ state'[p][q] = "WAITINGFORRESPONSE"
          \/ state'[p][q] = "DONE"
          \/ q \in timedOut /\ state'[p][q] = "FAILED"
    /\ beenProbed[p] => beenProbed'[p]
    /\ skipped \subseteq skipped'
    /\ \A h \in probes' : h \in probes \/ (h = <<p, Target(p)>> /\ Probes(p))
    /\ \A t \in portKnown'[p] : t \in portKnown[p] \/ (Smooth => Exposed(t, p))

LEMMA RestAt ==
    ASSUME NATInv, NEW p \in Node, inbox' = Rest(p)
    PROVE  inbox'[p] = Tail(inbox[p]) /\ \A n \in Node \ {p} : inbox'[n] = inbox[n]
BY DEF NATInv, TypeOK, Rest

LEMMA AnswerReads ==
    ASSUME TalkInv, NEW p \in Node, NEW q, NEW known, AnswerWithProbe(p, q, known),
           natState[p] = "CONNECTING", inbox[p] # <<>>,
           q = Target(p), q \in Node, Been(q, p), OneNetgear /\ p \in Netgear => beenProbed'[p],
           known => q \in portKnown'[p], known /\ Smooth => Exposed(q, p),
           UNCHANGED <<round, timedOut, heard>>,
           \A n \in Node \ {p} : beenProbed'[n] = beenProbed[n] /\ portKnown'[n] = portKnown[n],
           beenProbed[p] => beenProbed'[p],
           \A t \in portKnown'[p] : t \in portKnown[p] \/ (Smooth => Exposed(t, p))
    PROVE  Reads(p) /\ ~Waits(p)'
<1>. USE DEF TalkInv
<1>0. NATInv /\ q \in Node \ {p} /\ q # -1
  BY TargetType DEF Node
<1>1. state' = Set(p, p, "WAITINGFORRESPONSE")
  BY DEF AnswerWithProbe
<1>2. /\ \A n \in Node \ {p} : state'[n] = state[n]
      /\ \A n \in Node : state'[p][n] = IF n = p THEN "WAITINGFORRESPONSE" ELSE state[p][n]
  BY <1>0, <1>1, SetAt
<1>3. ~Waits(p)'
  BY <1>2 DEF Waits
<1> DEFINE posted == Post({q}, Probed(p))
<1>4. posted \in [Node -> Seq(Message)]
  BY <1>0, PostKeeps, MessageTypes DEF NATInv, TypeOK
<1>5. inbox' = [posted EXCEPT ![p] = Tail(inbox[p])]
  BY DEF AnswerWithProbe
<1>6. /\ \A n \in Node \ {p, q} : posted[n] = inbox[n]
      /\ Listener(q) => posted[q] = Append(inbox[q], Probed(p))
      /\ ~Listener(q) => posted[q] = inbox[q]
  BY <1>0, PostAt
<1>. HIDE DEF posted
<1>7. inbox'[p] = Tail(inbox[p]) /\ \A n \in Node \ {p} : inbox'[n] = posted[n]
  BY <1>4, <1>5
<1>8. \A n \in Node \ {p} :
          \/ inbox'[n] = inbox[n]
          \/ Listener(n) /\ n = Target(p) /\ inbox'[n] = Append(inbox[n], Probed(p))
  BY <1>6, <1>7
<1>9. skipped \subseteq skipped' /\ (skipped' = {} => ~Waits(p))
  BY DEF AnswerWithProbe, Waits
<1>10. ASSUME NEW h \in probes', h \notin probes
       PROVE  h = <<p, q>> /\ known
  BY <1>10 DEF AnswerWithProbe
<1>11. ASSUME NEW h \in probes', h \notin probes
       PROVE  h = <<p, Target(p)>> /\ Probes(p)
  <2>1. h = <<p, q>> /\ known
    BY <1>10, <1>11
  <2>2. Smooth' => Smooth
    BY <1>9 DEF Smooth
  <2>3. Smooth' => Exposed(q, p) /\ ~Waits(p)' /\ q \in portKnown'[p]
    BY <1>3, <2>1, <2>2
  <2>4. natState[q] = "CONNECTING" => inbox'[q] = Append(inbox[q], Probed(p))
    BY <1>0, <1>6, <1>7 DEF Listener
  <2>. QED  BY <1>0, <2>1, <2>3, <2>4 DEF Probes
<1>12. Reads(p)
  BY <1>0, <1>2, <1>7, <1>8, <1>9, <1>11 DEF Reads
<1>. QED  BY <1>3, <1>12

LEMMA MessageReads ==
    ASSUME TalkInv, NEW p \in Node, ProcessGlobalMessage(p)
    PROVE  Reads(p) /\ (~Waits(p) => ~Waits(p)')
<1>. USE DEF TalkInv
<1>0. NATInv /\ NodeOK(p) /\ natState[p] = "CONNECTING" /\ inbox[p] # <<>>
  BY DEF ProcessGlobalMessage, Listens
<1>1. PICK m : /\ m = Head(inbox[p])
               /\ GotMangledPort(p, m) \/ GotProbed(p, m) \/ GotConnDone(p, m) \/ GotConnFailed(p, m)
  BY DEF ProcessGlobalMessage
<1>2. m \in Message /\ m = inbox[p][1] /\ 1 \in DOMAIN inbox[p]
  <2>1. inbox[p] \in Seq(Message)
    BY DEF NATInv, TypeOK
  <2>. QED  BY <1>0, <1>1, <2>1
<1>3. m.node \in Node /\ m.src \in Node /\ m.good \in BOOLEAN
  BY <1>2 DEF Message
<1>4. MessageOK(p, m)
  BY <1>2 DEF MessagesOK
<1>5. /\ round' = round /\ timedOut' = timedOut /\ heard' = heard
  BY DEF ProcessGlobalMessage
<1>6. ASSUME Ignore(p) \/ (UNCHANGED <<probes, skipped, state>> /\ inbox' = Rest(p)),
             \A n \in Node \ {p} : beenProbed'[n] = beenProbed[n] /\ portKnown'[n] = portKnown[n],
             beenProbed[p] => beenProbed'[p],
             \A t \in portKnown'[p] : t \in portKnown[p] \/ (Smooth => Exposed(t, p))
      PROVE  Reads(p) /\ (~Waits(p) => ~Waits(p)')
  <2>1. inbox' = Rest(p) /\ state' = state /\ probes' = probes /\ skipped' = skipped
    BY <1>6 DEF Ignore
  <2>. QED  BY <1>0, <1>6, <2>1, RestAt DEF Reads, Waits
<1>7. CASE GotMangledPort(p, m)
  <2>. USE DEF GotMangledPort
  <2>1. m.type = "PORT" /\ beenProbed' = beenProbed
    BY <1>7
  <2>2. Been(m.src, p) /\ (m.good /\ Smooth => Exposed(m.src, p))
    BY <1>4, <2>1 DEF MessageOK
  <2>3. CASE state[p][p] = "DONE" \/ m.src # Target(p)
    BY <1>6, <1>7, <2>1, <2>3
  <2>4. CASE ~(state[p][p] = "DONE" \/ m.src # Target(p))
    <3>1. portKnown' = [portKnown EXCEPT ![p] = IF m.good THEN @ \cup {m.src} ELSE @ \ {m.src}]
      BY <1>7, <2>4
    <3>2. portKnown'[p] = IF m.good THEN portKnown[p] \cup {m.src} ELSE portKnown[p] \ {m.src}
      BY <3>1 DEF NATInv, TypeOK
    <3>3. \A n \in Node \ {p} : portKnown'[n] = portKnown[n]
      BY <3>1 DEF NATInv, TypeOK
    <3>4. \A t \in portKnown'[p] : t \in portKnown[p] \/ (Smooth => Exposed(t, p))
      BY <2>2, <3>2
    <3>5. CASE p \notin Netgear \/ beenProbed[p] \/ m.src \in Netgear
      <4>1. AnswerWithProbe(p, m.src, m.good)
        BY <1>7, <2>4, <3>5
      <4>2. OneNetgear /\ p \in Netgear => beenProbed'[p]
        <5>1. m.src # p
          BY <1>3, <2>4, TargetType DEF Node
        <5>. QED  BY <2>1, <3>5, <5>1 DEF OneNetgear
      <4>3. m.good => m.src \in portKnown'[p]
        BY <3>2
      <4>. QED
        BY <1>0, <1>3, <1>5, <2>1, <2>2, <2>4, <3>3, <3>4, <4>1, <4>2, <4>3, AnswerReads
    <3>6. CASE ~(p \notin Netgear \/ beenProbed[p] \/ m.src \in Netgear)
      <4>1. Ignore(p)
        BY <1>7, <2>4, <3>6
      <4>. QED  BY <1>6, <2>1, <3>3, <3>4, <4>1
    <3>. QED  BY <3>5, <3>6
  <2>. QED  BY <2>3, <2>4
<1>8. CASE GotProbed(p, m)
  <2>. USE DEF GotProbed
  <2>1. m.type = "PROBED" /\ portKnown' = portKnown
    BY <1>8
  <2>2. Been(m.src, p)
    BY <1>4, <2>1 DEF MessageOK
  <2>3. beenProbed' = [beenProbed EXCEPT ![p] = beenProbed[p] \/ m.src = Target(p)]
    BY <1>8
  <2>4. /\ beenProbed'[p] = (beenProbed[p] \/ m.src = Target(p))
        /\ \A n \in Node \ {p} : beenProbed'[n] = beenProbed[n]
    BY <2>3 DEF NATInv, TypeOK
  <2>5. CASE m.src = Target(p) /\ ~beenProbed[p] /\ p \in Netgear
    <3>1. AnswerWithProbe(p, m.src, m.src \in portKnown[p])
      BY <1>8, <2>5
    <3>2. m.src \in portKnown[p] /\ Smooth => Exposed(m.src, p)
      BY DEF KnownOK
    <3>. QED
      BY <1>0, <1>3, <1>5, <2>1, <2>2, <2>4, <2>5, <3>1, <3>2, AnswerReads
  <2>6. CASE ~(m.src = Target(p) /\ ~beenProbed[p] /\ p \in Netgear)
    <3>1. Ignore(p)
      BY <1>8, <2>6
    <3>. QED  BY <1>6, <2>1, <2>4, <3>1
  <2>. QED  BY <2>5, <2>6
<1>9. CASE GotConnDone(p, m)
  <2>. USE DEF GotConnDone
  <2>1. /\ inbox' = Rest(p) /\ beenProbed' = beenProbed /\ portKnown' = portKnown
        /\ probes' = probes /\ skipped' = skipped
    BY <1>9
  <2>2. CASE state' = state
    BY <1>6, <2>1, <2>2
  <2>3. CASE state' = Set(p, m.node, "DONE")
    <3>1. /\ \A n \in Node \ {p} : state'[n] = state[n]
          /\ \A n \in Node : state'[p][n] = IF n = m.node THEN "DONE" ELSE state[p][n]
      BY <1>0, <1>3, <2>3, SetAt
    <3>. QED  BY <1>0, <2>1, <3>1, RestAt DEF Reads, Waits
  <2>. QED  BY <1>9, <2>2, <2>3
<1>10. CASE GotConnFailed(p, m)
  <2>. USE DEF GotConnFailed
  <2>1. /\ inbox' = Rest(p) /\ beenProbed' = beenProbed /\ portKnown' = portKnown
        /\ probes' = probes /\ skipped' = skipped /\ state' = Set(p, m.node, "FAILED")
    BY <1>10
  <2>2. /\ \A n \in Node \ {p} : state'[n] = state[n]
        /\ \A n \in Node : state'[p][n] = IF n = m.node THEN "FAILED" ELSE state[p][n]
    BY <1>0, <1>3, <2>1, SetAt
  <2>3. m.node \in timedOut
    BY <1>4, <1>10 DEF MessageOK
  <2>. QED  BY <1>0, <2>1, <2>2, <2>3, RestAt DEF Reads, Waits
<1>. QED  BY <1>1, <1>7, <1>8, <1>9, <1>10

LEMMA MessageSummary ==
    ASSUME TalkInv, NEW p \in Node, ProcessGlobalMessage(p)
    PROVE  Summary(p) /\ NodeOK(p)'
<1>. USE DEF TalkInv
<1>0. NATInv /\ NodeOK(p) /\ natState[p] = "CONNECTING" /\ inbox[p] # <<>>
  BY DEF ProcessGlobalMessage, Listens
<1>1. Reads(p) /\ (~Waits(p) => ~Waits(p)')
  BY MessageReads
<1>2. /\ natState' = natState /\ round' = round /\ noRetry' = noRetry
      /\ sourceKnown' = sourceKnown /\ heard' = heard /\ timedOut' = timedOut
      /\ setup' = setup
  BY DEF ProcessGlobalMessage, faults
<1>3. ASSUME NEW n \in Node \ {p} PROVE SeenBy(p, n)
  <2>1. n = Target(p) => NewMessage(p, n, Probed(p))
    <3>1. Probed(p) \in Message
      BY MessageTypes
    <3>2. Probed(p).src = p /\ Probed(p).type = "PROBED"
      BY DEF Probed
    <3>3. Target(p)' = Target(p)
      BY <1>2 DEF Target
    <3>. QED  BY <3>1, <3>2, <3>3 DEF NewMessage
  <2>. QED  BY <1>1, <1>2, <2>1 DEF Reads, SeenBy
<1>4. \A i \in DOMAIN inbox'[p] : \E j \in DOMAIN inbox[p] : inbox'[p][i] = inbox[p][j]
  <2>1. inbox[p] \in Seq(Message) /\ inbox'[p] = Tail(inbox[p])
    BY <1>1 DEF NATInv, TypeOK, Reads
  <2>2. \A i \in DOMAIN inbox'[p] : i + 1 \in DOMAIN inbox[p] /\ inbox'[p][i] = inbox[p][i + 1]
    BY <1>0, <2>1
  <2>. QED  BY <2>2
<1>5. round[p] <= round'[p]
  BY <1>2 DEF NATInv, TypeOK
<1>6. Summary(p)
  BY <1>0, <1>1, <1>2, <1>3, <1>4, <1>5 DEF Summary, Reads
<1>7. NodeOK(p)'
  <2>1. Waits(p)' => ~sourceKnown'[p]
    BY <1>0, <1>1, <1>2 DEF NodeOK
  <2>2. ASSUME NEW q \in Node
        PROVE  /\ Partner(N, round[p], q) = -1 => state'[p][q] \in {"DONE", "FAILED"}
               /\ state'[p][q] = "FAILED" => q \in timedOut
    BY <1>0, <1>1 DEF NodeOK, Reads, Target
  <2>3. OneNetgear' /\ p \in Netgear' /\ Target(p)' # -1 => noRetry'[p]
    BY <1>0, <1>2 DEF NodeOK, OneNetgear, Netgear, Target
  <2>. QED  BY <1>0, <1>2, <2>1, <2>2, <2>3 DEF NodeOK
<1>. QED  BY <1>6, <1>7

(* Where a node has been it stays. *)
LEMMA BeenStays ==
    ASSUME TalkInv, NATInv', NEW p \in Node, Summary(p), NEW a \in Node, NEW b
    PROVE  (Been(a, b) => Been(a, b)') /\ (Exposed(a, b) => Exposed(a, b)')
<1>. USE DEF TalkInv
<1>0. /\ round[a] \in Nat /\ round'[a] \in Nat /\ round[a] <= round'[a]
      /\ natState[a] # "IDLE" => natState'[a] # "IDLE"
      /\ natState[a] # "IDLE" /\ round'[a] = round[a] /\ ~Waits(a) => ~Waits(a)'
  <2>1. round[a] \in Nat /\ round'[a] \in Nat
    BY DEF NATInv, TypeOK
  <2>2. CASE a = p
    BY <2>1, <2>2 DEF Summary
  <2>3. CASE a # p
    <3>1. SeenBy(p, a)
      BY <2>3 DEF Summary
    <3>. QED  BY <2>1, <3>1 DEF SeenBy, Waits
  <2>. QED  BY <2>2, <2>3
<1>1. \A r \in Rounds : r \in Int
  BY DEF Rounds
<1>2. Been(a, b) => Been(a, b)'
  BY <1>0, <1>1 DEF Been
<1>3. Exposed(a, b) => Exposed(a, b)'
  BY <1>0, <1>1 DEF Exposed
<1>. QED  BY <1>2, <1>3

LEMMA SmoothBefore ==
    ASSUME NEW p, Summary(p)
    PROVE  Smooth' => Smooth
BY DEF Summary, Smooth

LEMMA OthersOK ==
    ASSUME TalkInv, NEW p \in Node, Summary(p), NEW n \in Node \ {p}
    PROVE  NodeOK(n)'
<1>1. NodeOK(n) /\ SeenBy(p, n) /\ setup' = setup /\ timedOut \subseteq timedOut'
  BY DEF TalkInv, Summary
<1>2. natState[n] \in {"DONE", "FAILED"} => inbox'[n] = <<>>
  BY <1>1 DEF SeenBy, Listener, NodeOK
<1>. QED  BY <1>1, <1>2 DEF NodeOK, SeenBy, Waits, OneNetgear, Netgear, Target, RoundsLeft

LEMMA MessageStays ==
    ASSUME TalkInv, NATInv', NEW p \in Node, Summary(p), NEW n \in Node, NEW m \in Message,
           MessageOK(n, m)
    PROVE  MessageOK(n, m)'
<1>1. m.src \in Node
  BY DEF Message
<1>2. (Been(m.src, n) => Been(m.src, n)') /\ (Exposed(m.src, n) => Exposed(m.src, n)')
  BY <1>1, BeenStays
<1>3. Been(n, m.src) => Been(n, m.src)'
  BY BeenStays
<1>4. Smooth' => Smooth
  BY SmoothBefore
<1>5. timedOut \subseteq timedOut'
  BY DEF Summary
<1>. QED  BY <1>2, <1>3, <1>4, <1>5 DEF MessageOK

(* Two that name each other are in the same round. *)
LEMMA SameRound ==
    ASSUME NATInv, NEW p \in Node, NEW n \in Node, Target(p) = n, NEW r \in Rounds,
           Partner(N, r, n) = p
    PROVE  round[p] = r
<1>1. p # -1 /\ n # -1
  BY DEF Node
<1>2. Partner(N, r, p) = n
  BY <1>1, PartnerMutual DEF Rounds
<1>3. round[p] \in Rounds /\ Partner(N, round[p], p) = n
  BY DEF NATInv, TypeOK, Rounds, Target
<1>. QED  BY <1>1, <1>2, <1>3, MeetOnce

LEMMA NewMessageOK ==
    ASSUME TalkInv, NATInv', NEW p \in Node, Summary(p), NEW n \in Node \ {p}, NEW m,
           NewMessage(p, n, m)
    PROVE  MessageOK(n, m)'
<1>. USE DEF TalkInv
<1>0. natState'[p] # "IDLE" /\ m.src = p /\ n # -1 /\ p # -1
  BY DEF Summary, NewMessage, Node
<1>1. /\ round'[p] \in Rounds
      /\ \A r \in Rounds : Partner(N, r, p) = n /\ n = Target(p)' => r = round'[p]
  <2>1. round'[p] \in Rounds
    BY DEF NATInv, TypeOK, Rounds
  <2>2. Target(p)' = Partner(N, round'[p], p)
    BY DEF Target
  <2>. QED  BY <1>0, <2>1, <2>2, MeetOnce
<1>2. m.type \in {"PORT", "PROBED"} => Been(m.src, n)'
  BY <1>0, <1>1 DEF NewMessage, Been, Rounds
<1>3. m.type = "PORT" /\ m.good /\ Smooth' => Exposed(m.src, n)'
  BY <1>0, <1>1 DEF NewMessage, Exposed, Rounds
<1>4. m.type = "PORT" /\ ~m.good => Been(n, m.src)'
  <2>1. SUFFICES ASSUME m.type = "PORT" /\ ~m.good PROVE Been(n, p)'
    BY <1>0
  <2>2. natState[n] = "CONNECTING" /\ round[n] = round[p] /\ round'[p] = round[p] /\ n = Target(p)'
    BY <2>1 DEF NewMessage
  <2>3. natState'[n] = natState[n] /\ round'[n] = round[n]
    BY DEF Summary, SeenBy
  <2>4. \A r \in Rounds : Partner(N, r, n) = p => Partner(N, r, p) = n
    BY <1>0, PartnerMutual DEF Rounds
  <2>. QED  BY <1>1, <2>2, <2>3, <2>4 DEF Been, Rounds
<1>5. m.type = "CONNFAILED" => m.node \in timedOut'
  BY DEF NewMessage
<1>. QED  BY <1>2, <1>3, <1>4, <1>5 DEF MessageOK

LEMMA MessagesStay ==
    ASSUME TalkInv, NATInv', NEW p \in Node, Summary(p)
    PROVE  MessagesOK'
<1>. USE DEF TalkInv
<1>0. inbox \in [Node -> Seq(Message)] /\ inbox' \in [Node -> Seq(Message)]
  BY DEF NATInv, TypeOK
<1>1. ASSUME NEW n \in Node, NEW i \in DOMAIN inbox'[n], NEW m, m = inbox'[n][i]
      PROVE  MessageOK(n, m)'
  <2>0. ASSUME NEW j \in DOMAIN inbox[n], m = inbox[n][j] PROVE MessageOK(n, m)'
    <3>1. m \in Message
      BY <1>0, <2>0
    <3>2. MessageOK(n, m)
      BY <2>0 DEF MessagesOK
    <3>. QED  BY <3>1, <3>2, MessageStays
  <2>1. CASE n = p
    <3>1. PICK j \in DOMAIN inbox[p] : inbox'[p][i] = inbox[p][j]
      BY <1>1, <2>1 DEF Summary
    <3>. QED  BY <1>1, <2>0, <2>1, <3>1
  <2>2. CASE n # p
    <3>1. SeenBy(p, n)
      BY <2>2 DEF Summary
    <3>2. CASE inbox'[n] = inbox[n]
      BY <1>1, <2>0, <3>2
    <3>3. CASE inbox'[n] # inbox[n]
      <4>1. PICK k : NewMessage(p, n, k) /\ inbox'[n] = Append(inbox[n], k)
        BY <3>1, <3>3 DEF SeenBy
      <4>2. inbox[n] \in Seq(Message) /\ k \in Message
        BY <1>0, <4>1 DEF NewMessage
      <4>3. i \in 1 .. Len(inbox[n]) + 1
        BY <1>1, <4>1, <4>2
      <4>4. CASE i = Len(inbox[n]) + 1
        <5>1. m = k
          BY <1>1, <4>1, <4>2, <4>4
        <5>2. NewMessage(p, n, m)
          BY <4>1, <5>1
        <5>. QED  BY <2>2, <5>2, NewMessageOK
      <4>5. CASE i # Len(inbox[n]) + 1
        <5>1. i \in DOMAIN inbox[n] /\ inbox'[n][i] = inbox[n][i]
          BY <4>1, <4>2, <4>3, <4>5
        <5>. QED  BY <1>1, <2>0, <5>1
      <4>. QED  BY <4>4, <4>5
    <3>. QED  BY <3>2, <3>3
  <2>. QED  BY <2>1, <2>2
<1>. QED  BY <1>1 DEF MessagesOK, MessageOK

LEMMA MetStays ==
    ASSUME TalkInv, NATInv', NEW p \in Node, Summary(p), NEW a \in Node, NEW b \in Node, Met(a, b)
    PROVE  Met(a, b)'
<1>. USE DEF TalkInv
<1>1. (Been(a, b) => Been(a, b)') /\ (Exposed(a, b) => Exposed(a, b)')
  BY BeenStays
<1>2. (Been(b, a) => Been(b, a)') /\ (Exposed(b, a) => Exposed(b, a)')
  BY BeenStays
<1>3. Smooth' => Smooth
  BY SmoothBefore
<1>4. ProbedFirst(a, b)'
  <2>1. (OneNetgear' <=> OneNetgear) /\ Netgear' = Netgear
    BY DEF Summary, OneNetgear, Netgear
  <2>2. SUFFICES ASSUME OneNetgear, a \in Netgear, NEW r \in Rounds, Partner(N, r, a) = b,
                        r = round'[a]
                 PROVE  beenProbed'[a]
    <3>1. Rounds' = Rounds
      BY DEF Rounds
    <3>. QED  BY <2>1, <3>1 DEF ProbedFirst
  <2>3. natState[a] # "IDLE" /\ r <= round[a]
    BY <2>2 DEF Met, Been
  <2>4. round[a] \in Nat /\ round'[a] \in Nat
    BY DEF NATInv, TypeOK
  <2>5. CASE a = p
    <3>1. round'[p] = round[p]
      BY <2>2, <2>3, <2>4, <2>5 DEF Summary
    <3>2. beenProbed[p]
      BY <2>2, <2>5, <3>1 DEF Met, ProbedFirst
    <3>. QED  BY <2>3, <2>5, <3>1, <3>2, Zenon DEF Summary
  <2>6. CASE a # p
    <3>1. SeenBy(p, a)
      BY <2>6 DEF Summary
    <3>2. round'[a] = round[a] /\ beenProbed'[a] = beenProbed[a]
      BY <3>1, Zenon DEF SeenBy
    <3>3. beenProbed[a]
      BY <2>2, <3>2 DEF Met, ProbedFirst
    <3>. QED  BY <3>2, <3>3
  <2>. QED  BY <2>5, <2>6
<1>. QED  BY <1>1, <1>2, <1>3, <1>4 DEF Met

LEMMA ProbesMet ==
    ASSUME TalkInv, NATInv', NEW p \in Node, Summary(p), NEW q, q = Target(p), Probes(p)
    PROVE  Met(p, q)'
<1>. USE DEF TalkInv
<1>1. q \in Node \ {p} /\ q # -1 /\ natState'[p] # "IDLE" /\ round'[p] = round[p]
  BY DEF Probes, Summary, Node
<1>2. round[p] \in Rounds /\ Partner(N, round[p], p) = q
  BY DEF NATInv, TypeOK, Rounds, Target
<1>3. \A r \in Rounds : Partner(N, r, p) = q => r = round[p]
  BY <1>1, <1>2, MeetOnce
<1>4. Been(p, q)'
  BY <1>1, <1>2, <1>3 DEF Been, Rounds
<1>5. Been(q, p)'
  BY <1>1, BeenStays DEF Probes
<1>6. Smooth' => Exposed(p, q)' /\ Exposed(q, p)'
  <2>1. Smooth' => Exposed(q, p)'
    BY <1>1, BeenStays DEF Probes
  <2>2. Smooth' => Exposed(p, q)'
    BY <1>1, <1>3 DEF Exposed, Probes, Rounds
  <2>. QED  BY <2>1, <2>2
<1>7. ProbedFirst(p, q)'
  <2>1. (OneNetgear' <=> OneNetgear) /\ Netgear' = Netgear
    BY DEF Summary, OneNetgear, Netgear
  <2>2. OneNetgear' /\ p \in Netgear' => beenProbed'[p]
    BY <2>1, Zenon DEF Probes
  <2>. QED  BY <2>2, Zenon DEF ProbedFirst
<1>. QED  BY <1>4, <1>5, <1>6, <1>7 DEF Met

LEMMA ProbesStay ==
    ASSUME TalkInv, NATInv', NEW p \in Node, Summary(p)
    PROVE  ProbesOK' /\ HeardOK' /\ KnownOK'
<1>. USE DEF TalkInv
<1>1. ASSUME NEW a, NEW b, <<a, b>> \in probes' PROVE Met(a, b)'
  <2>1. a \in Node /\ b \in Node
    BY <1>1 DEF NATInv, TypeOK
  <2>2. CASE <<a, b>> \in probes
    <3>1. Met(a, b)
      BY <2>2 DEF ProbesOK
    <3>. QED  BY <2>1, <3>1, MetStays
  <2>3. CASE <<a, b>> \notin probes
    <3>1. <<a, b>> = <<p, Target(p)>> /\ Probes(p)
      BY <1>1, <2>3 DEF Summary
    <3>2. a = p /\ b = Target(p)
      BY <3>1
    <3>. QED  BY <3>1, <3>2, ProbesMet
  <2>. QED  BY <2>2, <2>3
<1>2. ProbesOK'
  <2>1. ASSUME NEW h \in probes' PROVE Met(h[1], h[2])'
    <3>1. h \in Node \X Node
      BY DEF NATInv, TypeOK
    <3>2. PICK a \in Node, b \in Node : h = <<a, b>>
      BY <3>1
    <3>3. Met(a, b)'
      BY <1>1, <3>2
    <3>4. a = h[1] /\ b = h[2]
      BY <3>2
    <3>. QED  BY <3>3, <3>4
  <2>. QED  BY <2>1 DEF ProbesOK
<1>3. ASSUME NEW t \in Node, NEW a \in heard'[t] PROVE Met(a, t)'
  <2>0. a \in Node
    BY <1>3 DEF NATInv, TypeOK
  <2>1. CASE a \in heard[t]
    <3>1. Met(a, t)
      BY <2>1 DEF HeardOK
    <3>. QED  BY <2>0, <3>1, MetStays
  <2>2. CASE a \notin heard[t]
    <3>1. t = p
      BY <1>3, <2>2 DEF Summary, SeenBy
    <3>2. a = Target(p) /\ <<Target(p), p>> \in probes
      BY <1>3, <2>2, <3>1 DEF Summary, Hears
    <3>3. Met(a, p)
      <4>1. <<a, p>> \in probes
        BY <3>2
      <4>. QED  BY <4>1, Zenon DEF ProbesOK, Met
    <3>. QED  BY <2>0, <3>1, <3>3, MetStays
  <2>. QED  BY <2>1, <2>2
<1>4. HeardOK'
  BY <1>3 DEF HeardOK
<1>5. ASSUME Smooth', NEW n \in Node, NEW t \in portKnown'[n] PROVE Exposed(t, n)'
  <2>1. Smooth
    BY <1>5, SmoothBefore
  <2>2. t \in Node
    BY <1>5 DEF NATInv, TypeOK
  <2>3. t \in portKnown[n] => Exposed(t, n)
    BY <2>1 DEF KnownOK
  <2>4. t \in portKnown[n] \/ Exposed(t, n)
    BY <1>5, <2>1 DEF Summary, SeenBy
  <2>. QED  BY <2>2, <2>3, <2>4, BeenStays
<1>6. KnownOK'
  BY <1>5 DEF KnownOK
<1>. QED  BY <1>2, <1>4, <1>6

-----------------------------------------------------------------------------
LEMMA BoxGrows ==
    ASSUME NATInv, NEW p \in Node, NEW n \in Node, NEW m, SeenBy(p, n), InBox(n, m)
    PROVE  InBox(n, m)'
<1>1. PICK i \in DOMAIN inbox[n] : inbox[n][i] = m
  BY DEF InBox
<1>2. inbox[n] \in Seq(Message)
  BY DEF NATInv, TypeOK
<1>3. i \in DOMAIN inbox'[n] /\ inbox'[n][i] = inbox[n][i]
  <2>1. CASE inbox'[n] = inbox[n]
    BY <2>1
  <2>2. CASE inbox'[n] # inbox[n]
    <3>1. PICK k : NewMessage(p, n, k) /\ inbox'[n] = Append(inbox[n], k)
      BY <2>2 DEF SeenBy
    <3>2. k \in Message
      BY <3>1 DEF NewMessage
    <3>. QED  BY <1>2, <3>1, <3>2
  <2>. QED  BY <2>1, <2>2
<1>. QED  BY <1>1, <1>3 DEF InBox

(* What a node that another one makes a step of knows of its source and of  *)
(* the probes it gets.                                                      *)
LEMMA OthersKnow ==
    ASSUME TalkInv, NEW p \in Node, Summary(p), NEW n \in Node \ {p}
    PROVE  (Smooth' => SourceAt(n)') /\ WordAt(n)'
<1>. USE DEF TalkInv
<1>1. SeenBy(p, n)
  BY DEF Summary
<1>2. /\ Target(n)' = Target(n) /\ natState'[n] = natState[n] /\ heard'[n] = heard[n]
      /\ (Waits(n)' <=> Waits(n))
      /\ (sourceKnown'[n] <=> sourceKnown[n]) /\ (beenProbed'[n] <=> beenProbed[n])
  BY <1>1, Zenon DEF SeenBy, Target, Waits
<1>3. Smooth' => SourceAt(n)'
  <2>1. Smooth' => SourceAt(n)
    BY SmoothBefore
  <2>. QED  BY <1>2, <2>1, Zenon DEF SourceAt
<1>4. WordAt(n)'
  <2>0. PICK t : t = Target(n)
    OBVIOUS
  <2>1. SUFFICES ASSUME natState[n] = "CONNECTING", t # -1, <<t, n>> \in probes' \/ t \in heard[n]
                 PROVE  beenProbed[n] \/ InBox(n, Probed(t))'
    BY <1>2, <2>0 DEF WordAt, InBox, Probed
  <2>2. CASE <<t, n>> \in probes \/ t \in heard[n]
    <3>1. beenProbed[n] \/ InBox(n, Probed(t))
      <4>1. WordAt(n)
        OBVIOUS
      <4>. QED  BY <2>0, <2>1, <2>2, <4>1 DEF WordAt
    <3>. QED  BY <1>1, <3>1, BoxGrows
  <2>3. CASE <<t, n>> \in probes' /\ <<t, n>> \notin probes
    <3>1. <<t, n>> = <<p, Target(p)>> /\ Probes(p)
      BY <2>3 DEF Summary
    <3>2. t = p /\ Target(p) = n
      BY <3>1
    <3>0. Target(n) = p
      BY <2>0, <3>2
    <3>3. round[p] = round[n]
      <4>1. round[n] \in Rounds /\ Partner(N, round[n], n) = p
        BY <3>0 DEF NATInv, TypeOK, Rounds, Target
      <4>. QED  BY <3>2, <4>1, SameRound
    <3>4. inbox'[n] = Append(inbox[n], Probed(p))
      BY <2>1, <3>1, <3>2, <3>3 DEF Probes
    <3>5. inbox[n] \in Seq(Message) /\ Probed(p) \in Message
      BY MessageTypes DEF NATInv, TypeOK
    <3>6. Len(inbox[n]) + 1 \in DOMAIN inbox'[n] /\ inbox'[n][Len(inbox[n]) + 1] = Probed(p)
      BY <3>4, <3>5
    <3>. QED  BY <3>2, <3>6 DEF InBox
  <2>. QED  BY <2>1, <2>2, <2>3
<1>. QED  BY <1>3, <1>4

(* The word of a probe is there as long as the node reads nothing. *)
LEMMA WordStays ==
    ASSUME TalkInv, NEW p \in Node, Summary(p), natState[p] = "CONNECTING", round'[p] = round[p],
           inbox'[p] = inbox[p] \/ natState'[p] # "CONNECTING", beenProbed'[p] = beenProbed[p]
    PROVE  WordAt(p)'
<1>. USE DEF TalkInv
<1>0. PICK t : t = Target(p)
  OBVIOUS
<1>1. Target(p)' = t
  BY <1>0 DEF Target
<1>2. SUFFICES ASSUME natState'[p] = "CONNECTING", t # -1, <<t, p>> \in probes' \/ t \in heard'[p]
               PROVE  beenProbed[p] \/ InBox(p, Probed(t))
  BY <1>1 DEF WordAt, InBox, Probed
<1>3. <<t, p>> \in probes \/ t \in heard[p]
  <2>1. t # p
    BY <1>0, <1>2, TargetType
  <2>2. <<t, p>> \in probes' => <<t, p>> \in probes
    <3>1. <<t, p>> # <<p, Target(p)>>
      BY <2>1
    <3>. QED  BY <3>1 DEF Summary
  <2>3. t \in heard'[p] => t \in heard[p] \/ <<t, p>> \in probes
    BY <1>0 DEF Summary, Hears
  <2>. QED  BY <1>2, <2>2, <2>3
<1>4. WordAt(p)
  OBVIOUS
<1>. QED  BY <1>0, <1>2, <1>3, <1>4 DEF WordAt

LEMMA BeginKnows ==
    ASSUME TalkInv, NEW p \in Node, NEW r \in Rounds, DoThisConnectionRound(p, r),
           \/ natState[p] = "IDLE" /\ r = 0
           \/ natState[p] = "CONNECTING" /\ r = round[p] + 1,
           UNCHANGED <<probes, heard>>
    PROVE  SourceAt(p)' /\ WordAt(p)'
<1>. USE DEF TalkInv
<1>0. PICK q : q = Partner(N, r, p)
  OBVIOUS
<1>1. round'[p] = r /\ Target(p)' = q
  BY <1>0 DEF DoThisConnectionRound, NATInv, TypeOK, Target
<1>2. SourceAt(p)'
  <2>1. sourceKnown'[p] <=> ~AsksMangler(p)
    BY DEF DoThisConnectionRound, NATInv, TypeOK
  <2>2. state'[p] = StateForRound(p, r)
    BY DEF DoThisConnectionRound, NATInv, TypeOK
  <2>3. q # -1 /\ AsksMangler(p) => Waits(p)'
    BY <1>0, <2>2 DEF StateForRound, Waits
  <2>. QED  BY <1>1, <2>1, <2>3 DEF SourceAt
<1>3. ASSUME q # -1, <<q, p>> \in probes \/ q \in heard[p]
      PROVE  FALSE
  <2>1. q \in Node \ {p} /\ Partner(N, r, q) = p
    BY <1>0, <1>3, PartnerMutual DEF Rounds
  <2>2. Been(p, q)
    <3>1. Met(q, p)
      <4>1. <<q, p>> \in probes => Met(q, p)
        BY Zenon DEF ProbesOK, Met
      <4>. QED  BY <1>3, <4>1 DEF HeardOK
    <3>. QED  BY <3>1 DEF Met
  <2>3. natState[p] # "IDLE" /\ r <= round[p]
    BY <1>0, <2>2 DEF Been
  <2>4. round[p] \in Int
    BY DEF NATInv, TypeOK
  <2>. QED  BY <2>3, <2>4
<1>4. WordAt(p)'
  BY <1>1, <1>3 DEF WordAt
<1>. QED  BY <1>2, <1>4

LEMMA HearKnows ==
    ASSUME TalkInv, NEW p \in Node, ReceiveProbe(p), Summary(p)
    PROVE  SourceAt(p)' \/ ~Smooth'
<1>. USE DEF TalkInv
<1>0. /\ round' = round /\ timedOut' = timedOut /\ skipped' = skipped /\ natState' = natState
      /\ natState[p] = "CONNECTING"
  BY DEF ReceiveProbe, Active, faults
<1>1. SUFFICES ASSUME Smooth, Target(p) # -1, ~sourceKnown'[p] PROVE Waits(p)' \/ Target(p) \in heard'[p]
  BY <1>0 DEF SourceAt, Smooth, Target
<1>2. PICK h \in probes :
          IF h[1] = Target(p)
               THEN /\ state' = Set(p, h[1], "DONE")
                    /\ heard' = [heard EXCEPT ![p] = @ \cup {h[1]}]
                    /\ portKnown' = [portKnown EXCEPT ![p] = @ \cup {h[1]}]
                    /\ sourceKnown' = [sourceKnown EXCEPT ![p] = @ /\ h[1] \in portKnown[p]]
                    /\ inbox' = Post(Others(p), ConnDone(h[1], p))
               ELSE UNCHANGED <<state, heard, portKnown, sourceKnown, inbox>>
  BY DEF ReceiveProbe
<1>3. CASE h[1] = Target(p)
  BY <1>2, <1>3 DEF NATInv, TypeOK
<1>4. CASE h[1] # Target(p)
  <2>1. state' = state /\ heard' = heard /\ sourceKnown' = sourceKnown
    BY <1>2, <1>4
  <2>2. SourceAt(p)
    BY <1>1
  <2>. QED  BY <1>0, <1>1, <2>1, <2>2 DEF SourceAt, Waits
<1>. QED  BY <1>3, <1>4

(* A node that waits for the mangler waits on, if nobody fails. *)
LEMMA WaitsOn ==
    ASSUME TalkInv, NEW p \in Node, ProcessGlobalMessage(p), Smooth', Waits(p)
    PROVE  Waits(p)'
<1>. USE DEF TalkInv
<1>0. NATInv /\ NodeOK(p) /\ natState[p] = "CONNECTING" /\ inbox[p] # <<>>
  BY DEF ProcessGlobalMessage, Listens
<1>1. PICK m : /\ m = Head(inbox[p])
               /\ GotMangledPort(p, m) \/ GotProbed(p, m) \/ GotConnDone(p, m) \/ GotConnFailed(p, m)
  BY DEF ProcessGlobalMessage
<1>2. m \in Message /\ m = inbox[p][1] /\ 1 \in DOMAIN inbox[p]
  <2>1. inbox[p] \in Seq(Message)
    BY DEF NATInv, TypeOK
  <2>. QED  BY <1>0, <1>1, <2>1
<1>3. Smooth /\ skipped' = {}
  BY MessageSummary, SmoothBefore DEF Smooth
<1>4. ~AnswerWithProbe(p, m.src, m.good) /\ ~AnswerWithProbe(p, m.src, m.src \in portKnown[p])
  <2>1. Waits(p) => p \notin skipped'
    BY <1>3
  <2>. QED  BY <2>1 DEF AnswerWithProbe, Waits
<1>5. CASE state' = state
  BY <1>5 DEF Waits
<1>6. CASE GotConnDone(p, m) /\ state' = Set(p, m.node, "DONE") /\ Partner(N, round[p], m.node) = m.src
  <2>1. m.node \in heard[m.src]
    BY <1>2, <1>6 DEF NATInv, Truthful, GotConnDone
  <2>2. m.node \in Node /\ m.src \in Node
    BY <1>2 DEF Message
  <2>3. m.node # p
    <3>1. SUFFICES ASSUME m.node = p PROVE FALSE
      OBVIOUS
    <3>2. Exposed(p, m.src)
      BY <1>3, <2>1, <2>2, <3>1 DEF HeardOK, Met
    <3>3. round[p] \in Rounds
      BY DEF NATInv, TypeOK, Rounds
    <3>. QED  BY <1>6, <3>1, <3>2, <3>3 DEF Exposed, Rounds
  <2>4. state'[p][p] = state[p][p]
    BY <1>0, <1>6, <2>2, <2>3, SetAt
  <2>. QED  BY <2>4 DEF Waits
<1>7. CASE GotConnFailed(p, m)
  <2>1. m.type = "CONNFAILED"
    BY <1>7 DEF GotConnFailed
  <2>2. m.node \in timedOut
    BY <1>2, <2>1 DEF MessagesOK, MessageOK
  <2>. QED  BY <1>3, <2>2 DEF Smooth
<1>. QED  BY <1>1, <1>4, <1>5, <1>6, <1>7 DEF GotMangledPort, GotProbed, GotConnDone, Ignore

LEMMA MessageKnows ==
    ASSUME TalkInv, NEW p \in Node, ProcessGlobalMessage(p)
    PROVE  (Smooth' => SourceAt(p)') /\ WordAt(p)'
<1>. USE DEF TalkInv
<1>0. NATInv /\ natState[p] = "CONNECTING" /\ inbox[p] # <<>>
  BY DEF ProcessGlobalMessage, Listens
<1>1. Summary(p) /\ Reads(p)
  BY MessageSummary, MessageReads
<1>2. /\ round' = round /\ natState' = natState /\ sourceKnown' = sourceKnown /\ heard' = heard
      /\ Target(p)' = Target(p)
  BY DEF ProcessGlobalMessage, Target
<1>3. Smooth' => SourceAt(p)'
  <2>1. Smooth' => SourceAt(p) /\ (Waits(p) => Waits(p)')
    BY <1>1, SmoothBefore, WaitsOn
  <2>. QED  BY <1>2, <2>1 DEF SourceAt
<1>4. PICK t : t = Target(p)
  OBVIOUS
<1>5. SUFFICES ASSUME t # -1, <<t, p>> \in probes' \/ t \in heard[p]
               PROVE  beenProbed'[p] \/ InBox(p, Probed(t))'
  BY <1>2, <1>3, <1>4 DEF WordAt, InBox, Probed
<1>6. <<t, p>> \in probes \/ t \in heard[p]
  <2>1. t # p
    BY <1>4, <1>5, TargetType
  <2>2. <<t, p>> # <<p, Target(p)>>
    BY <2>1
  <2>. QED  BY <1>1, <1>5, <2>2 DEF Summary
<1>7. beenProbed[p] \/ InBox(p, Probed(t))
  <2>1. WordAt(p)
    OBVIOUS
  <2>. QED  BY <1>0, <1>4, <1>5, <1>6, <2>1 DEF WordAt
<1>8. CASE beenProbed[p]
  BY <1>1, <1>8 DEF Reads
<1>9. CASE InBox(p, Probed(t))
  <2>1. PICK i \in DOMAIN inbox[p] : inbox[p][i] = Probed(t)
    BY <1>9 DEF InBox
  <2>2. inbox[p] \in Seq(Message) /\ inbox'[p] = Tail(inbox[p])
    BY <1>1 DEF NATInv, TypeOK, Reads
  <2>3. CASE i = 1
    <3>1. Head(inbox[p]) = Probed(t)
      BY <1>0, <2>1, <2>2, <2>3
    <3>2. Probed(t).type = "PROBED" /\ Probed(t).src = t
      BY DEF Probed
    <3>3. GotProbed(p, Probed(t))
      BY <3>1, <3>2 DEF ProcessGlobalMessage, GotMangledPort, GotConnDone, GotConnFailed
    <3>. QED  BY <1>4, <3>2, <3>3 DEF GotProbed, NATInv, TypeOK
  <2>4. CASE i # 1
    <3>1. i - 1 \in DOMAIN inbox'[p] /\ inbox'[p][i - 1] = Probed(t)
      BY <1>0, <2>1, <2>2, <2>4
    <3>. QED  BY <3>1 DEF InBox
  <2>. QED  BY <2>3, <2>4
<1>. QED  BY <1>7, <1>8, <1>9

LEMMA TalkInit == Init => TalkInv
<1>. SUFFICES ASSUME Init PROVE TalkInv
  OBVIOUS
<1>. USE DEF Init
<1>0. NATInv
  BY InitInv
<1>1. ASSUME NEW p \in Node PROVE NodeOK(p) /\ SourceAt(p) /\ WordAt(p)
  BY DEF NodeOK, SourceAt, WordAt, Waits
<1>2. MessagesOK
  <2>1. \A p \in Node : DOMAIN inbox[p] = {}
    OBVIOUS
  <2>. QED  BY <2>1 DEF MessagesOK
<1>3. ProbesOK /\ HeardOK /\ KnownOK
  BY DEF ProbesOK, HeardOK, KnownOK
<1>. QED  BY <1>0, <1>1, <1>2, <1>3 DEF TalkInv

(* A step of p that keeps what is said of p. *)
LEMMA TalkKept ==
    ASSUME TalkInv, NATInv', NEW p \in Node, Summary(p), NodeOK(p)',
           Smooth' => SourceAt(p)', WordAt(p)'
    PROVE  TalkInv'
<1>1. ASSUME NEW n \in Node PROVE NodeOK(n)'
  BY OthersOK
<1>2. ASSUME NEW n \in Node PROVE (Smooth' => SourceAt(n)') /\ WordAt(n)'
  BY OthersKnow
<1>3. MessagesOK' /\ ProbesOK' /\ HeardOK' /\ KnownOK'
  BY MessagesStay, ProbesStay
<1>4. Node' = Node
  BY DEF Node
<1>. QED  BY <1>1, <1>2, <1>3, <1>4 DEF TalkInv

(* The steps in which a node notes a failure and tells the others. *)
Fails(p) == TooManyRetries(p) \/ PortTimeout(p) \/ RoundTimeout(p) \/ Fail(p)

LEMMA FailsDoes ==
    ASSUME NEW p \in Node, Fails(p)
    PROVE  /\ natState[p] = "CONNECTING" /\ NotifyUsersOfConnectionFailed(p)
           /\ UNCHANGED <<roundVars, portKnown, probes, heard, skipped, setup>>
           /\ \/ natState' = natState /\ inbox' = Post(Others(p), ConnFailed(p))
              \/ /\ natState' = [natState EXCEPT ![p] = "FAILED"]
                 /\ inbox' = [Post(Others(p), ConnFailed(p)) EXCEPT ![p] = <<>>]
           /\ timedOut' # {}
BY DEF Fails, TooManyRetries, PortTimeout, RoundTimeout, Fail, FailConnection, Active,
       NotifyUsersOfConnectionFailed

(* Each step of Next but the loss of a probe is one of somebody's. *)
StepOf(p) ==
    \/ EstablishConnectionPaths(p)
    \/ NextRound(p) \/ LastRound(p)
    \/ ResendPort(p) \/ ReceiveProbe(p) \/ ProbeTarget(p) \/ ManglerResponse(p)
    \/ Fails(p)
    \/ ProcessGlobalMessage(p)

LEMMA StepSummary ==
    ASSUME TalkInv, NATInv', NEW p \in Node, StepOf(p)
    PROVE  Summary(p) /\ TalkInv'
<1>. SUFFICES Summary(p) /\ NodeOK(p)' /\ (Smooth' => SourceAt(p)') /\ WordAt(p)'
  BY TalkKept
<1>. USE DEF TalkInv, StepOf
<1>1. CASE EstablishConnectionPaths(p)
  <2>. USE <1>1 DEF EstablishConnectionPaths
  <2>1. 0 \in Rounds
    BY RoundsNat DEF Rounds
  <2>2. DoThisConnectionRound(p, 0) /\ natState[p] = "IDLE"
    OBVIOUS
  <2>3. UNCHANGED <<probes, heard>>
    BY DEF history
  <2>. QED  BY <2>1, <2>2, <2>3, BeginSummary, BeginKnows
<1>2. CASE NextRound(p)
  <2>. USE <1>2 DEF NextRound, RoundIsOver
  <2>1. round[p] + 1 \in Rounds
    BY RoundsNat DEF RoundsLeft, NATInv, TypeOK, Rounds
  <2>2. DoThisConnectionRound(p, round[p] + 1) /\ natState[p] = "CONNECTING"
    OBVIOUS
  <2>3. UNCHANGED <<probes, heard>>
    BY DEF history
  <2>4. natState' = [natState EXCEPT ![p] = "CONNECTING"]
    BY DEF NATInv, TypeOK
  <2>. QED  BY <2>1, <2>2, <2>3, <2>4, BeginSummary, BeginKnows
<1>3. CASE LastRound(p)
  <2>1. PICK s \in {"DONE", "FAILED"} : Finish(p, s) /\ (s = "DONE" => ~RoundsLeft(p))
    BY <1>3 DEF LastRound
  <2>2. natState[p] = "CONNECTING"
    BY <1>3 DEF LastRound, RoundIsOver
  <2>3. natState'[p] = s
    BY <2>1 DEF Finish, NATInv, TypeOK
  <2>. QED  BY <2>1, <2>2, <2>3, FinishSummary DEF SourceAt, WordAt
<1>4. CASE ResendPort(p)
  <2>1. Summary(p) /\ NodeOK(p)'
    BY <1>4, ResendSummary
  <2>2. /\ natState' = natState /\ round' = round /\ beenProbed' = beenProbed /\ heard' = heard
        /\ state' = state /\ sourceKnown' = sourceKnown /\ natState[p] = "CONNECTING"
    BY <1>4 DEF ResendPort, Active, roundVars, history
  <2>3. inbox'[p] = inbox[p]
    <3>1. Target(p) # p
      BY TargetType DEF Node
    <3>. QED  BY <1>4, <3>1, PostAt DEF ResendPort
  <2>4. Smooth' => SourceAt(p)'
    BY <2>1, <2>2, SmoothBefore DEF SourceAt, Target, Waits
  <2>. QED  BY <2>1, <2>2, <2>3, <2>4, WordStays
<1>5. CASE ReceiveProbe(p)
  <2>1. Summary(p) /\ NodeOK(p)'
    BY <1>5, HearSummary
  <2>2. /\ natState' = natState /\ round' = round /\ beenProbed' = beenProbed
        /\ natState[p] = "CONNECTING"
    BY <1>5 DEF ReceiveProbe, Active
  <2>3. inbox'[p] = inbox[p]
    BY <1>5, PostAt DEF ReceiveProbe, Others
  <2>. QED  BY <1>5, <2>1, <2>2, <2>3, WordStays, HearKnows
<1>6. CASE ProbeTarget(p)
  <2>1. Summary(p) /\ NodeOK(p)'
    BY <1>6, ProbeSummary
  <2>2. /\ natState' = natState /\ round' = round /\ beenProbed' = beenProbed /\ heard' = heard
        /\ state' = state /\ sourceKnown' = sourceKnown /\ natState[p] = "CONNECTING"
    BY <1>6 DEF ProbeTarget, Active, history
  <2>3. inbox'[p] = inbox[p]
    <3>1. Target(p) # p
      BY TargetType DEF Node
    <3>. QED  BY <1>6, <3>1, PostAt DEF ProbeTarget
  <2>4. Smooth' => SourceAt(p)'
    BY <2>1, <2>2, SmoothBefore DEF SourceAt, Target, Waits
  <2>. QED  BY <2>1, <2>2, <2>3, <2>4, WordStays
<1>7. CASE ManglerResponse(p)
  <2>1. Summary(p) /\ NodeOK(p)'
    BY <1>7, ManglerSummary
  <2>2. /\ natState' = natState /\ round' = round /\ beenProbed' = beenProbed
        /\ natState[p] = "CONNECTING"
    BY <1>7 DEF ManglerResponse, Active
  <2>3. inbox'[p] = inbox[p]
    <3>1. Target(p) # p
      BY TargetType DEF Node
    <3>2. PICK m : inbox' = Post({Target(p)}, m)
      BY <1>7 DEF ManglerResponse
    <3>. QED  BY <3>1, <3>2, PostAt
  <2>4. sourceKnown'[p]
    BY <1>7 DEF ManglerResponse, NATInv, TypeOK
  <2>. QED  BY <2>1, <2>2, <2>3, <2>4, WordStays DEF SourceAt
<1>8. CASE Fails(p)
  <2>1. /\ NotifyUsersOfConnectionFailed(p) /\ natState[p] = "CONNECTING"
        /\ UNCHANGED <<roundVars, portKnown, probes, heard, skipped, setup>>
    BY <1>8, FailsDoes
  <2>2. \/ natState' = natState /\ inbox' = Post(Others(p), ConnFailed(p))
        \/ /\ natState' = [natState EXCEPT ![p] = "FAILED"]
           /\ inbox' = [Post(Others(p), ConnFailed(p)) EXCEPT ![p] = <<>>]
    BY <1>8, FailsDoes
  <2>3. Summary(p) /\ NodeOK(p)'
    BY <2>1, <2>2, FailSummary
  <2>4. ~Smooth'
    BY <1>8, FailsDoes DEF Smooth
  <2>5. inbox'[p] = inbox[p] \/ natState'[p] # "CONNECTING"
    <3>1. Post(Others(p), ConnFailed(p))[p] = inbox[p]
      BY PostAt DEF Others
    <3>2. natState \in [Node -> {"IDLE", "CONNECTING", "DONE", "FAILED"}]
      BY DEF NATInv, TypeOK
    <3>. QED  BY <2>2, <3>1, <3>2
  <2>6. round'[p] = round[p] /\ beenProbed'[p] = beenProbed[p]
    BY <2>1 DEF roundVars
  <2>. QED  BY <2>1, <2>3, <2>4, <2>5, <2>6, WordStays
<1>9. CASE ProcessGlobalMessage(p)
  BY <1>9, MessageSummary, MessageKnows
<1>. QED  BY <1>1, <1>2, <1>3, <1>4, <1>5, <1>6, <1>7, <1>8, <1>9

(* A probe is lost, or nothing happens. *)
Nothing ==
    /\ UNCHANGED <<natState, roundVars, state, portKnown, inbox, history, setup>>
    /\ probes' \subseteq probes

LEMMA NothingChanges ==
    ASSUME TalkInv, NATInv', Nothing
    PROVE  TalkInv'
<1>. USE DEF Nothing, roundVars, history
<1>0. /\ (Smooth' <=> Smooth) /\ (OneNetgear' <=> OneNetgear) /\ Netgear' = Netgear
      /\ Rounds' = Rounds /\ Node' = Node
  BY DEF Smooth, OneNetgear, Netgear, Rounds, Node
<1>1. \A a, b : (Been(a, b)' <=> Been(a, b)) /\ (Exposed(a, b)' <=> Exposed(a, b))
  BY <1>0 DEF Been, Exposed, Waits
<1>2. \A a, b : Met(a, b)' <=> Met(a, b)
  BY <1>0, <1>1 DEF Met, ProbedFirst
<1>3. \A n \in Node : NodeOK(n) => NodeOK(n)'
  BY <1>0 DEF NodeOK, Waits, Target, RoundsLeft
<1>4. MessagesOK => MessagesOK'
  BY <1>0, <1>1 DEF MessagesOK, MessageOK
<1>5. (ProbesOK => ProbesOK') /\ (HeardOK => HeardOK') /\ (KnownOK => KnownOK')
  BY <1>0, <1>1, <1>2 DEF ProbesOK, HeardOK, KnownOK
<1>6. \A n \in Node : (SourceAt(n) => SourceAt(n)') /\ (WordAt(n) => WordAt(n)')
  BY DEF SourceAt, WordAt, Target, Waits, InBox, Probed
<1>. QED  BY <1>0, <1>3, <1>4, <1>5, <1>6 DEF TalkInv

LEMMA StepKinds ==
    ASSUME TalkInv, [Next]_vars
    PROVE  /\ NATInv'
           /\ Nothing \/ \E p \in Node : StepOf(p)
<1>1. NATInv'
  BY StepInv DEF TalkInv
<1>2. ASSUME NEW h \in probes, Lose(h) PROVE Nothing
  BY <1>2 DEF Lose, Nothing, history, faults
<1>3. ASSUME UNCHANGED vars PROVE Nothing
  BY <1>3 DEF vars, Nothing, faults
<1>. QED  BY <1>1, <1>2, <1>3 DEF Next, StepOf, Fails

LEMMA TalkStep == TalkInv /\ [Next]_vars => TalkInv'
BY StepKinds, StepSummary, NothingChanges

-----------------------------------------------------------------------------
(* p has been through round r. *)
Ended(p, r) == r < round[p] \/ (r = round[p] /\ natState[p] = "DONE")

(* In a round that somebody has been through everybody that has not failed  *)
(* has been heard.                                                          *)
EndedHeard ==
    \A p, q \in Node : \A r \in Rounds :
        LET t == Partner(N, r, q)
        IN  Ended(p, r) /\ t # -1 /\ q \notin timedOut => q \in heard[t]

LEMMA HeardStays ==
    ASSUME NATInv, NEW p \in Node, Summary(p), NEW n \in Node
    PROVE  heard[n] \subseteq heard'[n]
BY DEF Summary, SeenBy, Hears

(* At the end of a round. *)
LEMMA AllHeard ==
    ASSUME TalkInv, NEW p \in Node, NEW q \in Node, natState[p] = "CONNECTING",
           AllConnectionsDoneThisRound(p), Partner(N, round[p], q) # -1, q \notin timedOut
    PROVE  state[p][q] = "DONE" /\ q \in heard[Partner(N, round[p], q)]
<1>1. state[p][q] = "DONE"
  BY DEF TalkInv, NodeOK, AllConnectionsDoneThisRound
<1>. QED  BY <1>1 DEF TalkInv, NATInv, DoneHeard

(* A step that ends a round of p. *)
LEMMA EndsRound ==
    ASSUME TalkInv, NATInv', NEW p \in Node, StepOf(p),
           NEW r \in Rounds, Ended(p, r)', ~Ended(p, r)
    PROVE  /\ r = round[p] /\ natState[p] = "CONNECTING" /\ AllConnectionsDoneThisRound(p)
           /\ NextRound(p) \/ LastRound(p)
<1>. USE DEF TalkInv, StepOf
<1>0. round \in [Node -> Rounds] /\ round[p] \in Nat /\ r \in Nat
      /\ natState \in [Node -> {"IDLE", "CONNECTING", "DONE", "FAILED"}]
  BY DEF NATInv, TypeOK, Rounds
<1>1. CASE EstablishConnectionPaths(p)
  <2>1. round[p] = 0 /\ round'[p] = 0 /\ natState'[p] = "CONNECTING"
    BY <1>0, <1>1 DEF EstablishConnectionPaths, DoThisConnectionRound, NodeOK
  <2>. QED  BY <1>0, <2>1 DEF Ended
<1>2. CASE NextRound(p)
  <2>1. round'[p] = round[p] + 1 /\ natState'[p] = "CONNECTING" /\ natState[p] = "CONNECTING"
    BY <1>0, <1>2 DEF NextRound, DoThisConnectionRound, RoundIsOver
  <2>2. AllConnectionsDoneThisRound(p)
    BY <1>2 DEF NextRound, RoundIsOver
  <2>. QED  BY <1>0, <1>2, <2>1, <2>2 DEF Ended
<1>3. CASE LastRound(p)
  <2>1. round' = round /\ natState[p] = "CONNECTING" /\ AllConnectionsDoneThisRound(p)
    BY <1>3 DEF LastRound, Finish, RoundIsOver, roundVars
  <2>. QED  BY <1>0, <1>3, <2>1 DEF Ended
<1>4. CASE Fails(p)
  <2>1. round' = round /\ natState'[p] # "DONE"
    BY <1>0, <1>4, FailsDoes DEF roundVars
  <2>. QED  BY <2>1 DEF Ended
<1>5. CASE \/ ResendPort(p) \/ ReceiveProbe(p) \/ ProbeTarget(p) \/ ManglerResponse(p)
           \/ ProcessGlobalMessage(p)
  <2>1. round' = round /\ natState'[p] # "DONE"
    BY <1>0, <1>5
       DEF ResendPort, ReceiveProbe, ProbeTarget, ManglerResponse,
           ProcessGlobalMessage, Active, Listens, roundVars
  <2>. QED  BY <2>1 DEF Ended
<1>. QED  BY <1>1, <1>2, <1>3, <1>4, <1>5

LEMMA EndedStep ==
    ASSUME TalkInv, EndedHeard, [Next]_vars
    PROVE  EndedHeard'
<1>. USE DEF TalkInv
<1>0. Node' = Node /\ Rounds' = Rounds
  BY DEF Node, Rounds
<1>1. NATInv'
  BY StepKinds
<1>2. CASE Nothing
  BY <1>0, <1>2 DEF Nothing, EndedHeard, Ended, roundVars, history
<1>3. ASSUME NEW p \in Node, StepOf(p)
      PROVE  EndedHeard'
  <2>1. Summary(p)
    BY <1>1, <1>3, StepSummary
  <2>2. ASSUME NEW n \in Node, NEW q \in Node, NEW r \in Rounds, NEW t, t = Partner(N, r, q),
               Ended(n, r)', t # -1, q \notin timedOut'
        PROVE  q \in heard'[t]
    <3>1. t \in Node /\ q \notin timedOut
      BY <2>1, <2>2, PartnerMutual DEF Rounds, Summary
    <3>2. CASE Ended(n, r)
      <4>1. q \in heard[t]
        BY <2>2, <3>1, <3>2 DEF EndedHeard
      <4>. QED  BY <2>1, <3>1, <4>1, HeardStays
    <3>3. CASE ~Ended(n, r)
      <4>1. n = p
        BY <2>1, <2>2, <3>3 DEF Summary, SeenBy, Ended
      <4>2. r = round[p] /\ natState[p] = "CONNECTING" /\ AllConnectionsDoneThisRound(p)
        BY <1>1, <1>3, <2>2, <3>3, <4>1, EndsRound
      <4>3. q \in heard[t]
        BY <2>2, <3>1, <4>2, AllHeard
      <4>. QED  BY <2>1, <3>1, <4>3, HeardStays
    <3>. QED  BY <3>2, <3>3
  <2>. QED  BY <1>0, <2>2 DEF EndedHeard
<1>. QED  BY <1>2, <1>3, StepKinds

-----------------------------------------------------------------------------
Fine == timedOut = {} /\ OneNetgear

(* Of each pair of this round or a later one that is done a listener knows, *)
(* or has the word of it.                                                   *)
Told(p) ==
    \A q \in Node : \A r \in Rounds :
        LET t == Partner(N, r, q)
        IN  Listener(p) /\ r >= round[p] /\ t # -1 /\ q \in heard[t] =>
               \/ r = round[p] /\ state[p][q] = "DONE"
               \/ InBox(p, ConnDone(q, t))

(* The word of a round comes after that of the rounds before it. *)
Ordered(p) ==
    \A i \in DOMAIN inbox[p] : \A r \in Rounds :
        inbox[p][i].type = "CONNDONE" /\ Partner(N, r, inbox[p][i].node) = inbox[p][i].src =>
           \A q \in Node : \A s \in Rounds :
               LET t == Partner(N, s, q)
               IN  round[p] <= s /\ s < r /\ t # -1 =>
                      \/ s = round[p] /\ state[p][q] = "DONE"
                      \/ \E j \in DOMAIN inbox[p] : j < i /\ inbox[p][j] = ConnDone(q, t)

(* The inductive invariant of NoneForgotten. *)
ToldInv == TalkInv /\ EndedHeard /\ (Fine => \A p \in Node : Told(p) /\ Ordered(p))

-----------------------------------------------------------------------------
LEMMA FineBefore ==
    ASSUME NEW p, Summary(p)
    PROVE  Fine' => Fine
BY DEF Summary, Fine, OneNetgear, Netgear

LEMMA OthersTold ==
    ASSUME TalkInv, EndedHeard, timedOut = {}, NEW p \in Node, Summary(p), NEW n \in Node \ {p},
           Told(n), Ordered(n)
    PROVE  Told(n)' /\ Ordered(n)'
<1>. USE DEF TalkInv
<1>0. SeenBy(p, n) /\ round[n] \in Nat /\ inbox[n] \in Seq(Message)
  BY DEF Summary, NATInv, TypeOK
<1>1. natState'[n] = natState[n] /\ round'[n] = round[n] /\ state'[n] = state[n]
  BY <1>0 DEF SeenBy
<1>2. /\ Node' = Node /\ Rounds' = Rounds /\ (Listener(n)' <=> Listener(n))
  BY <1>1 DEF Node, Rounds, Listener
<1>3. Told(n)'
  <2>1. ASSUME NEW q \in Node, NEW r \in Rounds, NEW t, t = Partner(N, r, q), Listener(n),
               r >= round[n], t # -1, q \in heard'[t], NEW m, m = ConnDone(q, t)
        PROVE  (r = round[n] /\ state[n][q] = "DONE") \/ InBox(n, m)'
    <3>0. t \in Node
      BY <2>1, PartnerMutual DEF Rounds
    <3>1. CASE q \in heard[t]
      <4>1. (r = round[n] /\ state[n][q] = "DONE") \/ InBox(n, m)
        BY <2>1, <3>1 DEF Told
      <4>. QED  BY <1>0, <4>1, BoxGrows
    <3>2. CASE q \notin heard[t]
      <4>1. t = p
        BY <2>1, <3>0, <3>2 DEF Summary, SeenBy
      <4>2. Hears(p) /\ q = Target(p)
        BY <2>1, <3>2, <4>1 DEF Summary, Hears
      <4>3. inbox'[n] = Append(inbox[n], m)
        BY <2>1, <4>1, <4>2 DEF Hears
      <4>4. m \in Message
        BY <2>1, <3>0, MessageTypes
      <4>5. Len(inbox[n]) + 1 \in DOMAIN inbox'[n] /\ inbox'[n][Len(inbox[n]) + 1] = m
        BY <1>0, <4>3, <4>4
      <4>. QED  BY <4>5 DEF InBox
    <3>. QED  BY <3>1, <3>2
  <2>. QED  BY <1>1, <1>2, <2>1 DEF Told, InBox, ConnDone
<1>4. Ordered(n)'
  <2>1. ASSUME NEW i \in DOMAIN inbox'[n], NEW r \in Rounds, NEW k, k = inbox'[n][i],
               k.type = "CONNDONE", Partner(N, r, k.node) = k.src,
               NEW q \in Node, NEW s \in Rounds, NEW t, t = Partner(N, s, q),
               round[n] <= s, s < r, t # -1, NEW m, m = ConnDone(q, t)
        PROVE  \/ s = round[n] /\ state[n][q] = "DONE"
               \/ \E j \in DOMAIN inbox'[n] : j < i /\ inbox'[n][j] = m
    <3>0. t \in Node
      BY <2>1, PartnerMutual DEF Rounds
    <3>1. CASE i \in DOMAIN inbox[n]
      <4>1. /\ inbox'[n][i] = inbox[n][i]
            /\ \A j \in DOMAIN inbox[n] : j \in DOMAIN inbox'[n] /\ inbox'[n][j] = inbox[n][j]
        <5>1. ASSUME NEW x, NewMessage(p, n, x), inbox'[n] = Append(inbox[n], x)
              PROVE  \A j \in DOMAIN inbox[n] : j \in DOMAIN inbox'[n] /\ inbox'[n][j] = inbox[n][j]
          <6>1. x \in Message
            BY <5>1 DEF NewMessage
          <6>. QED  BY <1>0, <5>1, <6>1
        <5>. QED  BY <1>0, <3>1, <5>1 DEF SeenBy
      <4>2. \/ s = round[n] /\ state[n][q] = "DONE"
            \/ \E j \in DOMAIN inbox[n] : j < i /\ inbox[n][j] = m
        BY <2>1, <3>1, <4>1 DEF Ordered
      <4>. QED  BY <4>1, <4>2
    <3>2. CASE i \notin DOMAIN inbox[n]
      <4>1. PICK x : Listener(n) /\ NewMessage(p, n, x) /\ inbox'[n] = Append(inbox[n], x)
        BY <1>0, <2>1, <3>2 DEF SeenBy
      <4>2. x \in Message
        BY <4>1 DEF NewMessage
      <4>3. i = Len(inbox[n]) + 1 /\ k = x
        <5>1. DOMAIN inbox'[n] = 1 .. Len(inbox[n]) + 1 /\ DOMAIN inbox[n] = 1 .. Len(inbox[n])
          BY <1>0, <4>1, <4>2
        <5>2. i = Len(inbox[n]) + 1
          BY <3>2, <5>1
        <5>. QED  BY <1>0, <2>1, <4>1, <4>2, <5>2
      <4>4. natState[p] = "CONNECTING" /\ Target(p) \in Node \ {p} /\ k = ConnDone(Target(p), p)
        BY <2>1, <4>1, <4>3 DEF NewMessage
      <4>5. k.node = Target(p) /\ k.src = p
        BY <4>4 DEF ConnDone
      <4>6. round[p] = r
        BY <2>1, <4>4, <4>5, SameRound
      <4>7. q \in heard[t]
        <5>1. Ended(p, s)
          BY <2>1, <4>6 DEF Ended
        <5>. QED  BY <2>1, <5>1 DEF EndedHeard
      <4>8. (s = round[n] /\ state[n][q] = "DONE") \/ InBox(n, m)
        <5>1. s >= round[n]
          BY <1>0, <2>1 DEF Rounds
        <5>. QED  BY <2>1, <4>1, <4>7, <5>1 DEF Told
      <4>9. \A j \in DOMAIN inbox[n] : j \in DOMAIN inbox'[n] /\ j < i /\ inbox'[n][j] = inbox[n][j]
        BY <1>0, <4>1, <4>2, <4>3
      <4>. QED  BY <4>8, <4>9 DEF InBox
    <3>. QED  BY <3>1, <3>2
  <2>. QED  BY <1>1, <1>2, <2>1 DEF Ordered, ConnDone
<1>. QED  BY <1>3, <1>4

(* A node that begins a round or makes a step without reading. *)
LEMMA BeginTold ==
    ASSUME TalkInv, NATInv', NEW p \in Node, Summary(p), Told(p), Ordered(p),
           inbox'[p] = inbox[p], heard' = heard,
           \/ natState[p] = "IDLE" /\ round'[p] = 0
           \/ natState[p] = "CONNECTING" /\ round'[p] = round[p] + 1
    PROVE  Told(p)' /\ Ordered(p)'
<1>. USE DEF TalkInv
<1>0. Node' = Node /\ Rounds' = Rounds
  BY DEF Node, Rounds
<1>. round[p] \in Nat /\ round'[p] \in Nat
  BY DEF NATInv, TypeOK
<1>. NodeOK(p)
  OBVIOUS
<1>. \A r \in Rounds : r \in Nat
  BY DEF Rounds
<1>1. Listener(p)
  BY DEF Listener
<1>2. round[p] <= round'[p]
  BY DEF Summary
<1>3. \A q \in Node : ~(state[p][q] = "DONE" /\ round'[p] = round[p])
  BY <1>0 DEF NodeOK
<1>4. ASSUME NEW q \in Node, NEW r \in Rounds, NEW t, t = Partner(N, r, q),
             r >= round'[p], t # -1, q \in heard[t], NEW m, m = ConnDone(q, t)
      PROVE  InBox(p, m)'
  <2>1. r >= round[p] /\ ~(r = round[p] /\ state[p][q] = "DONE")
    BY <1>2, <1>3, <1>4
  <2>2. InBox(p, m)
    BY <1>1, <1>4, <2>1 DEF Told
  <2>. QED  BY <2>2 DEF InBox
<1>5. ASSUME NEW i \in DOMAIN inbox[p], NEW r \in Rounds, NEW k, k = inbox[p][i],
             k.type = "CONNDONE", Partner(N, r, k.node) = k.src,
             NEW q \in Node, NEW s \in Rounds, NEW t, t = Partner(N, s, q),
             round'[p] <= s, s < r, t # -1, NEW m, m = ConnDone(q, t)
      PROVE  \E j \in DOMAIN inbox[p] : j < i /\ inbox[p][j] = m
  <2>1. round[p] <= s /\ ~(s = round[p] /\ state[p][q] = "DONE")
    BY <1>2, <1>3, <1>5
  <2>. QED  BY <1>5, <2>1 DEF Ordered
<1>6. Told(p)'
  BY <1>0, <1>4 DEF Told, InBox, ConnDone
<1>7. Ordered(p)'
  BY <1>0, <1>5 DEF Ordered, ConnDone
<1>. QED  BY <1>6, <1>7

LEMMA StayTold ==
    ASSUME TalkInv, NEW p \in Node, Summary(p), Told(p), Ordered(p),
           inbox'[p] = inbox[p], natState'[p] = natState[p], round'[p] = round[p],
           \A q \in Node : state[p][q] = "DONE" => state'[p][q] = "DONE"
    PROVE  Told(p)' /\ Ordered(p)'
<1>. USE DEF TalkInv
<1>0. /\ Node' = Node /\ Rounds' = Rounds /\ (Listener(p)' <=> Listener(p))
  BY DEF Node, Rounds, Listener
<1>1. ASSUME NEW q \in Node, NEW r \in Rounds, NEW t, t = Partner(N, r, q),
             Listener(p), r >= round[p], t # -1, q \in heard'[t], NEW m, m = ConnDone(q, t)
      PROVE  (r = round[p] /\ state'[p][q] = "DONE") \/ InBox(p, m)
  <2>0. t \in Node
    BY <1>1, PartnerMutual DEF Rounds
  <2>1. CASE q \in heard[t]
    <3>1. (r = round[p] /\ state[p][q] = "DONE") \/ InBox(p, m)
      BY <1>1, <2>1 DEF Told
    <3>. QED  BY <3>1
  <2>2. CASE q \notin heard[t]
    <3>1. t = p
      BY <1>1, <2>0, <2>2 DEF Summary, SeenBy
    <3>2. Hears(p) /\ q = Target(p)
      BY <1>1, <2>2, <3>1 DEF Summary, Hears
    <3>3. round[p] = r
      BY <1>1, <3>1, <3>2, SameRound
    <3>. QED  BY <3>2, <3>3 DEF Hears
  <2>. QED  BY <2>1, <2>2
<1>2. Told(p)'
  BY <1>0, <1>1 DEF Told, InBox, ConnDone
<1>3. Ordered(p)'
  BY <1>0 DEF Ordered, ConnDone
<1>. QED  BY <1>2, <1>3

(* What a node knows to be done stays done, if nobody fails and no two      *)
(* netgears meet.                                                           *)
LEMMA DoneStays ==
    ASSUME TalkInv, Fine', NEW p \in Node, ProcessGlobalMessage(p)
    PROVE  \A q \in Node : Partner(N, round[p], q) # -1 /\ state[p][q] = "DONE" => state'[p][q] = "DONE"
<1>. USE DEF TalkInv
<1>0. NATInv /\ natState[p] = "CONNECTING" /\ inbox[p] # <<>> /\ timedOut' = timedOut /\ setup' = setup
  BY DEF ProcessGlobalMessage, Listens, faults
<1>1. PICK m : /\ m = Head(inbox[p])
               /\ GotMangledPort(p, m) \/ GotProbed(p, m) \/ GotConnDone(p, m) \/ GotConnFailed(p, m)
  BY DEF ProcessGlobalMessage
<1>2. m \in Message /\ m = inbox[p][1] /\ 1 \in DOMAIN inbox[p]
  <2>1. inbox[p] \in Seq(Message)
    BY DEF NATInv, TypeOK
  <2>. QED  BY <1>0, <1>1, <2>1
<1>3. timedOut = {} /\ OneNetgear
  BY <1>0 DEF Fine, OneNetgear, Netgear
<1>4. CASE state' = state
  BY <1>4
<1>5. CASE state' = Set(p, m.node, "DONE")
  <2>1. m.node \in Node
    BY <1>2 DEF Message
  <2>. QED  BY <1>0, <1>5, <2>1, SetAt
<1>6. CASE GotConnFailed(p, m)
  <2>1. m.type = "CONNFAILED"
    BY <1>6 DEF GotConnFailed
  <2>. QED  BY <1>2, <1>3, <2>1 DEF MessagesOK, MessageOK
<1>7. CASE state' = Set(p, p, "WAITINGFORRESPONSE") /\ state[p][p] # "DONE"
  BY <1>0, <1>7, SetAt
<1>8. CASE GotProbed(p, m) /\ m.src = Target(p) /\ ~beenProbed[p] /\ p \in Netgear
           /\ state' = Set(p, p, "WAITINGFORRESPONSE")
  <2>1. Target(p) \in Node
    BY <1>2, <1>8 DEF Message
  <2>2. state[p][p] = "DONE" => p \in heard[Target(p)]
    BY <2>1 DEF NATInv, DoneHeard, Target, Node
  <2>3. p \in heard[Target(p)] => ProbedFirst(p, Target(p))
    BY <2>1 DEF HeardOK, Met
  <2>4. round[p] \in Rounds
    BY DEF NATInv, TypeOK, Rounds
  <2>5. state[p][p] # "DONE"
    BY <1>3, <1>8, <2>2, <2>3, <2>4 DEF ProbedFirst, Target
  <2>. QED  BY <1>7, <1>8, <2>5
<1>. QED
  BY <1>1, <1>4, <1>5, <1>6, <1>7, <1>8
     DEF GotMangledPort, GotProbed, GotConnDone, Ignore, AnswerWithProbe

LEMMA MessageTold ==
    ASSUME TalkInv, Fine', NEW p \in Node, ProcessGlobalMessage(p), Told(p), Ordered(p)
    PROVE  Told(p)' /\ Ordered(p)'
<1>. USE DEF TalkInv
<1>0. natState[p] = "CONNECTING" /\ inbox[p] # <<>> /\ ~AllConnectionsDoneThisRound(p)
  BY DEF ProcessGlobalMessage, Listens
<1>1. PICK m : /\ m = Head(inbox[p])
               /\ GotMangledPort(p, m) \/ GotProbed(p, m) \/ GotConnDone(p, m) \/ GotConnFailed(p, m)
  BY DEF ProcessGlobalMessage
<1>2. inbox[p] \in Seq(Message) /\ inbox'[p] = Tail(inbox[p])
  BY MessageReads DEF Reads, NATInv, TypeOK
<1>3. /\ m = inbox[p][1] /\ 1 \in DOMAIN inbox[p]
      /\ \A i \in DOMAIN inbox'[p] : i + 1 \in DOMAIN inbox[p] /\ inbox'[p][i] = inbox[p][i + 1]
      /\ \A i \in DOMAIN inbox[p] : i # 1 => i - 1 \in DOMAIN inbox'[p] /\ inbox'[p][i - 1] = inbox[p][i]
      /\ \A i \in DOMAIN inbox[p] : i \in Nat /\ ~(i < 1)
      /\ \A i \in DOMAIN inbox'[p] : i \in Nat
  BY <1>0, <1>1, <1>2
<1>4. /\ Node' = Node /\ Rounds' = Rounds /\ (Listener(p)' <=> Listener(p))
      /\ round'[p] = round[p] /\ heard' = heard
  BY DEF Node, Rounds, Listener, ProcessGlobalMessage
<1>. round[p] \in Rounds /\ round[p] \in Nat /\ (\A r \in Rounds : r \in Nat)
  BY DEF NATInv, TypeOK, Rounds
<1>5. \A q \in Node : Partner(N, round[p], q) # -1 /\ state[p][q] = "DONE" => state'[p][q] = "DONE"
  BY DoneStays
(* The word that is read is one of this round, or of an earlier one. *)
<1>6. ASSUME NEW r \in Rounds, m.type = "CONNDONE", Partner(N, r, m.node) = m.src
      PROVE  r <= round[p]
  <2>1. SUFFICES ASSUME round[p] < r PROVE FALSE
    OBVIOUS
  <2>2. ASSUME NEW q \in Node, Partner(N, round[p], q) # -1 PROVE state[p][q] = "DONE"
    BY <1>3, <1>6, <2>1, <2>2 DEF Ordered
  <2>3. \A q \in Node : Partner(N, round[p], q) = -1 => state[p][q] \in {"DONE", "FAILED"}
    BY <1>0 DEF NodeOK
  <2>. QED  BY <1>0, <2>2, <2>3 DEF AllConnectionsDoneThisRound
(* ... and if it is one of this round it is noted. *)
<1>7. ASSUME NEW q \in Node, NEW r \in Rounds, NEW t, t = Partner(N, r, q), t # -1,
             r >= round[p], m = ConnDone(q, t)
      PROVE  r = round[p] /\ state'[p][q] = "DONE"
  <2>1. m.type = "CONNDONE" /\ m.node = q /\ m.src = t
    BY <1>7 DEF ConnDone
  <2>2. r = round[p]
    BY <1>6, <1>7, <2>1
  <2>3. GotConnDone(p, m)
    BY <1>1, <2>1 DEF GotMangledPort, GotProbed, GotConnFailed
  <2>4. state' = Set(p, q, "DONE")
    BY <1>7, <2>1, <2>2, <2>3 DEF GotConnDone
  <2>5. NATInv
    OBVIOUS
  <2>6. state'[p][q] = "DONE"
    BY <2>4, <2>5, SetAt
  <2>. QED  BY <2>2, <2>6
<1>8. ASSUME NEW q \in Node, NEW r \in Rounds, NEW t, t = Partner(N, r, q),
             r >= round[p], t # -1, q \in heard[t], NEW k, k = ConnDone(q, t)
      PROVE  (r = round[p] /\ state'[p][q] = "DONE") \/ InBox(p, k)'
  <2>1. (r = round[p] /\ state[p][q] = "DONE") \/ InBox(p, k)
    BY <1>0, <1>8 DEF Told, Listener
  <2>2. CASE r = round[p] /\ state[p][q] = "DONE"
    BY <1>5, <1>8, <2>2
  <2>3. CASE InBox(p, k)
    <3>1. PICK i \in DOMAIN inbox[p] : inbox[p][i] = k
      BY <2>3 DEF InBox
    <3>2. CASE i = 1
      BY <1>3, <1>7, <1>8, <3>1, <3>2
    <3>3. CASE i # 1
      BY <1>3, <3>1, <3>3 DEF InBox
    <3>. QED  BY <3>2, <3>3
  <2>. QED  BY <2>1, <2>2, <2>3
<1>9. ASSUME NEW i \in DOMAIN inbox'[p], NEW r \in Rounds, NEW k, k = inbox'[p][i],
             k.type = "CONNDONE", Partner(N, r, k.node) = k.src,
             NEW q \in Node, NEW s \in Rounds, NEW t, t = Partner(N, s, q),
             round[p] <= s, s < r, t # -1, NEW l, l = ConnDone(q, t)
      PROVE  \/ s = round[p] /\ state'[p][q] = "DONE"
             \/ \E j \in DOMAIN inbox'[p] : j < i /\ inbox'[p][j] = l
  <2>0. i + 1 \in DOMAIN inbox[p] /\ k = inbox[p][i + 1] /\ i \in Nat
    BY <1>3, <1>9
  <2>1. \/ s = round[p] /\ state[p][q] = "DONE"
        \/ \E j \in DOMAIN inbox[p] : j < i + 1 /\ inbox[p][j] = l
    BY <1>9, <2>0 DEF Ordered
  <2>2. CASE s = round[p] /\ state[p][q] = "DONE"
    BY <1>5, <1>9, <2>2
  <2>3. ASSUME NEW j \in DOMAIN inbox[p], j < i + 1, inbox[p][j] = l
        PROVE  \/ s = round[p] /\ state'[p][q] = "DONE"
               \/ \E n \in DOMAIN inbox'[p] : n < i /\ inbox'[p][n] = l
    <3>1. CASE j = 1
      <4>1. m = l /\ s >= round[p]
        BY <1>3, <1>9, <2>3, <3>1
      <4>. QED  BY <1>7, <1>9, <4>1
    <3>2. CASE j # 1
      <4>1. j - 1 \in DOMAIN inbox'[p] /\ inbox'[p][j - 1] = l
        BY <1>3, <2>3, <3>2
      <4>2. j - 1 < i
        BY <1>3, <2>0, <2>3
      <4>. QED  BY <4>1, <4>2
    <3>. QED  BY <3>1, <3>2
  <2>. QED  BY <2>1, <2>2, <2>3
<1>10. Told(p)'
  BY <1>4, <1>8 DEF Told, InBox, ConnDone
<1>11. Ordered(p)'
  BY <1>4, <1>9 DEF Ordered, ConnDone
<1>. QED  BY <1>10, <1>11

LEMMA ToldInit == Init => ToldInv
<1>. SUFFICES ASSUME Init PROVE ToldInv
  OBVIOUS
<1>1. TalkInv
  BY TalkInit
<1>2. EndedHeard
  BY RoundsNat DEF Init, EndedHeard, Ended, Rounds
<1>3. ASSUME NEW p \in Node PROVE Told(p) /\ Ordered(p)
  <2>1. DOMAIN inbox[p] = {}
    BY DEF Init
  <2>2. \A r \in Rounds : \A q \in Node :
           LET t == Partner(N, r, q) IN t # -1 => heard[t] = {}
    BY PartnerMutual DEF Init, Rounds
  <2>. QED  BY <2>1, <2>2 DEF Told, Ordered
<1>. QED  BY <1>1, <1>2, <1>3 DEF ToldInv

LEMMA ToldStep == ToldInv /\ [Next]_vars => ToldInv'
<1>. SUFFICES ASSUME ToldInv, [Next]_vars PROVE ToldInv'
  OBVIOUS
<1>. USE DEF ToldInv, StepOf
<1>1. TalkInv' /\ EndedHeard' /\ NATInv' /\ Node' = Node
  BY TalkStep, EndedStep, StepKinds DEF Node
<1>2. CASE Nothing
  <2>1. Fine' => Fine
    BY <1>2 DEF Nothing, history, Fine, OneNetgear, Netgear
  <2>2. \A p \in Node : (Told(p)' <=> Told(p)) /\ (Ordered(p)' <=> Ordered(p))
    BY <1>2 DEF Nothing, history, roundVars, Told, Ordered, InBox, ConnDone, Listener, Node, Rounds
  <2>. QED  BY <1>1, <2>1, <2>2
<1>3. ASSUME NEW p \in Node, StepOf(p),
             Fine'
      PROVE  \A n \in Node : Told(n)' /\ Ordered(n)'
  <2>1. TalkInv /\ Summary(p)
    BY <1>1, <1>3, StepSummary
  <2>2. timedOut = {} /\ \A n \in Node : Told(n) /\ Ordered(n)
    BY <1>3, <2>1, FineBefore DEF Fine
  <2>3. \A n \in Node \ {p} : Told(n)' /\ Ordered(n)'
    BY <2>1, <2>2, OthersTold
  <2>4. NATInv /\ Target(p) # p
    BY <2>1, TargetType DEF TalkInv, Node
  <2>5. CASE EstablishConnectionPaths(p) \/ NextRound(p)
    <3>1. PICK r : /\ DoThisConnectionRound(p, r) /\ heard' = heard
                   /\ \/ natState[p] = "IDLE" /\ r = 0
                      \/ natState[p] = "CONNECTING" /\ r = round[p] + 1
      BY <2>5 DEF EstablishConnectionPaths, NextRound, RoundIsOver, history
    <3>2. round'[p] = r
      BY <2>4, <3>1 DEF DoThisConnectionRound, NATInv, TypeOK
    <3>3. inbox'[p] = inbox[p]
      <4>1. r \in Rounds
        BY <1>1, <2>4, <3>2 DEF NATInv, TypeOK, Rounds
      <4>2. Partner(N, r, p) # p
        BY <4>1, PartnerMutual DEF Rounds, Node
      <4>3. \/ inbox' = inbox
            \/ \E m : inbox' = Post({Partner(N, r, p)}, m)
        BY <3>1 DEF DoThisConnectionRound
      <4>. QED  BY <2>4, <4>2, <4>3, PostAt
    <3>. QED  BY <1>1, <2>1, <2>2, <2>3, <3>1, <3>2, <3>3, BeginTold
  <2>6. CASE LastRound(p)
    <3>1. PICK s \in {"DONE", "FAILED"} : Finish(p, s)
      BY <2>6 DEF LastRound
    <3>2. natState'[p] = s /\ inbox'[p] = <<>>
      BY <2>4, <3>1 DEF Finish, NATInv, TypeOK
    <3>3. DOMAIN inbox'[p] = {}
      BY <3>2
    <3>4. Told(p)' /\ Ordered(p)'
      BY <3>2, <3>3 DEF Told, Ordered, Listener
    <3>. QED  BY <2>3, <3>4
  <2>7. CASE Fails(p)
    BY <1>3, <2>7, FailsDoes DEF Fine
  <2>8. CASE ResendPort(p) \/ ReceiveProbe(p) \/ ProbeTarget(p) \/ ManglerResponse(p)
    <3>1. round' = round /\ natState' = natState
      BY <2>8 DEF ResendPort, ReceiveProbe, ProbeTarget, ManglerResponse, roundVars
    <3>2. inbox'[p] = inbox[p]
      <4>1. \/ inbox' = inbox
            \/ \E m : inbox' = Post({Target(p)}, m)
            \/ \E m : inbox' = Post(Others(p), m)
        BY <2>8 DEF ResendPort, ReceiveProbe, ProbeTarget, ManglerResponse
      <4>. QED  BY <2>4, <4>1, PostAt DEF Others
    <3>3. \A q \in Node : state[p][q] = "DONE" => state'[p][q] = "DONE"
      <4>1. CASE state' = state
        BY <4>1
      <4>2. ASSUME NEW q, state' = Set(p, q, "DONE"), q = Target(p), q # -1
            PROVE  \A n \in Node : state[p][n] = "DONE" => state'[p][n] = "DONE"
        <5>1. q \in Node
          BY <2>4, <4>2, TargetType
        <5>. QED  BY <2>4, <4>2, <5>1, SetAt
      <4>3. CASE state' = Set(p, p, "WAITINGFORRESPONSE") /\ state[p][p] # "DONE"
        BY <2>4, <4>3, SetAt
      <4>. QED
        BY <2>8, <4>1, <4>2, <4>3 DEF ResendPort, ReceiveProbe, ProbeTarget, ManglerResponse
    <3>. QED  BY <2>1, <2>2, <2>3, <3>1, <3>2, <3>3, StayTold
  <2>9. CASE ProcessGlobalMessage(p)
    BY <1>3, <2>1, <2>2, <2>3, <2>9, MessageTold
  <2>. QED  BY <1>3, <2>5, <2>6, <2>7, <2>8, <2>9
<1>. QED  BY <1>1, <1>2, <1>3, StepKinds

(* Who is still in a round has the word of each of its finished pairs, or   *)
(* will read it in this round (processGlobalMessage, gotMangledPort), for   *)
(* any number of players, at whatever speed and whatever is lost, unless    *)
(* somebody fails or two netgears meet.                                     *)
THEOREM NoneForgottenAlways == Spec => []NoneForgotten
<1>1. ToldInv => NoneForgotten
  <2>. SUFFICES ASSUME ToldInv, timedOut = {}, \A p, q \in Netgear : p = q,
                       NEW p \in Node, NEW q \in Node, NEW t, t = Partner(N, round[p], q),
                       natState[p] = "CONNECTING", t # -1, q \in heard[t]
                PROVE  \/ state[p][q] = "DONE"
                       \/ \E i \in DOMAIN inbox[p] : inbox[p][i] = ConnDone(q, t)
    BY DEF NoneForgotten
  <2>1. round[p] \in Rounds /\ round[p] >= round[p]
    BY DEF ToldInv, TalkInv, NATInv, TypeOK, Rounds
  <2>2. Told(p)
    BY DEF ToldInv, Fine, OneNetgear
  <2>. QED  BY <2>1, <2>2 DEF Told, InBox, Listener
<1>. QED  BY ToldInit, ToldStep, <1>1, PTL DEF Spec

-----------------------------------------------------------------------------
(* The word that t has heard p. *)
IsWordOf(m, p, t) == m.type = "CONNDONE" /\ m.node = p /\ m.src = t

(* After place i of its inbox p finds the right port of t, before its       *)
(* connection is done.                                                      *)
Coming(p, t, i) ==
    /\ state[p][p] # "DONE"
    /\ \E j \in DOMAIN inbox[p] :
          /\ j > i /\ inbox[p][j] = Port(t, TRUE)
          /\ \A k \in DOMAIN inbox[p] : k <= j => ~IsWordOf(inbox[p][k], p, t)

(* The right port comes after a wrong one, if it is on its way at all. *)
RightPortAfter(p) ==
    \A i \in DOMAIN inbox[p] : \A t \in {Target(p)} :
        /\ t # -1 /\ Exposed(t, p)
        /\ inbox[p][i].type = "PORT" /\ ~inbox[p][i].good /\ inbox[p][i].src = t
        => Coming(p, t, i)

(* One that has probed its target or has been probed knows its port. *)
PortAfterProbe(p) ==
    \A t \in {Target(p)} :
        /\ natState[p] = "CONNECTING" /\ t # -1
        /\ <<p, t>> \in probes \/ t \in heard[p] \/ p \in heard[t]
        => t \in portKnown[p] \/ Coming(p, t, 0)

(* ... and that of the targets of the rounds it has been through. *)
EndedKnown(p) ==
    \A r \in Rounds :
        Ended(p, r) /\ Partner(N, r, p) # -1 => Partner(N, r, p) \in portKnown[p]

PortInv ==
    /\ TalkInv
    /\ \A p \in Node : portKnown[p] \subseteq Others(p)
    /\ Smooth => \A p \in Node : RightPortAfter(p) /\ PortAfterProbe(p) /\ EndedKnown(p)

-----------------------------------------------------------------------------
(* A node that stops waiting for the mangler tells its target its port. *)
LEMMA Unmasked ==
    ASSUME TalkInv, NATInv', NEW p \in Node, Waits(p), Smooth', NEW t, t = Target(p),
           NEW m, m = Port(p, TRUE),
           StepOf(p)
    PROVE  /\ round'[p] = round[p]
           /\ \/ Waits(p)'
              \/ t \in Node \ {p} /\ (Listener(t) => inbox'[t] = Append(inbox[t], m))
<1>. USE DEF TalkInv, StepOf
<1>0. NATInv /\ NodeOK(p) /\ natState[p] # "IDLE" /\ t # -1 /\ t \in Node \ {p}
  <2>1. natState[p] # "IDLE" /\ t # -1
    BY DEF NodeOK, Waits, Target
  <2>. QED  BY <2>1, TargetType
<1>1. ~AllConnectionsDoneThisRound(p)
  BY DEF Waits, AllConnectionsDoneThisRound
<1>2. CASE EstablishConnectionPaths(p) \/ NextRound(p) \/ LastRound(p)
  BY <1>0, <1>1, <1>2 DEF EstablishConnectionPaths, NextRound, LastRound, RoundIsOver
<1>3. CASE ResendPort(p)
  BY <1>3 DEF ResendPort, roundVars, Waits
<1>4. CASE ReceiveProbe(p)
  <2>1. round' = round /\ (state' = state \/ state' = Set(p, t, "DONE"))
    BY <1>4 DEF ReceiveProbe
  <2>2. state'[p][p] = state[p][p]
    BY <1>0, <2>1, SetAt
  <2>. QED  BY <2>1, <2>2 DEF Waits
<1>5. CASE ProbeTarget(p)
  BY <1>5 DEF ProbeTarget, Waits
<1>6. CASE ManglerResponse(p)
  <2>1. round' = round /\ inbox' = Post({t}, m)
    BY <1>6 DEF ManglerResponse
  <2>. QED  BY <1>0, <2>1, PostAt
<1>7. CASE Fails(p)
  BY <1>7, FailsDoes DEF Smooth
<1>8. CASE ProcessGlobalMessage(p)
  <2>1. round' = round
    BY <1>8 DEF ProcessGlobalMessage
  <2>. QED  BY <1>8, <2>1, WaitsOn
<1>. QED  BY <1>2, <1>3, <1>4, <1>5, <1>6, <1>7, <1>8

(* p sees no more than its inbox grow. *)
LEMMA ComingStays ==
    ASSUME NATInv, NEW p \in Node, NEW t, NEW i \in Nat, Coming(p, t, i), inbox'[p] = inbox[p],
           state'[p][p] # "DONE"
    PROVE  Coming(p, t, i)'
BY DEF Coming, Port, IsWordOf

LEMMA ComingGrows ==
    ASSUME NATInv, NEW p \in Node, NEW t, NEW i \in Nat, Coming(p, t, i),
           NEW m \in Message, inbox'[p] = Append(inbox[p], m), state'[p][p] = state[p][p]
    PROVE  Coming(p, t, i)'
<1>0. inbox[p] \in Seq(Message)
  BY DEF NATInv, TypeOK
<1>1. PICK j \in DOMAIN inbox[p] :
          /\ j > i /\ inbox[p][j] = Port(t, TRUE)
          /\ \A k \in DOMAIN inbox[p] : k <= j => ~IsWordOf(inbox[p][k], p, t)
  BY DEF Coming
<1>2. \A k \in DOMAIN inbox[p] : k \in DOMAIN inbox'[p] /\ inbox'[p][k] = inbox[p][k]
  BY <1>0
<1>3. \A k \in DOMAIN inbox'[p] : k <= j => k \in DOMAIN inbox[p]
  BY <1>0, <1>1
<1>. QED  BY <1>1, <1>2, <1>3 DEF Coming, Port, IsWordOf

(* The first time t shows itself p has its port next, and nobody has heard  *)
(* of it before.                                                            *)
LEMMA NotHeardBefore ==
    ASSUME TalkInv, Smooth, NEW p \in Node, NEW t \in Node, t = Target(p), ~Exposed(t, p)
    PROVE  /\ state[p][p] # "DONE"
           /\ \A k \in DOMAIN inbox[p] : ~IsWordOf(inbox[p][k], p, t)
<1>. USE DEF TalkInv
<1>1. p \notin heard[t]
  BY DEF HeardOK, Met
<1>2. t # -1
  BY DEF Node
<1>3. state[p][p] # "DONE"
  BY <1>1, <1>2 DEF NATInv, DoneHeard, Target
<1>. QED  BY <1>1, <1>3 DEF NATInv, Truthful, IsWordOf

LEMMA OthersPort ==
    ASSUME TalkInv, NATInv', Smooth, NEW a \in Node, Summary(a), NEW p \in Node \ {a},
           RightPortAfter(p), PortAfterProbe(p), EndedKnown(p), portKnown[p] \subseteq Others(p),
           Smooth', Waits(a) =>
              /\ round'[a] = round[a]
              /\ \A t \in {Target(a)} :
                    \/ Waits(a)'
                    \/ t \in Node /\ (Listener(t) => inbox'[t] = Append(inbox[t], Port(a, TRUE)))
    PROVE  /\ RightPortAfter(p)' /\ PortAfterProbe(p)' /\ EndedKnown(p)'
           /\ portKnown'[p] \subseteq Others(p)
<1>. USE DEF TalkInv
<1>0. SeenBy(a, p) /\ inbox[p] \in Seq(Message) /\ round[a] \in Nat
  BY DEF Summary, NATInv, TypeOK
<1>1. /\ natState'[p] = natState[p] /\ round'[p] = round[p] /\ state'[p] = state[p]
      /\ portKnown'[p] = portKnown[p] /\ heard'[p] = heard[p]
      /\ Target(p)' = Target(p) /\ Rounds' = Rounds
  BY <1>0 DEF SeenBy, Target, Rounds
<1>2. EndedKnown(p)' /\ portKnown'[p] \subseteq Others(p)
  BY <1>1 DEF EndedKnown, Ended
<1>3. \/ inbox'[p] = inbox[p]
      \/ \E m \in Message : NewMessage(a, p, m) /\ inbox'[p] = Append(inbox[p], m)
  BY <1>0 DEF SeenBy, NewMessage
<1>4. ASSUME NEW t, NEW i \in Nat, Coming(p, t, i) PROVE Coming(p, t, i)'
  BY <1>0, <1>1, <1>3, <1>4, ComingStays, ComingGrows DEF Coming
<1>5. RightPortAfter(p)'
  <2>1. ASSUME NEW i \in DOMAIN inbox'[p], NEW t, t = Target(p), t # -1, Exposed(t, p)',
               NEW m, m = inbox'[p][i], m.type = "PORT", ~m.good, m.src = t
        PROVE  Coming(p, t, i)'
    <3>0. t \in Node /\ i \in Nat
      <4>1. NATInv
        OBVIOUS
      <4>2. t \in Node
        BY <2>1, <4>1, TargetType
      <4>3. inbox'[p] \in Seq(Message)
        BY DEF NATInv, TypeOK
      <4>. QED  BY <2>1, <4>2, <4>3
    <3>1. CASE i \in DOMAIN inbox[p]
      <4>1. inbox[p][i] = m
        <5>1. ASSUME NEW x \in Message, inbox'[p] = Append(inbox[p], x) PROVE inbox[p][i] = m
          BY <1>0, <2>1, <3>1, <5>1
        <5>2. CASE inbox'[p] = inbox[p]
          BY <2>1, <5>2
        <5>. QED  BY <1>3, <5>1, <5>2
      <4>2. CASE Exposed(t, p)
        BY <1>4, <2>1, <3>0, <3>1, <4>1, <4>2 DEF RightPortAfter
      <4>3. CASE ~Exposed(t, p)
        <5>1. Been(t, p)
          BY <2>1, <3>1, <4>1 DEF MessagesOK, MessageOK
        <5>2. t = a
          BY <2>1, <3>0, <4>3 DEF Exposed, Summary, SeenBy, Waits
        <5>3. PICK r \in Rounds : Partner(N, r, a) = p /\ ~(r < round[a] \/ (r = round[a] /\ ~Waits(a)))
          BY <4>3, <5>1, <5>2 DEF Exposed, Been
        <5>4. r = round[a] /\ Waits(a)
          <6>1. r <= round[a] /\ r \in Nat
            BY <5>1, <5>2, <5>3 DEF Been, Rounds
          <6>. QED  BY <1>0, <5>3, <6>1
        <5>5. Target(a) = p
          BY <5>3, <5>4 DEF Target
        <5>6. ~Waits(a)'
          BY <2>1, <5>2, <5>3, <5>4 DEF Exposed, Rounds
        <5>7. Listener(p)
          <6>1. NodeOK(p) /\ inbox[p] # <<>>
            BY <1>0, <3>1
          <6>. QED  BY <6>1 DEF NodeOK, Listener, NATInv, TypeOK
        <5>8. PICK good : good = Port(a, TRUE)
          OBVIOUS
        <5>9. inbox'[p] = Append(inbox[p], good) /\ good \in Message
          BY <5>4, <5>5, <5>6, <5>7, <5>8, MessageTypes
        <5>10. /\ Len(inbox[p]) + 1 \in DOMAIN inbox'[p] /\ Len(inbox[p]) + 1 > i
               /\ inbox'[p][Len(inbox[p]) + 1] = good
               /\ \A k \in DOMAIN inbox'[p] :
                     \/ k \in DOMAIN inbox[p] /\ inbox'[p][k] = inbox[p][k]
                     \/ inbox'[p][k] = good
          BY <1>0, <3>1, <5>9
        <5>11. /\ state[p][p] # "DONE"
               /\ \A k \in DOMAIN inbox[p] : ~IsWordOf(inbox[p][k], p, t)
          BY <2>1, <3>0, <4>3, NotHeardBefore
        <5>12. ~IsWordOf(good, p, t)
          BY <5>8 DEF Port, IsWordOf
        <5>. QED  BY <1>1, <5>2, <5>8, <5>10, <5>11, <5>12 DEF Coming, Port, IsWordOf
      <4>. QED  BY <4>2, <4>3
    <3>2. CASE i \notin DOMAIN inbox[p]
      <4>1. PICK x \in Message : NewMessage(a, p, x) /\ inbox'[p] = Append(inbox[p], x)
        BY <1>3, <2>1, <3>2
      <4>2. m = x
        <5>1. DOMAIN inbox'[p] = 1 .. Len(inbox[p]) + 1 /\ DOMAIN inbox[p] = 1 .. Len(inbox[p])
          BY <1>0, <4>1
        <5>2. i = Len(inbox[p]) + 1
          BY <2>1, <3>2, <5>1
        <5>. QED  BY <1>0, <2>1, <4>1, <5>2
      <4>3. t = a /\ p = Target(a)' /\ round'[a] = round[a] /\ Waits(a)'
        BY <2>1, <4>1, <4>2 DEF NewMessage
      <4>4. round'[a] \in Rounds /\ Partner(N, round'[a], a) = p
        BY <4>3 DEF NATInv, TypeOK, Rounds, Target
      <4>. QED  BY <1>0, <2>1, <4>3, <4>4 DEF Exposed, Rounds
    <3>. QED  BY <3>1, <3>2
  <2>. QED  BY <1>1, <2>1 DEF RightPortAfter
<1>6. PortAfterProbe(p)'
  <2>1. ASSUME NEW t, t = Target(p), natState[p] = "CONNECTING", t # -1,
               <<p, t>> \in probes' \/ t \in heard[p] \/ p \in heard'[t]
        PROVE  t \in portKnown[p] \/ Coming(p, t, 0)'
    <3>1. <<p, t>> \in probes' => <<p, t>> \in probes
      <4>1. <<p, t>> # <<a, Target(a)>>
        OBVIOUS
      <4>. QED  BY <4>1 DEF Summary
    <3>0. t \in Node
      <4>1. NATInv
        OBVIOUS
      <4>. QED  BY <2>1, <4>1, TargetType
    <3>2. p \in heard'[t] => p \in heard[t] \/ <<p, t>> \in probes
      BY <3>0 DEF Summary, SeenBy, Hears
    <3>3. t \in portKnown[p] \/ Coming(p, t, 0)
      BY <2>1, <3>1, <3>2 DEF PortAfterProbe
    <3>. QED  BY <1>4, <3>3
  <2>. QED  BY <1>1, <2>1 DEF PortAfterProbe
<1>. QED  BY <1>2, <1>5, <1>6

(* At the end of a round the port of its target is known. *)
LEMMA RoundKnown ==
    ASSUME TalkInv, Smooth, NEW p \in Node, PortAfterProbe(p), natState[p] = "CONNECTING",
           AllConnectionsDoneThisRound(p), Target(p) # -1
    PROVE  Target(p) \in portKnown[p]
<1>1. state[p][p] = "DONE" /\ p \in heard[Target(p)]
  BY AllHeard DEF Target, Smooth
<1>. QED  BY <1>1 DEF PortAfterProbe, Coming

LEMMA BeginPort ==
    ASSUME TalkInv, Smooth, NATInv', NEW p \in Node, Summary(p), EndedKnown(p)',
           inbox'[p] = inbox[p], heard' = heard, probes' = probes,
           natState[p] = "IDLE" \/ round[p] < round'[p]
    PROVE  RightPortAfter(p)' /\ PortAfterProbe(p)'
<1>. USE DEF TalkInv
<1>0. PICK t : t = Target(p)'
  OBVIOUS
<1>1. round'[p] \in Rounds /\ t = Partner(N, round'[p], p)
  BY <1>0 DEF NATInv, TypeOK, Rounds, Target
<1>2. t = -1 \/ t \in Node \ {p}
  BY <1>1, PartnerMutual DEF Rounds
<1>3. t # -1 => ~Been(p, t)
  <2>1. round[p] \in Nat /\ round'[p] \in Nat
    BY DEF NATInv, TypeOK
  <2>2. natState[p] # "IDLE" /\ round'[p] <= round[p] => FALSE
    BY <2>1
  <2>. QED  BY <1>1, <2>2 DEF Been
<1>4. RightPortAfter(p)'
  BY <1>0, <1>3 DEF RightPortAfter, MessagesOK, MessageOK
<1>5. t # -1 => ~(<<p, t>> \in probes \/ t \in heard[p] \/ p \in heard[t])
  <2>1. SUFFICES ASSUME t \in Node PROVE ~(<<p, t>> \in probes \/ t \in heard[p] \/ p \in heard[t])
    BY <1>2
  <2>2. <<p, t>> \in probes => Met(p, t)
    BY Zenon DEF ProbesOK, Met
  <2>3. (p \in heard[t] => Met(p, t)) /\ (t \in heard[p] => Met(t, p))
    BY <2>1 DEF HeardOK
  <2>4. ~Been(p, t)
    BY <1>3, <2>1 DEF Node
  <2>. QED  BY <2>2, <2>3, <2>4 DEF Met
<1>6. PortAfterProbe(p)'
  BY <1>0, <1>5 DEF PortAfterProbe
<1>. QED  BY <1>4, <1>6

LEMMA StayPort ==
    ASSUME TalkInv, NATInv', NEW p \in Node, Summary(p), Smooth',
           RightPortAfter(p), PortAfterProbe(p), EndedKnown(p),
           inbox'[p] = inbox[p], natState'[p] = natState[p], natState[p] = "CONNECTING",
           round'[p] = round[p], portKnown[p] \subseteq portKnown'[p],
           Target(p) \in portKnown'[p] \/ heard'[p] = heard[p],
           state'[p][p] = "DONE" => state[p][p] = "DONE"
    PROVE  RightPortAfter(p)' /\ PortAfterProbe(p)' /\ EndedKnown(p)'
<1>. USE DEF TalkInv
<1>0. PICK t : t = Target(p) /\ t = Target(p)'
  BY DEF Target
<1>1. t = -1 \/ t \in Node \ {p}
  <2>1. NATInv
    OBVIOUS
  <2>. QED  BY <1>0, <2>1, TargetType
<1>2. ASSUME NEW i \in Nat, Coming(p, t, i) PROVE Coming(p, t, i)'
  BY <1>2, ComingStays DEF Coming
<1>3. EndedKnown(p)'
  BY DEF EndedKnown, Ended, Rounds
<1>4. RightPortAfter(p)'
  <2>1. t # -1 => (Exposed(t, p)' <=> Exposed(t, p))
    BY <1>1 DEF Exposed, Summary, SeenBy, Waits, Rounds
  <2>2. \A i \in DOMAIN inbox[p] : i \in Nat
    BY DEF NATInv, TypeOK
  <2>. QED  BY <1>0, <1>2, <2>1, <2>2 DEF RightPortAfter
<1>5. PortAfterProbe(p)'
  <2>1. SUFFICES ASSUME t \in Node \ {p}, <<p, t>> \in probes' \/ t \in heard'[p] \/ p \in heard'[t],
                        t \notin portKnown'[p]
                 PROVE  Coming(p, t, 0)'
    BY <1>0, <1>1 DEF PortAfterProbe
  <2>2. <<p, t>> \in probes
           \/ (<<p, t>> \notin probes' /\ (t \in heard[p] \/ p \in heard[t]))
    BY <1>0, <2>1 DEF Summary, SeenBy, Probes
  <2>3. t \in portKnown[p] \/ Coming(p, t, 0)
    BY <1>0, <2>1, <2>2 DEF PortAfterProbe, Node
  <2>. QED  BY <1>2, <2>1, <2>3
<1>. QED  BY <1>3, <1>4, <1>5

(* What a message says of the ports. *)
LEMMA PortReads ==
    ASSUME TalkInv, NEW p \in Node, ProcessGlobalMessage(p), NEW t, t = Target(p),
           NEW m, m = Head(inbox[p])
    PROVE  /\ portKnown'[p] \subseteq portKnown[p] \cup {t}
           /\ portKnown[p] \ {t} \subseteq portKnown'[p]
           /\ t \in portKnown'[p] /\ t \notin portKnown[p] => t \in Node
           /\ t \in portKnown[p] /\ t \notin portKnown'[p] =>
                 m.type = "PORT" /\ ~m.good /\ m.src = t /\ state[p][p] # "DONE"
           /\ m = Port(t, TRUE) /\ state[p][p] # "DONE" => t \in portKnown'[p]
           /\ state'[p][p] = "DONE" => state[p][p] = "DONE" \/ IsWordOf(m, p, t)
<1>. USE DEF TalkInv
<1>0. NATInv /\ inbox[p] # <<>>
  BY DEF ProcessGlobalMessage, Listens
<1>1. GotMangledPort(p, m) \/ GotProbed(p, m) \/ GotConnDone(p, m) \/ GotConnFailed(p, m)
  BY DEF ProcessGlobalMessage
<1>2. m \in Message
  <2>1. inbox[p] \in Seq(Message)
    BY DEF NATInv, TypeOK
  <2>. QED  BY <1>0, <2>1
<1>3. m.src \in Node /\ m.node \in Node
  BY <1>2 DEF Message
<1>4. ASSUME GotMangledPort(p, m), state[p][p] # "DONE", m.src = t
      PROVE  portKnown'[p] = IF m.good THEN portKnown[p] \cup {t} ELSE portKnown[p] \ {t}
  BY <1>4 DEF GotMangledPort, NATInv, TypeOK
<1>5. /\ ~(GotMangledPort(p, m) /\ state[p][p] # "DONE" /\ m.src = t) => portKnown' = portKnown
  BY <1>1 DEF GotMangledPort, GotProbed, GotConnDone, GotConnFailed
<1>6. GotMangledPort(p, m) => m.type = "PORT"
  BY DEF GotMangledPort
<1>7. m = Port(t, TRUE) => GotMangledPort(p, m) /\ m.src = t /\ m.good
  BY <1>1 DEF Port, GotMangledPort, GotProbed, GotConnDone, GotConnFailed
<1>8. state'[p][p] = "DONE" => state[p][p] = "DONE" \/ IsWordOf(m, p, t)
  <2>1. CASE state' = state
    BY <2>1
  <2>2. CASE state' = Set(p, p, "WAITINGFORRESPONSE")
    BY <1>0, <2>2, SetAt
  <2>3. CASE state' = Set(p, m.node, "FAILED")
    BY <1>0, <1>3, <2>3, SetAt
  <2>4. CASE GotConnDone(p, m) /\ state' = Set(p, m.node, "DONE") /\ Partner(N, round[p], m.node) = m.src
    BY <1>0, <1>3, <2>4, SetAt DEF GotConnDone, IsWordOf, Target
  <2>. QED
    BY <1>1, <2>1, <2>2, <2>3, <2>4
       DEF GotMangledPort, GotProbed, GotConnDone, GotConnFailed, Ignore, AnswerWithProbe
<1>9. CASE GotMangledPort(p, m) /\ state[p][p] # "DONE" /\ m.src = t
  <2>1. CASE m.good
    <3>1. portKnown'[p] = portKnown[p] \cup {t}
      BY <1>4, <1>9, <2>1
    <3>. QED  BY <1>3, <1>8, <1>9, <3>1
  <2>2. CASE ~m.good
    <3>1. portKnown'[p] = portKnown[p] \ {t}
      BY <1>4, <1>9, <2>2
    <3>2. m # Port(t, TRUE)
      BY <1>7, <2>2
    <3>. QED  BY <1>6, <1>8, <1>9, <2>2, <3>1, <3>2
  <2>. QED  BY <2>1, <2>2
<1>10. CASE ~(GotMangledPort(p, m) /\ state[p][p] # "DONE" /\ m.src = t)
  BY <1>5, <1>7, <1>8, <1>10
<1>. QED  BY <1>9, <1>10

LEMMA MessagePort ==
    ASSUME TalkInv, NATInv', NEW p \in Node, ProcessGlobalMessage(p), Smooth',
           RightPortAfter(p), PortAfterProbe(p), EndedKnown(p)
    PROVE  RightPortAfter(p)' /\ PortAfterProbe(p)' /\ EndedKnown(p)'
<1>. USE DEF TalkInv
<1>0. natState[p] = "CONNECTING" /\ inbox[p] # <<>> /\ Summary(p) /\ Smooth
  BY MessageSummary, SmoothBefore DEF ProcessGlobalMessage, Listens
<1>1. PICK t : t = Target(p)
  OBVIOUS
<1>2. PICK m : m = Head(inbox[p])
  OBVIOUS
<1>3. inbox[p] \in Seq(Message) /\ inbox'[p] = Tail(inbox[p])
  BY MessageReads DEF Reads, NATInv, TypeOK
<1>4. /\ m = inbox[p][1] /\ 1 \in DOMAIN inbox[p]
      /\ \A i \in DOMAIN inbox'[p] : i + 1 \in DOMAIN inbox[p] /\ inbox'[p][i] = inbox[p][i + 1]
      /\ \A i \in DOMAIN inbox[p] : i # 1 => i - 1 \in DOMAIN inbox'[p] /\ inbox'[p][i - 1] = inbox[p][i]
      /\ \A i \in DOMAIN inbox[p] : i \in Nat /\ ~(i < 1)
      /\ \A i \in DOMAIN inbox'[p] : i \in Nat /\ ~(i < 1)
  BY <1>0, <1>2, <1>3
<1>5. /\ portKnown'[p] \subseteq portKnown[p] \cup {t}
      /\ portKnown[p] \ {t} \subseteq portKnown'[p]
      /\ t \in portKnown[p] /\ t \notin portKnown'[p] =>
                 m.type = "PORT" /\ ~m.good /\ m.src = t /\ state[p][p] # "DONE"
      /\ m = Port(t, TRUE) /\ state[p][p] # "DONE" => t \in portKnown'[p]
      /\ state'[p][p] = "DONE" => state[p][p] = "DONE" \/ IsWordOf(m, p, t)
  BY <1>1, <1>2, PortReads
<1>6. /\ natState' = natState /\ round' = round /\ heard' = heard
      /\ Target(p)' = t /\ round[p] \in Rounds
  BY <1>1 DEF ProcessGlobalMessage, Target, NATInv, TypeOK, Rounds
<1>7. t = -1 \/ t \in Node \ {p}
  <2>1. NATInv
    OBVIOUS
  <2>. QED  BY <1>1, <2>1, TargetType
(* What comes later comes one place earlier. *)
<1>8. ASSUME NEW i \in Nat, NEW l \in Nat, l + 1 >= i + 1, Coming(p, t, l + 1)
      PROVE  Coming(p, t, i)'
  <2>0. PICK good : good = Port(t, TRUE)
    OBVIOUS
  <2>1. PICK j \in DOMAIN inbox[p] :
            /\ j > l + 1 /\ inbox[p][j] = good
            /\ \A k \in DOMAIN inbox[p] : k <= j => ~IsWordOf(inbox[p][k], p, t)
    BY <1>8, <2>0 DEF Coming
  <2>2. state'[p][p] # "DONE"
    <3>1. ~IsWordOf(m, p, t)
      BY <1>4, <2>1
    <3>. QED  BY <1>5, <1>8, <3>1 DEF Coming
  <2>3. j - 1 \in DOMAIN inbox'[p] /\ inbox'[p][j - 1] = good /\ j - 1 > i
    BY <1>4, <1>8, <2>1
  <2>4. ASSUME NEW k \in DOMAIN inbox'[p], k <= j - 1 PROVE ~IsWordOf(inbox'[p][k], p, t)
    <3>1. k + 1 \in DOMAIN inbox[p] /\ inbox'[p][k] = inbox[p][k + 1] /\ k + 1 <= j
      BY <1>4, <2>1, <2>4
    <3>. QED  BY <2>1, <3>1
  <2>. QED  BY <2>0, <2>2, <2>3, <2>4 DEF Coming, Port, IsWordOf
<1>9. t # -1 => (Exposed(t, p)' <=> Exposed(t, p))
  BY <1>0, <1>7 DEF Exposed, Summary, SeenBy, Waits, Rounds
<1>10. RightPortAfter(p)'
  <2>1. ASSUME NEW i \in DOMAIN inbox'[p], t # -1, Exposed(t, p), inbox'[p][i].type = "PORT",
               ~inbox'[p][i].good, inbox'[p][i].src = t
        PROVE  Coming(p, t, i)'
    <3>1. Coming(p, t, i + 1) /\ i \in Nat
      BY <1>1, <1>4, <2>1 DEF RightPortAfter
    <3>. QED  BY <1>8, <3>1
  <2>. QED  BY <1>6, <1>9, <2>1 DEF RightPortAfter
<1>11. PortAfterProbe(p)'
  <2>1. SUFFICES ASSUME t \in Node \ {p}, <<p, t>> \in probes' \/ t \in heard[p] \/ p \in heard[t],
                        t \notin portKnown'[p]
                 PROVE  Coming(p, t, 0)'
    BY <1>6, <1>7 DEF PortAfterProbe
  <2>2. <<p, t>> \in probes \/ t \in heard[p] \/ p \in heard[t]
    BY <1>0, <1>1, <2>1 DEF Summary, Probes
  <2>3. t \in portKnown[p] \/ Coming(p, t, 0)
    BY <1>0, <1>1, <2>1, <2>2 DEF PortAfterProbe, Node
  <2>4. CASE Coming(p, t, 0)
    <3>0. PICK good : good = Port(t, TRUE)
      OBVIOUS
    <3>1. m # good
      BY <1>5, <2>1, <2>4, <3>0 DEF Coming
    <3>2. Coming(p, t, 1)
      <4>1. PICK j \in DOMAIN inbox[p] :
                /\ j > 0 /\ inbox[p][j] = good
                /\ \A k \in DOMAIN inbox[p] : k <= j => ~IsWordOf(inbox[p][k], p, t)
        BY <2>4, <3>0 DEF Coming
      <4>2. j > 1
        BY <1>4, <3>1, <4>1
      <4>. QED  BY <2>4, <3>0, <4>1, <4>2 DEF Coming
    <3>. QED  BY <1>8, <3>2
  <2>5. CASE t \in portKnown[p]
    <3>1. m.type = "PORT" /\ ~m.good /\ m.src = t
      BY <1>5, <2>1, <2>5
    <3>2. Exposed(t, p)
      <4>1. <<p, t>> \in probes => Met(p, t)
        BY Zenon DEF ProbesOK, Met
      <4>2. (p \in heard[t] => Met(p, t)) /\ (t \in heard[p] => Met(t, p))
        BY <2>1 DEF HeardOK
      <4>. QED  BY <1>0, <2>2, <4>1, <4>2 DEF Met
    <3>3. Coming(p, t, 1)
      BY <1>1, <1>4, <2>1, <3>1, <3>2 DEF RightPortAfter, Node
    <3>. QED  BY <1>8, <3>3
  <2>. QED  BY <2>3, <2>4, <2>5
<1>12. EndedKnown(p)'
  <2>1. ASSUME NEW r \in Rounds, Ended(p, r), Partner(N, r, p) # -1 PROVE Partner(N, r, p) \in portKnown'[p]
    <3>1. Partner(N, r, p) \in portKnown[p]
      BY <2>1 DEF EndedKnown
    <3>2. r # round[p]
      BY <1>0, <1>6, <2>1 DEF Ended, Rounds
    <3>3. Partner(N, r, p) # t
      BY <1>1, <1>6, <2>1, <3>2, MeetOnce DEF Target
    <3>. QED  BY <1>5, <3>1, <3>3
  <2>. QED  BY <1>6, <2>1 DEF EndedKnown, Ended, Rounds
<1>. QED  BY <1>10, <1>11, <1>12

LEMMA PortInit == Init => PortInv
<1>. SUFFICES ASSUME Init PROVE PortInv
  OBVIOUS
<1>1. TalkInv
  BY TalkInit
<1>2. ASSUME NEW p \in Node
      PROVE  RightPortAfter(p) /\ PortAfterProbe(p) /\ EndedKnown(p) /\ portKnown[p] \subseteq Others(p)
  <2>1. DOMAIN inbox[p] = {} /\ round[p] = 0 /\ natState[p] = "IDLE"
    BY DEF Init
  <2>. QED  BY <2>1 DEF Init, RightPortAfter, PortAfterProbe, EndedKnown, Ended, Rounds
<1>. QED  BY <1>1, <1>2 DEF PortInv

LEMMA PortsOfOthers ==
    ASSUME TalkInv, NEW p \in Node, portKnown[p] \subseteq Others(p),
           StepOf(p)
    PROVE  /\ portKnown'[p] \subseteq Others(p)
           /\ ~ProcessGlobalMessage(p) => portKnown[p] \subseteq portKnown'[p]
<1>. USE DEF TalkInv, StepOf
<1>0. NATInv /\ Target(p) # p
  BY TargetType DEF Node
<1>1. CASE ProcessGlobalMessage(p)
  <2>1. PICK t, m : t = Target(p) /\ m = Head(inbox[p])
    OBVIOUS
  <2>2. /\ portKnown'[p] \subseteq portKnown[p] \cup {t}
        /\ t \in portKnown'[p] /\ t \notin portKnown[p] => t \in Node
    BY <1>1, <2>1, PortReads
  <2>3. \A n \in portKnown'[p] : n \in portKnown[p] \/ (n = t /\ t \in Node)
    BY <2>2
  <2>. QED  BY <1>0, <1>1, <2>1, <2>3 DEF Others
<1>2. CASE ReceiveProbe(p)
  <2>1. portKnown' = portKnown \/ \E h \in probes :
            h[1] = Target(p) /\ portKnown' = [portKnown EXCEPT ![p] = portKnown[p] \cup {h[1]}]
    BY <1>2 DEF ReceiveProbe
  <2>2. \A h \in probes : h[1] \in Node
    BY DEF NATInv, TypeOK
  <2>3. portKnown' = portKnown
           \/ \E q \in Others(p) : portKnown' = [portKnown EXCEPT ![p] = portKnown[p] \cup {q}]
    BY <1>0, <2>1, <2>2 DEF Others
  <2>4. portKnown'[p] = portKnown[p] \/ \E q \in Others(p) : portKnown'[p] = portKnown[p] \cup {q}
    BY <2>3 DEF NATInv, TypeOK
  <2>. QED  BY <2>4
<1>3. CASE ~(ProcessGlobalMessage(p) \/ ReceiveProbe(p))
  <2>1. portKnown' = portKnown
    BY <1>3, FailsDoes
       DEF EstablishConnectionPaths, NextRound, LastRound, Finish, ResendPort, ProbeTarget,
           ManglerResponse
  <2>. QED  BY <2>1
<1>. QED  BY <1>1, <1>2, <1>3

LEMMA PortStep == PortInv /\ EndedHeard /\ [Next]_vars => PortInv'
<1>. SUFFICES ASSUME PortInv, [Next]_vars PROVE PortInv'
  OBVIOUS
<1>. USE DEF PortInv, StepOf
<1>1. TalkInv' /\ NATInv' /\ Node' = Node /\ \A p : Others(p)' = Others(p)
  BY TalkStep, StepKinds DEF Node, Others
<1>2. CASE Nothing
  <2>1. (Smooth' <=> Smooth) /\ portKnown' = portKnown
    BY <1>2 DEF Nothing, history, Smooth
  <2>5. \A p, t, i : Coming(p, t, i)' <=> Coming(p, t, i)
    BY <1>2 DEF Nothing, Coming, Port, IsWordOf
  <2>6. \A p : Target(p)' = Target(p)
    BY <1>2 DEF Nothing, roundVars, Target
  <2>7. \A p, t : Exposed(t, p)' <=> Exposed(t, p)
    BY <1>2 DEF Nothing, roundVars, Exposed, Waits, Rounds
  <2>2. \A p \in Node : RightPortAfter(p) => RightPortAfter(p)'
    <3>1. inbox' = inbox
      BY <1>2 DEF Nothing
    <3>. QED  BY <2>5, <2>6, <2>7, <3>1 DEF RightPortAfter
  <2>3. \A p \in Node : PortAfterProbe(p) => PortAfterProbe(p)'
    <3>1. natState' = natState /\ heard' = heard /\ probes' \subseteq probes
      BY <1>2 DEF Nothing, history
    <3>. QED  BY <2>1, <2>5, <2>6, <3>1 DEF PortAfterProbe
  <2>4. \A p \in Node : EndedKnown(p) => EndedKnown(p)'
    BY <1>2 DEF Nothing, roundVars, EndedKnown, Ended, Rounds
  <2>. QED  BY <1>1, <2>1, <2>2, <2>3, <2>4
<1>3. ASSUME NEW p \in Node, StepOf(p)
      PROVE  /\ \A n \in Node : portKnown'[n] \subseteq Others(n)
             /\ Smooth' => \A n \in Node : RightPortAfter(n)' /\ PortAfterProbe(n)' /\ EndedKnown(n)'
  <2>1. TalkInv /\ NATInv /\ Summary(p)
    BY <1>1, <1>3, StepSummary DEF TalkInv
  <2>2. \A n \in Node : portKnown'[n] \subseteq Others(n)
    <3>1. portKnown'[p] \subseteq Others(p)
      BY <1>3, PortsOfOthers
    <3>2. \A n \in Node \ {p} : portKnown'[n] = portKnown[n]
      BY <2>1 DEF Summary, SeenBy
    <3>. QED  BY <3>1, <3>2
  <2>3. SUFFICES ASSUME Smooth'
                 PROVE  \A n \in Node : RightPortAfter(n)' /\ PortAfterProbe(n)' /\ EndedKnown(n)'
    BY <2>2
  <2>4. Smooth /\ \A n \in Node : RightPortAfter(n) /\ PortAfterProbe(n) /\ EndedKnown(n)
    BY <2>1, <2>3, SmoothBefore
  <2>5. ASSUME NEW n \in Node \ {p}
        PROVE  RightPortAfter(n)' /\ PortAfterProbe(n)' /\ EndedKnown(n)'
    <3>1. Waits(p) =>
              /\ round'[p] = round[p]
              /\ \A t \in {Target(p)} :
                    \/ Waits(p)'
                    \/ t \in Node /\ (Listener(t) => inbox'[t] = Append(inbox[t], Port(p, TRUE)))
      <4>1. PICK t : t = Target(p)
        OBVIOUS
      <4>2. PICK m : m = Port(p, TRUE)
        OBVIOUS
      <4>3. Waits(p) =>
               /\ round'[p] = round[p]
               /\ Waits(p)' \/ (t \in Node /\ (Listener(t) => inbox'[t] = Append(inbox[t], m)))
        BY <1>1, <1>3, <2>1, <2>3, <4>1, <4>2, Unmasked
      <4>. QED  BY <4>1, <4>2, <4>3, Zenon
    <3>. QED  BY <1>1, <2>1, <2>3, <2>4, <2>5, <3>1, OthersPort
  <2>6. CASE EstablishConnectionPaths(p) \/ NextRound(p)
    <3>1. PICK r : /\ DoThisConnectionRound(p, r) /\ heard' = heard /\ probes' = probes
                   /\ portKnown' = portKnown
                   /\ \/ natState[p] = "IDLE" /\ r = 0
                      \/ RoundIsOver(p) /\ r = round[p] + 1
      BY <2>6 DEF EstablishConnectionPaths, NextRound, RoundIsOver, history
    <3>2. round'[p] = r /\ round[p] \in Nat
      BY <2>1, <3>1 DEF DoThisConnectionRound, NATInv, TypeOK
    <3>3. inbox'[p] = inbox[p]
      <4>1. r \in Rounds
        BY <1>1, <2>1, <3>2 DEF NATInv, TypeOK, Rounds
      <4>2. Partner(N, r, p) # p
        BY <4>1, PartnerMutual DEF Rounds, Node
      <4>3. inbox' = inbox \/ \E m : inbox' = Post({Partner(N, r, p)}, m)
        BY <3>1 DEF DoThisConnectionRound
      <4>. QED  BY <2>1, <4>2, <4>3, PostAt
    <3>4. EndedKnown(p)'
      <4>1. ASSUME NEW s \in Rounds, Ended(p, s)', Partner(N, s, p) # -1
            PROVE  Partner(N, s, p) \in portKnown[p]
        <5>1. CASE Ended(p, s)
          BY <2>4, <4>1, <5>1 DEF EndedKnown
        <5>2. CASE ~Ended(p, s)
          <6>1. s = round[p] /\ natState[p] = "CONNECTING" /\ AllConnectionsDoneThisRound(p)
            BY <1>1, <1>3, <2>1, <4>1, <5>2, EndsRound
          <6>2. Target(p) \in portKnown[p]
            BY <2>1, <2>4, <4>1, <6>1, RoundKnown DEF Target
          <6>. QED  BY <6>1, <6>2 DEF Target
        <5>. QED  BY <5>1, <5>2
      <4>. QED  BY <3>1, <4>1 DEF EndedKnown, Rounds
    <3>5. natState[p] = "IDLE" \/ round[p] < round'[p]
      BY <3>1, <3>2
    <3>. QED  BY <1>1, <2>1, <2>4, <2>5, <3>1, <3>3, <3>4, <3>5, BeginPort
  <2>7. CASE LastRound(p)
    <3>1. PICK s \in {"DONE", "FAILED"} : Finish(p, s)
      BY <2>7 DEF LastRound
    <3>2. natState'[p] = s /\ inbox'[p] = <<>> /\ portKnown' = portKnown
      BY <2>1, <3>1 DEF Finish, NATInv, TypeOK
    <3>3. DOMAIN inbox'[p] = {}
      BY <3>2
    <3>4. RightPortAfter(p)' /\ PortAfterProbe(p)'
      BY <3>2, <3>3 DEF RightPortAfter, PortAfterProbe
    <3>5. EndedKnown(p)'
      <4>1. ASSUME NEW r \in Rounds, Ended(p, r)', Partner(N, r, p) # -1
            PROVE  Partner(N, r, p) \in portKnown[p]
        <5>1. CASE Ended(p, r)
          BY <2>4, <4>1, <5>1 DEF EndedKnown
        <5>2. CASE ~Ended(p, r)
          <6>1. r = round[p] /\ natState[p] = "CONNECTING" /\ AllConnectionsDoneThisRound(p)
            BY <1>1, <1>3, <2>1, <4>1, <5>2, EndsRound
          <6>2. Target(p) \in portKnown[p]
            BY <2>1, <2>4, <4>1, <6>1, RoundKnown DEF Target
          <6>. QED  BY <6>1, <6>2 DEF Target
        <5>. QED  BY <5>1, <5>2
      <4>. QED  BY <3>2, <4>1 DEF EndedKnown, Rounds
    <3>. QED  BY <2>5, <3>4, <3>5
  <2>8. CASE Fails(p)
    BY <2>3, <2>8, FailsDoes DEF Smooth
  <2>9. CASE ResendPort(p) \/ ReceiveProbe(p) \/ ProbeTarget(p) \/ ManglerResponse(p)
    <3>1. round' = round /\ natState' = natState /\ natState[p] = "CONNECTING"
      BY <2>9 DEF ResendPort, ReceiveProbe, ProbeTarget, ManglerResponse, roundVars, Active
    <3>2. inbox'[p] = inbox[p] /\ Target(p) # p
      <4>1. \/ inbox' = inbox
            \/ \E m : inbox' = Post({Target(p)}, m)
            \/ \E m : inbox' = Post(Others(p), m)
        BY <2>9 DEF ResendPort, ReceiveProbe, ProbeTarget, ManglerResponse
      <4>2. Target(p) # p
        BY <2>1, TargetType DEF Node
      <4>. QED  BY <2>1, <4>1, <4>2, PostAt DEF Others
    <3>3. portKnown[p] \subseteq portKnown'[p]
      <4>1. ~ProcessGlobalMessage(p)
        <5>1. ProcessGlobalMessage(p) => inbox[p] # <<>> /\ inbox'[p] = Tail(inbox[p])
          BY <2>1, MessageReads DEF ProcessGlobalMessage, Listens, Reads
        <5>2. inbox[p] \in Seq(Message)
          BY <2>1 DEF NATInv, TypeOK
        <5>3. PICK box : box = inbox[p]
          OBVIOUS
        <5>4. box # <<>> => Len(Tail(box)) = Len(box) - 1 /\ Len(box) \in Nat
          BY <5>2, <5>3
        <5>5. box # <<>> => Tail(box) # box
          BY <5>4
        <5>. QED  BY <3>2, <5>1, <5>3, <5>5
      <4>. QED  BY <1>3, <2>1, <4>1, PortsOfOthers
    <3>4. Target(p) \in portKnown'[p] \/ heard'[p] = heard[p]
      <4>1. \/ heard' = heard
            \/ portKnown' = [portKnown EXCEPT ![p] = portKnown[p] \cup {Target(p)}]
        BY <2>9 DEF ResendPort, ReceiveProbe, ProbeTarget, ManglerResponse, history
      <4>2. portKnown \in [Node -> SUBSET Node]
        BY <2>1 DEF NATInv, TypeOK
      <4>. QED  BY <4>1, <4>2
    <3>5. state'[p][p] = "DONE" => state[p][p] = "DONE"
      <4>1. CASE state' = state
        BY <4>1
      <4>2. ASSUME NEW q, state' = Set(p, q, "DONE"), q = Target(p), q # -1
            PROVE  state'[p][p] = state[p][p]
        <5>1. q \in Node /\ q # p
          BY <2>1, <3>2, <4>2, TargetType
        <5>. QED  BY <2>1, <4>2, <5>1, SetAt
      <4>3. CASE state' = Set(p, p, "WAITINGFORRESPONSE")
        BY <2>1, <4>3, SetAt
      <4>. QED
        BY <2>9, <4>1, <4>2, <4>3 DEF ResendPort, ReceiveProbe, ProbeTarget, ManglerResponse
    <3>. QED  BY <1>1, <2>1, <2>3, <2>4, <2>5, <3>1, <3>2, <3>3, <3>4, <3>5, StayPort
  <2>10. CASE ProcessGlobalMessage(p)
    BY <1>1, <2>1, <2>3, <2>4, <2>5, <2>10, MessagePort
  <2>. QED  BY <1>3, <2>5, <2>6, <2>7, <2>8, <2>9, <2>10
<1>. QED  BY <1>1, <1>2, <1>3, StepKinds

-----------------------------------------------------------------------------
(* The inductive invariant of AllKnowWhere. *)
KnownInv == PortInv /\ EndedHeard

LEMMA KnownInit == Init => KnownInv
BY PortInit, ToldInit DEF KnownInv, ToldInv

LEMMA KnownStep == KnownInv /\ [Next]_vars => KnownInv'
BY PortStep, EndedStep DEF KnownInv, PortInv

(* Who goes on to the game without a failure (update, after the last round) *)
(* has been heard by every other player, and knows the port of each if      *)
(* nobody has failed and nobody has skipped the wait for the mangler.       *)
THEOREM AllKnowWhereAlways == Spec => []AllKnowWhere
<1>1. KnownInv => AllKnowWhere
  <2>. SUFFICES ASSUME KnownInv, NEW p \in Node, natState[p] = "DONE"
                PROVE  /\ p \notin timedOut => \A q \in Others(p) : p \in heard[q]
                       /\ timedOut \cup skipped = {} => portKnown[p] = Others(p)
    BY DEF AllKnowWhere
  <2>. USE DEF KnownInv, PortInv, TalkInv
  <2>1. \A r \in Rounds : Ended(p, r)
    <3>1. round[p] \in Rounds /\ round[p] \in Nat
      BY DEF NATInv, TypeOK, Rounds
    <3>2. ~RoundsLeft(p)
      BY DEF NodeOK
    <3>. QED  BY <3>1, <3>2, RoundsNat DEF RoundsLeft, Ended, Rounds
  <2>2. ASSUME NEW q \in Others(p)
        PROVE  /\ p \notin timedOut => p \in heard[q]
               /\ timedOut \cup skipped = {} => q \in portKnown[p]
    <3>1. q \in Node \ {p} /\ q # -1
      BY DEF Others, Node
    <3>2. PICK r \in Rounds : Partner(N, r, p) = q
      BY <3>1, MeetSome
    <3>. QED  BY <2>1, <3>1, <3>2 DEF EndedHeard, EndedKnown, Smooth
  <2>3. portKnown[p] \subseteq Others(p)
    OBVIOUS
  <2>. QED  BY <2>2, <2>3
<1>. QED  BY KnownInit, KnownStep, <1>1, PTL DEF Spec

=============================================================================
