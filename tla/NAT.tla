--------------------------------- MODULE NAT ---------------------------------
(***************************************************************************)
(* How the players of an online game find out how to reach each other      *)
(* through their firewalls: in each round every player is paired with      *)
(* another one, they tell each other their ports through the chat server   *)
(* and probe each other; everybody waits until all pairs of the round are  *)
(* done (GameNetwork/NAT.cpp, driven by WOLGameSetupMenu.cpp).             *)
(*                                                                         *)
(* The chat server is external: what is said in the staging room arrives,  *)
(* and in one order for everybody; so is the mangler, which answers.       *)
(* Probes are datagrams: one arrives, any time later, or is lost; one for  *)
(* a wrong port never arrives.                                             *)
(*                                                                         *)
(* Time is abstract: half a second is enough for what is on its way, so    *)
(* the retries run out when nothing else can happen any more, and the      *)
(* timeouts of 15 seconds when no retries are running out either; or one   *)
(* of these clocks is too early, a bounded number of times.  The nodes are *)
(* numbered as establishConnectionPaths does: netgears meet in round 0.    *)
(***************************************************************************)
EXTENDS Integers, FiniteSets, Sequences

CONSTANTS
    N,          \* m_numNodes
    MaxRetries, \* m_maxNumRetriesAllowed
    Setups      \* the firewalls the players may have, and the faults that may happen

Node == 0 .. N - 1

(* A setup: the nodes whose firewall changes their port, and among these     *)
(* the ones where it depends on the target, and those that have the netgear  *)
(* bug; bounds on the probes lost and the timeouts that fire too early.      *)
ASSUME NATAssumption ==
    /\ N \in 2 .. 8
    /\ MaxRetries \in Nat
    /\ Setups \subseteq [mangled : SUBSET Node, smart : SUBSET Node, netgear : SUBSET Node,
                        lost : Nat, late : Nat]
    /\ \A s \in Setups : s.smart \cup s.netgear \subseteq s.mangled

VARIABLES
    setup,          \* the setup: chosen once
    natState,       \* m_NATState of each node; IDLE until the start of the game reaches it
    round,          \* m_connectionRound
    state,          \* m_connectionStates[n] of node p
    beenProbed,     \* m_beenProbed
    numRetries,     \* m_numRetries
    noRetry,        \* m_timeTillNextSend is -1
    previousKnown,  \* m_previousSourcePort is not 0
    sourceKnown,    \* m_sourcePorts[target] is the port p is seen under
    portKnown,      \* the nodes whose slot has the right port at p
    inbox,          \* what the chat server has for p
    probes,         \* PROBE packets on their way: who sent it, to whom
    heard,          \* the nodes whose probe p has taken (history)
    expired,        \* m_roundTimeout is over: "no"; "now"; "read", a message since
    timedOut,       \* the nodes that have told the others they failed (history)
    skipped,        \* the nodes that have not waited for the mangler's answer (history)
    lost, late      \* faults so far: probes lost, timeouts that fired too early

roundVars == <<round, beenProbed, numRetries, noRetry, previousKnown, sourceKnown>>
history == <<heard, timedOut, skipped>>
faults == <<setup, lost, late>>
vars == <<natState, roundVars, state, portKnown, inbox, probes, expired, history, faults>>

Mangled == setup.mangled
Smart == setup.smart
Netgear == setup.netgear

-----------------------------------------------------------------------------
(* m_connectionPairs[nodes - 2][round][node]: who to connect to, or -1. *)
ConnectionPairs ==
    << << <<1, 0>> >>,
       << <<1, 0, -1>>, <<2, -1, 0>>, <<-1, 2, 1>> >>,
       << <<1, 0, 3, 2>>, <<2, 3, 0, 1>>, <<3, 2, 1, 0>> >>,
       << <<2, 4, 0, -1, 1>>, <<-1, 3, 4, 1, 2>>, <<3, 2, 1, 0, -1>>,
          <<4, -1, 3, 2, 0>>, <<1, 0, -1, 4, 3>> >>,
       << <<3, 5, 4, 0, 2, 1>>, <<2, 4, 0, 5, 1, 3>>, <<4, 3, 5, 1, 0, 2>>,
          <<1, 0, 3, 2, 5, 4>>, <<5, 2, 1, 4, 3, 0>> >>,
       << <<-1, 6, 5, 4, 3, 2, 1>>, <<2, -1, 0, 6, 5, 4, 3>>, <<4, 3, -1, 1, 0, 6, 5>>,
          <<6, 5, 4, -1, 2, 1, 0>>, <<1, 0, 6, 5, -1, 3, 2>>, <<3, 2, 1, 0, 6, -1, 4>>,
          <<5, 4, 3, 2, 1, 0, -1>> >>,
       << <<4, 5, 6, 7, 0, 1, 2, 3>>, <<5, 4, 7, 6, 1, 0, 3, 2>>, <<3, 6, 5, 0, 7, 2, 1, 4>>,
          <<2, 7, 0, 5, 6, 3, 4, 1>>, <<6, 3, 4, 1, 2, 7, 0, 5>>, <<1, 0, 3, 2, 5, 4, 7, 6>>,
          <<7, 2, 1, 4, 3, 6, 5, 0>> >> >>

Partner(n, r, p) == ConnectionPairs[n - 1][r + 1][p + 1]

(* allConnectionsDone: everybody meets everybody in so many rounds. *)
RequiredRounds(n) == IF n % 2 = 1 THEN n ELSE n - 1

(* The table of pairs, whatever the number of players: in each round it      *)
(* pairs them with each other or leaves them alone, and any two of them meet *)
(* in exactly one of the rounds there are.                                   *)
ASSUME RoundRobin ==
    \A n \in 2 .. 8 :
        LET nodes == 0 .. n - 1
            rounds == 0 .. RequiredRounds(n) - 1
        IN  /\ \A r \in rounds, p \in nodes :
                  LET q == Partner(n, r, p)
                  IN  \/ q \in nodes \ {p} /\ Partner(n, r, q) = p
                      \/ q = -1
            /\ \A p \in nodes : \A q \in nodes \ {p} :
                  Cardinality({r \in rounds : Partner(n, r, p) = q}) = 1

Target(p) == Partner(N, round[p], p)

(* allConnectionsDoneThisRound: one that has failed is done. *)
AllConnectionsDoneThisRound(p) == \A n \in Node : state[p][n] \in {"DONE", "FAILED"}

(* sendMangledSourcePort: the port has to be found out (again). *)
AsksMangler(p) == p \in Mangled /\ (p \in Smart \/ ~previousKnown[p])

(* m_connectionStates that is set when a round begins. *)
StateForRound(p, r) ==
    [n \in Node |->
        IF Partner(N, r, n) = -1 THEN "DONE"
        ELSE IF n # p THEN "WAITINGFORRESPONSE"
        ELSE IF AsksMangler(p) THEN "WAITINGFORMANGLERRESPONSE"
        ELSE "WAITINGFORMANGLEDPORT"]

Set(p, n, s) == [state EXCEPT ![p][n] = s]

-----------------------------------------------------------------------------
(* What is said in the staging room, to those that still listen. *)
Post(nodes, m) ==
    [n \in Node |->
        IF n \in nodes /\ natState[n] \in {"IDLE", "CONNECTING"}
          THEN Append(inbox[n], m) ELSE inbox[n]]

Port(p, good) == [type |-> "PORT", node |-> p, src |-> p, good |-> good]
Probed(p) == [type |-> "PROBED", node |-> p, src |-> p, good |-> TRUE]
ConnDone(n, p) == [type |-> "CONNDONE", node |-> n, src |-> p, good |-> TRUE]
ConnFailed(p) == [type |-> "CONNFAILED", node |-> p, src |-> p, good |-> TRUE]

Others(p) == Node \ {p}

(* sendAProbe: to the port that is known. *)
Probe(p, q) == IF q \in portKnown[p] THEN {<<p, q>>} ELSE {}

Init ==
    /\ setup \in Setups
    /\ natState = [p \in Node |-> "IDLE"]
    /\ round = [p \in Node |-> 0]
    /\ state = [p \in Node |-> [n \in Node |-> "NOSTATE"]]
    /\ beenProbed = [p \in Node |-> FALSE]
    /\ numRetries = [p \in Node |-> 0]
    /\ noRetry = [p \in Node |-> FALSE]
    /\ previousKnown = [p \in Node |-> FALSE]
    /\ sourceKnown = [p \in Node |-> FALSE]
    /\ portKnown = [p \in Node |-> {}]
    /\ inbox = [p \in Node |-> <<>>]
    /\ probes = {}
    /\ heard = [p \in Node |-> {}]
    /\ expired = [p \in Node |-> "no"]
    /\ timedOut = {}
    /\ skipped = {}
    /\ lost = 0
    /\ late = 0

(* doThisConnectionRound, sendMangledSourcePort: a node that knows its port *)
(* tells its target; a netgear has to be probed first, unless the target is *)
(* one too.                                                                 *)
DoThisConnectionRound(p, r) ==
    LET q == Partner(N, r, p)
    IN  /\ round' = [round EXCEPT ![p] = r]
        /\ state' = [state EXCEPT ![p] = StateForRound(p, r)]
        /\ beenProbed' = [beenProbed EXCEPT ![p] = FALSE]
        /\ numRetries' = [numRetries EXCEPT ![p] = 0]
        /\ noRetry' = [noRetry EXCEPT ![p] = @ \/ (q # -1 /\ p \in Netgear /\ q \notin Netgear)]
        /\ sourceKnown' = [sourceKnown EXCEPT ![p] = ~AsksMangler(p)]
        /\ UNCHANGED previousKnown
        /\ inbox' = IF q # -1 /\ ~AsksMangler(p) THEN Post({q}, Port(p, TRUE)) ELSE inbox

(* establishConnectionPaths, when the start of the game reaches p. *)
EstablishConnectionPaths(p) ==
    /\ natState[p] = "IDLE"
    /\ natState' = [natState EXCEPT ![p] = "CONNECTING"]
    /\ DoThisConnectionRound(p, 0)
    /\ UNCHANGED <<portKnown, probes, expired, history, faults>>

-----------------------------------------------------------------------------
(* Plausible bug: the round that is about to begin counts as done. *)
RoundsLeftOneLess(p) == round[p] + 2 < RequiredRounds(N)

RoundsLeft(p) == round[p] + 1 < RequiredRounds(N)

RoundIsOver(p) == natState[p] = "CONNECTING" /\ AllConnectionsDoneThisRound(p)

(* update: the round is over, and another one follows. *)
NextRound(p) ==
    /\ RoundIsOver(p)
    /\ RoundsLeft(p)
    /\ DoThisConnectionRound(p, round[p] + 1)
    /\ expired' = [expired EXCEPT ![p] = "no"]
    /\ UNCHANGED <<natState, portKnown, probes, history, faults>>

Finish(p, s) ==
    /\ natState' = [natState EXCEPT ![p] = s]
    /\ inbox' = [inbox EXCEPT ![p] = <<>>]
    /\ UNCHANGED <<roundVars, state, portKnown, probes, expired, history, faults>>

(* update: it was the last round; connectionUpdate still sees a failure. *)
LastRound(p) ==
    /\ RoundIsOver(p)
    /\ ~RoundsLeft(p)
    /\ Finish(p, IF state[p][p] = "FAILED" THEN "FAILED" ELSE "DONE")

(* An update that goes on with the round. *)
Active(p) ==
    /\ natState[p] = "CONNECTING"
    /\ ~AllConnectionsDoneThisRound(p)
    /\ state[p][p] # "FAILED"

WithTarget(p) ==
    \A q \in {Target(p)} : natState[q] = "CONNECTING" /\ round[q] = round[p]

(* connectionUpdate: the port is sent again until the target has probed us. *)
(* Before the target is in this round it ignores the port: left out.        *)
PortDue(p) ==
    LET q == Target(p)
    IN  /\ q # -1 /\ ~beenProbed[p]
        /\ inbox[p] = <<>> /\ WithTarget(p)
        /\ \A i \in DOMAIN inbox[q] : ~(inbox[q][i].type = "PORT" /\ inbox[q][i].src = p)

ResendPort(p) ==
    /\ Active(p)
    /\ PortDue(p)
    /\ inbox' = Post({Target(p)}, Port(p, sourceKnown[p]))
    /\ UNCHANGED <<natState, roundVars, state, portKnown, probes, expired, history, faults>>

(* connectionUpdate: a probe has come; one from the target is acknowledged  *)
(* to everybody, and shows the port the target is seen under, which goes    *)
(* into m_sourcePorts too if it is news.                                    *)
ReceiveProbe(p) ==
    /\ Active(p)
    /\ Target(p) # -1
    /\ \E h \in probes :
          /\ h[2] = p
          /\ probes' = probes \ {h}
          /\ IF h[1] = Target(p)
               THEN /\ state' = Set(p, h[1], "DONE")
                    /\ heard' = [heard EXCEPT ![p] = @ \cup {h[1]}]
                    /\ portKnown' = [portKnown EXCEPT ![p] = @ \cup {h[1]}]
                    /\ sourceKnown' = [sourceKnown EXCEPT ![p] = @ /\ h[1] \in portKnown[p]]
                    /\ inbox' = Post(Others(p), ConnDone(h[1], p))
               ELSE UNCHANGED <<state, heard, portKnown, sourceKnown, inbox>>
    /\ UNCHANGED <<natState, round, beenProbed, numRetries, noRetry, previousKnown, expired,
                   timedOut, skipped, faults>>

(* Plausible bug: off by one. *)
RetriesLeftOneLess(p) == numRetries[p] < MaxRetries

RetriesLeft(p) == numRetries[p] <= MaxRetries

(* Half a second after a probe it has come or is lost, and so are messages. *)
ProbeDue(p) ==
    /\ state[p][p] = "WAITINGFORRESPONSE"
    /\ ~noRetry[p]
    /\ inbox[p] = <<>> /\ WithTarget(p)
    /\ <<p, Target(p)>> \notin probes

(* Plausible bug: the retries are not counted out. *)
ProbeTargetForever(p) ==
    /\ Active(p)
    /\ ProbeDue(p)
    /\ probes' = probes \cup Probe(p, Target(p))
    /\ inbox' = Post({Target(p)}, Probed(p))
    /\ numRetries' = [numRetries EXCEPT ![p] = @ + 1]
    /\ UNCHANGED <<natState, round, state, beenProbed, noRetry, previousKnown, sourceKnown,
                   portKnown, expired, history, faults>>

(* connectionUpdate: it is time to probe the target (again). *)
ProbeTarget(p) ==
    /\ Active(p)
    /\ ProbeDue(p)
    /\ RetriesLeft(p)
    /\ probes' = probes \cup Probe(p, Target(p))
    /\ inbox' = Post({Target(p)}, Probed(p))
    /\ numRetries' = [numRetries EXCEPT ![p] = @ + 1]
    /\ UNCHANGED <<natState, round, state, beenProbed, noRetry, previousKnown, sourceKnown,
                   portKnown, expired, history, faults>>

(* connectionUpdate, processManglerResponse: the mangler has answered.  The *)
(* port in the target's slot is never 0: there is no wait for it.           *)
ManglerResponse(p) ==
    /\ Active(p)
    /\ state[p][p] = "WAITINGFORMANGLERRESPONSE"
    /\ sourceKnown' = [sourceKnown EXCEPT ![p] = TRUE]
    /\ previousKnown' = [previousKnown EXCEPT ![p] = TRUE]
    /\ state' = Set(p, p, "WAITINGFORRESPONSE")
    /\ inbox' = Post({Target(p)}, Port(p, TRUE))
    /\ UNCHANGED <<natState, round, beenProbed, numRetries, noRetry, portKnown, probes,
                   expired, history, faults>>

-----------------------------------------------------------------------------
(* Nothing is on its way and nobody has anything to do: only time passes. *)
Quiet ==
    \A p \in Node :
        /\ natState[p] # "IDLE"
        /\ natState[p] = "CONNECTING" =>
              /\ Active(p)
              /\ inbox[p] = <<>>
              /\ Target(p) # -1 => ~PortDue(p) /\ \A h \in probes : h[2] # p
              /\ ProbeDue(p) => ~RetriesLeft(p)
              /\ state[p][p] # "WAITINGFORMANGLERRESPONSE"

(* No retries are running out either: only the long clocks go on. *)
LongQuiet == Quiet /\ \A p \in Node : natState[p] = "CONNECTING" => ~ProbeDue(p)

(* A clock has run down: when it is time, or too early. *)
Passed(time) ==
    \/ time /\ UNCHANGED late
    \/ late < setup.late /\ late' = late + 1

(* Plausible bug: the others are told, but the node does not note it itself. *)
NotifyUsersOfConnectionFailedOnly(p) ==
    /\ timedOut' = timedOut \cup {p}
    /\ UNCHANGED state

(* What goes with each CONNFAILED. *)
NotifyUsersOfConnectionFailed(p) ==
    /\ state' = Set(p, p, "FAILED")
    /\ timedOut' = timedOut \cup {p}

(* The others are told, and connectionUpdate returns a failure. *)
FailConnection(p) ==
    /\ NotifyUsersOfConnectionFailed(p)
    /\ natState' = [natState EXCEPT ![p] = "FAILED"]
    /\ inbox' = [Post(Others(p), ConnFailed(p)) EXCEPT ![p] = <<>>]
    /\ UNCHANGED <<roundVars, portKnown, probes, expired, heard, skipped, setup, lost>>

(* connectionUpdate: too many retries, after some seconds. *)
TooManyRetries(p) ==
    /\ Active(p)
    /\ ProbeDue(p)
    /\ ~RetriesLeft(p)
    /\ Passed(Quiet)
    /\ FailConnection(p)

(* connectionUpdate: no port from the target for 15 seconds. *)
PortTimeout(p) ==
    /\ Active(p)
    /\ state[p][p] = "WAITINGFORMANGLEDPORT"
    /\ Passed(LongQuiet)
    /\ FailConnection(p)

(* update: the round takes too long, and from then on at each update.  The  *)
(* next update acts upon it, unless the message between them undoes it.     *)
RoundTimeout(p) ==
    /\ Active(p)
    /\ IF expired[p] = "no" THEN Passed(LongQuiet) ELSE UNCHANGED late
    /\ NotifyUsersOfConnectionFailed(p)
    /\ expired' = [expired EXCEPT ![p] = "now"]
    /\ inbox' = Post(Others(p), ConnFailed(p))
    /\ UNCHANGED <<natState, roundVars, portKnown, probes, heard, skipped, setup, lost>>

(* update: the failure that an update has noted because the round takes too *)
(* long; as it still does, the others are told again.  A probe that is      *)
(* taken in this very update is left out: it counts as lost.                *)
Fail(p) ==
    /\ natState[p] = "CONNECTING"
    /\ ~AllConnectionsDoneThisRound(p)
    /\ state[p][p] = "FAILED"
    /\ FailConnection(p)
    /\ UNCHANGED late

(* A probe is lost. *)
Lose(h) ==
    /\ lost < setup.lost
    /\ lost' = lost + 1
    /\ probes' = probes \ {h}
    /\ UNCHANGED <<natState, roundVars, state, portKnown, inbox, expired, history, setup, late>>

-----------------------------------------------------------------------------
(* Plausible bug: several messages between two updates. *)
ListensOn(p) ==
    /\ natState[p] = "CONNECTING"
    /\ expired[p] # "read"
    /\ inbox[p] # <<>>

(* Each update is followed by one message of the chat server at most, so    *)
(* one that ends the round is the last of it, and one at most comes between *)
(* a round timeout and the next update.                                     *)
Listens(p) ==
    /\ natState[p] = "CONNECTING"
    /\ ~AllConnectionsDoneThisRound(p)
    /\ expired[p] # "read"
    /\ inbox[p] # <<>>

Rest(p) == [inbox EXCEPT ![p] = Tail(@)]

(* sendAProbe and notifyTargetOfProbe, to a port that is right or not. *)
AnswerWithProbe(p, q, known) ==
    /\ probes' = probes \cup (IF known THEN {<<p, q>>} ELSE {})
    /\ state' = Set(p, p, "WAITINGFORRESPONSE")
    /\ inbox' = [Post({q}, Probed(p)) EXCEPT ![p] = Tail(inbox[p])]
    /\ skipped' = IF state[p][p] = "WAITINGFORMANGLERRESPONSE" THEN skipped \cup {p} ELSE skipped

Ignore(p) == inbox' = Rest(p) /\ UNCHANGED <<state, probes, skipped>>

GotMangledPort(p, m) ==
    /\ m.type = "PORT"
    /\ IF state[p][p] = "DONE" \/ m.src # Target(p)
         THEN Ignore(p) /\ UNCHANGED portKnown
         ELSE /\ portKnown' = [portKnown EXCEPT ![p] = IF m.good THEN @ \cup {m.src} ELSE @ \ {m.src}]
              /\ IF p \notin Netgear \/ beenProbed[p] \/ m.src \in Netgear
                   THEN AnswerWithProbe(p, m.src, m.good)
                   ELSE Ignore(p)
    /\ UNCHANGED beenProbed

(* probed: the first time a netgear is, it may probe itself. *)
GotProbed(p, m) ==
    /\ m.type = "PROBED"
    /\ beenProbed' = [beenProbed EXCEPT ![p] = @ \/ m.src = Target(p)]
    /\ IF m.src = Target(p) /\ ~beenProbed[p] /\ p \in Netgear
         THEN AnswerWithProbe(p, m.src, m.src \in portKnown[p])
         ELSE Ignore(p)
    /\ UNCHANGED portKnown

(* Plausible bug: the word of another round counts. *)
GotConnDoneOfAnyRound(p, m) ==
    /\ m.type = "CONNDONE"
    /\ state' = Set(p, m.node, "DONE")
    /\ inbox' = Rest(p)
    /\ UNCHANGED <<beenProbed, portKnown, probes, skipped>>

(* A connection of this round is done, as the node at its other end says. *)
GotConnDone(p, m) ==
    /\ m.type = "CONNDONE"
    /\ state' = IF Partner(N, round[p], m.node) = m.src THEN Set(p, m.node, "DONE") ELSE state
    /\ inbox' = Rest(p)
    /\ UNCHANGED <<beenProbed, portKnown, probes, skipped>>

GotConnFailed(p, m) ==
    /\ m.type = "CONNFAILED"
    /\ state' = Set(p, m.node, "FAILED")
    /\ inbox' = Rest(p)
    /\ UNCHANGED <<beenProbed, portKnown, probes, skipped>>

ProcessGlobalMessage(p) ==
    /\ Listens(p)
    /\ LET m == Head(inbox[p])
       IN  GotMangledPort(p, m) \/ GotProbed(p, m) \/ GotConnDone(p, m) \/ GotConnFailed(p, m)
    /\ expired' = [expired EXCEPT ![p] = IF @ = "now" THEN "read" ELSE @]
    /\ UNCHANGED <<natState, round, numRetries, noRetry, previousKnown, sourceKnown, heard, timedOut, faults>>

-----------------------------------------------------------------------------
Next ==
    \/ \E p \in Node :
          \/ EstablishConnectionPaths(p)
          \/ NextRound(p) \/ LastRound(p) \/ Fail(p)
          \/ ResendPort(p) \/ ReceiveProbe(p) \/ ProbeTarget(p) \/ ManglerResponse(p)
          \/ TooManyRetries(p) \/ PortTimeout(p) \/ RoundTimeout(p)
          \/ ProcessGlobalMessage(p)
    \/ \E h \in probes : Lose(h)

Spec == Init /\ [][Next]_vars

(* The menu updates each node every frame, every update does all of this,   *)
(* and time passes.                                                         *)
Fairness ==
    \A p \in Node :
        /\ WF_vars(EstablishConnectionPaths(p))
        /\ WF_vars(NextRound(p) \/ LastRound(p) \/ Fail(p))
        /\ WF_vars(ResendPort(p))
        /\ WF_vars(ReceiveProbe(p))
        /\ WF_vars(ProbeTarget(p))
        /\ WF_vars(ManglerResponse(p))
        /\ WF_vars(Quiet /\ TooManyRetries(p))
        /\ WF_vars(LongQuiet /\ PortTimeout(p))
        /\ WF_vars((LongQuiet \/ expired[p] # "no") /\ RoundTimeout(p))
        /\ WF_vars(ProcessGlobalMessage(p))

FairSpec == Spec /\ Fairness

-----------------------------------------------------------------------------
Message ==
    [type : {"PORT", "PROBED", "CONNDONE", "CONNFAILED"}, node : Node, src : Node, good : BOOLEAN]

(* Type invariant: the rounds, states and messages that NAT.h and NAT.cpp   *)
(* know, never more probes than the retries allow.                          *)
TypeOK ==
    /\ setup \in Setups
    /\ natState \in [Node -> {"IDLE", "CONNECTING", "DONE", "FAILED"}]
    /\ round \in [Node -> 0 .. RequiredRounds(N) - 1]
    /\ state \in [Node -> [Node -> {"NOSTATE", "DONE", "FAILED", "WAITINGFORRESPONSE",
                                    "WAITINGFORMANGLERRESPONSE", "WAITINGFORMANGLEDPORT"}]]
    /\ beenProbed \in [Node -> BOOLEAN]
    /\ numRetries \in [Node -> 0 .. MaxRetries + 1]
    /\ noRetry \in [Node -> BOOLEAN]
    /\ previousKnown \in [Node -> BOOLEAN]
    /\ sourceKnown \in [Node -> BOOLEAN]
    /\ portKnown \in [Node -> SUBSET Node]
    /\ inbox \in [Node -> Seq(Message)]
    /\ probes \subseteq Node \X Node
    /\ heard \in [Node -> SUBSET Node]
    /\ expired \in [Node -> {"no", "now", "read"}]
    /\ timedOut \subseteq Node
    /\ skipped \subseteq Mangled
    /\ lost \in 0 .. setup.lost
    /\ late \in 0 .. setup.late

(* Nobody takes a connection of its round for done that is not: whoever it  *)
(* thinks is done has been heard by its partner of this round, however far  *)
(* apart the nodes are in their rounds.                                     *)
DoneWhenHeard ==
    \A p, q \in Node :
        LET t == Partner(N, round[p], q)
        IN  natState[p] = "CONNECTING" /\ state[p][q] = "DONE" /\ t # -1 => q \in heard[t]

(* The word that a connection is done comes once, and one of a later round  *)
(* is ignored: unless somebody has failed, who is still in a round has the  *)
(* word of each of its finished pairs, or will read it in this round.  Not  *)
(* so where two netgears meet: a first PROBED that comes when all is done   *)
(* makes the node wait again (probed).                                      *)
NoneForgotten ==
    timedOut = {} /\ (\A p, q \in Netgear : p = q) =>
        \A p, q \in Node :
            LET t == Partner(N, round[p], q)
            IN  natState[p] = "CONNECTING" /\ t # -1 /\ q \in heard[t] =>
                  \/ state[p][q] = "DONE"
                  \/ \E i \in DOMAIN inbox[p] : inbox[p][i] = ConnDone(q, t)

(* Who goes on to the game without a failure knows the port of every other  *)
(* player, and every other player has heard it.                             *)
AllKnowWhere ==
    \A p \in Node : natState[p] = "DONE" =>
        /\ p \notin timedOut => \A q \in Others(p) : p \in heard[q]
        /\ timedOut \cup skipped = {} => portKnown[p] = Others(p)

(* Nobody waits in the negotiation for ever, whoever fails and whatever is  *)
(* lost: each node ends it with success or failure.                         *)
NobodyHangs == <>[](\A p \in Node : natState[p] \in {"DONE", "FAILED"})

(* Whatever is lost a retry makes up for, but a netgear makes none where    *)
(* the target has to probe first.                                           *)
Undisturbed == late = 0 /\ (lost = 0 \/ Netgear = {})

(* Who waits for the mangler tells its port to its target in the same round,*)
(* when no timeout fires too early and no more is lost than the retries     *)
(* make up for; NAT.cpp:724, "find the next mangled source port, and then   *)
(* send it to the other player.  if this requires talking to the mangler,   *)
(* we'll have to wait till a later update to send our port out".            *)
PortIsSent ==
    []Undisturbed =>
        \A p \in Node, r \in 0 .. RequiredRounds(N) - 1 :
            (state[p][p] = "WAITINGFORMANGLERRESPONSE" /\ round[p] = r)
                ~> (sourceKnown[p] /\ round[p] = r)

(* Every node gets through to every other one, whatever the mangler adds to *)
(* the waits and one lost probe to the retries, as long as nobody has its   *)
(* wait for the mangler's answer cut short by a message of its target (such *)
(* a node never tells its port: gotMangledPort).                            *)
ConnectsUnlessSkipped ==
    [](Undisturbed /\ skipped = {}) => <>(\A p \in Node : natState[p] = "DONE")

=============================================================================
