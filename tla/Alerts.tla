------------------------------- MODULE Alerts -------------------------------
(***************************************************************************)
(* Alerts: signed messages of the developers that every node keeps in      *)
(* mapAlerts, shows, and relays to its peers.  An alert may cancel others. *)
(*                                                                         *)
(* An alert is its place in cancellation and who it applies to; texts are  *)
(* left out, and all signatures are right, which CheckSignature checks.    *)
(* A connection is a pair of nodes; greeted tells which ends have the      *)
(* other's version.  Clocks agree.                                         *)
(***************************************************************************)
EXTENDS Integers, Sequences, FiniteSets

CONSTANTS
    Node, Alert,
    nID, nCancel, setCancel,    \* of an alert
    MaxId,                      \* the nID reserved for "alert key compromised"
    WellFormed,                 \* alerts with the form an alert with that nID must have
    AppliesTo,                  \* the nodes whose version an alert applies to
    MaxConnects                 \* bound: connections made

VARIABLES
    mapAlerts,
    inEffect, relayUntil,       \* the alerts before their nExpiration, before their nRelayUntil
    up,                         \* the connections, as sets of two nodes
    greeted,                    \* <<n, m>>: n has the version of m
    setKnown,                   \* by n for its peer m
    wire,                       \* alerts on their way from n to m
    nMisbehavior,               \* by n of its peer m
    notified,                   \* history: how often n has notified of an alert
    injected,                   \* history: the alerts that have been sent out
    connects

alertVars == <<mapAlerts, inEffect, relayUntil, up, greeted, setKnown, wire, nMisbehavior,
               notified, injected, connects>>

Pairs == {p \in Node \X Node : p[1] # p[2]}

AlertsAssumption ==
    /\ nID \in [Alert -> Nat] /\ nCancel \in [Alert -> Nat] /\ setCancel \in [Alert -> SUBSET Nat]
    /\ \A a \in Alert : AppliesTo[a] \subseteq Node
    /\ WellFormed \subseteq Alert /\ MaxConnects \in Nat

AlertsOK ==
    /\ \A p \in Pairs : {wire[p][i] : i \in DOMAIN wire[p]} \subseteq setKnown[p]
    /\ \A p \in greeted : {p[1], p[2]} \in up
    /\ \A n \in Node : mapAlerts[n] \subseteq injected

AlertsInit ==
    /\ mapAlerts = [n \in Node |-> {}]
    /\ inEffect = Alert /\ relayUntil = Alert
    /\ up = {} /\ greeted = {}
    /\ setKnown = [p \in Pairs |-> {}] /\ wire = [p \in Pairs |-> <<>>]
    /\ nMisbehavior = [p \in Pairs |-> 0]
    /\ notified = [n \in Node |-> [a \in Alert |-> 0]]
    /\ injected = {} /\ connects = 0

-----------------------------------------------------------------------------

Cancels(a, b) == a \in inEffect /\ (nID[b] <= nCancel[a] \/ nID[b] \in setCancel[a])

Relays(n, m, a) == m \in AppliesTo[a] \/ n \in AppliesTo[a] \/ a \in relayUntil

\* RelayTo, from n to all its peers: an alert goes to each at most once.  "knows"
\* is what n knows of its peers, "sent" what is on its way.
FaultyRelayTo(n, a, knows, sent) ==
    /\ setKnown' = knows
    /\ wire' = [p \in Pairs |->
        IF p[1] = n /\ p \in greeted /\ a \in inEffect \ knows[p] /\ Relays(n, p[2], a)
        THEN Append(sent[p], a) ELSE sent[p]]
RelayTo(n, a, knows, sent) ==
    LET new == {p \in greeted : p[1] = n /\ a \in inEffect \ knows[p]}
    IN  /\ setKnown' = [p \in Pairs |-> IF p \in new THEN knows[p] \cup {a} ELSE knows[p]]
        /\ wire' = [p \in Pairs |-> IF p \in new /\ Relays(n, p[2], a)
                                    THEN Append(sent[p], a) ELSE sent[p]]

Acceptable(a) == a \in inEffect /\ (nID[a] = MaxId => a \in WellFormed)

FaultyRemaining(n, a) == {b \in mapAlerts[n] : b \in inEffect}
Remaining(n, a) == {b \in mapAlerts[n] : ~Cancels(a, b) /\ b \in inEffect}

\* ProcessAlert: an alert removes what it cancels even when it is refused because
\* another has cancelled it.
ProcessAlert(n, a) ==
    /\ Acceptable(a)
    /\ ~\E b \in Remaining(n, a) : Cancels(b, a)

Kept(n, a) ==
    IF ~Acceptable(a) THEN mapAlerts[n]
    ELSE Remaining(n, a) \cup (IF ProcessAlert(n, a) THEN {a} ELSE {})

Processed(n, a) ==
    /\ mapAlerts' = [mapAlerts EXCEPT ![n] = Kept(n, a)]
    /\ notified' = IF ProcessAlert(n, a) /\ n \in AppliesTo[a]
                   THEN [notified EXCEPT ![n][a] = @ + 1] ELSE notified

\* The developers send an alert to one node.
Inject(n, a) ==
    /\ a \notin injected /\ injected' = injected \cup {a}
    /\ Processed(n, a)
    /\ IF ProcessAlert(n, a) THEN RelayTo(n, a, setKnown, wire) ELSE UNCHANGED <<setKnown, wire>>
    /\ UNCHANGED <<inEffect, relayUntil, up, greeted, nMisbehavior, connects>>

\* ProcessMessage for "alert".  An alert that the sender is known to have is
\* ignored.
Deliver(p) ==
    /\ wire[p] # <<>> /\ <<p[2], p[1]>> \in greeted
    /\ LET a == Head(wire[p])
           n == p[2]
           back == <<p[2], p[1]>>
           received == [wire EXCEPT ![p] = Tail(@)]
       IN  \/ /\ a \in setKnown[back]
              /\ wire' = received
              /\ UNCHANGED <<mapAlerts, notified, setKnown, nMisbehavior>>
           \/ /\ a \notin setKnown[back] /\ ProcessAlert(n, a)
              /\ Processed(n, a)
              /\ RelayTo(n, a, [setKnown EXCEPT ![back] = @ \cup {a}], received)
              /\ UNCHANGED nMisbehavior
           \/ /\ a \notin setKnown[back] /\ ~ProcessAlert(n, a)
              /\ Processed(n, a)
              /\ nMisbehavior' = [nMisbehavior EXCEPT ![back] = @ + 10]
              /\ wire' = received
              /\ UNCHANGED setKnown
    /\ UNCHANGED <<inEffect, relayUntil, up, greeted, injected, connects>>

-----------------------------------------------------------------------------

Connect(p) ==
    /\ {p[1], p[2]} \notin up /\ connects < MaxConnects
    /\ up' = up \cup {{p[1], p[2]}} /\ connects' = connects + 1
    /\ UNCHANGED <<mapAlerts, inEffect, relayUntil, greeted, setKnown, wire, nMisbehavior,
                   notified, injected>>

\* The alerts in the order of mapAlerts.
Listed(alerts) ==
    CHOOSE s \in [1 .. Cardinality(alerts) -> alerts] : \A a \in alerts : \E i \in DOMAIN s : s[i] = a

\* The last part of ProcessMessage for "version": the alerts go to the new peer.
Greet(p) ==
    /\ {p[1], p[2]} \in up /\ p \notin greeted
    /\ greeted' = greeted \cup {p}
    /\ LET alerts == mapAlerts[p[1]] \cap inEffect
       IN  /\ setKnown' = [setKnown EXCEPT ![p] = @ \cup alerts]
           /\ wire' = [wire EXCEPT ![p] =
                @ \o Listed({a \in alerts \ setKnown[p] : Relays(p[1], p[2], a)})]
    /\ UNCHANGED <<mapAlerts, inEffect, relayUntil, up, nMisbehavior, notified, injected, connects>>

Disconnect(c) ==
    /\ c \in up /\ up' = up \ {c}
    /\ LET gone == {p \in Pairs : {p[1], p[2]} = c}
       IN  /\ greeted' = greeted \ gone
           /\ setKnown' = [p \in Pairs |-> IF p \in gone THEN {} ELSE setKnown[p]]
           /\ wire' = [p \in Pairs |-> IF p \in gone THEN <<>> ELSE wire[p]]
           /\ nMisbehavior' = [p \in Pairs |-> IF p \in gone THEN 0 ELSE nMisbehavior[p]]
    /\ UNCHANGED <<mapAlerts, inEffect, relayUntil, notified, injected, connects>>

\* Time passes an alert's nRelayUntil, and later its nExpiration.
Pass(a) ==
    \/ /\ a \in relayUntil /\ relayUntil' = relayUntil \ {a}
       /\ UNCHANGED inEffect
    \/ /\ a \notin relayUntil /\ a \in inEffect /\ inEffect' = inEffect \ {a}
       /\ UNCHANGED relayUntil

ExpireAlert(a) ==
    /\ a \in injected /\ Pass(a)
    /\ UNCHANGED <<mapAlerts, up, greeted, setKnown, wire, nMisbehavior, notified, injected, connects>>

AlertsNext ==
    \/ \E n \in Node, a \in Alert : Inject(n, a)
    \/ \E p \in Pairs : Deliver(p) \/ Connect(p) \/ Greet(p)
    \/ \E c \in up : Disconnect(c)
    \/ \E a \in Alert : ExpireAlert(a)

AlertsSpec == AlertsInit /\ [][AlertsNext]_alertVars

-----------------------------------------------------------------------------

\* No alert a node shows is cancelled by another it shows (ProcessAlert).
NoneCancelled ==
    \A n \in Node : \A a, b \in mapAlerts[n] : a # b => ~Cancels(a, b)

\* What is relayed arrives: when nothing is on its way and nothing has expired,
\* each of two connected nodes has the alerts of the other that apply to it, or
\* one that cancels them.
Arrives ==
    inEffect = Alert /\ (\A p \in Pairs : wire[p] = <<>>) =>
        \A p \in greeted : <<p[2], p[1]>> \in greeted =>
            \A a \in mapAlerts[p[1]] \cap inEffect :
                p[2] \in AppliesTo[a] =>
                    a \in mapAlerts[p[2]] \/ \E b \in mapAlerts[p[2]] : Cancels(b, a)

\* However many peers send it an alert, a node notifies its user once, as long as
\* nothing has expired.
NotifiedOnce ==
    inEffect = Alert => \A n \in Node, a \in Alert : notified[n][a] <= 1
=============================================================================
