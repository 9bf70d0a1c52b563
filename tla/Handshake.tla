----------------------------- MODULE Handshake ------------------------------
(***************************************************************************)
(* The start of a connection: the exchange of "version" and "verack", the  *)
(* version each end writes and reads messages with, and the detection of a *)
(* connection to ourself by nLocalHostNonce.                               *)
(*                                                                         *)
(* A message is its command, the version it was written with, the nonce of *)
(* a "version", and in vRecvMsg the version it will be read with.  All     *)
(* later messages are one command, "other".  SocketFlow has the bytes.     *)
(* Time offset and addresses a "version" carries are left out.             *)
(***************************************************************************)
EXTENDS Integers, Sequences, FiniteSets

CONSTANTS
    Versions,                   \* values of PROTOCOL_VERSION
    INIT_PROTO_VERSION, MIN_PEER_PROTO_VERSION,
    MaxSent,                    \* bound: messages an end sends after its "verack"
    MaxOther                    \* bound: connections the programs open meanwhile

VARIABLES
    self,           \* whether both ends are in one program
    protocol,       \* PROTOCOL_VERSION of the program of an end
    node,           \* the CNode of an end
    wire,           \* messages on their way to an end
    vRecvMsg,       \* messages an end has received
    nLocalHostNonce,\* of the program of an end
    nonces,         \* the last nonce drawn; none is 0 or 1
    sent, others,
    repeated        \* history: an end has sent its version twice, which this program never does

vars ==
    <<self, protocol, node, wire, vRecvMsg, nLocalHostNonce, nonces, sent, others, repeated>>

End == {"out", "in"}        \* fInbound is true of the second
Peer(e) == IF e = "out" THEN "in" ELSE "out"
Program(e) == IF self THEN End ELSE {e}

HandshakeAssumption ==
    /\ Versions \subseteq Nat \ {0} /\ INIT_PROTO_VERSION \in Nat /\ MIN_PEER_PROTO_VERSION \in Nat
    /\ MaxSent \in Nat /\ MaxOther \in Nat

Least(m, n) == IF m < n THEN m ELSE n

TypeOK ==
    /\ self => protocol["in"] = protocol["out"]
    /\ \A e \in End : node[e].fSuccessfullyConnected => node[e].nVersion = protocol[Peer(e)]
    /\ nonces \in Nat /\ \A e \in End : nLocalHostNonce[e] <= nonces

-----------------------------------------------------------------------------

Message(command, version, nonce) ==
    [strCommand |-> command, written |-> version, nVersion |-> 0, nNonce |-> nonce]

\* CNode::PushMessage writes with the version of ssSend.  A "version" message
\* carries the version of the program.
Push(e, command) == Message(command, node[e].ssSend, 0)

\* CNode::PushVersion draws a new nonce for the whole program.
VersionMessage(e) ==
    [Message("version", node[e].ssSend, nonces + 1) EXCEPT !.nVersion = protocol[e]]

Drawn(e) ==
    /\ nonces' = nonces + 1
    /\ nLocalHostNonce' =
        [f \in End |-> IF f \in Program(e) THEN nonces + 1 ELSE nLocalHostNonce[f]]

CNode ==
    [nVersion |-> 0, nRecvVersion |-> INIT_PROTO_VERSION, ssSend |-> INIT_PROTO_VERSION,
     fSuccessfullyConnected |-> FALSE, fDisconnect |-> FALSE, nMisbehavior |-> 0]

\* The outbound end sends its version when it is constructed; the inbound end is
\* "shy" and waits.
Init ==
    /\ self \in BOOLEAN
    /\ protocol \in [End -> Versions] /\ (self => protocol["in"] = protocol["out"])
    /\ node = [e \in End |-> CNode]
    /\ wire = [out |-> <<>>,
               in |-> <<[Message("version", INIT_PROTO_VERSION, 2)
                            EXCEPT !.nVersion = protocol["out"]]>>]
    /\ vRecvMsg = [e \in End |-> <<>>]
    /\ nonces = 2
    /\ nLocalHostNonce = [e \in End |-> IF self \/ e = "out" THEN 2 ELSE 0]
    /\ sent = [e \in End |-> 0] /\ others = 0 /\ repeated = FALSE

\* ReceiveMsgBytes: a message is put into vRecvMsg with its first byte, to be read
\* with the version of that moment.
Receive(e) ==
    /\ wire[e] # <<>> /\ ~node[e].fDisconnect
    /\ vRecvMsg' = [vRecvMsg EXCEPT ![e] = Append(@, [msg |-> Head(wire[e]), read |-> node[e].nRecvVersion])]
    /\ wire' = [wire EXCEPT ![e] = Tail(@)]
    /\ UNCHANGED <<self, protocol, node, nLocalHostNonce, nonces, sent, others, repeated>>

FaultySetRecvVersion(queue, version) == queue
SetRecvVersion(queue, version) == [i \in DOMAIN queue |-> [queue[i] EXCEPT !.read = version]]

Misbehaving(e, howmuch) == node' = [node EXCEPT ![e].nMisbehavior = @ + howmuch]

\* The last step for a "version" message: the answers, in the old version, and
\* the new version for what follows.
FaultyAnswer(e) ==
    IF e = "in" THEN <<Push(e, "verack"), VersionMessage(e)>> ELSE <<Push(e, "verack")>>
Answer(e) ==
    IF e = "in" THEN <<VersionMessage(e), Push(e, "verack")>> ELSE <<Push(e, "verack")>>

Greeted(e, m) ==
    /\ wire' = [wire EXCEPT ![Peer(e)] = @ \o Answer(e)]
    /\ node' = [node EXCEPT ![e].nVersion = m.nVersion, ![e].fSuccessfullyConnected = TRUE,
                            ![e].ssSend = Least(m.nVersion, protocol[e])]
    /\ IF e = "in" THEN Drawn(e) ELSE UNCHANGED <<nonces, nLocalHostNonce>>

FaultyIsSelf(e, nonce) == e = "in" /\ nonce = nLocalHostNonce[e] /\ nonce > 1
IsSelf(e, nonce) == nonce = nLocalHostNonce[e] /\ nonce > 1

\* ProcessMessage for "version".
Version(e, m) ==
    \/ /\ node[e].nVersion # 0
       /\ Misbehaving(e, 1)
       /\ wire' = [wire EXCEPT ![Peer(e)] = Append(@, Push(e, "reject"))]
       /\ UNCHANGED <<nLocalHostNonce, nonces>>
    \/ /\ node[e].nVersion = 0 /\ m.nVersion < MIN_PEER_PROTO_VERSION
       /\ node' = [node EXCEPT ![e].nVersion = m.nVersion, ![e].fDisconnect = TRUE]
       /\ wire' = [wire EXCEPT ![Peer(e)] = Append(@, Push(e, "reject"))]
       /\ UNCHANGED <<nLocalHostNonce, nonces>>
    \/ /\ node[e].nVersion = 0 /\ m.nVersion >= MIN_PEER_PROTO_VERSION
       /\ IsSelf(e, m.nNonce)
       /\ node' = [node EXCEPT ![e].nVersion = m.nVersion, ![e].fDisconnect = TRUE]
       /\ UNCHANGED <<wire, nLocalHostNonce, nonces>>
    \/ /\ node[e].nVersion = 0 /\ m.nVersion >= MIN_PEER_PROTO_VERSION
       /\ ~IsSelf(e, m.nNonce)
       /\ Greeted(e, m)

\* ProcessMessages and ProcessMessage for the first message of vRecvMsg.
Process(e) ==
    /\ vRecvMsg[e] # <<>> /\ ~node[e].fDisconnect
    /\ LET m == Head(vRecvMsg[e]).msg
           rest == Tail(vRecvMsg[e])
       IN  \/ /\ m.strCommand = "version"
              /\ Version(e, m)
              /\ vRecvMsg' = [vRecvMsg EXCEPT ![e] = rest]
           \/ /\ m.strCommand # "version" /\ node[e].nVersion = 0
              /\ Misbehaving(e, 1)
              /\ vRecvMsg' = [vRecvMsg EXCEPT ![e] = rest]
              /\ UNCHANGED <<wire, nLocalHostNonce, nonces>>
           \/ /\ m.strCommand = "verack" /\ node[e].nVersion # 0
              /\ LET version == Least(node[e].nVersion, protocol[e])
                 IN  /\ node' = [node EXCEPT ![e].nRecvVersion = version]
                     /\ vRecvMsg' = [vRecvMsg EXCEPT ![e] = SetRecvVersion(rest, version)]
              /\ UNCHANGED <<wire, nLocalHostNonce, nonces>>
           \/ /\ m.strCommand \in {"other", "reject"} /\ node[e].nVersion # 0
              /\ vRecvMsg' = [vRecvMsg EXCEPT ![e] = rest]
              /\ UNCHANGED <<node, wire, nLocalHostNonce, nonces>>
    /\ UNCHANGED <<self, protocol, sent, others, repeated>>

\* SendMessages, and what handlers push, once the version of the peer is known.
SendMessages(e) ==
    /\ node[e].nVersion # 0 /\ ~node[e].fDisconnect
    /\ sent[e] < MaxSent /\ sent' = [sent EXCEPT ![e] = @ + 1]
    /\ wire' = [wire EXCEPT ![Peer(e)] = Append(@, Push(e, "other"))]
    /\ UNCHANGED <<self, protocol, node, vRecvMsg, nLocalHostNonce, nonces, others, repeated>>

\* Another implementation sends its version again.
Repeat(e) ==
    /\ ~self /\ ~repeated /\ repeated' = TRUE
    /\ node[e].fSuccessfullyConnected /\ ~node[e].fDisconnect
    /\ wire' = [wire EXCEPT ![Peer(e)] =
                   Append(@, [Push(e, "version") EXCEPT !.nVersion = protocol[e]])]
    /\ UNCHANGED <<self, protocol, node, vRecvMsg, nLocalHostNonce, nonces, sent, others>>

\* ThreadOpenConnections opens another connection, which draws a nonce.
OpenOther(e) ==
    /\ others < MaxOther /\ others' = others + 1
    /\ Drawn(e)
    /\ UNCHANGED <<self, protocol, node, wire, vRecvMsg, sent, repeated>>

\* The other end has closed its socket and everything it sent is received.
Closed(e) ==
    /\ node[Peer(e)].fDisconnect /\ ~node[e].fDisconnect /\ wire[e] = <<>>
    /\ node' = [node EXCEPT ![e].fDisconnect = TRUE]
    /\ UNCHANGED <<self, protocol, wire, vRecvMsg, nLocalHostNonce, nonces, sent, others, repeated>>

Next ==
    \E e \in End :
        \/ Receive(e) \/ Process(e) \/ SendMessages(e) \/ Repeat(e) \/ OpenOther(e) \/ Closed(e)

Spec == Init /\ [][Next]_vars

-----------------------------------------------------------------------------

\* CNode::SetRecvVersion, ssSend.SetVersion: each message is read with the
\* version it was written with, also when it came before the "verack" was
\* processed.
ReadAsWritten ==
    \A e \in End : vRecvMsg[e] # <<>> /\ ~node[e].fDisconnect =>
        Head(vRecvMsg[e]).read = Head(vRecvMsg[e]).msg.written

\* Two programs that accept each other's version never find each other to
\* misbehave: nothing comes before the "version", which comes once.
NotPunished ==
    ~repeated /\ (\A e \in End : protocol[e] >= MIN_PEER_PROTO_VERSION) =>
        \A e \in End : node[e].nMisbehavior = 0

\* "Disconnect if we connected to ourself": unless two other connections were
\* opened during the exchange, each replacing the nonce, one end notices; and a
\* connection to another program is not taken for one to ourself.
SelfDetected ==
    /\ self /\ (\A e \in End : node[e].fSuccessfullyConnected) => others >= 2
    /\ ~self => \A e \in End :
        node[e].fDisconnect => \E f \in End : protocol[f] < MIN_PEER_PROTO_VERSION
=============================================================================
