------------------------------ MODULE MCPeers -------------------------------
(***************************************************************************)
(* SocketFlow, AddrMan, Handshake, Keepalive, Alerts and, extended,        *)
(* RpcServer and NodeLifecycle on small instances.  They share nothing     *)
(* here: a behaviour is one of a single scene, and the other modules keep  *)
(* their initial state.                                                    *)
(***************************************************************************)
EXTENDS RpcServer, NodeLifecycle, Sequences, TLC

CONSTANTS Scenes, n1, n2, n3

VARIABLES
    scene,
    out, recv, getdata, got, started,
    mapInfo, vRandom, nNew, nTried, vvNew, vvTried,
    self, protocol, hNode, hWire, hRecv, nLocalHostNonce, nonces, hSent, others, repeated,
    peer, modern, now, kNode, nonce, starting, kWire, kRecv, ran, asked, took,
    mapAlerts, inEffect, relayUntil, up, greeted, setKnown, aWire, nMisbehavior, notified,
    injected, connects

flowVars == <<out, recv, getdata, got, started>>
addrVars == <<mapInfo, vRandom, nNew, nTried, vvNew, vvTried>>
greetVars ==
    <<self, protocol, hNode, hWire, hRecv, nLocalHostNonce, nonces, hSent, others, repeated>>
pingVars == <<peer, modern, now, kNode, nonce, starting, kWire, kRecv, ran, asked, took>>
alertVars ==
    <<mapAlerts, inEffect, relayUntil, up, greeted, setKnown, aWire, nMisbehavior, notified,
      injected, connects>>

-----------------------------------------------------------------------------
(* Nodes: "threads" has callers from a2 and one opener, as with -connect,   *)
(* that dials a1 by name, with a grant or without.  "openers" has two that  *)
(* dial a1 by address, one of which also dials a2 by name in both ways, and *)
(* no messages.                                                             *)

Nobody == [o \in Opener |-> {}]
FirstDials == [Nobody EXCEPT !["o1"] = {"a1"}]
BothDial == [o \in Opener |-> {"a1"}]
SecondNames == [Nobody EXCEPT !["o2"] = {"a2"}]

Threads == INSTANCE NodeLifecycle WITH
    Targets <- Nobody, Names <- FirstDials, Direct <- FirstDials

Openers == INSTANCE NodeLifecycle

-----------------------------------------------------------------------------
(* Flow: a asks for blocks and pings, b also speaks of itself.              *)

MessageSize == "verack" :> 0 @@ "ping" :> 1 @@ "pong" :> 1 @@ "getdata" :> 1 @@ "block" :> 2
Kinds == DOMAIN MessageSize

MessageItems == [k \in Kinds |-> IF k = "getdata" THEN 3 ELSE 0]
MessageReply == [k \in Kinds |-> IF k = "ping" THEN "pong" ELSE None]
Speaks == "a" :> {"getdata", "ping"} @@ "b" :> {"verack"}

Flow == INSTANCE SocketFlow WITH
    End <- {"a", "b"}, Size <- MessageSize,
    Items <- MessageItems, Reply <- MessageReply, Block <- "block", Starts <- Speaks,
    HeaderSize <- 2, Wire <- 3, SendBufferSize <- 5, ReceiveFloodSize <- 3, MaxSent <- 2

-----------------------------------------------------------------------------
(* Addresses: the source decides the new bucket, but for a3, which both     *)
(* place in b2.  "tables" has buckets of one, "shuffle" of two.             *)

Heard == {"a1", "a2", "a3"}
NewHash == [p \in Heard \X {"s1", "s2"} |-> IF p[2] = "s1" /\ p[1] # "a3" THEN "b1" ELSE "b2"]
TriedHash == [a \in Heard |-> "k1"]

Tables == INSTANCE AddrMan WITH
    Addr <- Heard, Source <- {"s1", "s2"}, NewBucket <- {"b1", "b2"}, TriedBucket <- {"k1"},
    GetNewBucket <- NewHash, GetTriedBucket <- TriedHash, NewBucketSize <- 1,
    TriedBucketSize <- 1, BucketsPerAddress <- 2, Inspect <- 2, GetAddrPct <- 50, MaxTime <- 2

Shuffle == INSTANCE AddrMan WITH
    Addr <- Heard, Source <- {"s1", "s2"}, NewBucket <- {"b1", "b2"}, TriedBucket <- {"k1"},
    GetNewBucket <- NewHash, GetTriedBucket <- TriedHash, NewBucketSize <- 2,
    TriedBucketSize <- 2, BucketsPerAddress <- 2, Inspect <- 2, GetAddrPct <- 50, MaxTime <- 2

-----------------------------------------------------------------------------
(* Sessions: programs of three versions, the first of them too old; the     *)
(* pings of a connection over two time-outs.                                *)

Greeting == INSTANCE Handshake WITH
    Versions <- {1, 3, 4}, INIT_PROTO_VERSION <- 2, MIN_PEER_PROTO_VERSION <- 2,
    MaxSent <- 1, MaxOther <- 2, node <- hNode, wire <- hWire, vRecvMsg <- hRecv, sent <- hSent

Pings == INSTANCE Keepalive WITH
    PING_INTERVAL <- 1, TIMEOUT_INTERVAL <- 5, FirstTimeout <- 1, OldTimeout <- 7, Lag <- 1,
    Delay <- 1, MaxTime <- 11, MaxPings <- 2, node <- kNode, wire <- kWire, vRecvMsg <- kRecv

(* Alerts: a2 is the final alert, which has the highest nID and cancels all *)
(* others; a1 is for n3 only.                                               *)

AlertId == "a1" :> 1 @@ "a2" :> 2
AlertCancels == "a1" :> 0 @@ "a2" :> 1
CancelsNone == [a \in {"a1", "a2"} |-> {}]
AlertFor == "a1" :> {n3} @@ "a2" :> {n1, n2, n3}

News == INSTANCE Alerts WITH
    Node <- {n1, n2, n3}, Alert <- {"a1", "a2"}, nID <- AlertId, nCancel <- AlertCancels,
    setCancel <- CancelsNone, MaxId <- 2, WellFormed <- {"a2"}, AppliesTo <- AlertFor,
    MaxConnects <- 3, wire <- aWire

(* RPC: two calls of walletpassphrase, one of walletpassphrasechange and one *)
(* of walletlock, and a client that sends nothing, for two workers.          *)

CallKind ==
    "c1" :> "unlock" @@ "c2" :> "unlock" @@ "c3" :> "lock" @@ "c4" :> "change" @@ "c5" :> "idle"

ASSUME
    /\ Flow!FlowAssumption
    /\ Tables!AddrManAssumption /\ Shuffle!AddrManAssumption
    /\ Greeting!HandshakeAssumption /\ Pings!KeepaliveAssumption /\ News!AlertsAssumption

-----------------------------------------------------------------------------

(* Modules with several initial states start in one of them in the other    *)
(* scenes.                                                                  *)
PeersInit ==
    /\ scene \in Scenes
    /\ NodesInit /\ Flow!Init
    /\ IF scene = "shuffle" THEN Shuffle!Init ELSE Tables!Init
    /\ Greeting!Init
    /\ scene # "greeting" => ~self /\ protocol = [out |-> 3, in |-> 3]
    /\ Pings!Init
    /\ scene # "pings" => peer = "prompt" /\ modern
    /\ News!AlertsInit /\ Init

ThreadsNext ==
    /\ \/ scene = "threads" /\ Threads!NodesNext
       \/ scene = "openers" /\ Openers!NodesNext /\ UNCHANGED msg
    /\ UNCHANGED <<flowVars, addrVars, greetVars, pingVars, alertVars, vars>>

FlowNext ==
    /\ scene = "flow" /\ Flow!Next
    /\ UNCHANGED <<nodeVars, addrVars, greetVars, pingVars, alertVars, vars>>

AddrNext ==
    /\ \/ scene = "tables" /\ Tables!Next
       \/ scene = "shuffle" /\ Shuffle!Next
    /\ UNCHANGED <<nodeVars, flowVars, greetVars, pingVars, alertVars, vars>>

SessionNext ==
    /\ \/ scene = "greeting" /\ Greeting!Next /\ UNCHANGED pingVars
       \/ scene = "pings" /\ Pings!Next /\ UNCHANGED greetVars
    /\ UNCHANGED <<nodeVars, flowVars, addrVars, alertVars, vars>>

AlertNext ==
    /\ scene = "alerts" /\ News!AlertsNext
    /\ UNCHANGED <<nodeVars, flowVars, addrVars, greetVars, pingVars, vars>>

RpcNext ==
    /\ scene = "rpc" /\ Next
    /\ UNCHANGED <<nodeVars, flowVars, addrVars, greetVars, pingVars, alertVars>>

PeersNext ==
    /\ UNCHANGED scene
    /\ ThreadsNext \/ FlowNext \/ AddrNext \/ SessionNext \/ AlertNext \/ RpcNext

PeersSpec ==
    PeersInit
    /\ [][PeersNext]_<<scene, nodeVars, flowVars, addrVars, greetVars, pingVars, alertVars, vars>>

(* n1 and n2 are interchangeable; n3 has an alert of its own.               *)
Symmetry == Permutations({n1, n2})

-----------------------------------------------------------------------------
(* The properties, each of the module it comes from; RelockPending is the   *)
(* one of RpcServer and NodesSafe the one of NodeLifecycle.                 *)

(* ReceiveMsgBytes puts together what the other end sent, wherever the stream *)
(* was cut; nothing is lost between EndMessage and ProcessMessages, which    *)
(* answers in the order of the requests; and nSendSize and nSendOffset      *)
(* satisfy the assertions of SocketSendData. Sending, receiving or          *)
(* processing, `at least one of the following is always possible'           *)
(* (net.cpp:798).                                                           *)
StreamExact ==
    scene = "flow" =>
        /\ Flow!TypeOK /\ Flow!SendSizeExact /\ Flow!StreamExact /\ Flow!NothingLost
        /\ Flow!AnswersInOrder /\ Flow!OneIsPossible

(* CAddrMan::Check_ holds after every operation, the buckets stay within     *)
(* their sizes when MakeTried moves an entry back, and writing peers.dat    *)
(* and reading it brings back the same tables.                              *)
Check ==
    /\ scene = "tables" =>
        Tables!TypeOK /\ Tables!Check /\ Tables!BucketSizes /\ Tables!RoundTrip
    /\ scene = "shuffle" =>
        Shuffle!TypeOK /\ Shuffle!Check /\ Shuffle!BucketSizes /\ Shuffle!RoundTrip

(* From the first message on each end reads what the other wrote with the   *)
(* version it was written with, no two programs that accept each other's    *)
(* version find the other to misbehave, and a connection to ourself is      *)
(* noticed unless the nonce was replaced meanwhile. Later a peer that       *)
(* answers pings is kept, one that does not is dropped in time, and the     *)
(* ping time is that of the ping that was answered, in whatever order the   *)
(* message thread and the socket thread run.                                *)
SessionSound ==
    /\ scene = "greeting" =>
        /\ Greeting!TypeOK /\ Greeting!ReadAsWritten /\ Greeting!NotPunished
        /\ Greeting!SelfDetected
    /\ scene = "pings" =>
        Pings!TypeOK /\ Pings!PromptKept /\ Pings!OthersDropped /\ Pings!PingTimeExact

(* An alert reaches every connected node it applies to whatever connects,   *)
(* disconnects and cancels on the way, is notified once, and no node shows  *)
(* an alert together with one that cancels it.                              *)
AlertsSound ==
    scene = "alerts" => News!AlertsOK /\ News!NoneCancelled /\ News!Arrives /\ News!NotifiedOnce
=============================================================================
