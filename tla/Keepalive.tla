----------------------------- MODULE Keepalive ------------------------------
(***************************************************************************)
(* Pings and the inactivity checks of one connection.  The message thread  *)
(* sends a ping every PING_INTERVAL and when the user asks for one, and    *)
(* processes the answers; the socket thread sends and receives, and drops  *)
(* a connection that is inactive.  It reads the fields of the ping without *)
(* a lock.                                                                 *)
(*                                                                         *)
(* Time is a counter from 1.  Each thread comes round at least once in Lag *)
(* units of time.  The peer is "prompt" (it answers a ping within Delay,   *)
(* and one that does not know the nonce sends something now and then),     *)
(* "mute" (it sends no answers, but may send other messages), "silent" or  *)
(* "deaf" (nothing can be sent to it).                                     *)
(***************************************************************************)
EXTENDS Integers, Sequences, FiniteSets, SequencesExt

CONSTANTS
    PING_INTERVAL, TIMEOUT_INTERVAL,
    FirstTimeout,       \* "socket no message in first 60 seconds"
    OldTimeout,         \* 90*60, for a peer that does not know the nonce
    Lag, Delay,
    MaxTime, MaxPings   \* bounds: the time, and the pings the user asks for

VARIABLES
    peer, modern,       \* the kind of peer, and whether its nVersion > BIP0031_VERSION
    now,
    node,               \* the fields of the CNode
    nonce,              \* the last nonce used
    starting,           \* the message thread has set nPingUsecStart, but not nPingNonceSent
    wire,               \* pings on their way, with the times they were started and sent
    vRecvMsg,           \* answers received, with the time
    ran,                \* the time each thread last came round
    asked,
    took                \* history: how long the ping took that was answered last

vars == <<peer, modern, now, node, nonce, starting, wire, vRecvMsg, ran, asked, took>>

Thread == {"message", "socket"}

KeepaliveAssumption ==
    /\ {PING_INTERVAL, TIMEOUT_INTERVAL, FirstTimeout, OldTimeout, Lag, Delay} \subseteq Nat \ {0}
    /\ PING_INTERVAL + Delay + 2 * Lag < TIMEOUT_INTERVAL /\ TIMEOUT_INTERVAL < OldTimeout

TypeOK ==
    /\ peer \in {"prompt", "mute", "silent", "deaf"} /\ modern \in BOOLEAN
    /\ now \in 1 .. MaxTime /\ \A t \in Thread : ran[t] \in 1 .. now
    /\ node.nLastRecv <= now /\ node.nLastSend <= now /\ node.nPingUsecStart <= now
    /\ node.nPingNonceSent \in 0 .. nonce

\* The peer's version has been received at the start.
Init ==
    /\ peer \in {"prompt", "mute", "silent", "deaf"} /\ modern \in BOOLEAN
    /\ now = 1
    /\ node = [nTimeConnected |-> 1, nLastSend |-> IF peer = "deaf" THEN 0 ELSE 1, nLastRecv |-> 1,
               nPingNonceSent |-> 0, nPingUsecStart |-> 0, nPingUsecTime |-> 0,
               fPingQueued |-> FALSE, fDisconnect |-> FALSE]
    /\ nonce = 0 /\ starting = FALSE /\ wire = <<>> /\ vRecvMsg = <<>>
    /\ ran = [t \in Thread |-> 1] /\ asked = 0 /\ took = 0

-----------------------------------------------------------------------------
(* The message thread.                                                      *)

FaultyPingSend == node.fPingQueued \/ node.nPingUsecStart + PING_INTERVAL < now
PingSend ==
    \/ node.fPingQueued
    \/ node.nPingNonceSent = 0 /\ node.nPingUsecStart + PING_INTERVAL < now

\* SendMessages sets the start of the ping and then its nonce.
StartPing ==
    /\ ~starting /\ PingSend /\ ~node.fDisconnect
    /\ node' = [node EXCEPT !.fPingQueued = FALSE, !.nPingUsecStart = now]
    /\ starting' = TRUE
    /\ UNCHANGED <<peer, modern, now, nonce, wire, vRecvMsg, ran, asked, took>>

\* PushMessage tries to send at once.
SendPing ==
    /\ starting /\ ~node.fDisconnect
    /\ starting' = FALSE
    /\ nonce' = nonce + 1
    /\ node' = [node EXCEPT !.nPingNonceSent = IF modern THEN nonce + 1 ELSE 0,
                            !.nLastSend = IF peer = "deaf" THEN @ ELSE now]
    /\ wire' = IF peer = "deaf" \/ ~modern THEN wire ELSE
                 Append(wire, [nonce |-> nonce + 1, at |-> now, start |-> node.nPingUsecStart])
    /\ ran' = [ran EXCEPT !["message"] = now]
    /\ UNCHANGED <<peer, modern, now, vRecvMsg, asked, took>>

IdleMessages ==
    /\ ~starting /\ ~PingSend /\ vRecvMsg = <<>> /\ ran["message"] < now
    /\ ran' = [ran EXCEPT !["message"] = now]
    /\ UNCHANGED <<peer, modern, now, node, nonce, starting, wire, vRecvMsg, asked, took>>

\* ProcessMessage for "pong": an answer to an earlier ping is ignored.
FaultyAnswers(pong) == node.nPingNonceSent # 0
Answers(pong) == node.nPingNonceSent # 0 /\ pong.nonce = node.nPingNonceSent

Pong ==
    /\ ~starting /\ vRecvMsg # <<>> /\ ~node.fDisconnect
    /\ LET pong == Head(vRecvMsg)
       IN  IF Answers(pong)
           THEN /\ node' = [node EXCEPT !.nPingNonceSent = 0,
                                        !.nPingUsecTime = IF pong.at > node.nPingUsecStart
                                                          THEN pong.at - node.nPingUsecStart ELSE @]
                /\ took' = IF pong.at > pong.start THEN pong.at - pong.start ELSE took
           ELSE UNCHANGED <<node, took>>
    /\ vRecvMsg' = Tail(vRecvMsg)
    /\ UNCHANGED <<peer, modern, now, nonce, starting, wire, ran, asked>>

\* The RPC call "ping".
AskPing ==
    /\ asked < MaxPings /\ asked' = asked + 1
    /\ node' = [node EXCEPT !.fPingQueued = TRUE]
    /\ UNCHANGED <<peer, modern, now, nonce, starting, wire, vRecvMsg, ran, took>>

-----------------------------------------------------------------------------
(* The socket thread and the peer.                                          *)

\* The peer answers the first ping it has received.
Answer ==
    /\ wire # <<>> /\ peer = "prompt" /\ ~node.fDisconnect
    /\ vRecvMsg' =
        Append(vRecvMsg, [nonce |-> Head(wire).nonce, start |-> Head(wire).start, at |-> now])
    /\ wire' = Tail(wire)
    /\ node' = [node EXCEPT !.nLastRecv = now]
    /\ UNCHANGED <<peer, modern, now, nonce, starting, ran, asked, took>>

\* Any other message.
Receive ==
    /\ peer \in {"prompt", "mute"} /\ node.nLastRecv < now /\ ~node.fDisconnect
    /\ node' = [node EXCEPT !.nLastRecv = now]
    /\ UNCHANGED <<peer, modern, now, nonce, starting, wire, vRecvMsg, ran, asked, took>>

FaultyRecvTimeout == TIMEOUT_INTERVAL
RecvTimeout == IF modern THEN TIMEOUT_INTERVAL ELSE OldTimeout

FaultyInactive ==
    /\ now - node.nTimeConnected > FirstTimeout
    /\ \/ node.nLastRecv = 0 \/ node.nLastSend = 0
       \/ now - node.nLastRecv > RecvTimeout
Inactive ==
    /\ now - node.nTimeConnected > FirstTimeout
    /\ \/ node.nLastRecv = 0 \/ node.nLastSend = 0
       \/ now - node.nLastSend > TIMEOUT_INTERVAL
       \/ now - node.nLastRecv > RecvTimeout
       \/ node.nPingNonceSent # 0 /\ node.nPingUsecStart + TIMEOUT_INTERVAL < now

CheckInactivity ==
    /\ ~node.fDisconnect /\ (Inactive \/ ran["socket"] < now)
    /\ node' = [node EXCEPT !.fDisconnect = Inactive]
    /\ ran' = [ran EXCEPT !["socket"] = now]
    /\ UNCHANGED <<peer, modern, now, nonce, starting, wire, vRecvMsg, asked, took>>

\* Time passes as long as each thread has come round in time and a prompt peer
\* owes nothing.
Tick ==
    /\ now < MaxTime /\ now' = now + 1
    /\ \A t \in Thread : now - ran[t] < Lag
    /\ peer = "prompt" =>
        /\ \A i \in DOMAIN wire : now - wire[i].at < Delay
        /\ ~modern => now - node.nLastRecv < TIMEOUT_INTERVAL + 1
    /\ UNCHANGED <<peer, modern, node, nonce, starting, wire, vRecvMsg, ran, asked, took>>

Next ==
    \/ StartPing \/ SendPing \/ IdleMessages \/ Pong \/ AskPing
    \/ Answer \/ Receive \/ CheckInactivity \/ Tick

Spec == Init /\ [][Next]_vars

-----------------------------------------------------------------------------

\* A peer that answers is never dropped: neither inactivity check fires, whatever
\* the two threads interleave and however the pings of the user overlap.
PromptKept == peer = "prompt" => ~node.fDisconnect

\* A peer that does not answer is dropped within the time-outs.  A user who keeps
\* asking for pings restarts the time-out of the ping each time.
OthersDropped ==
    /\ peer = "deaf" /\ now > FirstTimeout + Lag + 1 => node.fDisconnect
    /\ peer = "silent" /\ now > RecvTimeout + Lag + 1 => node.fDisconnect
    /\ peer = "mute" /\ modern /\ asked = 0 /\ now > TIMEOUT_INTERVAL + 2 * Lag + PING_INTERVAL
        => node.fDisconnect

\* The ping time reported is that of the ping that was answered last, also with
\* overlapping pings.
PingTimeExact == node.nPingUsecTime = took
=============================================================================
