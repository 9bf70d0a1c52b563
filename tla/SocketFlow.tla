----------------------------- MODULE SocketFlow -----------------------------
(***************************************************************************)
(* Two nodes on one connection: the queue of messages to send (vSendMsg,   *)
(* nSendOffset, nSendSize), a TCP stream of bounded size in each direction *)
(* that delivers bytes in pieces of any size, the receive buffer that puts *)
(* messages together again (vRecvMsg) and the flow control between         *)
(* sending, receiving and processing.                                      *)
(***************************************************************************)
EXTENDS Integers, Sequences, SequencesExt

CONSTANTS
  End,             \* the two ends
  Size,            \* Size[k]: bytes of data of a message of kind k
  Items,           \* Items[k]: blocks a getdata message of kind k asks for, 0 for others
  Reply,           \* Reply[k]: the kind a message of kind k is answered with, or None
  Block,           \* the kind of the messages getdata is answered with
  Starts,          \* Starts[e]: the kinds end e sends of itself
  HeaderSize,      \* 24
  Wire,            \* bytes the stream holds in one direction
  SendBufferSize, ReceiveFloodSize,
  MaxSent,         \* bound on the messages an end sends of itself
  None

Kind == DOMAIN Size

FlowAssumption ==
  /\ \E a, b \in End : a # b /\ End = {a, b}
  /\ Size \in [Kind -> Nat] /\ Items \in [Kind -> Nat] /\ Block \in Kind
  /\ Reply \in [Kind -> Kind \cup {None}] /\ Starts \in [End -> SUBSET Kind]
  /\ {HeaderSize, Wire, SendBufferSize, MaxSent} \subseteq Nat \ {0}
  /\ ReceiveFloodSize \in Nat

VARIABLES
  out,      \* out[e]: [q, off, size, wire, sent], the sending side of end e
  recv,     \* recv[e]: vRecvMsg, each [hdr, kind, data]: header bytes, kind once known, data bytes
  getdata,  \* getdata[e]: the number of entries of vRecvGetData
  got,      \* got[e]: the messages end e has processed, in order
  started   \* started[e]: messages end e sent of itself

vars == <<out, recv, getdata, got, started>>

Other(e) == CHOOSE f \in End : f # e

Bytes(k) == HeaderSize + Size[k]

(* Bytes of the messages of a queue. *)
Total(q) == FoldLeft(LAMBDA n, k : n + Bytes(k), 0, q)

(* The bytes of a message as they go over the wire; the header names it. *)
Cells(k) == [i \in 1..Bytes(k) |-> <<k, i>>]

Init ==
  /\ out = [e \in End |-> [q |-> <<>>, off |-> 0, size |-> 0, wire |-> <<>>, sent |-> <<>>]]
  /\ recv = [e \in End |-> <<>>] /\ getdata = [e \in End |-> 0]
  /\ got = [e \in End |-> <<>>] /\ started = [e \in End |-> 0]

-----------------------------------------------------------------------------
(* Sending.                                                                 *)

(* Faulty variant: nSendOffset starts again with a partly sent message. *)
FaultyLeft(o, done, n) == [o EXCEPT !.q = SubSeq(@, done + 1, Len(@)),
                                    !.off = 0,
                                    !.size = @ - Total(SubSeq(o.q, 1, done))]

(* The queue after n bytes, which complete its first `done' messages. *)
Left(o, done, n) == [o EXCEPT !.q = SubSeq(@, done + 1, Len(@)),
                              !.off = o.off + n - Total(SubSeq(o.q, 1, done)),
                              !.size = @ - Total(SubSeq(o.q, 1, done))]

(* SocketSendData: messages are sent until the stream takes no more. *)
SocketSendData(o) ==
  LET n == Min({Total(o.q) - o.off, Wire - Len(o.wire)})
      done == Cardinality({j \in DOMAIN o.q : Total(SubSeq(o.q, 1, j)) <= o.off + n})
      bytes == FoldLeft(LAMBDA s, k : s \o Cells(k), <<>>, o.q)
  IN [Left(o, done, n) EXCEPT !.wire = @ \o SubSeq(bytes, o.off + 1, o.off + n)]

(* PushMessage and EndMessage: an empty queue attempts an optimistic write. *)
Pushed(o, k) ==
  LET p == [o EXCEPT !.q = Append(@, k), !.size = @ + Bytes(k), !.sent = Append(@, k)]
  IN IF o.q = <<>> THEN SocketSendData(p) ELSE p

(* SendMessages or another thread sends a message of its own. *)
Push(e) ==
  /\ started[e] < MaxSent
  /\ \E k \in Starts[e] : out' = [out EXCEPT ![e] = Pushed(@, k)]
  /\ started' = [started EXCEPT ![e] = @ + 1]
  /\ UNCHANGED <<recv, getdata, got>>

CanSend(e) == out[e].q # <<>> /\ Len(out[e].wire) < Wire

(* The socket thread selected the socket for sending. *)
Send(e) ==
  /\ CanSend(e)
  /\ out' = [out EXCEPT ![e] = SocketSendData(@)]
  /\ UNCHANGED <<recv, getdata, got, started>>

-----------------------------------------------------------------------------
(* Receiving.                                                               *)

complete(m) == m.hdr = HeaderSize /\ m.data = Size[m.kind]

FrontReady(q) == q # <<>> /\ complete(Head(q))

(* ReceiveMsgBytes: a byte goes to the header or the data of the last      *)
(* message, or to a new one if that is complete.                           *)
Absorb(q, c) ==
  LET fresh == q = <<>> \/ complete(Last(q))
      m == IF fresh THEN [hdr |-> 0, kind |-> None, data |-> 0] ELSE Last(q)
      n == IF m.hdr < HeaderSize
             THEN [m EXCEPT !.hdr = @ + 1,
                            !.kind = IF m.hdr + 1 = HeaderSize THEN c[1] ELSE None]
             ELSE [m EXCEPT !.data = @ + 1]
  IN IF fresh THEN Append(q, n) ELSE Append(Front(q), n)

(* GetTotalRecvSize: memory for the data is taken ahead with its first byte. *)
GetTotalRecvSize(q) ==
  FoldLeft(LAMBDA n, m : n + HeaderSize + (IF m.data > 0 THEN Size[m.kind] ELSE 0), 0, q)

(* Faulty variant: a message that is not complete does not lift the limit. *)
FaultySelected(e) ==
  out[e].q = <<>> /\ GetTotalRecvSize(recv[e]) <= ReceiveFloodSize

(* The socket is selected for receiving: nothing waits to be sent, and no   *)
(* complete message is ready or there is space left.                       *)
Selected(e) ==
  /\ out[e].q = <<>>
  /\ ~FrontReady(recv[e]) \/ GetTotalRecvSize(recv[e]) <= ReceiveFloodSize

CanRecv(e) == Selected(e) /\ out[Other(e)].wire # <<>>

(* The socket thread receives what has arrived so far. *)
Recv(e) ==
  /\ CanRecv(e)
  /\ \E n \in 1..Len(out[Other(e)].wire) :
       /\ recv' = [recv EXCEPT ![e] = FoldLeft(Absorb, @, SubSeq(out[Other(e)].wire, 1, n))]
       /\ out' = [out EXCEPT ![Other(e)].wire = SubSeq(@, n + 1, Len(@))]
  /\ UNCHANGED <<getdata, got, started>>

-----------------------------------------------------------------------------
(* Processing.                                                              *)

(* ProcessGetData: one block per call, if the send buffer is not full. *)
Answered(s) ==
  IF s.get > 0 /\ s.o.size < SendBufferSize
    THEN [s EXCEPT !.o = Pushed(@, Block), !.get = @ - 1]
    ELSE s

(* Faulty variant: a message is processed while getdata is unanswered. *)
FaultyReady(s) ==
  /\ FrontReady(s.in) /\ s.o.size < SendBufferSize

(* The next message can be processed: earlier getdata is answered (`this   *)
(* maintains the order of responses') and the send buffer is not full.     *)
Ready(s) ==
  /\ s.get = 0
  /\ FrontReady(s.in) /\ s.o.size < SendBufferSize

(* ProcessMessage: the reply, or the blocks asked for. *)
Handled(s) ==
  LET k == Head(s.in).kind
      t == [s EXCEPT !.in = Tail(@), !.got = Append(@, k), !.get = @ + Items[k]]
  IN IF Items[k] > 0 THEN Answered(t)
     ELSE IF Reply[k] # None THEN [t EXCEPT !.o = Pushed(@, Reply[k])] ELSE t

CanProcess(e) ==
  /\ out[e].size < SendBufferSize
  /\ getdata[e] > 0 \/ FrontReady(recv[e])

(* ProcessMessages: answers what is left of getdata, then one message. *)
Process(e) ==
  /\ CanProcess(e)
  /\ \E s \in {Answered([o |-> out[e], in |-> recv[e], get |-> getdata[e], got |-> got[e]])} :
     \E t \in {IF Ready(s) THEN Handled(s) ELSE s} :
       /\ out' = [out EXCEPT ![e] = t.o] /\ recv' = [recv EXCEPT ![e] = t.in]
       /\ getdata' = [getdata EXCEPT ![e] = t.get] /\ got' = [got EXCEPT ![e] = t.got]
  /\ UNCHANGED started

Next == \E e \in End : Push(e) \/ Send(e) \/ Recv(e) \/ Process(e)

Spec == Init /\ [][Next]_vars

(* Both threads of both ends keep running. *)
FairSpec == Spec /\ \A e \in End : WF_vars(Send(e) \/ Recv(e)) /\ WF_vars(Process(e))

-----------------------------------------------------------------------------
(* Properties.                                                              *)

(* Types; nSendOffset is inside the first message (the assertion of         *)
(* SocketSendData) and the stream within its size.                          *)
TypeOK ==
  \A e \in End :
    /\ out[e].q \in Seq(Kind) /\ out[e].sent \in Seq(Kind) /\ got[e] \in Seq(Kind)
    /\ out[e].off \in 0..(IF out[e].q = <<>> THEN 0 ELSE Bytes(Head(out[e].q)) - 1)
    /\ Len(out[e].wire) <= Wire /\ getdata[e] \in Nat /\ started[e] \in 0..MaxSent

(* nSendSize is the size of what is queued, and zero when nothing is (the   *)
(* assertions at the end of SocketSendData).                                *)
SendSizeExact == \A e \in End : out[e].size = Total(out[e].q)

(* What an end has put together from the pieces it received is what the     *)
(* other end sent, message by message and in order, wherever the stream was *)
(* cut; the rest is on its way.                                             *)
StreamExact ==
  \A e \in End :
    LET kinds(q) == [i \in DOMAIN q |-> q[i].kind]
        whole == SelectSeq(recv[e], complete)
    IN IsPrefix(got[e] \o kinds(whole), out[Other(e)].sent)

(* Nothing is lost: when the queue and the stream are empty, every message  *)
(* sent has been put together.                                              *)
NothingLost ==
  \A e \in End :
    (out[e].q = <<>> /\ out[e].wire = <<>>) =>
      Len(got[Other(e)]) + Len(recv[Other(e)]) = Len(out[e].sent)

(* `this maintains the order of responses' (main.cpp:4331): what an end      *)
(* answers follows the order in which it was asked, although blocks wait    *)
(* for space in the send buffer.                                            *)
AnswersInOrder ==
  \A e \in End :
    LET answers(k) == IF Items[k] > 0 THEN [i \in 1..Items[k] |-> Block]
                      ELSE IF Reply[k] # None THEN <<Reply[k]>> ELSE <<>>
        asked == FoldLeft(LAMBDA s, k : s \o answers(k), <<>>, got[e])
        sent == SelectSeq(out[e].sent, LAMBDA k : k \notin Starts[e])
    IN IsPrefix(sent, asked) /\ Len(asked) = Len(sent) + getdata[e]

(* `at least one of the following is always possible' (net.cpp:798): an end  *)
(* is ready to send, to receive, or to process a message.                   *)
OneIsPossible == \A e \in End : out[e].q # <<>> \/ Selected(e) \/ CanProcess(e)

(* `so we don't deadlock' (net.cpp:799): while anything is under way, some   *)
(* end can send, receive or process.                                        *)
DoesNotDeadlock ==
  (\E e \in End : out[e].q # <<>> \/ out[e].wire # <<>>) =>
    \E e \in End : CanSend(e) \/ CanRecv(e) \/ CanProcess(e)

(* Everything that was sent is processed in the end, the blocks that waited  *)
(* for space in the send buffer included, when the requests of an end fit   *)
(* into the stream.                                                         *)
Delivered == <>[](\A e \in End : got[Other(e)] = out[e].sent /\ getdata[e] = 0)
=============================================================================
