------------------------------- MODULE TxRelay -------------------------------
(***************************************************************************)
(* Transactions between a node and its peers: announcements (inv),         *)
(* requests (getdata) that wait two minutes after another peer was asked,  *)
(* orphans that wait for a parent, and the announcements the node makes.   *)
(*                                                                         *)
(* Times are relative to now, in units of two minutes.  The chain is left  *)
(* out: inputs that are not in Tx are in the chain.                        *)
(***************************************************************************)
EXTENDS Integers, FiniteSets

CONSTANTS
    Peer, Tx,
    Parents,        \* the transactions of Tx that one spends
    Invalid,        \* fail CheckInputs with a DoS score
    Refused,        \* fail for a fee, without one
    Has,            \* bound: what each peer ever announces or sends
    Local,          \* bound: transactions that sendrawtransaction may submit
    Prompt,         \* peers that answer a getdata and stay
    MaxOrphanTx, MaxAskFor

ASSUME TxRelayAssumption ==
    /\ IsFiniteSet(Peer) /\ Parents \in [Tx -> SUBSET Tx] /\ Has \in [Peer -> SUBSET Tx]
    /\ Invalid \subseteq Tx /\ Refused \subseteq Tx /\ Prompt \subseteq Peer /\ Local \subseteq Tx
    /\ MaxOrphanTx \in Nat /\ MaxAskFor \in Nat

VARIABLES
    connected,
    pool,       \* mempool.mapTx
    orphans,    \* mapOrphanTransactions: transaction to fromPeer
    byPrev,     \* mapOrphanTransactionsByPrev: pairs (parent, orphan)
    announced,  \* what each peer has announced to us
    asked,      \* mapAlreadyAskedFor: the last request's time; Never if none matters
    askFor,     \* mapAskFor of each peer: pairs (time, transaction)
    requested,  \* getdata messages on their way to each peer
    known,      \* setInventoryKnown of each peer
    toSend,     \* vInventoryToSend of each peer
    sentInv     \* what each peer was sent in inv messages

relayVars == <<connected, pool, orphans, byPrev, announced, asked, askFor, requested, known, toSend, sentInv>>
Never == -1

RelayInit ==
    /\ connected = Peer
    /\ pool = {} /\ orphans = [t \in {} |-> 0] /\ byPrev = {}
    /\ announced = [p \in Peer |-> {}]
    /\ asked = [t \in Tx |-> Never]
    /\ askFor = [p \in Peer |-> {}] /\ requested = [p \in Peer |-> {}]
    /\ known = [p \in Peer |-> {}] /\ toSend = [p \in Peer |-> {}]
    /\ sentInv = [p \in Peer |-> {}]

\* Faulty variant: a transaction that was asked for counts.
FaultyAlreadyHave(t) == t \in pool \/ t \in DOMAIN orphans \/ asked[t] # Never
AlreadyHave(t) == t \in pool \/ t \in DOMAIN orphans

-----------------------------------------------------------------------------
(* The orphan pool.                                                         *)

\* LimitOrphanTxSize evicts random orphans while there are too many: what it may keep.
LimitOrphanTxSize(all) ==
    IF Cardinality(all) <= MaxOrphanTx THEN {all}
    ELSE {keep \in SUBSET all : Cardinality(keep) = MaxOrphanTx}

\* EraseOrphanTx for every orphan not in keep.
Erased(keep) == {e \in byPrev : e[2] \in keep}

Restricted(keep) == [o \in keep |-> orphans[o]]

-----------------------------------------------------------------------------
(* AcceptToMemoryPool and the orphans that follow.                          *)

Missing(t, have) == Parents[t] \ have # {}
Bad(t) == t \in Invalid \cup Refused

\* The orphans that the work queue reaches when accepted come into the pool.
FaultySpenders(accepted) == {}       \* Faulty variant: the work queue is not processed.
Spenders(accepted) == {o \in DOMAIN orphans : Parents[o] \cap accepted # {}}

\* What comes into the pool with t, if the orphans in skipped are not tried.
FaultyAccepted(t, skipped) ==   \* Faulty variant: orphans of orphans are not tried.
    {t} \cup {o \in DOMAIN orphans \ skipped : t \in Parents[o] /\ ~Missing(o, pool \cup {t}) /\ ~Bad(o)}

Accepted(t, skipped) ==
    CHOOSE a \in SUBSET ({t} \cup DOMAIN orphans) :
        a = {t} \cup {o \in Spenders(a) \ skipped : ~Missing(o, pool \cup a) /\ ~Bad(o)}

\* Peers punished on the way, whose other orphans may be skipped from then on.
Misbehaving(accepted, skipped) ==
    {orphans[o] : o \in {x \in Spenders(accepted) \ skipped :
                            x \in Invalid /\ ~Missing(x, pool \cup accepted)}}

\* RelayTransaction: announcements to every connected peer that does not know.
Relay(accepted) ==
    toSend' = [p \in Peer |-> IF p \in connected THEN toSend[p] \cup (accepted \ known'[p]) ELSE toSend[p]]

\* AddInventoryKnown.
FaultyLearn(p, ts) == known' = known       \* Faulty variant: AddInventoryKnown is left out.
Learn(p, ts) == known' = [known EXCEPT ![p] = @ \cup ts]

\* The "tx" message.
TxAccepted(t) ==
    \E skipped \in SUBSET DOMAIN orphans : \E new \in {Accepted(t, skipped)} :
        /\ \A o \in skipped : o \in Spenders(new) /\ orphans[o] \in Misbehaving(new, skipped)
        /\ pool' = pool \cup new
        /\ LET keep == DOMAIN orphans \ (Spenders(new) \cup {t})
           IN  orphans' = Restricted(keep) /\ byPrev' = Erased(keep)
        /\ Relay(new)

\* AddOrphanTx and LimitOrphanTxSize.
TxOrphan(p, t) ==
    \E keep \in LimitOrphanTxSize(DOMAIN orphans \cup {t}) :
        /\ orphans' = [o \in keep |-> IF o \in DOMAIN orphans THEN orphans[o] ELSE p]
        /\ byPrev' = Erased(keep) \cup (IF t \in keep THEN {<<q, t>> : q \in Parents[t]} ELSE {})
        /\ UNCHANGED <<pool, toSend>>

ReceiveTx(p, t) ==
    /\ p \in connected /\ t \in requested[p]
    /\ requested' = [requested EXCEPT ![p] = @ \ {t}]
    /\ Learn(p, {t})
    /\ asked' = [asked EXCEPT ![t] = Never]
    /\ \/ t \notin pool /\ ~Missing(t, pool) /\ ~Bad(t) /\ TxAccepted(t)
       \/ t \notin pool /\ Missing(t, pool) /\ TxOrphan(p, t)
       \/ (t \in pool \/ (~Missing(t, pool) /\ Bad(t))) /\ UNCHANGED <<pool, orphans, byPrev, toSend>>
    /\ UNCHANGED <<connected, announced, askFor, sentInv>>

\* sendrawtransaction: accepted and relayed; orphans are not looked at.
SendRawTransaction(t) ==
    /\ t \in Local \ pool /\ ~Missing(t, pool) /\ ~Bad(t)
    /\ pool' = pool \cup {t}
    /\ known' = known /\ Relay({t})
    /\ UNCHANGED <<connected, orphans, byPrev, announced, asked, askFor, requested, sentInv>>

-----------------------------------------------------------------------------
(* Announcements and requests.                                              *)

\* AskFor: two minutes after the last request for t, or now.
RequestTime(t) == asked[t] + 1

\* The "inv" message.  Bound: a peer announces a transaction once.
Inv(p, t) ==
    /\ p \in connected /\ t \in Has[p] \ announced[p]
    /\ announced' = [announced EXCEPT ![p] = @ \cup {t}]
    /\ Learn(p, {t})
    /\ IF AlreadyHave(t) \/ Cardinality(askFor[p]) > MaxAskFor
       THEN UNCHANGED <<asked, askFor>>
       ELSE /\ asked' = [asked EXCEPT ![t] = RequestTime(t)]
            /\ askFor' = [askFor EXCEPT ![p] = @ \cup {<<RequestTime(t), t>>}]
    /\ UNCHANGED <<connected, pool, orphans, byPrev, requested, toSend, sentInv>>

\* SendMessages: the announcements that are not held back, then the requests that
\* are due.
SendMessages(p, trickle) ==
    /\ p \in connected
    /\ \E wait \in IF trickle THEN {{}} ELSE SUBSET (toSend[p] \ known[p]) :
          \E out \in {toSend[p] \ (known[p] \cup wait)} :
             /\ toSend' = [toSend EXCEPT ![p] = wait]
             /\ Learn(p, out)
             /\ sentInv' = [sentInv EXCEPT ![p] = @ \cup out]
    /\ LET due == {a \in askFor[p] : a[1] = 0}
       IN  /\ askFor' = [askFor EXCEPT ![p] = @ \ due]
           /\ requested' = [requested EXCEPT ![p] = @ \cup {a[2] : a \in {b \in due : ~AlreadyHave(b[2])}}]
    /\ UNCHANGED <<connected, pool, orphans, byPrev, announced, asked>>

\* Two minutes pass.
Tick ==
    /\ asked' = [t \in Tx |-> IF asked[t] = Never THEN Never ELSE asked[t] - 1]
    /\ askFor' = [p \in Peer |-> {<<IF a[1] = 0 THEN 0 ELSE a[1] - 1, a[2]>> : a \in askFor[p]}]
    /\ <<asked', askFor'>> # <<asked, askFor>>
    /\ UNCHANGED <<connected, pool, orphans, byPrev, announced, requested, known, toSend, sentInv>>

\* A peer leaves: FinalizeNode with EraseOrphansFor.
FinalizeNode(p) ==
    /\ p \in connected \ Prompt
    /\ connected' = connected \ {p}
    /\ LET keep == {o \in DOMAIN orphans : orphans[o] # p}
       IN  orphans' = Restricted(keep) /\ byPrev' = Erased(keep)
    /\ askFor' = [askFor EXCEPT ![p] = {}] /\ requested' = [requested EXCEPT ![p] = {}]
    /\ toSend' = [toSend EXCEPT ![p] = {}] /\ known' = [known EXCEPT ![p] = {}]
    /\ UNCHANGED <<pool, announced, asked, sentInv>>

-----------------------------------------------------------------------------
RelayNext ==
    \/ Tick
    \/ \E t \in Tx : SendRawTransaction(t)
    \/ \E p \in Peer :
          \/ FinalizeNode(p)
          \/ \E trickle \in BOOLEAN : SendMessages(p, trickle)
          \/ \E t \in Tx : Inv(p, t) \/ ReceiveTx(p, t)

RelaySpec == RelayInit /\ [][RelayNext]_relayVars

\* The message thread comes back to every peer and trickles to each of them again
\* and again; time passes; the prompt peers answer what they announced.
RelayFairness ==
    /\ WF_relayVars(Tick)
    /\ \A p \in Peer : WF_relayVars(SendMessages(p, TRUE))
    /\ \A p \in Prompt : \A t \in Has[p] : WF_relayVars(ReceiveTx(p, t))

RelayFairSpec == RelaySpec /\ RelayFairness

-----------------------------------------------------------------------------
(* Properties.                                                              *)

\* Types of the variables.
RelayTypeOK ==
    /\ connected \subseteq Peer /\ pool \subseteq Tx \ (Invalid \cup Refused)
    /\ DOMAIN orphans \subseteq Tx
    /\ \A o \in DOMAIN orphans : orphans[o] \in Peer
    /\ asked \in [Tx -> Never .. Cardinality(Peer)]
    /\ \A p \in Peer :
          /\ askFor[p] \subseteq (0 .. Cardinality(Peer)) \X Tx
          /\ requested[p] \subseteq announced[p] /\ announced[p] \subseteq Has[p]
          /\ known[p] \cup toSend[p] \cup sentInv[p] \subseteq Tx

\* mapOrphanTransactionsByPrev finds exactly the orphans of mapOrphanTransactions, and
\* those are from peers that are still there, whatever was resolved, evicted or erased.
ByPrevExact ==
    /\ byPrev = UNION {Parents[o] \X {o} : o \in DOMAIN orphans}
    /\ \A o \in DOMAIN orphans : orphans[o] \in connected

\* "Keep at most <n> unconnectable transactions in memory" (-maxorphantx).
OrphanBound == Cardinality(DOMAIN orphans) <= MaxOrphanTx

\* "Recursively process any orphan transactions that depended on this one": no orphan is
\* left waiting when all its parents have come, unless one came by sendrawtransaction.
FromLocal(o, have) == Parents[o] \cap have \cap Local # {}
OrphansWait == \A o \in DOMAIN orphans : Missing(o, pool) \/ FromLocal(o, pool)

\* And none is dropped then: an orphan that goes while its peer stays and its parents
\* are there has come into the pool, unless it is invalid or its peer is known to have
\* sent an invalid one (setMisbehaving).
TakenStep ==
    \A o \in DOMAIN orphans \ DOMAIN orphans' :
        orphans[o] \in connected' /\ ~Missing(o, pool') /\ ~Bad(o) =>
            \/ o \in pool' \/ FromLocal(o, pool)
            \/ \E x \in DOMAIN orphans \cap Invalid : orphans[x] = orphans[o]

\* The pool has the parents of everything in it, in whatever order they came.
PoolClosed == \A t \in pool : Parents[t] \subseteq pool

\* A peer is not sent an announcement of what it announced to us, even if it did so
\* while ours was queued for it.
NoEchoStep == \A p \in Peer : (sentInv'[p] \ sentInv[p]) \cap announced[p] = {}

\* The orphan loop of the tx handler leaves the two maps, their bound and the pool
\* consistent in every state, and loses no orphan in any step; SendMessages announces
\* nothing to a peer that announced it.
OrphansConsistent ==
    /\ [](RelayTypeOK /\ ByPrevExact /\ OrphanBound /\ OrphansWait /\ PoolClosed)
    /\ [][TakenStep /\ NoEchoStep]_relayVars

\* A transaction that a prompt peer announces comes into the pool, although another peer
\* was asked first and does not answer.
Fetched ==
    <>[](\A p \in Prompt : \A t \in Has[p] :
            t \in announced[p] /\ Parents[t] = {} => t \in pool)

=============================================================================
