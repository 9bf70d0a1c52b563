---------------------------- MODULE RelayProofs ----------------------------
(***************************************************************************)
(* Proofs about TxRelay, for any peers and any transactions: every orphan  *)
(* a node keeps waits for a parent it has not got and is taken when its    *)
(* parents have come, and what a peer has announced is not announced to    *)
(* it.                                                                     *)
(***************************************************************************)
EXTENDS TxRelay, FiniteSetTheorems, TLAPS

\* What one round of the work queue finds: a transaction, and the orphans with a
\* parent in s whose parents are all there.
Round(t, skipped, s) == {t} \cup {o \in Spenders(s) \ skipped : ~Missing(o, pool \cup s) /\ ~Bad(o)}

\* The work queue ends: the rounds have a fixed point, namely what is in every set
\* that a round does not leave.
LEMMA AcceptedFixed ==
    ASSUME NEW t, NEW skipped
    PROVE  /\ Accepted(t, skipped) \subseteq {t} \cup DOMAIN orphans
           /\ Accepted(t, skipped) = Round(t, skipped, Accepted(t, skipped))
<1> DEFINE U == {t} \cup DOMAIN orphans
           F(s) == Round(t, skipped, s)
           L == {x \in U : \A s \in SUBSET U : F(s) \subseteq s => x \in s}
<1>1. \A r, s : r \subseteq s => F(r) \subseteq F(s)
  BY Zenon DEF Round, Spenders, Missing
<1>2. \A s : F(s) \subseteq U
  BY Zenon DEF Round, Spenders
<1>3. L \in SUBSET U
  OBVIOUS
<1>4. F(L) \subseteq L
  <2>1. \A s \in SUBSET U : F(s) \subseteq s => L \subseteq s
    OBVIOUS
  <2>2. \A s \in SUBSET U : F(s) \subseteq s => F(L) \subseteq s
    <3> HIDE DEF F, L
    <3> QED BY Zenon, <1>1, <2>1
  <2> HIDE DEF F
  <2> QED BY Zenon, <1>2, <2>2
<1>5. L \subseteq F(L)
  <2>1. F(F(L)) \subseteq F(L) /\ F(L) \in SUBSET U
    <3> HIDE DEF F, L
    <3> QED BY Zenon, <1>1, <1>2, <1>4
  <2> HIDE DEF F
  <2> QED BY Zenon, <2>1
<1>6. \E a \in SUBSET U : a = F(a)
  <2> HIDE DEF F, L
  <2> QED BY <1>3, <1>4, <1>5
<1>7. Accepted(t, skipped) = CHOOSE a \in SUBSET U : a = F(a)
  BY Zenon DEF Accepted, Round
<1> HIDE DEF F
<1>8. Accepted(t, skipped) \in SUBSET U /\ Accepted(t, skipped) = F(Accepted(t, skipped))
  BY Zenon, <1>6, <1>7
<1> QED BY Zenon, <1>8 DEF F

-----------------------------------------------------------------------------
\* The inductive invariant, in three parts.  The pools:
PoolsInv ==
    /\ connected \subseteq Peer /\ pool \subseteq Tx \ (Invalid \cup Refused)
    /\ DOMAIN orphans \subseteq Tx /\ IsFiniteSet(DOMAIN orphans)
    /\ ByPrevExact /\ OrphanBound /\ OrphansWait /\ PoolClosed

\* The requests: each is for what the peer announced, and the time of the last one
\* for a transaction is bounded by the number of peers that announced it.
Announcers(t) == {p \in Peer : t \in announced[p]}

RequestsInv ==
    /\ announced \in [Peer -> SUBSET Tx] /\ requested \in [Peer -> SUBSET Tx]
    /\ asked \in [Tx -> Int] /\ askFor \in [Peer -> SUBSET (Nat \X Tx)]
    /\ \A p \in Peer : requested[p] \subseteq announced[p] /\ announced[p] \subseteq Has[p]
    /\ \A t \in Tx : Never <= asked[t] /\ asked[t] < Cardinality(Announcers(t))
    /\ \A p \in Peer : \A a \in askFor[p] :
          a[2] \in announced[p] /\ a[1] < Cardinality(Announcers(a[2]))

\* The announcements: what a connected peer announced is known of it.
KnownInv ==
    /\ known \in [Peer -> SUBSET Tx] /\ toSend \in [Peer -> SUBSET Tx]
    /\ sentInv \in [Peer -> SUBSET Tx]
    /\ \A p \in connected : announced[p] \subseteq known[p]

RelayInv == PoolsInv /\ RequestsInv /\ KnownInv

-----------------------------------------------------------------------------
\* Orphans that go, with nothing else about the pools changed: EraseOrphanTx and
\* EraseOrphansFor.
LEMMA ErasedExact ==
    ASSUME PoolsInv, NEW keep \in SUBSET DOMAIN orphans,
           orphans' = Restricted(keep), byPrev' = Erased(keep)
    PROVE  /\ DOMAIN orphans' = keep /\ IsFiniteSet(keep)
           /\ \A o \in keep : orphans'[o] = orphans[o]
           /\ byPrev' = UNION {Parents[o] \X {o} : o \in DOMAIN orphans'}
           /\ OrphanBound'
<1>1. DOMAIN orphans' = keep /\ \A o \in keep : orphans'[o] = orphans[o]
  BY Zenon DEF Restricted
<1>3. IsFiniteSet(keep) /\ Cardinality(keep) <= Cardinality(DOMAIN orphans)
  BY Zenon, FS_Subset DEF PoolsInv
<1>4. /\ Cardinality(keep) \in Nat /\ Cardinality(DOMAIN orphans) \in Nat
      /\ MaxOrphanTx \in Nat
  BY Zenon, <1>3, FS_CardinalityType, TxRelayAssumption DEF PoolsInv
<1>5. OrphanBound'
  BY <1>1, <1>3, <1>4 DEF OrphanBound, PoolsInv
<1>6. \A e \in byPrev : e[2] \in DOMAIN orphans /\ e \in Parents[e[2]] \X {e[2]}
  BY DEF ByPrevExact, PoolsInv
<1>7. \A o \in DOMAIN orphans : Parents[o] \X {o} \subseteq byPrev
  BY Zenon DEF ByPrevExact, PoolsInv
<1>8. byPrev' = UNION {Parents[o] \X {o} : o \in keep}
  <2>1. \A e \in byPrev' : e \in UNION {Parents[o] \X {o} : o \in keep}
    BY Zenon, <1>6 DEF Erased
  <2>2. \A o \in keep : \A e \in Parents[o] \X {o} : e \in byPrev'
    BY Zenon, <1>7 DEF Erased
  <2> QED BY Zenon, <2>1, <2>2
<1> QED BY Zenon, <1>1, <1>3, <1>5, <1>8

\* An accepted transaction, and the orphans that the work queue takes with it.
LEMMA AcceptedPools ==
    ASSUME PoolsInv, NEW t \in Tx, ~Missing(t, pool), ~Bad(t), TxAccepted(t),
           connected' = connected
    PROVE  PoolsInv' /\ TakenStep /\ pool' \ pool \subseteq Tx
           /\ \E new \in SUBSET Tx : Relay(new)
<1> PICK skipped \in SUBSET DOMAIN orphans : \E new \in {Accepted(t, skipped)} :
        /\ \A o \in skipped : o \in Spenders(new) /\ orphans[o] \in Misbehaving(new, skipped)
        /\ pool' = pool \cup new
        /\ LET keep == DOMAIN orphans \ (Spenders(new) \cup {t})
           IN  orphans' = Restricted(keep) /\ byPrev' = Erased(keep)
        /\ Relay(new)
  BY Zenon DEF TxAccepted
<1> DEFINE new == Accepted(t, skipped)
           keep == DOMAIN orphans \ (Spenders(new) \cup {t})
<1>1. /\ \A o \in skipped : o \in Spenders(new) /\ orphans[o] \in Misbehaving(new, skipped)
      /\ pool' = pool \cup new /\ orphans' = Restricted(keep) /\ byPrev' = Erased(keep)
      /\ Relay(new)
  BY Zenon
<1>2. new \subseteq {t} \cup DOMAIN orphans /\ new = Round(t, skipped, new)
  BY Zenon, AcceptedFixed
<1> HIDE DEF new
<1>3. /\ t \in new
      /\ \A o \in new : o # t =>
            o \in Spenders(new) \ skipped /\ ~Missing(o, pool \cup new) /\ ~Bad(o)
      /\ \A o \in Spenders(new) \ skipped : ~Missing(o, pool \cup new) /\ ~Bad(o) => o \in new
  BY Zenon, <1>2 DEF Round
<1>4. /\ DOMAIN orphans' = keep /\ IsFiniteSet(keep) /\ keep \subseteq DOMAIN orphans
      /\ \A o \in keep : orphans'[o] = orphans[o]
      /\ byPrev' = UNION {Parents[o] \X {o} : o \in DOMAIN orphans'} /\ OrphanBound'
  BY Zenon, <1>1, ErasedExact
<1>5. new \subseteq Tx \ (Invalid \cup Refused)
  BY Zenon, <1>2, <1>3 DEF PoolsInv, Bad
<1>6. ByPrevExact'
  BY Zenon, <1>4 DEF ByPrevExact, PoolsInv
<1>7. OrphansWait'
  <2> SUFFICES ASSUME NEW o \in keep PROVE Missing(o, pool') \/ FromLocal(o, pool')
    BY Zenon, <1>4 DEF OrphansWait
  <2>1. Parents[o] \cap new = {}
    BY Zenon DEF Spenders
  <2>2. Missing(o, pool) \/ FromLocal(o, pool)
    BY Zenon DEF PoolsInv, OrphansWait
  <2> QED BY Zenon, <1>1, <2>1, <2>2 DEF Missing, FromLocal
<1>8. PoolClosed'
  BY Zenon, <1>1, <1>3 DEF PoolsInv, PoolClosed, Missing
<1>9. TakenStep
  <2> SUFFICES ASSUME NEW o \in DOMAIN orphans \ keep, ~Missing(o, pool'), ~Bad(o), o \notin pool'
               PROVE  \E x \in DOMAIN orphans \cap Invalid : orphans[x] = orphans[o]
    BY Zenon, <1>4 DEF TakenStep
  <2>1. o \in Spenders(new) /\ o \notin new
    BY Zenon, <1>1, <1>3
  <2>2. orphans[o] \in Misbehaving(new, skipped)
    BY Zenon, <1>1, <1>3, <2>1
  <2> QED BY <2>2 DEF Misbehaving, Spenders
<1>10. pool' \subseteq Tx \ (Invalid \cup Refused)
  BY Zenon, <1>1, <1>5 DEF PoolsInv
<1> QED BY Zenon, <1>1, <1>4, <1>5, <1>6, <1>7, <1>8, <1>9, <1>10 DEF PoolsInv

\* A transaction whose parents are missing: AddOrphanTx, LimitOrphanTxSize.
LEMMA OrphanPools ==
    ASSUME PoolsInv, NEW t \in Tx, NEW p \in connected, Missing(t, pool), TxOrphan(p, t),
           connected' = connected
    PROVE  PoolsInv' /\ TakenStep
<1> DEFINE all == DOMAIN orphans \cup {t}
<1> PICK keep \in LimitOrphanTxSize(all) :
        /\ orphans' = [o \in keep |-> IF o \in DOMAIN orphans THEN orphans[o] ELSE p]
        /\ byPrev' = Erased(keep) \cup (IF t \in keep THEN {<<q, t>> : q \in Parents[t]} ELSE {})
        /\ UNCHANGED <<pool, toSend>>
  BY Zenon DEF TxOrphan
<1>1. keep \subseteq all /\ Cardinality(keep) <= MaxOrphanTx
  <2>1. CASE Cardinality(all) <= MaxOrphanTx
    BY Zenon, <2>1 DEF LimitOrphanTxSize
  <2>2. CASE ~(Cardinality(all) <= MaxOrphanTx)
    <3>1. keep \subseteq all /\ Cardinality(keep) = MaxOrphanTx
      BY Zenon, <2>2 DEF LimitOrphanTxSize
    <3>2. MaxOrphanTx \in Nat
      BY Zenon, TxRelayAssumption
    <3> QED BY <3>1, <3>2
  <2> QED BY Zenon, <2>1, <2>2
<1>2. IsFiniteSet(all)
  BY Zenon, FS_AddElement DEF PoolsInv
<1>3. IsFiniteSet(keep)
  BY Zenon, <1>1, <1>2, FS_Subset
<1>4. /\ DOMAIN orphans' = keep
      /\ \A o \in keep : orphans'[o] = IF o \in DOMAIN orphans THEN orphans[o] ELSE p
  OBVIOUS
<1>5. OrphanBound' /\ DOMAIN orphans' \subseteq Tx /\ IsFiniteSet(DOMAIN orphans')
  BY Zenon, <1>1, <1>3, <1>4 DEF OrphanBound, PoolsInv
<1>6. byPrev' = UNION {Parents[o] \X {o} : o \in keep}
  <2>1. \A e \in byPrev : e[2] \in DOMAIN orphans /\ e \in Parents[e[2]] \X {e[2]}
    BY DEF ByPrevExact, PoolsInv
  <2>2. \A o \in DOMAIN orphans : Parents[o] \X {o} \subseteq byPrev
    BY Zenon DEF ByPrevExact, PoolsInv
  <2>3. \A e \in byPrev' : e \in UNION {Parents[o] \X {o} : o \in keep}
    BY <2>1 DEF Erased
  <2>4. \A o \in keep : \A e \in Parents[o] \X {o} : e \in byPrev'
    <3> SUFFICES ASSUME NEW o \in keep, NEW e \in Parents[o] \X {o} PROVE e \in byPrev'
      OBVIOUS
    <3>1. CASE o \in DOMAIN orphans
      BY Zenon, <2>2, <3>1 DEF Erased
    <3>2. CASE o = t
      BY <3>2
    <3> QED BY Zenon, <1>1, <3>1, <3>2
  <2> QED BY <2>3, <2>4
<1>7. ByPrevExact'
  BY Zenon, <1>4, <1>6 DEF ByPrevExact, PoolsInv
<1>8. OrphansWait'
  BY Zenon, <1>1, <1>4 DEF OrphansWait, PoolsInv
<1>9. TakenStep
  BY Zenon, <1>4 DEF TakenStep, OrphansWait, PoolsInv
<1> QED BY Zenon, <1>5, <1>7, <1>8, <1>9 DEF PoolsInv, PoolClosed

\* sendrawtransaction: the orphans that wait for t go on waiting.
LEMMA RawPools ==
    ASSUME PoolsInv, NEW t \in Tx, SendRawTransaction(t)
    PROVE  PoolsInv' /\ TakenStep
<1>1. /\ t \in Local /\ ~Missing(t, pool) /\ ~Bad(t) /\ pool' = pool \cup {t}
      /\ UNCHANGED <<connected, orphans, byPrev>>
  BY Zenon DEF SendRawTransaction
<1>2. pool' \subseteq Tx \ (Invalid \cup Refused)
  BY Zenon, <1>1 DEF PoolsInv, Bad
<1>3. OrphansWait'
  <2> SUFFICES ASSUME NEW o \in DOMAIN orphans PROVE Missing(o, pool') \/ FromLocal(o, pool')
    BY Zenon, <1>1 DEF OrphansWait
  <2>1. Missing(o, pool) \/ FromLocal(o, pool)
    BY Zenon DEF PoolsInv, OrphansWait
  <2> QED BY Zenon, <1>1, <2>1 DEF Missing, FromLocal
<1>4. PoolClosed'
  BY Zenon, <1>1 DEF PoolsInv, PoolClosed, Missing
<1> QED BY Zenon, <1>1, <1>2, <1>3, <1>4 DEF PoolsInv, ByPrevExact, OrphanBound, TakenStep

\* A peer that leaves takes its orphans with it.
LEMMA LeftPools ==
    ASSUME PoolsInv, NEW p \in Peer, FinalizeNode(p)
    PROVE  PoolsInv' /\ TakenStep
<1> DEFINE keep == {o \in DOMAIN orphans : orphans[o] # p}
<1>1. /\ connected' = connected \ {p} /\ pool' = pool
      /\ orphans' = Restricted(keep) /\ byPrev' = Erased(keep)
  BY Zenon DEF FinalizeNode
<1>2. /\ DOMAIN orphans' = keep /\ IsFiniteSet(keep) /\ keep \subseteq DOMAIN orphans
      /\ \A o \in keep : orphans'[o] = orphans[o]
      /\ byPrev' = UNION {Parents[o] \X {o} : o \in DOMAIN orphans'} /\ OrphanBound'
  BY Zenon, <1>1, ErasedExact
<1>3. ByPrevExact'
  BY Zenon, <1>1, <1>2 DEF ByPrevExact, PoolsInv
<1>4. OrphansWait' /\ PoolClosed'
  BY Zenon, <1>1, <1>2 DEF OrphansWait, PoolClosed, PoolsInv
<1>5. TakenStep
  BY Zenon, <1>1, <1>2 DEF TakenStep
<1> QED BY Zenon, <1>1, <1>2, <1>3, <1>4, <1>5 DEF PoolsInv

\* Steps that leave the pools alone.
LEMMA SamePools ==
    ASSUME PoolsInv, UNCHANGED <<connected, pool, orphans, byPrev>>
    PROVE  PoolsInv' /\ TakenStep
BY Zenon DEF PoolsInv, TakenStep, ByPrevExact, OrphanBound, OrphansWait, PoolClosed

-----------------------------------------------------------------------------
\* The peers that announced a transaction are finitely many.
LEMMA AnnouncersFinite ==
    ASSUME NEW t
    PROVE  IsFiniteSet(Announcers(t)) /\ Cardinality(Announcers(t)) \in Nat
           /\ Cardinality(Announcers(t)) <= Cardinality(Peer) /\ Cardinality(Peer) \in Nat
<1>1. Announcers(t) \in SUBSET Peer /\ IsFiniteSet(Peer)
  BY Zenon, TxRelayAssumption DEF Announcers
<1>2. IsFiniteSet(Announcers(t)) /\ Cardinality(Announcers(t)) <= Cardinality(Peer)
  BY Zenon, <1>1, FS_Subset
<1> QED BY Zenon, <1>1, <1>2, FS_CardinalityType

\* The "inv" message: a new announcer, and a request after the last one.
LEMMA InvRequests ==
    ASSUME RequestsInv, NEW p \in Peer, NEW t \in Tx, Inv(p, t)
    PROVE  RequestsInv'
<1>1. /\ t \in Has[p] \ announced[p] /\ requested' = requested
      /\ announced' = [announced EXCEPT ![p] = @ \cup {t}]
      /\ \/ UNCHANGED <<asked, askFor>>
         \/ /\ asked' = [asked EXCEPT ![t] = asked[t] + 1]
            /\ askFor' = [askFor EXCEPT ![p] = @ \cup {<<asked[t] + 1, t>>}]
  BY Zenon DEF Inv, RequestTime
<1>2. /\ announced' \in [Peer -> SUBSET Tx] /\ t \in announced'[p]
      /\ \A q \in Peer : announced[q] \subseteq announced'[q]
      /\ \A q \in Peer : \A s \in Tx : s # t => (s \in announced'[q] <=> s \in announced[q])
      /\ \A q \in Peer : q # p => announced'[q] = announced[q]
      /\ \A q \in Peer : requested[q] \subseteq announced'[q] /\ announced'[q] \subseteq Has[q]
  BY <1>1 DEF RequestsInv
<1>3. /\ Announcers(t)' = Announcers(t) \cup {p} /\ p \notin Announcers(t)
      /\ \A s \in Tx : s # t => Announcers(s)' = Announcers(s)
  BY <1>1, <1>2 DEF Announcers
<1>4. Cardinality(Announcers(t)') = Cardinality(Announcers(t)) + 1
  BY Zenon, <1>3, AnnouncersFinite, FS_AddElement
<1>5. /\ \A s \in Tx : Cardinality(Announcers(s)) \in Nat /\ Cardinality(Announcers(s)') \in Nat
      /\ \A s \in Tx : Cardinality(Announcers(s)) <= Cardinality(Announcers(s)')
  <2> SUFFICES ASSUME NEW s \in Tx
               PROVE  /\ Cardinality(Announcers(s)) \in Nat /\ Cardinality(Announcers(s)') \in Nat
                      /\ Cardinality(Announcers(s)) <= Cardinality(Announcers(s)')
    OBVIOUS
  <2>1. Cardinality(Announcers(s)) \in Nat
    BY Zenon, AnnouncersFinite
  <2>2. CASE s = t
    BY <1>4, <2>1, <2>2
  <2>3. CASE s # t
    BY <1>3, <2>1, <2>3
  <2> QED BY Zenon, <2>2, <2>3
<1>6. asked[t] \in Int /\ Never <= asked[t] /\ asked[t] < Cardinality(Announcers(t))
  BY Zenon DEF RequestsInv
<1>7. /\ asked' \in [Tx -> Int]
      /\ \A s \in Tx : asked'[s] = asked[s] \/ (s = t /\ asked'[s] = asked[s] + 1)
  BY <1>1, <1>6 DEF RequestsInv
<1>8. \A s \in Tx : Never <= asked'[s] /\ asked'[s] < Cardinality(Announcers(s)')
  <2> SUFFICES ASSUME NEW s \in Tx PROVE Never <= asked'[s] /\ asked'[s] < Cardinality(Announcers(s)')
    OBVIOUS
  <2>1. asked[s] \in Int /\ Never <= asked[s] /\ asked[s] < Cardinality(Announcers(s))
    BY Zenon DEF RequestsInv
  <2> QED BY <1>4, <1>5, <1>7, <2>1 DEF Never
<1>9. /\ askFor' \in [Peer -> SUBSET (Nat \X Tx)]
      /\ \A q \in Peer : \A a \in askFor'[q] :
            a \in askFor[q] \/ (q = p /\ a[1] = asked[t] + 1 /\ a[2] = t)
  <2>1. <<asked[t] + 1, t>> \in Nat \X Tx
    BY <1>6 DEF Never
  <2> QED BY <1>1, <2>1 DEF RequestsInv
<1>10. ASSUME NEW q \in Peer, NEW a \in askFor'[q]
       PROVE  a[2] \in announced'[q] /\ a[1] < Cardinality(Announcers(a[2])')
  <2>0. a[1] \in Nat /\ a[2] \in Tx
    BY <1>9
  <2>1. CASE a \in askFor[q]
    <3>1. a[2] \in announced[q] /\ a[1] < Cardinality(Announcers(a[2]))
      BY Zenon, <2>1 DEF RequestsInv
    <3> QED BY <1>2, <1>5, <2>0, <3>1
  <2>2. CASE q = p /\ a[1] = asked[t] + 1 /\ a[2] = t
    BY <1>2, <1>4, <1>5, <1>6, <2>2
  <2> QED BY Zenon, <1>9, <2>1, <2>2
<1> QED BY Zenon, <1>1, <1>2, <1>7, <1>8, <1>9, <1>10 DEF RequestsInv, Announcers

\* The requests that are due are sent, for what the node has not got.
LEMMA SendRequests ==
    ASSUME RequestsInv, NEW p \in Peer, NEW trickle, SendMessages(p, trickle)
    PROVE  RequestsInv'
<1> DEFINE due == {a \in askFor[p] : a[1] = 0}
           gets == {a[2] : a \in {b \in due : ~AlreadyHave(b[2])}}
<1>1. /\ askFor' = [askFor EXCEPT ![p] = @ \ due] /\ requested' = [requested EXCEPT ![p] = @ \cup gets]
      /\ UNCHANGED <<announced, asked>>
  BY Zenon DEF SendMessages
<1>2. gets \subseteq announced[p]
  BY Zenon DEF RequestsInv
<1>3. \A q \in Peer : askFor'[q] \subseteq askFor[q]
  BY Zenon, <1>1 DEF RequestsInv
<1>4. \A t : Announcers(t)' = Announcers(t)
  BY Zenon, <1>1 DEF Announcers
<1> HIDE DEF gets, due
<1>5. /\ requested' \in [Peer -> SUBSET Tx] /\ askFor' \in [Peer -> SUBSET (Nat \X Tx)]
      /\ \A q \in Peer : requested'[q] \subseteq announced[q]
  BY Zenon, <1>1, <1>2 DEF RequestsInv
<1> QED BY Zenon, <1>1, <1>3, <1>4, <1>5 DEF RequestsInv

\* Two minutes pass: the times of the requests only fall.
LEMMA TickRequests ==
    ASSUME RequestsInv, Tick
    PROVE  RequestsInv'
<1> DEFINE Sooner(a) == <<IF a[1] = 0 THEN 0 ELSE a[1] - 1, a[2]>>
<1>1. /\ asked' = [t \in Tx |-> IF asked[t] = Never THEN Never ELSE asked[t] - 1]
      /\ askFor' = [p \in Peer |-> {Sooner(a) : a \in askFor[p]}]
      /\ UNCHANGED <<announced, requested>>
  BY Zenon DEF Tick
<1>2. \A t : Announcers(t)' = Announcers(t)
  BY Zenon, <1>1 DEF Announcers
<1>3. \A t \in Tx : Cardinality(Announcers(t)) \in Nat
  BY Zenon, AnnouncersFinite
<1>4. ASSUME NEW t \in Tx
      PROVE  asked'[t] \in Int /\ Never <= asked'[t] /\ asked'[t] < Cardinality(Announcers(t))
  <2>1. asked[t] \in Int /\ Never <= asked[t] /\ asked[t] < Cardinality(Announcers(t))
    BY Zenon DEF RequestsInv
  <2> QED BY <1>1, <1>3, <2>1 DEF Never
<1>5. ASSUME NEW p \in Peer, NEW a \in askFor'[p]
      PROVE  /\ a \in Nat \X Tx /\ a[2] \in announced[p]
             /\ a[1] < Cardinality(Announcers(a[2]))
  <2> PICK b \in askFor[p] : a = Sooner(b)
    BY Zenon, <1>1
  <2>1. b \in Nat \X Tx /\ b[2] \in announced[p] /\ b[1] < Cardinality(Announcers(b[2]))
    BY Zenon DEF RequestsInv
  <2>2. a[2] = b[2] /\ a[1] \in Nat /\ a[1] <= b[1] /\ a = <<a[1], a[2]>>
    BY <2>1
  <2> QED BY <1>3, <2>1, <2>2
<1>6. asked' \in [Tx -> Int] /\ askFor' \in [Peer -> SUBSET (Nat \X Tx)]
  BY Zenon, <1>1, <1>4, <1>5
<1> QED BY Zenon, <1>1, <1>2, <1>4, <1>5, <1>6 DEF RequestsInv

\* A "tx" message answers a request.
LEMMA ReceiveRequests ==
    ASSUME RequestsInv, NEW p \in Peer, NEW t \in Tx, ReceiveTx(p, t)
    PROVE  RequestsInv'
<1>1. /\ requested' = [requested EXCEPT ![p] = @ \ {t}] /\ asked' = [asked EXCEPT ![t] = Never]
      /\ UNCHANGED <<announced, askFor>>
  BY Zenon DEF ReceiveTx
<1>2. \A s : Announcers(s)' = Announcers(s)
  BY Zenon, <1>1 DEF Announcers
<1>3. \A s \in Tx : Cardinality(Announcers(s)) \in Nat
  BY Zenon, AnnouncersFinite
<1>4. asked' \in [Tx -> Int] /\ \A s \in Tx : asked'[s] = asked[s] \/ asked'[s] = Never
  BY <1>1 DEF RequestsInv, Never
<1>5. \A s \in Tx : Never <= asked'[s] /\ asked'[s] < Cardinality(Announcers(s))
  BY <1>3, <1>4 DEF RequestsInv, Never
<1>6. /\ requested' \in [Peer -> SUBSET Tx]
      /\ \A q \in Peer : requested'[q] \subseteq announced[q]
  BY Zenon, <1>1 DEF RequestsInv
<1> QED BY Zenon, <1>1, <1>2, <1>4, <1>5, <1>6 DEF RequestsInv

\* A peer that leaves is asked for nothing any more.
LEMMA LeftRequests ==
    ASSUME RequestsInv, NEW p \in Peer, FinalizeNode(p)
    PROVE  RequestsInv'
<1>1. /\ requested' = [requested EXCEPT ![p] = {}] /\ askFor' = [askFor EXCEPT ![p] = {}]
      /\ UNCHANGED <<announced, asked>>
  BY Zenon DEF FinalizeNode
<1>2. \A s : Announcers(s)' = Announcers(s)
  BY Zenon, <1>1 DEF Announcers
<1>3. /\ requested' \in [Peer -> SUBSET Tx] /\ askFor' \in [Peer -> SUBSET (Nat \X Tx)]
      /\ \A q \in Peer : requested'[q] \subseteq announced[q] /\ askFor'[q] \subseteq askFor[q]
  BY Zenon, <1>1 DEF RequestsInv
<1> QED BY Zenon, <1>1, <1>2, <1>3 DEF RequestsInv

\* Steps that leave the requests alone.
LEMMA SameRequests ==
    ASSUME RequestsInv, UNCHANGED <<announced, requested, asked, askFor>>
    PROVE  RequestsInv'
<1>1. \A s : Announcers(s)' = Announcers(s)
  BY Zenon DEF Announcers
<1> QED BY Zenon, <1>1 DEF RequestsInv

-----------------------------------------------------------------------------
\* What a step learns of the peers, and sends them: nothing that a peer announced.
LEMMA LearnKnown ==
    ASSUME KnownInv, NEW p \in Peer, NEW ts \in SUBSET Tx, Learn(p, ts),
           connected' \subseteq connected,
           announced' = announced \/ announced' = [announced EXCEPT ![p] = @ \cup ts],
           connected \subseteq Peer, announced \in [Peer -> SUBSET Tx]
    PROVE  /\ known' \in [Peer -> SUBSET Tx]
           /\ \A q \in connected' : announced'[q] \subseteq known'[q]
<1>1. /\ known' \in [Peer -> SUBSET Tx] /\ known'[p] = known[p] \cup ts
      /\ \A q \in Peer : q # p => known'[q] = known[q]
  BY Zenon DEF Learn, KnownInv
<1>2. /\ announced'[p] \subseteq announced[p] \cup ts
      /\ \A q \in Peer : q # p => announced'[q] = announced[q]
  OBVIOUS
<1> QED BY Zenon, <1>1, <1>2 DEF KnownInv

\* RelayTransaction queues transactions.
LEMMA RelayKnown ==
    ASSUME KnownInv, NEW new \in SUBSET Tx, Relay(new)
    PROVE  toSend' \in [Peer -> SUBSET Tx]
BY Zenon DEF Relay, KnownInv

\* SendMessages announces what it has queued and the peer does not know.
LEMMA SendKnown ==
    ASSUME KnownInv, connected \subseteq Peer, announced \in [Peer -> SUBSET Tx],
           NEW p \in Peer, NEW trickle \in BOOLEAN, SendMessages(p, trickle)
    PROVE  KnownInv' /\ NoEchoStep
<1>1. p \in connected /\ UNCHANGED <<connected, announced>>
  BY Zenon DEF SendMessages
<1>2. PICK wait \in SUBSET (toSend[p] \ known[p]) :
          LET out == toSend[p] \ (known[p] \cup wait)
          IN  /\ toSend' = [toSend EXCEPT ![p] = wait]
              /\ Learn(p, out)
              /\ sentInv' = [sentInv EXCEPT ![p] = @ \cup out]
  <2>1. PICK wait \in IF trickle THEN {{}} ELSE SUBSET (toSend[p] \ known[p]) :
            \E out \in {toSend[p] \ (known[p] \cup wait)} :
               /\ toSend' = [toSend EXCEPT ![p] = wait]
               /\ Learn(p, out)
               /\ sentInv' = [sentInv EXCEPT ![p] = @ \cup out]
    BY Zenon DEF SendMessages
  <2>2. wait \in SUBSET (toSend[p] \ known[p])
    BY Zenon, <2>1
  <2> QED BY Zenon, <2>1, <2>2
<1> DEFINE out == toSend[p] \ (known[p] \cup wait)
<1>3. toSend' = [toSend EXCEPT ![p] = wait] /\ Learn(p, out) /\ sentInv' = [sentInv EXCEPT ![p] = @ \cup out]
  BY Zenon, <1>2
<1>4. out \in SUBSET Tx /\ wait \in SUBSET Tx /\ out \cap announced[p] = {}
  BY Zenon, <1>1, <1>2 DEF KnownInv
<1> HIDE DEF out
<1>5. known' \in [Peer -> SUBSET Tx] /\ \A q \in connected' : announced'[q] \subseteq known'[q]
  BY Zenon, <1>1, <1>3, <1>4, LearnKnown
<1>6. toSend' \in [Peer -> SUBSET Tx] /\ sentInv' \in [Peer -> SUBSET Tx]
  BY Zenon, <1>3, <1>4 DEF KnownInv
<1>7. NoEchoStep
  BY Zenon, <1>3, <1>4 DEF NoEchoStep, KnownInv
<1> QED BY Zenon, <1>5, <1>6, <1>7 DEF KnownInv

-----------------------------------------------------------------------------
\* The first state.
LEMMA RelayInitInv == RelayInit => RelayInv
<1> SUFFICES ASSUME RelayInit PROVE RelayInv
  OBVIOUS
<1>0. MaxOrphanTx \in Nat /\ DOMAIN orphans = {}
  BY Zenon, TxRelayAssumption DEF RelayInit
<1>1. PoolsInv
  <2>1. IsFiniteSet(DOMAIN orphans) /\ Cardinality(DOMAIN orphans) = 0
    BY Zenon, <1>0, FS_EmptySet
  <2>2. ByPrevExact /\ OrphansWait /\ PoolClosed
    BY Zenon, <1>0 DEF RelayInit, ByPrevExact, OrphansWait, PoolClosed
  <2> QED BY <1>0, <2>1, <2>2 DEF RelayInit, PoolsInv, OrphanBound
<1>2. RequestsInv
  <2>1. \A t \in Tx : Announcers(t) = {}
    BY Zenon DEF RelayInit, Announcers
  <2>2. \A t \in Tx : Cardinality(Announcers(t)) = 0
    BY Zenon, <2>1, FS_EmptySet
  <2> QED BY <2>2 DEF RelayInit, RequestsInv, Never
<1>3. KnownInv
  BY Zenon DEF RelayInit, KnownInv
<1> QED BY Zenon, <1>1, <1>2, <1>3 DEF RelayInv

\* Every step keeps the invariant and the two action properties.
LEMMA RelayStep ==
    ASSUME RelayInv, RelayNext
    PROVE  RelayInv' /\ TakenStep /\ NoEchoStep
<1>0. /\ PoolsInv /\ RequestsInv /\ KnownInv /\ connected \subseteq Peer
      /\ announced \in [Peer -> SUBSET Tx]
  BY Zenon DEF RelayInv, PoolsInv, RequestsInv
<1>1. CASE Tick
  <2>1. UNCHANGED <<connected, pool, orphans, byPrev, announced, known, toSend, sentInv>>
    BY Zenon, <1>1 DEF Tick
  <2>2. KnownInv' /\ NoEchoStep
    BY Zenon, <1>0, <2>1 DEF KnownInv, NoEchoStep
  <2> QED BY Zenon, <1>0, <1>1, <2>1, <2>2, SamePools, TickRequests DEF RelayInv
<1>2. CASE \E t \in Tx : SendRawTransaction(t)
  <2> PICK t \in Tx : SendRawTransaction(t)
    BY Zenon, <1>2
  <2>1. Relay({t}) /\ UNCHANGED <<connected, announced, requested, asked, askFor, known, sentInv>>
    BY Zenon DEF SendRawTransaction
  <2>2. toSend' \in [Peer -> SUBSET Tx]
    BY Zenon, <1>0, <2>1, RelayKnown
  <2>3. KnownInv' /\ NoEchoStep
    BY Zenon, <1>0, <2>1, <2>2 DEF KnownInv, NoEchoStep
  <2> QED BY Zenon, <1>0, <2>1, <2>3, RawPools, SameRequests DEF RelayInv
<1>3. CASE \E p \in Peer : FinalizeNode(p)
  <2> PICK p \in Peer : FinalizeNode(p)
    BY Zenon, <1>3
  <2>1. /\ connected' = connected \ {p} /\ UNCHANGED <<announced, sentInv>>
        /\ toSend' = [toSend EXCEPT ![p] = {}] /\ known' = [known EXCEPT ![p] = {}]
    BY Zenon DEF FinalizeNode
  <2>2. KnownInv' /\ NoEchoStep
    BY Zenon, <1>0, <2>1 DEF KnownInv, NoEchoStep
  <2> QED BY Zenon, <1>0, <2>2, LeftPools, LeftRequests DEF RelayInv
<1>4. CASE \E p \in Peer : \E trickle \in BOOLEAN : SendMessages(p, trickle)
  <2> PICK p \in Peer, trickle \in BOOLEAN : SendMessages(p, trickle)
    BY Zenon, <1>4
  <2>1. UNCHANGED <<connected, pool, orphans, byPrev>>
    BY Zenon DEF SendMessages
  <2>2. KnownInv' /\ NoEchoStep
    BY Zenon, <1>0, SendKnown
  <2> QED BY Zenon, <1>0, <2>1, <2>2, SamePools, SendRequests DEF RelayInv
<1>5. CASE \E p \in Peer : \E t \in Tx : Inv(p, t)
  <2> PICK p \in Peer, t \in Tx : Inv(p, t)
    BY Zenon, <1>5
  <2>1. /\ UNCHANGED <<connected, pool, orphans, byPrev, toSend, sentInv>>
        /\ announced' = [announced EXCEPT ![p] = @ \cup {t}] /\ Learn(p, {t})
    BY Zenon DEF Inv
  <2>2. known' \in [Peer -> SUBSET Tx] /\ \A q \in connected' : announced'[q] \subseteq known'[q]
    BY Zenon, <1>0, <2>1, LearnKnown
  <2>3. KnownInv' /\ NoEchoStep
    BY Zenon, <1>0, <2>1, <2>2 DEF KnownInv, NoEchoStep
  <2> QED BY Zenon, <1>0, <2>1, <2>3, SamePools, InvRequests DEF RelayInv
<1>6. CASE \E p \in Peer : \E t \in Tx : ReceiveTx(p, t)
  <2> PICK p \in Peer, t \in Tx : ReceiveTx(p, t)
    BY Zenon, <1>6
  <2>1. /\ p \in connected /\ Learn(p, {t}) /\ UNCHANGED <<connected, announced, sentInv>>
    BY Zenon DEF ReceiveTx
  <2>2. known' \in [Peer -> SUBSET Tx] /\ \A q \in connected' : announced'[q] \subseteq known'[q]
    BY Zenon, <1>0, <2>1, LearnKnown
  <2>3. PoolsInv' /\ TakenStep /\ toSend' \in [Peer -> SUBSET Tx]
    <3>1. CASE ~Missing(t, pool) /\ ~Bad(t) /\ TxAccepted(t)
      BY Zenon, <1>0, <2>1, <3>1, AcceptedPools, RelayKnown
    <3>2. CASE Missing(t, pool) /\ TxOrphan(p, t)
      <4>1. toSend' = toSend
        BY Zenon, <3>2 DEF TxOrphan
      <4> QED BY Zenon, <1>0, <2>1, <3>2, <4>1, OrphanPools DEF KnownInv
    <3>3. CASE UNCHANGED <<pool, orphans, byPrev, toSend>>
      BY Zenon, <1>0, <2>1, <3>3, SamePools DEF KnownInv
    <3> QED BY Zenon, <3>1, <3>2, <3>3 DEF ReceiveTx
  <2>4. KnownInv' /\ NoEchoStep
    BY Zenon, <1>0, <2>1, <2>2, <2>3 DEF KnownInv, NoEchoStep
  <2> QED BY Zenon, <1>0, <2>3, <2>4, ReceiveRequests DEF RelayInv
<1> QED BY Zenon, <1>1, <1>2, <1>3, <1>4, <1>5, <1>6 DEF RelayNext

\* The invariant has what RelayTypeOK says.
LEMMA RelayBounds ==
    ASSUME RelayInv
    PROVE  RelayTypeOK
<1>0. PoolsInv /\ RequestsInv /\ KnownInv
  BY Zenon DEF RelayInv
<1>1. \A t \in Tx : Cardinality(Announcers(t)) \in Nat
                    /\ Cardinality(Announcers(t)) <= Cardinality(Peer)
  BY Zenon, AnnouncersFinite
<1>2. Cardinality(Peer) \in Nat
  BY Zenon, AnnouncersFinite
<1>3. asked \in [Tx -> Never .. Cardinality(Peer)]
  <2>1. ASSUME NEW t \in Tx PROVE asked[t] \in Never .. Cardinality(Peer)
    BY <1>0, <1>1, <1>2 DEF RequestsInv, Never
  <2> QED BY Zenon, <1>0, <2>1 DEF RequestsInv
<1>4. ASSUME NEW p \in Peer, NEW a \in askFor[p]
      PROVE  a \in (0 .. Cardinality(Peer)) \X Tx
  <2>1. a \in Nat \X Tx /\ a[1] < Cardinality(Announcers(a[2]))
    BY Zenon, <1>0 DEF RequestsInv
  <2>2. a[1] \in 0 .. Cardinality(Peer) /\ a[2] \in Tx /\ a = <<a[1], a[2]>>
    BY <1>1, <1>2, <2>1
  <2> QED BY Zenon, <2>2
<1> QED BY Zenon, <1>0, <1>3, <1>4 DEF RelayTypeOK, PoolsInv, ByPrevExact, RequestsInv, KnownInv

\* For any number of peers and any transactions, whatever arrives in which order: the
\* orphan maps agree and keep to their bound, no orphan waits for parents that have
\* come, none is dropped when they come, the pool has the parents of what it holds, and
\* nothing is announced to a peer that announced it.
THEOREM OrphansAreConsistent == RelaySpec => OrphansConsistent
<1>1. RelayInit => RelayInv
  BY Zenon, RelayInitInv
<1>2. RelayInv /\ [RelayNext]_relayVars => RelayInv' /\ [TakenStep /\ NoEchoStep]_relayVars
  <2>1. ASSUME RelayInv, UNCHANGED relayVars PROVE RelayInv'
    <3>1. UNCHANGED <<connected, pool, orphans, byPrev, announced, asked, askFor, requested, known,
                      toSend, sentInv>>
      BY Zenon, <2>1 DEF relayVars
    <3> QED BY Zenon, <2>1, <3>1, SamePools, SameRequests DEF RelayInv, KnownInv
  <2> QED BY Zenon, <2>1, RelayStep
<1>3. RelayInv => RelayTypeOK /\ ByPrevExact /\ OrphanBound /\ OrphansWait /\ PoolClosed
  BY Zenon, RelayBounds DEF RelayInv, PoolsInv
<1> QED BY <1>1, <1>2, <1>3, PTL DEF RelaySpec, OrphansConsistent
=============================================================================
