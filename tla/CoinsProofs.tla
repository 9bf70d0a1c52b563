---------------------------- MODULE CoinsProofs ----------------------------
(***************************************************************************)
(* Proofs about the coins and the transactions that wait to spend them.    *)
(*                                                                         *)
(* CoinsCache, for any transactions, coins and blocks: the flags mean what *)
(* they say, the assert of BatchWrite holds, and the two caches over the   *)
(* database implement the flat views of CoinsView.                         *)
(*                                                                         *)
(* Mempool, for any tree of valid blocks and any transactions: the index   *)
(* of spent outputs and the size are exact, what is confirmed is not in    *)
(* the pool and nothing leaves it without a reason; and, where policy      *)
(* refuses no transaction of a block and the pool spends no coinbase of    *)
(* the tip, the asserts of check hold and DisconnectTip loses nothing.     *)
(***************************************************************************)
EXTENDS CoinsCache, Mempool, TLAPS

-----------------------------------------------------------------------------
(* CoinsCache.                                                              *)

\* An entry of the child that is not FRESH has one in the parent; a closed view
\* is empty; an open one represents what pcoinsTip does.
ViewInv ==
    /\ \A tx \in TxId : child[tx] # NoEntry /\ ~child[tx].fresh => tipCoins[tx] # NoEntry
    /\ ~open => child = EmptyCache
    /\ open => tipBest \in BlockHash /\ childBest = tipBest

CoinsIInv == CoinsTypeOK /\ FlagsMean /\ ViewInv /\ DatabaseRepresentsBest /\ TipRepresentsBest

-----------------------------------------------------------------------------
\* The constants, and an entry as a record.
LEMMA Entries ==
    /\ NoEntry \notin Entry
    /\ Pruned \in Coins
    /\ \A e \in Entry : e.coins \in Coins /\ e.dirty \in BOOLEAN /\ e.fresh \in BOOLEAN
<1>1. NoEntry \notin Entry /\ Pruned \in Coins
  BY Zenon, CoinsAssumption
<1>2. \A e \in Entry : e.coins \in Coins /\ e.dirty \in BOOLEAN /\ e.fresh \in BOOLEAN
  BY Zenon DEF Entry
<1> QED BY Zenon, <1>1, <1>2

\* Reading through pcoinsTip changes neither what it shows nor the meaning of
\* the entry it gets.
LEMMA TipFetch ==
    ASSUME CoinsTypeOK, FlagsMean, NEW tx \in TxId
    PROVE  /\ TipFetched(tx) \in Entry \cup {NoEntry}
           /\ TipFetched(tx) # NoEntry => TipFetched(tx).coins = TipView[tx]
           /\ TipFetched(tx) = NoEntry => TipView[tx] = Pruned /\ tipCoins[tx] = NoEntry
           /\ tipCoins[tx] # NoEntry => TipFetched(tx) = tipCoins[tx]
           /\ TipFetched(tx) # NoEntry =>
                /\ ~TipFetched(tx).dirty => TipFetched(tx).coins = dbCoins[tx]
                /\ TipFetched(tx).fresh => dbCoins[tx] = Pruned
<1>1. /\ tipCoins[tx] \in Entry \cup {NoEntry}
      /\ dbCoins[tx] \in Coins
      /\ TipView[tx] = IF tipCoins[tx] # NoEntry THEN tipCoins[tx].coins ELSE dbCoins[tx]
  BY Zenon DEF CoinsTypeOK, TipView
<1>2. CASE tipCoins[tx] # NoEntry
  BY Zenon, <1>1, <1>2 DEF FlagsMean, TipFetched
<1>3. CASE tipCoins[tx] = NoEntry /\ dbCoins[tx] = Pruned
  BY Zenon, <1>1, <1>3 DEF TipFetched
<1>4. CASE tipCoins[tx] = NoEntry /\ dbCoins[tx] # Pruned
  <2>1. TipFetched(tx) = [coins |-> dbCoins[tx], dirty |-> FALSE, fresh |-> FALSE]
    BY Zenon, <1>4 DEF TipFetched
  <2>2. /\ TipFetched(tx) \in Entry /\ TipFetched(tx) # NoEntry
        /\ TipFetched(tx).coins = dbCoins[tx]
        /\ TipFetched(tx).dirty = FALSE /\ TipFetched(tx).fresh = FALSE
    <3>1. TipFetched(tx) \in Entry
      BY <1>1, <2>1 DEF Entry
    <3>2. TipFetched(tx) # NoEntry
      BY Zenon, <3>1, Entries
    <3> QED BY <2>1, <3>1, <3>2
  <2> QED BY Zenon, <1>1, <1>4, <2>2
<1> QED BY Zenon, <1>2, <1>3, <1>4

\* The same of the child, relative to what pcoinsTip shows.
LEMMA ChildFetch ==
    ASSUME CoinsTypeOK, FlagsMean, NEW tx \in TxId
    PROVE  /\ ChildFetched(tx) \in Entry \cup {NoEntry}
           /\ ChildFetched(tx) # NoEntry =>
                /\ ChildFetched(tx).coins = ChildView[tx]
                /\ ~ChildFetched(tx).dirty => ChildFetched(tx).coins = TipView[tx]
                /\ ChildFetched(tx).fresh => TipView[tx] = Pruned
           /\ ChildFetched(tx) = NoEntry => TipView[tx] = Pruned /\ ChildView[tx] = Pruned
           /\ child[tx] = NoEntry /\ ChildFetched(tx) # NoEntry => TipFetched(tx) # NoEntry
<1>1. CASE child[tx] # NoEntry
  BY Zenon, <1>1 DEF CoinsTypeOK, FlagsMean, ChildFetched, ChildView
<1>2. CASE child[tx] = NoEntry
  <2>1. ChildView[tx] = TipView[tx]
    BY Zenon, <1>2 DEF ChildView, TipView
  <2>2. TipView[tx] \in Coins
    BY Zenon DEF CoinsTypeOK, TipView, Entry
  <2>3. CASE TipFetched(tx) = NoEntry
    BY Zenon, <1>2, <2>1, <2>3, TipFetch DEF ChildFetched
  <2>4. CASE TipFetched(tx) # NoEntry
    <3>1. ChildFetched(tx) = [coins |-> TipView[tx], dirty |-> FALSE, fresh |-> TipView[tx] = Pruned]
      BY Zenon, <1>2, <2>4, TipFetch DEF ChildFetched, Copied
    <3>2. /\ ChildFetched(tx) \in Entry /\ ChildFetched(tx) # NoEntry
          /\ ChildFetched(tx).coins = TipView[tx]
          /\ ChildFetched(tx).dirty = FALSE
          /\ ChildFetched(tx).fresh = (TipView[tx] = Pruned)
      <4>1. ChildFetched(tx) \in Entry
        BY <3>1, <2>2 DEF Entry
      <4>2. ChildFetched(tx) # NoEntry
        BY Zenon, <4>1, Entries
      <4> QED BY <3>1, <4>1, <4>2
    <3> QED BY Zenon, <1>2, <2>1, <2>4, <3>2
  <2> QED BY Zenon, <2>3, <2>4
<1> QED BY Zenon, <1>1, <1>2

\* pcoinsTip after a read through it, or through the child.
LEMMA PulledIn ==
    ASSUME CoinsTypeOK, FlagsMean, NEW tx \in TxId, NEW v, v = TipFetched(tx) \/ v = tipCoins[tx],
           tipCoins' = [tipCoins EXCEPT ![tx] = v],
           UNCHANGED <<dbCoins, dbBest, tipBest>>
    PROVE  /\ tipCoins' \in [TxId -> Entry \cup {NoEntry}]
           /\ TipView' = TipView
           /\ TipGetBest' = TipGetBest
           /\ \A x \in TxId : tipCoins[x] # NoEntry => tipCoins'[x] # NoEntry
           /\ tipCoins'[tx] = v
           /\ \A x \in TxId : tipCoins'[x] # NoEntry =>
                /\ ~tipCoins'[x].dirty => tipCoins'[x].coins = dbCoins'[x]
                /\ tipCoins'[x].fresh => dbCoins'[x] = Pruned
<1>1. tipCoins' \in [TxId -> Entry \cup {NoEntry}] /\ tipCoins'[tx] = v
  BY Zenon, TipFetch DEF CoinsTypeOK
<1>2. \A x \in TxId : tipCoins'[x] = tipCoins[x] \/ (x = tx /\ tipCoins'[x] = TipFetched(tx) /\ tipCoins[x] = NoEntry)
  BY Zenon, TipFetch DEF CoinsTypeOK
<1>3. \A x \in TxId : (IF tipCoins'[x] # NoEntry THEN tipCoins'[x].coins ELSE dbCoins'[x]) = TipView[x]
  BY <1>2, TipFetch DEF TipView, TipFetched
<1>4. TipView' = TipView
  BY Zenon, <1>3 DEF TipView
<1> QED BY <1>1, <1>2, <1>4, TipFetch DEF CoinsTypeOK, FlagsMean, TipGetBest

\* One entry of BatchWrite: the parent shows what the child showed, and the
\* flags of the parent entry are right.
LEMMA MergedEntry ==
    ASSUME CoinsTypeOK, FlagsMean, ViewInv, NEW tx \in TxId
    PROVE  LET e == Merged(child[tx], tipCoins[tx])
           IN  /\ e \in Entry \cup {NoEntry}
               /\ (IF e # NoEntry THEN e.coins ELSE dbCoins[tx]) = ChildView[tx]
               /\ e # NoEntry => /\ ~e.dirty => e.coins = dbCoins[tx]
                                 /\ e.fresh => dbCoins[tx] = Pruned
<1> DEFINE c == child[tx]
           u == tipCoins[tx]
<1>1. /\ c \in Entry \cup {NoEntry}
      /\ u \in Entry \cup {NoEntry}
      /\ dbCoins[tx] \in Coins
      /\ ChildView[tx] = IF c # NoEntry THEN c.coins ELSE TipView[tx]
      /\ TipView[tx] = IF u # NoEntry THEN u.coins ELSE dbCoins[tx]
  BY Zenon DEF CoinsTypeOK, ChildView, TipView
<1>2. /\ c # NoEntry /\ ~c.dirty => c.coins = TipView[tx]
      /\ c # NoEntry /\ c.fresh => TipView[tx] = Pruned
      /\ c # NoEntry /\ ~c.fresh => u # NoEntry
      /\ u # NoEntry /\ ~u.dirty => u.coins = dbCoins[tx]
      /\ u # NoEntry /\ u.fresh => dbCoins[tx] = Pruned
  BY Zenon DEF FlagsMean, ViewInv
<1> HIDE DEF c, u
<1>3. CASE c = NoEntry
  BY Zenon, <1>1, <1>2, <1>3 DEF Merged, c, u
<1>4. CASE c # NoEntry /\ u = NoEntry
  <2>1. c \in Entry /\ c.fresh /\ TipView[tx] = Pruned /\ dbCoins[tx] = Pruned
    BY Zenon, <1>1, <1>2, <1>4, Entries
  <2>2. CASE ~c.dirty \/ c.coins = Pruned
    <3>1. Merged(c, u) = NoEntry
      BY Zenon, <1>4, <2>2 DEF Merged
    <3> QED BY Zenon, <1>1, <1>2, <1>4, <2>1, <2>2, <3>1 DEF c, u
  <2>3. CASE c.dirty /\ c.coins # Pruned
    <3>1. Merged(c, u) = [coins |-> c.coins, dirty |-> TRUE, fresh |-> TRUE]
      BY Zenon, <1>4, <2>3 DEF Merged
    <3>2. /\ Merged(c, u) \in Entry /\ Merged(c, u) # NoEntry
          /\ Merged(c, u).coins = c.coins /\ Merged(c, u).dirty
      <4>1. Merged(c, u) \in Entry
        BY <2>1, <3>1 DEF Entry
      <4>2. Merged(c, u) # NoEntry
        BY Zenon, <4>1, Entries
      <4> QED BY <3>1, <4>1, <4>2
    <3> QED BY Zenon, <1>1, <1>4, <2>1, <3>2 DEF c, u
  <2> QED BY Zenon, <2>1, <2>2, <2>3, Entries
<1>5. CASE c # NoEntry /\ u # NoEntry
  <2>1. c \in Entry /\ u \in Entry
    BY Zenon, <1>1, <1>5
  <2>2. CASE ~c.dirty
    <3>1. Merged(c, u) = u
      BY Zenon, <1>5, <2>2 DEF Merged
    <3> QED BY Zenon, <1>1, <1>2, <1>5, <2>2, <3>1 DEF c, u
  <2>3. CASE c.dirty /\ u.fresh /\ c.coins = Pruned
    <3>1. Merged(c, u) = NoEntry
      BY Zenon, <1>5, <2>3 DEF Merged
    <3> QED BY Zenon, <1>1, <1>2, <1>5, <2>3, <3>1 DEF c, u
  <2>4. CASE c.dirty /\ ~(u.fresh /\ c.coins = Pruned)
    <3>1. Merged(c, u) = [coins |-> c.coins, dirty |-> TRUE, fresh |-> u.fresh]
      <4>1. Merged(c, u) = [u EXCEPT !.coins = c.coins, !.dirty = TRUE]
        BY Zenon, <1>5, <2>4 DEF Merged
      <4> QED BY Zenon, <2>1, <4>1 DEF Entry
    <3>2. /\ Merged(c, u) \in Entry /\ Merged(c, u) # NoEntry
          /\ Merged(c, u).coins = c.coins /\ Merged(c, u).dirty
          /\ Merged(c, u).fresh = u.fresh
      <4>1. Merged(c, u) \in Entry
        BY <2>1, <3>1 DEF Entry
      <4>2. Merged(c, u) # NoEntry
        BY Zenon, <4>1, Entries
      <4> QED BY <3>1, <4>1, <4>2
    <3> QED BY Zenon, <1>1, <1>2, <1>5, <3>2 DEF c, u
  <2> QED BY Zenon, <2>1, <2>2, <2>3, <2>4, Entries
<1> QED BY Zenon, <1>3, <1>4, <1>5

-----------------------------------------------------------------------------
\* The child gets an entry with honest flags while pcoinsTip shows what it did.
LEMMA ChildStep ==
    ASSUME CoinsIInv, open, NEW tx \in TxId, NEW e \in Entry \cup {NoEntry},
           NEW v, v = TipFetched(tx) \/ v = tipCoins[tx],
           tipCoins' = [tipCoins EXCEPT ![tx] = v],
           child' = [child EXCEPT ![tx] = e],
           UNCHANGED <<dbCoins, dbBest, tipBest, open, childBest>>,
           e # NoEntry => /\ ~e.dirty => e.coins = TipView[tx]
                          /\ e.fresh => TipView[tx] = Pruned
                          /\ ~e.fresh => v # NoEntry
    PROVE  /\ CoinsIInv'
           /\ TipView' = TipView /\ TipGetBest' = TipGetBest
           /\ ChildView' = [ChildView EXCEPT ![tx] = IF e # NoEntry THEN e.coins ELSE TipView[tx]]
<1>1. CoinsTypeOK /\ FlagsMean /\ ViewInv
  BY Zenon DEF CoinsIInv
<1>2. /\ tipCoins' \in [TxId -> Entry \cup {NoEntry}]
      /\ TipView' = TipView
      /\ TipGetBest' = TipGetBest
      /\ \A x \in TxId : tipCoins[x] # NoEntry => tipCoins'[x] # NoEntry
      /\ tipCoins'[tx] = v
      /\ \A x \in TxId : tipCoins'[x] # NoEntry =>
                /\ ~tipCoins'[x].dirty => tipCoins'[x].coins = dbCoins'[x]
                /\ tipCoins'[x].fresh => dbCoins'[x] = Pruned
  BY Zenon, <1>1, PulledIn
<1>3. \A x \in TxId : child'[x] = IF x = tx THEN e ELSE child[x]
  BY Zenon, <1>1 DEF CoinsTypeOK
<1>4. CoinsTypeOK'
  BY Zenon, <1>1, <1>2 DEF CoinsTypeOK
<1>5. FlagsMean'
  BY <1>1, <1>2, <1>3 DEF FlagsMean
<1>6. ViewInv'
  BY <1>1, <1>2, <1>3 DEF ViewInv
<1>7. DatabaseRepresentsBest' /\ TipRepresentsBest'
  BY Zenon, <1>2 DEF CoinsIInv, DatabaseRepresentsBest, TipRepresentsBest
<1>8. \A x \in TxId : (IF child'[x] # NoEntry THEN child'[x].coins ELSE TipView[x])
                  = [ChildView EXCEPT ![tx] = IF e # NoEntry THEN e.coins ELSE TipView[tx]][x]
  BY <1>3 DEF ChildView, TipView
<1>9. ChildView' = [x \in TxId |-> IF child'[x] # NoEntry THEN child'[x].coins ELSE TipView'[x]]
  BY DEF ChildView, TipView
<1>10. [ChildView EXCEPT ![tx] = IF e # NoEntry THEN e.coins ELSE TipView[tx]]
       = [x \in TxId |-> [ChildView EXCEPT ![tx] = IF e # NoEntry THEN e.coins ELSE TipView[tx]][x]]
  BY Zenon DEF ChildView
<1>11. ChildView' = [ChildView EXCEPT ![tx] = IF e # NoEntry THEN e.coins ELSE TipView[tx]]
  BY Zenon, <1>2, <1>8, <1>9, <1>10
<1> QED BY Zenon, <1>2, <1>4, <1>5, <1>6, <1>7, <1>11 DEF CoinsIInv

\* A read of pcoinsTip shows nobody anything new.
LEMMA FetchTipStep ==
    ASSUME CoinsIInv, NEW tx \in TxId, FetchTip(tx)
    PROVE  CoinsIInv' /\ TipView' = TipView /\ TipGetBest' = TipGetBest /\ ChildView' = ChildView
<1>1. CoinsTypeOK /\ FlagsMean /\ ViewInv
  BY Zenon DEF CoinsIInv
<1>2. /\ tipCoins' \in [TxId -> Entry \cup {NoEntry}]
      /\ TipView' = TipView
      /\ TipGetBest' = TipGetBest
      /\ \A x \in TxId : tipCoins[x] # NoEntry => tipCoins'[x] # NoEntry
      /\ \A x \in TxId : tipCoins'[x] # NoEntry =>
                /\ ~tipCoins'[x].dirty => tipCoins'[x].coins = dbCoins'[x]
                /\ tipCoins'[x].fresh => dbCoins'[x] = Pruned
  BY Zenon, <1>1, PulledIn DEF FetchTip
<1>3. CoinsTypeOK' /\ FlagsMean' /\ ViewInv'
  BY Zenon, <1>1, <1>2 DEF CoinsTypeOK, FlagsMean, ViewInv, FetchTip
<1>4. DatabaseRepresentsBest' /\ TipRepresentsBest'
  BY Zenon, <1>2 DEF CoinsIInv, DatabaseRepresentsBest, TipRepresentsBest, FetchTip
<1>5. ChildView = [x \in TxId |-> IF child[x] # NoEntry THEN child[x].coins ELSE TipView[x]]
      /\ ChildView' = [x \in TxId |-> IF child'[x] # NoEntry THEN child'[x].coins ELSE TipView'[x]]
  BY Zenon DEF ChildView, TipView
<1>6. ChildView' = ChildView
  BY Zenon, <1>2, <1>5 DEF FetchTip
<1> QED BY Zenon, <1>2, <1>3, <1>4, <1>6 DEF CoinsIInv

\* Neither does a read through the child.
LEMMA FetchChildStep ==
    ASSUME CoinsIInv, NEW tx \in TxId, FetchChild(tx)
    PROVE  CoinsIInv' /\ TipView' = TipView /\ TipGetBest' = TipGetBest /\ ChildView' = ChildView
<1> DEFINE e == ChildFetched(tx)
           v == IF child[tx] = NoEntry THEN TipFetched(tx) ELSE tipCoins[tx]
<1>1. CoinsTypeOK /\ FlagsMean /\ ViewInv
  BY Zenon DEF CoinsIInv
<1>2. /\ e \in Entry \cup {NoEntry}
      /\ e # NoEntry => /\ e.coins = ChildView[tx]
                        /\ ~e.dirty => e.coins = TipView[tx]
                        /\ e.fresh => TipView[tx] = Pruned
      /\ e = NoEntry => TipView[tx] = Pruned /\ ChildView[tx] = Pruned
      /\ child[tx] = NoEntry /\ e # NoEntry => TipFetched(tx) # NoEntry
  BY Zenon, <1>1, ChildFetch
<1>3. e # NoEntry /\ ~e.fresh => v # NoEntry
  BY Zenon, <1>1, <1>2 DEF ViewInv, ChildFetched
<1>4. v = TipFetched(tx) \/ v = tipCoins[tx]
  OBVIOUS
<1>5. tipCoins' = [tipCoins EXCEPT ![tx] = v] /\ child' = [child EXCEPT ![tx] = e]
      /\ UNCHANGED <<dbCoins, dbBest, tipBest, open, childBest>> /\ open
  BY Zenon DEF FetchChild
<1> HIDE DEF e, v
<1>6. CoinsIInv' /\ TipView' = TipView /\ TipGetBest' = TipGetBest
      /\ ChildView' = [ChildView EXCEPT ![tx] = IF e # NoEntry THEN e.coins ELSE TipView[tx]]
  BY Zenon, <1>2, <1>3, <1>4, <1>5, ChildStep
<1>7. ChildView[tx] = IF e # NoEntry THEN e.coins ELSE TipView[tx]
  BY Zenon, <1>2
<1>8. ChildView = [ChildView EXCEPT ![tx] = ChildView[tx]]
  BY Zenon DEF ChildView
<1> QED BY Zenon, <1>6, <1>7, <1>8

\* A modification is seen through the child and only there.
LEMMA ModifyStep ==
    ASSUME CoinsIInv, NEW tx \in TxId, NEW c \in Coins, ModifyCoins(tx, c)
    PROVE  CoinsIInv' /\ TipView' = TipView /\ TipGetBest' = TipGetBest
           /\ ChildView' = [ChildView EXCEPT ![tx] = c]
<1> DEFINE f == ChildFetched(tx)
           m == ToModify(tx)
           e == Modified(ToModify(tx), c)
           v == IF child[tx] = NoEntry THEN TipFetched(tx) ELSE tipCoins[tx]
<1>1. CoinsTypeOK /\ FlagsMean /\ ViewInv
  BY Zenon DEF CoinsIInv
<1>2. /\ f \in Entry \cup {NoEntry}
      /\ f # NoEntry /\ f.fresh => TipView[tx] = Pruned
      /\ f = NoEntry => TipView[tx] = Pruned
      /\ child[tx] = NoEntry /\ f # NoEntry => TipFetched(tx) # NoEntry
      /\ child[tx] # NoEntry => f = child[tx]
  BY Zenon, <1>1, ChildFetch DEF ChildFetched
<1>3. m \in Entry /\ m.dirty /\ (m.fresh => TipView[tx] = Pruned) /\ (~m.fresh => f # NoEntry /\ ~f.fresh)
  <2>1. CASE f = NoEntry
    <3>1. m = [coins |-> Pruned, dirty |-> TRUE, fresh |-> TRUE]
      BY Zenon, <2>1 DEF ToModify
    <3>2. m \in Entry
      BY Zenon, <3>1, Entries DEF Entry
    <3> QED BY <1>2, <2>1, <3>1, <3>2
  <2>2. CASE f # NoEntry
    <3>1. f \in Entry
      BY Zenon, <1>2, <2>2
    <3>2. m = [f EXCEPT !.dirty = TRUE]
      BY Zenon, <2>2 DEF ToModify
    <3>3. m \in Entry /\ m.dirty /\ m.fresh = f.fresh
      BY Zenon, <3>1, <3>2 DEF Entry
    <3> QED BY Zenon, <1>2, <2>2, <3>3
  <2> QED BY Zenon, <2>1, <2>2
<1>4. ~m.fresh => v # NoEntry
  BY Zenon, <1>1, <1>2, <1>3 DEF ViewInv
<1>5. v = TipFetched(tx) \/ v = tipCoins[tx]
  OBVIOUS
<1>6. tipCoins' = [tipCoins EXCEPT ![tx] = v] /\ child' = [child EXCEPT ![tx] = e]
      /\ UNCHANGED <<dbCoins, dbBest, tipBest, open, childBest>> /\ open
  BY Zenon DEF ModifyCoins
<1>7. CASE m.fresh /\ c = Pruned
  <2>1. e = NoEntry
    BY Zenon, <1>7 DEF Modified
  <2> HIDE DEF e, v, m, f
  <2> QED BY Zenon, <1>3, <1>5, <1>6, <1>7, <2>1, ChildStep
<1>8. CASE ~(m.fresh /\ c = Pruned)
  <2>1. e = [m EXCEPT !.coins = c]
    BY Zenon, <1>8 DEF Modified
  <2>2. e \in Entry /\ e.coins = c /\ e.dirty /\ e.fresh = m.fresh
    <3> HIDE DEF e, m
    <3> QED BY Zenon, <1>3, <2>1 DEF Entry
  <2>3. e # NoEntry
    <3> HIDE DEF e
    <3> QED BY Zenon, <2>2, Entries
  <2> HIDE DEF e, v, m, f
  <2> QED BY Zenon, <1>3, <1>4, <1>5, <1>6, <2>2, <2>3, ChildStep
<1> QED BY Zenon, <1>7, <1>8

\* An empty cache shows what is below it, and a closed view shows pcoinsTip.
LEMMA EmptyCaches ==
    ASSUME CoinsTypeOK
    PROVE  /\ child = EmptyCache => ChildView = TipView
           /\ tipCoins = EmptyCache => TipView = dbCoins
           /\ (child = EmptyCache => ChildView = TipView)'
           /\ dbCoins' \in [TxId -> Coins] => (tipCoins = EmptyCache => TipView = dbCoins)'
BY Zenon DEF CoinsTypeOK, EmptyCache, ChildView, TipView

\* A new view is empty and finds the best block of pcoinsTip.
LEMMA OpenStep ==
    ASSUME CoinsIInv, OpenView
    PROVE  CoinsIInv' /\ TipView' = TipView /\ TipGetBest' = TipGetBest
           /\ ChildView' = TipView' /\ childBest' = TipGetBest
<1>1. CoinsTypeOK /\ FlagsMean /\ ViewInv /\ TipGetBest \in BlockHash
  BY Zenon DEF CoinsIInv, CoinsTypeOK, TipGetBest
<1>2. TipView' = TipView /\ TipGetBest' = TipGetBest
  BY Zenon, <1>1, CoinsAssumption DEF OpenView, TipView, TipGetBest, CoinsTypeOK
<1>3. CoinsTypeOK'
  BY Zenon, <1>1 DEF OpenView, CoinsTypeOK, EmptyCache
<1>4. FlagsMean' /\ ViewInv'
  BY Zenon, <1>1, <1>2 DEF OpenView, FlagsMean, ViewInv, EmptyCache
<1>5. DatabaseRepresentsBest' /\ TipRepresentsBest'
  BY Zenon, <1>2 DEF OpenView, CoinsIInv, DatabaseRepresentsBest, TipRepresentsBest
<1>6. ChildView' = TipView'
  BY Zenon, <1>1, EmptyCaches DEF OpenView
<1> QED BY Zenon, <1>2, <1>3, <1>4, <1>5, <1>6 DEF CoinsIInv, OpenView

\* Flushing the view makes pcoinsTip show it, with its best block.
LEMMA FlushViewStep ==
    ASSUME CoinsIInv, NEW b \in BlockHash, FlushView(b)
    PROVE  CoinsIInv' /\ TipView' = ChildView /\ TipGetBest' = b
<1>1. CoinsTypeOK /\ FlagsMean /\ ViewInv
  BY Zenon DEF CoinsIInv
<1>2. \A tx \in TxId :
        /\ tipCoins'[tx] \in Entry \cup {NoEntry}
        /\ (IF tipCoins'[tx] # NoEntry THEN tipCoins'[tx].coins ELSE dbCoins'[tx]) = ChildView[tx]
        /\ tipCoins'[tx] # NoEntry =>
            /\ ~tipCoins'[tx].dirty => tipCoins'[tx].coins = dbCoins'[tx]
            /\ tipCoins'[tx].fresh => dbCoins'[tx] = Pruned
  <2> SUFFICES ASSUME NEW tx \in TxId
               PROVE  /\ tipCoins'[tx] \in Entry \cup {NoEntry}
                      /\ (IF tipCoins'[tx] # NoEntry THEN tipCoins'[tx].coins ELSE dbCoins'[tx]) = ChildView[tx]
                      /\ tipCoins'[tx] # NoEntry =>
                          /\ ~tipCoins'[tx].dirty => tipCoins'[tx].coins = dbCoins'[tx]
                          /\ tipCoins'[tx].fresh => dbCoins'[tx] = Pruned
    OBVIOUS
  <2>1. tipCoins'[tx] = Merged(child[tx], tipCoins[tx]) /\ dbCoins' = dbCoins
    BY Zenon DEF FlushView
  <2> QED BY Zenon, <1>1, <2>1, MergedEntry
<1>3. TipView' = ChildView
  BY Zenon, <1>2 DEF TipView, ChildView
<1>4. CoinsTypeOK'
  <2>1. tipCoins' \in [TxId -> Entry \cup {NoEntry}]
    BY Zenon, <1>2 DEF FlushView
  <2> QED BY Zenon, <1>1, <2>1 DEF FlushView, CoinsTypeOK, EmptyCache
<1>5. FlagsMean' /\ ViewInv'
  <2>1. child' = EmptyCache /\ open' = FALSE /\ dbCoins' = dbCoins
    BY Zenon DEF FlushView
  <2>2. \A tx \in TxId : child'[tx] = NoEntry
    BY Zenon, <2>1 DEF EmptyCache
  <2>3. FlagsMean'
    BY Zenon, <1>2, <2>1, <2>2 DEF FlagsMean
  <2>4. ViewInv'
    BY Zenon, <2>1, <2>2 DEF ViewInv, EmptyCache
  <2> QED BY Zenon, <2>3, <2>4
<1>6. TipGetBest' = b
  BY Zenon, CoinsAssumption DEF FlushView, TipGetBest
<1>7. DatabaseRepresentsBest' /\ TipRepresentsBest'
  BY Zenon, <1>3, <1>6 DEF FlushView, CoinsIInv, DatabaseRepresentsBest, TipRepresentsBest
<1> QED BY Zenon, <1>3, <1>4, <1>5, <1>6, <1>7 DEF CoinsIInv

\* Dropping the view leaves no trace.
LEMMA DiscardStep ==
    ASSUME CoinsIInv, DiscardView
    PROVE  CoinsIInv' /\ TipView' = TipView /\ TipGetBest' = TipGetBest
<1>1. TipView' = TipView /\ TipGetBest' = TipGetBest
  BY Zenon DEF DiscardView, TipView, TipGetBest
<1>2. CoinsTypeOK' /\ FlagsMean' /\ ViewInv'
  BY Zenon DEF CoinsIInv, DiscardView, CoinsTypeOK, FlagsMean, ViewInv, EmptyCache
<1>3. DatabaseRepresentsBest' /\ TipRepresentsBest'
  BY Zenon, <1>1 DEF DiscardView, CoinsIInv, DatabaseRepresentsBest, TipRepresentsBest
<1> QED BY Zenon, <1>1, <1>2, <1>3 DEF CoinsIInv

\* Flushing pcoinsTip makes the database hold what pcoinsTip showed.
LEMMA FlushTipStep ==
    ASSUME CoinsIInv, FlushTip
    PROVE  CoinsIInv' /\ dbCoins' = TipView /\ dbBest' = TipGetBest
           /\ TipView' = TipView /\ TipGetBest' = TipGetBest
<1>1. CoinsTypeOK /\ FlagsMean /\ ViewInv /\ TipGetBest \in BlockHash
  BY Zenon DEF CoinsIInv, CoinsTypeOK, TipGetBest
<1>2. \A tx \in TxId : Batch(tx) = TipView[tx]
  BY Zenon, <1>1 DEF CoinsTypeOK, FlagsMean, Batch, TipView
<1>3. dbCoins' = TipView
  BY Zenon, <1>2 DEF FlushTip, TipView
<1>4. TipView \in [TxId -> Coins]
  <2>1. \A tx \in TxId : TipView[tx] \in Coins
    BY Zenon, <1>1, Entries DEF CoinsTypeOK, TipView
  <2> QED BY Zenon, <2>1 DEF TipView
<1>5. TipView' = TipView
  BY Zenon, <1>1, <1>3, <1>4, EmptyCaches DEF FlushTip
<1>6. TipGetBest' = TipGetBest /\ dbBest' = TipGetBest
  BY Zenon DEF FlushTip, TipGetBest
<1>7. CoinsTypeOK'
  BY Zenon, <1>1, <1>3, <1>4 DEF FlushTip, CoinsTypeOK, EmptyCache
<1>8. FlagsMean' /\ ViewInv'
  BY Zenon, <1>1 DEF FlushTip, FlagsMean, ViewInv, EmptyCache
<1>9. DatabaseRepresentsBest' /\ TipRepresentsBest'
  BY Zenon, <1>3, <1>5, <1>6 DEF CoinsIInv, DatabaseRepresentsBest, TipRepresentsBest
<1> QED BY Zenon, <1>3, <1>5, <1>6, <1>7, <1>8, <1>9 DEF CoinsIInv

\* After a crash every view shows the database.
LEMMA CrashStep ==
    ASSUME CoinsIInv, CoinsCrash
    PROVE  CoinsIInv' /\ TipView' = dbCoins /\ TipGetBest' = dbBest
<1>1. CoinsTypeOK'
  BY Zenon DEF CoinsIInv, CoinsCrash, CoinsTypeOK, EmptyCache
<1>2. TipView' = dbCoins /\ TipGetBest' = dbBest
  BY Zenon, EmptyCaches DEF CoinsIInv, CoinsCrash, CoinsTypeOK, TipGetBest
<1>3. FlagsMean' /\ ViewInv'
  BY Zenon DEF CoinsCrash, FlagsMean, ViewInv, EmptyCache
<1>4. DatabaseRepresentsBest' /\ TipRepresentsBest'
  BY Zenon, <1>2 DEF CoinsIInv, CoinsCrash, DatabaseRepresentsBest, TipRepresentsBest
<1> QED BY Zenon, <1>1, <1>2, <1>3, <1>4 DEF CoinsIInv

-----------------------------------------------------------------------------
\* The invariant holds initially and in every reachable state.
THEOREM CoinsInvariance == CoinsSpec => []CoinsIInv
<1>1. CoinsInit => CoinsIInv
  <2> SUFFICES ASSUME CoinsInit PROVE CoinsIInv
    OBVIOUS
  <2>1. CoinsTypeOK
    BY Zenon, CoinsAssumption DEF CoinsInit, CoinsTypeOK, EmptyCache
  <2>2. TipView = dbCoins /\ TipGetBest = dbBest
    BY Zenon, <2>1, EmptyCaches DEF CoinsInit, TipGetBest
  <2>3. FlagsMean /\ ViewInv
    BY Zenon DEF CoinsInit, FlagsMean, ViewInv, EmptyCache
  <2> QED BY Zenon, <2>1, <2>2, <2>3 DEF CoinsInit, CoinsIInv, DatabaseRepresentsBest, TipRepresentsBest
<1>2. CoinsIInv /\ [CoinsNext]_coinsVars => CoinsIInv'
  <2> SUFFICES ASSUME CoinsIInv, [CoinsNext]_coinsVars PROVE CoinsIInv'
    OBVIOUS
  <2>1. CASE UNCHANGED coinsVars
    <3>1. UNCHANGED <<dbCoins, dbBest, tipCoins, tipBest, child, childBest, open>>
      BY Zenon, <2>1 DEF coinsVars
    <3>2. TipView' = TipView /\ TipGetBest' = TipGetBest
      BY Zenon, <3>1 DEF TipView, TipGetBest
    <3>3. CoinsTypeOK' /\ FlagsMean' /\ ViewInv'
      BY Zenon, <3>1, <3>2 DEF CoinsIInv, CoinsTypeOK, FlagsMean, ViewInv
    <3>4. DatabaseRepresentsBest' /\ TipRepresentsBest'
      BY Zenon, <3>1, <3>2 DEF CoinsIInv, DatabaseRepresentsBest, TipRepresentsBest
    <3> QED BY Zenon, <3>3, <3>4 DEF CoinsIInv
  <2>2. CASE CoinsNext
    BY Zenon, <2>2, FetchTipStep, FetchChildStep, ModifyStep, OpenStep, FlushViewStep,
       DiscardStep, FlushTipStep, CrashStep DEF CoinsNext
  <2> QED BY Zenon, <2>1, <2>2
<1> QED BY <1>1, <1>2, PTL DEF CoinsSpec

\* DIRTY and FRESH mean what coins.h says in both caches.
THEOREM FlagsCorrect == CoinsSpec => []FlagsMean
<1>1. CoinsIInv => FlagsMean
  BY Zenon DEF CoinsIInv
<1> QED BY <1>1, CoinsInvariance, PTL

\* The assert of CCoinsViewCache::BatchWrite cannot fail.
THEOREM AssertCorrect == CoinsSpec => []BatchWriteAssert
<1>1. CoinsIInv => BatchWriteAssert
  BY Zenon DEF CoinsIInv, ViewInv, BatchWriteAssert
<1> QED BY <1>1, CoinsInvariance, PTL

\* The coin database holds the coins of the block it names, at any moment a
\* crash may strike.
THEOREM DatabaseCorrect == CoinsSpec => []DatabaseRepresentsBest
<1>1. CoinsIInv => DatabaseRepresentsBest
  BY Zenon DEF CoinsIInv
<1> QED BY <1>1, CoinsInvariance, PTL

\* The caches over the database implement the flat views of CoinsView.
THEOREM Refinement == CoinsSpec => ImplementsView
<1> DEFINE W == IF open THEN [coins |-> ChildView, best |-> childBest] ELSE tipVersion
           A == tipVersion
           D == [coins |-> dbCoins, best |-> dbBest]
<1>1. CoinsInit => View!Init
  <2> SUFFICES ASSUME CoinsInit PROVE View!Init
    OBVIOUS
  <2>1. CoinsTypeOK
    BY Zenon, CoinsAssumption DEF CoinsInit, CoinsTypeOK, EmptyCache
  <2>2. TipView = dbCoins /\ TipGetBest = dbBest /\ ~open
    BY Zenon, <2>1, EmptyCaches DEF CoinsInit, TipGetBest
  <2>3. A = D /\ W = D
    BY Zenon, <2>2 DEF tipVersion
  <2>4. D \in View!Version /\ View!Represents(D)
    BY Zenon, <2>1 DEF View!Version, View!Represents, CoinsInit, CoinsTypeOK
  <2> QED BY Zenon, <2>3, <2>4 DEF View!Init
<1>2. CoinsIInv /\ [CoinsNext]_coinsVars => [View!Next]_(View!vars)
  <2> SUFFICES ASSUME CoinsIInv, [CoinsNext]_coinsVars PROVE View!Next \/ UNCHANGED View!vars
    OBVIOUS
  <2>1. CASE UNCHANGED coinsVars
    BY Zenon, <2>1 DEF coinsVars, View!vars, tipVersion, TipView, TipGetBest, ChildView
  <2>2. ASSUME NEW tx \in TxId, FetchTip(tx) \/ FetchChild(tx) PROVE UNCHANGED View!vars
    <3>1. TipView' = TipView /\ TipGetBest' = TipGetBest /\ ChildView' = ChildView
      BY Zenon, <2>2, FetchTipStep, FetchChildStep
    <3>2. UNCHANGED <<dbCoins, dbBest, open, childBest>>
      BY Zenon, <2>2 DEF FetchTip, FetchChild
    <3> QED BY Zenon, <3>1, <3>2 DEF View!vars, tipVersion
  <2>3. ASSUME NEW tx \in TxId, NEW c \in Coins, ModifyCoins(tx, c) PROVE View!Modify(tx, c)
    <3>1. TipView' = TipView /\ TipGetBest' = TipGetBest
          /\ ChildView' = [ChildView EXCEPT ![tx] = c]
      BY Zenon, <2>3, ModifyStep
    <3>2. open /\ UNCHANGED <<dbCoins, dbBest, open, childBest>>
      BY Zenon, <2>3 DEF ModifyCoins
    <3>3. W = [coins |-> ChildView, best |-> childBest]
          /\ W' = [coins |-> ChildView', best |-> childBest]
      BY Zenon, <3>2
    <3>4. W' = [W EXCEPT !.coins[tx] = c]
      BY <3>1, <3>3
    <3>5. A' = A /\ D' = D
      BY Zenon, <3>1, <3>2 DEF tipVersion
    <3> QED BY Zenon, <3>4, <3>5 DEF View!Modify
  <2>4. ASSUME NEW b \in BlockHash, FlushView(b) PROVE View!Commit(b)
    <3>1. TipView' = ChildView /\ TipGetBest' = b
      BY Zenon, <2>4, FlushViewStep
    <3>2. open /\ ~open' /\ ChildView = CoinsAt[b] /\ UNCHANGED <<dbCoins, dbBest>>
      BY Zenon, <2>4 DEF FlushView
    <3>3. W = [coins |-> ChildView, best |-> childBest] /\ W' = tipVersion'
      BY Zenon, <3>2
    <3>4. tipVersion' = [coins |-> ChildView, best |-> b]
      BY Zenon, <3>1 DEF tipVersion
    <3>5. W' = [W EXCEPT !.best = b] /\ A' = W' /\ D' = D /\ W.coins = CoinsAt[b]
      BY <3>2, <3>3, <3>4
    <3> QED BY Zenon, <3>5 DEF View!Commit
  <2>5. CASE OpenView
    <3>1. TipView' = TipView /\ TipGetBest' = TipGetBest
          /\ ChildView' = TipView' /\ childBest' = TipGetBest
      BY Zenon, <2>5, OpenStep
    <3>2. ~open /\ open' /\ UNCHANGED <<dbCoins, dbBest>>
      BY Zenon, <2>5 DEF OpenView
    <3> QED BY Zenon, <3>1, <3>2 DEF View!vars, tipVersion
  <2>6. CASE DiscardView
    <3>1. TipView' = TipView /\ TipGetBest' = TipGetBest
      BY Zenon, <2>6, DiscardStep
    <3>2. ~open' /\ UNCHANGED <<dbCoins, dbBest>>
      BY Zenon, <2>6 DEF DiscardView
    <3>3. View!Discard
      BY Zenon, <3>1, <3>2 DEF View!Discard, tipVersion
    <3> QED BY Zenon, <3>3 DEF View!Next
  <2>7. CASE FlushTip
    <3>1. dbCoins' = TipView /\ dbBest' = TipGetBest /\ TipView' = TipView /\ TipGetBest' = TipGetBest
      BY Zenon, <2>7, FlushTipStep
    <3>2. ~open /\ ~open'
      BY Zenon, <2>7 DEF FlushTip
    <3>3. View!Sync
      BY Zenon, <3>1, <3>2 DEF View!Sync, tipVersion
    <3> QED BY Zenon, <3>3 DEF View!Next
  <2>8. CASE CoinsCrash
    <3>1. TipView' = dbCoins /\ TipGetBest' = dbBest
      BY Zenon, <2>8, CrashStep
    <3>2. ~open' /\ UNCHANGED <<dbCoins, dbBest>>
      BY Zenon, <2>8 DEF CoinsCrash
    <3>3. View!Crash
      BY Zenon, <3>1, <3>2 DEF View!Crash, tipVersion
    <3> QED BY Zenon, <3>3 DEF View!Next
  <2> QED BY Zenon, <2>1, <2>2, <2>3, <2>4, <2>5, <2>6, <2>7, <2>8 DEF CoinsNext, View!Next
<1> QED BY <1>1, <1>2, CoinsInvariance, PTL DEF CoinsSpec, ImplementsView, View!Spec

-----------------------------------------------------------------------------
(* Mempool.                                                                 *)

\* DisconnectTip has offered all of the block to the pool but resurrect, of which
\* nothing is in the pool.
Offered == Len(Vtx[tip]) - Len(resurrect)

\* Between DisconnectBlock and the end of DisconnectTip: pcoinsTip shows the
\* parent, and what is left to offer is the end of the block, none of it pooled.
Resurrecting ==
    /\ tip # Genesis /\ coinsTip = Parent[tip]
    /\ Offered \in Nat
    /\ \A i \in 1 .. Len(resurrect) : resurrect[i] = Vtx[tip][Offered + i] /\ resurrect[i] \notin mapTx

\* chainActive and pcoinsTip agree but in the middle of DisconnectTip.
PoolShape ==
    /\ tip \in Block /\ coinsTip \in Block /\ db \in Block
    /\ resurrect \in Seq(Tx) /\ phase \in {"idle", "resurrect"}
    /\ phase = "idle" => coinsTip = tip
    /\ phase = "resurrect" => Resurrecting

\* No pool transaction is a coinbase or confirmed in the chain of pcoinsTip.
PoolClean == mapTx \cap (Coinbase \cup Confirmed(coinsTip)) = {}

\* The index, the size and their types.
Indexed == mapTx \subseteq Tx /\ NextTxExact /\ SizeExact

\* The inductive invariant of what holds whatever the pool was asked to accept.
PoolIInv == Indexed /\ PoolShape /\ PoolClean

\* In the middle of DisconnectTip: what the pool spends is available or is still
\* to be offered, the pool spends nothing that what is still to be offered spends,
\* and what has been offered is in the pool.
Restored ==
    /\ \A t \in mapTx : \A o \in Ins[t] :
        InputAvailable(o) \/ \E j \in 1 .. Len(resurrect) : o \in Outs[resurrect[j]]
    /\ \A t \in mapTx : \A j \in 1 .. Len(resurrect) : Ins[t] \cap Ins[resurrect[j]] = {}
    /\ \A i \in 1 .. Offered : Vtx[tip][i] \in mapTx \cup Coinbase

\* The inductive invariant of the asserts of check.
PoolCInv == InputsAvailable /\ PoolMature /\ (phase = "resurrect" => Restored)

\* AcceptToMemoryPool's policy (fees, standardness, the size of the pool) would
\* take back every transaction of a block.  Where it would not, DisconnectTip
\* loses the transaction, as the code intends.
PolicyKeeps == \A b \in Block \ {Genesis} : VtxSet(b) \cap Refusable = {}
\* No pool transaction spends the coinbase of the tip.  With a COINBASE_MATURITY
\* of 1 the pool accepts such a spend and DisconnectTip leaves it behind, its
\* input gone: the finding that PoolCoinbase.cfg shows.
CoinbaseUnspent ==
    tip # Genesis => \A t \in mapTx, c \in VtxSet(tip) \cap Coinbase : Ins[t] \cap Outs[c] = {}

-----------------------------------------------------------------------------
(* The tree of blocks.                                                      *)

\* The transactions of a block and of a chain are transactions.
LEMMA ChainTx ==
    ASSUME NEW b \in Block
    PROVE  /\ Chain[b] \subseteq Block /\ b \in Chain[b]
           /\ Vtx[b] \in Seq(Tx)
           /\ VtxSet(b) \subseteq Tx /\ VtxSet(b) \subseteq Confirmed(b)
           /\ Confirmed(b) \subseteq Tx
<1>1. Chain[b] \subseteq Block /\ b \in Chain[b]
  <2>1. CASE b = Genesis
    BY Zenon, <2>1, ChainAssumption DEF MempoolAssumption
  <2>2. Chain[b] \subseteq Block
    BY Zenon, ChainAssumption DEF MempoolAssumption
  <2>3. CASE b # Genesis
    <3>1. Chain[b] = Chain[Parent[b]] \cup {b}
      BY Zenon, <2>3, ChainAssumption DEF MempoolAssumption
    <3> QED BY Zenon, <3>1, <2>2
  <2> QED BY Zenon, <2>1, <2>3
<1>2. \A c \in Block : Vtx[c] \in Seq(Tx) /\ VtxSet(c) \subseteq Tx
  BY ChainAssumption DEF MempoolAssumption, VtxSet
<1> QED BY Zenon, <1>1, <1>2 DEF Confirmed

\* A block confirms what its parent does and its own transactions.
LEMMA ChainStep ==
    ASSUME NEW b \in Block, b # Genesis
    PROVE  /\ Parent[b] \in Block /\ Parent[b] # b
           /\ Confirmed(b) = Confirmed(Parent[b]) \cup VtxSet(b)
           /\ Height[b] = Height[Parent[b]] + 1 /\ Height[Parent[b]] \in Nat
           /\ Valid(b)
<1>1. /\ Parent[b] \in Block /\ Chain[b] = Chain[Parent[b]] \cup {b}
      /\ b \notin Chain[Parent[b]]
      /\ Height[b] = Height[Parent[b]] + 1 /\ Height[Parent[b]] \in Nat
      /\ Valid(b)
  BY Zenon, ChainAssumption DEF MempoolAssumption
<1>2. Parent[b] # b
  BY Zenon, <1>1, ChainTx
<1>3. Confirmed(b) = Confirmed(Parent[b]) \cup VtxSet(b)
  BY Zenon, <1>1 DEF Confirmed
<1> QED BY Zenon, <1>1, <1>2, <1>3

\* An outpoint is created by one transaction.
LEMMA OneCreator ==
    ASSUME NEW t \in Tx, NEW u \in Tx, NEW o, o \in Outs[t], o \in Outs[u]
    PROVE  t = u
  BY Zenon, ChainAssumption DEF MempoolAssumption

\* What a confirmed transaction spends was created by a confirmed one, and is spent.
LEMMA SpentByChain ==
    ASSUME NEW b \in Block, NEW t \in Confirmed(b), NEW o \in Ins[t]
    PROVE  /\ o \notin Unspent(b)
           /\ \A u \in Tx : o \in Outs[u] => u \in Confirmed(b)
<1>1. o \notin Unspent(b)
  BY Zenon DEF Unspent
<1>2. \E u \in Confirmed(b) : o \in Outs[u]
  <2>1. PICK c \in Chain[b] : t \in VtxSet(c)
    BY Zenon DEF Confirmed
  <2>2. c \in Block /\ Chain[c] \subseteq Chain[b]
    BY Zenon, ChainTx, ChainAssumption DEF MempoolAssumption
  <2>3. Confirmed(c) \subseteq Confirmed(b)
    BY Zenon, <2>2 DEF Confirmed
  <2>4. CASE c = Genesis
    <3>1. \E u \in VtxSet(c) : o \in Outs[u]
      BY <2>1, <2>4, ChainAssumption DEF MempoolAssumption
    <3> QED BY Zenon, <3>1, <2>2, <2>3, ChainTx
  <2>5. CASE c # Genesis
    <3>1. Confirmed(c) = Confirmed(Parent[c]) \cup VtxSet(c) /\ Valid(c)
      BY Zenon, <2>2, <2>5, ChainStep
    <3>2. PICK i \in DOMAIN Vtx[c] : t = Vtx[c][i]
      BY Zenon, <2>1 DEF VtxSet
    <3>3. o \in Unspent(Parent[c]) \/ \E j \in 1 .. i - 1 : o \in Outs[Vtx[c][j]]
      BY Zenon, <3>1, <3>2 DEF Valid
    <3>4. CASE o \in Unspent(Parent[c])
      BY Zenon, <3>4, <3>1, <2>3 DEF Unspent
    <3>5. CASE \E j \in 1 .. i - 1 : o \in Outs[Vtx[c][j]]
      <4>1. PICK j \in 1 .. i - 1 : o \in Outs[Vtx[c][j]]
        BY Zenon, <3>5
      <4>2. j \in DOMAIN Vtx[c]
        BY <2>2, <3>2, ChainTx
      <4> QED BY Zenon, <4>1, <4>2, <3>1, <2>3 DEF VtxSet
    <3> QED BY Zenon, <3>3, <3>4, <3>5
  <2> QED BY Zenon, <2>4, <2>5
<1> QED BY Zenon, <1>1, <1>2, OneCreator, ChainTx

\* A coin of the chain was created by a confirmed transaction.
LEMMA CoinConfirmed ==
    ASSUME NEW b \in Block, NEW o \in Unspent(b)
    PROVE  /\ \E u \in Confirmed(b) : o \in Outs[u]
           /\ \A u \in Tx : o \in Outs[u] => u \in Confirmed(b)
<1>1. \E u \in Confirmed(b) : o \in Outs[u]
  BY Zenon DEF Unspent
<1> QED BY Zenon, <1>1, OneCreator, ChainTx

-----------------------------------------------------------------------------
(* The pool's maps.                                                         *)

\* The recorded spender of an outpoint is the pool transaction that spends it.
LEMMA Recorded ==
    ASSUME NextTxExact
    PROVE  /\ \A o \in DOMAIN mapNextTx : mapNextTx[o] \in mapTx /\ o \in Ins[mapNextTx[o]]
           /\ \A t \in mapTx : \A o \in Ins[t] : o \in DOMAIN mapNextTx /\ mapNextTx[o] = t
<1>1. \A o \in DOMAIN mapNextTx : \E t \in mapTx : o \in Ins[t]
  BY Zenon DEF NextTxExact
<1>2. \A t \in mapTx : \A o \in Ins[t] : o \in DOMAIN mapNextTx
  BY Zenon DEF NextTxExact
<1> QED BY <1>1, <1>2 DEF NextTxExact

\* What a recursive remove takes: S, with what spends it, and nothing else.
LEMMA Descendants ==
    ASSUME NextTxExact, NEW S
    PROVE  /\ WithDescendants(S) \subseteq mapTx
           /\ S \cap mapTx \subseteq WithDescendants(S)
           /\ \A r \in WithDescendants(S), t \in mapTx :
                Ins[t] \cap Outs[r] # {} => t \in WithDescendants(S)
           /\ \A R \in SUBSET mapTx :
                /\ S \cap mapTx \subseteq R
                /\ \A r \in R, t \in mapTx : Ins[t] \cap Outs[r] # {} => t \in R
                => WithDescendants(S) \subseteq R
<1>1. ASSUME NEW r, NEW t \in mapTx
      PROVE  t \in Spenders(r) <=> Ins[t] \cap Outs[r] # {}
  <2>1. ASSUME t \in Spenders(r)
        PROVE  Ins[t] \cap Outs[r] # {}
    <3>1. PICK o \in Outs[r] \cap DOMAIN mapNextTx : t = mapNextTx[o]
      BY Zenon, <2>1 DEF Spenders
    <3> QED BY Zenon, <3>1, Recorded
  <2>2. ASSUME NEW o \in Ins[t] \cap Outs[r]
        PROVE  t \in Spenders(r)
    <3>1. o \in DOMAIN mapNextTx /\ mapNextTx[o] = t
      BY Zenon, Recorded
    <3> QED BY Zenon, <3>1 DEF Spenders
  <2> QED BY Zenon, <2>1, <2>2
<1> DEFINE Closed(R) == S \cap mapTx \subseteq R /\ \A r \in R : Spenders(r) \cap mapTx \subseteq R
<1>2. WithDescendants(S) = {t \in mapTx : \A R \in SUBSET mapTx : Closed(R) => t \in R}
  BY Zenon DEF WithDescendants
<1>3. ASSUME NEW R \in SUBSET mapTx
      PROVE  Closed(R) <=> /\ S \cap mapTx \subseteq R
                           /\ \A r \in R, t \in mapTx : Ins[t] \cap Outs[r] # {} => t \in R
  BY Zenon, <1>1
<1> HIDE DEF Closed
<1>4. WithDescendants(S) \subseteq mapTx
  BY Zenon, <1>2
<1>5. S \cap mapTx \subseteq WithDescendants(S)
  BY Zenon, <1>2, <1>3
<1>6. ASSUME NEW r \in WithDescendants(S), NEW t \in mapTx, Ins[t] \cap Outs[r] # {}
      PROVE  t \in WithDescendants(S)
  <2>1. SUFFICES ASSUME NEW R \in SUBSET mapTx, Closed(R)
                 PROVE  t \in R
    BY Zenon, <1>2
  <2>2. r \in R
    BY Zenon, <1>2, <2>1
  <2> QED BY Zenon, <1>3, <1>6, <2>1, <2>2
<1>7. ASSUME NEW R \in SUBSET mapTx, Closed(R)
      PROVE  WithDescendants(S) \subseteq R
  BY Zenon, <1>2, <1>7
<1> QED BY Zenon, <1>3, <1>4, <1>5, <1>6, <1>7

\* What is taken is in S or spends what is taken too.
LEMMA TakenWhy ==
    ASSUME NextTxExact, NEW S, NEW t \in WithDescendants(S)
    PROVE  t \in S \/ \E r \in WithDescendants(S) : Ins[t] \cap Outs[r] # {}
<1> DEFINE W == WithDescendants(S)
           R == {u \in W : u \in S \/ \E r \in W : Ins[u] \cap Outs[r] # {}}
<1>1. W \subseteq mapTx /\ S \cap mapTx \subseteq W
  BY Zenon, Descendants
<1>2. R \in SUBSET mapTx /\ S \cap mapTx \subseteq R
  BY Zenon, <1>1
<1>3. \A r \in R, u \in mapTx : Ins[u] \cap Outs[r] # {} => u \in R
  BY Zenon, Descendants
<1>4. W \subseteq R
  <2> HIDE DEF R
  <2> QED BY <1>2, <1>3, Descendants, Zenon
<1> QED BY Zenon, <1>4

\* The types follow.
LEMMA IndexedTypes ==
    ASSUME Indexed
    PROVE  /\ DOMAIN mapNextTx \subseteq UNION {Ins[t] : t \in Tx}
           /\ \A o \in DOMAIN mapNextTx : mapNextTx[o] \in Tx
           /\ totalTxSize \in [Tx -> Nat]
<1>1. /\ \A o \in DOMAIN mapNextTx : mapNextTx[o] \in mapTx /\ o \in Ins[mapNextTx[o]]
      /\ mapTx \subseteq Tx
  BY Zenon, Recorded DEF Indexed
<1>2. DOMAIN mapNextTx \subseteq UNION {Ins[t] : t \in Tx}
  BY Zenon, <1>1
<1>3. totalTxSize \in [Tx -> Nat]
  BY Zenon DEF Indexed, SizeExact
<1> QED BY Zenon, <1>1, <1>2, <1>3

\* addUnchecked keeps the index exact if no pool transaction spends the same output.
LEMMA AddKeeps ==
    ASSUME Indexed, NEW t \in Tx, t \notin mapTx, Ins[t] \cap DOMAIN mapNextTx = {}, Add(t)
    PROVE  Indexed'
<1>1. mapTx' = mapTx \cup {t} /\ mapTx' \subseteq Tx
  BY Zenon DEF Indexed, Add
<1>2. DOMAIN mapNextTx' = DOMAIN mapNextTx \cup Ins[t]
  BY Zenon DEF Add
<1>3. \A o \in DOMAIN mapNextTx' :
        mapNextTx'[o] = IF o \in Ins[t] THEN t ELSE mapNextTx[o]
  BY Zenon, <1>2 DEF Add
<1>4. NextTxExact'
  <2>1. \A o : o \in DOMAIN mapNextTx' <=> \E u \in mapTx' : o \in Ins[u]
    BY Zenon, <1>1, <1>2, Recorded DEF Indexed
  <2>2. DOMAIN mapNextTx' = UNION {Ins[u] : u \in mapTx'}
    BY Zenon, <2>1
  <2>3. \A u \in mapTx' : \A o \in Ins[u] : mapNextTx'[o] = u
    BY Zenon, <1>1, <1>2, <1>3, Recorded DEF Indexed
  <2> QED BY Zenon, <2>2, <2>3 DEF NextTxExact
<1>5. SizeExact'
  BY <1>1 DEF Indexed, SizeExact, Add
<1> QED BY Zenon, <1>1, <1>4, <1>5 DEF Indexed

\* remove keeps the index exact.
LEMMA EraseKeeps ==
    ASSUME Indexed, NEW S, Erase(S)
    PROVE  Indexed'
<1>1. mapTx' = mapTx \ S /\ mapTx' \subseteq Tx
  BY Zenon DEF Indexed, Erase
<1>2. \A o : o \in DOMAIN mapNextTx' <=> o \in DOMAIN mapNextTx /\ \A u \in S \cap mapTx : o \notin Ins[u]
  BY Zenon DEF Erase
<1>3. \A o \in DOMAIN mapNextTx' : mapNextTx'[o] = mapNextTx[o]
  BY Zenon DEF Erase
<1>4. NextTxExact'
  <2>1. \A o : o \in DOMAIN mapNextTx' <=> \E u \in mapTx' : o \in Ins[u]
    BY <1>1, <1>2, Recorded DEF Indexed
  <2>2. DOMAIN mapNextTx' = UNION {Ins[u] : u \in mapTx'}
    BY Zenon, <2>1
  <2>3. \A u \in mapTx' : \A o \in Ins[u] : mapNextTx'[o] = u
    BY Zenon, <1>1, <2>1, <1>3, Recorded DEF Indexed
  <2> QED BY Zenon, <2>2, <2>3 DEF NextTxExact
<1>5. SizeExact'
  BY <1>1 DEF Indexed, SizeExact, Erase
<1> QED BY Zenon, <1>1, <1>4, <1>5 DEF Indexed

-----------------------------------------------------------------------------
(* The invariant that needs nothing of policy.                              *)

\* What AcceptToMemoryPool lets in is not in the chain: its inputs would be spent.
LEMMA AcceptableNew ==
    ASSUME PoolIInv, NEW t \in Tx, Acceptable(t)
    PROVE  /\ t \notin mapTx /\ t \notin Coinbase /\ t \notin Confirmed(coinsTip)
           /\ Ins[t] \cap DOMAIN mapNextTx = {}
<1>1. t \notin mapTx /\ t \notin Coinbase /\ Ins[t] \cap DOMAIN mapNextTx = {}
  BY Zenon DEF Acceptable
<1>2. ASSUME t \in Confirmed(coinsTip)
      PROVE  FALSE
  <2>1. coinsTip \in Block /\ mapTx \subseteq Tx /\ mapTx \cap Confirmed(coinsTip) = {}
    BY Zenon DEF PoolIInv, PoolShape, Indexed, PoolClean
  <2>2. PICK o \in Ins[t] : TRUE
    BY <1>1, ChainAssumption DEF MempoolAssumption
  <2>3. o \in Unspent(coinsTip) \/ \E p \in mapTx : o \in Outs[p]
    BY Zenon, <2>2 DEF Acceptable, InputAvailable
  <2>4. /\ o \notin Unspent(coinsTip)
        /\ \A u \in Tx : o \in Outs[u] => u \in Confirmed(coinsTip)
    BY Zenon, <1>2, <2>1, <2>2, SpentByChain
  <2> QED BY Zenon, <2>1, <2>3, <2>4
<1> QED BY Zenon, <1>1, <1>2

\* AcceptToMemoryPool keeps the index exact and the confirmed out.
LEMMA AcceptIInv ==
    ASSUME PoolIInv, NEW t \in Tx, AcceptToMemoryPool(t)
    PROVE  PoolIInv'
<1>1. /\ Acceptable(t) /\ Add(t) /\ phase = "idle"
      /\ UNCHANGED <<tip, coinsTip, db, resurrect, phase>>
  BY Zenon DEF AcceptToMemoryPool
<1>2. Indexed'
  BY Zenon, <1>1, AcceptableNew, AddKeeps DEF PoolIInv
<1>3. PoolShape'
  BY Zenon, <1>1 DEF PoolIInv, PoolShape
<1>4. PoolClean'
  <2>1. mapTx' = mapTx \cup {t}
    BY Zenon, <1>1 DEF Add
  <2>2. Confirmed(coinsTip)' = Confirmed(coinsTip)
    BY Zenon, <1>1 DEF Confirmed, VtxSet
  <2> QED BY Zenon, <1>1, <2>1, <2>2, AcceptableNew DEF PoolIInv, PoolClean
<1> QED BY Zenon, <1>2, <1>3, <1>4 DEF PoolIInv

\* ConnectTip takes the block's transactions and what conflicts with them out.
LEMMA ConnectIInv ==
    ASSUME PoolIInv, NEW b \in Block, ConnectTip(b)
    PROVE  PoolIInv'
<1>1. /\ phase = "idle" /\ b # Genesis /\ Parent[b] = tip /\ coinsTip' = b /\ tip' = b
      /\ db' \in {db, b} /\ UNCHANGED <<resurrect, phase>>
      /\ Erase(RemovedForBlock(b))
  BY Zenon DEF ConnectTip, MayFlush
<1>2. Indexed'
  BY Zenon, <1>1, EraseKeeps DEF PoolIInv
<1>3. PoolShape'
  BY Zenon, <1>1 DEF PoolIInv, PoolShape
<1>4. PoolClean'
  <2>1. mapTx' = mapTx \ RemovedForBlock(b) /\ VtxSet(b) \subseteq RemovedForBlock(b)
    BY Zenon, <1>1 DEF Erase, RemovedForBlock
  <2>2. Confirmed(b) = Confirmed(coinsTip) \cup VtxSet(b)
    BY Zenon, <1>1, ChainStep DEF PoolIInv, PoolShape
  <2>3. Confirmed(coinsTip)' = Confirmed(b)
    BY Zenon, <1>1 DEF Confirmed, VtxSet
  <2> QED BY Zenon, <2>1, <2>2, <2>3 DEF PoolIInv, PoolClean
<1> QED BY Zenon, <1>2, <1>3, <1>4 DEF PoolIInv

\* DisconnectTip starts with the pool as it was and a whole block to offer.
LEMMA DisconnectIInv ==
    ASSUME PoolIInv, DisconnectTip
    PROVE  PoolIInv'
<1>1. /\ phase = "idle" /\ tip # Genesis /\ tip \in Block /\ coinsTip = tip
      /\ coinsTip' = Parent[tip] /\ db' \in {db, Parent[tip]}
      /\ resurrect' = Vtx[tip] /\ phase' = "resurrect"
      /\ UNCHANGED <<tip, mapTx, mapNextTx, totalTxSize>>
  BY Zenon DEF PoolIInv, PoolShape, DisconnectTip, MayFlush
<1>2. Indexed'
  BY Zenon, <1>1 DEF PoolIInv, Indexed, NextTxExact, SizeExact
<1>3. Confirmed(tip) = Confirmed(Parent[tip]) \cup VtxSet(tip) /\ Parent[tip] \in Block
  BY Zenon, <1>1, ChainStep
<1>4. PoolClean'
  <2>1. Confirmed(coinsTip)' = Confirmed(Parent[tip])
    BY Zenon, <1>1 DEF Confirmed, VtxSet
  <2> QED BY Zenon, <1>1, <1>3, <2>1 DEF PoolIInv, PoolClean
<1>5. PoolShape'
  <2>1. Vtx[tip] \in Seq(Tx)
    BY Zenon, <1>1, ChainTx
  <2>2. \A i \in 1 .. Len(Vtx[tip]) : Vtx[tip][i] \notin mapTx
    BY <1>1, <1>3, <2>1 DEF PoolIInv, PoolClean, VtxSet
  <2>3. Resurrecting'
    BY <1>1, <2>1, <2>2 DEF Resurrecting, Offered
  <2> QED BY Zenon, <1>1, <1>3, <2>1, <2>3 DEF PoolIInv, PoolShape
<1> QED BY Zenon, <1>2, <1>4, <1>5 DEF PoolIInv

\* The transaction DisconnectTip is at, and what is left after it.
LEMMA NextOffered ==
    ASSUME PoolIInv, NEW accepted, Resurrect(accepted)
    PROVE  /\ tip \in Block /\ tip # Genesis /\ coinsTip = Parent[tip] /\ coinsTip \in Block
           /\ Offered \in Nat /\ Offered + 1 \in DOMAIN Vtx[tip]
           /\ Head(resurrect) = Vtx[tip][Offered + 1] /\ Head(resurrect) \in VtxSet(tip)
           /\ Head(resurrect) \in Tx \ mapTx /\ Head(resurrect) = resurrect[1]
           /\ Len(resurrect) \in Nat \ {0}
           /\ Len(resurrect') = Len(resurrect) - 1 /\ Offered' = Offered + 1
           /\ resurrect' \in Seq(Tx)
           /\ \A i \in 1 .. Len(resurrect') :
                /\ resurrect'[i] = resurrect[i + 1]
                /\ resurrect'[i] = Vtx[tip][Offered + 1 + i]
                /\ Offered + 1 + i \in DOMAIN Vtx[tip]
                /\ resurrect'[i] \notin mapTx /\ resurrect'[i] # Head(resurrect)
                /\ Ins[resurrect'[i]] \cap Ins[Head(resurrect)] = {}
<1>1. /\ phase = "resurrect" /\ resurrect \in Seq(Tx) /\ resurrect # <<>>
      /\ resurrect' = Tail(resurrect) /\ tip' = tip /\ tip \in Block /\ coinsTip \in Block
      /\ Resurrecting
  BY Zenon DEF PoolIInv, PoolShape, Resurrect
<1>2. Vtx[tip] \in Seq(Tx) /\ Valid(tip)
  BY Zenon, <1>1, ChainTx, ChainStep DEF Resurrecting
<1>3. /\ Len(resurrect) \in Nat \ {0} /\ Head(resurrect) = resurrect[1]
      /\ resurrect' \in Seq(Tx) /\ Len(resurrect') = Len(resurrect) - 1
      /\ \A i \in 1 .. Len(resurrect') : resurrect'[i] = resurrect[i + 1]
  BY <1>1
<1>4. /\ Offered \in Nat /\ Offered' = Offered + 1 /\ Offered + 1 \in DOMAIN Vtx[tip]
      /\ \A i \in 1 .. Len(resurrect') : Offered + 1 + i \in DOMAIN Vtx[tip]
  BY <1>1, <1>2, <1>3 DEF Resurrecting, Offered
<1>5. /\ Head(resurrect) = Vtx[tip][Offered + 1] /\ Head(resurrect) \notin mapTx
      /\ \A i \in 1 .. Len(resurrect') :
            resurrect'[i] = Vtx[tip][Offered + 1 + i] /\ resurrect'[i] \notin mapTx
  <2>1. Head(resurrect) = Vtx[tip][Offered + 1] /\ Head(resurrect) \notin mapTx
    BY <1>1, <1>3 DEF Resurrecting
  <2>2. ASSUME NEW i \in 1 .. Len(resurrect')
        PROVE  resurrect'[i] = Vtx[tip][Offered + 1 + i] /\ resurrect'[i] \notin mapTx
    <3>1. i + 1 \in 1 .. Len(resurrect) /\ Offered + (i + 1) = Offered + 1 + i
      BY <1>3, <1>4
    <3>2. resurrect[i + 1] = Vtx[tip][Offered + (i + 1)] /\ resurrect[i + 1] \notin mapTx
      BY Zenon, <1>1, <3>1 DEF Resurrecting
    <3> QED BY Zenon, <1>3, <3>1, <3>2
  <2> QED BY Zenon, <2>1, <2>2
<1>6. ASSUME NEW i \in 1 .. Len(resurrect')
      PROVE  resurrect'[i] # Head(resurrect) /\ Ins[resurrect'[i]] \cap Ins[Head(resurrect)] = {}
  <2>1. Offered + 1 # Offered + 1 + i
    BY <1>3, <1>4
  <2>2. \A j, k \in DOMAIN Vtx[tip] :
          j # k => Vtx[tip][j] # Vtx[tip][k] /\ Ins[Vtx[tip][j]] \cap Ins[Vtx[tip][k]] = {}
    BY Zenon, <1>2 DEF Valid
  <2>3. Offered + 1 + i \in DOMAIN Vtx[tip] /\ resurrect'[i] = Vtx[tip][Offered + 1 + i]
    BY Zenon, <1>4, <1>5
  <2> QED BY Zenon, <1>4, <1>5, <2>1, <2>2, <2>3
<1>7. Head(resurrect) \in VtxSet(tip) /\ Head(resurrect) \in Tx
  BY <1>2, <1>4, <1>5, <1>1, ChainTx DEF VtxSet
<1> QED BY Zenon, <1>1, <1>3, <1>4, <1>5, <1>6, <1>7 DEF Resurrecting

\* A transaction of the block that does not come back takes nothing with it.
LEMMA NothingTaken ==
    ASSUME NextTxExact, NEW t, t \notin mapTx
    PROVE  WithDescendants({t}) = {}
<1>1. {} \in SUBSET mapTx /\ {t} \cap mapTx \subseteq {}
  OBVIOUS
<1>2. \A r \in {}, u \in mapTx : Ins[u] \cap Outs[r] # {} => u \in {}
  OBVIOUS
<1> QED BY Zenon, <1>1, <1>2, Descendants

\* The two outcomes of offering a transaction.
LEMMA Offer ==
    ASSUME PoolIInv, NEW accepted, Resurrect(accepted)
    PROVE  /\ Indexed'
           /\ \/ accepted /\ Acceptable(Head(resurrect)) /\ mapTx' = mapTx \cup {Head(resurrect)}
              \/ ~(accepted /\ Acceptable(Head(resurrect))) /\ mapTx' = mapTx
<1> DEFINE t == Head(resurrect)
<1>1. t \in Tx \ mapTx
  BY Zenon, NextOffered
<1>2. Readmitted(t, accepted)
  BY Zenon DEF Resurrect
<1> HIDE DEF t
<1>3. CASE accepted /\ Acceptable(t)
  <2>1. Add(t)
    BY Zenon, <1>2, <1>3 DEF Readmitted
  <2>2. Indexed'
    BY Zenon, <1>1, <1>3, <2>1, AcceptableNew, AddKeeps DEF PoolIInv
  <2> QED BY Zenon, <1>3, <2>1, <2>2 DEF Add, t
<1>4. CASE ~(accepted /\ Acceptable(t))
  <2>1. Erase(WithDescendants({t}))
    BY Zenon, <1>2, <1>4 DEF Readmitted
  <2>2. Indexed'
    BY Zenon, <2>1, EraseKeeps DEF PoolIInv
  <2>3. mapTx' = mapTx
    BY Zenon, <1>1, <2>1, NothingTaken DEF Erase, PoolIInv, Indexed
  <2> QED BY Zenon, <1>4, <2>2, <2>3 DEF t
<1> QED BY Zenon, <1>3, <1>4

\* Offering the next transaction of the block back, accepted or removed.
LEMMA ResurrectIInv ==
    ASSUME PoolIInv, NEW accepted, Resurrect(accepted)
    PROVE  PoolIInv'
<1>1. UNCHANGED <<tip, coinsTip, db, phase>> /\ phase = "resurrect"
  BY Zenon DEF Resurrect
<1>2. mapTx' = mapTx \/ (mapTx' = mapTx \cup {Head(resurrect)} /\ Acceptable(Head(resurrect)))
  BY Zenon, Offer
<1>3. PoolShape'
  <2>1. \A i \in 1 .. Len(resurrect') : resurrect'[i] = Vtx[tip][Offered' + i] /\ resurrect'[i] \notin mapTx'
    BY Zenon, <1>2, NextOffered
  <2>2. Resurrecting'
    BY <1>1, <2>1, NextOffered DEF Resurrecting
  <2>3. resurrect' \in Seq(Tx)
    BY Zenon, NextOffered
  <2> QED BY Zenon, <1>1, <2>2, <2>3 DEF PoolIInv, PoolShape
<1>4. PoolClean'
  <2>1. Confirmed(coinsTip)' = Confirmed(coinsTip)
    BY Zenon, <1>1 DEF Confirmed, VtxSet
  <2>2. Head(resurrect) \in Tx
    BY Zenon, NextOffered
  <2> QED BY Zenon, <1>2, <2>1, <2>2, AcceptableNew DEF PoolIInv, PoolClean
<1> QED BY Zenon, <1>3, <1>4, Offer DEF PoolIInv

\* The pool after removeCoinbaseSpends.
LEMMA Finish ==
    ASSUME PoolIInv, FinishDisconnect
    PROVE  /\ tip \in Block /\ tip # Genesis /\ coinsTip = Parent[tip] /\ coinsTip \in Block
           /\ phase = "resurrect" /\ phase' = "idle" /\ tip' = coinsTip /\ coinsTip' = coinsTip
           /\ UNCHANGED <<db, resurrect>> /\ resurrect = <<>>
           /\ mapTx' = mapTx \ WithDescendants(CoinbaseSpends(Height[tip]))
           /\ Indexed'
<1>1. Indexed'
  BY Zenon, EraseKeeps DEF PoolIInv, FinishDisconnect
<1> QED BY Zenon, <1>1 DEF PoolIInv, PoolShape, Resurrecting, FinishDisconnect, Erase

\* The end of DisconnectTip sweeps the immature spends out.
LEMMA FinishIInv ==
    ASSUME PoolIInv, FinishDisconnect
    PROVE  PoolIInv'
<1>1. PoolShape'
  BY Zenon, Finish DEF PoolIInv, PoolShape
<1>2. PoolClean'
  <2>1. Confirmed(coinsTip)' = Confirmed(coinsTip)
    BY Zenon, Finish DEF Confirmed, VtxSet
  <2> QED BY Zenon, <2>1, Finish DEF PoolIInv, PoolClean
<1> QED BY Zenon, <1>1, <1>2, Finish DEF PoolIInv

\* What leaves the pool, the chain and the phase alone.
LEMMA StillIInv ==
    ASSUME PoolIInv, UNCHANGED <<tip, coinsTip, mapTx, mapNextTx, totalTxSize, resurrect, phase>>,
           db' \in Block
    PROVE  PoolIInv'
<1>1. Indexed'
  BY Zenon DEF PoolIInv, Indexed, NextTxExact, SizeExact
<1>2. PoolShape'
  BY Zenon DEF PoolIInv, PoolShape, Resurrecting, Offered
<1>3. PoolClean'
  BY Zenon DEF PoolIInv, PoolClean, Confirmed, VtxSet
<1> QED BY Zenon, <1>1, <1>2, <1>3 DEF PoolIInv

\* FlushStateToDisk changes the database only.
LEMMA FlushIInv ==
    ASSUME PoolIInv, FlushStateToDisk
    PROVE  PoolIInv'
  BY Zenon, StillIInv DEF FlushStateToDisk, PoolIInv, PoolShape

\* An empty pool on the genesis block.
LEMMA PoolIInvInit == PoolInit => PoolIInv
<1> SUFFICES ASSUME PoolInit
             PROVE  PoolIInv
  OBVIOUS
<1>1. Indexed
  BY DEF PoolInit, Indexed, NextTxExact, SizeExact
<1>2. PoolShape
  BY ChainAssumption DEF PoolInit, PoolShape, MempoolAssumption
<1>3. PoolClean
  BY Zenon DEF PoolInit, PoolClean
<1> QED BY Zenon, <1>1, <1>2, <1>3 DEF PoolIInv

\* Every step keeps the index exact and the confirmed out.
LEMMA PoolIInvNext == PoolIInv /\ [PoolNext]_poolVars => PoolIInv'
<1> SUFFICES ASSUME PoolIInv, [PoolNext]_poolVars
             PROVE  PoolIInv'
  OBVIOUS
<1>1. CASE UNCHANGED poolVars
  BY Zenon, <1>1, StillIInv DEF poolVars, PoolIInv, PoolShape
<1>2. ASSUME NEW t \in Tx, AcceptToMemoryPool(t)
      PROVE  PoolIInv'
  BY Zenon, <1>2, AcceptIInv
<1>3. ASSUME NEW b \in Block, ConnectTip(b)
      PROVE  PoolIInv'
  BY Zenon, <1>3, ConnectIInv
<1>4. CASE DisconnectTip
  BY Zenon, <1>4, DisconnectIInv
<1>5. ASSUME NEW accepted \in BOOLEAN, Resurrect(accepted)
      PROVE  PoolIInv'
  BY Zenon, <1>5, ResurrectIInv
<1>6. CASE FinishDisconnect
  BY Zenon, <1>6, FinishIInv
<1>7. CASE FlushStateToDisk
  BY Zenon, <1>7, FlushIInv
<1> QED BY Zenon, <1>1, <1>2, <1>3, <1>4, <1>5, <1>6, <1>7 DEF PoolNext

-----------------------------------------------------------------------------
(* What leaves the pool.                                                    *)

\* What conflicts with a block, or descends from what does, is not in the block.
LEMMA ConflictsOutside ==
    ASSUME PoolIInv, NEW b \in Block, ConnectTip(b)
    PROVE  WithDescendants(Conflicts(b)) \cap Confirmed(b) = {}
<1> DEFINE W == WithDescendants(Conflicts(b))
           R == W \ VtxSet(b)
<1>1. /\ NextTxExact /\ b # Genesis /\ mapTx \subseteq Tx
      /\ Confirmed(b) = Confirmed(coinsTip) \cup VtxSet(b)
      /\ mapTx \cap Confirmed(coinsTip) = {}
  BY Zenon, ChainStep DEF PoolIInv, Indexed, PoolClean, PoolShape, ConnectTip
<1>2. W \subseteq mapTx
  BY Zenon, <1>1, Descendants
<1>3. R \in SUBSET mapTx /\ Conflicts(b) \cap mapTx \subseteq R
  BY Zenon, <1>1, <1>2, Descendants DEF Conflicts
<1>4. ASSUME NEW r \in R, NEW u \in mapTx, Ins[u] \cap Outs[r] # {}
      PROVE  u \in R
  <2>1. u \in W
    BY Zenon, <1>1, <1>4, Descendants
  <2>2. ASSUME u \in VtxSet(b)
        PROVE  FALSE
    <3>1. r \in Confirmed(b)
      BY Zenon, <1>1, <1>2, <1>4, <2>2, SpentByChain
    <3> QED BY Zenon, <1>1, <1>2, <3>1
  <2> QED BY Zenon, <2>1, <2>2
<1>5. W \subseteq R
  <2> HIDE DEF R
  <2> QED BY <1>1, <1>3, <1>4, Descendants, Zenon
<1> QED BY Zenon, <1>1, <1>2, <1>5

\* A removed transaction that is not confirmed leaves its outputs unavailable.
LEMMA GoneOutputs ==
    ASSUME PoolIInv', NEW r \in mapTx \ mapTx', mapTx \subseteq Tx, r \notin Confirmed(coinsTip'),
           NEW o \in Outs[r]
    PROVE  ~InputAvailable(o)'
<1>1. coinsTip' \in Block /\ mapTx' \subseteq Tx
  BY Zenon DEF PoolIInv, PoolShape, Indexed
<1>2. o \notin Unspent(coinsTip')
  BY Zenon, <1>1, CoinConfirmed
<1>3. \A p \in mapTx' : o \notin Outs[p]
  BY Zenon, <1>1, OneCreator
<1>4. Unspent(coinsTip)' = Unspent(coinsTip')
  BY Zenon DEF Unspent, Confirmed, VtxSet
<1> QED BY Zenon, <1>2, <1>3, <1>4 DEF InputAvailable

\* An output the chain spends is not available.
LEMMA SpentUnavailable ==
    ASSUME PoolIInv', NEW t \in Confirmed(coinsTip'), NEW o \in Ins[t]
    PROVE  ~InputAvailable(o)'
<1>1. coinsTip' \in Block /\ mapTx' \subseteq Tx /\ mapTx' \cap Confirmed(coinsTip') = {}
  BY Zenon DEF PoolIInv, PoolShape, Indexed, PoolClean, Confirmed, VtxSet
<1>2. o \notin Unspent(coinsTip') /\ \A p \in Tx : o \in Outs[p] => p \in Confirmed(coinsTip')
  BY Zenon, <1>1, SpentByChain
<1>3. Unspent(coinsTip)' = Unspent(coinsTip')
  BY Zenon DEF Unspent, Confirmed, VtxSet
<1> QED BY Zenon, <1>1, <1>2, <1>3 DEF InputAvailable

\* What ConnectTip takes out is in the block, or has lost an input to it.
LEMMA ConnectLeaves ==
    ASSUME PoolIInv, PoolIInv', NEW b \in Block, ConnectTip(b)
    PROVE  LeavesRightly
<1>1. /\ tip' = b /\ coinsTip' = b /\ mapTx' = mapTx \ RemovedForBlock(b) /\ mapTx \subseteq Tx
      /\ b # Genesis /\ Parent[b] = tip /\ NextTxExact
  BY Zenon DEF ConnectTip, Erase, PoolIInv, Indexed
<1> DEFINE W == WithDescendants(Conflicts(b))
<1>2. W \subseteq mapTx /\ W \cap mapTx' = {} /\ W \cap Confirmed(b) = {}
  BY Zenon, <1>1, Descendants, ConflictsOutside DEF RemovedForBlock
<1>3. SUFFICES ASSUME NEW t \in mapTx \ mapTx'
               PROVE  (tip' # tip /\ t \in Confirmed(tip')) \/ \E o \in Ins[t] : ~InputAvailable(o)'
  BY Zenon DEF LeavesRightly, Confirmed, VtxSet
<1>4. CASE t \in VtxSet(b)
  BY Zenon, <1>1, <1>4, ChainStep
<1>5. CASE t \in W
  <2>1. t \in Conflicts(b) \/ \E r \in W : Ins[t] \cap Outs[r] # {}
    BY Zenon, <1>1, <1>5, TakenWhy
  <2>2. CASE t \in Conflicts(b)
    <3>1. PICK o \in DOMAIN mapNextTx, u \in VtxSet(b) : t = mapNextTx[o] /\ o \in Ins[u]
      BY Zenon, <2>2 DEF Conflicts
    <3>2. o \in Ins[t] /\ u \in Confirmed(coinsTip')
      BY Zenon, <1>1, <3>1, Recorded, ChainTx
    <3> QED BY Zenon, <3>1, <3>2, SpentUnavailable
  <2>3. CASE \E r \in W : Ins[t] \cap Outs[r] # {}
    <3>1. PICK r \in W, o \in Ins[t] : o \in Outs[r]
      BY Zenon, <2>3
    <3>2. r \in mapTx \ mapTx' /\ r \notin Confirmed(coinsTip')
      BY Zenon, <1>1, <1>2
    <3> QED BY Zenon, <1>1, <3>1, <3>2, GoneOutputs
  <2> QED BY Zenon, <2>1, <2>2, <2>3
<1> QED BY Zenon, <1>1, <1>3, <1>4, <1>5 DEF RemovedForBlock

\* The creator of an outpoint that has one.
LEMMA CreatorOf ==
    ASSUME NEW o, NEW t \in Tx, o \in Outs[t]
    PROVE  Creator(o) = t
<1>1. Creator(o) \in Tx /\ o \in Outs[Creator(o)]
  BY Zenon DEF Creator
<1> QED BY Zenon, <1>1, OneCreator

\* What the sweep takes out spends an immature coinbase, or an output of what
\* leaves with it.
LEMMA FinishLeaves ==
    ASSUME PoolIInv, PoolIInv', FinishDisconnect
    PROVE  LeavesRightly
<1> DEFINE h == Height[tip]
           W == WithDescendants(CoinbaseSpends(h))
<1>1. /\ tip' = coinsTip /\ coinsTip' = coinsTip /\ mapTx' = mapTx \ W /\ mapTx \subseteq Tx
      /\ NextTxExact /\ mapTx \cap Confirmed(coinsTip) = {} /\ coinsTip \in Block
  BY Zenon, Finish DEF PoolIInv, Indexed, PoolClean
<1>2. Height[tip'] + 1 = h /\ h \in Nat
  BY Finish, ChainStep
<1>3. \A o : InputAvailable(o)' <=> o \in Unspent(coinsTip) \/ \E p \in mapTx' : o \in Outs[p]
  BY Zenon, <1>1 DEF InputAvailable, Unspent, Confirmed, VtxSet
<1>4. SUFFICES ASSUME NEW t \in mapTx \ mapTx'
               PROVE  ~Mature(t, Height[tip] + 1)' \/ \E o \in Ins[t] : ~InputAvailable(o)'
  BY Zenon DEF LeavesRightly
<1>5. W \subseteq mapTx /\ (t \in CoinbaseSpends(h) \/ \E r \in W : Ins[t] \cap Outs[r] # {})
  BY <1>1, <1>4, Descendants, TakenWhy
<1>6. CASE \E r \in W : Ins[t] \cap Outs[r] # {}
  <2>1. PICK r \in W, o \in Ins[t] : o \in Outs[r]
    BY Zenon, <1>6
  <2>2. r \in mapTx \ mapTx' /\ r \notin Confirmed(coinsTip')
    BY Zenon, <1>1, <1>5
  <2> QED BY Zenon, <1>1, <2>1, <2>2, GoneOutputs
<1>7. CASE t \in CoinbaseSpends(h)
  <2>1. PICK o \in Ins[t] :
          LET c == Creator(o)
          IN  /\ c \notin mapTx
              /\ \/ ~AccessCoins(c)
                 \/ /\ HaveCoins(coinsTip, c) /\ c \in Coinbase
                    /\ \E b \in Chain[coinsTip] : c \in VtxSet(b) /\ h - Height[b] < Maturity
    BY Zenon, <1>7 DEF CoinbaseSpends
  <2> DEFINE c == Creator(o)
  <2>2. CASE \A u \in Tx : o \notin Outs[u]
    <3>1. o \notin Unspent(coinsTip)
      BY Zenon, <1>1, <2>2, CoinConfirmed, ChainTx
    <3> QED BY Zenon, <1>1, <1>3, <2>2, <3>1
  <2>3. CASE \E u \in Tx : o \in Outs[u]
    <3>1. c \in Tx /\ o \in Outs[c] /\ c \notin mapTx
      BY Zenon, <2>1, <2>3, CreatorOf
    <3>2. \A p \in mapTx' : o \notin Outs[p]
      BY Zenon, <1>1, <3>1, OneCreator
    <3>3. CASE ~AccessCoins(c)
      <4>1. o \notin Unspent(coinsTip)
        BY Zenon, <3>1, <3>3 DEF AccessCoins, HaveCoins
      <4> QED BY Zenon, <1>3, <3>2, <4>1
    <3>4. CASE c \in Coinbase /\ \E b \in Chain[coinsTip] : c \in VtxSet(b) /\ h - Height[b] < Maturity
      <4>1. PICK b \in Chain[coinsTip] : c \in VtxSet(b) /\ h - Height[b] < Maturity
        BY Zenon, <3>4
      <4>2. Height[b] \in Int /\ Maturity \in Int
        BY <1>1, ChainTx, ChainAssumption DEF MempoolAssumption
      <4>3. ~(h - Height[b] >= Maturity)
        BY <1>2, <4>1, <4>2
      <4>4. c \in VtxSet(b) \cap Coinbase /\ o \in Outs[c]
        BY Zenon, <3>1, <3>4, <4>1
      <4>5. ASSUME Mature(t, Height[tip] + 1)'
            PROVE  FALSE
        <5>1. (\E u \in VtxSet(b) \cap Coinbase : o \in Outs[u]) => h - Height[b] >= Maturity
          BY Zenon, <1>1, <1>2, <4>1, <4>5 DEF Mature, VtxSet
        <5> QED BY Zenon, <4>3, <4>4, <5>1
      <4> QED BY Zenon, <4>5
    <3> QED BY Zenon, <2>1, <3>3, <3>4
  <2> QED BY Zenon, <2>2, <2>3
<1> QED BY Zenon, <1>5, <1>6, <1>7

\* No step takes a transaction out of the pool without a reason.
LEMMA LeavesNext == PoolIInv /\ PoolIInv' /\ [PoolNext]_poolVars => LeavesRightly
<1> SUFFICES ASSUME PoolIInv, PoolIInv', [PoolNext]_poolVars
             PROVE  LeavesRightly
  OBVIOUS
<1>1. CASE mapTx \subseteq mapTx'
  BY Zenon, <1>1 DEF LeavesRightly
<1>2. CASE UNCHANGED poolVars
  BY Zenon, <1>1, <1>2 DEF poolVars
<1>3. ASSUME NEW t \in Tx, AcceptToMemoryPool(t)
      PROVE  LeavesRightly
  BY Zenon, <1>1, <1>3 DEF AcceptToMemoryPool, Add
<1>4. ASSUME NEW b \in Block, ConnectTip(b)
      PROVE  LeavesRightly
  BY Zenon, <1>4, ConnectLeaves
<1>5. CASE DisconnectTip
  BY Zenon, <1>1, <1>5 DEF DisconnectTip
<1>6. ASSUME NEW accepted \in BOOLEAN, Resurrect(accepted)
      PROVE  LeavesRightly
  BY Zenon, <1>1, <1>6, Offer
<1>7. CASE FinishDisconnect
  BY Zenon, <1>7, FinishLeaves
<1>8. CASE FlushStateToDisk
  BY Zenon, <1>1, <1>8 DEF FlushStateToDisk
<1> QED BY Zenon, <1>2, <1>3, <1>4, <1>5, <1>6, <1>7, <1>8 DEF PoolNext

\* What the first invariant says of the pool.
LEMMA PoolIInvFacts == PoolIInv => PoolTypeOK /\ NextTxExact /\ SizeExact /\ NotConfirmed
<1> SUFFICES ASSUME PoolIInv
             PROVE  PoolTypeOK /\ NextTxExact /\ SizeExact /\ NotConfirmed
  OBVIOUS
<1>1. PoolTypeOK
  BY Zenon, IndexedTypes DEF PoolIInv, Indexed, PoolShape, PoolTypeOK
<1>2. NotConfirmed
  BY Zenon DEF PoolIInv, PoolShape, PoolClean, NotConfirmed
<1> QED BY Zenon, <1>1, <1>2 DEF PoolIInv, Indexed

\* CTxMemPool, whatever it is asked to accept: mapNextTx has exactly the inputs of
\* the pool's transactions, totalTxSize counts each of them once, none of them is
\* a coinbase or confirmed, and none leaves but into a block, or because one of
\* its inputs is gone or no longer mature.
THEOREM PoolIsIndexed ==
    PoolSpec => [](PoolTypeOK /\ NextTxExact /\ SizeExact /\ NotConfirmed) /\ [][LeavesRightly]_poolVars
<1>1. PoolSpec => []PoolIInv
  BY PoolIInvInit, PoolIInvNext, PTL DEF PoolSpec
<1>2. PoolIInv /\ PoolIInv' /\ [PoolNext]_poolVars => [LeavesRightly]_poolVars
  BY Zenon, LeavesNext
<1> QED BY <1>1, <1>2, PoolIInvFacts, PTL DEF PoolSpec

-----------------------------------------------------------------------------
(* The inputs, where policy refuses nothing of a disconnected block.        *)

\* AcceptToMemoryPool takes only what spends available, mature outputs.
LEMMA AcceptCInv ==
    ASSUME PoolIInv, PoolCInv, NEW t \in Tx, AcceptToMemoryPool(t)
    PROVE  PoolCInv'
<1>1. /\ UNCHANGED <<tip, coinsTip, phase>> /\ phase = "idle" /\ coinsTip = tip
      /\ mapTx' = mapTx \cup {t} /\ Acceptable(t)
  BY Zenon DEF AcceptToMemoryPool, Add, PoolIInv, PoolShape
<1>2. InputsAvailable'
  <2>1. \A u \in mapTx' : \A o \in Ins[u] : InputAvailable(o)
    BY Zenon, <1>1 DEF PoolCInv, InputsAvailable, Acceptable
  <2>2. \A o : InputAvailable(o) => InputAvailable(o)'
    BY Zenon, <1>1 DEF InputAvailable, Unspent, Confirmed, VtxSet
  <2> QED BY Zenon, <2>1, <2>2 DEF InputsAvailable
<1>3. PoolMature'
  <2>1. \A u \in mapTx' : Mature(u, Height[tip] + 1)
    BY Zenon, <1>1 DEF PoolCInv, PoolMature, Acceptable
  <2>2. \A u : Mature(u, Height[tip] + 1) => Mature(u, Height[tip] + 1)'
    BY Zenon, <1>1 DEF Mature, VtxSet
  <2> QED BY Zenon, <2>1, <2>2 DEF PoolMature
<1> QED BY Zenon, <1>1, <1>2, <1>3 DEF PoolCInv

\* ConnectTip leaves what the pool spends available: what the block creates
\* replaces what the pool created, and what it spends has left the pool.
LEMMA ConnectCInv ==
    ASSUME PoolIInv, PoolIInv', PoolCInv, NEW b \in Block, ConnectTip(b)
    PROVE  PoolCInv'
<1>1. /\ phase = "idle" /\ phase' = "idle" /\ tip' = b /\ coinsTip' = b /\ coinsTip = tip
      /\ tip \in Block /\ mapTx \subseteq Tx /\ NextTxExact
      /\ b # Genesis /\ Parent[b] = tip /\ mapTx' = mapTx \ RemovedForBlock(b)
      /\ mapTx \cap Coinbase = {}
  BY Zenon DEF ConnectTip, Erase, PoolIInv, PoolShape, Indexed, PoolClean
<1>2. /\ Confirmed(b) = Confirmed(tip) \cup VtxSet(b) /\ Valid(b)
      /\ Height[b] = Height[tip] + 1 /\ Height[tip] \in Nat
  BY Zenon, <1>1, ChainStep
<1>3. VtxSet(b) \cap Confirmed(tip) = {}
  BY Zenon, <1>1, <1>2 DEF Valid
<1>4. ASSUME NEW t \in mapTx', NEW o \in Ins[t]
      PROVE  /\ InputAvailable(o)'
             /\ o \in Unspent(tip) \/ \E p \in mapTx : o \in Outs[p]
  <2>1. o \in Unspent(tip) \/ \E p \in mapTx : o \in Outs[p]
    BY Zenon, <1>1 DEF PoolCInv, InputsAvailable, InputAvailable
  <2>2. ASSUME NEW u \in VtxSet(b)
        PROVE  o \notin Ins[u]
    <3>1. SUFFICES ASSUME o \in Ins[u]
                   PROVE  FALSE
      OBVIOUS
    <3>2. o \in DOMAIN mapNextTx /\ mapNextTx[o] = t
      BY Zenon, <1>1, Recorded
    <3>3. t \in VtxSet(b) \/ t \in Conflicts(b)
      BY Zenon, <3>1, <3>2 DEF Conflicts
    <3>4. t \in RemovedForBlock(b)
      BY Zenon, <1>1, <3>3, Descendants DEF RemovedForBlock
    <3> QED BY Zenon, <1>1, <3>4
  <2>3. ASSUME NEW p \in Confirmed(b), o \in Outs[p], \A u \in Confirmed(tip) : o \notin Ins[u]
        PROVE  o \in Unspent(b)
    BY Zenon, <1>2, <2>2, <2>3 DEF Unspent
  <2>4. Unspent(coinsTip)' = Unspent(b)
    BY Zenon, <1>1 DEF Unspent, Confirmed, VtxSet
  <2>5. CASE o \in Unspent(tip)
    <3>1. o \in Unspent(b)
      BY Zenon, <1>2, <2>3, <2>5 DEF Unspent
    <3> QED BY Zenon, <2>4, <3>1, <2>1 DEF InputAvailable
  <2>6. CASE \E p \in mapTx : o \in Outs[p]
    <3>1. PICK p \in mapTx : o \in Outs[p]
      BY Zenon, <2>6
    <3>2. CASE p \in mapTx'
      BY Zenon, <2>1, <3>1, <3>2 DEF InputAvailable
    <3>3. CASE p \in VtxSet(b)
      <4>1. \A u \in Confirmed(tip) : o \notin Ins[u]
        BY Zenon, <1>1, <1>3, <3>1, <3>3, SpentByChain
      <4> QED BY Zenon, <1>2, <2>1, <2>3, <2>4, <3>1, <3>3, <4>1 DEF InputAvailable
    <3>4. CASE p \in WithDescendants(Conflicts(b))
      <4>1. t \in WithDescendants(Conflicts(b))
        BY Zenon, <1>1, <3>1, <3>4, Descendants
      <4> QED BY Zenon, <1>1, <4>1 DEF RemovedForBlock
    <3> QED BY Zenon, <1>1, <3>2, <3>3, <3>4 DEF RemovedForBlock
  <2> QED BY Zenon, <2>1, <2>5, <2>6
<1>5. InputsAvailable'
  BY Zenon, <1>4 DEF InputsAvailable
<1>6. PoolMature'
  <2>1. SUFFICES ASSUME NEW t \in mapTx', NEW o \in Ins[t], NEW c \in Chain[b],
                        NEW u \in VtxSet(c) \cap Coinbase, o \in Outs[u]
                 PROVE  (Height[b] + 1) - Height[c] >= Maturity
    <3>1. PoolMature' <=>
            (phase' = "idle" => \A t \in mapTx' : \A o \in Ins[t], c \in Chain[coinsTip'] :
                (\E u \in VtxSet(c) \cap Coinbase : o \in Outs[u])
                    => (Height[tip'] + 1) - Height[c] >= Maturity)
      BY Zenon DEF PoolMature, Mature, VtxSet
    <3> QED BY Zenon, <3>1, <1>1
  <2>2. c \in Block /\ Height[c] \in Nat /\ Maturity \in Nat /\ u \in Tx
    BY Zenon, <1>1, ChainTx, ChainAssumption DEF MempoolAssumption
  <2>3. c # b
    <3>1. SUFFICES ASSUME c = b
                   PROVE  FALSE
      OBVIOUS
    <3>2. u \notin mapTx /\ u \notin Confirmed(tip)
      BY Zenon, <1>1, <1>3, <2>1, <3>1
    <3>3. \A p \in mapTx : o \notin Outs[p]
      BY Zenon, <1>1, <2>1, <2>2, <3>2, OneCreator
    <3> QED BY Zenon, <1>1, <1>4, <2>1, <2>2, <3>2, <3>3, CoinConfirmed
  <2>4. c \in Chain[coinsTip]
    <3>1. Chain[b] = Chain[Parent[b]] \cup {b}
      BY Zenon, <1>1, ChainAssumption DEF MempoolAssumption
    <3> QED BY Zenon, <1>1, <2>3, <3>1
  <2>5. Mature(t, Height[tip] + 1)
    BY Zenon, <1>1 DEF PoolCInv, PoolMature
  <2>6. (Height[tip] + 1) - Height[c] >= Maturity
    <3>1. \A p \in Ins[t], d \in Chain[coinsTip] :
            (\E v \in VtxSet(d) \cap Coinbase : p \in Outs[v]) => (Height[tip] + 1) - Height[d] >= Maturity
      BY Zenon, <2>5 DEF Mature
    <3> QED BY Zenon, <2>1, <2>4, <3>1
  <2> QED BY <1>2, <2>2, <2>6
<1> QED BY Zenon, <1>1, <1>5, <1>6 DEF PoolCInv

\* DisconnectTip makes unavailable only what the block created, all of which is
\* still to be offered.
LEMMA DisconnectCInv ==
    ASSUME PoolIInv, PoolCInv, DisconnectTip
    PROVE  PoolCInv'
<1>1. /\ phase = "idle" /\ tip # Genesis /\ tip \in Block /\ coinsTip = tip
      /\ coinsTip' = Parent[tip] /\ resurrect' = Vtx[tip] /\ phase' = "resurrect"
      /\ tip' = tip /\ mapTx' = mapTx /\ mapTx \subseteq Tx /\ mapTx \cap Confirmed(tip) = {}
  BY Zenon DEF PoolIInv, PoolShape, PoolClean, Indexed, DisconnectTip
<1>2. Confirmed(tip) = Confirmed(Parent[tip]) \cup VtxSet(tip) /\ Vtx[tip] \in Seq(Tx)
  BY Zenon, <1>1, ChainStep, ChainTx
<1>3. \A t \in VtxSet(tip) : \E j \in 1 .. Len(Vtx[tip]) : t = Vtx[tip][j]
  BY <1>2 DEF VtxSet
<1>4. \A j \in 1 .. Len(Vtx[tip]) : Vtx[tip][j] \in Confirmed(tip)
  BY <1>2 DEF VtxSet
<1>5. ASSUME NEW t \in mapTx, NEW o \in Ins[t]
      PROVE  /\ InputAvailable(o)' \/ \E j \in 1 .. Len(Vtx[tip]) : o \in Outs[Vtx[tip][j]]
             /\ \A j \in 1 .. Len(Vtx[tip]) : o \notin Ins[Vtx[tip][j]]
  <2>1. o \in Unspent(tip) \/ \E p \in mapTx : o \in Outs[p]
    BY Zenon, <1>1 DEF PoolCInv, InputsAvailable, InputAvailable
  <2>2. \A j \in 1 .. Len(Vtx[tip]) : o \notin Ins[Vtx[tip][j]]
    BY Zenon, <1>1, <1>4, <2>1, SpentByChain
  <2>3. Unspent(coinsTip)' = Unspent(Parent[tip])
    BY Zenon, <1>1 DEF Unspent, Confirmed, VtxSet
  <2>4. CASE \E p \in mapTx : o \in Outs[p]
    BY Zenon, <1>1, <2>2, <2>4 DEF InputAvailable
  <2>5. CASE o \in Unspent(tip)
    <3>1. PICK u \in Confirmed(tip) : o \in Outs[u]
      BY Zenon, <1>1, <2>5, CoinConfirmed
    <3>2. CASE u \in VtxSet(tip)
      BY Zenon, <1>3, <2>2, <3>1, <3>2
    <3>3. CASE u \in Confirmed(Parent[tip])
      <4>1. \A v \in Confirmed(Parent[tip]) : o \notin Ins[v]
        BY Zenon, <1>2, <2>5 DEF Unspent
      <4>2. o \in Unspent(Parent[tip])
        BY Zenon, <3>1, <3>3, <4>1 DEF Unspent
      <4> QED BY Zenon, <2>2, <2>3, <4>2 DEF InputAvailable
    <3> QED BY Zenon, <1>2, <3>1, <3>2, <3>3
  <2> QED BY Zenon, <2>1, <2>4, <2>5
<1>6. Offered' = 0
  BY <1>1, <1>2 DEF Offered
<1>7. Restored'
  <2>1. \A t \in mapTx' : \A o \in Ins[t] :
          InputAvailable(o)' \/ \E j \in 1 .. Len(resurrect') : o \in Outs[resurrect'[j]]
    BY Zenon, <1>1, <1>5
  <2>2. \A t \in mapTx' : \A j \in 1 .. Len(resurrect') : Ins[t] \cap Ins[resurrect'[j]] = {}
    BY Zenon, <1>1, <1>5
  <2> QED BY <1>6, <2>1, <2>2 DEF Restored
<1> QED BY Zenon, <1>1, <1>7 DEF PoolCInv, InputsAvailable, PoolMature

\* Every transaction of the block but the coinbase is as acceptable as it was when
\* the block was connected.
LEMMA OfferedAcceptable ==
    ASSUME PoolIInv, PoolCInv, NEW accepted, Resurrect(accepted), Head(resurrect) \notin Coinbase
    PROVE  Acceptable(Head(resurrect))
<1> DEFINE t == Head(resurrect)
           i == Offered + 1
<1>1. /\ tip \in Block /\ tip # Genesis /\ coinsTip = Parent[tip] /\ coinsTip \in Block
      /\ Offered \in Nat /\ i \in DOMAIN Vtx[tip] /\ t = Vtx[tip][i] /\ t = resurrect[1]
      /\ t \in VtxSet(tip) /\ t \in Tx \ mapTx /\ 1 \in 1 .. Len(resurrect)
  BY NextOffered
<1>2. NextTxExact /\ Restored
  BY Zenon DEF PoolIInv, Indexed, PoolCInv, Resurrect
<1>3. /\ Valid(tip) /\ Height[tip] = Height[coinsTip] + 1 /\ Height[coinsTip] \in Nat
      /\ tip \in Chain[tip] /\ Chain[tip] \subseteq Block
  BY Zenon, <1>1, ChainStep, ChainTx
<1> HIDE DEF t, i
<1>4. /\ IsFinalTx(t, Height[tip])
      /\ \A o \in Ins[t] :
            /\ o \in Unspent(coinsTip) \/ \E j \in 1 .. i - 1 : o \in Outs[Vtx[tip][j]]
            /\ \A c \in Chain[tip] :
                (\E u \in VtxSet(c) \cap Coinbase : o \in Outs[u]) => Height[tip] - Height[c] >= Maturity
  BY Zenon, <1>1, <1>3 DEF Valid
<1>5. IsFinalTx(t, Height[tip] + 1)
  <2>1. LockHeight[t] \in Nat
    BY <1>1, ChainAssumption DEF MempoolAssumption
  <2> QED BY <1>3, <1>4, <2>1 DEF IsFinalTx
<1>6. Ins[t] \cap DOMAIN mapNextTx = {}
  <2>1. \A u \in mapTx : Ins[u] \cap Ins[t] = {}
    BY Zenon, <1>1, <1>2 DEF Restored
  <2> QED BY Zenon, <1>2, <2>1, Recorded
<1>7. ~HaveCoins(coinsTip, t)
  <2>1. t \notin Confirmed(coinsTip)
    BY Zenon, <1>1, <1>3 DEF Valid
  <2> QED BY Zenon, <1>1, <2>1, CoinConfirmed DEF HaveCoins
<1>8. ASSUME NEW o \in Ins[t]
      PROVE  InputAvailable(o)
  <2>1. CASE o \in Unspent(coinsTip)
    BY Zenon, <2>1 DEF InputAvailable
  <2>2. ASSUME NEW j \in 1 .. i - 1, o \in Outs[Vtx[tip][j]]
        PROVE  InputAvailable(o)
    <3>1. j \in 1 .. Offered /\ j \in DOMAIN Vtx[tip]
      BY <1>1, ChainTx DEF i
    <3>2. Vtx[tip][j] \in mapTx \cup Coinbase
      BY Zenon, <1>2, <3>1 DEF Restored
    <3>3. Vtx[tip][j] \notin Coinbase
      <4>1. SUFFICES ASSUME Vtx[tip][j] \in Coinbase
                     PROVE  FALSE
        OBVIOUS
      <4>2. Vtx[tip][j] \in VtxSet(tip) \cap Coinbase
        BY Zenon, <3>1, <4>1 DEF VtxSet
      <4>3. Height[tip] - Height[tip] >= Maturity
        BY Zenon, <1>3, <1>4, <2>2, <4>2
      <4>4. Maturity \in Nat \ {0}
        BY Zenon, ChainAssumption DEF MempoolAssumption
      <4> QED BY <1>3, <4>3, <4>4
    <3> QED BY Zenon, <2>2, <3>2, <3>3 DEF InputAvailable
  <2> QED BY Zenon, <1>4, <2>1, <2>2
<1>9. Mature(t, Height[coinsTip] + 1)
  <2>1. Chain[coinsTip] \subseteq Chain[tip]
    BY <1>1, ChainAssumption DEF MempoolAssumption
  <2> QED BY Zenon, <1>3, <1>4, <2>1 DEF Mature
<1> QED BY Zenon, <1>1, <1>5, <1>6, <1>7, <1>8, <1>9 DEF Acceptable, t

\* Offering a transaction back makes what it creates available from the pool.
LEMMA ResurrectCInv ==
    ASSUME PoolIInv, PoolCInv, PolicyKeeps, CoinbaseUnspent, NEW accepted, Resurrect(accepted)
    PROVE  PoolCInv'
<1> DEFINE t == Head(resurrect)
<1>1. /\ tip \in Block /\ tip # Genesis /\ t \in VtxSet(tip) /\ t = Vtx[tip][Offered + 1]
      /\ Offered \in Nat /\ Offered' = Offered + 1 /\ t = resurrect[1]
      /\ Len(resurrect) \in Nat \ {0} /\ Len(resurrect') = Len(resurrect) - 1
      /\ \A j \in 1 .. Len(resurrect') :
            resurrect'[j] = resurrect[j + 1] /\ Ins[resurrect'[j]] \cap Ins[t] = {}
  BY Zenon, NextOffered
<1>2. /\ phase = "resurrect" /\ UNCHANGED <<tip, coinsTip, phase>> /\ Restored
      /\ accepted \/ t \in Refusable
  BY Zenon DEF Resurrect, PoolCInv
<1>3. \/ t \notin Coinbase /\ Acceptable(t) /\ mapTx' = mapTx \cup {t}
      \/ t \in Coinbase /\ mapTx' = mapTx
  <2>1. t \notin Coinbase => Acceptable(t)
    BY Zenon, OfferedAcceptable
  <2>2. accepted
    BY Zenon, <1>1, <1>2 DEF PolicyKeeps
  <2>3. t \in Coinbase => ~Acceptable(t)
    BY Zenon DEF Acceptable
  <2> QED BY Zenon, <2>1, <2>2, <2>3, Offer
<1> HIDE DEF t
<1>4. \A o : InputAvailable(o) => InputAvailable(o)'
  BY Zenon, <1>2, <1>3 DEF InputAvailable, Unspent, Confirmed, VtxSet
<1>5. ASSUME NEW u \in mapTx', NEW o \in Ins[u]
      PROVE  InputAvailable(o)' \/ \E j \in 1 .. Len(resurrect') : o \in Outs[resurrect'[j]]
  <2>1. CASE InputAvailable(o)
    BY Zenon, <1>4, <2>1
  <2>2. CASE u \in mapTx /\ ~InputAvailable(o)
    <3>1. PICK j \in 1 .. Len(resurrect) : o \in Outs[resurrect[j]]
      BY Zenon, <1>2, <2>2 DEF Restored
    <3>2. CASE j = 1
      <4>1. o \in Outs[t]
        BY Zenon, <1>1, <3>1, <3>2
      <4>2. t \notin Coinbase
        BY Zenon, <1>1, <2>2, <4>1 DEF CoinbaseUnspent
      <4> QED BY Zenon, <1>3, <4>1, <4>2 DEF InputAvailable
    <3>3. CASE j # 1
      <4>1. j - 1 \in 1 .. Len(resurrect') /\ (j - 1) + 1 = j
        BY <1>1, <3>3
      <4> QED BY Zenon, <1>1, <3>1, <4>1
    <3> QED BY Zenon, <3>2, <3>3
  <2>3. CASE u \notin mapTx
    BY Zenon, <1>3, <1>4, <2>3 DEF Acceptable
  <2> QED BY Zenon, <2>1, <2>2, <2>3
<1>6. ASSUME NEW u \in mapTx', NEW j \in 1 .. Len(resurrect')
      PROVE  Ins[u] \cap Ins[resurrect'[j]] = {}
  <2>1. CASE u \in mapTx
    <3>1. j + 1 \in 1 .. Len(resurrect)
      BY <1>1
    <3>2. Ins[u] \cap Ins[resurrect[j + 1]] = {}
      BY Zenon, <1>2, <2>1, <3>1 DEF Restored
    <3> QED BY Zenon, <1>1, <3>2
  <2>2. CASE u = t
    BY Zenon, <1>1, <2>2
  <2> QED BY Zenon, <1>3, <2>1, <2>2
<1>7. ASSUME NEW i \in 1 .. Offered'
      PROVE  Vtx[tip][i] \in mapTx' \cup Coinbase
  <2>1. CASE i \in 1 .. Offered
    BY Zenon, <1>2, <1>3, <2>1 DEF Restored
  <2>2. CASE i = Offered + 1
    BY Zenon, <1>1, <1>3, <2>2
  <2> QED BY <1>1, <2>1, <2>2
<1>8. Restored'
  BY Zenon, <1>2, <1>5, <1>6, <1>7 DEF Restored
<1> QED BY Zenon, <1>2, <1>8 DEF PoolCInv, InputsAvailable, PoolMature

\* When the loop is over every input of the pool is there.
LEMMA LoopOver ==
    ASSUME PoolIInv, PoolCInv, phase = "resurrect", resurrect = <<>>
    PROVE  /\ \A t \in mapTx : \A o \in Ins[t] : InputAvailable(o)
           /\ VtxSet(tip) \subseteq mapTx \cup Coinbase
<1>1. Restored /\ tip \in Block
  BY Zenon DEF PoolCInv, PoolIInv, PoolShape
<1>2. Len(resurrect) = 0 /\ Vtx[tip] \in Seq(Tx) /\ Offered = Len(Vtx[tip])
  BY <1>1, ChainTx DEF Offered
<1>3. \A t \in mapTx : \A o \in Ins[t] : InputAvailable(o)
  BY <1>1, <1>2 DEF Restored
<1>4. VtxSet(tip) \subseteq mapTx \cup Coinbase
  BY <1>1, <1>2 DEF Restored, VtxSet
<1> QED BY Zenon, <1>3, <1>4

\* The assert of removeCoinbaseSpends holds wherever the sweep can start.
LEMMA SweepHolds == PoolIInv /\ PoolCInv => SweepAssert
<1> SUFFICES ASSUME PoolIInv, PoolCInv, phase = "resurrect", resurrect = <<>>,
                    NEW t \in mapTx, NEW o \in Ins[t]
             PROVE  Creator(o) \in mapTx \/ AccessCoins(Creator(o))
  BY Zenon DEF SweepAssert
<1>1. o \in Unspent(coinsTip) \/ \E p \in mapTx : o \in Outs[p]
  BY Zenon, LoopOver DEF InputAvailable
<1>2. mapTx \subseteq Tx /\ coinsTip \in Block
  BY Zenon DEF PoolIInv, Indexed, PoolShape
<1>3. CASE \E p \in mapTx : o \in Outs[p]
  BY Zenon, <1>2, <1>3, CreatorOf
<1>4. CASE o \in Unspent(coinsTip)
  <2>1. PICK u \in Confirmed(coinsTip) : o \in Outs[u]
    BY Zenon, <1>2, <1>4, CoinConfirmed
  <2>2. Creator(o) = u
    BY Zenon, <1>2, <2>1, CreatorOf, ChainTx
  <2> QED BY Zenon, <1>4, <2>1, <2>2 DEF AccessCoins, HaveCoins
<1> QED BY Zenon, <1>1, <1>3, <1>4

\* The sweep leaves only what is mature one block below.
LEMMA FinishCInv ==
    ASSUME PoolIInv, PoolCInv, FinishDisconnect
    PROVE  PoolCInv'
<1> DEFINE h == Height[tip]
           W == WithDescendants(CoinbaseSpends(h))
<1>1. /\ tip' = coinsTip /\ coinsTip' = coinsTip /\ mapTx' = mapTx \ W /\ mapTx \subseteq Tx
      /\ phase = "resurrect" /\ resurrect = <<>> /\ phase' = "idle"
      /\ NextTxExact /\ mapTx \cap Coinbase = {} /\ coinsTip \in Block
  BY Zenon, Finish DEF PoolIInv, Indexed, PoolClean
<1>2. Height[coinsTip] + 1 = h /\ h \in Nat
  BY Finish, ChainStep
<1>3. \A t \in mapTx : \A o \in Ins[t] : o \in Unspent(coinsTip) \/ \E p \in mapTx : o \in Outs[p]
  BY Zenon, <1>1, LoopOver DEF InputAvailable
<1>4. InputsAvailable'
  <2>1. ASSUME NEW t \in mapTx', NEW o \in Ins[t]
        PROVE  o \in Unspent(coinsTip) \/ \E p \in mapTx' : o \in Outs[p]
    <3>1. \A p \in mapTx : o \in Outs[p] => p \notin W
      BY Zenon, <1>1, Descendants
    <3> QED BY Zenon, <1>1, <1>3, <3>1
  <2>2. Unspent(coinsTip)' = Unspent(coinsTip)
    BY Zenon, <1>1 DEF Unspent, Confirmed, VtxSet
  <2> QED BY Zenon, <2>1, <2>2 DEF InputsAvailable, InputAvailable
<1>5. PoolMature'
  <2>1. SUFFICES ASSUME NEW t \in mapTx', NEW o \in Ins[t], NEW b \in Chain[coinsTip],
                        NEW c \in VtxSet(b) \cap Coinbase, o \in Outs[c]
                 PROVE  h - Height[b] >= Maturity
    <3>1. PoolMature' <=>
            (phase' = "idle" => \A t \in mapTx' : \A o \in Ins[t], b \in Chain[coinsTip'] :
                (\E c \in VtxSet(b) \cap Coinbase : o \in Outs[c])
                    => (Height[tip'] + 1) - Height[b] >= Maturity)
      BY Zenon DEF PoolMature, Mature, VtxSet
    <3> QED BY Zenon, <1>1, <1>2, <3>1
  <2>2. Height[b] \in Nat /\ Maturity \in Nat /\ c \in Tx
    BY Zenon, <1>1, ChainTx, ChainAssumption DEF MempoolAssumption
  <2>3. c \notin mapTx /\ Creator(o) = c
    BY Zenon, <1>1, <2>1, <2>2, CreatorOf
  <2>4. HaveCoins(coinsTip, c)
    <3>1. \A p \in mapTx : o \notin Outs[p]
      BY Zenon, <1>1, <2>1, <2>2, <2>3, OneCreator
    <3> QED BY Zenon, <1>1, <1>3, <2>1, <3>1 DEF HaveCoins
  <2>5. t \in mapTx /\ t \notin CoinbaseSpends(h)
    BY Zenon, <1>1, Descendants
  <2>6. ~(h - Height[b] < Maturity)
    BY Zenon, <2>1, <2>3, <2>4, <2>5 DEF CoinbaseSpends
  <2> QED BY <1>2, <2>2, <2>6
<1> QED BY Zenon, <1>1, <1>4, <1>5 DEF PoolCInv

\* What was offered and is not in the pool when DisconnectTip ends has left it.
LEMMA FinishFully ==
    ASSUME PoolIInv, PoolIInv', PoolCInv, FinishDisconnect
    PROVE  DisconnectsFully
<1>1. /\ phase = "resurrect" /\ resurrect = <<>> /\ tip' = coinsTip /\ coinsTip' = coinsTip
      /\ tip \in Block /\ coinsTip \in Block /\ mapTx' \subseteq mapTx
  BY Zenon, Finish
<1>2. SUFFICES ASSUME NEW t \in VtxSet(tip) \ Coinbase, t \notin mapTx'
               PROVE  ~Mature(t, Height[tip] + 1)' \/ \E o \in Ins[t] : ~InputAvailable(o)'
  BY Zenon DEF DisconnectsFully
<1>3. t \in mapTx
  BY Zenon, <1>1, <1>2, LoopOver
<1>4. t \notin Confirmed(coinsTip)
  BY Zenon, <1>3 DEF PoolIInv, PoolClean
<1>5. (tip' # tip /\ t \in Confirmed(tip)')
      \/ ~Mature(t, Height[tip] + 1)' \/ \E o \in Ins[t] : ~InputAvailable(o)'
  BY Zenon, <1>2, <1>3, FinishLeaves DEF LeavesRightly
<1>6. Confirmed(tip)' = Confirmed(coinsTip)
  BY Zenon, <1>1 DEF Confirmed, VtxSet
<1> QED BY Zenon, <1>4, <1>5, <1>6

\* What leaves the pool, the chain and the phase alone.
LEMMA StillCInv ==
    ASSUME PoolCInv, UNCHANGED <<tip, coinsTip, mapTx, resurrect, phase>>
    PROVE  PoolCInv'
<1>1. \A o : InputAvailable(o)' <=> InputAvailable(o)
  BY Zenon DEF InputAvailable, Unspent, Confirmed, VtxSet
<1>2. InputsAvailable'
  BY Zenon, <1>1 DEF PoolCInv, InputsAvailable
<1>3. PoolMature'
  BY Zenon DEF PoolCInv, PoolMature, Mature, VtxSet
<1>4. ASSUME phase' = "resurrect"
      PROVE  Restored'
  <2>1. Restored
    BY Zenon, <1>4 DEF PoolCInv
  <2> QED BY Zenon, <1>1, <2>1 DEF Restored, Offered
<1> QED BY Zenon, <1>2, <1>3, <1>4 DEF PoolCInv

\* Every step keeps what the pool spends available and mature.
LEMMA PoolCInvNext ==
    ASSUME PolicyKeeps, PoolIInv, PoolIInv', PoolCInv, CoinbaseUnspent, [PoolNext]_poolVars
    PROVE  PoolCInv' /\ DisconnectsFully
<1>1. PoolCInv'
  <2>1. CASE UNCHANGED poolVars
    BY Zenon, <2>1, StillCInv DEF poolVars
  <2>2. ASSUME NEW t \in Tx, AcceptToMemoryPool(t)
        PROVE  PoolCInv'
    BY Zenon, <2>2, AcceptCInv
  <2>3. ASSUME NEW b \in Block, ConnectTip(b)
        PROVE  PoolCInv'
    BY Zenon, <2>3, ConnectCInv
  <2>4. CASE DisconnectTip
    BY Zenon, <2>4, DisconnectCInv
  <2>5. ASSUME NEW accepted \in BOOLEAN, Resurrect(accepted)
        PROVE  PoolCInv'
    BY Zenon, <2>5, ResurrectCInv
  <2>6. CASE FinishDisconnect
    BY Zenon, <2>6, FinishCInv
  <2>7. CASE FlushStateToDisk
    BY Zenon, <2>7, StillCInv DEF FlushStateToDisk
  <2> QED BY Zenon, <2>1, <2>2, <2>3, <2>4, <2>5, <2>6, <2>7 DEF PoolNext
<1>2. CASE FinishDisconnect
  BY Zenon, <1>1, <1>2, FinishFully
<1>3. CASE ~FinishDisconnect
  BY Zenon, <1>1, <1>3 DEF DisconnectsFully
<1> QED BY Zenon, <1>2, <1>3

\* The asserts of CTxMemPool::check hold and DisconnectTip puts every transaction
\* of the block that is still valid back, as long as policy takes back what blocks
\* contain and no pool transaction spends the tip's coinbase.
THEOREM PoolCheckHolds ==
    ASSUME PolicyKeeps
    PROVE  PoolSpec /\ []CoinbaseUnspent => PoolCheck
<1>1. PoolSpec => []PoolIInv
  BY PoolIInvInit, PoolIInvNext, PTL DEF PoolSpec
<1>2. PoolInit => PoolCInv
  BY Zenon DEF PoolInit, PoolCInv, InputsAvailable, PoolMature
<1>3. PoolIInv /\ PoolIInv' /\ PoolCInv /\ CoinbaseUnspent /\ [PoolNext]_poolVars
        => PoolCInv' /\ [DisconnectsFully /\ LeavesRightly]_poolVars
  BY Zenon, PoolCInvNext, LeavesNext
<1>4. PoolIInv /\ PoolCInv =>
        /\ PoolTypeOK /\ NextTxExact /\ SizeExact
        /\ InputsAvailable /\ PoolMature /\ NotConfirmed /\ SweepAssert
  BY Zenon, PoolIInvFacts, SweepHolds DEF PoolCInv
<1> QED BY <1>1, <1>2, <1>3, <1>4, PTL DEF PoolSpec, PoolCheck
=============================================================================
