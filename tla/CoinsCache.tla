----------------------------- MODULE CoinsCache -----------------------------
(***************************************************************************)
(* The coin caches (coins.cpp) over the coin database (txdb.cpp): a view   *)
(* that ConnectBlock or DisconnectBlock modifies (the child), on top of    *)
(* pcoinsTip (the parent), on top of the LevelDB records (the              *)
(* grandparent).  A cache keeps DIRTY and FRESH flags with every entry and *)
(* leaves out what it may; the flags decide what a flush writes.           *)
(*                                                                         *)
(* A CCoins is a value, Pruned if every output is spent.  cs_main is held  *)
(* throughout: the steps below interleave reads of any view, a crash and a *)
(* flush in any order the callers allow.                                   *)
(***************************************************************************)
EXTENDS Naturals

CONSTANTS
    TxId,       \* transaction ids
    Coins,      \* values a CCoins can take
    Pruned,     \* the one with no output left
    NoEntry,    \* a cache has no entry for the transaction
    BlockHash,
    GenesisHash,
    NullHash,   \* uint256(): the cache has not looked its best block up
    CoinsAt     \* the coins each block leaves unspent

\* CCoinsCacheEntry.
Entry == [coins : Coins, dirty : BOOLEAN, fresh : BOOLEAN]

ASSUME CoinsAssumption ==
    /\ Pruned \in Coins
    /\ NoEntry \notin Entry
    /\ GenesisHash \in BlockHash
    /\ NullHash \notin BlockHash
    /\ CoinsAt \in [BlockHash -> [TxId -> Coins]]

VARIABLES
    dbCoins,    \* the 'c' records; Pruned where there is none
    dbBest,     \* the 'B' record
    tipCoins,   \* pcoinsTip->cacheCoins
    tipBest,    \* pcoinsTip->hashBlock
    open,       \* a child view exists
    child,      \* its cacheCoins
    childBest   \* its hashBlock

coinsVars == <<dbCoins, dbBest, tipCoins, tipBest, open, child, childBest>>

EmptyCache == [tx \in TxId |-> NoEntry]

CoinsInit ==
    /\ dbCoins = CoinsAt[GenesisHash]
    /\ dbBest = GenesisHash
    /\ tipCoins = EmptyCache
    /\ tipBest = NullHash
    /\ open = FALSE
    /\ child = EmptyCache
    /\ childBest = NullHash

-----------------------------------------------------------------------------
(* FetchCoins and ModifyCoins.                                              *)

\* The entry the parent cache has after its FetchCoins: what it had, or a copy
\* of the database record if there is one.
TipFetched(tx) ==
    IF tipCoins[tx] # NoEntry THEN tipCoins[tx]
    ELSE IF dbCoins[tx] = Pruned THEN NoEntry
    ELSE [coins |-> dbCoins[tx], dirty |-> FALSE, fresh |-> FALSE]

\* The entry FetchCoins makes of what the parent returned.
Copied(e) == [coins |-> e.coins, dirty |-> FALSE, fresh |-> e.coins = Pruned]

\* The entry the child has after its FetchCoins.
ChildFetched(tx) ==
    IF child[tx] # NoEntry THEN child[tx]
    ELSE IF TipFetched(tx) = NoEntry THEN NoEntry
    ELSE Copied(TipFetched(tx))

\* The entry ModifyCoins hands out: created if need be, FRESH if the parent has
\* nothing, and DIRTY.
ToModify(tx) ==
    LET e == ChildFetched(tx)
    IN  IF e = NoEntry THEN [coins |-> Pruned, dirty |-> TRUE, fresh |-> TRUE]
        ELSE [e EXCEPT !.dirty = TRUE]

\* The destructor of CCoinsModifier drops an entry the parent does not need.
Modified(e, c) ==
    IF e.fresh /\ c = Pruned THEN NoEntry ELSE [e EXCEPT !.coins = c]

\* Reads of pcoinsTip (mempool, RPC, CreateNewBlock).
FetchTip(tx) ==
    /\ tipCoins' = [tipCoins EXCEPT ![tx] = TipFetched(tx)]
    /\ UNCHANGED <<dbCoins, dbBest, tipBest, open, child, childBest>>

\* Reads through the child, which fill both caches.
FetchChild(tx) ==
    /\ open
    /\ tipCoins' = [tipCoins EXCEPT ![tx] = IF child[tx] = NoEntry THEN TipFetched(tx) ELSE @]
    /\ child' = [child EXCEPT ![tx] = ChildFetched(tx)]
    /\ UNCHANGED <<dbCoins, dbBest, tipBest, open, childBest>>

ModifyCoins(tx, c) ==
    /\ open
    /\ tipCoins' = [tipCoins EXCEPT ![tx] = IF child[tx] = NoEntry THEN TipFetched(tx) ELSE @]
    /\ child' = [child EXCEPT ![tx] = Modified(ToModify(tx), c)]
    /\ UNCHANGED <<dbCoins, dbBest, tipBest, open, childBest>>

-----------------------------------------------------------------------------
(* Views and flushes.                                                       *)

\* pcoinsTip->GetBestBlock().
TipGetBest == IF tipBest = NullHash THEN dbBest ELSE tipBest

\* ConnectTip and DisconnectTip build a view, and ConnectBlock and
\* DisconnectBlock look its best block up, through pcoinsTip.
OpenView ==
    /\ ~open
    /\ open' = TRUE
    /\ child' = EmptyCache
    /\ childBest' = TipGetBest
    /\ tipBest' = TipGetBest
    /\ UNCHANGED <<dbCoins, dbBest, tipCoins>>

\* One entry of BatchWrite into the parent cache.
FaultyMerged(e, us) ==  \* Faulty variant: a pruned entry always deletes the parent's.
    IF e = NoEntry THEN us
    ELSE IF ~e.dirty THEN us
    ELSE IF e.coins = Pruned THEN NoEntry
    ELSE IF us = NoEntry THEN [coins |-> e.coins, dirty |-> TRUE, fresh |-> TRUE]
    ELSE [us EXCEPT !.coins = e.coins, !.dirty = TRUE]

Merged(e, us) ==
    IF e = NoEntry THEN us
    ELSE IF ~e.dirty THEN us
    ELSE IF us = NoEntry
         THEN IF e.coins = Pruned THEN NoEntry
              ELSE [coins |-> e.coins, dirty |-> TRUE, fresh |-> TRUE]
    ELSE IF us.fresh /\ e.coins = Pruned THEN NoEntry
    ELSE [us EXCEPT !.coins = e.coins, !.dirty = TRUE]

\* What the child shows.
ChildView ==
    [tx \in TxId |-> IF child[tx] # NoEntry THEN child[tx].coins
                   ELSE IF tipCoins[tx] # NoEntry THEN tipCoins[tx].coins
                   ELSE dbCoins[tx]]

\* The block is applied: SetBestBlock, then Flush into pcoinsTip.
FlushView(b) ==
    /\ open
    /\ ChildView = CoinsAt[b]
    /\ tipCoins' = [tx \in TxId |-> Merged(child[tx], tipCoins[tx])]
    /\ tipBest' = b
    /\ open' = FALSE
    /\ child' = EmptyCache
    /\ childBest' = NullHash
    /\ UNCHANGED <<dbCoins, dbBest>>

\* ConnectBlock failed, or only checked: the view goes out of scope.
DiscardView ==
    /\ open
    /\ open' = FALSE
    /\ child' = EmptyCache
    /\ childBest' = NullHash
    /\ UNCHANGED <<dbCoins, dbBest, tipCoins, tipBest>>

\* The batch CCoinsViewDB::BatchWrite commits: dirty entries only.
FaultyBatch(tx) ==      \* Faulty variant: FRESH entries are taken for clean.
    IF tipCoins[tx] # NoEntry /\ tipCoins[tx].dirty /\ ~tipCoins[tx].fresh
    THEN tipCoins[tx].coins ELSE dbCoins[tx]

Batch(tx) ==
    IF tipCoins[tx] # NoEntry /\ tipCoins[tx].dirty THEN tipCoins[tx].coins ELSE dbCoins[tx]

\* pcoinsTip->Flush() in FlushStateToDisk: one atomic batch with the best block.
FlushTip ==
    /\ ~open
    /\ dbCoins' = [tx \in TxId |-> Batch(tx)]
    /\ dbBest' = TipGetBest
    /\ tipCoins' = EmptyCache
    /\ UNCHANGED <<tipBest, open, child, childBest>>

\* LevelDB refuses the batch and throws.  BatchWrite has emptied the cache by
\* then; FlushStateToDisk catches the error, and the node shuts down, which
\* flushes pcoinsTip again.
FlushTipFails ==
    /\ ~open
    /\ tipCoins' = EmptyCache
    /\ UNCHANGED <<dbCoins, dbBest, tipBest, open, child, childBest>>

\* The process dies and starts again from the database.
CoinsCrash ==
    /\ tipCoins' = EmptyCache
    /\ tipBest' = NullHash
    /\ open' = FALSE
    /\ child' = EmptyCache
    /\ childBest' = NullHash
    /\ UNCHANGED <<dbCoins, dbBest>>

-----------------------------------------------------------------------------
CoinsNext ==
    \/ \E tx \in TxId : FetchTip(tx) \/ FetchChild(tx)
    \/ \E tx \in TxId, c \in Coins : ModifyCoins(tx, c)
    \/ \E b \in BlockHash : FlushView(b)
    \/ OpenView \/ DiscardView \/ FlushTip \/ CoinsCrash

CoinsSpec == CoinsInit /\ [][CoinsNext]_coinsVars

\* The same with writes that LevelDB refuses.
FailingSpec == CoinsInit /\ [][CoinsNext \/ FlushTipFails]_coinsVars

-----------------------------------------------------------------------------
(* Properties.                                                              *)

\* Types of the variables.
CoinsTypeOK ==
    /\ dbCoins \in [TxId -> Coins]
    /\ dbBest \in BlockHash
    /\ tipCoins \in [TxId -> Entry \cup {NoEntry}]
    /\ tipBest \in BlockHash \cup {NullHash}
    /\ open \in BOOLEAN
    /\ child \in [TxId -> Entry \cup {NoEntry}]
    /\ childBest \in BlockHash \cup {NullHash}

\* What pcoinsTip shows.
TipView ==
    [tx \in TxId |-> IF tipCoins[tx] # NoEntry THEN tipCoins[tx].coins ELSE dbCoins[tx]]

\* The flags mean what coins.h says of them: an entry that is not DIRTY is the
\* parent view's, and a FRESH one is pruned or missing in the parent view.
FlagsMean ==
    /\ \A tx \in TxId : tipCoins[tx] # NoEntry =>
        /\ ~tipCoins[tx].dirty => tipCoins[tx].coins = dbCoins[tx]
        /\ tipCoins[tx].fresh => dbCoins[tx] = Pruned
    /\ \A tx \in TxId : child[tx] # NoEntry =>
        /\ ~child[tx].dirty => child[tx].coins = TipView[tx]
        /\ child[tx].fresh => TipView[tx] = Pruned

\* The assert of BatchWrite: a modified entry the parent has not got is FRESH
\* ("if the grandparent did have it, we would have pulled it in").
BatchWriteAssert ==
    \A tx \in TxId :
        child[tx] # NoEntry /\ child[tx].dirty /\ child[tx].coins # Pruned /\ tipCoins[tx] = NoEntry
        => child[tx].fresh

\* GetBestBlock of the database is "the block hash whose state this CCoinsView
\* currently represents": the records are exactly the coins that block leaves
\* unspent, so a crash at any point restarts from the state of some block.
DatabaseRepresentsBest == dbCoins = CoinsAt[dbBest]

\* The same holds of pcoinsTip, whatever is cached in it and however its entries
\* got there.
TipRepresentsBest == TipView = CoinsAt[TipGetBest]

\* The stack of caches implements three flat maps: reads change nothing, a
\* discarded view leaves no trace, a flush makes exactly the view's state
\* visible one level down, together with its best block.
tipVersion == [coins |-> TipView, best |-> TipGetBest]
View == INSTANCE CoinsView WITH
    working <- IF open THEN [coins |-> ChildView, best |-> childBest] ELSE tipVersion,
    active <- tipVersion,
    durable <- [coins |-> dbCoins, best |-> dbBest]

ImplementsView == View!Spec
=============================================================================
