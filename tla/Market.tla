------------------------------- MODULE Market -------------------------------
(***************************************************************************)
(* Market objects (branches, decisions, markets, trades and votes), from   *)
(* the RPC call that creates one to the index that answers for it.         *)
(*                                                                         *)
(* A create* call puts an object into a transaction if the index knows     *)
(* what the object refers to.  ConnectBlock writes the objects of a block  *)
(* to the market database, without waiting for the disk; DisconnectBlock   *)
(* leaves the database alone.  FlushStateToDisk forces the market database *)
(* to disk and then writes the coin database, whose best block is where    *)
(* the chain starts after a crash.  Writes that were not forced to disk    *)
(* may be lost, the latest ones first.                                     *)
(***************************************************************************)
EXTENDS Integers, Sequences, FiniteSets

CONSTANTS
    Block, Genesis, Parent, Chain, Height,
    Object, Kind, Refs,     \* an object, its marketop, what it refers to
    GenesisBranch,
    Copy,                   \* transactions with the same object
    NoHeight                \* (uint32_t) -1

Tx == Object \X Copy
GenesisTx == <<GenesisBranch, CHOOSE c \in Copy : TRUE>>

ASSUME MarketAssumption ==
    /\ Genesis \in Block
    /\ Copy # {} /\ GenesisBranch \in Object
    /\ Parent \in [Block \ {Genesis} -> Block]
    /\ Chain \in [Block -> SUBSET Block] /\ Chain[Genesis] = {Genesis}
    /\ \A b \in Block \ {Genesis} : Chain[b] = Chain[Parent[b]] \cup {b}
    /\ Height \in [Block -> Nat] /\ NoHeight \notin Nat
    /\ Kind \in [Object -> {"B", "D", "M", "T", "S", "L", "R"}]
    /\ Refs \in [Object -> SUBSET Object]

VARIABLES
    created,    \* transactions sent by CommitTransaction
    content,    \* of the blocks mined so far: their transactions
    tip,        \* chainActive.Tip(), the best block of pcoinsTip
    index,      \* the market database: the txid stored with each object
    indexMay,   \* what a crash may leave of it
    coinsMay,   \* best blocks a crash may leave in the coin database
    flushing    \* FlushStateToDisk is between its two databases

marketVars == <<created, content, tip, index, indexMay, coinsMay, flushing>>

Stored == DOMAIN index
InBlock(b) == {t[1] : t \in content[b]}
InChain(b) == UNION {InBlock(c) : c \in Chain[b]}

MarketInit ==
    /\ created = {GenesisTx}
    /\ content = [b \in {Genesis} |-> {GenesisTx}]
    /\ tip = Genesis
    /\ index = [o \in {GenesisBranch} |-> GenesisTx]
    /\ indexMay = {index} /\ coinsMay = {Genesis}
    /\ flushing = FALSE

-----------------------------------------------------------------------------
(* The RPC calls.  Commit stands for CreateTransaction and                  *)
(* CommitTransaction, which succeed with an unlocked and funded wallet.     *)

Commit(o) ==
    /\ \E c \in Copy : <<o, c>> \notin created /\ created' = created \cup {<<o, c>>}
    /\ UNCHANGED <<content, tip, index, indexMay, coinsMay, flushing>>

FaultyExist(refs) == TRUE       \* Faulty variant: nothing is looked up.
Exist(refs) == refs \subseteq Stored

createbranch(o) == Kind[o] = "B" /\ o \notin Stored /\ Commit(o)
createdecision(o) == Kind[o] = "D" /\ Exist(Refs[o]) /\ o \notin Stored /\ Commit(o)
createmarket(o) == Kind[o] = "M" /\ Exist(Refs[o]) /\ o \notin Stored /\ Commit(o)
createtrade(o) == Kind[o] = "T" /\ Exist(Refs[o]) /\ o \notin Stored /\ Commit(o)
createsealedvote(o) == Kind[o] = "S" /\ Exist(Refs[o]) /\ Commit(o)
createstealvote(o) == Kind[o] = "L" /\ Exist(Refs[o]) /\ Commit(o)
createrevealvote(o) == Kind[o] = "R" /\ Exist(Refs[o]) /\ Commit(o)

-----------------------------------------------------------------------------
(* Blocks.                                                                  *)

\* Someone mines b with transactions that its ancestors do not have.
Mine(b, txs) ==
    /\ b \notin DOMAIN content /\ Parent[b] \in DOMAIN content
    /\ txs \subseteq created \ UNION {content[c] : c \in Chain[Parent[b]]}
    /\ content' = [c \in DOMAIN content \cup {b} |-> IF c = b THEN txs ELSE content[c]]
    /\ UNCHANGED <<created, tip, index, indexMay, coinsMay, flushing>>

\* WriteMarketIndex: one batch.  Of two transactions with an object the later one
\* is kept.
Written(b) ==
    {w \in [Stored \cup InBlock(b) -> Tx] :
        \A o \in DOMAIN w : IF o \in InBlock(b) THEN w[o][1] = o /\ w[o] \in content[b]
                            ELSE w[o] = index[o]}

\* ConnectTip, with ConnectBlock.
ConnectTip(b) ==
    /\ ~flushing
    /\ b \in DOMAIN content /\ b # Genesis /\ Parent[b] = tip
    /\ tip' = b
    /\ index' \in Written(b)
    /\ indexMay' = indexMay \cup {index'}
    /\ UNCHANGED <<created, content, coinsMay, flushing>>

\* DisconnectTip, with DisconnectBlock.
DisconnectTip ==
    /\ ~flushing /\ tip # Genesis
    /\ tip' = Parent[tip]
    /\ UNCHANGED <<created, content, index, indexMay, coinsMay, flushing>>

\* FlushStateToDisk: pmarkettree->WriteBatchSync ...
FaultySynced == indexMay        \* Faulty variant: the write is not forced.
Synced == {index}

FlushMarket ==
    /\ ~flushing /\ flushing' = TRUE
    /\ indexMay' = Synced
    /\ UNCHANGED <<created, content, tip, index, coinsMay>>

\* ... and pcoinsTip->Flush.
FlushCoins ==
    /\ flushing /\ flushing' = FALSE
    /\ coinsMay' = coinsMay \cup {tip}
    /\ UNCHANGED <<created, content, tip, index, indexMay>>

\* A crash and the next start, up to LoadBlockIndexDB; blocks are still to be had,
\* from disk or from peers, and wallets still have their transactions.
Crash ==
    /\ \E b \in coinsMay : tip' = b /\ coinsMay' = {b}
    /\ \E i \in indexMay : index' = i /\ indexMay' = {i}
    /\ flushing' = FALSE
    /\ UNCHANGED <<created, content>>

-----------------------------------------------------------------------------
Create(o) ==
    \/ createbranch(o) \/ createdecision(o) \/ createmarket(o) \/ createtrade(o)
    \/ createsealedvote(o) \/ createstealvote(o) \/ createrevealvote(o)

MarketNext ==
    \/ \E o \in Object : Create(o)
    \/ \E b \in Block \ {Genesis} : ConnectTip(b) \/ \E txs \in SUBSET created : Mine(b, txs)
    \/ DisconnectTip \/ FlushMarket \/ FlushCoins \/ Crash

MarketSpec == MarketInit /\ [][MarketNext]_marketVars

-----------------------------------------------------------------------------
(* Queries.                                                                 *)

\* InsertMarketObjectHeight: the height of the stored transaction's block, if it
\* is in the active chain.
InsertMarketObjectHeight(o) ==
    LET holds == {b \in Chain[tip] : index[o] \in content[b]}
    IN  IF holds = {} THEN NoHeight ELSE Height[CHOOSE b \in holds : TRUE]

-----------------------------------------------------------------------------
(* Properties.                                                              *)

\* Types of the variables.
MarketTypeOK ==
    /\ created \subseteq Tx
    /\ DOMAIN content \subseteq Block /\ \A b \in DOMAIN content : content[b] \subseteq created
    /\ tip \in DOMAIN content
    /\ \A i \in indexMay \cup {index} : \A o \in DOMAIN i : i[o] \in created /\ i[o][1] = o
    /\ coinsMay \subseteq DOMAIN content
    /\ flushing \in BOOLEAN

\* Every object of the active chain is in the index, after any crash: the market
\* database is forced to disk before the coin database names a later block.
IndexCoversChain == InChain(tip) \subseteq Stored

\* "The voteid is a previously submitted sealed vote", and so on: what an object
\* of the active chain refers to is in an earlier block of the chain.
ReferencesResolve ==
    \A b \in Chain[tip] : \A o \in InBlock(b) : Refs[o] \subseteq InChain(b) \ InBlock(b)

\* "Bitcoin's block chain can be viewed as a ledger of actions on a dataset": the
\* index is what the active chain says.
IndexIsLedger == Stored \subseteq InChain(tip)

\* "fill obj->nHeight if recorded": an object of the active chain has a height.
HeightRecorded == \A o \in InChain(tip) : InsertMarketObjectHeight(o) # NoHeight
=============================================================================
