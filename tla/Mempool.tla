------------------------------ MODULE Mempool ------------------------------
(***************************************************************************)
(* The memory pool (txmempool.cpp) under AcceptToMemoryPool, ConnectTip    *)
(* and DisconnectTip (main.cpp).                                           *)
(*                                                                         *)
(* A fixed tree of blocks that pass ConnectBlock is given.  Chain code     *)
(* holds cs_main; the loop of DisconnectTip that offers the block's        *)
(* transactions to the pool takes one step per transaction, as the pool's  *)
(* own lock is free in between and mempool.check is called on both sides.  *)
(* A transaction is its inputs, outputs and lock height; whether the relay *)
(* policy (standardness, fees, priority, rate limit) lets it in is left    *)
(* open for the transactions in Refusable.  A size is a symbol: a sum of   *)
(* sizes is how many times each transaction's is in it.                    *)
(***************************************************************************)
EXTENDS Integers, Sequences

CONSTANTS
    Tx, Block,
    Coinbase,       \* the transactions that are coinbases
    Genesis,        \* a block deep enough never to be disconnected
    Parent,         \* pprev
    Height,
    Chain,          \* a block's ancestors and itself
    Vtx,            \* CBlock::vtx, the coinbase first
    Ins,            \* the outpoints a transaction spends
    Outs,           \* the outpoints it creates
    LockHeight,     \* nLockTime, 0 if none
    Refusable,      \* transactions policy may refuse
    Maturity        \* COINBASE_MATURITY

VtxSet(b) == {Vtx[b][i] : i \in DOMAIN Vtx[b]}
Confirmed(b) == UNION {VtxSet(c) : c \in Chain[b]}

\* The coins of the chain ending in b, and the transactions that have some.
Unspent(b) ==
    {o \in UNION {Outs[t] : t \in Confirmed(b)} : \A t \in Confirmed(b) : o \notin Ins[t]}
HaveCoins(b, t) == Outs[t] \cap Unspent(b) # {}

IsFinalTx(t, h) == LockHeight[t] = 0 \/ LockHeight[t] < h

\* What ConnectBlock and ContextualCheckBlock have checked of a block: nothing in
\* it is confirmed already (BIP 30, and the height in a coinbase, which is taken
\* to be enforced), it spends nothing twice, and its transactions are final and
\* spend mature coins of the parent's chain or outputs of earlier ones.
Valid(b) ==
    /\ VtxSet(b) \cap Confirmed(Parent[b]) = {}
    /\ \A i, j \in DOMAIN Vtx[b] :
        i # j => Vtx[b][i] # Vtx[b][j] /\ Ins[Vtx[b][i]] \cap Ins[Vtx[b][j]] = {}
    /\ \A i \in DOMAIN Vtx[b] :
        /\ IsFinalTx(Vtx[b][i], Height[b])
        /\ \A o \in Ins[Vtx[b][i]] :
            /\ o \in Unspent(Parent[b]) \/ \E j \in 1 .. i - 1 : o \in Outs[Vtx[b][j]]
            /\ \A c \in Chain[b] :
                (\E u \in VtxSet(c) \cap Coinbase : o \in Outs[u])
                    => Height[b] - Height[c] >= Maturity

MempoolAssumption ==
    /\ Genesis \in Block /\ Coinbase \subseteq Tx /\ Refusable \subseteq Tx
    /\ Parent \in [Block \ {Genesis} -> Block]
    /\ Height \in [Block -> Nat] /\ LockHeight \in [Tx -> Nat]
    /\ Maturity \in Nat \ {0}
    /\ Chain \in [Block -> SUBSET Block] /\ Chain[Genesis] = {Genesis}
    /\ \A b \in Block \ {Genesis} :
        /\ Chain[b] = Chain[Parent[b]] \cup {b}
        /\ Height[b] = Height[Parent[b]] + 1
        /\ b \notin Chain[Parent[b]]
    /\ \A b \in Block : \A c \in Chain[b] : Chain[c] \subseteq Chain[b]
    /\ \A b \in Block : Vtx[b] \in Seq(Tx)
    /\ \A t, u \in Tx : t # u => Outs[t] \cap Outs[u] = {}
    /\ \A t \in Tx : Outs[t] # {} /\ (Ins[t] = {} <=> t \in Coinbase)
    /\ \A t \in VtxSet(Genesis) :     \* Genesis stands for all that is before it
        Ins[t] \subseteq UNION {Outs[u] : u \in VtxSet(Genesis)}
    /\ \A b \in Block \ {Genesis} : Valid(b)

ASSUME ChainAssumption == MempoolAssumption

VARIABLES
    tip,            \* chainActive.Tip()
    coinsTip,       \* the block pcoinsTip represents
    db,             \* the block the coin database represents
    mapTx,          \* the transactions in the pool
    mapNextTx,      \* who spends an outpoint
    totalTxSize,    \* how many times it counts each transaction's size
    resurrect,      \* DisconnectTip: the transactions still to be offered
    phase           \* "idle", or where DisconnectTip is

poolVars == <<tip, coinsTip, db, mapTx, mapNextTx, totalTxSize, resurrect, phase>>

PoolInit ==
    /\ tip = Genesis /\ coinsTip = Genesis /\ db = Genesis
    /\ mapTx = {} /\ mapNextTx = <<>> /\ totalTxSize = [t \in Tx |-> 0]
    /\ resurrect = <<>> /\ phase = "idle"

-----------------------------------------------------------------------------
(* The pool.                                                                *)

\* addUnchecked.
Add(t) ==
    /\ mapTx' = mapTx \cup {t}
    /\ mapNextTx' = [o \in DOMAIN mapNextTx \cup Ins[t] |->
                        IF o \in Ins[t] THEN t ELSE mapNextTx[o]]
    /\ totalTxSize' = [totalTxSize EXCEPT ![t] = @ + 1]

\* The transactions the work list of a recursive remove reaches from S: those
\* in every set that has S and, with a transaction, all its spenders.
Spenders(t) == {mapNextTx[o] : o \in Outs[t] \cap DOMAIN mapNextTx}

WithDescendants(S) ==
    {t \in mapTx : \A R \in SUBSET mapTx :
        (S \cap mapTx \subseteq R /\ \A r \in R : Spenders(r) \cap mapTx \subseteq R) => t \in R}

\* remove, applied to every transaction of S.
Erase(S) ==
    /\ mapTx' = mapTx \ S
    /\ mapNextTx' = [o \in DOMAIN mapNextTx \ UNION {Ins[t] : t \in S \cap mapTx} |-> mapNextTx[o]]
    /\ totalTxSize' = [t \in Tx |-> IF t \in S \cap mapTx THEN totalTxSize[t] - 1 ELSE totalTxSize[t]]

-----------------------------------------------------------------------------
(* AcceptToMemoryPool.                                                      *)

\* CheckInputs: a coinbase is mature at the height after pcoinsTip's block.
Mature(t, h) ==
    \A o \in Ins[t], b \in Chain[coinsTip] :
        (\E c \in VtxSet(b) \cap Coinbase : o \in Outs[c]) => h - Height[b] >= Maturity

\* CCoinsViewMemPool over pcoinsTip: an input is there if it is unspent in the
\* chain or an output of a pool transaction.
InputAvailable(o) == o \in Unspent(coinsTip) \/ \E p \in mapTx : o \in Outs[p]

\* The checks that do not depend on policy.  chainActive is still the old chain
\* while DisconnectTip runs; pcoinsTip is not.
Acceptable(t) ==
    /\ t \notin Coinbase
    /\ IsFinalTx(t, Height[tip] + 1)
    /\ t \notin mapTx
    /\ Ins[t] \cap DOMAIN mapNextTx = {}
    /\ ~HaveCoins(coinsTip, t)
    /\ \A o \in Ins[t] : InputAvailable(o)
    /\ Mature(t, Height[coinsTip] + 1)

\* A transaction arrives from a peer, an RPC or the wallet.
AcceptToMemoryPool(t) ==
    /\ phase = "idle"
    /\ Acceptable(t)
    /\ Add(t)
    /\ UNCHANGED <<tip, coinsTip, db, resurrect, phase>>

-----------------------------------------------------------------------------
(* The chain.                                                               *)

\* FLUSH_STATE_IF_NEEDED: the coin database may catch up with pcoinsTip.
MayFlush(b) == db' \in {db, b}

\* removeForBlock: the block's transactions leave alone, what conflicts with
\* them leaves with its descendants.
Conflicts(b) ==
    {mapNextTx[o] : o \in DOMAIN mapNextTx \cap UNION {Ins[t] : t \in VtxSet(b)}} \ VtxSet(b)

FaultyRemovedForBlock(b) == VtxSet(b)   \* Faulty variant: no removeConflicts.

FaultyRecursive(b) ==   \* Faulty variant: what spends a confirmed output leaves too.
    WithDescendants(VtxSet(b) \cup Conflicts(b))

RemovedForBlock(b) == VtxSet(b) \cup WithDescendants(Conflicts(b))

ConnectTip(b) ==
    /\ phase = "idle"
    /\ b # Genesis
    /\ Parent[b] = tip
    /\ coinsTip' = b
    /\ MayFlush(b)
    /\ Erase(RemovedForBlock(b))
    /\ tip' = b
    /\ UNCHANGED <<resurrect, phase>>

\* DisconnectTip up to its loop: DisconnectBlock, Flush, FlushStateToDisk.
DisconnectTip ==
    /\ phase = "idle"
    /\ tip # Genesis
    /\ coinsTip' = Parent[tip]
    /\ MayFlush(Parent[tip])
    /\ resurrect' = Vtx[tip]
    /\ phase' = "resurrect"
    /\ UNCHANGED <<tip, mapTx, mapNextTx, totalTxSize>>

\* One transaction is accepted again, or removed recursively, which does nothing
\* when it is not in the pool.
FaultyReadmitted(t, accepted) ==    \* Faulty variant: the test is the wrong way round.
    IF accepted /\ Acceptable(t) THEN Erase(WithDescendants({t})) ELSE Add(t)

Readmitted(t, accepted) ==
    IF accepted /\ Acceptable(t) THEN Add(t) ELSE Erase(WithDescendants({t}))

Resurrect(accepted) ==
    /\ phase = "resurrect"
    /\ resurrect # <<>>
    /\ accepted \/ Head(resurrect) \in Refusable
    /\ Readmitted(Head(resurrect), accepted)
    /\ resurrect' = Tail(resurrect)
    /\ UNCHANGED <<tip, coinsTip, db, phase>>

\* pcoins->AccessCoins is not NULL.  A pruned entry of pcoinsTip stays as long
\* as the database has a record for it.
AccessCoins(t) == HaveCoins(coinsTip, t) \/ HaveCoins(db, t)

\* The transactions removeCoinbaseSpends picks.
Creator(o) == CHOOSE t \in Tx : o \in Outs[t]

CoinbaseSpends(h) ==
    {t \in mapTx : \E o \in Ins[t] :
        LET c == Creator(o)
        IN  /\ c \notin mapTx
            /\ \/ ~AccessCoins(c)
               \/ /\ HaveCoins(coinsTip, c)     \* a pruned entry is no coinbase
                  /\ c \in Coinbase
                  /\ \E b \in Chain[coinsTip] : c \in VtxSet(b) /\ h - Height[b] < Maturity}

\* removeCoinbaseSpends, then UpdateTip.
FinishDisconnect ==
    /\ phase = "resurrect"
    /\ resurrect = <<>>
    /\ Erase(WithDescendants(CoinbaseSpends(Height[tip])))
    /\ tip' = Parent[tip]
    /\ phase' = "idle"
    /\ UNCHANGED <<coinsTip, db, resurrect>>

\* FlushStateToDisk, periodic.
FlushStateToDisk ==
    /\ phase = "idle"
    /\ db' = coinsTip
    /\ UNCHANGED <<tip, coinsTip, mapTx, mapNextTx, totalTxSize, resurrect, phase>>

-----------------------------------------------------------------------------
PoolNext ==
    \/ \E t \in Tx : AcceptToMemoryPool(t)
    \/ \E b \in Block : ConnectTip(b)
    \/ DisconnectTip
    \/ \E accepted \in BOOLEAN : Resurrect(accepted)
    \/ FinishDisconnect
    \/ FlushStateToDisk

PoolSpec == PoolInit /\ [][PoolNext]_poolVars

-----------------------------------------------------------------------------
(* Properties.                                                              *)

\* Types of the variables.
PoolTypeOK ==
    /\ tip \in Block /\ coinsTip \in Block /\ db \in Block
    /\ mapTx \subseteq Tx
    /\ DOMAIN mapNextTx \subseteq UNION {Ins[t] : t \in Tx}
    /\ \A o \in DOMAIN mapNextTx : mapNextTx[o] \in Tx
    /\ totalTxSize \in [Tx -> Nat]
    /\ resurrect \in Seq(Tx)
    /\ phase \in {"idle", "resurrect"}

\* The asserts of CTxMemPool::check on the index: the spent outpoints recorded
\* are those of the pool's transactions, each by the one that spends it.  So no
\* two of them spend the same output.
NextTxExact ==
    /\ DOMAIN mapNextTx = UNION {Ins[t] : t \in mapTx}
    /\ \A t \in mapTx : \A o \in Ins[t] : mapNextTx[o] = t

\* The assert of check on totalTxSize: it is the sizes of the pool's transactions,
\* each once.
SizeExact == totalTxSize = [t \in Tx |-> IF t \in mapTx THEN 1 ELSE 0]

\* The asserts of check on inputs ("Check that every mempool transaction's inputs
\* refer to available coins, or other mempool tx's"): when cs_main is free, every
\* pool transaction spends coins of the chain or outputs of the pool.
InputsAvailable == phase = "idle" => \A t \in mapTx : \A o \in Ins[t] : InputAvailable(o)

\* "CTxMemPool stores valid-according-to-the-current-best-chain transactions
\* that may be included in the next block": none spends an immature coinbase.
PoolMature == phase = "idle" => \A t \in mapTx : Mature(t, Height[tip] + 1)

\* "Only accept nLockTime-using transactions that can be mined in the next
\* block": every pool transaction is final at the next height.
PoolFinal == phase = "idle" => \A t \in mapTx : IsFinalTx(t, Height[tip] + 1)

\* No transaction of the active chain is in the pool.
NotConfirmed == phase = "idle" => mapTx \cap Confirmed(tip) = {}

\* The assert(coins) of removeCoinbaseSpends: an input that is not in the pool
\* has an entry in pcoinsTip.
SweepAssert ==
    phase = "resurrect" /\ resurrect = <<>> =>
        \A t \in mapTx : \A o \in Ins[t] : Creator(o) \in mapTx \/ AccessCoins(Creator(o))

\* A disconnected transaction is back in the pool when DisconnectTip ends,
\* unless policy refused it or an input is gone or immature on the shorter chain.
DisconnectsFully ==
    FinishDisconnect => \A t \in VtxSet(tip) \ Coinbase :
        \/ t \in mapTx'
        \/ t \in Refusable
        \/ \E o \in Ins[t] : ~InputAvailable(o)'
        \/ ~Mature(t, Height[tip] + 1)'

\* A transaction leaves the pool when it is confirmed, or when it, or one it
\* depends on, conflicts with the new chain; never when another one merely
\* arrives or a block it has nothing to do with is connected.
LeavesRightly ==
    \A t \in mapTx \ mapTx' :
        \/ tip' # tip /\ t \in Confirmed(tip')
        \/ \E o \in Ins[t] : ~InputAvailable(o)'
        \/ ~Mature(t, Height[tip] + 1)'

\* What CTxMemPool::check asserts, and its callers rely on: mapNextTx holds
\* exactly the inputs of the pool and totalTxSize its sizes; whenever cs_main is
\* free every input is a mature coin of the active chain or an output of the
\* pool, and nothing in the pool is confirmed; and the assert of
\* removeCoinbaseSpends holds in the middle of a reorganisation.  Whatever leaves
\* or enters the pool does so for a reason: DisconnectTip offers every transaction
\* of the block to the pool, and those that are valid on the new tip are in it
\* afterwards; a transaction leaves it confirmed, conflicting, or dependent on one
\* that cannot be in the chain.
PoolCheck ==
    /\ [](/\ PoolTypeOK /\ NextTxExact /\ SizeExact
          /\ InputsAvailable /\ PoolMature /\ NotConfirmed /\ SweepAssert)
    /\ [][DisconnectsFully /\ LeavesRightly]_poolVars
=============================================================================
