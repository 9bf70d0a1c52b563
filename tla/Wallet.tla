------------------------------- MODULE Wallet -------------------------------
(***************************************************************************)
(* The transactions of the wallet (wallet.cpp) and their balances, over    *)
(* the chain and the memory pool.  Chain and pool tell the wallet of a     *)
(* transaction with SyncWithWallets; the wallet writes it to wallet.dat    *)
(* at once, but learns its depth by looking at chainActive and mempool     *)
(* when it is asked, and caches amounts until it is told to forget them.   *)
(*                                                                         *)
(* cs_main and cs_wallet are held while a block is connected or            *)
(* disconnected, so balances are read and transactions created in between; *)
(* a crash comes anywhere.  Keys do not change: an output is ours or not.  *)
(* The inputs of a new transaction are any coins AvailableCoins and the    *)
(* confirmations of SelectCoins allow; how amounts are matched, fees and   *)
(* change are left open.                                                   *)
(***************************************************************************)
EXTENDS Integers, Sequences, SequencesExt, FiniteSetsExt, TLC

CONSTANTS
    Tx, Block, Coinbase, Genesis, Parent, Height, Chain, Vtx, Ins, Outs,
    LockHeight, Refusable, Maturity,            \* as in Mempool
    Mine,           \* the outpoints that are ISMINE_SPENDABLE
    Value,          \* their nValue
    Own,            \* transactions the wallet may create
    HashOrder,      \* Tx in the order of their hashes
    NoBlock         \* the null hashBlock

NotCached == -1

VARIABLES
    tip, coinsTip, db, mapTx, mapNextTx, totalTxSize, resurrect, phase,
    mapWallet,      \* hashBlock of each wallet transaction
    records,        \* the same in wallet.dat
    bestBlock,      \* the block of the locator in wallet.dat
    available,      \* nAvailableCreditCached, or NotCached
    debit,          \* nDebitCached, or NotCached
    notify,         \* SyncWithWallets calls ConnectTip or DisconnectTip still makes
    reaccept,       \* transactions ReacceptWalletTransactions still looks at
    silent          \* (history) gone from the pool since the wallet last heard of them

poolVars == <<tip, coinsTip, db, mapTx, mapNextTx, totalTxSize, resurrect, phase>>
walletVars == <<mapWallet, records, bestBlock, available, debit>>
vars == <<poolVars, walletVars, notify, reaccept, silent>>

Pool == INSTANCE Mempool

WalletAssumption ==
    /\ Pool!MempoolAssumption
    /\ Own \subseteq Tx \ Coinbase
    /\ Mine \subseteq UNION {Outs[t] : t \in Tx}
    /\ Value \in [Mine -> Nat \ {0}]
    /\ NoBlock \notin Block
    /\ ToSet(HashOrder) = Tx

Creator(o) == CHOOSE t \in Tx : o \in Outs[t]
SumOf(S) == FoldSet(LAMBDA o, n : Value[o] + n, 0, S)

Idle == phase = "idle" /\ notify = <<>> /\ reaccept = <<>>

-----------------------------------------------------------------------------
(* What the wallet computes.                                                *)

\* GetDepthInMainChain: -1 is neither in the chain nor in the pool.
DepthInMainChain(t) ==
    IF mapWallet[t] \in Chain[tip] THEN Height[tip] - Height[mapWallet[t]] + 1
    ELSE IF t \in mapTx THEN 0 ELSE -1

IsSpent(o) == \E s \in DOMAIN mapWallet : o \in Ins[s] /\ DepthInMainChain(s) >= 0

\* GetBlocksToMaturity.
Immature(t) == t \in Coinbase /\ Maturity + 1 > DepthInMainChain(t)

\* GetAvailableCredit and GetDebit, computed afresh.
AvailableCredit(t) == SumOf({o \in Outs[t] \cap Mine : ~IsSpent(o)})
Debit(t) == SumOf({o \in Ins[t] \cap Mine : Creator(o) \in DOMAIN mapWallet})

\* GetDebit with its cache, and IsFromMe.
CachedDebit(t) == IF debit[t] = NotCached THEN Debit(t) ELSE debit[t]

IsTrusted(t) ==
    /\ Pool!IsFinalTx(t, Height[tip] + 1)
    /\ \/ DepthInMainChain(t) >= 1
       \/ /\ DepthInMainChain(t) = 0
          /\ CachedDebit(t) > 0
          /\ \A o \in Ins[t] : Creator(o) \in DOMAIN mapWallet /\ o \in Mine

\* AvailableCoins, and the confirmations SelectCoins asks for at the least.
Spendable(o) ==
    LET t == Creator(o)
    IN  /\ o \in Mine
        /\ t \in DOMAIN mapWallet
        /\ IsTrusted(t)
        /\ ~Immature(t)
        /\ ~IsSpent(o)
        /\ DepthInMainChain(t) >= (IF CachedDebit(t) > 0 THEN 0 ELSE 1)

-----------------------------------------------------------------------------
(* What changes it.                                                         *)

Dirty(cache, S) == [t \in DOMAIN cache |-> IF t \in S THEN NotCached ELSE cache[t]]

\* AddToWallet of t with hashBlock b: inserted, or merged with what is there.
Added(map, t, b) ==
    IF t \notin DOMAIN map THEN (t :> b) @@ map
    ELSE IF b = NoBlock THEN map ELSE [map EXCEPT ![t] = b]

Parents(t) == {Creator(o) : o \in Ins[t]}

\* AddToWalletIfInvolvingMe: known already, or it pays us, or it spends ours.
Involves(map, t) ==
    \/ t \in DOMAIN map
    \/ Outs[t] \cap Mine # {}
    \/ \E o \in Ins[t] \cap Mine : Creator(o) \in DOMAIN map

\* SyncTransaction: t is added or updated, written, and its caches and those of
\* the transactions it spends are dropped.
FaultyForgotten(t) == {t}   \* Faulty variant: only its own caches are dropped.

Forgotten(t) == {t} \cup Parents(t)

SyncTransaction(t, b) ==
    /\ mapWallet' = IF Involves(mapWallet, t) THEN Added(mapWallet, t, b) ELSE mapWallet
    /\ records' = mapWallet'
    /\ IF Involves(mapWallet, t)
       THEN /\ available' = Dirty(available, Forgotten(t))
            /\ debit' = Dirty(debit, Forgotten(t))
       ELSE UNCHANGED <<available, debit>>
    /\ UNCHANGED bestBlock

\* GetBalance: every trusted transaction's credit and debit are cached.
GetBalance ==
    /\ Idle
    /\ available' = [t \in Tx |->
            IF t \in DOMAIN mapWallet /\ available[t] = NotCached /\ IsTrusted(t) /\ ~Immature(t)
            THEN AvailableCredit(t) ELSE available[t]]
    /\ debit' = [t \in Tx |->
            IF t \in DOMAIN mapWallet /\ DepthInMainChain(t) = 0 /\ Pool!IsFinalTx(t, Height[tip] + 1)
            THEN CachedDebit(t) ELSE debit[t]]
    /\ UNCHANGED <<poolVars, mapWallet, records, bestBlock, notify, reaccept, silent>>

\* CommitTransaction of what CreateTransaction built: recorded first, then
\* offered to the pool, which may refuse it.
CommitTransaction(t, accepted) ==
    /\ Idle
    /\ t \in Own \ DOMAIN mapWallet
    /\ \A o \in Ins[t] : Spendable(o)
    /\ IF Pool!Acceptable(t) THEN accepted \/ t \in Refusable ELSE ~accepted
    /\ SyncTransaction(t, NoBlock)
    /\ IF accepted THEN Pool!Add(t) ELSE UNCHANGED <<mapTx, mapNextTx, totalTxSize>>
    /\ UNCHANGED <<tip, coinsTip, db, resurrect, phase, notify, reaccept, silent>>

\* The chain and the pool, with the SyncWithWallets calls they make.
AcceptToMemoryPool(t) ==
    /\ Idle
    /\ Pool!AcceptToMemoryPool(t)
    /\ SyncTransaction(t, NoBlock)
    /\ silent' = silent \ {t}
    /\ UNCHANGED <<notify, reaccept>>

Calls(seq, b) == [i \in DOMAIN seq |-> [tx |-> seq[i], block |-> b]]

\* removeForBlock hands back what conflicts with the block, with descendants.
Conflicted(b) == Pool!WithDescendants(Pool!Conflicts(b))

ConnectTip(b) ==
    /\ Idle
    /\ Pool!ConnectTip(b)
    /\ notify' = Calls(SetToSeq(Conflicted(b)), NoBlock) \o Calls(Vtx[b], b)
    /\ UNCHANGED <<walletVars, reaccept, silent>>

DisconnectTip ==
    /\ Idle
    /\ Pool!DisconnectTip
    /\ UNCHANGED <<walletVars, notify, reaccept, silent>>

\* The pool's removals in DisconnectTip are not reported.
Resurrect(accepted) ==
    /\ Pool!Resurrect(accepted)
    /\ LET t == Head(resurrect)
       IN  IF t \in mapTx' \ mapTx THEN SyncTransaction(t, NoBlock) ELSE UNCHANGED walletVars
    /\ silent' = (silent \cup (mapTx \ mapTx')) \ mapTx'
    /\ UNCHANGED <<notify, reaccept>>

FinishDisconnect ==
    /\ Pool!FinishDisconnect
    /\ notify' = Calls(Vtx[tip], NoBlock)
    /\ silent' = silent \cup (mapTx \ mapTx')
    /\ UNCHANGED <<walletVars, reaccept>>

\* One SyncWithWallets call.
Notify ==
    /\ notify # <<>>
    /\ SyncTransaction(Head(notify).tx, Head(notify).block)
    /\ notify' = Tail(notify)
    /\ silent' = silent \ {Head(notify).tx}
    /\ UNCHANGED <<poolVars, reaccept>>

\* FlushStateToDisk, which ends with SetBestChain.
FlushStateToDisk ==
    /\ Idle
    /\ Pool!FlushStateToDisk
    /\ bestBlock' = tip
    /\ UNCHANGED <<mapWallet, records, available, debit, notify, reaccept, silent>>

-----------------------------------------------------------------------------
(* Start of the node.                                                       *)

\* FindForkInGlobalIndex of the locator; it has every block of so short a chain.
HighestOf(S) == CHOOSE b \in S : \A c \in S : Height[c] <= Height[b]
Fork(b) == HighestOf(Chain[bestBlock] \cap Chain[b])

\* The blocks ScanForWalletTransactions reads when the chain ends in b.
FaultyScanned(b) == {}      \* Faulty variant: wallet.dat is taken to be up to date.

Scanned(b) ==
    IF Fork(b) = b THEN {} ELSE {c \in Chain[b] : Height[c] >= Height[Fork(b)]}

ScanForWalletTransactions(map, S) ==
    LET blocks == SetToSortSeq(S, LAMBDA c, d : Height[c] < Height[d])
        calls == FlattenSeq([i \in DOMAIN blocks |-> Calls(Vtx[blocks[i]], blocks[i])])
        scan(m, c) == IF Involves(m, c.tx) THEN Added(m, c.tx, c.block) ELSE m
    IN  FoldLeft(scan, map, calls)

\* The process dies, anywhere, and AppInit2 loads the chain and the wallet.
Restart ==
    /\ tip' = db /\ coinsTip' = db
    /\ mapTx' = {} /\ mapNextTx' = <<>> /\ totalTxSize' = [t \in Tx |-> 0]
    /\ resurrect' = <<>> /\ phase' = "idle"
    /\ mapWallet' = ScanForWalletTransactions(records, Scanned(db))
    /\ records' = mapWallet'
    /\ bestBlock' = IF Fork(db) = db THEN bestBlock ELSE db
    /\ available' = Dirty(available, Tx) /\ debit' = Dirty(debit, Tx)
    /\ notify' = <<>> /\ reaccept' = <<>> /\ silent' = {}
    /\ UNCHANGED db

\* ReacceptWalletTransactions, in the order of mapWallet.
ReacceptWalletTransactions ==
    /\ Idle
    /\ reaccept' = SelectSeq(HashOrder, LAMBDA t : t \in DOMAIN mapWallet)
    /\ UNCHANGED <<poolVars, walletVars, notify, silent>>

Reaccept(accepted) ==
    /\ reaccept # <<>>
    /\ reaccept' = Tail(reaccept)
    /\ LET t == Head(reaccept)
           offered == DepthInMainChain(t) < 0 /\ Pool!Acceptable(t)
       IN  IF offered /\ accepted
           THEN Pool!Add(t) /\ SyncTransaction(t, NoBlock) /\ silent' = silent \ {t}
           ELSE /\ accepted \/ t \in Refusable
                /\ UNCHANGED <<mapTx, mapNextTx, totalTxSize, walletVars, silent>>
    /\ UNCHANGED <<tip, coinsTip, db, resurrect, phase, notify>>

-----------------------------------------------------------------------------
Init ==
    /\ Pool!PoolInit
    /\ mapWallet = ScanForWalletTransactions(<<>>, {Genesis}) /\ records = mapWallet
    /\ bestBlock = Genesis
    /\ available = [t \in Tx |-> NotCached] /\ debit = available
    /\ notify = <<>> /\ reaccept = <<>> /\ silent = {}

Next ==
    \/ \E t \in Tx : AcceptToMemoryPool(t)
    \/ \E t \in Tx, accepted \in BOOLEAN : CommitTransaction(t, accepted)
    \/ \E b \in Block : ConnectTip(b)
    \/ \E accepted \in BOOLEAN : Resurrect(accepted) \/ Reaccept(accepted)
    \/ DisconnectTip \/ FinishDisconnect \/ Notify \/ FlushStateToDisk
    \/ GetBalance \/ Restart \/ ReacceptWalletTransactions

Spec == Init /\ [][Next]_vars

-----------------------------------------------------------------------------
(* Properties.                                                              *)

\* Types of the variables.
TypeOK ==
    /\ Pool!PoolTypeOK
    /\ DOMAIN mapWallet \subseteq Tx /\ records = mapWallet
    /\ \A t \in DOMAIN mapWallet : mapWallet[t] \in Block \cup {NoBlock}
    /\ bestBlock \in Block
    /\ \A t \in Tx : {available[t], debit[t]} \subseteq Nat \cup {NotCached}
    /\ silent \subseteq Tx \ mapTx

Relevant(t) == (Ins[t] \cup Outs[t]) \cap Mine # {}

\* Through reorganisations and crashes between any two steps, once a block's
\* notifications are delivered the wallet has every transaction of the active
\* chain that concerns it, in the block of the chain that has it, and counts no
\* other one as confirmed.
FollowsChain ==
    Idle => /\ \A b \in Chain[tip] : \A t \in Pool!VtxSet(b) :
                    Relevant(t) => t \in DOMAIN mapWallet /\ mapWallet[t] = b
            /\ \A t \in DOMAIN mapWallet :
                    DepthInMainChain(t) >= 1 => t \in Pool!Confirmed(tip)

\* Of the wallet's transactions that spend the same output at most one counts,
\* so IsSpent and the balances do not depend on which one is looked at.
OneSpends ==
    Idle => \A s, t \in DOMAIN mapWallet :
        s # t /\ Ins[s] \cap Ins[t] # {} => DepthInMainChain(s) < 0 \/ DepthInMainChain(t) < 0

\* "If a transaction changes 'conflicted' state, that changes the balance
\* available of the outputs it spends.  So force those to be recomputed": a
\* cached amount is the one that would be computed, unless a transaction that
\* spends it left the pool in DisconnectTip, which does not tell the wallet.
CachesExact ==
    Idle => \A t \in DOMAIN mapWallet :
        /\ available[t] \in {NotCached, AvailableCredit(t)}
            \/ \E s \in silent : Ins[s] \cap Outs[t] # {}
        /\ debit[t] \in {NotCached, Debit(t)}
=============================================================================
