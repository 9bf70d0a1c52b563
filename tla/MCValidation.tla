---------------------------- MODULE MCValidation ----------------------------
(***************************************************************************)
(* CoinsCache, Mempool, KeyPool and WalletDb, which this module extends,   *)
(* and BlockUndo, Wallet, Spending and Accounts on small instances.  A     *)
(* behaviour is one of a single scene, and the variables of the others     *)
(* keep their initial state.  The scenes "accounts" and "addresses" share  *)
(* the variables of Accounts.                                              *)
(***************************************************************************)
EXTENDS CoinsCache, Mempool, KeyPool, WalletDb, Integers, Sequences, TLC

CONSTANTS
    Scenes,             \* the scenes of this run
    CoinbaseSpender     \* {"s"} or {}: a transaction that spends the coinbase of a1

VARIABLES
    scene,
    uCoins, uBest, undo, failed, clean, uPhase, uDisk,
    wTip, wCoinsTip, wDb, wMapTx, wNextTx, wTxSize, wResurrect, wPhase,
    mapWallet, records, bestBlock, available, debit, notify, reaccept, silent,
    vCoins, vecSend, step, nFeeRet, setCoins, nChange, nBytes, key, labelled,
    name, acc, poolKey, entries, nAccountingEntryNumber, wtx, nOrderPosNext, posOnDisk,
    depth, mixed

-----------------------------------------------------------------------------
(* Coins: b1 creates t1 and t2, b2 spends t1 and one output of t2, b3 the   *)
(* other way round; g is before them all.                                  *)

SmallCoinsAt ==
    ("g" :> [t \in TxId |-> Pruned])
    @@ ("b1" :> [t \in TxId |-> "full"])
    @@ ("b2" :> [t \in TxId |-> IF t = "t1" THEN Pruned ELSE "part"])
    @@ ("b3" :> [t \in TxId |-> IF t = "t2" THEN Pruned ELSE "part"])

-----------------------------------------------------------------------------
(* Undo: a1 on g with branches a2 a3 a4 and b2 b3, and x2, which repeats a  *)
(* coinbase whose outputs are unspent.  The genesis transaction has an      *)
(* output of a market, which nothing spends; c1 and s have outputs that are *)
(* never stored; s and u are in one block; c2 and d2 are in both branches.  *)

Pay(n) == [kind |-> "pay", value |-> n]
Return == [kind |-> "return", value |-> 0]
OpMarket == [kind |-> "market", value |-> 0]

UndoIns ==
    ("s" :> <<<<"cg", 2>>, <<"c1", 1>>>>) @@ ("u" :> <<<<"s", 3>>, <<"s", 1>>>>)
    @@ ("v" :> <<<<"cg", 3>>, <<"c1", 2>>, <<"c1", 1>>>>) @@ ("w" :> <<<<"c2", 1>>>>)
    @@ ("z" :> <<<<"cg", 2>>>>) @@ [t \in {"cg", "c1", "c2", "d2"} |-> <<>>]
UndoOuts ==
    ("cg" :> <<OpMarket, Pay(2), Pay(1)>>) @@ ("c1" :> <<Pay(1), Pay(1), Return>>)
    @@ ("s" :> <<Pay(1), Return, Pay(2)>>) @@ ("u" :> <<Pay(3)>>) @@ ("v" :> <<Return, Pay(1)>>)
    @@ [t \in {"c2", "d2", "w", "z"} |-> <<Pay(1)>>]
UndoTx == DOMAIN UndoOuts
UndoVersion == [t \in UndoTx |-> IF t \in {"s", "c1"} THEN 2 ELSE 1]
UndoVtx ==
    ("g" :> <<"cg">>) @@ ("a1" :> <<"c1">>) @@ ("a2" :> <<"c2", "s", "u">>)
    @@ ("a3" :> <<"d2", "w">>) @@ ("a4" :> <<"c2">>) @@ ("b2" :> <<"d2", "v">>)
    @@ ("b3" :> <<"c2", "z">>) @@ ("x2" :> <<"c1">>)
UndoChain ==
    ("g" :> <<"g">>) @@ ("a1" :> <<"g", "a1">>) @@ ("a2" :> <<"g", "a1", "a2">>)
    @@ ("a3" :> <<"g", "a1", "a2", "a3">>) @@ ("a4" :> <<"g", "a1", "a2", "a3", "a4">>)
    @@ ("b2" :> <<"g", "a1", "b2">>) @@ ("b3" :> <<"g", "a1", "b2", "b3">>)
    @@ ("x2" :> <<"g", "a1", "x2">>)

U == INSTANCE BlockUndo WITH
    Tx <- UndoTx, Coinbase <- {"cg", "c1", "c2", "d2"}, Ins <- UndoIns, Outs <- UndoOuts,
    Version <- UndoVersion, Block <- DOMAIN UndoVtx, Vtx <- UndoVtx, Chain <- UndoChain,
    Maturity <- 1, MaxMoney <- 9, CrashAtInit <- FALSE,
    coins <- uCoins, best <- uBest, phase <- uPhase, disk <- uDisk

ASSUME U!UndoAssumption

-----------------------------------------------------------------------------
(* Pool: a funded block g and two branches on it, a1 a2 and b1 b2.  t1 and  *)
(* x1 spend the same output, in a1 and b1; t2 spends t1, in a2; t3 spends   *)
(* t2 and another output of f; m spends the coinbase of g, in b2.           *)

PoolBlock == {"g", "a1", "a2", "b1", "b2"}
PoolCoinbase == {"cg", "c1", "c2", "d1", "d2"}
PoolTx == PoolCoinbase \cup {"f", "t1", "x1", "t2", "t3", "m"} \cup CoinbaseSpender
PoolParent == ("a1" :> "g") @@ ("b1" :> "g") @@ ("a2" :> "a1") @@ ("b2" :> "b1")
PoolHeight == ("g" :> 0) @@ ("a1" :> 1) @@ ("b1" :> 1) @@ ("a2" :> 2) @@ ("b2" :> 2)
PoolChain ==
    ("g" :> {"g"}) @@ ("a1" :> {"g", "a1"}) @@ ("b1" :> {"g", "b1"})
    @@ ("a2" :> {"g", "a1", "a2"}) @@ ("b2" :> {"g", "b1", "b2"})
PoolVtx ==
    ("g" :> <<"cg", "f">>) @@ ("a1" :> <<"c1", "t1">>) @@ ("b1" :> <<"d1", "x1">>)
    @@ ("a2" :> <<"c2", "t2">>) @@ ("b2" :> <<"d2", "m">>)
PoolOuts == [t \in PoolTx |-> IF t \in {"cg", "f"} THEN {<<t, 0>>, <<t, 1>>} ELSE {<<t, 0>>}]
Spends ==
    ("t1" :> {<<"f", 0>>}) @@ ("x1" :> {<<"f", 0>>}) @@ ("t2" :> {<<"t1", 0>>})
    @@ ("t3" :> {<<"t2", 0>>, <<"f", 1>>}) @@ ("m" :> {<<"cg", 0>>}) @@ ("f" :> {<<"cg", 1>>})
    @@ ("s" :> {<<"c1", 0>>})
PoolIns == [t \in PoolTx |-> IF t \in PoolCoinbase THEN {} ELSE Spends[t]]
PoolLock == [t \in PoolTx |-> 0]

-----------------------------------------------------------------------------
(* Wallet: the same blocks without t3 and the later coinbases.  The outputs *)
(* of cg, f and t1 are ours; we make t1, t2 and m, another node with the    *)
(* same keys makes x1; policy may refuse t1.                                *)

WalletTx == {"cg", "f", "t1", "x1", "t2", "m"}
WalletVtx ==
    ("g" :> <<"cg", "f">>) @@ ("a1" :> <<"t1">>) @@ ("b1" :> <<"x1">>)
    @@ ("a2" :> <<"t2">>) @@ ("b2" :> <<"m">>)
WalletIns == [t \in WalletTx |-> PoolIns[t]]
WalletOuts == [t \in WalletTx |-> PoolOuts[t]]
WalletLock == [t \in WalletTx |-> 0]
WalletMine == {<<"f", 0>>, <<"f", 1>>, <<"t1", 0>>, <<"cg", 0>>}
WalletValue == [o \in WalletMine |-> IF o = <<"f", 1>> THEN 2 ELSE 1]

W == INSTANCE Wallet WITH
    Tx <- WalletTx, Block <- PoolBlock, Coinbase <- {"cg"}, Genesis <- "g",
    Parent <- PoolParent, Height <- PoolHeight, Chain <- PoolChain, Vtx <- WalletVtx,
    Ins <- WalletIns, Outs <- WalletOuts, LockHeight <- WalletLock,
    Refusable <- {"t1"}, Maturity <- 1,
    tip <- wTip, coinsTip <- wCoinsTip, db <- wDb, mapTx <- wMapTx, mapNextTx <- wNextTx,
    totalTxSize <- wTxSize, resurrect <- wResurrect, phase <- wPhase,
    Mine <- WalletMine, Value <- WalletValue, Own <- {"t1", "t2", "m"},
    HashOrder <- <<"t2", "x1", "m", "t1", "f", "cg">>, NoBlock <- "none"

ASSUME W!WalletAssumption

-----------------------------------------------------------------------------
(* Payments: three coins, of which the first is worth most, and payments    *)
(* that are too small, exact, need several coins or all, or go to two.      *)

SpendKinds == {<<0, TRUE>>, <<1, FALSE>>, <<6, FALSE>>}
SpendCoin(value, kind) ==
    [nValue |-> value, nDepth |-> kind[1], fromMe |-> kind[2], fSpendable |-> TRUE]
SpendWallets ==
    {w \in [1 .. 3 -> {SpendCoin(n, k) : n \in {3, 5, 7, 14}, k \in SpendKinds}] :
        \A i, j \in 1 .. 3 : i < j =>
            \/ w[i].nValue > w[j].nValue
            \/ w[i].nValue = w[j].nValue /\ w[i].nDepth <= w[j].nDepth}
    \cup {<<SpendCoin(14, <<6, FALSE>>), [SpendCoin(7, <<6, FALSE>>) EXCEPT !.fSpendable = FALSE],
            SpendCoin(3, <<0, FALSE>>)>>}

S == INSTANCE Spending WITH
    Coin <- 1 .. 3, Wallets <- SpendWallets, Sends <- {<<5>>, <<2>>, <<12>>, <<4, 4>>},
    CENT <- 2, MinRelay <- 1, MinTx <- 2, PayTx <- 0, Estimate <- 0, MaxTxFee <- 4, Kilo <- 4,
    InputSize <- 2, OutputSize <- 1, SpendSize <- 4, SigBytes <- {0, 1}, MaxSize <- 12,
    MaxFreeSize <- 3, SendFree <- TRUE, SpendZeroConf <- TRUE

ASSUME S!SpendingAssumption

-----------------------------------------------------------------------------
(* Accounts: r pays us, s is a payment with change that spends it, x spends *)
(* it too.  In "addresses" there are more keys, and only r.  The old        *)
(* wallets have no two items without position before one that has one.      *)

AccountTx == {"r", "s", "x"}
Output(k, n) == [to |-> k, nValue |-> n]
AccountOuts == ("r" :> <<Output(1, 4)>>) @@ ("s" :> <<Output(0, 1), Output(9, 2)>>)
               @@ ("x" :> <<Output(1, 3)>>)
AccountIns == [t \in AccountTx |-> IF t = "r" THEN {} ELSE {<<"r", 1>>}]
Restrict1(f) == [t \in {"r"} |-> f[t]]

OldWallets ==
    {w \in UNION {[1 .. n -> -1 .. 3] : n \in 1 .. 4} :
        /\ \A i, j \in DOMAIN w : i # j /\ w[i] = w[j] => w[i] = -1
        /\ \/ \A i, j \in DOMAIN w : i # j => w[i] # -1 \/ w[j] # -1
           \/ \A i, j \in DOMAIN w : w[i] = -1 /\ i < j => w[j] = -1}

A == INSTANCE Accounts WITH
    Account <- {"", "B"}, Branch <- {"B"}, Key <- {1}, ChangeKey <- 9, Tx <- AccountTx,
    Ins <- AccountIns, Outs <- AccountOuts, Amounts <- {1}, MaxPos <- 3, nextKey <- poolKey
Y == INSTANCE Accounts WITH
    Account <- {"", "a", "B"}, Branch <- {"B"}, Key <- 1 .. 3, ChangeKey <- 9, Tx <- {"r"},
    Ins <- Restrict1(AccountIns), Outs <- Restrict1(AccountOuts), Amounts <- {1}, MaxPos <- 0,
    nextKey <- poolKey

ASSUME A!AccountsAssumption /\ Y!AccountsAssumption /\ A!ReorderSound

-----------------------------------------------------------------------------

undoVars == <<uCoins, uBest, undo, failed, clean, uPhase, uDisk>>
walletVars ==
    <<wTip, wCoinsTip, wDb, wMapTx, wNextTx, wTxSize, wResurrect, wPhase, mapWallet,
      records, bestBlock, available, debit, notify, reaccept, silent>>
spendVars == <<vCoins, vecSend, step, nFeeRet, setCoins, nChange, nBytes, key, labelled>>
accountVars ==
    <<name, acc, poolKey, entries, nAccountingEntryNumber, wtx, nOrderPosNext, posOnDisk,
      depth, mixed>>

\* The variables of the scenes other than these.
Rest(these) ==
    /\ IF "coins" \in these THEN TRUE ELSE UNCHANGED coinsVars
    /\ IF "undo" \in these THEN TRUE ELSE UNCHANGED undoVars
    /\ IF "pool" \in these THEN TRUE ELSE UNCHANGED poolVars
    /\ IF "wallet" \in these THEN TRUE ELSE UNCHANGED walletVars
    /\ IF "keys" \in these THEN TRUE ELSE UNCHANGED keyPoolVars
    /\ IF "spend" \in these THEN TRUE ELSE UNCHANGED spendVars
    /\ IF "walletdb" \in these THEN TRUE ELSE UNCHANGED walletDbVars
    /\ IF "accounts" \in these THEN TRUE ELSE UNCHANGED accountVars

\* The payment of the other scenes is none of the instance.
SpendInit ==
    IF scene = "spend" THEN S!Init
    ELSE /\ vCoins = <<>> /\ vecSend = <<>> /\ step = "select" /\ nFeeRet = 0 /\ setCoins = {}
         /\ nChange = 0 /\ nBytes = 0 /\ key = "pool" /\ labelled = FALSE

ValidationInit ==
    /\ scene \in Scenes /\ CoinsInit /\ U!Init /\ PoolInit /\ W!Init /\ KeyPoolInit /\ WalletDbInit
    /\ SpendInit
    /\ IF scene = "addresses" THEN Y!Init ELSE A!Init

ValidationNext ==
    /\ UNCHANGED scene
    /\ \/ scene = "coins" /\ CoinsNext /\ Rest({"coins"})
       \/ scene = "undo" /\ U!Next /\ Rest({"undo"})
       \/ scene = "pool" /\ PoolNext /\ Rest({"pool"})
       \/ scene = "wallet" /\ W!Next /\ Rest({"wallet"})
       \/ scene = "keys" /\ KeyPoolNext /\ Rest({"keys"})
       \/ scene = "spend" /\ S!Next /\ Rest({"spend"})
       \/ scene = "walletdb" /\ WalletDbNext /\ Rest({"walletdb"})
       \/ scene = "accounts" /\ A!Next /\ Rest({"accounts"})
       \/ scene = "addresses" /\ Y!Next /\ Rest({"accounts"})

ValidationSpec ==
    /\ ValidationInit
    /\ [][ValidationNext]_<<scene, coinsVars, undoVars, poolVars, walletVars, keyPoolVars, spendVars,
                            walletDbVars, accountVars>>

-----------------------------------------------------------------------------
(* The properties; those of the coins, the pool, the keys and the wallet    *)
(* database are the ones of CoinsCache, Mempool, KeyPool and WalletDb.      *)

\* ConnectBlock and DisconnectBlock are inverse: whatever was connected, undone or
\* lost in a crash, the coins are the unspent outputs of the chain, DisconnectBlock
\* meets none of its errors, VerifyDB passes at every depth, and the genesis block
\* connects.
UndoExact ==
    scene = "undo" => U!CoinsExact /\ U!UndoClean /\ U!VerifyDBPasses /\ U!GenesisConnects

\* Through reorganisations and crashes the wallet has the transactions of the
\* active chain that concern it, each in its block, confirms no other, and of
\* two that spend one output counts at most one; the amounts it caches are the
\* ones it would compute.
WalletFollowsChain ==
    scene = "wallet" => W!TypeOK /\ W!FollowsChain /\ W!OneSpends /\ W!CachesExact

\* CreateTransaction pays what was asked and the fee, and keeps the rest: the coins
\* chosen cover the outputs and nFeeRet; change comes from a reserved key, which goes
\* back to the pool in a round that needs none; the coins come from the first level
\* of confirmations that suffices; change is no smaller than a larger choice would
\* allow; and from round to round the fee rises, so that there is a last one.
SpendSound ==
    /\ [](scene = "spend" =>
            /\ S!TypeOK /\ S!Conserved /\ S!FeeEnough /\ S!KeyKeptForChange
            /\ S!FirstLevel /\ S!ChangeNotSmall)
    /\ [][scene = "spend" => S!FeeRises]_spendVars

\* The accounts of the wallet agree with its coins and with each other: moves cancel
\* out, listaccounts, getbalance of an account and getbalance "*" compute the same
\* amounts, and getbalance too unless a trusted transaction spends one that is not; the
\* balance of a branch is in coins of the branch as long as nothing moved them
\* apart; the current key of an account is the account's, no two records share a
\* position, listtransactions and listaddressgroupings are exact, and restarts keep
\* records; wherever a crash comes.
AccountsSound ==
    /\ [](/\ scene = "accounts" =>
                /\ A!TypeOK /\ A!CurrentKeyOwned /\ A!AccountsAddUp /\ A!ListedBalances
                /\ A!SameBalanceIfTrusted /\ A!BranchBacked /\ A!PositionsDistinct
                /\ A!PagesExact /\ A!GroupingsExact
          /\ scene = "addresses" => Y!TypeOK /\ Y!CurrentKeyOwned /\ Y!BranchBacked)
    /\ [][scene = "accounts" => A!RecordsKept]_accountVars
=============================================================================
