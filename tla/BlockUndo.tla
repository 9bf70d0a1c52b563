----------------------------- MODULE BlockUndo ------------------------------
(***************************************************************************)
(* Connecting and disconnecting blocks: the checks of a block's content,   *)
(* ConnectBlock, which updates the coins and writes undo data,             *)
(* DisconnectBlock, which reads it, VerifyDB, which does both in memory,   *)
(* and the creation of the genesis coins by InitBlockIndex.                *)
(*                                                                         *)
(* The coins are one map here; CoinsCache has the caches.  An output is a  *)
(* record of its value and its kind: "pay" can be spent, "return" is never *)
(* stored (OP_RETURN), "market" is stored but its script fails             *)
(* (OP_MARKET).  Sizes, signature counts, proof of work and the order of   *)
(* time stamps are left out; output positions count from 1.                *)
(***************************************************************************)
EXTENDS Integers, Sequences, FiniteSets, SequencesExt

CONSTANTS
    Tx, Coinbase,   \* the transactions, and those whose only input is null
    Ins,            \* the sequence of outputs <<tx, n>> a transaction spends
    Outs,           \* the sequence of its outputs
    Version,        \* its nVersion
    Block,
    Vtx,            \* the sequence of a block's transactions
    Chain,          \* the sequence of blocks from the genesis block to a block
    Maturity, MaxMoney,
    CrashAtInit     \* whether a crash may come before InitBlockIndex is done

VARIABLES
    coins, best,    \* pcoinsTip and its best block
    undo,           \* the undo data of the blocks that have it
    failed,         \* blocks with BLOCK_FAILED_VALID
    clean,          \* no DisconnectBlock has failed
    phase,          \* how far InitBlockIndex is
    disk            \* what a crash leaves: undo data the index knows, coins, best block

vars == <<coins, best, undo, failed, clean, phase, disk>>

Null == [kind |-> "null", value |-> -1]      \* CTxOut::SetNull
None == "none"
GenesisBlock == CHOOSE b \in Block : Len(Chain[b]) = 1
HeightOf(b) == Len(Chain[b]) - 1
ParentOf(b) == Chain[b][HeightOf(b)]

UndoAssumption ==
    /\ \A b \in Block : \A i \in 1 .. Len(Chain[b]) : Chain[Chain[b][i]] = SubSeq(Chain[b], 1, i)
    /\ \A t \in Tx : \A o \in Range(Ins[t]) : o[1] \in Tx /\ o[2] \in Nat \ {0}
    /\ Maturity \in Nat /\ MaxMoney \in Nat

-----------------------------------------------------------------------------
(* CCoins.                                                                  *)

Cleared == [fCoinBase |-> FALSE, vout |-> <<>>, nHeight |-> 0, nVersion |-> 0]

IsPruned(c) == \A i \in DOMAIN c.vout : c.vout[i] = Null

IsAvailable(c, n) == n \in DOMAIN c.vout /\ c.vout[n] # Null

SameCoins(c, d) == c = d \/ (IsPruned(c) /\ IsPruned(d))

Cleanup(vout) == SubSeq(vout, 1, Max({i \in DOMAIN vout : vout[i] # Null} \cup {0}))

FaultyUnspendable(out) == out.kind \in {"return", "market"}
IsUnspendable(out) == out.kind = "return"

ClearUnspendable(vout) ==
    Cleanup([i \in DOMAIN vout |-> IF IsUnspendable(vout[i]) THEN Null ELSE vout[i]])

FromTx(t, h) ==
    [fCoinBase |-> t \in Coinbase, vout |-> ClearUnspendable(Outs[t]), nHeight |-> h,
     nVersion |-> Version[t]]

-----------------------------------------------------------------------------
(* Checks of a transaction and of a block that need no coins.               *)

SumOf(seq) == FoldLeft(LAMBDA acc, v : acc + v, 0, seq)

GetValueOut(t) == SumOf([i \in DOMAIN Outs[t] |-> Outs[t][i].value])

CheckTransaction(t) ==
    /\ Outs[t] # <<>> /\ (t \in Coinbase \/ Ins[t] # <<>>)
    /\ \A i \in DOMAIN Outs[t] : Outs[t][i].value \in 0 .. MaxMoney
    /\ GetValueOut(t) <= MaxMoney
    /\ IsInjective(Ins[t])

CheckBlock(b) ==
    /\ \A i \in DOMAIN Vtx[b] : Vtx[b][i] \in Coinbase <=> i = 1
    /\ Vtx[b] # <<>>
    /\ \A t \in Range(Vtx[b]) : CheckTransaction(t)

-----------------------------------------------------------------------------
(* ConnectBlock.  "view" is a map of coins.                                 *)

HaveInputs(view, t) == \A o \in Range(Ins[t]) : IsAvailable(view[o[1]], o[2])

GetValueIn(view, t) == SumOf([i \in DOMAIN Ins[t] |-> view[Ins[t][i][1]].vout[Ins[t][i][2]].value])

CheckInputs(view, t, h) ==
    /\ HaveInputs(view, t)
    /\ \A o \in Range(Ins[t]) :
        LET c == view[o[1]]
        IN  /\ c.fCoinBase => h - c.nHeight >= Maturity
            /\ c.vout[o[2]].kind = "pay"
    /\ GetValueIn(view, t) \in GetValueOut(t) .. MaxMoney

\* UpdateCoins marks an input spent.  The metadata of the coins goes into the
\* undo data of the input that spends the last of them.
FaultyUndoOf(c, out) ==
    [txout |-> out, fCoinBase |-> c.fCoinBase, nHeight |-> 0, nVersion |-> 0]
UndoOf(c, out) ==
    IF c.vout = <<>>
    THEN [txout |-> out, fCoinBase |-> c.fCoinBase, nHeight |-> c.nHeight, nVersion |-> c.nVersion]
    ELSE [txout |-> out, fCoinBase |-> FALSE, nHeight |-> 0, nVersion |-> 0]

SpendInput(acc, o) ==
    LET c == acc.view[o[1]]
        spent == [c EXCEPT !.vout = Cleanup([@ EXCEPT ![o[2]] = Null])]
    IN  [view |-> [acc.view EXCEPT ![o[1]] = spent],
         vprevout |-> Append(acc.vprevout, UndoOf(spent, c.vout[o[2]]))]

UpdateCoins(view, t, h) ==
    LET acc == FoldLeft(SpendInput, [view |-> view, vprevout |-> <<>>], Ins[t])
    IN  [acc EXCEPT !.view[t] = FromTx(t, h)]

ConnectTx(acc, t, h) ==
    IF ~acc.ok \/ (t \notin Coinbase /\ ~CheckInputs(acc.view, t, h))
    THEN [acc EXCEPT !.ok = FALSE]
    ELSE LET u == UpdateCoins(acc.view, t, h)
         IN  [ok |-> TRUE, view |-> u.view,
              vtxundo |-> IF t \in Coinbase THEN acc.vtxundo ELSE Append(acc.vtxundo, u.vprevout)]

NoOverwrite(view, b) == \A t \in Range(Vtx[b]) : IsPruned(view[t])

ConnectBlock(view, b) ==
    IF CheckBlock(b) /\ NoOverwrite(view, b)
    THEN FoldLeft(LAMBDA acc, t : ConnectTx(acc, t, HeightOf(b)),
                  [ok |-> TRUE, view |-> view, vtxundo |-> <<>>], Vtx[b])
    ELSE [ok |-> FALSE, view |-> view, vtxundo |-> <<>>]

-----------------------------------------------------------------------------
(* DisconnectBlock.                                                         *)

\* Undo data without a height adds an output to coins that must be there; with
\* one it creates them again.
RestoreInput(acc, o, u) ==
    LET old == acc.view[o[1]]
        c == IF u.nHeight = 0 THEN old
             ELSE [fCoinBase |-> u.fCoinBase, vout |-> <<>>, nHeight |-> u.nHeight,
                   nVersion |-> u.nVersion]
        size == Max({Len(c.vout), o[2]})
        vout == [i \in 1 .. size |->
                    IF i = o[2] THEN u.txout ELSE IF i \in DOMAIN c.vout THEN c.vout[i] ELSE Null]
    IN  [view |-> [acc.view EXCEPT ![o[1]] = [c EXCEPT !.vout = vout]],
         clean |-> acc.clean /\ (IsPruned(old) <=> u.nHeight # 0) /\ ~IsAvailable(c, o[2])]

RemoveOutputs(acc, t, h) ==
    LET outs == [acc.view[t] EXCEPT !.vout = ClearUnspendable(@)]
    IN  [view |-> [acc.view EXCEPT ![t] = Cleared],
         clean |-> acc.clean /\ SameCoins(outs, FromTx(t, h))]

FaultyUndoTx(acc, t, vprevout, h) ==
    FoldLeft(LAMBDA a, j : RestoreInput(a, Ins[t][j], vprevout[j]), RemoveOutputs(acc, t, h),
             [j \in 1 .. Len(Ins[t]) |-> j])
UndoTx(acc, t, vprevout, h) ==
    FoldLeft(LAMBDA a, j : RestoreInput(a, Ins[t][j], vprevout[j]), RemoveOutputs(acc, t, h),
             Reverse([j \in 1 .. Len(Ins[t]) |-> j]))

DisconnectBlock(view, b) ==
    LET vtx == Vtx[b]
        vprevout(i) == IF i = 1 THEN <<>> ELSE undo[b][i - 1]
    IN  IF b \notin DOMAIN undo \/ Len(undo[b]) + 1 # Len(vtx) THEN [view |-> view, clean |-> FALSE]
        ELSE FoldLeft(LAMBDA acc, i : UndoTx(acc, vtx[i], vprevout(i), HeightOf(b)),
                      [view |-> view, clean |-> TRUE], Reverse([i \in DOMAIN vtx |-> i]))

-----------------------------------------------------------------------------

NoCoins == [t \in Tx |-> Cleared]

Init ==
    /\ coins = NoCoins /\ best = None /\ undo = <<>>
    /\ failed = {} /\ clean = TRUE /\ phase = "start"
    /\ disk = [undo |-> <<>>, coins |-> NoCoins, best |-> None]

\* ConnectTip: the view of a block that fails is discarded.  Undo data is
\* written once, and never for the genesis block.
Connect(b) ==
    LET r == ConnectBlock(coins, b)
    IN  IF r.ok
        THEN /\ coins' = r.view /\ best' = b
             /\ undo' = IF b = GenesisBlock THEN undo ELSE undo @@ (b :> r.vtxundo)
             /\ UNCHANGED failed
        ELSE failed' = failed \cup {b} /\ UNCHANGED <<coins, best, undo>>

ConnectTip(b) ==
    /\ phase = "run" /\ b \notin failed
    /\ best # None /\ HeightOf(b) = HeightOf(best) + 1 /\ ParentOf(b) = best
    /\ Connect(b)
    /\ UNCHANGED <<clean, phase, disk>>

DisconnectTip ==
    /\ phase = "run" /\ best \notin {None, GenesisBlock}
    /\ LET r == DisconnectBlock(coins, best)
       IN  IF r.clean
           THEN coins' = r.view /\ best' = ParentOf(best) /\ UNCHANGED clean
           ELSE clean' = FALSE /\ UNCHANGED <<coins, best>>
    /\ UNCHANGED <<undo, failed, phase, disk>>

\* InitBlockIndex activates the genesis block, writes its coins to the database
\* a second time, without a best block, and then flushes.
ActivateGenesis ==
    /\ phase = "start"
    /\ phase' = "activated"
    /\ Connect(GenesisBlock)
    /\ UNCHANGED <<clean, disk>>

WriteGenesisCoins ==
    /\ phase = "activated"
    /\ phase' = "written"
    /\ disk' = [disk EXCEPT !.coins =
                   FoldLeft(LAMBDA view, t : UpdateCoins(view, t, 0).view, @, Vtx[GenesisBlock])]
    /\ UNCHANGED <<coins, best, undo, failed, clean>>

\* FlushStateToDisk writes the index before the coins.
FlushIndex ==
    /\ phase \in {"written", "run"}
    /\ disk' = [disk EXCEPT !.undo = undo]
    /\ UNCHANGED <<coins, best, undo, failed, clean, phase>>

FlushCoins ==
    /\ phase \in {"written", "run"} /\ disk.undo = undo
    /\ disk' = [disk EXCEPT !.coins = coins, !.best = best]
    /\ phase' = "run"
    /\ UNCHANGED <<coins, best, undo, failed, clean>>

\* A crash and a restart.  InitBlockIndex starts again unless the database has
\* a best block.
Crash ==
    /\ CrashAtInit \/ phase = "run"
    /\ coins' = disk.coins /\ best' = disk.best /\ undo' = disk.undo
    /\ failed' = {}
    /\ phase' = IF disk.best = None THEN "start" ELSE "run"
    /\ UNCHANGED <<clean, disk>>

Next ==
    \/ \E b \in Block : ConnectTip(b)
    \/ DisconnectTip \/ ActivateGenesis \/ WriteGenesisCoins
    \/ FlushIndex \/ FlushCoins \/ Crash

Spec == Init /\ [][Next]_vars

-----------------------------------------------------------------------------
(* What the coins of a block should be, from the transactions of its chain. *)

\* The places of t in the chain of b, as <<height, index>>.
Places(b, t) ==
    {p \in (0 .. HeightOf(b)) \X (1 .. 9) :
        p[2] \in DOMAIN Vtx[Chain[b][p[1] + 1]] /\ Vtx[Chain[b][p[1] + 1]][p[2]] = t}

Later(p, q) == p[1] > q[1] \/ (p[1] = q[1] /\ p[2] > q[2])

\* The unspent outputs after block b: those of the last transaction with an
\* identifier that can be spent and that no later transaction spends.
CoinsOf(b) ==
    [t \in Tx |->
        IF Places(b, t) = {} THEN Cleared
        ELSE LET last == CHOOSE p \in Places(b, t) : \A q \in Places(b, t) : p = q \/ Later(p, q)
                 Spent(n) == \E s \in Tx : <<t, n>> \in Range(Ins[s])
                                /\ \E p \in Places(b, s) : Later(p, last)
                 vout == [n \in DOMAIN Outs[t] |->
                            IF Spent(n) \/ Outs[t][n].kind = "return" THEN Null ELSE Outs[t][n]]
             IN  [fCoinBase |-> t \in Coinbase, vout |-> Cleanup(vout), nHeight |-> last[1],
                  nVersion |-> Version[t]]]

\* Whatever blocks were connected and disconnected before, and whatever a crash
\* undid, the coins are the unspent outputs of the chain of the best block
\* (ConnectBlock, DisconnectBlock).
CoinsExact ==
    best # None => \A t \in Tx : SameCoins(coins[t], CoinsOf(best)[t])

\* DisconnectBlock finds its undo data, and finds it consistent with the coins:
\* none of its errors occurs.
UndoClean == clean

\* VerifyDB at level 4: it disconnects the last "depth" blocks in memory and
\* connects them again.
VerifyDB(depth) ==
    LET path == Chain[best]
        top == [i \in 1 .. depth |-> path[HeightOf(best) + 1 - depth + i]]
        down == FoldLeft(LAMBDA acc, b : IF acc.clean THEN DisconnectBlock(acc.view, b) ELSE acc,
                         [view |-> coins, clean |-> TRUE], Reverse(top))
    IN  down.clean /\ FoldLeft(LAMBDA acc, b : IF acc.ok THEN ConnectBlock(acc.view, b) ELSE acc,
                               [ok |-> TRUE, view |-> down.view], top).ok

\* VerifyDB succeeds at every level, however many blocks it disconnects before
\* it connects them again.
VerifyDBPasses == best # None => \A depth \in 0 .. HeightOf(best) : VerifyDB(depth)

\* Blocks that must connect do: the genesis block is not refused because of
\* what an interrupted InitBlockIndex has left.
GenesisConnects == GenesisBlock \notin failed
=============================================================================
