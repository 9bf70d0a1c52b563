------------------------------ MODULE CoinsView ------------------------------
(***************************************************************************)
(* What the stack of coin views promises the chain code: three versions of *)
(* the set of unspent outputs, the one a block is being applied to, the    *)
(* one of the active chain, and the one that survives a crash.  A version  *)
(* is a map from transactions to coins with the block it represents; the   *)
(* two change together or not at all.                                      *)
(***************************************************************************)
CONSTANTS TxId, Coins, BlockHash, CoinsAt

VARIABLES
    working,    \* seen by ConnectBlock and DisconnectBlock
    active,     \* seen by everyone else
    durable     \* found after a restart

vars == <<working, active, durable>>

Version == [coins : [TxId -> Coins], best : BlockHash]

\* A version is right if its coins are those its best block leaves unspent.
Represents(v) == v.coins = CoinsAt[v.best]

Init ==
    /\ durable \in {v \in Version : Represents(v)}
    /\ active = durable
    /\ working = durable

Modify(tx, c) ==
    /\ working' = [working EXCEPT !.coins[tx] = c]
    /\ UNCHANGED <<active, durable>>

Commit(b) ==
    /\ working.coins = CoinsAt[b]
    /\ working' = [working EXCEPT !.best = b]
    /\ active' = working'
    /\ UNCHANGED durable

Discard ==
    /\ working' = active
    /\ UNCHANGED <<active, durable>>

Sync ==
    /\ working = active
    /\ durable' = active
    /\ UNCHANGED <<working, active>>

Crash ==
    /\ working' = durable
    /\ active' = durable
    /\ UNCHANGED durable

Next ==
    \/ \E tx \in TxId, c \in Coins : Modify(tx, c)
    \/ \E b \in BlockHash : Commit(b)
    \/ Discard \/ Sync \/ Crash

Spec == Init /\ [][Next]_vars
=============================================================================
