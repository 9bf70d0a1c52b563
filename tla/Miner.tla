------------------------------- MODULE Miner --------------------------------
(***************************************************************************)
(* A miner thread (HivemindMiner): it notes the tip, builds a block        *)
(* template (CreateNewBlock), writes the height into the coinbase          *)
(* (IncrementExtraNonce), searches, and offers what it finds.  Only the    *)
(* selection of transactions holds cs_main and mempool.cs; blocks of other *)
(* nodes may come at any other time.                                       *)
(*                                                                         *)
(* A block of another node takes the transactions of Confirms from the     *)
(* pool.  Signature counts, the limits on the time of the search and the   *)
(* outcome transactions (module Outcome: getOutcomeTx gives none with a    *)
(* decision in it) are left out; the scripts of the pool's transactions    *)
(* have been checked.                                                      *)
(***************************************************************************)
EXTENDS Integers, Sequences, FiniteSets, FiniteSetsExt, SequencesExt

CONSTANTS
    Tx,                 \* transactions of the pool
    Ins,                \* the outputs <<tx, n>> a transaction spends
    Size,
    Entries,            \* the [priority, feeRate] a transaction may have
    Prioritised,        \* the transactions with a delta of prioritisetransaction
    LockHeight,         \* a transaction is final in blocks above this height
    Coins,              \* the outputs of the chain at the start
    Confirms,           \* the pool transactions a block of another node has
    BlockMaxSize, BlockPrioritySize, BlockMinSize,
    Reserved,           \* the size CreateNewBlock starts with
    FreePriority, MinRelayFee,
    MaxHeight

VARIABLES
    entry,              \* priority and fee rate of each transaction, with their deltas
    height, pool,
    pc,                 \* where the thread is
    pindexPrev,         \* the height of the tip it noted
    vecPriority,        \* transactions without dependencies left
    dependsOn,          \* COrphan::setDependsOn
    view,               \* unspent outputs for the block
    fSortedByFee, nBlockSize,
    block               \* the template

queueVars == <<vecPriority, dependsOn, view, fSortedByFee, nBlockSize>>
vars == <<entry, height, pool, pc, pindexPrev, queueVars, block>>

NoBlock == [vtx |-> <<>>, nHeight |-> 0, prev |-> -1, cbHeight |-> 0]

MinerAssumption ==
    /\ Entries \subseteq [priority : Nat, feeRate : Nat]
    /\ \A t \in Tx : Size[t] \in Nat \ {0}
    /\ Prioritised \subseteq Tx
    /\ {BlockMaxSize, BlockPrioritySize, BlockMinSize, Reserved, MaxHeight} \subseteq Nat

\* The transactions an input comes from, in the pool or in the chain.
From(t) == {o[1] : o \in Ins[t]}

\* Outputs of the chain when the pool transactions of "confirmed" are in it.
ChainOutputs(confirmed) ==
    (Coins \cup {<<t, 0>> : t \in confirmed}) \ UNION {Ins[t] : t \in confirmed}

HaveCoins(t) == \E o \in ChainOutputs(Tx \ pool) : o[1] = t

IsFinalTx(t, h) == h > LockHeight[t]

Init ==
    /\ entry \in [Tx -> Entries]
    /\ height = 0 /\ pool = Tx
    /\ pc = "start" /\ pindexPrev = 0
    /\ vecPriority = {} /\ dependsOn = <<>> /\ view = {} /\ fSortedByFee = FALSE /\ nBlockSize = 0
    /\ block = NoBlock

-----------------------------------------------------------------------------
(* The rest of the node: cs_main is free except while transactions are      *)
(* selected.                                                                *)

OtherBlock ==
    /\ pc # "select" /\ height < MaxHeight
    /\ height' = height + 1
    /\ pool' = pool \ Confirms[height + 1]
    /\ UNCHANGED <<pc, pindexPrev, queueVars, block>>

-----------------------------------------------------------------------------
(* CreateNewBlock.                                                          *)

ReadTip ==
    /\ pc = "start" /\ pc' = "lock"
    /\ pindexPrev' = height
    /\ UNCHANGED <<height, pool, queueVars, block>>

Candidates(h) ==
    {t \in pool : IsFinalTx(t, h) /\ \A s \in From(t) : HaveCoins(s) \/ s \in pool}

Dependencies(t) == {s \in From(t) : ~HaveCoins(s)}

Lock ==
    /\ pc = "lock" /\ pc' = "select"
    /\ LET c == Candidates(height + 1)
       IN  /\ vecPriority' = {t \in c : Dependencies(t) = {}}
           /\ dependsOn' = [t \in {u \in c : Dependencies(u) # {}} |-> Dependencies(t)]
    /\ view' = ChainOutputs(Tx \ pool)
    /\ fSortedByFee' = (BlockPrioritySize <= 0)
    /\ nBlockSize' = Reserved
    /\ block' = [NoBlock EXCEPT !.nHeight = height + 1, !.prev = height]
    /\ UNCHANGED <<height, pool, pindexPrev>>

\* TxPriorityCompare: t may be taken before u.
Before(t, u) ==
    LET Key(v) == IF fSortedByFee THEN <<entry[v].feeRate, entry[v].priority>>
                  ELSE <<entry[v].priority, entry[v].feeRate>>
    IN  Key(t)[1] > Key(u)[1] \/ (Key(t)[1] = Key(u)[1] /\ Key(t)[2] >= Key(u)[2])

HaveInputs(t) == Ins[t] \subseteq view

\* Faulty variant: the transaction itself is not counted.
FaultyTooLarge(t) == nBlockSize >= BlockMaxSize
TooLarge(t) == nBlockSize + Size[t] >= BlockMaxSize

Skipped(t) ==
    \/ TooLarge(t)
    \/ fSortedByFee /\ t \notin Prioritised /\ entry[t].feeRate < MinRelayFee /\ nBlockSize + Size[t] >= BlockMinSize

\* Once past the priority size, or out of transactions with priority.
SwitchesToFee(t) ==
    ~fSortedByFee /\ (nBlockSize + Size[t] >= BlockPrioritySize \/ entry[t].priority <= FreePriority)

\* setDependsOn.erase.  Faulty variant: it is forgotten.
FaultyWaitsFor(u, t) == dependsOn[u]
WaitsFor(u, t) == dependsOn[u] \ {t}

Released(t) == {u \in DOMAIN dependsOn : t \in dependsOn[u] /\ WaitsFor(u, t) = {}}

\* One round of the loop, for the highest transaction of the queue.
Select(t) ==
    /\ pc = "select" /\ t \in vecPriority
    /\ \A u \in vecPriority : Before(t, u)
    /\ IF Skipped(t) \/ ~HaveInputs(t)
       THEN /\ vecPriority' = vecPriority \ {t}
            /\ fSortedByFee' = (fSortedByFee \/ (~Skipped(t) /\ SwitchesToFee(t)))
            /\ UNCHANGED <<dependsOn, view, nBlockSize, block>>
       ELSE /\ vecPriority' = (vecPriority \ {t}) \cup Released(t)
            /\ dependsOn' = [u \in DOMAIN dependsOn |-> WaitsFor(u, t)]
            /\ fSortedByFee' = (fSortedByFee \/ SwitchesToFee(t))
            /\ view' = (view \ Ins[t]) \cup {<<t, 0>>}
            /\ nBlockSize' = nBlockSize + Size[t]
            /\ block' = [block EXCEPT !.vtx = Append(@, t)]
    /\ UNCHANGED <<height, pool, pc, pindexPrev>>

\* TestBlockValidity, ConnectBlock: the transactions connect in their order.
Connects(vtx) ==
    LET Step(acc, t) == [ok |-> acc.ok /\ Ins[t] \subseteq acc.coins,
                         coins |-> (acc.coins \ Ins[t]) \cup {<<t, 0>>}]
    IN  FoldLeft(Step, [ok |-> TRUE, coins |-> ChainOutputs(Tx \ pool)], vtx).ok

Finish ==
    /\ pc = "select" /\ vecPriority = {}
    /\ pc' = IF Connects(block.vtx) THEN "template" ELSE "failed"
    /\ UNCHANGED <<height, pool, pindexPrev, queueVars, block>>

-----------------------------------------------------------------------------
(* The search.                                                              *)

\* Faulty variant: off by one.
FaultyCoinbaseHeight == pindexPrev
CoinbaseHeight == pindexPrev + 1

IncrementExtraNonce ==
    /\ pc = "template" /\ pc' = "search"
    /\ block' = [block EXCEPT !.cbHeight = CoinbaseHeight]
    /\ UNCHANGED <<height, pool, pindexPrev, queueVars>>

\* ScanHash returns without a solution and the tip is another, or enough
\* transactions have come.
Rebuild ==
    /\ pc = "search" /\ pc' = "start"
    /\ block' = NoBlock
    /\ UNCHANGED <<height, pool, pindexPrev, queueVars>>

Stale == block.prev # height

\* ProcessNewBlock accepts the block: ContextualCheckBlock wants its height in
\* the coinbase.
Accepted == block.cbHeight = height + 1 /\ Connects(block.vtx)

BlockFound ==
    /\ pc = "search" /\ pc' = "start"
    /\ block' = NoBlock
    /\ IF ~Stale /\ Accepted /\ height < MaxHeight
       THEN height' = height + 1 /\ pool' = pool \ Range(block.vtx)
       ELSE UNCHANGED <<height, pool>>
    /\ UNCHANGED <<pindexPrev, queueVars>>

Next ==
    /\ \/ OtherBlock \/ ReadTip \/ Lock \/ (\E t \in Tx : Select(t)) \/ Finish
       \/ IncrementExtraNonce \/ Rebuild \/ BlockFound
    /\ UNCHANGED entry

Spec == Init /\ [][Next]_vars

-----------------------------------------------------------------------------

Total(vtx) == FoldLeft(LAMBDA acc, t : acc + Size[t], Reserved, vtx)

\* CreateNewBlock makes a block that TestBlockValidity accepts (it throws
\* otherwise): every parent is in the chain or before its child, nothing is spent
\* twice, the transactions are final, and the block is within its size.
TemplateValid ==
    /\ pc # "failed"
    /\ pc = "template" => Total(block.vtx) < BlockMaxSize \/ block.vtx = <<>>
    /\ \A t \in Range(block.vtx) : IsFinalTx(t, block.nHeight)

\* A transaction of the pool is left out of a template only because it is not
\* final, does not fit, pays too little, or needs one that is left out.
LeftOutForAReason ==
    pc = "select" /\ vecPriority = {} =>
        \A t \in pool \ Range(block.vtx) :
            \/ ~IsFinalTx(t, block.nHeight)
            \/ TooLarge(t)
            \/ t \notin Prioritised /\ entry[t].feeRate < MinRelayFee
            \/ ~HaveInputs(t)

\* A block that HivemindMiner finds on the tip is accepted, unless another block
\* came between its reading of pindexPrev and the lock of CreateNewBlock: then
\* IncrementExtraNonce has written the height of the wrong block.
FoundAccepted == pc = "search" /\ ~Stale => (Accepted <=> pindexPrev = block.prev)
=============================================================================
