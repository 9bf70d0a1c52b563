----------------------------- MODULE ChainState -----------------------------
(***************************************************************************)
(* The block index and the active chain (main.cpp): headers and blocks     *)
(* arrive in any order, ActivateBestChain moves chainActive to the best    *)
(* candidate in steps that release cs_main, the operator may invalidate    *)
(* and reconsider blocks, FlushStateToDisk persists the block index and    *)
(* then the coins view, and the process may die between any two steps and  *)
(* restart through LoadBlockIndexDB.                                       *)
(*                                                                         *)
(* A block is a constant: its parent, its cumulated work and whether the   *)
(* contextual checks and ConnectBlock accept it are functions of its       *)
(* bytes.  The fields of CBlockIndex that change are sets of blocks: the   *)
(* entries with BLOCK_HAVE_DATA, with BLOCK_HAVE_UNDO, with a non-zero     *)
(* nChainTx, and so on.  The fields that only feed warnings                *)
(* (pindexBestInvalid, pindexBestHeader, the fork tips) are left out.      *)
(***************************************************************************)
EXTENDS Naturals, FiniteSets

CONSTANTS
    Block,          \* every block a peer, a miner or an import may deliver
    Genesis,        \* Params().GenesisBlock()
    Parent,         \* hashPrevBlock, for every block but Genesis
    Ancestors,      \* the blocks reached through pprev, the block included
    ChainWork,      \* nChainWork
    NonFinal,       \* blocks that ContextualCheckBlock rejects
    Unconnectable,  \* blocks that ConnectBlock rejects
    AddressOrders,  \* the orders in which malloc may place the loaded entries
    Thread,         \* threads that call ProcessNewBlock or the RPCs
    NoThread,       \* cs_main is free
    MaxInvalidate,  \* bound on InvalidateBlock calls
    MaxReconsider,  \* bound on ReconsiderBlock calls
    MaxCrash        \* bound on crashes

\* pprev links form a tree rooted at Genesis: Ancestors[b] is the least set
\* that holds b and is closed under Parent, no two blocks are each other's
\* ancestor (a header commits to the hash of its parent), and every block adds
\* a positive proof to nChainWork.
ASSUME TreeAssumption ==
    /\ IsFiniteSet(Block)
    /\ Genesis \in Block
    /\ Parent \in [Block -> Block]
    /\ Ancestors \in [Block -> SUBSET Block]
    /\ ChainWork \in [Block -> Nat]
    /\ Ancestors[Genesis] = {Genesis}
    /\ \A b \in Block \ {Genesis} :
         /\ Ancestors[b] = {b} \cup Ancestors[Parent[b]]
         /\ ChainWork[Parent[b]] < ChainWork[b]
    /\ \A b \in Block :
         /\ {b, Genesis} \subseteq Ancestors[b]
         /\ \A c \in Ancestors[b] \ {Genesis} : Parent[c] \in Ancestors[b]
    /\ \A b \in Block, S \in SUBSET Block :
         (b \in S /\ \A c \in S \ {Genesis} : Parent[c] \in S) => Ancestors[b] \subseteq S
    /\ \A a, b \in Block : a \in Ancestors[b] /\ b \in Ancestors[a] => a = b

ASSUME ValidityAssumption ==
    /\ NonFinal \subseteq Block \ {Genesis}
    /\ Unconnectable \subseteq Block \ {Genesis}
    /\ AddressOrders \subseteq [Block -> Nat]
    /\ NoThread \notin Thread
    /\ MaxInvalidate \in Nat /\ MaxReconsider \in Nat /\ MaxCrash \in Nat

VARIABLES
    mapBlockIndex,   \* blocks with an index entry
    haveData,        \* BLOCK_HAVE_DATA, and so BLOCK_VALID_TRANSACTIONS
    haveUndo,        \* BLOCK_HAVE_UNDO
    nChainTx,        \* entries whose nChainTx is not zero
    failedValid,     \* BLOCK_FAILED_VALID
    failedChild,     \* BLOCK_FAILED_CHILD
    setDirtyBlockIndex,
    setBlockIndexCandidates,
    mapBlocksUnlinked,  \* the second member of each pair; the first is its parent
    nSequenceId,     \* the order of receipt, of the entries with data
    tip,             \* chainActive.Tip()
    csMain,          \* the thread that holds cs_main
    pc,              \* what each thread is doing
    mostWork,        \* the block each thread works towards, or invalidates
    oldTip,          \* the tip when each thread's step or invalidation began
    starting,        \* AppInit2 runs ActivateBestChain, before any other thread
    flushing,        \* between the two writes of FlushStateToDisk
    disk,            \* the block index database and the coins database
    calls            \* calls made of the bounded operations

index == <<mapBlockIndex, haveData, haveUndo, nChainTx, failedValid, failedChild>>
chain == <<setBlockIndexCandidates, mapBlocksUnlinked, nSequenceId, tip>>
threads == <<csMain, pc, mostWork, oldTip, starting>>
vars == <<index, setDirtyBlockIndex, chain, threads, flushing, disk, calls>>

Failed == failedValid \cup failedChild

\* Faulty variant: only the tip counts as active.
FaultyInActiveChain(b) == b = tip

\* chainActive.Contains(b)
InActiveChain(b) == b \in Ancestors[tip]

\* IsValid(BLOCK_VALID_TRANSACTIONS)
ValidTransactions == haveData \ Failed

\* CBlockIndexWorkComparator: a sorts before (is worse than) b.
WorkLess(a, b) ==
    \/ ChainWork[a] < ChainWork[b]
    \/ ChainWork[a] = ChainWork[b] /\ nSequenceId[a] > nSequenceId[b]

TypeOK ==
    /\ mapBlockIndex \subseteq Block
    /\ haveData \subseteq Block
    /\ haveUndo \subseteq Block
    /\ nChainTx \subseteq Block
    /\ failedValid \subseteq Block
    /\ failedChild \subseteq Block
    /\ setDirtyBlockIndex \subseteq Block
    /\ setBlockIndexCandidates \subseteq Block
    /\ mapBlocksUnlinked \subseteq Block
    /\ nSequenceId \in [Block -> Nat]
    /\ tip \in Block
    /\ csMain \in Thread \cup {NoThread}
    /\ pc \in [Thread -> {"idle", "activate", "step", "check", "invalidate", "aborted"}]
    /\ mostWork \in [Thread -> Block]
    /\ oldTip \in [Thread -> Block]
    /\ starting \in BOOLEAN
    /\ flushing \in BOOLEAN
    /\ disk \in [index : SUBSET Block, data : SUBSET Block, undo : SUBSET Block,
                 failedValid : SUBSET Block, failedChild : SUBSET Block, best : Block]
    /\ calls \in [invalidate : 0..MaxInvalidate, reconsider : 0..MaxReconsider,
                  crash : 0..MaxCrash]

\* InitBlockIndex: the genesis block is stored, activated and flushed.
Init ==
    /\ mapBlockIndex = {Genesis}
    /\ haveData = {Genesis}
    /\ haveUndo = {}
    /\ nChainTx = {Genesis}
    /\ failedValid = {}
    /\ failedChild = {}
    /\ setDirtyBlockIndex = {}
    /\ setBlockIndexCandidates = {Genesis}
    /\ mapBlocksUnlinked = {}
    /\ nSequenceId = [b \in Block |-> IF b = Genesis THEN 1 ELSE 0]
    /\ tip = Genesis
    /\ csMain = NoThread
    /\ pc = [t \in Thread |-> "idle"]
    /\ mostWork = [t \in Thread |-> Genesis]
    /\ oldTip = [t \in Thread |-> Genesis]
    /\ starting = FALSE
    /\ flushing = FALSE
    /\ disk = [index |-> {Genesis}, data |-> {Genesis}, undo |-> {},
               failedValid |-> {}, failedChild |-> {}, best |-> Genesis]
    /\ calls = [invalidate |-> 0, reconsider |-> 0, crash |-> 0]

-----------------------------------------------------------------------------
(* Headers and blocks arrive *)

\* The node is up and cs_main is free.
Unlocked == csMain = NoThread /\ ~flushing /\ ~starting

\* The tests of AcceptBlockHeader: a known header must not be marked failed;
\* the parent of a new one must be known and not failed.
HeaderAcceptable(b) ==
    IF b \in mapBlockIndex
    THEN b \notin Failed
    ELSE Parent[b] \in mapBlockIndex /\ Parent[b] \notin Failed

\* A "headers" message: AcceptBlockHeader and AddToBlockIndex.
AcceptBlockHeader(b) ==
    /\ Unlocked
    /\ b \notin mapBlockIndex
    /\ HeaderAcceptable(b)
    /\ mapBlockIndex' = mapBlockIndex \cup {b}
    /\ setDirtyBlockIndex' = setDirtyBlockIndex \cup {b}
    /\ UNCHANGED <<haveData, haveUndo, nChainTx, failedValid, failedChild,
                   chain, threads, flushing, disk, calls>>

\* The blocks that the queue of ReceivedBlockTransactions visits when the
\* data of b arrives: b and its descendants along mapBlocksUnlinked.
Linkable(b) ==
    {b} \cup {c \in mapBlocksUnlinked :
                /\ b \in Ancestors[c]
                /\ Ancestors[c] \ Ancestors[b] \subseteq mapBlocksUnlinked}

\* nBlockSequenceId++.  Ids are compared only between blocks of equal work, so
\* the model counts them apart for each amount of work.
NextSequenceId(b) ==
    1 + Cardinality({c \in Block : ChainWork[c] = ChainWork[b] /\ nSequenceId[c] # 0})

\* Faulty variant: the parent's nChainTx is not tested.
FaultyReceivedBlockTransactions(b) ==
    /\ haveData' = haveData \cup {b}
    /\ nSequenceId' = [nSequenceId EXCEPT ![b] = NextSequenceId(b)]
    /\ nChainTx' = nChainTx \cup {b}
    /\ setBlockIndexCandidates' = setBlockIndexCandidates \cup {b}
    /\ UNCHANGED mapBlocksUnlinked

ReceivedBlockTransactions(b) ==
    /\ haveData' = haveData \cup {b}
    /\ nSequenceId' = [nSequenceId EXCEPT ![b] = NextSequenceId(b)]
    /\ IF Parent[b] \in nChainTx
       THEN /\ nChainTx' = nChainTx \cup Linkable(b)
            /\ setBlockIndexCandidates' = setBlockIndexCandidates \cup Linkable(b)
            /\ mapBlocksUnlinked' = mapBlocksUnlinked \ Linkable(b)
       ELSE /\ mapBlocksUnlinked' = IF Parent[b] \in Failed
                                    THEN mapBlocksUnlinked
                                    ELSE mapBlocksUnlinked \cup {b}
            /\ UNCHANGED <<nChainTx, setBlockIndexCandidates>>

\* ProcessNewBlock, up to the call of ActivateBestChain: AcceptBlock refuses
\* a block whose header is refused, does nothing for a block it already has,
\* and marks a block that fails its contextual checks.
ProcessNewBlock(t, b) ==
    /\ Unlocked
    /\ pc[t] = "idle"
    /\ HeaderAcceptable(b)
    /\ mapBlockIndex' = mapBlockIndex \cup {b}
    /\ \/ /\ b \in haveData
          /\ pc' = [pc EXCEPT ![t] = "activate"]
          /\ UNCHANGED <<haveData, nChainTx, failedValid, setDirtyBlockIndex,
                         setBlockIndexCandidates, mapBlocksUnlinked, nSequenceId>>
       \/ /\ b \notin haveData
          /\ b \in NonFinal
          /\ failedValid' = failedValid \cup {b}
          /\ setDirtyBlockIndex' = setDirtyBlockIndex \cup {b}
          /\ UNCHANGED <<haveData, nChainTx, setBlockIndexCandidates,
                         mapBlocksUnlinked, nSequenceId, pc>>
       \/ /\ b \notin haveData
          /\ b \notin NonFinal
          /\ ReceivedBlockTransactions(b)
          /\ setDirtyBlockIndex' = setDirtyBlockIndex \cup {b}
          /\ pc' = [pc EXCEPT ![t] = "activate"]
          /\ UNCHANGED failedValid
    /\ UNCHANGED <<haveUndo, failedChild, tip, csMain, mostWork, oldTip,
                   starting, flushing, disk, calls>>

-----------------------------------------------------------------------------
(* ActivateBestChain *)

\* setBlockIndexCandidates.rbegin()
IsBestCandidate(m) ==
    /\ m \in setBlockIndexCandidates
    /\ \A c \in setBlockIndexCandidates : ~WorkLess(m, c)

\* The blocks between the active chain and m.
PathTo(m) == Ancestors[m] \ Ancestors[tip]

\* Faulty variant: BLOCK_FAILED_MASK is not tested.
FaultyIsFirstFailed(f, m) == f \in PathTo(m)

\* The first failed block met when walking from m down PathTo(m).
IsFirstFailed(f, m) ==
    /\ f \in PathTo(m) \cap Failed
    /\ PathTo(m) \cap Failed \subseteq Ancestors[f]

\* The blocks FindMostWorkChain walks over from m: down to the first failed
\* one, or all of PathTo(m).
Walked(m) == {b \in PathTo(m) : PathTo(m) \cap Failed \subseteq Ancestors[b]}

\* The asserts on every block FindMostWorkChain walks over.
WalkAsserts(m) == Walked(m) \subseteq haveData /\ Walked(m) \subseteq nChainTx

\* One round of the loop of FindMostWorkChain, and of ActivateBestChain
\* around it: drop a candidate that descends from a failed block and look
\* again, or return, or start a step towards the best candidate.  A failed
\* assert aborts the process: the thread keeps cs_main and nothing moves.
FindMostWorkChain(t) ==
    /\ pc[t] = "activate"
    /\ csMain \in {NoThread, t} /\ ~flushing
    /\ \/ /\ setBlockIndexCandidates = {}
          /\ pc' = [pc EXCEPT ![t] = "idle"]
          /\ csMain' = NoThread
          /\ UNCHANGED <<failedChild, setBlockIndexCandidates, mostWork, oldTip>>
       \/ /\ \E m \in setBlockIndexCandidates : IsBestCandidate(m) /\ ~WalkAsserts(m)
          /\ pc' = [pc EXCEPT ![t] = "aborted"]
          /\ csMain' = t
          /\ UNCHANGED <<failedChild, setBlockIndexCandidates, mostWork, oldTip>>
       \/ \E m \in setBlockIndexCandidates :
            /\ IsBestCandidate(m)
            /\ WalkAsserts(m)
            /\ \/ \E f \in PathTo(m) :
                    /\ IsFirstFailed(f, m)
                    /\ failedChild' = failedChild \cup (Ancestors[m] \ Ancestors[f])
                    /\ setBlockIndexCandidates' = setBlockIndexCandidates
                         \ ((Ancestors[m] \ Ancestors[f]) \cup {f})
                    /\ csMain' = t
                    /\ UNCHANGED <<pc, mostWork, oldTip>>
               \/ /\ PathTo(m) \cap Failed = {}
                  /\ m = tip
                  /\ pc' = [pc EXCEPT ![t] = "idle"]
                  /\ csMain' = NoThread
                  /\ UNCHANGED <<failedChild, setBlockIndexCandidates, mostWork, oldTip>>
               \/ /\ PathTo(m) \cap Failed = {}
                  /\ m # tip
                  /\ pc' = [pc EXCEPT ![t] = "step"]
                  /\ csMain' = t
                  /\ mostWork' = [mostWork EXCEPT ![t] = m]
                  /\ oldTip' = [oldTip EXCEPT ![t] = tip]
                  /\ UNCHANGED <<failedChild, setBlockIndexCandidates>>
    /\ starting' = (starting /\ pc'[t] # "idle")
    /\ UNCHANGED <<mapBlockIndex, haveData, haveUndo, nChainTx, failedValid,
                   setDirtyBlockIndex, mapBlocksUnlinked, nSequenceId, tip,
                   flushing, disk, calls>>

\* DisconnectTip needs the undo data of the tip (DisconnectBlock).
DisconnectTip ==
    /\ tip \in haveUndo
    /\ tip' = Parent[tip]

\* ActivateBestChainStep leaves a block that is not on the way to mostWork.
DisconnectStep(t) ==
    /\ csMain = t /\ ~flushing
    /\ pc[t] = "step"
    /\ tip \notin Ancestors[mostWork[t]]
    /\ DisconnectTip
    /\ UNCHANGED <<index, setDirtyBlockIndex, setBlockIndexCandidates,
                   mapBlocksUnlinked, nSequenceId, threads, flushing, disk, calls>>

\* PruneBlockIndexCandidates, with the tip already moved to b; its assert is
\* the second conjunct.
PruneBlockIndexCandidates(b) ==
    /\ setBlockIndexCandidates' = {c \in setBlockIndexCandidates : ~WorkLess(c, b)}
    /\ setBlockIndexCandidates' # {}

\* ActivateBestChainStep returns and releases cs_main.
StepReturns(t) ==
    /\ csMain' = NoThread
    /\ pc' = [pc EXCEPT ![t] = "check"]

\* The block after the tip on the way to mostWork[t].
NextToConnect(t) ==
    CHOOSE b \in Ancestors[mostWork[t]] \ {Genesis} : Parent[b] = tip

\* ConnectTip of a block that ConnectBlock accepts.
ConnectStep(t) ==
    LET b == NextToConnect(t) IN
    /\ csMain = t /\ ~flushing
    /\ pc[t] = "step"
    /\ tip \in Ancestors[mostWork[t]] \ {mostWork[t]}
    /\ b \notin Unconnectable
    /\ tip' = b
    /\ haveUndo' = haveUndo \cup {b}
    /\ setDirtyBlockIndex' = setDirtyBlockIndex \cup {b}
    /\ PruneBlockIndexCandidates(b)
    /\ IF b = mostWork[t] \/ ChainWork[b] > ChainWork[oldTip[t]]
       THEN StepReturns(t)
       ELSE UNCHANGED <<csMain, pc>>
    /\ UNCHANGED <<mapBlockIndex, haveData, nChainTx, failedValid, failedChild,
                   mapBlocksUnlinked, nSequenceId, mostWork, oldTip, starting,
                   flushing, disk, calls>>

\* ConnectTip of a block that ConnectBlock rejects: InvalidBlockFound.
ConnectFails(t) ==
    LET b == NextToConnect(t) IN
    /\ csMain = t /\ ~flushing
    /\ pc[t] = "step"
    /\ tip \in Ancestors[mostWork[t]] \ {mostWork[t]}
    /\ b \in Unconnectable
    /\ failedValid' = failedValid \cup {b}
    /\ setDirtyBlockIndex' = setDirtyBlockIndex \cup {b}
    /\ setBlockIndexCandidates' = setBlockIndexCandidates \ {b}
    /\ StepReturns(t)
    /\ UNCHANGED <<mapBlockIndex, haveData, haveUndo, nChainTx, failedChild,
                   mapBlocksUnlinked, nSequenceId, tip, mostWork, oldTip,
                   starting, flushing, disk, calls>>

\* Faulty variant: ActivateBestChain makes one step only.
FaultyCheckTip(t) ==
    /\ pc[t] = "check"
    /\ pc' = [pc EXCEPT ![t] = "idle"]
    /\ starting' = FALSE
    /\ UNCHANGED <<index, setDirtyBlockIndex, chain, csMain, mostWork, oldTip,
                   flushing, disk, calls>>

\* The loop condition of ActivateBestChain, read without cs_main.
CheckTip(t) ==
    /\ pc[t] = "check"
    /\ pc' = [pc EXCEPT ![t] = IF mostWork[t] = tip THEN "idle" ELSE "activate"]
    /\ starting' = (starting /\ pc'[t] # "idle")
    /\ UNCHANGED <<index, setDirtyBlockIndex, chain, csMain, mostWork, oldTip,
                   flushing, disk, calls>>

-----------------------------------------------------------------------------
(* The invalidateblock and reconsiderblock RPCs *)

InvalidateBlock(t, b) ==
    /\ Unlocked
    /\ pc[t] = "idle"
    /\ calls.invalidate < MaxInvalidate
    /\ b \in mapBlockIndex \ {Genesis}
    /\ failedValid' = failedValid \cup {b}
    /\ setDirtyBlockIndex' = setDirtyBlockIndex \cup {b}
    /\ setBlockIndexCandidates' = setBlockIndexCandidates \ {b}
    /\ csMain' = t
    /\ pc' = [pc EXCEPT ![t] = "invalidate"]
    /\ mostWork' = [mostWork EXCEPT ![t] = b]
    /\ oldTip' = [oldTip EXCEPT ![t] = tip]
    /\ calls' = [calls EXCEPT !.invalidate = @ + 1]
    /\ UNCHANGED <<mapBlockIndex, haveData, haveUndo, nChainTx, failedChild,
                   mapBlocksUnlinked, nSequenceId, tip, starting, flushing, disk>>

\* One round of the loop that disconnects the active chain down to b.
InvalidateDisconnect(t) ==
    /\ csMain = t /\ ~flushing
    /\ pc[t] = "invalidate"
    /\ InActiveChain(mostWork[t])
    /\ failedChild' = failedChild \cup {tip}
    /\ setDirtyBlockIndex' = setDirtyBlockIndex \cup {tip}
    /\ setBlockIndexCandidates' = setBlockIndexCandidates \ {tip}
    /\ DisconnectTip
    /\ UNCHANGED <<mapBlockIndex, haveData, haveUndo, nChainTx, failedValid,
                   mapBlocksUnlinked, nSequenceId, threads, flushing, disk, calls>>

\* The blocks that may be the new best tip, once tip has become the tip.
BetterThanTip ==
    {c \in mapBlockIndex : c \in ValidTransactions \cap nChainTx /\ WorkLess(tip, c)}

\* The loop that re-adds candidates inserts the invalidated block itself,
\* once for each block it finds better than the tip.
InvalidateFinish(t) ==
    /\ csMain = t /\ ~flushing
    /\ pc[t] = "invalidate"
    /\ ~InActiveChain(mostWork[t])
    /\ setBlockIndexCandidates' = setBlockIndexCandidates \cup
         (IF BetterThanTip # {} THEN {mostWork[t]} ELSE {})
    /\ csMain' = NoThread
    /\ pc' = [pc EXCEPT ![t] = "activate"]
    /\ UNCHANGED <<index, setDirtyBlockIndex, mapBlocksUnlinked, nSequenceId, tip,
                   mostWork, oldTip, starting, flushing, disk, calls>>

\* The flags of b, of its descendants and of its ancestors are cleared; b and
\* its descendants become candidates again if they are better than the tip.
\* (IsValid() is false of a failed entry and of one without data.)
ReconsiderBlock(t, b) ==
    LET below == {d \in mapBlockIndex \ ValidTransactions : b \in Ancestors[d]} IN
    /\ Unlocked
    /\ pc[t] = "idle"
    /\ calls.reconsider < MaxReconsider
    /\ b \in mapBlockIndex
    /\ failedValid' = failedValid \ (below \cup Ancestors[b])
    /\ failedChild' = failedChild \ (below \cup Ancestors[b])
    /\ setDirtyBlockIndex' = setDirtyBlockIndex \cup below \cup (Ancestors[b] \cap Failed)
    /\ setBlockIndexCandidates' = setBlockIndexCandidates \cup
         {d \in below : d \in haveData \cap nChainTx /\ WorkLess(tip, d)}
    /\ pc' = [pc EXCEPT ![t] = "activate"]
    /\ calls' = [calls EXCEPT !.reconsider = @ + 1]
    /\ UNCHANGED <<mapBlockIndex, haveData, haveUndo, nChainTx, mapBlocksUnlinked,
                   nSequenceId, tip, csMain, mostWork, oldTip, starting, flushing, disk>>

-----------------------------------------------------------------------------
(* FlushStateToDisk, a crash and the restart *)

\* Faulty variants: the dirty entries are not written; the clean entries are
\* dropped.
FaultyWritten(onDisk, inMemory) == onDisk
FaultyWrittenClean(onDisk, inMemory) == inMemory \cap setDirtyBlockIndex

\* An entry on disk takes the value it has in memory if it is dirty.
Written(onDisk, inMemory) ==
    (onDisk \ setDirtyBlockIndex) \cup (inMemory \cap setDirtyBlockIndex)

\* FlushStateToDisk runs under cs_main: for a caller that takes it, or inside
\* the ConnectTip or DisconnectTip of the thread that holds it.  A flush with
\* nothing to write changes nothing and is left out.
MayFlush ==
    /\ ~flushing
    /\ setDirtyBlockIndex # {} \/ tip # disk.best
    /\ csMain # NoThread => /\ pc[csMain] \in {"step", "invalidate"}
                            /\ tip # oldTip[csMain]

\* The first write: the dirty entries of the block index, synchronously.
FlushBlockIndex ==
    /\ MayFlush
    /\ flushing' = TRUE
    /\ disk' = [disk EXCEPT
                  !.index = Written(disk.index, mapBlockIndex),
                  !.data = Written(disk.data, haveData),
                  !.undo = Written(disk.undo, haveUndo),
                  !.failedValid = Written(disk.failedValid, failedValid),
                  !.failedChild = Written(disk.failedChild, failedChild)]
    /\ setDirtyBlockIndex' = {}
    /\ UNCHANGED <<index, chain, threads, calls>>

\* The second write: the coins of pcoinsTip and their best block, one batch.
FlushCoins ==
    /\ flushing
    /\ flushing' = FALSE
    /\ disk' = [disk EXCEPT !.best = tip]
    /\ UNCHANGED <<index, setDirtyBlockIndex, chain, threads, calls>>

\* Faulty variant: only the blocks that were once connected are linked.
FaultyLoadedChainTx == disk.undo \cup {Genesis}

\* The candidates LoadBlockIndexDB collects from the disk.
LoadedChainTx == {b \in disk.data : Ancestors[b] \subseteq disk.data}
\* Faulty variant: the blocks that were once connected are no candidates.
FaultyLoadedValid == LoadedChainTx \ (disk.undo \cup {Genesis})

LoadedValid == LoadedChainTx \ (disk.failedValid \cup disk.failedChild)

\* Entries loaded from disk all have id 0 and are ordered by address, before
\* every block received later.
LoadedSequenceId(order) ==
    [b \in Block |->
       Cardinality({c \in disk.data : /\ b \in disk.data
                                      /\ ChainWork[c] = ChainWork[b]
                                      /\ order[c] <= order[b]})]

\* The process dies and restarts: LoadBlockIndexDB rebuilds the memory and
\* AppInit2 calls ActivateBestChain.
\* The assert of PruneBlockIndexCandidates aborts a node without candidates.
Restart ==
    /\ calls.crash < MaxCrash
    /\ calls' = [calls EXCEPT !.crash = @ + 1]
    /\ mapBlockIndex' = disk.index
    /\ haveData' = disk.data
    /\ haveUndo' = disk.undo
    /\ failedValid' = disk.failedValid
    /\ failedChild' = disk.failedChild
    /\ nChainTx' = LoadedChainTx
    /\ mapBlocksUnlinked' = disk.data \ LoadedChainTx
    /\ tip' = disk.best
    /\ \E order \in AddressOrders : nSequenceId' = LoadedSequenceId(order)
    /\ setBlockIndexCandidates' =
         {b \in LoadedValid : ~(\/ ChainWork[b] < ChainWork[tip']
                                \/ /\ ChainWork[b] = ChainWork[tip']
                                   /\ nSequenceId'[b] > nSequenceId'[tip'])}
    /\ setDirtyBlockIndex' = {}
    /\ csMain' = NoThread
    /\ \E u \in Thread :
         pc' = [t \in Thread |-> IF t # u THEN "idle"
                                ELSE IF setBlockIndexCandidates' = {} THEN "aborted"
                                ELSE "activate"]
    /\ starting' = TRUE
    /\ mostWork' = [t \in Thread |-> Genesis]
    /\ oldTip' = [t \in Thread |-> Genesis]
    /\ flushing' = FALSE
    /\ UNCHANGED disk

-----------------------------------------------------------------------------
Activate(t) ==
    \/ FindMostWorkChain(t)
    \/ DisconnectStep(t)
    \/ ConnectStep(t)
    \/ ConnectFails(t)
    \/ CheckTip(t)
    \/ InvalidateDisconnect(t)
    \/ InvalidateFinish(t)

Next ==
    \/ \E b \in Block : AcceptBlockHeader(b)
    \/ \E t \in Thread, b \in Block : ProcessNewBlock(t, b)
    \/ \E t \in Thread : Activate(t)
    \/ \E t \in Thread, b \in Block : InvalidateBlock(t, b)
    \/ \E t \in Thread, b \in Block : ReconsiderBlock(t, b)
    \/ FlushBlockIndex
    \/ FlushCoins
    \/ Restart

Spec == Init /\ [][Next]_vars

\* A thread inside ActivateBestChain or InvalidateBlock keeps running, and a
\* started flush ends.
Fairness == WF_vars(FlushCoins) /\ \A t \in Thread : WF_vars(Activate(t))

FairSpec == Spec /\ Fairness

-----------------------------------------------------------------------------
(* Properties *)

\* A non-zero nChainTx (ReceivedBlockTransactions, LoadBlockIndexDB) is never
\* a lie: the data of the block and of all its ancestors is stored, whatever
\* the order of arrival, the operator's calls and the crashes.
ChainTxComplete == \A b \in nChainTx : Ancestors[b] \subseteq haveData

\* Every block of chainActive was accepted by ConnectBlock and can be
\* disconnected again: its data and its undo data are there, so DisconnectTip
\* in a later reorganisation, perhaps after a restart, cannot fail.
ActiveChainConnectable ==
    /\ Ancestors[tip] \subseteq nChainTx
    /\ Ancestors[tip] \cap Unconnectable = {}
    /\ Ancestors[tip] \ {Genesis} \subseteq haveUndo

\* FlushStateToDisk writes the coins after the block index: the best block of
\* the coins database always has its whole chain, with data and undo data, in
\* the block index database, even between the two writes.
DiskRecoverable ==
    /\ Ancestors[disk.best] \subseteq disk.index \cap disk.data
    /\ Ancestors[disk.best] \ {Genesis} \subseteq disk.undo
    /\ Ancestors[disk.best] \cap Unconnectable = {}

\* Outside the loop of InvalidateBlock no block of chainActive is marked failed.
NoFailedActive ==
    (\A t \in Thread : pc[t] # "invalidate") => Ancestors[tip] \cap Failed = {}

\* The asserts of FindMostWorkChain hold whenever a thread may run it: every
\* block on the way to the best candidate has its data and is linked.
FindMostWorkAsserts ==
    \A t \in Thread : pc[t] = "activate" /\ csMain \in {NoThread, t} =>
        \A m \in setBlockIndexCandidates : IsBestCandidate(m) => WalkAsserts(m)

\* The assert of PruneBlockIndexCandidates after ConnectTip: a candidate at
\* least as good as the block being connected is left, whatever other threads
\* did before this one took cs_main.
PruneAssert ==
    \A t \in Thread :
        pc[t] = "step" /\ tip \in Ancestors[mostWork[t]] \ {mostWork[t]} =>
            \E c \in setBlockIndexCandidates : ~WorkLess(c, NextToConnect(t))

\* The assert of PruneBlockIndexCandidates in LoadBlockIndexDB: a node that
\* restarts from what was flushed finds a candidate at least as good as its tip.
RestartFindsCandidate ==
    [][calls'.crash # calls.crash => setBlockIndexCandidates' # {}]_vars

\* The chain that is all stored and that the checks accept.
Activatable(b) ==
    Ancestors[b] \subseteq haveData /\ Ancestors[b] \cap Unconnectable = {}

\* When no thread is inside ActivateBestChain, no stored chain of acceptable
\* blocks is better than chainActive, whatever the order of arrival, the failed
\* reorganisations and the threads that raced for cs_main.
IdleTipIsBest ==
    (\A t \in Thread : pc[t] = "idle") =>
        \A b \in haveData : Activatable(b) => ~WorkLess(tip, b)

\* nChainTx is set of every block whose chain is all stored: the converse of
\* ChainTxComplete, for which mapBlocksUnlinked must remember every waiting
\* descendant of a missing block.
ChainTxLinked ==
    \A b \in haveData : Ancestors[b] \subseteq haveData => b \in nChainTx

\* No block known to have failed is active, unless the process died after
\* InvalidateBlock had flushed its mark.  Unless an operator called InvalidateBlock,
\* ActivateBestChain leaves the best chain active when no thread is inside it, and
\* ReceivedBlockTransactions and LoadBlockIndexDB have linked every stored chain.
TipIsBest ==
    /\ calls.invalidate = 0 \/ calls.crash = 0 => NoFailedActive
    /\ calls.invalidate = 0 => IdleTipIsBest /\ ChainTxLinked

\* Once the blocks have come, chainActive matches every stored chain of
\* acceptable blocks for good.
BestChainWins ==
    <>[](\A b \in Block : Activatable(b) => ChainWork[tip] >= ChainWork[b])

\* FindMostWorkChain returns "the tip of the chain with the most work in it,
\* that isn't known to be invalid": a step never starts towards a chain worse
\* than another stored one, the active chain included, without a failed block.
ActivatesMostWork ==
    [][\A t \in Thread : pc[t] = "activate" /\ pc'[t] = "step" =>
         \A b \in nChainTx : Ancestors[b] \cap Failed = {} => ~WorkLess(mostWork'[t], b)]_vars

\* "The resulting new best tip may not be in setBlockIndexCandidates anymore,
\* so add them again": when InvalidateBlock returns, every valid, linked block
\* better than the new tip is a candidate.
InvalidateReadds ==
    [][\A t \in Thread : pc[t] = "invalidate" /\ pc'[t] = "activate" =>
         BetterThanTip \subseteq setBlockIndexCandidates']_vars

\* BLOCK_FAILED_CHILD is "descends from failed block": a block that carries it
\* is failed or has a failed ancestor.
FailedChildDescends == \A b \in failedChild : Ancestors[b] \cap failedValid # {}

=============================================================================
