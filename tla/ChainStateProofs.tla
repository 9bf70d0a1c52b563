-------------------------- MODULE ChainStateProofs --------------------------
(***************************************************************************)
(* Proofs about ChainState, for every block tree, every set of threads and *)
(* any number of invalidations, reconsiderations and crashes.              *)
(***************************************************************************)
EXTENDS TipProofs, FiniteSetTheorems

\* Counting a set of blocks gives a natural number.
LEMMA BlockCount ==
    ASSUME NEW S \in SUBSET Block
    PROVE  Cardinality(S) \in Nat
BY Zenon, FS_Subset, FS_CardinalityType, TreeAssumption

\* The invariant holds after InitBlockIndex.
LEMMA InitIInv == Init => IInv
<1> SUFFICES ASSUME Init PROVE IInv
  OBVIOUS
<1>1. TypeOK
  <2>1. nSequenceId \in [Block -> Nat]
    BY Zenon DEF Init
  <2>2. calls \in [invalidate : 0..MaxInvalidate, reconsider : 0..MaxReconsider,
                   crash : 0..MaxCrash]
    BY ConstantTypes DEF Init
  <2> QED
    BY Zenon, <2>1, <2>2, ConstantTypes DEF Init, TypeOK
<1>2. LinkInv /\ ThreadInv /\ DiskInv
  BY Zenon DEF Init, LinkInv, ThreadInv, DiskInv
<1>3. ActiveChainConnectable /\ DiskRecoverable
  BY Zenon, TreeAssumption, ValidityAssumption DEF Init, ActiveChainConnectable, DiskRecoverable
<1> QED
  BY Zenon, <1>1, <1>2, <1>3 DEF IInv

-----------------------------------------------------------------------------
(* Each action preserves the invariant *)

\* AcceptBlockHeader adds an entry to the index and marks it dirty.
LEMMA AcceptBlockHeaderStep ==
    ASSUME IInv, NEW b \in Block, AcceptBlockHeader(b)
    PROVE  IInv'
<1> USE DEF AcceptBlockHeader, index, chain, threads
<1>1. TypeOK'
  BY Zenon DEF IInv, TypeOK
<1>2. LinkInv' /\ ThreadInv' /\ ActiveChainConnectable'
  BY Zenon DEF IInv, LinkInv, ThreadInv, ActiveChainConnectable
<1>3. DiskInv' /\ DiskRecoverable'
  BY Zenon DEF IInv, DiskInv, DiskRecoverable, Unlocked
<1> QED
  BY Zenon, <1>1, <1>2, <1>3 DEF IInv

\* What ReceivedBlockTransactions links is closed under Parent.
LEMMA LinkableClosed ==
    ASSUME IInv, NEW b \in Block, Parent[b] \in nChainTx,
           NEW c \in Linkable(b) \ {Genesis}
    PROVE  c \in Block /\ Parent[c] \in nChainTx \cup Linkable(b)
<1>1. CASE c = b
  BY Zenon, <1>1
<1>2. CASE c # b
  <2>1. /\ c \in mapBlocksUnlinked /\ c \in Block /\ b \in Ancestors[c]
        /\ Ancestors[c] \ Ancestors[b] \subseteq mapBlocksUnlinked
    BY Zenon, <1>2 DEF Linkable, IInv, TypeOK
  <2>2. /\ Parent[c] \in Block /\ Ancestors[c] = {c} \cup Ancestors[Parent[c]]
        /\ Parent[c] \in Ancestors[Parent[c]]
    BY Zenon, <2>1, TreeAssumption
  <2>3. b \in Ancestors[Parent[c]]
    BY Zenon, <1>2, <2>1, <2>2
  <2>4. CASE Parent[c] \in Ancestors[b]
    <3>1. Parent[c] = b
      BY Zenon, <2>2, <2>3, <2>4, TreeAssumption
    <3> QED
      BY Zenon, <2>1, <3>1 DEF Linkable
  <2>5. CASE Parent[c] \notin Ancestors[b]
    BY Zenon, <2>1, <2>2, <2>3, <2>5 DEF Linkable
  <2> QED
    BY Zenon, <2>1, <2>4, <2>5
<1> QED
  BY Zenon, <1>1, <1>2

\* AcceptBlock and ReceivedBlockTransactions link b and what waited for it.
LEMMA ProcessNewBlockStep ==
    ASSUME IInv, NEW u \in Thread, NEW b \in Block, ProcessNewBlock(u, b)
    PROVE  IInv'
<1>1. Linkable(b) \subseteq Block /\ Linkable(b) \subseteq haveData \cup {b}
  BY Zenon DEF Linkable, IInv, TypeOK, LinkInv
<1>2. NextSequenceId(b) \in Nat
  <2>1. {c \in Block : ChainWork[c] = ChainWork[b] /\ nSequenceId[c] # 0} \in SUBSET Block
    OBVIOUS
  <2> QED
    BY <2>1, BlockCount DEF NextSequenceId
<1>3. TypeOK'
  BY <1>1, <1>2 DEF ProcessNewBlock, ReceivedBlockTransactions, IInv, TypeOK
<1>4. /\ haveData \subseteq haveData' /\ haveData' \subseteq haveData \cup {b}
      /\ nChainTx \subseteq nChainTx'
      /\ setBlockIndexCandidates \subseteq setBlockIndexCandidates'
      /\ mapBlockIndex' = mapBlockIndex \cup {b}
  BY Zenon DEF ProcessNewBlock, ReceivedBlockTransactions
<1>5. LinkInv'
  <2>1. CASE UNCHANGED <<haveData, nChainTx, mapBlocksUnlinked>>
    BY Zenon, <2>1, <1>4 DEF IInv, LinkInv
  <2>2. CASE ReceivedBlockTransactions(b) /\ Parent[b] \in nChainTx
    BY Zenon, <2>2, <1>1, <1>4, LinkableClosed DEF ReceivedBlockTransactions, IInv, LinkInv
  <2>3. CASE ReceivedBlockTransactions(b) /\ Parent[b] \notin nChainTx
    BY Zenon, <2>3, <1>4 DEF ReceivedBlockTransactions, IInv, LinkInv
  <2> QED
    BY Zenon, <2>1, <2>2, <2>3 DEF ProcessNewBlock
<1>6. ThreadInv'
  <2>1. \A t \in Thread : pc'[t] \notin {"step", "invalidate"}
    BY Zenon, UnlockedThreads DEF ProcessNewBlock, Unlocked, IInv, TypeOK
  <2> QED
    BY Zenon, <2>1 DEF ThreadInv
<1>7. ActiveChainConnectable'
  BY Zenon, <1>4 DEF ProcessNewBlock, IInv, ActiveChainConnectable
<1>8. DiskInv' /\ DiskRecoverable'
  BY Zenon, <1>4 DEF ProcessNewBlock, ReceivedBlockTransactions, Unlocked, IInv, DiskInv,
              DiskRecoverable, LinkInv
<1> QED
  BY Zenon, <1>3, <1>5, <1>6, <1>7, <1>8 DEF IInv

\* FindMostWorkChain marks blocks and chooses a linked candidate.
LEMMA FindMostWorkChainStep ==
    ASSUME IInv, NEW t \in Thread, FindMostWorkChain(t)
    PROVE  IInv'
<1>1. TypeOK'
  BY ConstantTypes DEF FindMostWorkChain, IInv, TypeOK
<1>2. LinkInv' /\ DiskInv' /\ DiskRecoverable' /\ ActiveChainConnectable'
  BY Zenon DEF FindMostWorkChain, IInv, LinkInv, DiskInv, DiskRecoverable, ActiveChainConnectable
<1>3. ThreadInv'
  <2>1. \A u \in Thread : pc[u] \notin {"step", "invalidate"}
    BY Zenon, ValidityAssumption DEF FindMostWorkChain, IInv, ThreadInv, TypeOK
  <2>2. CASE pc' = [pc EXCEPT ![t] = "step"]
    <3>1. PICK m \in setBlockIndexCandidates :
            /\ WalkAsserts(m) /\ PathTo(m) \cap Failed = {}
            /\ csMain' = t
            /\ mostWork' = [mostWork EXCEPT ![t] = m]
            /\ UNCHANGED setBlockIndexCandidates
      BY Zenon, <2>2, <2>1 DEF FindMostWorkChain, IInv, TypeOK
    <3>2. PathTo(m) \subseteq nChainTx
      BY Zenon, <3>1 DEF WalkAsserts, Walked
    <3>3. Ancestors[m] \subseteq nChainTx
      BY Zenon, <3>2 DEF PathTo, IInv, ActiveChainConnectable
    <3>4. nChainTx' = nChainTx
      BY Zenon DEF FindMostWorkChain
    <3> QED
      BY Zenon, <2>1, <2>2, <3>1, <3>3, <3>4 DEF ThreadInv, IInv, TypeOK
  <2>3. CASE pc' # [pc EXCEPT ![t] = "step"]
    <3>1. \A u \in Thread : pc'[u] \notin {"step", "invalidate"}
      BY Zenon, <2>1, <2>3 DEF FindMostWorkChain, IInv, TypeOK
    <3> QED
      BY Zenon, <3>1 DEF ThreadInv
  <2> QED
    BY Zenon, <2>2, <2>3
<1> QED
  BY Zenon, <1>1, <1>2, <1>3 DEF IInv

\* The parent of a block of the active chain keeps what the tip had.
LEMMA DisconnectTipStep ==
    ASSUME IInv, tip # Genesis, tip' = Parent[tip],
           UNCHANGED <<haveUndo, nChainTx>>
    PROVE  ActiveChainConnectable' /\ tip' \in Block
<1>1. tip \in Block /\ Ancestors[tip] = {tip} \cup Ancestors[Parent[tip]]
  BY Zenon, TreeAssumption DEF IInv, TypeOK
<1> QED
  BY Zenon, <1>1, ConstantTypes DEF IInv, ActiveChainConnectable

\* The tip that ActivateBestChainStep disconnects is not Genesis.
LEMMA DisconnectStepStep ==
    ASSUME IInv, NEW t \in Thread, DisconnectStep(t)
    PROVE  IInv'
<1> USE DEF DisconnectStep, DisconnectTip, index, threads
<1>1. tip # Genesis
  BY TreeAssumption DEF IInv, TypeOK
<1>2. ActiveChainConnectable' /\ tip' \in Block
  BY Zenon, <1>1, DisconnectTipStep
<1>3. TypeOK'
  BY Zenon, <1>2 DEF IInv, TypeOK
<1>4. LinkInv' /\ ThreadInv' /\ DiskInv' /\ DiskRecoverable'
  BY Zenon DEF IInv, LinkInv, ThreadInv, DiskInv, DiskRecoverable
<1> QED
  BY Zenon, <1>2, <1>3, <1>4 DEF IInv

\* ConnectTip moves to a linked child of the tip and stores its undo data.
LEMMA ConnectStepStep ==
    ASSUME IInv, NEW t \in Thread, ConnectStep(t)
    PROVE  IInv'
<1> DEFINE b == NextToConnect(t)
<1> USE DEF ConnectStep, PruneBlockIndexCandidates, StepReturns
<1>1. /\ b \in Block \ {Genesis} /\ b \in nChainTx
      /\ Ancestors[b] = {b} \cup Ancestors[tip]
      /\ ~WorkLess(mostWork[t], b)
  BY Zenon, NextToConnectFacts
<1> HIDE DEF b
<1>2. /\ tip' = b /\ b \notin Unconnectable
      /\ haveUndo' = haveUndo \cup {b}
      /\ setDirtyBlockIndex' = setDirtyBlockIndex \cup {b}
      /\ setBlockIndexCandidates' = {c \in setBlockIndexCandidates : ~WorkLess(c, b)}
  BY Zenon DEF b
<1>3. TypeOK'
  BY <1>1, <1>2 DEF IInv, TypeOK
<1>4. LinkInv'
  BY Zenon DEF IInv, LinkInv
<1>5. ThreadInv'
  <2>1. \A u \in Thread \ {t} : pc[u] \notin {"step", "invalidate"} /\ pc'[u] = pc[u]
    BY Zenon DEF IInv, ThreadInv, TypeOK
  <2>2. pc'[t] \in {"step", "check"} /\ (pc'[t] = "step" => csMain' = t)
    BY Zenon DEF IInv, TypeOK
  <2>3. mostWork[t] \in setBlockIndexCandidates'
    BY Zenon, <1>1, <1>2 DEF IInv, ThreadInv
  <2> QED
    BY Zenon, <2>1, <2>2, <2>3 DEF IInv, ThreadInv
<1>6. ActiveChainConnectable'
  BY <1>1, <1>2 DEF IInv, ActiveChainConnectable
<1>7. DiskInv' /\ DiskRecoverable'
  BY Zenon, <1>2 DEF IInv, DiskInv, DiskRecoverable
<1> QED
  BY Zenon, <1>3, <1>4, <1>5, <1>6, <1>7 DEF IInv

\* InvalidChainFound and InvalidBlockFound only mark blocks.
LEMMA ConnectFailsStep ==
    ASSUME IInv, NEW t \in Thread, ConnectFails(t)
    PROVE  IInv'
<1> USE DEF ConnectFails, StepReturns
<1>1. NextToConnect(t) \in Block
  BY Zenon, NextToConnectFacts
<1>2. TypeOK'
  BY Zenon, <1>1 DEF IInv, TypeOK
<1>3. ThreadInv'
  <2>1. \A u \in Thread : pc'[u] \notin {"step", "invalidate"}
    BY Zenon DEF IInv, ThreadInv, TypeOK
  <2> QED
    BY Zenon, <2>1 DEF ThreadInv
<1>4. LinkInv' /\ ActiveChainConnectable' /\ DiskInv' /\ DiskRecoverable'
  BY Zenon DEF IInv, LinkInv, ActiveChainConnectable, DiskInv, DiskRecoverable
<1> QED
  BY Zenon, <1>2, <1>3, <1>4 DEF IInv

\* The end of a round of ActivateBestChain changes the thread alone.
LEMMA CheckTipStep ==
    ASSUME IInv, NEW t \in Thread, CheckTip(t)
    PROVE  IInv'
<1> USE DEF CheckTip, index, chain
<1>1. TypeOK' /\ LinkInv' /\ ActiveChainConnectable' /\ DiskInv' /\ DiskRecoverable'
  BY Zenon DEF IInv, TypeOK, LinkInv, ActiveChainConnectable, DiskInv, DiskRecoverable
<1>2. pc'[t] \in {"idle", "activate"} /\ \A u \in Thread \ {t} : pc'[u] = pc[u]
  BY Zenon DEF IInv, TypeOK
<1>3. ThreadInv'
  BY Zenon, <1>2 DEF IInv, ThreadInv
<1> QED
  BY Zenon, <1>1, <1>3 DEF IInv

\* InvalidateBlock marks a block other than Genesis and takes cs_main.
LEMMA InvalidateBlockStep ==
    ASSUME IInv, NEW t \in Thread, NEW b \in Block, InvalidateBlock(t, b)
    PROVE  IInv'
<1> USE DEF InvalidateBlock, Unlocked
<1>1. TypeOK'
  BY ConstantTypes DEF IInv, TypeOK
<1>2. LinkInv' /\ ActiveChainConnectable' /\ DiskInv' /\ DiskRecoverable'
  BY Zenon DEF IInv, LinkInv, ActiveChainConnectable, DiskInv, DiskRecoverable
<1>3. \A u \in Thread \ {t} : pc'[u] \notin {"step", "invalidate"}
  BY Zenon, UnlockedThreads DEF IInv, TypeOK
<1>4. pc'[t] = "invalidate" /\ csMain' = t /\ mostWork'[t] # Genesis
  BY Zenon DEF IInv, TypeOK
<1>5. ThreadInv'
  BY Zenon, <1>3, <1>4 DEF ThreadInv
<1> QED
  BY Zenon, <1>1, <1>2, <1>5 DEF IInv

\* It disconnects the chain down to the block it marked.
LEMMA InvalidateDisconnectStep ==
    ASSUME IInv, NEW t \in Thread, InvalidateDisconnect(t)
    PROVE  IInv'
<1> USE DEF InvalidateDisconnect, DisconnectTip, threads
<1>1. tip # Genesis
  BY TreeAssumption DEF InActiveChain, IInv, TypeOK, ThreadInv
<1>2. ActiveChainConnectable' /\ tip' \in Block
  BY Zenon, <1>1, DisconnectTipStep
<1>3. TypeOK'
  BY Zenon, <1>2 DEF IInv, TypeOK
<1>4. LinkInv' /\ DiskInv' /\ DiskRecoverable'
  BY Zenon DEF IInv, LinkInv, DiskInv, DiskRecoverable
<1>5. ThreadInv'
  BY Zenon DEF IInv, ThreadInv
<1> QED
  BY Zenon, <1>2, <1>3, <1>4, <1>5 DEF IInv

\* Its end makes candidates of linked blocks.
LEMMA InvalidateFinishStep ==
    ASSUME IInv, NEW t \in Thread, InvalidateFinish(t)
    PROVE  IInv'
<1> USE DEF InvalidateFinish, index
<1>1. TypeOK'
  BY DEF IInv, TypeOK
<1>2. LinkInv' /\ ActiveChainConnectable' /\ DiskInv' /\ DiskRecoverable'
  BY Zenon DEF IInv, LinkInv, ActiveChainConnectable, DiskInv, DiskRecoverable
<1>3. \A u \in Thread : pc'[u] \notin {"step", "invalidate"}
  BY Zenon DEF IInv, ThreadInv, TypeOK
<1>4. ThreadInv'
  BY Zenon, <1>3 DEF ThreadInv
<1> QED
  BY Zenon, <1>1, <1>2, <1>4 DEF IInv

\* ReconsiderBlock takes marks away and makes candidates of linked blocks.
LEMMA ReconsiderBlockStep ==
    ASSUME IInv, NEW t \in Thread, NEW b \in Block, ReconsiderBlock(t, b)
    PROVE  IInv'
<1> USE DEF ReconsiderBlock, Unlocked
<1>1. Ancestors[b] \subseteq Block
  BY Zenon, ConstantTypes
<1>2. TypeOK'
  BY <1>1, ConstantTypes DEF IInv, TypeOK
<1>3. LinkInv' /\ ActiveChainConnectable' /\ DiskInv' /\ DiskRecoverable'
  BY Zenon DEF IInv, LinkInv, ActiveChainConnectable, DiskInv, DiskRecoverable
<1>4. \A u \in Thread : pc'[u] \notin {"step", "invalidate"}
  BY Zenon, UnlockedThreads DEF IInv, TypeOK
<1>5. ThreadInv'
  BY Zenon, <1>4 DEF ThreadInv
<1> QED
  BY Zenon, <1>2, <1>3, <1>5 DEF IInv

\* FlushStateToDisk writes the dirty entries first.
LEMMA FlushBlockIndexStep ==
    ASSUME IInv, FlushBlockIndex
    PROVE  IInv'
<1> USE DEF FlushBlockIndex, index, chain, threads
<1>1. /\ disk'.index = Written(disk.index, mapBlockIndex)
      /\ disk'.data = Written(disk.data, haveData)
      /\ disk'.undo = Written(disk.undo, haveUndo)
      /\ disk'.failedValid = Written(disk.failedValid, failedValid)
      /\ disk'.failedChild = Written(disk.failedChild, failedChild)
      /\ disk'.best = disk.best
      /\ disk' \in [index : SUBSET Block, data : SUBSET Block, undo : SUBSET Block,
                    failedValid : SUBSET Block, failedChild : SUBSET Block, best : Block]
  BY Zenon DEF IInv, TypeOK, Written
<1>2. TypeOK'
  BY Zenon, <1>1 DEF IInv, TypeOK
<1>3. LinkInv' /\ ThreadInv' /\ ActiveChainConnectable'
  BY Zenon DEF IInv, LinkInv, ThreadInv, ActiveChainConnectable
<1>4. /\ disk'.index = mapBlockIndex /\ disk'.data = haveData /\ disk'.undo = haveUndo
  BY <1>1 DEF IInv, DiskInv, Written
<1>5. DiskInv'
  BY Zenon, <1>4 DEF IInv, DiskInv, LinkInv
<1>6. DiskRecoverable'
  BY <1>1, <1>4 DEF IInv, DiskInv, DiskRecoverable
<1> QED
  BY Zenon, <1>2, <1>3, <1>5, <1>6 DEF IInv

\* FlushStateToDisk writes the coins of the tip after the index.
LEMMA FlushCoinsStep ==
    ASSUME IInv, FlushCoins
    PROVE  IInv'
<1> USE DEF FlushCoins, index, chain, threads
<1>1. /\ disk'.index = disk.index /\ disk'.data = disk.data /\ disk'.undo = disk.undo
      /\ disk'.best = tip
  BY Zenon DEF IInv, TypeOK
<1>2. TypeOK'
  BY Zenon DEF IInv, TypeOK
<1>3. LinkInv' /\ ThreadInv' /\ ActiveChainConnectable'
  BY Zenon DEF IInv, LinkInv, ThreadInv, ActiveChainConnectable
<1>4. DiskInv'
  BY Zenon, <1>1 DEF IInv, DiskInv
<1>5. DiskRecoverable'
  BY Zenon, <1>1 DEF IInv, DiskInv, DiskRecoverable, ActiveChainConnectable, LinkInv
<1> QED
  BY Zenon, <1>2, <1>3, <1>4, <1>5 DEF IInv

\* LoadBlockIndexDB rebuilds from the disk what the invariant says of the memory.
LEMMA RestartStep ==
    ASSUME IInv, Restart
    PROVE  IInv'
<1>1. /\ mapBlockIndex' = disk.index /\ haveData' = disk.data /\ haveUndo' = disk.undo
      /\ nChainTx' = LoadedChainTx /\ mapBlocksUnlinked' = disk.data \ LoadedChainTx
      /\ tip' = disk.best /\ disk' = disk
      /\ setDirtyBlockIndex' = {}
  BY Zenon DEF Restart
<1>2. nSequenceId' \in [Block -> Nat]
  <2>1. PICK order \in AddressOrders : nSequenceId' = LoadedSequenceId(order)
    BY Zenon DEF Restart
  <2>2. ASSUME NEW b \in Block
        PROVE  Cardinality({c \in disk.data : /\ b \in disk.data
                                              /\ ChainWork[c] = ChainWork[b]
                                              /\ order[c] <= order[b]}) \in Nat
    <3>1. {c \in disk.data : /\ b \in disk.data
                             /\ ChainWork[c] = ChainWork[b]
                             /\ order[c] <= order[b]} \in SUBSET Block
      BY Zenon DEF IInv, TypeOK
    <3> QED
      BY Zenon, <3>1, BlockCount
  <2> QED
    BY Zenon, <2>1, <2>2 DEF LoadedSequenceId
<1>3. pc' \in [Thread -> {"idle", "activate", "aborted"}]
  BY Zenon DEF Restart
<1>4. TypeOK'
  <2>1. LoadedChainTx \subseteq Block /\ LoadedValid \subseteq Block
    BY Zenon DEF LoadedChainTx, LoadedValid, IInv, TypeOK
  <2>2. calls' \in [invalidate : 0..MaxInvalidate, reconsider : 0..MaxReconsider,
                    crash : 0..MaxCrash]
    BY ConstantTypes DEF Restart, IInv, TypeOK
  <2>3. setBlockIndexCandidates' \subseteq Block /\ mapBlocksUnlinked' \subseteq Block
    BY Zenon, <1>1, <2>1 DEF Restart, IInv, TypeOK
  <2>4. mostWork' \in [Thread -> Block] /\ oldTip' \in [Thread -> Block]
    BY Zenon, ConstantTypes DEF Restart
  <2>5. pc' \in [Thread -> {"idle", "activate", "step", "check", "invalidate", "aborted"}]
    BY Zenon, <1>3
  <2>6. /\ failedValid' = disk.failedValid /\ failedChild' = disk.failedChild
        /\ csMain' = NoThread /\ starting' = TRUE /\ flushing' = FALSE
    BY Zenon DEF Restart
  <2> QED
    BY Zenon, <1>1, <1>2, <2>1, <2>2, <2>3, <2>4, <2>5, <2>6 DEF IInv, TypeOK
<1>5. LinkInv'
  <2>1. Genesis \in LoadedChainTx
    BY Zenon, TreeAssumption DEF LoadedChainTx, IInv, DiskInv
  <2>2. ASSUME NEW b \in LoadedChainTx \ {Genesis} PROVE Parent[b] \in LoadedChainTx
    <3>1. b \in Block /\ Ancestors[b] \subseteq disk.data
      BY Zenon DEF LoadedChainTx, IInv, TypeOK
    <3>2. Parent[b] \in Ancestors[b]
      BY Zenon, <3>1, TreeAssumption
    <3> QED
      BY Zenon, <3>1, <3>2, AncestorsTransitive DEF LoadedChainTx
  <2> QED
    BY Zenon, <1>1, <2>1, <2>2 DEF LinkInv, LoadedChainTx, IInv, DiskInv
<1>6. ThreadInv'
  <2>1. \A u \in Thread : pc'[u] \notin {"step", "invalidate"}
    BY Zenon, <1>3
  <2> QED
    BY Zenon, <2>1 DEF ThreadInv
<1>7. ActiveChainConnectable'
  <2>1. ASSUME NEW b \in Ancestors[disk.best] PROVE b \in LoadedChainTx
    <3>1. Ancestors[b] \subseteq Ancestors[disk.best]
      BY Zenon, AncestorsTransitive DEF IInv, TypeOK
    <3> QED
      BY Zenon, <3>1 DEF LoadedChainTx, IInv, DiskRecoverable
  <2> QED
    BY Zenon, <1>1, <2>1 DEF ActiveChainConnectable, IInv, DiskRecoverable
<1>8. DiskInv' /\ DiskRecoverable'
  BY Zenon, <1>1 DEF Restart, IInv, DiskInv, DiskRecoverable
<1> QED
  BY Zenon, <1>4, <1>5, <1>6, <1>7, <1>8 DEF IInv

-----------------------------------------------------------------------------
(* The theorems *)

\* Every step of the node preserves the invariant.
THEOREM NextIInv == IInv /\ [Next]_vars => IInv'
<1> SUFFICES ASSUME IInv, [Next]_vars PROVE IInv'
  OBVIOUS
<1>1. ASSUME NEW b \in Block, AcceptBlockHeader(b) PROVE IInv'
  BY Zenon, <1>1, AcceptBlockHeaderStep
<1>2. ASSUME NEW t \in Thread, NEW b \in Block, ProcessNewBlock(t, b) PROVE IInv'
  BY Zenon, <1>2, ProcessNewBlockStep
<1>3. ASSUME NEW t \in Thread, Activate(t) PROVE IInv'
  BY Zenon, <1>3, FindMostWorkChainStep, DisconnectStepStep, ConnectStepStep, ConnectFailsStep,
     CheckTipStep, InvalidateDisconnectStep, InvalidateFinishStep
     DEF Activate
<1>4. ASSUME NEW t \in Thread, NEW b \in Block, InvalidateBlock(t, b) PROVE IInv'
  BY Zenon, <1>4, InvalidateBlockStep
<1>5. ASSUME NEW t \in Thread, NEW b \in Block, ReconsiderBlock(t, b) PROVE IInv'
  BY Zenon, <1>5, ReconsiderBlockStep
<1>6. CASE FlushBlockIndex
  BY Zenon, <1>6, FlushBlockIndexStep
<1>7. CASE FlushCoins
  BY Zenon, <1>7, FlushCoinsStep
<1>8. CASE Restart
  BY Zenon, <1>8, RestartStep
<1>9. CASE UNCHANGED vars
  <2> USE <1>9 DEF vars, index, chain, threads
  <2>1. TypeOK' /\ LinkInv' /\ ThreadInv'
    BY Zenon DEF IInv, TypeOK, LinkInv, ThreadInv
  <2>2. ActiveChainConnectable' /\ DiskInv' /\ DiskRecoverable'
    BY Zenon DEF IInv, ActiveChainConnectable, DiskInv, DiskRecoverable
  <2> QED
    BY Zenon, <2>1, <2>2 DEF IInv
<1> QED
  BY Zenon, <1>1, <1>2, <1>3, <1>4, <1>5, <1>6, <1>7, <1>8, <1>9 DEF Next

\* The invariant holds in every reachable state.
THEOREM Invariance == Spec => []IInv
BY InitIInv, NextIInv, PTL DEF Spec

\* Every variable keeps its type through every handler, crash and restart.
THEOREM TypeCorrect == Spec => []TypeOK
<1>1. IInv => TypeOK
  BY Zenon DEF IInv
<1> QED
  BY <1>1, Invariance, PTL

\* nChainTx is non-zero only where the whole chain below is stored.
THEOREM ChainTxCompleteCorrect == Spec => []ChainTxComplete
<1>1. IInv => ChainTxComplete
  BY Zenon, LinkedAncestors DEF IInv, ChainTxComplete, LinkInv
<1> QED
  BY <1>1, Invariance, PTL

\* Every block of chainActive was accepted by ConnectBlock and can be
\* disconnected again.
THEOREM ActiveChainCorrect == Spec => []ActiveChainConnectable
<1>1. IInv => ActiveChainConnectable
  BY Zenon DEF IInv
<1> QED
  BY <1>1, Invariance, PTL

\* The coins database never points at a chain that the block index database
\* cannot supply, whenever the process dies.
THEOREM DiskCorrect == Spec => []DiskRecoverable
<1>1. IInv => DiskRecoverable
  BY Zenon DEF IInv
<1> QED
  BY <1>1, Invariance, PTL

\* The assert of PruneBlockIndexCandidates after ConnectTip cannot fail, even
\* with invalidated and reconsidered blocks among the candidates.
THEOREM PruneAssertCorrect == Spec => []PruneAssert
<1>1. IInv => PruneAssert
  <2> SUFFICES ASSUME IInv, NEW t \in Thread, pc[t] = "step",
                      tip \in Ancestors[mostWork[t]] \ {mostWork[t]}
               PROVE  \E c \in setBlockIndexCandidates : ~WorkLess(c, NextToConnect(t))
    BY Zenon DEF PruneAssert
  <2>1. mostWork[t] \in setBlockIndexCandidates
    BY Zenon DEF IInv, ThreadInv
  <2>2. ~WorkLess(mostWork[t], NextToConnect(t))
    BY Zenon, NextToConnectFacts
  <2> QED
    BY Zenon, <2>1, <2>2
<1> QED
  BY <1>1, Invariance, PTL

\* What QuietInv says holds always.
THEOREM QuietInvariance == Spec => []QuietInv
BY InitQuiet, NextQuiet, Invariance, PTL DEF Spec

\* No failed block is active, and without the operator's interventions
\* ActivateBestChain leaves the best stored chain active whenever no thread is
\* inside it: in any order of arrival, with any number of threads that race for
\* cs_main, failed reorganisations and crashes.
THEOREM TipIsBestCorrect == Spec => []TipIsBest
<1>1. ASSUME IInv, QuietInv PROVE TipIsBest
  <2>1. calls.crash = 0 => NoFailedActive
    BY Zenon, <1>1 DEF QuietInv, ActiveInv
  <2>2. calls.invalidate = 0 => NoFailedActive
    BY Zenon, <1>1, MarksInactive DEF QuietInv, NoFailedActive
  <2>3. calls.invalidate = 0 => IdleTipIsBest /\ ChainTxLinked
    BY Zenon, <1>1 DEF QuietInv, MarkInv, BestInv, Settled, Working, IdleTipIsBest
  <2> QED
    BY Zenon, <2>1, <2>2, <2>3 DEF TipIsBest
<1> QED
  BY <1>1, Invariance, QuietInvariance, PTL

\* The assert of PruneBlockIndexCandidates in LoadBlockIndexDB cannot fail: unless
\* the operator invalidated a block, a node finds a candidate when it restarts,
\* wherever between two writes the process died.
THEOREM RestartCorrect == Spec /\ [](calls.invalidate = 0) => RestartFindsCandidate
<1>1. ASSUME IInv, IInv', QuietInv, calls.invalidate = 0, [Next]_vars
      PROVE  [calls'.crash # calls.crash => setBlockIndexCandidates' # {}]_vars
  BY Zenon, <1>1, CallsCounted, RestartBest DEF QuietInv
<1> QED
  BY <1>1, Invariance, QuietInvariance, PTL DEF Spec, RestartFindsCandidate
=============================================================================
