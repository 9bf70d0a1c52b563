----------------------------- MODULE TipProofs ------------------------------
(***************************************************************************)
(* Lemmas about ChainState, for every block tree, every set of threads and *)
(* any number of calls: the invariant IInv, and what a step that starts    *)
(* and ends in it preserves.  While no operator invalidates a block, no    *)
(* failed block is active, and whenever no thread works no valid chain of  *)
(* stored blocks is better than the active one.                            *)
(***************************************************************************)
EXTENDS ChainState, TLAPS

\* The types of the constants.
LEMMA ConstantTypes ==
    /\ Genesis \in Block
    /\ Parent \in [Block -> Block]
    /\ Ancestors \in [Block -> SUBSET Block]
    /\ ChainWork \in [Block -> Nat]
    /\ MaxInvalidate \in Nat /\ MaxReconsider \in Nat /\ MaxCrash \in Nat
BY Zenon, TreeAssumption, ValidityAssumption

\* Ancestors[b] lies in every set closed under Parent that holds b.
LEMMA AncestorsLeast ==
    ASSUME NEW b \in Block, NEW S \in SUBSET Block, b \in S,
           \A c \in S \ {Genesis} : Parent[c] \in S
    PROVE  Ancestors[b] \subseteq S
BY Zenon, TreeAssumption

\* An ancestor of an ancestor is an ancestor.
LEMMA AncestorsTransitive ==
    ASSUME NEW b \in Block, NEW c \in Ancestors[b]
    PROVE  c \in Block /\ Ancestors[c] \subseteq Ancestors[b]
<1>1. Ancestors[b] \in SUBSET Block
  BY Zenon, TreeAssumption
<1>2. \A d \in Ancestors[b] \ {Genesis} : Parent[d] \in Ancestors[b]
  BY Zenon, TreeAssumption
<1> QED
  BY Zenon, <1>1, <1>2, AncestorsLeast

\* The work of a proper ancestor is smaller.
LEMMA AncestorsWork ==
    ASSUME NEW b \in Block, NEW c \in Ancestors[b], c # b
    PROVE  ChainWork[c] < ChainWork[b]
<1> DEFINE S == {d \in Block : d = b \/ ChainWork[d] < ChainWork[b]}
<1>1. S \in SUBSET Block /\ b \in S
  OBVIOUS
<1>2. \A d \in S \ {Genesis} : Parent[d] \in S
  BY TreeAssumption
<1>3. Ancestors[b] \subseteq S
  <2> HIDE DEF S
  <2> QED  BY Zenon, <1>1, <1>2, AncestorsLeast
<1> QED
  BY Zenon, <1>3

\* Below a block that is not an ancestor's end there is a next block towards it.
LEMMA NextExists ==
    ASSUME NEW m \in Block, NEW a \in Ancestors[m], a # m
    PROVE  \E b \in Ancestors[m] \ {Genesis} : Parent[b] = a
<1> SUFFICES ASSUME \A b \in Ancestors[m] \ {Genesis} : Parent[b] # a
             PROVE  FALSE
  OBVIOUS
<1> DEFINE S == Ancestors[m] \ {a}
<1>1. S \in SUBSET Block /\ m \in S
  BY Zenon, TreeAssumption
<1>2. \A c \in S \ {Genesis} : Parent[c] \in S
  BY Zenon, TreeAssumption
<1>3. Ancestors[m] \subseteq S
  <2> HIDE DEF S
  <2> QED  BY Zenon, <1>1, <1>2, AncestorsLeast
<1> QED
  BY Zenon, <1>3

-----------------------------------------------------------------------------
(* The inductive invariant *)

\* Linked blocks are stored and form a tree of their own; waiting blocks are
\* stored.
LinkInv ==
    /\ haveData \subseteq mapBlockIndex
    /\ nChainTx \subseteq haveData
    /\ mapBlocksUnlinked \subseteq haveData
    /\ Genesis \in nChainTx
    /\ \A b \in nChainTx \ {Genesis} : Parent[b] \in nChainTx

\* Only the holder of cs_main is inside a step or an invalidation; a step works
\* towards a linked candidate, and Genesis is never invalidated.
ThreadInv ==
    \A t \in Thread :
        /\ pc[t] \in {"step", "invalidate"} => csMain = t
        /\ pc[t] = "step" => /\ mostWork[t] \in setBlockIndexCandidates
                             /\ Ancestors[mostWork[t]] \subseteq nChainTx
        /\ pc[t] = "invalidate" => mostWork[t] # Genesis

\* The disk lags behind the memory by the dirty entries only, and lags by
\* nothing between the two writes of a flush.
DiskInv ==
    /\ disk.index \subseteq mapBlockIndex
    /\ disk.data \subseteq haveData
    /\ disk.undo \subseteq haveUndo
    /\ mapBlockIndex \subseteq disk.index \cup setDirtyBlockIndex
    /\ haveData \subseteq disk.data \cup setDirtyBlockIndex
    /\ haveUndo \subseteq disk.undo \cup setDirtyBlockIndex
    /\ disk.data \subseteq disk.index
    /\ Genesis \in disk.data
    /\ flushing => setDirtyBlockIndex = {}

IInv == TypeOK /\ LinkInv /\ ThreadInv /\ ActiveChainConnectable /\ DiskInv /\ DiskRecoverable

\* Linked blocks are linked down to Genesis.
LEMMA LinkedAncestors ==
    ASSUME LinkInv, TypeOK, NEW b \in nChainTx
    PROVE  Ancestors[b] \subseteq nChainTx
BY Zenon, AncestorsLeast DEF LinkInv, TypeOK

\* An action that takes cs_main finds no thread inside a step.
LEMMA UnlockedThreads ==
    ASSUME IInv, csMain = NoThread, NEW t \in Thread
    PROVE  pc[t] \notin {"step", "invalidate"}
BY Zenon, ValidityAssumption DEF IInv, ThreadInv

\* The block that ConnectTip connects.
LEMMA NextToConnectFacts ==
    ASSUME IInv, NEW t \in Thread, pc[t] = "step",
           tip \in Ancestors[mostWork[t]] \ {mostWork[t]}
    PROVE  LET b == NextToConnect(t) IN
           /\ b \in Block \ {Genesis} /\ b \in nChainTx
           /\ Ancestors[b] = {b} \cup Ancestors[tip]
           /\ ~WorkLess(mostWork[t], b)
<1> DEFINE m == mostWork[t]
           b == NextToConnect(t)
<1>1. m \in Block /\ Ancestors[m] \subseteq nChainTx
  BY Zenon DEF IInv, TypeOK, ThreadInv
<1>2. b \in Ancestors[m] \ {Genesis} /\ Parent[b] = tip
  BY Zenon, <1>1, NextExists DEF NextToConnect
<1>3. b \in Block
  BY Zenon, <1>1, <1>2, AncestorsTransitive
<1>4. Ancestors[b] = {b} \cup Ancestors[tip]
  BY Zenon, <1>2, <1>3, TreeAssumption
<1>5. ~WorkLess(m, b)
  <2>1. ChainWork[b] \in Nat /\ ChainWork[m] \in Nat
    BY Zenon, <1>1, <1>3, ConstantTypes
  <2>2. nSequenceId[b] \in Nat /\ nSequenceId[m] \in Nat
    BY Zenon, <1>1, <1>3 DEF IInv, TypeOK
  <2>3. b = m \/ ChainWork[b] < ChainWork[m]
    BY Zenon, <1>1, <1>2, AncestorsWork
  <2> HIDE DEF b, m
  <2> QED
    BY <2>1, <2>2, <2>3 DEF WorkLess
<1> QED
  BY Zenon, <1>1, <1>2, <1>3, <1>4, <1>5

-----------------------------------------------------------------------------
(* No failed block is active.                                               *)

\* Two ancestors of a block are on one chain.
LEMMA AncestorsLinear ==
    ASSUME NEW c \in Block, NEW a \in Ancestors[c], NEW d \in Ancestors[c]
    PROVE  a \in Ancestors[d] \/ d \in Ancestors[a]
<1> DEFINE S == {x \in Ancestors[c] : \A y \in Ancestors[c] :
                    y \in Ancestors[x] \/ x \in Ancestors[y]}
<1>1. Ancestors[c] \in SUBSET Block /\ c \in Ancestors[c]
  BY Zenon, TreeAssumption
<1>2. S \in SUBSET Block /\ c \in S
  BY Zenon, <1>1
<1>3. ASSUME NEW x \in S \ {Genesis} PROVE Parent[x] \in S
  <2>1. x \in Block \ {Genesis} /\ x \in Ancestors[c]
    BY Zenon, <1>1
  <2>2. Ancestors[x] = {x} \cup Ancestors[Parent[x]] /\ Parent[x] \in Ancestors[c]
    BY Zenon, <2>1, TreeAssumption
  <2>3. ASSUME NEW y \in Ancestors[c]
        PROVE  y \in Ancestors[Parent[x]] \/ Parent[x] \in Ancestors[y]
    <3>1. y \in Block
      BY Zenon, <1>1
    <3>2. x \in Ancestors[y] => Parent[x] \in Ancestors[y]
      BY Zenon, <2>1, <3>1, TreeAssumption
    <3>3. Parent[x] \in Ancestors[x]
      BY Zenon, <2>1, TreeAssumption
    <3> QED
      BY Zenon, <2>2, <3>2, <3>3
  <2> QED
    BY Zenon, <2>2, <2>3
<1>4. Ancestors[c] \subseteq S
  <2> HIDE DEF S
  <2> QED  BY Zenon, <1>2, <1>3, AncestorsLeast
<1> QED
  BY Zenon, <1>4

\* While no process has died: a step works towards a chain without failed blocks,
\* the failed blocks that InvalidateBlock finds active descend from the block it
\* was called for, and without it no failed block is active.
ActiveInv ==
    /\ \A t \in Thread : pc[t] = "step" => Ancestors[mostWork[t]] \cap Failed = {}
    /\ \A t \in Thread : pc[t] = "invalidate" =>
         \A x \in Ancestors[tip] \cap Failed : mostWork[t] \in Ancestors[x]
    /\ NoFailedActive

\* A block that is not in the active chain is not below it either.
LEMMA AboveActive ==
    ASSUME IInv, NEW f \in Block \ Ancestors[tip], NEW x \in Ancestors[tip]
    PROVE  f \notin Ancestors[x]
BY Zenon, AncestorsTransitive DEF IInv, TypeOK

\* Neither the threads nor the marks nor the active chain change.
LEMMA ActiveSame ==
    ASSUME ActiveInv, UNCHANGED <<failedValid, failedChild, tip, pc, mostWork>>
    PROVE  ActiveInv'
BY Zenon DEF ActiveInv, NoFailedActive, Failed

\* ProcessNewBlock marks only a block whose data is not stored.
LEMMA ProcessNewBlockActive ==
    ASSUME IInv, ActiveInv, NEW u \in Thread, NEW b \in Block, ProcessNewBlock(u, b)
    PROVE  ActiveInv'
<1>1. \A t \in Thread : pc[t] \notin {"step", "invalidate"}
  BY Zenon, UnlockedThreads DEF ProcessNewBlock, Unlocked
<1>2. \A t \in Thread : pc'[t] \notin {"step", "invalidate"}
  BY Zenon, <1>1 DEF ProcessNewBlock, IInv, TypeOK
<1>3. Failed' = Failed \/ (Failed' = Failed \cup {b} /\ b \notin haveData)
  BY Zenon DEF ProcessNewBlock, ReceivedBlockTransactions, Failed
<1>4. Ancestors[tip] \subseteq haveData /\ tip' = tip
  BY Zenon DEF ProcessNewBlock, IInv, ActiveChainConnectable, LinkInv
<1>5. Ancestors[tip] \cap Failed = {}
  BY Zenon, <1>1 DEF ActiveInv, NoFailedActive
<1> QED
  BY <1>2, <1>3, <1>4, <1>5 DEF ActiveInv, NoFailedActive

\* FindMostWorkChain marks only blocks above the active chain.
LEMMA FindMostWorkChainActive ==
    ASSUME IInv, ActiveInv, NEW t \in Thread, FindMostWorkChain(t)
    PROVE  ActiveInv'
<1>1. \A u \in Thread : pc[u] \notin {"step", "invalidate"}
  BY Zenon, ValidityAssumption DEF FindMostWorkChain, IInv, ThreadInv, TypeOK
<1>2. tip' = tip /\ failedValid' = failedValid /\ Ancestors[tip] \cap Failed = {}
  BY Zenon, <1>1 DEF FindMostWorkChain, ActiveInv, NoFailedActive
<1>3. \A u \in Thread : pc'[u] # "invalidate" /\ (u # t => pc'[u] # "step")
  BY Zenon, <1>1 DEF FindMostWorkChain, IInv, TypeOK
<1>4. CASE failedChild' = failedChild
  <2>1. ASSUME pc'[t] = "step" PROVE Ancestors[mostWork'[t]] \cap Failed = {}
    <3>1. PICK m \in setBlockIndexCandidates :
            PathTo(m) \cap Failed = {} /\ mostWork' = [mostWork EXCEPT ![t] = m]
      BY Zenon, <1>1, <2>1 DEF FindMostWorkChain, IInv, TypeOK
    <3>2. mostWork'[t] = m
      BY Zenon, <3>1 DEF IInv, TypeOK
    <3> QED
      BY Zenon, <1>2, <3>1, <3>2 DEF PathTo
  <2> QED
    BY Zenon, <1>2, <1>3, <1>4, <2>1 DEF ActiveInv, NoFailedActive, Failed
<1>5. CASE failedChild' # failedChild
  <2>0. PICK m \in setBlockIndexCandidates : \E f \in PathTo(m) :
          /\ failedChild' = failedChild \cup (Ancestors[m] \ Ancestors[f])
          /\ UNCHANGED pc
    BY Zenon, <1>5 DEF FindMostWorkChain
  <2>1. PICK f \in PathTo(m) :
          /\ failedChild' = failedChild \cup (Ancestors[m] \ Ancestors[f])
          /\ UNCHANGED pc
    BY Zenon, <2>0
  <2>2. m \in Block /\ f \in Ancestors[m] /\ f \in Block \ Ancestors[tip]
    BY Zenon, AncestorsTransitive DEF PathTo, IInv, TypeOK
  <2>3. ASSUME NEW x \in Ancestors[m] \ Ancestors[f] PROVE x \notin Ancestors[tip]
    BY Zenon, <2>2, AncestorsLinear, AboveActive
  <2>4. Ancestors[tip] \cap Failed' = {}
    BY Zenon, <1>2, <2>1, <2>3 DEF Failed
  <2> QED
    BY Zenon, <1>1, <1>2, <2>1, <2>4 DEF ActiveInv, NoFailedActive
<1> QED
  BY Zenon, <1>4, <1>5

\* ActivateBestChainStep stays on chains without failed blocks.
LEMMA StepActive ==
    ASSUME IInv, ActiveInv, NEW t \in Thread,
           DisconnectStep(t) \/ ConnectStep(t) \/ ConnectFails(t)
    PROVE  ActiveInv'
<1>1. /\ pc[t] = "step" /\ csMain = t /\ mostWork' = mostWork
      /\ Ancestors[mostWork[t]] \cap Failed = {}
  BY Zenon DEF DisconnectStep, ConnectStep, ConnectFails, ActiveInv, threads
<1>2. \A u \in Thread : u # t => pc[u] \notin {"step", "invalidate"} /\ pc'[u] = pc[u]
  BY Zenon, <1>1 DEF IInv, ThreadInv, TypeOK, DisconnectStep, ConnectStep, ConnectFails, StepReturns,
              threads
<1>3. pc'[t] \in {"step", "check"} /\ Ancestors[tip] \cap Failed = {}
  <2>1. pc'[t] \in {"step", "check"}
    BY Zenon, <1>1 DEF IInv, TypeOK, DisconnectStep, ConnectStep, ConnectFails, StepReturns, threads
  <2>2. \A u \in Thread : pc[u] # "invalidate"
    BY Zenon, <1>1, <1>2
  <2> QED
    BY Zenon, <2>1, <2>2 DEF ActiveInv, NoFailedActive
<1>4. tip \in Block /\ mostWork[t] \in Block
  BY Zenon DEF IInv, TypeOK
<1>5. CASE DisconnectStep(t)
  <2>1. tip # Genesis
    BY <1>4, <1>5, TreeAssumption DEF DisconnectStep
  <2>2. Ancestors[tip'] \subseteq Ancestors[tip]
    BY <1>4, <1>5, <2>1, TreeAssumption DEF DisconnectStep, DisconnectTip
  <2>3. Failed' = Failed
    BY Zenon, <1>5 DEF DisconnectStep, index, Failed
  <2> QED
    BY Zenon, <1>1, <1>2, <1>3, <2>2, <2>3 DEF ActiveInv, NoFailedActive
<1>6. CASE ConnectStep(t)
  <2>1. NextToConnect(t) \in Ancestors[mostWork[t]] /\ tip' = NextToConnect(t)
    BY Zenon, <1>4, <1>6, NextExists DEF ConnectStep, NextToConnect
  <2>2. Ancestors[tip'] \subseteq Ancestors[mostWork[t]]
    BY Zenon, <1>4, <2>1, AncestorsTransitive
  <2>3. Failed' = Failed
    BY Zenon, <1>6 DEF ConnectStep, Failed
  <2> QED
    BY Zenon, <1>1, <1>2, <1>3, <2>2, <2>3 DEF ActiveInv, NoFailedActive
<1>7. CASE ConnectFails(t)
  <2> DEFINE b == NextToConnect(t)
  <2>1. b \in Block \ {Genesis} /\ Parent[b] = tip
    <3>1. b \in Ancestors[mostWork[t]] \ {Genesis} /\ Parent[b] = tip
      BY Zenon, <1>4, <1>7, NextExists DEF ConnectFails, NextToConnect
    <3> QED
      BY Zenon, <1>4, <3>1, AncestorsTransitive
  <2>2. b \notin Ancestors[tip]
    <3>1. ChainWork[tip] < ChainWork[b] /\ ChainWork[tip] \in Nat /\ ChainWork[b] \in Nat
      BY Zenon, <1>4, <2>1, TreeAssumption
    <3>2. b # tip /\ ~(ChainWork[b] < ChainWork[tip])
      BY <3>1
    <3> QED
      BY Zenon, <1>4, <2>1, <3>2, AncestorsWork
  <2>3. Failed' = Failed \cup {b} /\ tip' = tip /\ pc'[t] = "check"
    BY Zenon, <1>1, <1>7 DEF ConnectFails, StepReturns, Failed, IInv, TypeOK
  <2> QED
    BY Zenon, <1>1, <1>2, <1>3, <2>2, <2>3 DEF ActiveInv, NoFailedActive
<1> QED
  BY Zenon, <1>5, <1>6, <1>7

\* The loop condition of ActivateBestChain.
LEMMA CheckTipActive ==
    ASSUME IInv, ActiveInv, NEW t \in Thread, CheckTip(t)
    PROVE  ActiveInv'
<1>1. /\ Failed' = Failed /\ tip' = tip /\ mostWork' = mostWork
      /\ \A u \in Thread : pc'[u] = pc[u] \/ (pc[u] = "check" /\ pc'[u] \in {"idle", "activate"})
  BY Zenon DEF CheckTip, Failed, index, chain, IInv, TypeOK
<1> QED
  BY Zenon, <1>1 DEF ActiveInv, NoFailedActive

\* InvalidateBlock marks a block; until it has left the active chain, only blocks
\* above it are failed and active.
LEMMA InvalidateActive ==
    ASSUME IInv, ActiveInv, NEW t \in Thread,
           (\E b \in Block : InvalidateBlock(t, b)) \/ InvalidateDisconnect(t)
             \/ InvalidateFinish(t)
    PROVE  ActiveInv'
<1>0. tip \in Block /\ mostWork \in [Thread -> Block] /\ pc \in [Thread ->
        {"idle", "activate", "step", "check", "invalidate", "aborted"}]
  BY Zenon DEF IInv, TypeOK
<1>1. CASE \E b \in Block : InvalidateBlock(t, b)
  <2>1. PICK b \in Block : InvalidateBlock(t, b)
    BY Zenon, <1>1
  <2>2. \A u \in Thread : pc[u] \notin {"step", "invalidate"}
    BY Zenon, <2>1, UnlockedThreads DEF InvalidateBlock, Unlocked
  <2>3. /\ pc'[t] = "invalidate" /\ mostWork'[t] = b /\ tip' = tip /\ Failed' = Failed \cup {b}
        /\ \A u \in Thread : u # t => pc'[u] = pc[u]
    BY Zenon, <1>0, <2>1 DEF InvalidateBlock, Failed
  <2>4. Ancestors[tip] \cap Failed' \subseteq {b} /\ b \in Ancestors[b]
    BY Zenon, <2>2, <2>3, TreeAssumption DEF ActiveInv, NoFailedActive
  <2> QED
    BY Zenon, <2>2, <2>3, <2>4 DEF ActiveInv, NoFailedActive
<1>2. CASE InvalidateDisconnect(t)
  <2>1. /\ pc[t] = "invalidate" /\ csMain = t /\ UNCHANGED <<pc, mostWork>>
        /\ mostWork[t] # Genesis /\ mostWork[t] \in Ancestors[tip]
    BY Zenon, <1>2 DEF InvalidateDisconnect, threads, IInv, ThreadInv, InActiveChain
  <2>2. \A u \in Thread : pc[u] # "step"
    BY Zenon, <2>1 DEF IInv, ThreadInv
  <2>3. Failed' = Failed \cup {tip} /\ tip' = Parent[tip]
    BY Zenon, <1>2 DEF InvalidateDisconnect, DisconnectTip, Failed
  <2>4. tip # Genesis
    BY Zenon, <2>1, TreeAssumption
  <2>5. Ancestors[tip'] = Ancestors[tip] \ {tip}
    <3>1. Ancestors[tip] = {tip} \cup Ancestors[Parent[tip]] /\ Parent[tip] \in Block
      BY Zenon, <1>0, <2>4, TreeAssumption
    <3>2. tip \notin Ancestors[Parent[tip]]
      <4>1. /\ ChainWork[Parent[tip]] < ChainWork[tip]
            /\ ChainWork[Parent[tip]] \in Nat /\ ChainWork[tip] \in Nat
        BY Zenon, <1>0, <2>4, TreeAssumption
      <4>2. tip # Parent[tip] /\ ~(ChainWork[tip] < ChainWork[Parent[tip]])
        BY <4>1
      <4> QED
        BY Zenon, <3>1, <4>2, AncestorsWork
    <3> QED
      BY Zenon, <2>3, <3>1, <3>2
  <2>6. \A u \in Thread : pc[u] = "invalidate" => u = t
    BY Zenon, <2>1 DEF IInv, ThreadInv
  <2> QED
    BY Zenon, <2>1, <2>2, <2>3, <2>5, <2>6 DEF ActiveInv, NoFailedActive
<1>3. CASE InvalidateFinish(t)
  <2>1. /\ pc[t] = "invalidate" /\ csMain = t /\ mostWork' = mostWork /\ tip' = tip
        /\ mostWork[t] \notin Ancestors[tip] /\ Failed' = Failed
        /\ pc' = [pc EXCEPT ![t] = "activate"]
    BY Zenon, <1>3 DEF InvalidateFinish, index, Failed, InActiveChain
  <2>2. \A u \in Thread : u # t => pc[u] \notin {"step", "invalidate"}
    BY Zenon, <2>1 DEF IInv, ThreadInv
  <2>3. \A u \in Thread : pc'[u] \notin {"step", "invalidate"}
    BY Zenon, <1>0, <2>1, <2>2
  <2>4. ASSUME NEW x \in Ancestors[tip] \cap Failed PROVE FALSE
    <3>1. mostWork[t] \in Ancestors[x]
      BY Zenon, <2>1 DEF ActiveInv
    <3>2. mostWork[t] \in Block \ Ancestors[tip]
      BY Zenon, <1>0, <2>1
    <3> QED
      BY Zenon, <3>1, <3>2, AboveActive
  <2> QED
    BY Zenon, <2>1, <2>3, <2>4 DEF ActiveInv, NoFailedActive
<1> QED
  BY Zenon, <1>1, <1>2, <1>3

\* ReconsiderBlock only takes marks away.
LEMMA ReconsiderActive ==
    ASSUME IInv, ActiveInv, NEW t \in Thread, NEW b \in Block, ReconsiderBlock(t, b)
    PROVE  ActiveInv'
<1>1. \A u \in Thread : pc[u] \notin {"step", "invalidate"}
  BY Zenon, UnlockedThreads DEF ReconsiderBlock, Unlocked
<1>2. \A u \in Thread : pc'[u] \notin {"step", "invalidate"}
  BY Zenon, <1>1 DEF ReconsiderBlock, IInv, TypeOK
<1>3. Failed' \subseteq Failed /\ tip' = tip
  BY Zenon DEF ReconsiderBlock, Failed
<1> QED
  BY Zenon, <1>1, <1>2, <1>3 DEF ActiveInv, NoFailedActive

\* Every step of a process that has not died.
LEMMA NextActive ==
    ASSUME IInv, ActiveInv, [Next]_vars, calls'.crash = 0
    PROVE  ActiveInv'
<1>1. ~Restart
  <2>1. calls.crash \in Nat /\ calls \in [invalidate : 0..MaxInvalidate,
                                          reconsider : 0..MaxReconsider, crash : 0..MaxCrash]
    BY ConstantTypes DEF IInv, TypeOK
  <2>2. Restart => calls'.crash = calls.crash + 1
    BY Zenon, <2>1 DEF Restart
  <2> QED
    BY <2>1, <2>2
<1>2. CASE \E b \in Block : AcceptBlockHeader(b)
  BY Zenon, <1>2, ActiveSame DEF AcceptBlockHeader, chain, threads
<1>3. CASE \E t \in Thread, b \in Block : ProcessNewBlock(t, b)
  BY Zenon, <1>3, ProcessNewBlockActive
<1>4. CASE \E t \in Thread : Activate(t)
  BY Zenon, <1>4, FindMostWorkChainActive, StepActive, CheckTipActive, InvalidateActive DEF Activate
<1>5. CASE \E t \in Thread, b \in Block : InvalidateBlock(t, b)
  BY Zenon, <1>5, InvalidateActive
<1>6. CASE \E t \in Thread, b \in Block : ReconsiderBlock(t, b)
  BY Zenon, <1>6, ReconsiderActive
<1>7. CASE FlushBlockIndex \/ FlushCoins \/ UNCHANGED vars
  BY Zenon, <1>7, ActiveSame DEF FlushBlockIndex, FlushCoins, vars, index, chain, threads
<1> QED
  BY Zenon, <1>1, <1>2, <1>3, <1>4, <1>5, <1>6, <1>7 DEF Next

-----------------------------------------------------------------------------
(* The marks and the links of a node whose operator invalidates nothing *)

\* A chain that fails, and one that is never stored as a whole.
Fails(b) == Ancestors[b] \cap (Unconnectable \cup NonFinal) # {}
Incomplete(b) == Ancestors[b] \cap NonFinal # {}

\* Nobody is inside InvalidateBlock.  Blocks are marked, in memory and on disk,
\* because a check failed, when their chain is stored or never can be.  A stored
\* block that is not linked is remembered in mapBlocksUnlinked unless it can never
\* be linked, and candidates are linked.
MarkInv ==
    /\ \A t \in Thread : pc[t] # "invalidate"
    /\ haveData \cap NonFinal = {}
    /\ \A b \in Failed : Fails(b) /\ (b \in nChainTx \/ Incomplete(b))
    /\ \A b \in disk.failedValid \cup disk.failedChild :
         Fails(b) /\ (Ancestors[b] \subseteq disk.data \/ Incomplete(b))
    /\ \A b \in haveData \ nChainTx : b \in mapBlocksUnlinked \/ Incomplete(b)
    /\ setBlockIndexCandidates \subseteq nChainTx
    /\ ChainTxLinked

\* What is above a failing block fails, what is above an incomplete one is so.
LEMMA FailsAbove ==
    ASSUME NEW x \in Block, NEW f \in Ancestors[x]
    PROVE  (Fails(f) => Fails(x)) /\ (Incomplete(f) => Incomplete(x))
BY Zenon, AncestorsTransitive DEF Fails, Incomplete

\* A stored chain that the checks accept is not marked.
LEMMA ActivatableUnmarked ==
    ASSUME MarkInv, NEW b \in Block, Activatable(b)
    PROVE  ~Fails(b) /\ b \notin Failed
BY Zenon DEF MarkInv, Activatable, Fails

\* Steps that store no block: what they mark fails, what they add to the
\* candidates is linked.
LEMMA MarksKept ==
    ASSUME MarkInv, UNCHANGED <<haveData, nChainTx, mapBlocksUnlinked>>,
           UNCHANGED <<disk.data, disk.failedValid, disk.failedChild>>,
           \A t \in Thread : pc'[t] # "invalidate",
           \A b \in Failed' \ Failed : Fails(b) /\ (b \in nChainTx \/ Incomplete(b)),
           setBlockIndexCandidates' \subseteq nChainTx
    PROVE  MarkInv'
BY Zenon DEF MarkInv, ChainTxLinked, Fails, Incomplete

\* FindMostWorkChain marks the descendants of a failed block.
LEMMA FindMostWorkChainMarks ==
    ASSUME IInv, MarkInv, NEW t \in Thread, FindMostWorkChain(t)
    PROVE  MarkInv'
<1>1. /\ UNCHANGED <<haveData, nChainTx, mapBlocksUnlinked, disk>>
      /\ failedValid' = failedValid
      /\ setBlockIndexCandidates' \subseteq setBlockIndexCandidates
  BY Zenon DEF FindMostWorkChain
<1>2. \A u \in Thread : pc'[u] # "invalidate"
  BY ZenonT(30) DEF FindMostWorkChain, MarkInv, IInv, TypeOK
<1>3. ASSUME NEW x \in Failed' \ Failed PROVE Fails(x) /\ x \in nChainTx
  <2>0. PICK m \in setBlockIndexCandidates : \E f \in PathTo(m) :
          /\ IsFirstFailed(f, m)
          /\ failedChild' = failedChild \cup (Ancestors[m] \ Ancestors[f])
    BY Zenon, <1>1, <1>3 DEF FindMostWorkChain, Failed
  <2>1. PICK f \in PathTo(m) :
          /\ IsFirstFailed(f, m)
          /\ failedChild' = failedChild \cup (Ancestors[m] \ Ancestors[f])
    BY Zenon, <2>0
  <2>2. m \in Block /\ m \in nChainTx /\ f \in Ancestors[m] /\ f \in Failed
    BY Zenon, <2>1 DEF IInv, TypeOK, MarkInv, PathTo, IsFirstFailed
  <2>3. x \in Ancestors[m] \ Ancestors[f]
    BY Zenon, <1>1, <1>3, <2>1 DEF Failed
  <2>4. x \in Block /\ f \in Ancestors[x] /\ x \in nChainTx
    BY Zenon, <2>2, <2>3, AncestorsLinear, AncestorsTransitive, LinkedAncestors DEF IInv
  <2> QED
    BY Zenon, <2>2, <2>4, FailsAbove DEF MarkInv
<1> QED
  BY Zenon, <1>1, <1>2, <1>3, MarksKept DEF MarkInv

\* A step marks only the block that ConnectBlock rejects.
LEMMA StepMarks ==
    ASSUME IInv, MarkInv, NEW t \in Thread,
           DisconnectStep(t) \/ ConnectStep(t) \/ ConnectFails(t) \/ CheckTip(t)
    PROVE  MarkInv'
<1>1. /\ UNCHANGED <<haveData, nChainTx, mapBlocksUnlinked, disk>>
      /\ setBlockIndexCandidates' \subseteq setBlockIndexCandidates
  BY Zenon
     DEF DisconnectStep, ConnectStep, PruneBlockIndexCandidates, ConnectFails, CheckTip, index, chain
<1>2. \A u \in Thread : pc'[u] # "invalidate"
  BY Zenon DEF DisconnectStep, ConnectStep, ConnectFails, CheckTip, StepReturns, threads,
         MarkInv, IInv, TypeOK
<1>3. ASSUME NEW x \in Failed' \ Failed PROVE Fails(x) /\ x \in nChainTx
  <2>1. ConnectFails(t) /\ x = NextToConnect(t)
    BY Zenon, <1>3 DEF DisconnectStep, ConnectStep, ConnectFails, CheckTip, index, Failed
  <2>2. x \in Block /\ x \in nChainTx /\ x \in Unconnectable
    BY Zenon, <2>1, NextToConnectFacts DEF ConnectFails
  <2> QED
    BY Zenon, <2>2, TreeAssumption DEF Fails
<1> QED
  BY Zenon, <1>1, <1>2, <1>3, MarksKept DEF MarkInv

\* When the data of b arrives, exactly the stored chains that it completes are
\* linked, and what stays unlinked is remembered.
LEMMA ReceivedMarks ==
    ASSUME IInv, MarkInv, NEW b \in Block \ (haveData \cup NonFinal),
           ReceivedBlockTransactions(b), UNCHANGED <<failedValid, failedChild, disk>>,
           \A t \in Thread : pc'[t] # "invalidate"
    PROVE  MarkInv'
<1>1. /\ haveData' = haveData \cup {b} /\ haveData' \cap NonFinal = {}
      /\ Failed' = Failed /\ nChainTx \subseteq nChainTx'
      /\ haveData \subseteq Block /\ b \in Ancestors[b]
      /\ nChainTx \subseteq haveData
  BY TreeAssumption DEF ReceivedBlockTransactions, MarkInv, Failed, IInv, TypeOK, LinkInv
<1>2. b # Genesis /\ Parent[b] \in Block /\ Parent[b] \in Ancestors[b]
      /\ Ancestors[b] = {b} \cup Ancestors[Parent[b]]
  <2>1. b # Genesis
    BY Zenon DEF IInv, LinkInv
  <2> QED
    BY Zenon, <1>1, <2>1, TreeAssumption
<1>3. setBlockIndexCandidates' \subseteq nChainTx'
  BY Zenon DEF ReceivedBlockTransactions, MarkInv
<1>4. \A x \in haveData' \ nChainTx' : x \in mapBlocksUnlinked' \/ Incomplete(x)
  <2>1. CASE Parent[b] \in nChainTx
    BY Zenon, <1>1, <2>1 DEF ReceivedBlockTransactions, MarkInv, Linkable
  <2>2. CASE Parent[b] \notin nChainTx
    <3>1. Parent[b] \in Failed => Incomplete(b)
      BY Zenon, <1>2, <2>2, FailsAbove DEF MarkInv
    <3> QED
      BY Zenon, <1>1, <2>2, <3>1 DEF ReceivedBlockTransactions, MarkInv
  <2> QED
    BY Zenon, <2>1, <2>2
<1>5. ASSUME NEW x \in haveData', Ancestors[x] \subseteq haveData' PROVE x \in nChainTx'
  <2>0. x \in Block /\ x \in Ancestors[x] /\ Ancestors[x] \subseteq Block
    BY Zenon, <1>1, TreeAssumption
  <2>1. CASE b \notin Ancestors[x]
    <3>1. Ancestors[x] \subseteq haveData /\ x \in haveData
      BY Zenon, <1>1, <1>5, <2>0, <2>1
    <3> QED
      BY Zenon, <1>1, <3>1 DEF MarkInv, ChainTxLinked
  <2>2. CASE b \in Ancestors[x]
    <3>1. Ancestors[Parent[b]] \subseteq haveData
      <4>1. b \notin Ancestors[Parent[b]]
        <5>1. b \in Ancestors[Parent[b]] => b = Parent[b]
          BY Zenon, <1>2, TreeAssumption
        <5>2. ChainWork[Parent[b]] < ChainWork[b] /\ ChainWork[b] \in Nat
          BY Zenon, <1>2, TreeAssumption
        <5> QED
          BY <5>1, <5>2
      <4>2. Ancestors[b] \subseteq Ancestors[x]
        BY Zenon, <2>0, <2>2, AncestorsTransitive
      <4> QED
        BY Zenon, <1>1, <1>2, <1>5, <4>1, <4>2
    <3>2. Parent[b] \in nChainTx
      <4>1. Parent[b] \in Ancestors[Parent[b]]
        BY Zenon, <1>2, TreeAssumption
      <4> QED
        BY Zenon, <3>1, <4>1 DEF MarkInv, ChainTxLinked
    <3>3. CASE x = b
      BY Zenon, <3>2, <3>3 DEF ReceivedBlockTransactions, Linkable
    <3>4. CASE x # b
      <4>1. ASSUME NEW y \in Ancestors[x] \ Ancestors[b] PROVE y \in mapBlocksUnlinked
        <5>1. y \in Block /\ b \in Ancestors[y] /\ y # b
          BY Zenon, <1>1, <2>0, <2>2, AncestorsLinear
        <5>2. y \in haveData
          BY Zenon, <1>1, <1>5, <5>1
        <5>3. y \notin nChainTx
          BY Zenon, <1>1, <5>1, LinkedAncestors DEF IInv
        <5>4. Ancestors[y] \subseteq haveData'
          BY Zenon, <1>5, <2>0, AncestorsTransitive
        <5> QED
          BY Zenon, <1>1, <5>2, <5>3, <5>4 DEF MarkInv, Incomplete
      <4>2. x \notin Ancestors[b]
        BY Zenon, <2>0, <2>2, <3>4, TreeAssumption
      <4>3. x \in Linkable(b)
        BY Zenon, <2>0, <2>2, <4>1, <4>2 DEF Linkable
      <4> QED
        BY Zenon, <3>2, <4>3 DEF ReceivedBlockTransactions
    <3> QED
      BY Zenon, <3>3, <3>4
  <2> QED
    BY Zenon, <2>1, <2>2
<1>6. ChainTxLinked'
  BY Zenon, <1>5 DEF ChainTxLinked
<1>7. \A x \in Failed' : Fails(x) /\ (x \in nChainTx' \/ Incomplete(x))
  BY Zenon, <1>1 DEF MarkInv
<1> QED
  BY Zenon, <1>1, <1>3, <1>4, <1>6, <1>7 DEF MarkInv, Fails, Incomplete

\* ProcessNewBlock marks a block that fails its contextual checks, or stores it.
LEMMA ProcessNewBlockMarks ==
    ASSUME IInv, MarkInv, NEW u \in Thread, NEW b \in Block, ProcessNewBlock(u, b)
    PROVE  MarkInv'
<1>1. \A t \in Thread : pc'[t] # "invalidate"
  BY Zenon DEF ProcessNewBlock, MarkInv, IInv, TypeOK
<1>2. UNCHANGED <<failedChild, disk>>
  BY Zenon DEF ProcessNewBlock
<1>3. CASE b \notin haveData /\ b \notin NonFinal /\ ReceivedBlockTransactions(b) /\ UNCHANGED failedValid
  BY Zenon, <1>1, <1>2, <1>3, ReceivedMarks
<1>4. CASE /\ UNCHANGED <<haveData, nChainTx, setBlockIndexCandidates, mapBlocksUnlinked>>
           /\ failedValid' = failedValid \/ (failedValid' = failedValid \cup {b} /\ b \in NonFinal)
  <2>1. \A x \in Failed' \ Failed : x = b /\ b \in NonFinal
    BY Zenon, <1>2, <1>4 DEF Failed
  <2>2. b \in NonFinal => Fails(b) /\ Incomplete(b)
    BY Zenon, TreeAssumption DEF Fails, Incomplete
  <2>3. setBlockIndexCandidates' \subseteq nChainTx
    BY Zenon, <1>4 DEF MarkInv
  <2> QED
    BY Zenon, <1>1, <1>2, <1>4, <2>1, <2>2, <2>3, MarksKept
<1> QED
  BY Zenon, <1>3, <1>4 DEF ProcessNewBlock

\* ReconsiderBlock takes marks away and adds linked candidates.
LEMMA ReconsiderMarks ==
    ASSUME IInv, MarkInv, NEW t \in Thread, NEW b \in Block, ReconsiderBlock(t, b)
    PROVE  MarkInv'
<1>1. UNCHANGED <<haveData, nChainTx, mapBlocksUnlinked, disk>> /\ Failed' \subseteq Failed
  BY Zenon DEF ReconsiderBlock, Failed
<1>2. \A u \in Thread : pc'[u] # "invalidate"
  BY Zenon DEF ReconsiderBlock, MarkInv, IInv, TypeOK
<1>3. setBlockIndexCandidates' \subseteq nChainTx
  BY Zenon DEF ReconsiderBlock, MarkInv
<1> QED
  BY Zenon, <1>1, <1>2, <1>3, MarksKept

\* A flush writes marks together with the data of the chains they are on.
LEMMA FlushMarks ==
    ASSUME IInv, MarkInv, FlushBlockIndex
    PROVE  MarkInv'
<1>1. UNCHANGED <<haveData, nChainTx, mapBlocksUnlinked, setBlockIndexCandidates, failedValid,
                  failedChild, pc>>
  BY Zenon DEF FlushBlockIndex, index, chain, threads
<1>2. /\ disk'.data = Written(disk.data, haveData)
      /\ disk'.failedValid = Written(disk.failedValid, failedValid)
      /\ disk'.failedChild = Written(disk.failedChild, failedChild)
  BY Zenon DEF FlushBlockIndex, IInv, TypeOK
<1>3. disk'.data = haveData /\ disk.data \subseteq haveData
  BY Zenon, <1>2 DEF Written, IInv, DiskInv
<1>4. ASSUME NEW x \in disk'.failedValid \cup disk'.failedChild
      PROVE  Fails(x) /\ (Ancestors[x] \subseteq disk'.data \/ Incomplete(x))
  <2>1. x \in disk.failedValid \cup disk.failedChild \/ x \in Failed
    BY Zenon, <1>2, <1>4 DEF Written, Failed
  <2>2. x \in nChainTx => Ancestors[x] \subseteq haveData
    BY Zenon, LinkedAncestors DEF IInv, LinkInv
  <2> QED
    BY Zenon, <1>3, <2>1, <2>2 DEF MarkInv
<1> QED
  BY Zenon, <1>1, <1>4 DEF MarkInv, Failed, ChainTxLinked, Fails, Incomplete

\* A restart finds on disk marks and data that agree in the same way.
LEMMA RestartMarks ==
    ASSUME IInv, MarkInv, Restart
    PROVE  MarkInv'
<1>1. /\ haveData' = disk.data /\ failedValid' = disk.failedValid /\ failedChild' = disk.failedChild
      /\ nChainTx' = LoadedChainTx /\ mapBlocksUnlinked' = disk.data \ LoadedChainTx
      /\ setBlockIndexCandidates' \subseteq LoadedValid /\ disk' = disk
  BY Zenon DEF Restart
<1>2. \A t \in Thread : pc'[t] # "invalidate"
  BY Zenon DEF Restart
<1>3. disk.data \subseteq haveData /\ disk.data \subseteq Block
      /\ disk.failedValid \cup disk.failedChild \subseteq Block
  BY Zenon DEF IInv, DiskInv, TypeOK
<1>4. ASSUME NEW x \in Failed' PROVE Fails(x) /\ (x \in nChainTx' \/ Incomplete(x))
  <2>1. x \in disk.failedValid \cup disk.failedChild /\ x \in Block
    BY Zenon, <1>1, <1>3 DEF Failed
  <2>2. x \in Ancestors[x]
    BY Zenon, <2>1, TreeAssumption
  <2> QED
    BY Zenon, <1>1, <2>1, <2>2 DEF MarkInv, LoadedChainTx
<1>5. ChainTxLinked'
  BY Zenon, <1>1 DEF ChainTxLinked, LoadedChainTx
<1>6. setBlockIndexCandidates' \subseteq nChainTx'
  BY Zenon, <1>1 DEF LoadedValid
<1>7. \A x \in haveData' \ nChainTx' : x \in mapBlocksUnlinked'
  BY Zenon, <1>1
<1> QED
  BY Zenon, <1>1, <1>2, <1>3, <1>4, <1>5, <1>6, <1>7 DEF MarkInv, Fails, Incomplete

\* Every step of a node whose operator invalidates nothing.
LEMMA NextMarks ==
    ASSUME IInv, MarkInv, [Next]_vars, calls'.invalidate = 0
    PROVE  MarkInv'
<1>0. calls.invalidate \in Nat /\ calls \in [invalidate : 0..MaxInvalidate,
                                reconsider : 0..MaxReconsider, crash : 0..MaxCrash]
  BY ConstantTypes DEF IInv, TypeOK
<1>1. ~ \E t \in Thread, b \in Block : InvalidateBlock(t, b)
  <2>1. ASSUME NEW t \in Thread, NEW b \in Block, InvalidateBlock(t, b) PROVE FALSE
    <3>1. calls'.invalidate = calls.invalidate + 1
      BY Zenon, <1>0, <2>1 DEF InvalidateBlock
    <3> QED
      BY <1>0, <3>1
  <2> QED
    BY Zenon, <2>1
<1>2. CASE (\E b \in Block : AcceptBlockHeader(b)) \/ FlushCoins \/ UNCHANGED vars
  <2>1. /\ UNCHANGED <<haveData, nChainTx, mapBlocksUnlinked, failedValid, failedChild, pc,
                       setBlockIndexCandidates>>
        /\ UNCHANGED <<disk.data, disk.failedValid, disk.failedChild>>
    BY Zenon, <1>2 DEF AcceptBlockHeader, FlushCoins, vars, index, chain, threads, IInv, TypeOK
  <2>2. Failed' = Failed
    BY Zenon, <2>1 DEF Failed
  <2> QED
    BY Zenon, <2>1, <2>2, MarksKept DEF MarkInv
<1>3. CASE \E t \in Thread, b \in Block : ProcessNewBlock(t, b)
  BY Zenon, <1>3, ProcessNewBlockMarks
<1>4. CASE \E t \in Thread : Activate(t)
  BY Zenon, <1>4, FindMostWorkChainMarks, StepMarks
     DEF Activate, MarkInv, InvalidateDisconnect, InvalidateFinish
<1>5. CASE \E t \in Thread, b \in Block : ReconsiderBlock(t, b)
  BY Zenon, <1>5, ReconsiderMarks
<1>6. CASE FlushBlockIndex
  BY Zenon, <1>6, FlushMarks
<1>7. CASE Restart
  BY Zenon, <1>7, RestartMarks
<1> QED
  BY Zenon, <1>1, <1>2, <1>3, <1>4, <1>5, <1>6, <1>7 DEF Next

\* No failed block is active then.
LEMMA MarksInactive ==
    ASSUME IInv, MarkInv
    PROVE  Ancestors[tip] \cap Failed = {} /\ Activatable(tip) /\ tip \in haveData
<1>1. tip \in Block /\ Ancestors[tip] \subseteq haveData /\ tip \in Ancestors[tip]
  BY Zenon, TreeAssumption DEF IInv, TypeOK, ActiveChainConnectable, LinkInv
<1>2. Activatable(tip)
  BY Zenon, <1>1 DEF Activatable, IInv, ActiveChainConnectable
<1>3. ASSUME NEW x \in Ancestors[tip] \cap Failed PROVE FALSE
  BY Zenon, <1>1, <1>2, <1>3, FailsAbove, ActivatableUnmarked DEF MarkInv
<1> QED
  BY Zenon, <1>1, <1>2, <1>3

-----------------------------------------------------------------------------
(* The best chain is active *)

\* CBlockIndexWorkComparator under the sequence ids s.
Less(s, a, b) ==
    \/ ChainWork[a] < ChainWork[b]
    \/ ChainWork[a] = ChainWork[b] /\ s[a] > s[b]

\* It is irreflexive, asymmetric, and its negation is transitive.
LEMMA LessOrder ==
    ASSUME NEW s \in [Block -> Nat], NEW a \in Block, NEW b \in Block, NEW c \in Block
    PROVE  /\ ~Less(s, a, a)
           /\ Less(s, a, b) => ~Less(s, b, a)
           /\ ~Less(s, a, b) /\ ~Less(s, b, c) => ~Less(s, a, c)
BY ConstantTypes DEF Less

\* CBlockIndexWorkComparator orders the stored blocks.
LEMMA WorkOrder ==
    ASSUME IInv, NEW a \in Block, NEW b \in Block, NEW c \in Block
    PROVE  /\ ~WorkLess(a, a)
           /\ WorkLess(a, b) => ~WorkLess(b, a)
           /\ ~WorkLess(a, b) /\ ~WorkLess(b, c) => ~WorkLess(a, c)
<1>1. nSequenceId \in [Block -> Nat]
  BY Zenon DEF IInv, TypeOK
<1>2. \A x, y \in Block : WorkLess(x, y) <=> Less(nSequenceId, x, y)
  BY Zenon DEF WorkLess, Less
<1> QED
  BY Zenon, <1>1, <1>2, LessOrder

\* A step works towards the best candidate.
StepBest ==
    \A t \in Thread : pc[t] = "step" =>
        \A c \in setBlockIndexCandidates : ~WorkLess(mostWork[t], c)

\* While a thread is inside a step nothing joins the candidates.
LEMMA NextStepBest ==
    ASSUME IInv, StepBest, [Next]_vars
    PROVE  StepBest'
<1>1. CASE \A t \in Thread : pc'[t] # "step"
  BY Zenon, <1>1 DEF StepBest
<1>2. ASSUME /\ \A t \in Thread : pc'[t] = "step" => pc[t] = "step"
             /\ UNCHANGED <<mostWork, nSequenceId>>
             /\ setBlockIndexCandidates' \subseteq setBlockIndexCandidates
      PROVE  StepBest'
  BY Zenon, <1>2 DEF StepBest, WorkLess
<1>3. CASE (\E b \in Block : AcceptBlockHeader(b)) \/ FlushBlockIndex \/ FlushCoins \/ UNCHANGED vars
  BY Zenon, <1>2, <1>3 DEF AcceptBlockHeader, FlushBlockIndex, FlushCoins, vars, index, chain, threads
<1>4. ASSUME NEW u \in Thread, NEW b \in Block,
             ProcessNewBlock(u, b) \/ InvalidateBlock(u, b) \/ ReconsiderBlock(u, b)
      PROVE  StepBest'
  <2>1. \A t \in Thread : pc[t] # "step"
    BY Zenon, <1>4, UnlockedThreads DEF ProcessNewBlock, InvalidateBlock, ReconsiderBlock, Unlocked
  <2>2. \A t \in Thread : pc'[t] # "step"
    BY Zenon, <1>4, <2>1 DEF ProcessNewBlock, InvalidateBlock, ReconsiderBlock, IInv, TypeOK
  <2> QED
    BY Zenon, <1>1, <2>2
<1>5. ASSUME NEW u \in Thread, FindMostWorkChain(u) PROVE StepBest'
  <2>1. \A t \in Thread : pc[t] # "step"
    BY ZenonT(30), <1>5, ValidityAssumption DEF FindMostWorkChain, IInv, ThreadInv, TypeOK
  <2>2. \A t \in Thread : t # u => pc'[t] # "step"
    BY Zenon, <1>5, <2>1 DEF FindMostWorkChain, IInv, TypeOK
  <2>3. CASE pc'[u] = "step"
    <3>1. PICK m \in setBlockIndexCandidates :
            /\ IsBestCandidate(m) /\ mostWork' = [mostWork EXCEPT ![u] = m]
            /\ UNCHANGED setBlockIndexCandidates
      BY Zenon, <1>5, <2>1, <2>3 DEF FindMostWorkChain, IInv, TypeOK
    <3>2. mostWork'[u] = m /\ nSequenceId' = nSequenceId
      BY Zenon, <1>5, <3>1 DEF FindMostWorkChain, IInv, TypeOK
    <3> QED
      BY Zenon, <2>2, <3>1, <3>2 DEF StepBest, IsBestCandidate, WorkLess
  <2> QED
    BY Zenon, <1>1, <2>2, <2>3
<1>6. ASSUME NEW u \in Thread,
             DisconnectStep(u) \/ ConnectStep(u) \/ ConnectFails(u) \/ CheckTip(u)
               \/ InvalidateDisconnect(u)
      PROVE  StepBest'
  <2>1. /\ UNCHANGED <<mostWork, nSequenceId>>
        /\ setBlockIndexCandidates' \subseteq setBlockIndexCandidates
    BY Zenon, <1>6
       DEF DisconnectStep, ConnectStep, PruneBlockIndexCandidates, ConnectFails, CheckTip,
                InvalidateDisconnect, index, chain, threads
  <2>2. \A t \in Thread : pc'[t] = "step" => pc[t] = "step"
    BY Zenon, <1>6 DEF DisconnectStep, ConnectStep, ConnectFails, CheckTip, StepReturns,
                InvalidateDisconnect, threads, IInv, TypeOK
  <2> QED
    BY Zenon, <1>2, <2>1, <2>2
<1>7. ASSUME NEW u \in Thread, InvalidateFinish(u) PROVE StepBest'
  <2>1. \A t \in Thread : pc'[t] # "step"
    BY Zenon, <1>7 DEF InvalidateFinish, IInv, ThreadInv, TypeOK
  <2> QED
    BY Zenon, <1>1, <2>1
<1>8. CASE Restart
  BY Zenon, <1>1, <1>8 DEF Restart
<1> QED
  BY Zenon, <1>3, <1>4, <1>5, <1>6, <1>7, <1>8 DEF Next, Activate

\* Every stored chain that the checks accept is matched by a candidate.
Covered ==
    \A b \in haveData : Activatable(b) =>
        \E c \in setBlockIndexCandidates : Activatable(c) /\ ~WorkLess(c, b)

\* The active chain matches every stored chain that the checks accept.
Settled == \A b \in haveData : Activatable(b) => ~WorkLess(tip, b)

\* A thread will look for a better chain.
Working ==
    \E t \in Thread : \/ pc[t] \in {"activate", "step", "aborted"}
                      \/ pc[t] = "check" /\ mostWork[t] # tip

BestInv == Covered /\ (Settled \/ Working)

\* Candidates that the checks accept are only ever replaced by better ones.
LEMMA CoveredKept ==
    ASSUME Covered, UNCHANGED <<haveData, nSequenceId>>,
           \A c \in setBlockIndexCandidates : Activatable(c) => c \in setBlockIndexCandidates'
    PROVE  Covered'
BY Zenon DEF Covered, Activatable, WorkLess

\* Some candidate is left.
LEMMA CandidateLeft ==
    ASSUME IInv, Covered
    PROVE  setBlockIndexCandidates # {}
<1>1. Genesis \in haveData /\ Activatable(Genesis)
  BY TreeAssumption, ValidityAssumption DEF IInv, LinkInv, Activatable
<1> QED
  BY Zenon, <1>1 DEF Covered

\* Nothing that BestInv speaks of changes.
LEMMA BestSame ==
    ASSUME BestInv, UNCHANGED <<haveData, nSequenceId, setBlockIndexCandidates, tip, pc, mostWork>>
    PROVE  BestInv'
BY ZenonT(30) DEF BestInv, Covered, Settled, Working, Activatable, WorkLess

\* FindMostWorkChain drops no chain that the checks accept, and returns without a
\* step only when the tip is the best candidate.
LEMMA FindMostWorkChainBest ==
    ASSUME IInv, MarkInv, BestInv, NEW t \in Thread, FindMostWorkChain(t)
    PROVE  BestInv'
<1>1. UNCHANGED <<haveData, nSequenceId, tip>> /\ pc[t] = "activate"
  BY Zenon DEF FindMostWorkChain
<1>2. Covered'
  <2>1. ASSUME NEW c \in setBlockIndexCandidates, Activatable(c)
        PROVE  c \in setBlockIndexCandidates'
    <3>1. c \in Block /\ ~Fails(c) /\ c \notin Failed
      BY Zenon, <2>1, ActivatableUnmarked DEF IInv, TypeOK
    <3>2. ASSUME NEW m \in setBlockIndexCandidates, NEW f \in PathTo(m), IsFirstFailed(f, m)
          PROVE  c \notin (Ancestors[m] \ Ancestors[f]) \cup {f}
      <4>1. m \in Block /\ f \in Ancestors[m] /\ f \in Failed
        BY Zenon, <3>2 DEF IInv, TypeOK, PathTo, IsFirstFailed
      <4>2. c \in Ancestors[m] \ Ancestors[f] => f \in Ancestors[c]
        BY Zenon, <4>1, AncestorsLinear
      <4>3. Fails(f)
        BY Zenon, <4>1 DEF MarkInv
      <4> QED
        BY Zenon, <3>1, <4>1, <4>2, <4>3, FailsAbove
    <3> QED
      BY Zenon, <3>2 DEF FindMostWorkChain
  <2> QED
    BY Zenon, <1>1, <2>1, CoveredKept DEF BestInv
<1>3. CASE pc'[t] # "idle"
  <2>1. pc'[t] \in {"activate", "step", "aborted"}
    BY Zenon, <1>1, <1>3 DEF FindMostWorkChain, IInv, TypeOK
  <2> QED
    BY Zenon, <1>2, <2>1 DEF BestInv, Working
<1>4. CASE pc'[t] = "idle"
  <2>1. setBlockIndexCandidates # {}
    BY Zenon, CandidateLeft DEF BestInv
  <2>2. IsBestCandidate(tip)
    BY Zenon, <1>1, <1>4, <2>1 DEF FindMostWorkChain, IInv, TypeOK
  <2>3. ASSUME NEW b \in haveData, Activatable(b) PROVE ~WorkLess(tip, b)
    <3>1. PICK c \in setBlockIndexCandidates : ~WorkLess(c, b)
      BY Zenon, <2>3 DEF BestInv, Covered
    <3>2. ~WorkLess(tip, c) /\ tip \in Block /\ c \in Block /\ b \in Block
      BY Zenon, <2>2, <2>3, <3>1 DEF IsBestCandidate, IInv, TypeOK
    <3> QED
      BY Zenon, <3>1, <3>2, WorkOrder
  <2>4. Settled'
    BY Zenon, <1>1, <2>3 DEF Settled, Activatable, WorkLess
  <2> QED
    BY Zenon, <1>2, <2>4 DEF BestInv
<1> QED
  BY Zenon, <1>3, <1>4

\* ConnectTip prunes what is worse than the new tip; the last block of a step
\* makes the best candidate the tip.
LEMMA ConnectStepBest ==
    ASSUME IInv, MarkInv, StepBest, BestInv, NEW t \in Thread, ConnectStep(t)
    PROVE  BestInv'
<1> DEFINE b == NextToConnect(t)
<1>1. /\ b \in Block /\ b \in nChainTx /\ Ancestors[b] = {b} \cup Ancestors[tip]
  BY Zenon, NextToConnectFacts DEF ConnectStep
<1>2. /\ tip' = b /\ UNCHANGED <<haveData, nSequenceId, mostWork>>
      /\ setBlockIndexCandidates' = {c \in setBlockIndexCandidates : ~WorkLess(c, b)}
      /\ pc[t] = "step" /\ b \notin Unconnectable
  BY Zenon DEF ConnectStep, PruneBlockIndexCandidates
<1>3. pc'[t] \in {"step", "check"}
  BY Zenon DEF ConnectStep, StepReturns, IInv, TypeOK
<1> HIDE DEF b
<1>4. b \in haveData /\ Activatable(b)
  <2>1. b \in haveData /\ Ancestors[tip] \subseteq haveData
        /\ Ancestors[tip] \cap Unconnectable = {}
    BY Zenon, <1>1 DEF IInv, LinkInv, ActiveChainConnectable
  <2> QED
    BY Zenon, <1>1, <1>2, <2>1 DEF Activatable
<1>5. Covered'
  <2>1. ASSUME NEW x \in haveData, Activatable(x)
        PROVE  \E c \in setBlockIndexCandidates' : Activatable(c) /\ ~WorkLess(c, x)
    <3>0. x \in Block /\ setBlockIndexCandidates \subseteq Block
      BY Zenon DEF IInv, TypeOK
    <3>1. PICK c \in setBlockIndexCandidates : Activatable(c) /\ ~WorkLess(c, x)
      BY Zenon, <2>1 DEF BestInv, Covered
    <3>2. PICK d \in setBlockIndexCandidates : Activatable(d) /\ ~WorkLess(d, b)
      BY Zenon, <1>4 DEF BestInv, Covered
    <3>3. CASE WorkLess(c, b)
      <4>1. ~WorkLess(b, c)
        BY Zenon, <1>1, <3>0, <3>3, WorkOrder
      <4>2. ~WorkLess(d, c)
        BY Zenon, <1>1, <3>0, <3>2, <4>1, WorkOrder
      <4>3. ~WorkLess(d, x)
        BY Zenon, <3>0, <3>1, <4>2, WorkOrder
      <4> QED
        BY Zenon, <1>2, <3>2, <4>3
    <3> QED
      BY Zenon, <1>2, <3>1, <3>3
  <2> QED
    BY Zenon, <1>2, <2>1 DEF Covered, Activatable, WorkLess
<1>6. CASE tip' # mostWork[t] \/ pc'[t] = "step"
  BY Zenon, <1>2, <1>3, <1>5, <1>6 DEF BestInv, Working
<1>7. CASE tip' = mostWork[t]
  <2>1. ASSUME NEW x \in haveData, Activatable(x) PROVE ~WorkLess(mostWork[t], x)
    <3>1. PICK c \in setBlockIndexCandidates : ~WorkLess(c, x)
      BY Zenon, <2>1 DEF BestInv, Covered
    <3>2. ~WorkLess(mostWork[t], c) /\ mostWork[t] \in Block /\ c \in Block /\ x \in Block
      BY Zenon, <1>2, <3>1 DEF StepBest, IInv, TypeOK
    <3> QED
      BY Zenon, <3>1, <3>2, WorkOrder
  <2>2. Settled'
    BY Zenon, <1>2, <1>7, <2>1 DEF Settled, Activatable, WorkLess
  <2> QED
    BY Zenon, <1>5, <2>2 DEF BestInv
<1> QED
  BY Zenon, <1>6, <1>7

\* The other steps of ActivateBestChain.
LEMMA StepBestKept ==
    ASSUME IInv, MarkInv, BestInv, NEW t \in Thread,
           DisconnectStep(t) \/ ConnectFails(t) \/ CheckTip(t)
    PROVE  BestInv'
<1>1. UNCHANGED <<haveData, nSequenceId, mostWork>>
  BY Zenon DEF DisconnectStep, ConnectFails, CheckTip, index, chain, threads
<1>2. CASE DisconnectStep(t)
  <2>1. UNCHANGED <<setBlockIndexCandidates, pc>> /\ pc[t] = "step"
    BY Zenon, <1>2 DEF DisconnectStep, threads
  <2>2. Covered'
    BY Zenon, <1>1, <2>1, CoveredKept DEF BestInv
  <2> QED
    BY Zenon, <2>1, <2>2 DEF BestInv, Working
<1>3. CASE ConnectFails(t)
  <2> DEFINE b == NextToConnect(t)
  <2>1. /\ b \in Unconnectable /\ setBlockIndexCandidates' = setBlockIndexCandidates \ {b}
        /\ pc' = [pc EXCEPT ![t] = "check"] /\ tip' = tip /\ mostWork[t] # tip
    BY Zenon, <1>3 DEF ConnectFails, StepReturns
  <2>2. b \in Block
    BY Zenon, <1>3, NextToConnectFacts DEF ConnectFails
  <2> HIDE DEF b
  <2>3. ~Activatable(b)
    BY Zenon, <2>1, <2>2, TreeAssumption DEF Activatable
  <2>4. Covered'
    BY Zenon, <1>1, <2>1, <2>3, CoveredKept DEF BestInv
  <2>5. pc'[t] = "check" /\ mostWork'[t] # tip'
    BY Zenon, <1>1, <2>1 DEF IInv, TypeOK
  <2> QED
    BY Zenon, <2>4, <2>5 DEF BestInv, Working
<1>4. CASE CheckTip(t)
  <2>1. /\ UNCHANGED <<setBlockIndexCandidates, tip>> /\ pc[t] = "check"
        /\ \A u \in Thread : u # t => pc'[u] = pc[u]
        /\ pc'[t] = IF mostWork[t] = tip THEN "idle" ELSE "activate"
    BY Zenon, <1>4 DEF CheckTip, chain, IInv, TypeOK
  <2>2. Covered'
    BY Zenon, <1>1, <2>1, CoveredKept DEF BestInv
  <2>3. Settled => Settled'
    BY Zenon, <1>1, <2>1 DEF Settled, Activatable, WorkLess
  <2>4. Working => Working'
    BY Zenon, <1>1, <2>1 DEF Working
  <2> QED
    BY Zenon, <2>2, <2>3, <2>4 DEF BestInv
<1> QED
  BY Zenon, <1>2, <1>3, <1>4

\* A block that completes stored chains makes candidates of their ends.
LEMMA ReceivedBest ==
    ASSUME IInv, IInv', MarkInv, MarkInv', Covered, NEW b \in Block \ haveData,
           ReceivedBlockTransactions(b)
    PROVE  Covered'
<1>1. /\ haveData' = haveData \cup {b} /\ haveData \subseteq Block
      /\ nChainTx \subseteq haveData /\ nSequenceId \in [Block -> Nat]
      /\ nSequenceId' = [nSequenceId EXCEPT ![b] = NextSequenceId(b)]
      /\ nSequenceId' \in [Block -> Nat]
      /\ setBlockIndexCandidates \subseteq setBlockIndexCandidates'
      /\ setBlockIndexCandidates \subseteq nChainTx
  <2>1. /\ haveData' = haveData \cup {b}
        /\ nSequenceId' = [nSequenceId EXCEPT ![b] = NextSequenceId(b)]
    BY Zenon DEF ReceivedBlockTransactions
  <2>2. setBlockIndexCandidates \subseteq setBlockIndexCandidates'
    BY Zenon DEF ReceivedBlockTransactions
  <2>3. /\ haveData \subseteq Block /\ nSequenceId \in [Block -> Nat]
        /\ nSequenceId' \in [Block -> Nat]
    BY Zenon DEF IInv, TypeOK
  <2>4. nChainTx \subseteq haveData /\ setBlockIndexCandidates \subseteq nChainTx
    BY Zenon DEF IInv, LinkInv, MarkInv
  <2> QED
    BY Zenon, <2>1, <2>2, <2>3, <2>4
<1>2. \A x \in haveData : nSequenceId'[x] = nSequenceId[x]
  BY Zenon, <1>1
<1>3. \A c \in haveData : Activatable(c) => Activatable(c)'
  BY Zenon, <1>1 DEF Activatable
<1>4. ASSUME NEW x \in haveData', Activatable(x)'
      PROVE  \E c \in setBlockIndexCandidates' : Activatable(c)' /\ ~WorkLess(c, x)'
  <2>0. x \in Block /\ x \in Ancestors[x]
        /\ Ancestors[x] \subseteq haveData' /\ Ancestors[x] \cap Unconnectable = {}
    BY Zenon, <1>1, <1>4, TreeAssumption DEF Activatable
  <2>1. CASE b \notin Ancestors[x]
    <3>1. x \in haveData /\ Activatable(x)
      BY Zenon, <1>1, <2>0, <2>1 DEF Activatable
    <3>2. PICK c \in setBlockIndexCandidates : Activatable(c) /\ ~WorkLess(c, x)
      BY Zenon, <3>1 DEF Covered
    <3>3. c \in haveData
      BY Zenon, <1>1
    <3>4. ~WorkLess(c, x)'
      BY Zenon, <1>2, <3>1, <3>2, <3>3 DEF WorkLess
    <3> QED
      BY Zenon, <1>1, <1>3, <3>2, <3>3, <3>4
  <2>2. CASE b \in Ancestors[x]
    <3>1. x \in nChainTx'
      BY Zenon, <1>4, <2>0 DEF MarkInv, ChainTxLinked
    <3>2. x \notin nChainTx
      BY Zenon, <1>1, <2>2, LinkedAncestors DEF IInv
    <3>3. x \in setBlockIndexCandidates'
      BY Zenon, <3>1, <3>2 DEF ReceivedBlockTransactions
    <3>4. ~WorkLess(x, x)'
      <4>1. ChainWork[x] \in Nat /\ nSequenceId'[x] \in Nat
        BY Zenon, <1>1, <2>0, ConstantTypes
      <4> QED
        BY <4>1 DEF WorkLess
    <3> QED
      BY Zenon, <1>4, <3>3, <3>4
  <2> QED
    BY Zenon, <2>1, <2>2
<1> QED
  BY Zenon, <1>4 DEF Covered

\* ProcessNewBlock ends in ActivateBestChain unless it refuses the block.
LEMMA ProcessNewBlockBest ==
    ASSUME IInv, IInv', MarkInv, MarkInv', BestInv,
           NEW u \in Thread, NEW b \in Block, ProcessNewBlock(u, b)
    PROVE  BestInv'
<1>1. UNCHANGED <<tip, mostWork>>
  BY Zenon DEF ProcessNewBlock
<1>2. CASE UNCHANGED <<haveData, setBlockIndexCandidates, nSequenceId, pc>>
  BY Zenon, <1>1, <1>2, BestSame
<1>3. CASE pc' = [pc EXCEPT ![u] = "activate"]
  <2>1. Working'
    BY Zenon, <1>3 DEF Working, IInv, TypeOK
  <2>2. CASE UNCHANGED <<haveData, setBlockIndexCandidates, nSequenceId>>
    <3>1. Covered'
      BY Zenon, <2>2, CoveredKept DEF BestInv
    <3> QED
      BY Zenon, <2>1, <3>1 DEF BestInv
  <2>3. CASE b \notin haveData /\ ReceivedBlockTransactions(b)
    <3>1. Covered'
      BY Zenon, <2>3, ReceivedBest DEF BestInv
    <3> QED
      BY Zenon, <2>1, <3>1 DEF BestInv
  <2> QED
    BY Zenon, <2>2, <2>3 DEF ProcessNewBlock
<1> QED
  BY Zenon, <1>2, <1>3 DEF ProcessNewBlock

\* After a restart the tip is a candidate, and so is every better chain that was
\* flushed and that the checks accept.
LEMMA RestartBest ==
    ASSUME IInv, IInv', MarkInv, Restart
    PROVE  BestInv' /\ setBlockIndexCandidates' # {}
<1>1. /\ haveData' = disk.data /\ tip' = disk.best /\ tip' \in Block
      /\ nSequenceId' \in [Block -> Nat]
      /\ disk.data \subseteq haveData /\ disk.data \subseteq Block
  BY Zenon DEF Restart, IInv, TypeOK, DiskInv
<1>2. setBlockIndexCandidates' = {b \in LoadedValid : ~Less(nSequenceId', b, tip')}
  BY Zenon DEF Restart, Less
<1>3. \A a, b \in Block : WorkLess(a, b)' <=> Less(nSequenceId', a, b)
  BY Zenon DEF WorkLess, Less
<1>4. ASSUME NEW x \in disk.data, Ancestors[x] \subseteq disk.data,
             Ancestors[x] \cap Unconnectable = {}
      PROVE  x \in LoadedValid
  <2>1. ~Fails(x)
    BY Zenon, <1>1, <1>4 DEF Fails, MarkInv
  <2> QED
    BY Zenon, <1>4, <2>1 DEF LoadedValid, LoadedChainTx, MarkInv
<1>5. /\ tip' \in disk.data /\ Ancestors[tip'] \subseteq disk.data
      /\ Ancestors[tip'] \cap Unconnectable = {}
  BY Zenon, <1>1, TreeAssumption DEF IInv, DiskRecoverable
<1>6. tip' \in setBlockIndexCandidates' /\ Activatable(tip)'
  <2>1. ~Less(nSequenceId', tip', tip')
    BY Zenon, <1>1, LessOrder
  <2> QED
    BY Zenon, <1>1, <1>2, <1>4, <1>5, <2>1 DEF Activatable
<1>7. ASSUME NEW x \in haveData', Activatable(x)'
      PROVE  \E c \in setBlockIndexCandidates' : Activatable(c)' /\ ~WorkLess(c, x)'
  <2>1. x \in disk.data /\ x \in Block /\ x \in LoadedValid
    BY Zenon, <1>1, <1>4, <1>7 DEF Activatable
  <2>2. CASE ~Less(nSequenceId', x, tip')
    <3>1. x \in setBlockIndexCandidates' /\ ~WorkLess(x, x)'
      BY Zenon, <1>1, <1>2, <1>3, <2>1, <2>2, LessOrder
    <3> QED
      BY Zenon, <1>7, <3>1
  <2>3. CASE Less(nSequenceId', x, tip')
    <3>1. ~WorkLess(tip, x)'
      <4>1. ~Less(nSequenceId', tip', x)
        BY Zenon, <1>1, <2>1, <2>3, LessOrder
      <4> QED
        BY Zenon, <4>1 DEF WorkLess, Less
    <3> QED
      BY Zenon, <1>6, <3>1 DEF Activatable, WorkLess
  <2> QED
    BY Zenon, <2>2, <2>3
<1>8. Covered'
  BY Zenon, <1>7 DEF Covered
<1>9. Working'
  <2>1. PICK u \in Thread : pc'[u] \in {"activate", "aborted"}
    BY Zenon DEF Restart
  <2> QED
    BY Zenon, <2>1 DEF Working
<1> QED
  BY Zenon, <1>6, <1>8, <1>9 DEF BestInv

\* Every step of a node whose operator invalidates nothing.
LEMMA NextBest ==
    ASSUME IInv, IInv', MarkInv, MarkInv', StepBest, BestInv, [Next]_vars
    PROVE  BestInv'
<1>1. ~ \E t \in Thread, b \in Block : InvalidateBlock(t, b)
  <2>1. ASSUME NEW t \in Thread, NEW b \in Block, InvalidateBlock(t, b) PROVE FALSE
    <3>1. pc'[t] = "invalidate"
      BY Zenon, <2>1 DEF InvalidateBlock, IInv, TypeOK
    <3> QED
      BY Zenon, <3>1 DEF MarkInv
  <2> QED
    BY Zenon, <2>1
<1>2. CASE (\E b \in Block : AcceptBlockHeader(b)) \/ FlushBlockIndex \/ FlushCoins \/ UNCHANGED vars
  BY Zenon, <1>2, BestSame
     DEF AcceptBlockHeader, FlushBlockIndex, FlushCoins, vars, index, chain, threads
<1>3. CASE \E t \in Thread, b \in Block : ProcessNewBlock(t, b)
  BY Zenon, <1>3, ProcessNewBlockBest
<1>4. CASE \E t \in Thread : Activate(t)
  BY Zenon, <1>4, FindMostWorkChainBest, ConnectStepBest, StepBestKept
     DEF Activate, MarkInv, InvalidateDisconnect, InvalidateFinish
<1>5. ASSUME NEW t \in Thread, NEW b \in Block, ReconsiderBlock(t, b) PROVE BestInv'
  <2>1. /\ UNCHANGED <<haveData, nSequenceId>> /\ pc'[t] = "activate"
        /\ setBlockIndexCandidates \subseteq setBlockIndexCandidates'
    BY Zenon, <1>5 DEF ReconsiderBlock, IInv, TypeOK
  <2>2. Covered'
    BY Zenon, <2>1, CoveredKept DEF BestInv
  <2> QED
    BY Zenon, <2>1, <2>2 DEF BestInv, Working
<1>6. CASE Restart
  BY Zenon, <1>6, RestartBest
<1> QED
  BY Zenon, <1>1, <1>2, <1>3, <1>4, <1>5, <1>6 DEF Next

-----------------------------------------------------------------------------
(* What holds while the operator invalidates nothing, and until a crash *)

QuietInv ==
    /\ StepBest
    /\ calls.crash = 0 => ActiveInv
    /\ calls.invalidate = 0 => MarkInv /\ BestInv

\* It holds after InitBlockIndex.
LEMMA InitQuiet == Init => QuietInv
<1> SUFFICES ASSUME Init PROVE QuietInv
  OBVIOUS
<1>1. ~WorkLess(Genesis, Genesis)
  BY SMTT(20), ConstantTypes DEF Init, WorkLess
<1>2. StepBest /\ ActiveInv
  BY Zenon DEF Init, StepBest, ActiveInv, NoFailedActive, Failed
<1>3. MarkInv
  BY Zenon, ValidityAssumption DEF Init, MarkInv, Failed, ChainTxLinked
<1>4. BestInv
  BY Zenon, <1>1 DEF Init, BestInv, Covered, Settled
<1> QED
  BY Zenon, <1>2, <1>3, <1>4 DEF QuietInv

\* The two bounded calls are counted and never forgotten.
LEMMA CallsCounted ==
    ASSUME IInv, [Next]_vars
    PROVE  /\ calls'.invalidate = 0 => calls.invalidate = 0
           /\ calls'.crash = 0 => calls.crash = 0
           /\ calls'.crash # calls.crash => Restart
<1>0. /\ calls.invalidate \in Nat /\ calls.crash \in Nat
      /\ calls \in [invalidate : 0..MaxInvalidate, reconsider : 0..MaxReconsider, crash : 0..MaxCrash]
  BY ConstantTypes DEF IInv, TypeOK
<1>1. CASE Restart
  <2>1. calls'.crash = calls.crash + 1 /\ calls'.invalidate = calls.invalidate
    BY Zenon, <1>0, <1>1 DEF Restart
  <2> QED
    BY <1>0, <1>1, <2>1
<1>2. ASSUME NEW t \in Thread, NEW b \in Block, InvalidateBlock(t, b)
      PROVE  calls'.invalidate = calls.invalidate + 1 /\ calls'.crash = calls.crash
  BY Zenon, <1>0, <1>2 DEF InvalidateBlock
<1>3. ASSUME NEW t \in Thread, NEW b \in Block, ReconsiderBlock(t, b)
      PROVE  calls'.invalidate = calls.invalidate /\ calls'.crash = calls.crash
  BY Zenon, <1>0, <1>3 DEF ReconsiderBlock
<1>4. CASE /\ ~Restart
           /\ ~ \E t \in Thread, b \in Block : InvalidateBlock(t, b) \/ ReconsiderBlock(t, b)
  <2>1. calls' = calls
    BY Zenon, <1>4 DEF Next, Activate, AcceptBlockHeader, ProcessNewBlock, FindMostWorkChain,
       DisconnectStep, ConnectStep, ConnectFails, CheckTip, InvalidateDisconnect,
       InvalidateFinish, FlushBlockIndex, FlushCoins, vars
  <2> QED
    BY Zenon, <2>1
<1>5. CASE \E t \in Thread, b \in Block : InvalidateBlock(t, b)
  <2>1. calls'.invalidate = calls.invalidate + 1 /\ calls'.crash = calls.crash
    BY Zenon, <1>2, <1>5
  <2> QED
    BY <1>0, <2>1
<1> QED
  BY Zenon, <1>1, <1>3, <1>4, <1>5

\* Every step between states of IInv preserves it.
LEMMA NextQuiet == IInv /\ IInv' /\ QuietInv /\ [Next]_vars => QuietInv'
<1> SUFFICES ASSUME IInv, IInv', QuietInv, [Next]_vars PROVE QuietInv'
  OBVIOUS
<1>1. StepBest'
  BY Zenon, NextStepBest DEF QuietInv
<1>2. calls'.crash = 0 => ActiveInv'
  BY Zenon, CallsCounted, NextActive DEF QuietInv
<1>3. calls'.invalidate = 0 => MarkInv'
  BY Zenon, CallsCounted, NextMarks DEF QuietInv
<1>4. calls'.invalidate = 0 => BestInv'
  BY Zenon, <1>3, CallsCounted, NextBest DEF QuietInv
<1> QED
  BY Zenon, <1>1, <1>2, <1>3, <1>4 DEF QuietInv
=============================================================================
