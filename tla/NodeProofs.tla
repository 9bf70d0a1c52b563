----------------------------- MODULE NodeProofs -----------------------------
(***************************************************************************)
(* Proofs about NodeLifecycle, for any number of nodes and opening         *)
(* threads: no thread uses a node that was deleted, the grants of the      *)
(* semaphore are conserved and the numbers of connections bounded.         *)
(***************************************************************************)
EXTENDS NodeLifecycle, FiniteSetTheorems, TLAPS

\* The records of the openers.
OpenerType == [at : OpenerAt, to : Addr \cup {Null}, node : Node \cup {Null}, seen : Int]

\* The types, without the bounds of the two counters; and a thread has a copy of
\* vNodes only while it works on it.
NodesTyped ==
  /\ place \in [Node -> {"free", "vNodes", "vNodesDisconnected"}]
  /\ ref \in [Node -> Int] /\ flags \in [Node -> SUBSET Flag]
  /\ addr \in [Node -> Addr \cup {Null}]
  /\ grant \subseteq Node /\ sem \in Nat /\ lost \in Nat
  /\ sock \in {"disconnect", "delete", "accept", "copy", "service", "release"}
  /\ msg \in {"copy", "process", "release"}
  /\ sCopy \subseteq Node /\ mCopy \subseteq Node
  /\ open \in [Opener -> OpenerType]
  /\ held \subseteq Opener /\ found \subseteq Node /\ direct \subseteq Node
  /\ sock \notin {"service", "release"} => sCopy = {}
  /\ msg = "copy" => mCopy = {}

\* The connections accepted.
Inbound == {n \in vNodes : "fInbound" \in flags[n]}

\* An opener has a pointer between ConnectNode and setting fNetworkNode, and
\* until AddRef is done it is one to a node that was found; it has handed its
\* grant over before it sets fNetworkNode.
OpenInv ==
  \A o \in Opener :
    /\ open[o].node # Null <=> open[o].at \in {"found", "bump", "move", "mark"}
    /\ open[o].at \in {"found", "bump"} => open[o].node \in found
    /\ open[o].at \in {"idle", "mark"} => o \notin held

\* A node that was dialled with a grant has one, or its opener is about to move it.
Covered ==
  \A n \in Node \ direct :
    place[n] = "vNodes" /\ "fInbound" \notin flags[n] =>
      n \in grant \/ \E o \in held : open[o].at = "move" /\ open[o].node = n

\* A node that was not found: its count covers its users; its opener, if any, is
\* alone, and until it sets fNetworkNode its own reference is not dropped.
Own(n) ==
  /\ RefCovers(n)
  /\ n \in sCopy \cup mCopy \cup grant => place[n] # "free"
  /\ \A o \in Opener : open[o].node = n =>
       /\ place[n] # "free" /\ ~Counted(n) /\ ref[n] >= Copies(n) + 1
       /\ \A p \in Opener : open[p].node = n => p = o

\* The inductive invariant.
NodesInv ==
  /\ NodesTyped /\ GrantsConserved /\ Cardinality(Inbound) <= MaxInbound
  /\ OpenInv /\ Covered /\ \A n \in Node \ found : Own(n)

\* The sets that are counted are finite.
LEMMA NodeSetsFinite ==
  ASSUME NodesTyped
  PROVE  /\ IsFiniteSet(grant) /\ IsFiniteSet(held) /\ IsFiniteSet(Inbound)
         /\ Cardinality(grant) \in Nat /\ Cardinality(held) \in Nat
         /\ Cardinality(Inbound) \in Nat
<1>1. grant \in SUBSET Node /\ held \in SUBSET Opener /\ Inbound \in SUBSET Node
  BY Zenon DEF NodesTyped, Inbound, vNodes, In
<1>2. IsFiniteSet(grant) /\ IsFiniteSet(held) /\ IsFiniteSet(Inbound)
  BY Zenon, <1>1, NodeAssumption, FS_Subset
<1> QED BY Zenon, <1>2, FS_CardinalityType

\* Every step finds the counters within their bounds.
LEMMA NodeBounds ==
  ASSUME NodesInv
  PROVE  NodesTypeOK
<1>1. NodesTyped /\ GrantsConserved
  BY Zenon DEF NodesInv
<1>2. Cardinality(grant) \in Nat /\ Cardinality(held) \in Nat
  BY Zenon, <1>1, NodeSetsFinite
<1>3. sem \in Nat /\ lost \in Nat /\ MaxOutbound \in Nat
  BY Zenon, <1>1, NodeAssumption DEF NodesTyped
<1>4. sem + Cardinality(grant) + Cardinality(held) + lost = MaxOutbound
  BY Zenon, <1>1 DEF GrantsConserved
<1>5. sem \in 0..MaxOutbound /\ lost \in 0..MaxOutbound
  BY <1>2, <1>3, <1>4
<1> QED BY Zenon, <1>1, <1>5 DEF NodesTyped, NodesTypeOK, OpenerType

\* The first state.
LEMMA NodesInitInv == NodesInit => NodesInv
<1> SUFFICES ASSUME NodesInit PROVE NodesInv
  OBVIOUS
<1>0. MaxOutbound \in Nat /\ MaxInbound \in Nat /\ Null \notin Node
  BY Zenon, NodeAssumption
<1>1. NodesTyped
  BY <1>0 DEF NodesInit, NodesTyped, Idle, OpenerAt, OpenerType
<1>2. grant = {} /\ held = {} /\ Inbound = {}
  BY Zenon DEF NodesInit, Inbound, Idle, vNodes, In
<1>3. GrantsConserved
  BY <1>0, <1>2, FS_EmptySet DEF NodesInit, GrantsConserved
<1>4. Cardinality(Inbound) <= MaxInbound
  BY <1>0, <1>2, FS_EmptySet
<1>5. OpenInv /\ Covered
  BY Zenon DEF NodesInit, OpenInv, Covered, Idle
<1>6. \A n \in Node : Own(n)
  BY <1>0 DEF NodesInit, Own, RefCovers, Copies, vNodes, In, Idle, Counted
<1> QED BY Zenon, <1>1, <1>3, <1>4, <1>5, <1>6 DEF NodesInv

\* While the nodes and their grants stay and no opener that has a grant leaves
\* "move", the nodes that were dialled with one stay covered.
LEMMA CoveredKept ==
  ASSUME Covered, UNCHANGED <<place, flags, grant, direct>>,
         \A p \in held : open[p].at = "move" => p \in held' /\ open'[p] = open[p]
  PROVE  Covered'
<1> SUFFICES ASSUME NEW n \in Node \ direct, place[n] = "vNodes", "fInbound" \notin flags[n]
             PROVE  n \in grant \/ \E p \in held' : open'[p].at = "move" /\ open'[p].node = n
  BY Zenon DEF Covered
<1>1. n \in grant \/ \E p \in held : open[p].at = "move" /\ open[p].node = n
  BY Zenon DEF Covered
<1> QED BY Zenon, <1>1

\* What a node's users need does not change with the openers of other nodes.
LEMMA OwnKept ==
  ASSUME NEW n \in Node, Own(n), UNCHANGED <<place, flags, grant, sCopy, mCopy>>,
         ref'[n] = ref[n],
         \A p \in Opener : open'[p].node = n <=> open[p].node = n
  PROVE  Own(n)'
<1>1. Copies(n)' = Copies(n) /\ (n \in vNodes' <=> n \in vNodes) /\ (Counted(n)' <=> Counted(n))
  BY Zenon DEF Copies, Counted, vNodes, In
<1>2. RefCovers(n)' <=> RefCovers(n)
  BY Zenon, <1>1 DEF RefCovers
<1> QED BY Zenon, <1>1, <1>2 DEF Own

\* Without a new inbound connection the limit stays.
LEMMA InboundShrinks ==
  ASSUME NodesInv, Inbound' \subseteq Inbound
  PROVE  Cardinality(Inbound') <= MaxInbound
<1>1. IsFiniteSet(Inbound) /\ Cardinality(Inbound) \in Nat /\ Cardinality(Inbound) <= MaxInbound
  BY Zenon, NodeSetsFinite DEF NodesInv
<1>2. IsFiniteSet(Inbound') /\ Cardinality(Inbound') <= Cardinality(Inbound)
  BY Zenon, <1>1, FS_Subset
<1>3. Cardinality(Inbound') \in Nat
  BY Zenon, <1>2, FS_CardinalityType
<1> QED BY <1>1, <1>2, <1>3, NodeAssumption

\* Nodes that let go of their grants post the semaphore once for each.
LEMMA GrantsPosted ==
  ASSUME NodesTyped, GrantsConserved, NEW S,
         grant' = grant \ S, sem' = Posted(S), UNCHANGED <<open, held, lost>>
  PROVE  GrantsConserved' /\ sem' \in Nat
<1>1. IsFiniteSet(grant) /\ Cardinality(grant) \in Nat /\ Cardinality(held) \in Nat
  BY Zenon, NodeSetsFinite
<1>2. /\ IsFiniteSet(grant \ S)
      /\ Cardinality(grant \ S) = Cardinality(grant) - Cardinality(grant \cap S)
  BY Zenon, <1>1, FS_Difference
<1>3. Cardinality(grant \cap S) \in Nat /\ Cardinality(grant \ S) \in Nat
  <2>1. (grant \cap S) \in SUBSET grant
    OBVIOUS
  <2>2. IsFiniteSet(grant \cap S)
    BY Zenon, <1>1, <2>1, FS_Subset
  <2> QED BY Zenon, <1>2, <2>2, FS_CardinalityType
<1>4. sem \in Nat /\ lost \in Nat /\ MaxOutbound \in Nat
  BY Zenon, NodeAssumption DEF NodesTyped
<1>5. sem + Cardinality(grant) + Cardinality(held) + lost = MaxOutbound
  BY Zenon DEF GrantsConserved
<1>6. held' = held
  OBVIOUS
<1>7. sem' = sem + Cardinality(grant \cap S)
  BY Zenon DEF Posted
<1>8. sem' + Cardinality(grant') + Cardinality(held') + lost' = MaxOutbound
  BY <1>1, <1>2, <1>3, <1>4, <1>5, <1>6, <1>7
<1> QED BY <1>3, <1>4, <1>7, <1>8 DEF GrantsConserved

\* ThreadSocketHandler takes nodes out of vNodes: the reference of the list goes
\* with the node's place in it, and no node without references is left in it but
\* those that were found.
LEMMA DisconnectInv ==
  ASSUME NodesInv, Disconnect
  PROVE  NodesInv'
<1> PICK unused \in SUBSET {n \in vNodes : ref[n] <= 0} :
      LET gone == {n \in vNodes : "fDisconnect" \in flags[n]} \cup unused IN
      /\ sock = "disconnect" /\ sock' = "delete"
      /\ place' = [n \in Node |-> IF n \in gone THEN "vNodesDisconnected" ELSE place[n]]
      /\ grant' = grant \ gone
      /\ sem' = Posted(gone)
      /\ ref' = [n \in Node |-> IF n \in gone /\ Counted(n) THEN ref[n] - 1 ELSE ref[n]]
      /\ UNCHANGED <<flags, addr, sCopy, msg, mCopy, open, held, found, direct, lost>>
  BY Zenon DEF Disconnect
<1> DEFINE gone == {n \in vNodes : "fDisconnect" \in flags[n]} \cup unused
<1>0. NodesTyped /\ GrantsConserved /\ OpenInv /\ Covered /\ \A n \in Node \ found : Own(n)
  BY Zenon DEF NodesInv
<1>1. gone \subseteq vNodes /\ vNodes = {n \in Node : place[n] = "vNodes"}
  BY Zenon DEF vNodes, In
<1>2. GrantsConserved' /\ sem' \in Nat
  BY Zenon, <1>0, GrantsPosted
<1>3. NodesTyped'
  BY <1>0, <1>2 DEF NodesTyped
<1>4. \A n \in Node : place'[n] = IF n \in gone THEN "vNodesDisconnected" ELSE place[n]
  OBVIOUS
<1>5. Inbound' \subseteq Inbound
  BY Zenon, <1>4 DEF Inbound, vNodes, In
<1>6. OpenInv'
  BY Zenon, <1>0 DEF OpenInv
<1>7. Covered'
  BY Zenon, <1>0, <1>4 DEF Covered
<1>8. ASSUME NEW n \in Node \ found PROVE Own(n)'
  <2>1. Own(n) /\ ref[n] \in Int /\ Copies(n)' = Copies(n) /\ Copies(n) \in 0..2
    BY <1>0 DEF NodesTyped, Copies
  <2>2. (n \in vNodes)' <=> n \in vNodes /\ n \notin gone
    BY Zenon, <1>1, <1>4 DEF vNodes, In
  <2>3. ref'[n] = IF n \in gone /\ Counted(n) THEN ref[n] - 1 ELSE ref[n]
    OBVIOUS
  <2>4. RefCovers(n)'
    BY <1>1, <2>1, <2>2, <2>3 DEF Own, RefCovers
  <2>5. place[n] # "free" => place'[n] # "free"
    BY Zenon, <1>4
  <2>6. Counted(n)' <=> Counted(n)
    BY Zenon DEF Counted
  <2>7. (n \in sCopy \cup mCopy \cup grant => place[n] # "free")'
    BY Zenon, <2>1, <2>5 DEF Own
  <2>8. ASSUME NEW o \in Opener, open'[o].node = n
        PROVE  /\ place'[n] # "free" /\ ~Counted(n)' /\ ref'[n] >= Copies(n)' + 1
               /\ \A p \in Opener : open'[p].node = n => p = o
    BY Zenon, <2>1, <2>3, <2>5, <2>6, <2>8 DEF Own
  <2> QED BY Zenon, <2>4, <2>7, <2>8 DEF Own
<1>9. Cardinality(Inbound') <= MaxInbound
  BY Zenon, <1>5, InboundShrinks
<1> QED BY Zenon, <1>2, <1>3, <1>6, <1>7, <1>8, <1>9 DEF NodesInv

\* ThreadSocketHandler deletes nodes: nobody refers to them, but for those found.
LEMMA DeleteInv ==
  ASSUME NodesInv, Delete
  PROVE  NodesInv'
<1> DEFINE dead == {n \in Node : Deletable(n)}
<1>0. NodesTyped /\ GrantsConserved /\ OpenInv /\ Covered /\ \A n \in Node \ found : Own(n)
  BY Zenon DEF NodesInv
<1>1. /\ sock' = "accept" /\ grant' = grant \ dead /\ sem' = Posted(dead)
      /\ UNCHANGED <<sCopy, msg, mCopy, open, held, found, direct, lost>>
  BY Zenon DEF Delete
<1>2. GrantsConserved' /\ sem' \in Nat
  BY Zenon, <1>0, <1>1, GrantsPosted
<1>3. \A n \in Node :
        /\ place'[n] = IF n \in dead THEN "free" ELSE place[n]
        /\ ref'[n] = IF n \in dead THEN 0 ELSE ref[n]
        /\ flags'[n] = IF n \in dead THEN {} ELSE flags[n]
        /\ n \in dead => place[n] = "vNodesDisconnected" /\ ref[n] <= 0
  BY Zenon DEF Delete, Deletable
<1>4. NodesTyped'
  BY <1>0, <1>1, <1>2 DEF NodesTyped, Delete
<1>5. Inbound' \subseteq Inbound
  BY Zenon, <1>3 DEF Inbound, vNodes, In
<1>6. OpenInv'
  BY Zenon, <1>0, <1>1 DEF OpenInv
<1>7. Covered'
  BY Zenon, <1>0, <1>1, <1>3 DEF Covered
<1>8. ASSUME NEW n \in Node \ found PROVE Own(n)'
  <2>1. Own(n) /\ ref[n] \in Int /\ Copies(n)' = Copies(n) /\ Copies(n) \in 0..2
    BY <1>0, <1>1 DEF NodesTyped, Copies
  <2>2. (n \in vNodes)' <=> n \in vNodes
    BY Zenon, <1>3 DEF vNodes, In
  <2>3. CASE n \notin dead
    BY Zenon, <1>1, <1>3, <2>1, <2>2, <2>3 DEF Own, RefCovers, Counted
  <2>4. CASE n \in dead
    <3>1. ref[n] <= 0 /\ n \notin vNodes /\ ref'[n] = 0
      BY Zenon, <1>3, <2>4 DEF vNodes, In
    <3>2. Copies(n) = 0 /\ n \notin sCopy \cup mCopy
      BY <2>1, <3>1 DEF Own, RefCovers, Copies
    <3>3. \A o \in Opener : open[o].node # n
      BY <2>1, <3>1 DEF Own
    <3> QED BY <1>1, <2>1, <2>2, <2>4, <3>1, <3>2, <3>3 DEF Own, RefCovers
  <2> QED BY Zenon, <2>3, <2>4
<1>9. Cardinality(Inbound') <= MaxInbound
  BY Zenon, <1>5, InboundShrinks
<1> QED BY Zenon, <1>1, <1>2, <1>4, <1>6, <1>7, <1>8, <1>9 DEF NodesInv

\* A node that is added has no grant; one left in its memory is lost.
LEMMA GrantsAdded ==
  ASSUME NodesTyped, GrantsConserved, NEW n,
         grant' = grant \ {n}, lost' = lost + Cardinality(grant \cap {n}),
         sem' = sem, held' = held
  PROVE  GrantsConserved' /\ lost' \in Nat
<1>1. IsFiniteSet(grant) /\ Cardinality(grant) \in Nat /\ Cardinality(held) \in Nat
  BY Zenon, NodeSetsFinite
<1>2. /\ IsFiniteSet(grant \ {n})
      /\ Cardinality(grant \ {n}) = Cardinality(grant) - Cardinality(grant \cap {n})
  BY Zenon, <1>1, FS_Difference
<1>3. Cardinality(grant \cap {n}) \in Nat /\ Cardinality(grant \ {n}) \in Nat
  <2>1. (grant \cap {n}) \in SUBSET grant
    OBVIOUS
  <2>2. IsFiniteSet(grant \cap {n})
    BY Zenon, <1>1, <2>1, FS_Subset
  <2> QED BY Zenon, <1>2, <2>2, FS_CardinalityType
<1>4. sem \in Nat /\ lost \in Nat /\ MaxOutbound \in Nat
  BY Zenon, NodeAssumption DEF NodesTyped
<1>5. sem + Cardinality(grant) + Cardinality(held) + lost = MaxOutbound
  BY Zenon DEF GrantsConserved
<1>6. sem' + Cardinality(grant') + Cardinality(held') + lost' = MaxOutbound
  BY <1>1, <1>2, <1>3, <1>4, <1>5
<1> QED BY <1>3, <1>4, <1>6 DEF GrantsConserved

\* What holds of the other nodes when one is added.
LEMMA OthersKept ==
  ASSUME NodesInv, NEW n \in Node, NEW a, NEW fl, NEW bare, Added(n, a, fl, bare),
         UNCHANGED <<sCopy, mCopy>>,
         NEW k \in Node \ found', k # n,
         \A o \in Opener : open'[o].node = k <=> open[o].node = k
  PROVE  Own(k)'
<1>1. k \in Node \ found /\ NodesTyped
  BY Zenon DEF Added, NodesInv
<1>2. Own(k) /\ ref[k] \in Int /\ Copies(k)' = Copies(k) /\ Copies(k) \in 0..2
  BY <1>1 DEF NodesInv, NodesTyped, Copies
<1>3. place'[k] = place[k] /\ ref'[k] = ref[k] /\ flags'[k] = flags[k]
  BY Zenon, <1>1 DEF Added, NodesTyped
<1>4. (k \in vNodes)' <=> k \in vNodes
  BY Zenon, <1>3 DEF vNodes, In
<1>5. k \in grant' => k \in grant
  BY Zenon DEF Added
<1> QED BY Zenon, <1>2, <1>3, <1>4, <1>5 DEF Own, RefCovers, Counted

\* The node that is added has one reference, that of its place in vNodes.
LEMMA AddedOwn ==
  ASSUME NodesInv, NEW n \in Node, NEW a, NEW fl, NEW bare, Fresh(n), Added(n, a, fl, bare),
         UNCHANGED <<sCopy, mCopy>>
  PROVE  /\ place'[n] = "vNodes" /\ ref'[n] = 1 /\ flags'[n] = fl /\ Copies(n)' = 0
         /\ RefCovers(n)' /\ n \notin grant'
<1>1. place'[n] = "vNodes" /\ ref'[n] = 1 /\ flags'[n] = fl /\ n \notin grant'
  BY Zenon DEF NodesInv, NodesTyped, Added
<1>2. Copies(n)' = 0
  BY DEF Fresh, Copies
<1> QED BY <1>1, <1>2 DEF RefCovers, vNodes, In

\* ThreadSocketHandler accepts a caller below the limit.
LEMMA AcceptInv ==
  ASSUME NodesInv, Accept
  PROVE  NodesInv'
<1>0. /\ NodesTyped /\ GrantsConserved /\ OpenInv /\ Covered /\ \A n \in Node \ found : Own(n)
      /\ Cardinality(Inbound) <= MaxInbound
  BY Zenon DEF NodesInv
<1>1. sock = "accept" /\ sock' = "copy" /\ UNCHANGED <<sem, sCopy, msg, mCopy, open, held>>
  BY Zenon DEF Accept
<1>2. held' = held
  BY Zenon, <1>1
<1>3. CASE UNCHANGED <<place, ref, flags, addr, grant, found, direct, lost>>
  <2>1. NodesTyped' /\ GrantsConserved' /\ OpenInv' /\ Covered'
    BY <1>0, <1>1, <1>3 DEF NodesTyped, GrantsConserved, OpenInv, Covered
  <2>2. Inbound' = Inbound
    BY Zenon, <1>3 DEF Inbound, vNodes, In
  <2>3. \A n \in Node : Own(n)' <=> Own(n)
    BY <1>1, <1>3 DEF Own, RefCovers, Copies, Counted, vNodes, In
  <2> QED BY Zenon, <1>0, <1>3, <2>1, <2>2, <2>3 DEF NodesInv
<1>4. CASE Room /\ \E n \in Node, a \in Callers : Fresh(n) /\ Added(n, a, {"fInbound"}, FALSE)
  <2> PICK n \in Node, a \in Callers : Fresh(n) /\ Added(n, a, {"fInbound"}, FALSE)
    BY Zenon, <1>4
  <2>1. /\ place'[n] = "vNodes" /\ ref'[n] = 1 /\ flags'[n] = {"fInbound"} /\ Copies(n)' = 0
        /\ RefCovers(n)' /\ n \notin grant'
    BY Zenon, <1>1, AddedOwn
  <2>2. \A k \in Node : k # n => place'[k] = place[k] /\ flags'[k] = flags[k]
    BY Zenon, <1>0 DEF Added, NodesTyped
  <2>3. GrantsConserved' /\ lost' \in Nat
    BY Zenon, <1>0, <1>1, <1>2, GrantsAdded DEF Added
  <2>4. a \in Addr /\ {"fInbound"} \in SUBSET Flag
    BY Zenon, NodeAssumption DEF Flag
  <2>5. NodesTyped'
    BY <1>0, <1>1, <2>3, <2>4 DEF NodesTyped, Added
  <2>6. Cardinality(Inbound') <= MaxInbound
    <3>1. Inbound' = Inbound \cup {n} /\ n \notin Inbound
      BY Zenon, <2>1, <2>2 DEF Inbound, vNodes, In, Fresh
    <3>2. IsFiniteSet(Inbound) /\ Cardinality(Inbound) \in Nat
      BY Zenon, <1>0, NodeSetsFinite
    <3>3. Cardinality(Inbound') = Cardinality(Inbound) + 1
      BY Zenon, <3>1, <3>2, FS_AddElement
    <3>4. Cardinality(Inbound) < MaxInbound
      BY Zenon, <1>4 DEF Room, Inbound
    <3> QED BY <3>2, <3>3, <3>4, NodeAssumption
  <2>7. OpenInv'
    BY Zenon, <1>0, <1>1 DEF OpenInv, Added, Fresh
  <2>8. Covered'
    BY <1>0, <1>1, <2>1, <2>2 DEF Covered, Added
  <2>9. ASSUME NEW k \in Node \ found' PROVE Own(k)'
    <3>1. CASE k = n
      BY Zenon, <1>1, <2>1, <3>1 DEF Own, Fresh
    <3>2. CASE k # n
      BY Zenon, <1>1, <3>2, OthersKept
    <3> QED BY Zenon, <3>1, <3>2
  <2> QED BY Zenon, <2>3, <2>5, <2>6, <2>7, <2>8, <2>9 DEF NodesInv
<1> QED BY Zenon, <1>3, <1>4 DEF Accept

\* A thread copies vNodes and adds a reference to every node of the copy, or
\* releases its copy.
LEMMA CopiesInv ==
  ASSUME NodesInv, NodesTyped', UNCHANGED <<place, flags, grant, sem, open, held, found, direct, lost>>,
         \A n \in Node : ref'[n] - ref[n] = Copies(n)' - Copies(n),
         \A n \in Node : n \in sCopy' \cup mCopy' =>
                           n \in sCopy \cup mCopy \/ place[n] = "vNodes"
  PROVE  NodesInv'
<1>0. NodesTyped /\ GrantsConserved /\ OpenInv /\ Covered /\ \A n \in Node \ found : Own(n)
  BY Zenon DEF NodesInv
<1>1. GrantsConserved' /\ OpenInv' /\ Covered'
  BY Zenon, <1>0 DEF GrantsConserved, OpenInv, Covered
<1>2. Cardinality(Inbound') <= MaxInbound
  <2>1. Inbound' = Inbound
    BY Zenon DEF Inbound, vNodes, In
  <2> QED BY Zenon, <2>1, InboundShrinks
<1>3. ASSUME NEW n \in Node \ found PROVE Own(n)'
  <2>1. Own(n) /\ ref[n] \in Int /\ ref'[n] \in Int
    BY Zenon, <1>0 DEF NodesTyped
  <2>2. Copies(n) \in 0..2 /\ Copies(n)' \in 0..2
    BY DEF Copies
  <2>3. RefCovers(n)'
    BY <2>1, <2>2 DEF Own, RefCovers, vNodes, In
  <2>4. (n \in sCopy \cup mCopy \cup grant => place[n] # "free")'
    BY Zenon, <2>1 DEF Own
  <2>5. Counted(n)' <=> Counted(n)
    BY Zenon DEF Counted
  <2>6. ASSUME NEW o \in Opener, open[o].node = n
        PROVE  ref'[n] >= Copies(n)' + 1
    BY <2>1, <2>2, <2>6 DEF Own
  <2> QED BY Zenon, <2>1, <2>3, <2>4, <2>5, <2>6 DEF Own
<1> QED BY Zenon, <1>1, <1>2, <1>3 DEF NodesInv

\* ThreadSocketHandler and ThreadMessageHandler copy vNodes and release the copies.
LEMMA ThreadCopiesInv ==
  ASSUME NodesInv, SocketCopy \/ SocketRelease \/ MessageCopy \/ MessageRelease
  PROVE  NodesInv'
<1>0. NodesTyped
  BY Zenon DEF NodesInv
<1>1. UNCHANGED <<place, flags, grant, sem, open, held, found, direct, lost>>
  BY Zenon DEF SocketCopy, SocketRelease, MessageCopy, MessageRelease
<1>2. ref \in [Node -> Int] /\ vNodes \subseteq Node
  BY Zenon, <1>0 DEF NodesTyped, vNodes, In
<1>3. NodesTyped'
  BY <1>0, <1>2 DEF NodesTyped, SocketCopy, SocketRelease, MessageCopy, MessageRelease,
                    With, Without
<1>4. CASE SocketCopy
  <2>1. sCopy = {} /\ sCopy' = vNodes /\ mCopy' = mCopy /\ ref' = With(vNodes)
    BY Zenon, <1>0, <1>4 DEF SocketCopy, NodesTyped
  <2>2. \A n \in Node : ref'[n] - ref[n] = Copies(n)' - Copies(n)
    BY <1>2, <2>1 DEF With, Copies
  <2>3. \A n \in vNodes : place[n] = "vNodes"
    BY Zenon DEF vNodes, In
  <2> QED BY Zenon, <1>1, <1>3, <2>1, <2>2, <2>3, CopiesInv
<1>5. CASE MessageCopy
  <2>1. mCopy = {} /\ mCopy' = vNodes /\ sCopy' = sCopy /\ ref' = With(vNodes)
    BY Zenon, <1>0, <1>5 DEF MessageCopy, NodesTyped
  <2>2. \A n \in Node : ref'[n] - ref[n] = Copies(n)' - Copies(n)
    BY <1>2, <2>1 DEF With, Copies
  <2>3. \A n \in vNodes : place[n] = "vNodes"
    BY Zenon DEF vNodes, In
  <2> QED BY Zenon, <1>1, <1>3, <2>1, <2>2, <2>3, CopiesInv
<1>6. CASE SocketRelease
  <2>1. sCopy' = {} /\ mCopy' = mCopy /\ ref' = Without(sCopy)
    BY Zenon, <1>6 DEF SocketRelease
  <2>2. \A n \in Node : ref'[n] - ref[n] = Copies(n)' - Copies(n)
    BY <1>2, <2>1 DEF Without, Copies
  <2> QED BY Zenon, <1>1, <1>3, <2>1, <2>2, CopiesInv
<1>7. CASE MessageRelease
  <2>1. mCopy' = {} /\ sCopy' = sCopy /\ ref' = Without(mCopy)
    BY Zenon, <1>7 DEF MessageRelease
  <2>2. \A n \in Node : ref'[n] - ref[n] = Copies(n)' - Copies(n)
    BY <1>2, <2>1 DEF Without, Copies
  <2> QED BY Zenon, <1>1, <1>3, <2>1, <2>2, CopiesInv
<1> QED BY Zenon, <1>4, <1>5, <1>6, <1>7

\* The two threads mark nodes for disconnection while they work on their copies.
LEMMA MarksInv ==
  ASSUME NodesInv, Service \/ Process
  PROVE  NodesInv'
<1>0. NodesTyped /\ GrantsConserved /\ OpenInv /\ Covered /\ \A n \in Node \ found : Own(n)
  BY Zenon DEF NodesInv
<1>1. UNCHANGED <<place, ref, addr, grant, sem, sCopy, mCopy, open, held, found, direct, lost>>
  BY Zenon DEF Service, Process
<1>2. PICK S : flags' = [n \in Node |-> IF n \in S THEN flags[n] \cup {"fDisconnect"}
                                                   ELSE flags[n]]
  BY Zenon DEF Service, Process
<1>3. \A n \in Node : flags'[n] \cap {"fNetworkNode", "fInbound"}
                        = flags[n] \cap {"fNetworkNode", "fInbound"}
  BY Zenon, <1>2
<1>4. flags' \in [Node -> SUBSET Flag]
  BY Zenon, <1>0, <1>2 DEF NodesTyped, Flag
<1>5. NodesTyped'
  BY Zenon, <1>0, <1>1, <1>4 DEF NodesTyped, Service, Process
<1>6. \A n \in Node : ("fInbound" \in flags'[n] <=> "fInbound" \in flags[n])
  BY Zenon, <1>3
<1>7. GrantsConserved' /\ OpenInv' /\ Covered'
  BY Zenon, <1>0, <1>1, <1>6 DEF GrantsConserved, OpenInv, Covered
<1>8. Cardinality(Inbound') <= MaxInbound
  <2>1. Inbound' = Inbound
    BY Zenon, <1>1, <1>6 DEF Inbound, vNodes, In
  <2> QED BY Zenon, <2>1, InboundShrinks
<1>9. \A n \in Node : Own(n)' <=> Own(n)
  BY <1>1, <1>3 DEF Own, RefCovers, Copies, Counted, vNodes, In
<1> QED BY Zenon, <1>0, <1>1, <1>5, <1>7, <1>8, <1>9 DEF NodesInv

\* An opener that starts, with a grant or without one, or gives up and posts the
\* grant it has.
LEMMA OpenOrGiveUpInv ==
  ASSUME NodesInv, NEW o \in Opener,
         \/ \E a \in Addr : Open(o, a) \/ OpenName(o, a) \/ OpenDirect(o, a)
         \/ open[o].at = "dial" /\ GiveUp(o) /\ UNCHANGED <<sock, sCopy, msg, mCopy>>
  PROVE  NodesInv'
<1>0. NodesTyped /\ GrantsConserved /\ OpenInv /\ Covered /\ \A n \in Node \ found : Own(n)
  BY Zenon DEF NodesInv
<1>1. UNCHANGED <<place, ref, flags, addr, grant, sock, sCopy, msg, mCopy, found, direct, lost>>
  BY Zenon DEF Open, OpenName, OpenDirect, Start, GiveUp
<1>2. IsFiniteSet(held) /\ Cardinality(held) \in Nat /\ Cardinality(grant) \in Nat
  BY Zenon, <1>0, NodeSetsFinite
<1>3. /\ sem \in Nat /\ lost \in Nat /\ MaxOutbound \in Nat
      /\ sem + Cardinality(grant) + Cardinality(held) + lost = MaxOutbound
  BY Zenon, <1>0, NodeAssumption DEF NodesTyped, GrantsConserved
<1>4. open \in [Opener -> OpenerType] /\ held \in SUBSET Opener
  BY Zenon, <1>0 DEF NodesTyped
<1>5. open[o].node = Null /\ open[o].at \in {"idle", "dial"}
  BY Zenon, <1>0, <1>4 DEF OpenInv, Open, OpenName, OpenDirect, Start
<1>6. /\ open'[o].node = Null /\ open'[o].at \in {"idle", "find", "dial"}
      /\ open' \in [Opener -> OpenerType]
      /\ \A p \in Opener : p # o => open'[p] = open[p]
  <2>1. PICK r \in OpenerType :
          /\ open' = [open EXCEPT ![o] = r]
          /\ r.node = Null /\ r.at \in {"idle", "find", "dial"}
    <3>1. CASE \E a \in Addr : Open(o, a) \/ OpenName(o, a) \/ OpenDirect(o, a)
      <4> PICK a \in Addr, p \in {"find", "dial"} : Start(o, a, p)
        BY Zenon, <3>1 DEF Open, OpenName, OpenDirect
      <4> DEFINE r == [at |-> p, to |-> a, node |-> Null, seen |-> 0]
      <4>1. r \in OpenerType /\ r.node = Null /\ r.at = p
        BY DEF OpenerAt, OpenerType
      <4>2. open' = [open EXCEPT ![o] = r]
        BY Zenon DEF Start
      <4> QED BY Zenon, <4>1, <4>2
    <3>2. CASE GiveUp(o)
      <4>1. Idle \in OpenerType /\ Idle.node = Null /\ Idle.at = "idle"
        BY DEF Idle, OpenerAt, OpenerType
      <4> QED BY Zenon, <3>2, <4>1 DEF GiveUp
    <3> QED BY Zenon, <3>1, <3>2
  <2> QED BY Zenon, <1>4, <2>1
<1>7. /\ sem' \in Nat /\ held' \in SUBSET Opener
      /\ sem' + Cardinality(held') = sem + Cardinality(held)
      /\ \A p \in Opener : p # o => (p \in held' <=> p \in held)
      /\ open'[o].at = "idle" => o \notin held'
  <2>1. CASE \E a \in Addr : Open(o, a) \/ OpenName(o, a)
    <3>1. /\ open[o].at = "idle" /\ open'[o].at \in {"find", "dial"}
          /\ sem > 0 /\ sem' = sem - 1 /\ held' = held \cup {o}
      BY <1>4, <2>1 DEF Open, OpenName, Start, Wait
    <3>2. o \notin held
      BY Zenon, <1>0, <3>1 DEF OpenInv
    <3>3. Cardinality(held') = Cardinality(held) + 1
      BY Zenon, <1>2, <3>1, <3>2, FS_AddElement
    <3>4. sem' \in Nat /\ sem' + Cardinality(held') = sem + Cardinality(held)
      BY <1>2, <1>3, <3>1, <3>3
    <3> QED BY Zenon, <1>4, <3>1, <3>4
  <2>2. CASE \E a \in Addr : OpenDirect(o, a)
    <3>1. open'[o].at = "dial" /\ UNCHANGED <<sem, held>>
      BY <1>4, <2>2 DEF OpenDirect, Start
    <3> QED BY Zenon, <1>3, <1>4, <3>1
  <2>3. CASE GiveUp(o)
    <3>1. held' = held \ {o} /\ sem' = sem + Cardinality(held \cap {o})
      BY Zenon, <2>3 DEF GiveUp
    <3>2. /\ IsFiniteSet(held \ {o})
          /\ Cardinality(held \ {o}) = Cardinality(held) - Cardinality(held \cap {o})
      BY Zenon, <1>2, FS_Difference
    <3>3. Cardinality(held \cap {o}) \in Nat /\ Cardinality(held \ {o}) \in Nat
      <4>1. (held \cap {o}) \in SUBSET held
        OBVIOUS
      <4>2. IsFiniteSet(held \cap {o})
        BY Zenon, <1>2, <4>1, FS_Subset
      <4> QED BY Zenon, <3>2, <4>2, FS_CardinalityType
    <3>4. sem' \in Nat /\ sem' + Cardinality(held') = sem + Cardinality(held)
      BY <1>2, <1>3, <3>1, <3>2, <3>3
    <3> QED BY Zenon, <1>4, <3>1, <3>4
  <2> QED BY Zenon, <2>1, <2>2, <2>3
<1>8. NodesTyped'
  BY Zenon, <1>0, <1>1, <1>6, <1>7 DEF NodesTyped
<1>9. GrantsConserved'
  <2>1. Cardinality(held') \in Nat
    BY Zenon, <1>7, FS_Subset, FS_CardinalityType, NodeAssumption
  <2>2. sem' + Cardinality(grant') + Cardinality(held') + lost' = MaxOutbound
    BY <1>1, <1>2, <1>3, <1>7, <2>1
  <2> QED BY Zenon, <2>2 DEF GrantsConserved
<1>10. OpenInv'
  BY Zenon, <1>0, <1>1, <1>6, <1>7 DEF OpenInv
<1>11. Covered'
  <2>1. \A p \in held : open[p].at = "move" => p \in held' /\ open'[p] = open[p]
    BY Zenon, <1>4, <1>5, <1>6, <1>7
  <2> QED BY Zenon, <1>0, <1>1, <2>1, CoveredKept
<1>12. Cardinality(Inbound') <= MaxInbound
  <2>1. Inbound' = Inbound
    BY Zenon, <1>1 DEF Inbound, vNodes, In
  <2> QED BY Zenon, <2>1, InboundShrinks
<1>13. ASSUME NEW n \in Node \ found PROVE Own(n)'
  <2>1. \A p \in Opener : open'[p].node = n <=> open[p].node = n
    BY Zenon, <1>5, <1>6
  <2> QED BY Zenon, <1>0, <1>1, <2>1, OwnKept
<1> QED BY Zenon, <1>1, <1>8, <1>9, <1>10, <1>11, <1>12, <1>13 DEF NodesInv

\* What is known of the record of an opener.
LEMMA OpenerSteps ==
  ASSUME NodesInv, NEW o \in Opener
  PROVE  /\ open[o] = [at |-> open[o].at, to |-> open[o].to, node |-> open[o].node,
                       seen |-> open[o].seen]
         /\ open[o].to \in Addr \cup {Null} /\ open[o].node \in Node \cup {Null}
         /\ open[o].seen \in Int
         /\ open[o].node # Null <=> open[o].at \in {"found", "bump", "move", "mark"}
         /\ open[o].at \in {"found", "bump"} => open[o].node \in found
         /\ open[o].at \in {"found", "bump", "move", "mark"} => open[o].node \in Node
<1>1. open \in [Opener -> OpenerType] /\ OpenInv
  BY Zenon DEF NodesInv, NodesTyped
<1>2. open[o] \in OpenerType
  BY Zenon, <1>1
<1> QED BY Zenon, <1>1, <1>2 DEF OpenInv, OpenerType

\* ConnectNode's FindNode returns a node of vNodes, which is one that was found
\* from now on, or none.
LEMMA FindInv ==
  ASSUME NodesInv, NEW o \in Opener, Find(o)
  PROVE  NodesInv'
<1>0. NodesTyped /\ GrantsConserved /\ OpenInv /\ Covered /\ \A n \in Node \ found : Own(n)
  BY Zenon DEF NodesInv
<1>1. UNCHANGED <<place, ref, flags, addr, grant, sem, sock, sCopy, msg, mCopy, held, direct, lost>>
  BY Zenon DEF Find
<1>2. open[o].at = "find" /\ open[o].node = Null
  BY Zenon, OpenerSteps DEF Find
<1>3. /\ open'[o].at \in {"found", "dial"}
      /\ open'[o].at = "found" => open'[o].node \in Node /\ open'[o].node \in found'
      /\ open'[o].at = "dial" => open'[o].node = Null
      /\ open' \in [Opener -> OpenerType]
      /\ \A p \in Opener : p # o => open'[p] = open[p]
      /\ found \subseteq found' /\ found' \subseteq Node
  <2>0. /\ open \in [Opener -> OpenerType]
        /\ found \subseteq Node
    BY Zenon, <1>0 DEF NodesTyped
  <2>1. CASE \E n \in vNodes : /\ open' = [open EXCEPT ![o].at = "found", ![o].node = n]
                               /\ found' = found \cup {n}
    <3> PICK n \in vNodes : /\ open' = [open EXCEPT ![o].at = "found", ![o].node = n]
                            /\ found' = found \cup {n}
      BY Zenon, <2>1
    <3>1. n \in Node
      BY Zenon DEF vNodes, In
    <3> QED BY ZenonT(30), <2>0, <3>1 DEF OpenerAt, OpenerType
  <2>2. CASE Goes(o, "dial") /\ UNCHANGED found
    BY <1>2, <2>0, <2>2 DEF Goes, OpenerAt, OpenerType
  <2> QED BY Zenon, <2>1, <2>2 DEF Find
<1>4. NodesTyped'
  BY Zenon, <1>0, <1>1, <1>3 DEF NodesTyped
<1>5. GrantsConserved'
  BY Zenon, <1>0, <1>1 DEF GrantsConserved
<1>7. OpenInv'
  BY Zenon, <1>0, <1>1, <1>3, NodeAssumption DEF OpenInv
<1>8. Covered'
  <2>1. \A p \in held : open[p].at = "move" => p \in held' /\ open'[p] = open[p]
    BY Zenon, <1>0, <1>1, <1>2, <1>3 DEF NodesTyped
  <2> QED BY Zenon, <1>0, <1>1, <2>1, CoveredKept
<1>9. Cardinality(Inbound') <= MaxInbound
  <2>1. Inbound' = Inbound
    BY Zenon, <1>1 DEF Inbound, vNodes, In
  <2> QED BY Zenon, <2>1, InboundShrinks
<1>10. ASSUME NEW n \in Node \ found' PROVE Own(n)'
  <2>1. \A p \in Opener : open'[p].node = n <=> open[p].node = n
    BY Zenon, <1>2, <1>3, NodeAssumption
  <2> QED BY Zenon, <1>0, <1>1, <1>3, <2>1, OwnKept
<1> QED BY Zenon, <1>4, <1>5, <1>7, <1>8, <1>9, <1>10 DEF NodesInv

\* AddRef on a node that was found: its count may come out wrong, those of the
\* others are untouched.
LEMMA AddRefInv ==
  ASSUME NodesInv, NEW o \in Opener, Load(o) \/ Store(o)
  PROVE  NodesInv'
<1>0. NodesTyped /\ GrantsConserved /\ OpenInv /\ Covered /\ \A n \in Node \ found : Own(n)
  BY Zenon DEF NodesInv
<1>1. UNCHANGED <<place, flags, addr, grant, sem, sock, sCopy, msg, mCopy, held, found, direct, lost>>
  BY Zenon DEF Load, Store
<1>2. open[o].at \in {"found", "bump"} /\ open[o].node \in found /\ open[o].node \in Node
  BY Zenon, OpenerSteps DEF Load, Store
<1>3. open \in [Opener -> OpenerType]
      /\ ref \in [Node -> Int]
  BY Zenon, <1>0 DEF NodesTyped
<1>4. /\ open'[o].at \in {"bump", "move"} /\ open'[o].node = open[o].node
      /\ open' \in [Opener -> OpenerType]
      /\ \A p \in Opener : p # o => open'[p] = open[p]
      /\ ref' \in [Node -> Int] /\ \A n \in Node \ found : ref'[n] = ref[n]
  <2>1. CASE Load(o)
    <3>1. ref[open[o].node] \in Int
      BY Zenon, <1>2, <1>3
    <3> QED BY ZenonT(30), <1>3, <2>1, <3>1 DEF Load, OpenerAt, OpenerType
  <2>2. CASE Store(o)
    <3>1. open[o].seen + 1 \in Int
      BY <1>3 DEF OpenerType
    <3>2. ref' \in [Node -> Int] /\ \A n \in Node \ found : ref'[n] = ref[n]
      BY Zenon, <1>2, <1>3, <2>2, <3>1 DEF Store
    <3>3. open' = [open EXCEPT ![o].at = "move", ![o].seen = 0]
      BY Zenon, <2>2 DEF Store
    <3>4. open'[o].at = "move" /\ open'[o].node = open[o].node
      BY Zenon, <1>3, <3>3 DEF OpenerType
    <3>5. \A p \in Opener : p # o => open'[p] = open[p]
      BY Zenon, <1>3, <3>3
    <3>6. open'[o] \in OpenerType
      <4>1. open'[o] = [open[o] EXCEPT !.at = "move", !.seen = 0]
        BY Zenon, <1>3, <3>3
      <4>2. 0 \in Int /\ "move" \in OpenerAt
        BY DEF OpenerAt
      <4>3. open[o] \in OpenerType
        BY Zenon, <1>3
      <4> QED BY Zenon, <4>1, <4>2, <4>3 DEF OpenerType
    <3>7. open' \in [Opener -> OpenerType]
      BY Zenon, <1>3, <3>3, <3>5, <3>6
    <3> QED BY Zenon, <3>2, <3>4, <3>5, <3>7
  <2> QED BY Zenon, <2>1, <2>2
<1>5. NodesTyped'
  BY Zenon, <1>0, <1>1, <1>4 DEF NodesTyped
<1>7. GrantsConserved'
  BY Zenon, <1>0, <1>1 DEF GrantsConserved
<1>8. OpenInv'
  BY Zenon, <1>0, <1>1, <1>2, <1>4 DEF OpenInv
<1>9. Covered'
  <2>1. \A p \in held : open[p].at = "move" => p \in held' /\ open'[p] = open[p]
    BY Zenon, <1>0, <1>1, <1>2, <1>4 DEF NodesTyped
  <2> QED BY Zenon, <1>0, <1>1, <2>1, CoveredKept
<1>10. Cardinality(Inbound') <= MaxInbound
  <2>1. Inbound' = Inbound
    BY Zenon, <1>1 DEF Inbound, vNodes, In
  <2> QED BY Zenon, <2>1, InboundShrinks
<1>11. ASSUME NEW n \in Node \ found PROVE Own(n)'
  <2>1. \A p \in Opener : open'[p].node = n <=> open[p].node = n
    BY Zenon, <1>4
  <2>2. ref'[n] = ref[n]
    BY Zenon, <1>4
  <2> QED BY Zenon, <1>0, <1>1, <2>1, <2>2, OwnKept
<1> QED BY Zenon, <1>1, <1>5, <1>7, <1>8, <1>9, <1>10, <1>11 DEF NodesInv

\* The record of an opener that moves on with a node.
LEMMA OpenerRecord ==
  ASSUME NEW r \in OpenerType,
         NEW p \in OpenerAt, NEW n \in Node \cup {Null}
  PROVE  [r EXCEPT !.at = p, !.node = n]
           \in OpenerType
BY Zenon DEF OpenerType

\* ConnectNode adds the node it dialled, to which nobody has a pointer yet.
LEMMA DialInv ==
  ASSUME NodesInv, NEW o \in Opener, Dial(o)
  PROVE  NodesInv'
<1>0. NodesTyped /\ GrantsConserved /\ OpenInv /\ Covered /\ \A n \in Node \ found : Own(n)
  BY Zenon DEF NodesInv
<1>1. UNCHANGED <<sock, sCopy, msg, mCopy>> /\ open[o].at = "dial" /\ open[o].node = Null
  BY Zenon, OpenerSteps DEF Dial
<1>2. CASE GiveUp(o)
  BY Zenon, <1>1, <1>2, OpenOrGiveUpInv
<1>3. CASE \E n \in Node : /\ Fresh(n) /\ Added(n, open[o].to, {}, o \notin held)
                           /\ open' = [open EXCEPT ![o].at = "move", ![o].node = n]
                           /\ UNCHANGED <<sem, held>>
  <2> PICK n \in Node : /\ Fresh(n) /\ Added(n, open[o].to, {}, o \notin held)
                        /\ open' = [open EXCEPT ![o].at = "move", ![o].node = n]
                        /\ UNCHANGED <<sem, held>>
    BY Zenon, <1>3
  <2>1. /\ place'[n] = "vNodes" /\ ref'[n] = 1 /\ flags'[n] = {} /\ Copies(n)' = 0
        /\ RefCovers(n)' /\ n \notin grant'
    BY Zenon, <1>1, AddedOwn
  <2>2. \A k \in Node : k # n => place'[k] = place[k] /\ flags'[k] = flags[k]
    BY Zenon, <1>0 DEF Added, NodesTyped
  <2>3. /\ open \in [Opener -> OpenerType]
        /\ open[o].to \in Addr \cup {Null} /\ n # Null
    BY Zenon, <1>0, NodeAssumption, OpenerSteps DEF NodesTyped
  <2>4. /\ open'[o].at = "move" /\ open'[o].node = n
        /\ \A p \in Opener : p # o => open'[p] = open[p]
        /\ open' \in [Opener -> OpenerType]
    <3>1. /\ open'[o] = [open[o] EXCEPT !.at = "move", !.node = n]
          /\ \A p \in Opener : p # o => open'[p] = open[p]
      BY Zenon, <2>3
    <3>2. open[o] \in OpenerType
      BY Zenon, <2>3
    <3>3. "move" \in OpenerAt /\ n \in Node \cup {Null}
      BY Zenon DEF OpenerAt
    <3>4. open'[o] \in OpenerType
      <4>1. [open[o] EXCEPT !.at = "move", !.node = n]
              \in OpenerType
        BY ONLY Zenon, <3>2, <3>3, OpenerRecord
      <4> QED BY ONLY <3>1, <4>1
    <3>5. open'[o].at = "move" /\ open'[o].node = n
      BY ZenonT(30), <3>1, <3>2 DEF OpenerType
    <3> QED BY Zenon, <2>3, <3>1, <3>4, <3>5
  <2>5. held' = held /\ held \in SUBSET Opener
    BY Zenon, <1>0 DEF NodesTyped
  <2>6. GrantsConserved' /\ lost' \in Nat
    BY Zenon, <1>0, <2>5, GrantsAdded DEF Added
  <2>7. NodesTyped'
    BY <1>0, <1>1, <2>3, <2>4, <2>5, <2>6 DEF NodesTyped, Added, Flag
  <2>8. Cardinality(Inbound') <= MaxInbound
    <3>1. Inbound' \subseteq Inbound
      BY Zenon, <2>1, <2>2 DEF Inbound, vNodes, In
    <3> QED BY Zenon, <3>1, InboundShrinks
  <2>9. \A p \in Opener : p # o => open[p].node # n
    BY Zenon DEF Fresh
  <2>10. OpenInv'
    BY Zenon, <1>0, <2>3, <2>4, <2>5, <2>9 DEF OpenInv, Added
  <2>11. Covered'
    <3> SUFFICES ASSUME NEW k \in Node, k \notin direct', place'[k] = "vNodes",
                        "fInbound" \notin flags'[k]
                 PROVE  k \in grant' \/ \E p \in held : open'[p].at = "move" /\ open'[p].node = k
      BY Zenon, <2>5 DEF Covered
    <3>1. CASE k = n
      <4>1. o \in held
        BY Zenon, <3>1 DEF Added
      <4> QED BY Zenon, <2>4, <3>1, <4>1
    <3>2. CASE k # n
      <4>1. k \notin direct /\ (k \in grant => k \in grant')
        BY Zenon, <3>2 DEF Added
      <4>2. k \in grant \/ \E p \in held : open[p].at = "move" /\ open[p].node = k
        BY Zenon, <1>0, <2>2, <3>2, <4>1 DEF Covered
      <4>3. \A p \in held : open[p].at = "move" => open'[p] = open[p]
        BY Zenon, <1>1, <2>4, <2>5
      <4> QED BY Zenon, <4>1, <4>2, <4>3
    <3> QED BY Zenon, <3>1, <3>2
  <2>12. ASSUME NEW k \in Node \ found' PROVE Own(k)'
    <3>1. CASE k = n
      <4>1. ~Counted(n)'
        BY Zenon, <2>1 DEF Counted
      <4> QED BY <2>1, <2>4, <2>9, <3>1, <4>1 DEF Own
    <3>2. CASE k # n
      <4>1. \A p \in Opener : open'[p].node = k <=> open[p].node = k
        BY Zenon, <1>1, <2>4, <3>2, NodeAssumption
      <4> QED BY Zenon, <1>1, <3>2, <4>1, OthersKept
    <3> QED BY Zenon, <3>1, <3>2
  <2> QED BY Zenon, <2>6, <2>7, <2>8, <2>10, <2>11, <2>12 DEF NodesInv
<1> QED BY Zenon, <1>2, <1>3 DEF Dial

\* CSemaphoreGrant::MoveTo hands the opener's grant to the node, whose own, if it
\* had one, is posted.
LEMMA GrantMoved ==
  ASSUME NodesInv, NEW o \in held, NEW n \in Node,
         sem' = Posted({n}), grant' = grant \cup {n}, held' = held \ {o}, lost' = lost
  PROVE  GrantsConserved' /\ sem' \in Nat
<1>1. /\ IsFiniteSet(grant) /\ IsFiniteSet(held)
      /\ Cardinality(grant) \in Nat /\ Cardinality(held) \in Nat
  BY Zenon, NodeSetsFinite DEF NodesInv
<1>2. Cardinality(held') = Cardinality(held) - 1
  BY Zenon, <1>1, FS_RemoveElement
<1>3. Cardinality(grant') = Cardinality(grant) + 1 - Cardinality(grant \cap {n})
  <2>1. IsFiniteSet({n}) /\ Cardinality({n}) = 1
    BY Zenon, FS_Singleton
  <2> QED BY Zenon, <1>1, <2>1, FS_Union
<1>4. Cardinality(grant \cap {n}) \in Nat
  <2>1. grant \cap {n} \in SUBSET grant
    OBVIOUS
  <2> QED BY Zenon, <1>1, <2>1, FS_Subset, FS_CardinalityType
<1>5. /\ sem \in Nat /\ lost \in Nat /\ MaxOutbound \in Nat
      /\ sem + Cardinality(grant) + Cardinality(held) + lost = MaxOutbound
  BY Zenon, NodeAssumption DEF NodesInv, NodesTyped, GrantsConserved
<1>6. sem' = sem + Cardinality(grant \cap {n})
  BY Zenon DEF Posted
<1>7. sem' + Cardinality(grant') + Cardinality(held') + lost' = MaxOutbound
  BY <1>1, <1>2, <1>3, <1>4, <1>5, <1>6
<1> QED BY <1>4, <1>5, <1>6, <1>7 DEF GrantsConserved

\* OpenNetworkConnection hands over the grant it was given, if any.
LEMMA MoveInv ==
  ASSUME NodesInv, NEW o \in Opener, Move(o)
  PROVE  NodesInv'
<1> DEFINE n == open[o].node
<1>0. NodesTyped /\ GrantsConserved /\ OpenInv /\ Covered /\ \A k \in Node \ found : Own(k)
  BY Zenon DEF NodesInv
<1>1. /\ UNCHANGED <<place, ref, flags, addr, sock, sCopy, msg, mCopy, found, direct, lost>>
      /\ open[o].at = "move" /\ n \in Node /\ n # Null
      /\ open' = [open EXCEPT ![o].at = "mark"]
  BY Zenon, OpenerSteps DEF Move, Goes
<1>2. open \in [Opener -> OpenerType] /\ held \in SUBSET Opener /\ grant \in SUBSET Node
  BY Zenon, <1>0 DEF NodesTyped
<1>3. /\ open'[o].at = "mark" /\ \A p \in Opener : open'[p].node = open[p].node
      /\ \A p \in Opener : p # o => open'[p].at = open[p].at
      /\ open' \in [Opener -> OpenerType]
  BY <1>1, <1>2 DEF OpenerAt, OpenerType
<1>4. /\ GrantsConserved' /\ sem' \in Nat
      /\ held' = held \ {o} /\ grant \subseteq grant' /\ grant' \subseteq grant \cup {n}
      /\ o \in held => n \in grant'
  <2>1. CASE o \in held
    <3>1. sem' = Posted({n}) /\ grant' = grant \cup {n} /\ held' = held \ {o}
      BY Zenon, <2>1 DEF Move, MoveTo
    <3>2. GrantsConserved' /\ sem' \in Nat
      BY Zenon, <1>1, <2>1, <3>1, GrantMoved
    <3> QED BY Zenon, <3>1, <3>2
  <2>2. CASE o \notin held
    <3>1. UNCHANGED <<sem, grant, held>>
      BY Zenon, <2>2 DEF Move
    <3>2. GrantsConserved' /\ sem' \in Nat
      BY Zenon, <1>0, <1>1, <3>1 DEF GrantsConserved, NodesTyped
    <3> QED BY Zenon, <2>2, <3>1, <3>2
  <2> QED BY Zenon, <2>1, <2>2
<1>5. NodesTyped'
  BY Zenon, <1>0, <1>1, <1>2, <1>3, <1>4 DEF NodesTyped
<1>6. Cardinality(Inbound') <= MaxInbound
  <2>1. Inbound' = Inbound
    BY Zenon, <1>1 DEF Inbound, vNodes, In
  <2> QED BY Zenon, <2>1, InboundShrinks
<1>7. OpenInv'
  BY Zenon, <1>0, <1>1, <1>3, <1>4 DEF OpenInv
<1>8. Covered'
  <2> SUFFICES ASSUME NEW k \in Node \ direct, place[k] = "vNodes", "fInbound" \notin flags[k]
               PROVE  k \in grant' \/ \E p \in held' : open'[p].at = "move" /\ open'[p].node = k
    BY Zenon, <1>1 DEF Covered
  <2>1. k \in grant \/ \E p \in held : open[p].at = "move" /\ open[p].node = k
    BY Zenon, <1>0 DEF Covered
  <2>2. CASE k \in grant
    BY Zenon, <1>4, <2>2
  <2>3. ASSUME NEW p \in held, open[p].at = "move", open[p].node = k
        PROVE  k \in grant' \/ \E q \in held' : open'[q].at = "move" /\ open'[q].node = k
    BY Zenon, <1>2, <1>3, <1>4, <2>3
  <2> QED BY Zenon, <2>1, <2>2, <2>3
<1>9. ASSUME NEW k \in Node \ found PROVE Own(k)'
  <2>1. Own(k)
    BY Zenon, <1>0
  <2>2. (RefCovers(k)' <=> RefCovers(k)) /\ (Counted(k)' <=> Counted(k)) /\ Copies(k)' = Copies(k)
    BY Zenon, <1>1 DEF RefCovers, Copies, Counted, vNodes, In
  <2>3. k \in grant' => place[k] # "free"
    BY Zenon, <1>1, <1>4, <2>1 DEF Own
  <2>4. \A p \in Opener : open'[p].node = k <=> open[p].node = k
    BY Zenon, <1>3
  <2>5. place'[k] = place[k] /\ ref'[k] = ref[k] /\ sCopy' = sCopy /\ mCopy' = mCopy
    BY Zenon, <1>1
  <2> QED BY Zenon, <2>1, <2>2, <2>3, <2>4, <2>5 DEF Own
<1> QED BY Zenon, <1>1, <1>4, <1>5, <1>6, <1>7, <1>8, <1>9 DEF NodesInv

\* OpenNetworkConnection sets fNetworkNode and forgets the node, whose reference
\* is that of vNodes from now on.
LEMMA MarkInv ==
  ASSUME NodesInv, NEW o \in Opener, Mark(o)
  PROVE  NodesInv'
<1> DEFINE n == open[o].node
<1>0. NodesTyped /\ GrantsConserved /\ OpenInv /\ Covered /\ \A k \in Node \ found : Own(k)
  BY Zenon DEF NodesInv
<1>1. /\ UNCHANGED <<place, ref, addr, grant, sem, sock, sCopy, msg, mCopy, held, found, direct, lost>>
      /\ open[o].at = "mark" /\ n \in Node /\ n # Null
      /\ open' = [open EXCEPT ![o] = [at |-> "idle", to |-> Null, node |-> Null, seen |-> 0]]
      /\ flags' = [flags EXCEPT ![n] = @ \cup {"fNetworkNode"}]
  BY ZenonT(30), OpenerSteps DEF Mark, Idle
<1>2. open \in [Opener -> OpenerType]
      /\ flags \in [Node -> SUBSET Flag]
  BY Zenon, <1>0 DEF NodesTyped
<1>3. /\ open'[o].at = "idle" /\ open'[o].node = Null
      /\ \A p \in Opener : p # o => open'[p] = open[p]
      /\ open' \in [Opener -> OpenerType]
  BY <1>1, <1>2 DEF OpenerAt, OpenerType
<1>4. /\ flags' \in [Node -> SUBSET Flag] /\ \A k \in Node : k # n => flags'[k] = flags[k]
      /\ \A k \in Node : "fInbound" \in flags'[k] <=> "fInbound" \in flags[k]
  BY Zenon, <1>1, <1>2 DEF Flag
<1>5. NodesTyped'
  BY Zenon, <1>0, <1>1, <1>3, <1>4 DEF NodesTyped
<1>7. GrantsConserved'
  BY Zenon, <1>0, <1>1 DEF GrantsConserved
<1>8. Cardinality(Inbound') <= MaxInbound
  BY Zenon, <1>1, <1>4, InboundShrinks DEF Inbound, vNodes, In
<1>9. OpenInv'
  BY Zenon, <1>0, <1>1, <1>3 DEF OpenInv
<1>10. Covered'
  <2>1. \A p \in held : open[p].at = "move" => p \in held' /\ open'[p] = open[p]
    BY Zenon, <1>0, <1>1, <1>3 DEF NodesTyped
  <2> SUFFICES ASSUME NEW k \in Node \ direct, place[k] = "vNodes", "fInbound" \notin flags[k]
               PROVE  k \in grant \/ \E p \in held' : open'[p].at = "move" /\ open'[p].node = k
    BY Zenon, <1>1, <1>4 DEF Covered
  <2>2. k \in grant \/ \E p \in held : open[p].at = "move" /\ open[p].node = k
    BY Zenon, <1>0 DEF Covered
  <2> QED BY Zenon, <2>1, <2>2
<1>11. ASSUME NEW k \in Node \ found PROVE Own(k)'
  <2>1. Own(k) /\ k # Null
    BY Zenon, <1>0, NodeAssumption
  <2>2. RefCovers(k)' /\ (k \in sCopy \cup mCopy \cup grant => place[k] # "free")'
    BY Zenon, <1>1, <2>1 DEF Own, RefCovers, Copies, vNodes, In
  <2>3. CASE k = n
    <3>1. \A p \in Opener : open'[p].node # k
      BY Zenon, <1>3, <2>1, <2>3 DEF Own
    <3> QED BY Zenon, <2>2, <3>1 DEF Own
  <2>4. CASE k # n
    <3>1. \A p \in Opener : open'[p].node = k <=> open[p].node = k
      BY Zenon, <1>3, <2>1, <2>4
    <3>2. (Counted(k)' <=> Counted(k)) /\ Copies(k)' = Copies(k)
      BY Zenon, <1>1, <1>4, <2>4 DEF Counted, Copies
    <3> QED BY Zenon, <1>1, <2>1, <2>2, <3>1, <3>2 DEF Own
  <2> QED BY Zenon, <2>3, <2>4
<1> QED BY Zenon, <1>1, <1>5, <1>7, <1>8, <1>9, <1>10, <1>11 DEF NodesInv

\* A step of any thread.
LEMMA NodesStepInv == NodesInv /\ [NodesNext]_nodeVars => NodesInv'
<1> SUFFICES ASSUME NodesInv, [NodesNext]_nodeVars PROVE NodesInv'
  OBVIOUS
<1>1. CASE SocketThread
  BY Zenon, <1>1, DisconnectInv, DeleteInv, AcceptInv, ThreadCopiesInv, MarksInv DEF SocketThread
<1>2. CASE MessageThread
  BY Zenon, <1>2, ThreadCopiesInv, MarksInv DEF MessageThread
<1>3. CASE \E o \in Opener : OpenerThread(o)
  BY Zenon, <1>3, FindInv, AddRefInv, DialInv, MoveInv, MarkInv DEF OpenerThread
<1>4. CASE \E o \in Opener : \/ \E a \in Targets[o] : Open(o, a)
                             \/ \E a \in Names[o] : OpenName(o, a)
                             \/ \E a \in Direct[o] : OpenDirect(o, a)
  <2>1. \A o \in Opener : (Targets[o] \cup Names[o] \cup Direct[o]) \subseteq Addr
    BY Zenon, NodeAssumption
  <2> QED BY Zenon, <1>4, <2>1, OpenOrGiveUpInv
<1>5. CASE UNCHANGED nodeVars
  <2> USE <1>5 DEF nodeVars
  <2>1. NodesTyped' /\ GrantsConserved' /\ OpenInv'
    BY Zenon DEF NodesInv, NodesTyped, GrantsConserved, OpenInv
  <2>2. vNodes' = vNodes /\ \A n : Copies(n)' = Copies(n) /\ (Counted(n)' <=> Counted(n))
    BY Zenon DEF vNodes, In, Copies, Counted
  <2>3. Covered' /\ Cardinality(Inbound') <= MaxInbound
    BY Zenon, <2>2 DEF NodesInv, Covered, Inbound
  <2>4. \A n \in Node \ found : Own(n)'
    BY Zenon, <2>2 DEF NodesInv, Own, RefCovers
  <2> QED BY Zenon, <2>1, <2>3, <2>4 DEF NodesInv
<1> QED BY Zenon, <1>1, <1>2, <1>3, <1>4, <1>5 DEF NodesNext

\* There are not more nodes dialled with a grant than grants taken: every such node
\* has one, or an opener that has one for it.
LEMMA OutboundBound ==
  ASSUME NodesInv
  PROVE  Cardinality({n \in vNodes \ direct : "fInbound" \notin flags[n]}) <= MaxOutbound - sem - lost
<1> DEFINE dialled == {n \in vNodes \ direct : "fInbound" \notin flags[n]}
           movers == {o \in held : open[o].at = "move"}
           f == [o \in movers |-> open[o].node]
           theirs == {open[o].node : o \in movers}
<1>0. NodesTyped /\ GrantsConserved /\ Covered
  BY Zenon DEF NodesInv
<1>1. /\ IsFiniteSet(grant) /\ IsFiniteSet(held)
      /\ Cardinality(grant) \in Nat /\ Cardinality(held) \in Nat
  BY Zenon, <1>0, NodeSetsFinite
<1>2. IsFiniteSet(movers) /\ Cardinality(movers) \in Nat
      /\ Cardinality(movers) <= Cardinality(held)
  <2>1. movers \in SUBSET held
    BY Zenon
  <2>2. IsFiniteSet(movers) /\ Cardinality(movers) <= Cardinality(held)
    BY Zenon, <1>1, <2>1, FS_Subset
  <2> QED BY Zenon, <2>2, FS_CardinalityType
<1>3. IsFiniteSet(theirs) /\ Cardinality(theirs) \in Nat
      /\ Cardinality(theirs) <= Cardinality(movers)
  <2>1. f \in Surjection(movers, theirs)
    BY Zenon DEF Surjection
  <2> HIDE DEF theirs, movers, f
  <2>3. IsFiniteSet(theirs) /\ Cardinality(theirs) <= Cardinality(movers)
    BY Zenon, <1>2, <2>1, FS_Surjection
  <2> QED BY Zenon, <2>3, FS_CardinalityType
<1>4. /\ IsFiniteSet(grant \cup theirs) /\ Cardinality(grant \cup theirs) \in Nat
      /\ Cardinality(grant \cup theirs) <= Cardinality(grant) + Cardinality(theirs)
  <2>1. /\ IsFiniteSet(grant \cup theirs)
        /\ Cardinality(grant \cup theirs)
             = Cardinality(grant) + Cardinality(theirs) - Cardinality(grant \cap theirs)
    BY Zenon, <1>1, <1>3, FS_Union
  <2>2. grant \cap theirs \in SUBSET grant
    OBVIOUS
  <2>3. Cardinality(grant \cap theirs) \in Nat /\ Cardinality(grant \cup theirs) \in Nat
    BY Zenon, <1>1, <2>1, <2>2, FS_Subset, FS_CardinalityType
  <2> HIDE DEF theirs
  <2> QED BY <1>1, <1>3, <2>1, <2>3
<1>5. Cardinality(dialled) \in Nat /\ Cardinality(dialled) <= Cardinality(grant \cup theirs)
  <2>1. dialled \in SUBSET (grant \cup theirs)
    BY <1>0 DEF Covered, vNodes, In
  <2>2. IsFiniteSet(dialled) /\ Cardinality(dialled) <= Cardinality(grant \cup theirs)
    BY Zenon, <1>4, <2>1, FS_Subset
  <2> QED BY Zenon, <2>2, FS_CardinalityType
<1>6. /\ sem \in Nat /\ lost \in Nat /\ MaxOutbound \in Nat
      /\ sem + Cardinality(grant) + Cardinality(held) + lost = MaxOutbound
  BY Zenon, <1>0, NodeAssumption DEF NodesTyped, GrantsConserved
<1> HIDE DEF dialled, movers, theirs
<1>7. Cardinality(dialled) <= MaxOutbound - sem - lost
  <2> DEFINE d == Cardinality(dialled)
             u == Cardinality(grant \cup theirs)
             g == Cardinality(grant)
             t == Cardinality(theirs)
             m == Cardinality(movers)
             h == Cardinality(held)
  <2>1. {d, u, g, t, m, h, sem, lost, MaxOutbound} \subseteq Nat
    BY Zenon, <1>1, <1>2, <1>3, <1>4, <1>5, <1>6
  <2>2. d <= u /\ u <= g + t /\ t <= m /\ m <= h /\ sem + g + h + lost = MaxOutbound
    BY Zenon, <1>2, <1>3, <1>4, <1>5, <1>6
  <2> HIDE DEF d, u, g, t, m, h
  <2>3. d <= MaxOutbound - sem - lost
    BY <2>1, <2>2
  <2> QED BY Zenon, <2>3 DEF d
<1> QED BY Zenon, <1>7 DEF dialled

\* What the invariant says of the threads.
LEMMA NodesInvSafe == NodesInv => NodesSafe
<1> SUFFICES ASSUME NodesInv PROVE NodesSafe
  OBVIOUS
<1>1. NodesTypeOK
  BY Zenon, NodeBounds
<1>2. ConnectionLimits
  BY Zenon, OutboundBound DEF NodesInv, Inbound, ConnectionLimits
<1>3. ASSUME NEW n \in Node \ found
      PROVE  RefCovers(n) /\ UsersSafe(n) /\ (n \in grant => place[n] # "free")
  BY Zenon, <1>3 DEF NodesInv, Own, UsersSafe
<1> QED BY Zenon, <1>1, <1>2, <1>3 DEF NodesInv, NodesSafe

\* ThreadSocketHandler, ThreadMessageHandler and any number of openers, on any
\* number of nodes: nRefCount covers every use of a node that ConnectNode did not
\* find to exist, so none of them is deleted while a thread works on it; the grants
\* of semOutbound are conserved; and the connections that were accepted or dialled
\* with a grant stay within their limits, whatever -connect and addnode dial without.
THEOREM NodesAreSafe == NodesSpec => []NodesSafe
<1>1. NodesInit => NodesInv
  BY Zenon, NodesInitInv
<1>2. NodesInv /\ [NodesNext]_nodeVars => NodesInv'
  BY Zenon, NodesStepInv
<1>3. NodesInv => NodesSafe
  BY Zenon, NodesInvSafe
<1> QED BY <1>1, <1>2, <1>3, PTL DEF NodesSpec
=============================================================================
