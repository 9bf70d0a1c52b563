----------------------------- MODULE ChainWalk ------------------------------
(***************************************************************************)
(* The ways through the block index: skip pointers (CBlockIndex::pskip),   *)
(* the array of the active chain (CChain), forks and locators.  Blocks     *)
(* come into the index after their parents, and any of them may become the *)
(* tip.                                                                    *)
(***************************************************************************)
EXTENDS Integers, Sequences, FiniteSets, FiniteSetsExt

CONSTANTS
    Block, Genesis,
    Parent, Height,     \* the tree; Parent[Genesis] = Genesis
    Dense               \* entries of a locator before the steps grow; 10 in GetLocator

VARIABLES
    mapBlockIndex,
    pskip,
    vChain              \* the active chain, from the genesis block

vars == <<mapBlockIndex, pskip, vChain>>

WalkAssumption ==
    /\ Parent \in [Block -> Block] /\ Height[Genesis] = 0 /\ Dense \in Nat
    /\ \A b \in Block \ {Genesis} : Height[b] = Height[Parent[b]] + 1

-----------------------------------------------------------------------------

\* n & (n - 1).
InvertLowestOne(n) ==
    IF n = 0 THEN 0 ELSE n - Max({2 ^ k : k \in {i \in 0 .. 12 : n % 2 ^ i = 0}})

GetSkipHeight(h) ==
    IF h < 2 THEN 0
    ELSE IF h % 2 = 1 THEN InvertLowestOne(InvertLowestOne(h - 1)) + 1
    ELSE InvertLowestOne(h)

\* pskip is followed unless pprev->pskip is better than pskip->pprev.  Faulty
\* variant: it is followed also when it leads below the height.
FaultyFollowSkip(walk, h) == GetSkipHeight(walk) >= h \/ GetSkipHeight(walk - 1) < h - 2
FollowSkip(walk, h) ==
    LET skip == GetSkipHeight(walk)
        skipPrev == GetSkipHeight(walk - 1)
    IN  skip = h \/ (skip > h /\ ~(skipPrev < skip - 2 /\ skipPrev >= h))

\* GetAncestor, for a height from 0 to that of b.
GetAncestor(b, h) ==
    LET Walk[x \in Block] ==
            IF Height[x] <= h THEN x
            ELSE IF FollowSkip(Height[x], h) THEN Walk[pskip[x]]
            ELSE Walk[Parent[x]]
    IN  Walk[b]

Contains(b) == Height[b] < Len(vChain) /\ vChain[Height[b] + 1] = b
Tip == vChain[Len(vChain)]

FindFork(b) ==
    LET start == IF Height[b] > Height[Tip] THEN GetAncestor(b, Height[Tip]) ELSE b
        Walk[x \in Block] == IF Contains(x) THEN x ELSE Walk[Parent[x]]
    IN  Walk[start]

\* nStep after i entries.  Faulty variant: it grows from the first entry on.
FaultyStep(i) == 2 ^ i
Step(i) == IF i > Dense THEN 2 ^ (i - Dense - 1) ELSE 1

\* GetLocator(b): the entries from b back.
GetLocator(b) ==
    LET Back(x, h) == IF Contains(x) THEN vChain[h + 1] ELSE GetAncestor(x, h)
        Entries[i \in 1 .. Height[b] + 1] ==
            IF i = 1 THEN <<b>>
            ELSE LET have == Entries[i - 1]
                     last == have[i - 1]
                 IN  Append(have, Back(last, Max({Height[last] - Step(i - 1), 0})))
        entries == Entries[Height[b] + 1]
    IN  SubSeq(entries, 1, Min({i \in DOMAIN entries : entries[i] = Genesis}))

\* FindForkInGlobalIndex, for a locator of another node.
FindForkInGlobalIndex(locator) ==
    LET have == SelectSeq(locator, LAMBDA b : b \in mapBlockIndex /\ Contains(b))
    IN  IF have = <<>> THEN Genesis ELSE Head(have)

-----------------------------------------------------------------------------

Init ==
    /\ mapBlockIndex = {Genesis}
    /\ pskip = [b \in Block |-> Genesis]
    /\ vChain = <<Genesis>>

\* AddToBlockIndex, BuildSkip.
AddToBlockIndex(b) ==
    /\ b \notin mapBlockIndex /\ Parent[b] \in mapBlockIndex
    /\ mapBlockIndex' = mapBlockIndex \cup {b}
    /\ pskip' = [pskip EXCEPT ![b] = GetAncestor(Parent[b], GetSkipHeight(Height[b]))]
    /\ UNCHANGED vChain

\* SetTip writes from the new tip downwards until an entry is right already.
\* Faulty variant: it stops at the height of the old tip.
FaultyRight(old, b) == Height[b] < Len(old)
Right(old, b) == Height[b] < Len(old) /\ old[Height[b] + 1] = b

SetTip(b) ==
    /\ b \in mapBlockIndex
    /\ LET Path[x \in Block] ==
               IF Right(vChain, x) THEN SubSeq(vChain, 1, Height[x] + 1)
               ELSE Append(Path[Parent[x]], x)
       IN  vChain' = Path[b]
    /\ UNCHANGED <<mapBlockIndex, pskip>>

Next == \E b \in Block : AddToBlockIndex(b) \/ SetTip(b)

Spec == Init /\ [][Next]_vars

-----------------------------------------------------------------------------
(* The same by the parents alone.                                           *)

Ancestors(b) ==
    LET Up[x \in Block] == IF x = Genesis THEN {x} ELSE {x} \cup Up[Parent[x]] IN Up[b]

Ancestor(b, h) == CHOOSE a \in Ancestors(b) : Height[a] = h

Common(b) == CHOOSE a \in Ancestors(b) \cap Ancestors(Tip) :
                \A x \in Ancestors(b) \cap Ancestors(Tip) : Height[x] <= Height[a]

\* GetAncestor, over the skip pointers, finds what the parents lead to.
AncestorsExact ==
    \A b \in mapBlockIndex : \A h \in 0 .. Height[b] : GetAncestor(b, h) = Ancestor(b, h)

\* After any sequence of SetTip the array is the path to the tip, and FindFork
\* finds where another block leaves it.
ChainExact ==
    /\ \A i \in DOMAIN vChain : vChain[i] = Ancestor(Tip, i - 1)
    /\ \A b \in mapBlockIndex : FindFork(b) = Common(b)

\* The locator of a block, whether or not it is in the active chain, leads to a
\* common ancestor: the last one if the fork is among the dense entries, and
\* otherwise one no further below the fork than the fork is below the block.
LocatorFinds ==
    \A b \in mapBlockIndex :
        LET fork == FindForkInGlobalIndex(GetLocator(b))
            back == Height[b] - Height[Common(b)]
        IN  /\ fork \in Ancestors(b) \cap Ancestors(Tip)
            /\ back <= Dense => fork = Common(b)
            /\ Height[Common(b)] - Height[fork] <= back
=============================================================================
