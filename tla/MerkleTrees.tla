---------------------------- MODULE MerkleTrees -----------------------------
(***************************************************************************)
(* The Merkle tree of a block (CBlock::BuildMerkleTree), branches of it    *)
(* and partial trees (CPartialMerkleTree), the proofs that a filtered      *)
(* block carries.  A hash is a free constructor: the pair of what was      *)
(* hashed; a txid is <<t>>.  Positions count from 0, as in the code.       *)
(***************************************************************************)
EXTENDS Integers, Sequences, FiniteSets, FiniteSetsExt

CONSTANTS Tx, MaxTx

VARIABLES vtx       \* the transactions of a block, possibly repeated

vars == <<vtx>>

Hash(left, right) == <<left, right>>
Txid(list) == [i \in DOMAIN list |-> <<list[i]>>]
At(seq, i) == seq[i + 1]

-----------------------------------------------------------------------------
(* CBlock.                                                                  *)

\* One level above: the last hash of an odd number is paired with itself.
Up(level) ==
    LET n == Len(level)
    IN  [i \in 1 .. (n + 1) \div 2 |-> Hash(level[2 * i - 1], level[Min({2 * i, n})])]

\* Two identical hashes at the end of a level.  Faulty variant: only among the
\* transactions.
FaultySame(level) == Len(level[1]) = 1 /\ Len(level) % 2 = 0 /\ level[Len(level)] = level[Len(level) - 1]
Same(level) == Len(level) % 2 = 0 /\ level[Len(level)] = level[Len(level) - 1]

RECURSIVE Levels(_)
Levels(level) == IF Len(level) <= 1 THEN <<level>> ELSE <<level>> \o Levels(Up(level))

BuildMerkleTree(list) ==
    LET levels == Levels(Txid(list))
    IN  [root |-> levels[Len(levels)][1],
         mutated |-> \E k \in 1 .. Len(levels) - 1 : Same(levels[k])]

\* nIndex ^ 1, within the level.  Faulty variant: always the next one.
FaultySibling(i, n) == Min({i + 1, n - 1})
Sibling(i, n) == IF i % 2 = 0 THEN Min({i + 1, n - 1}) ELSE i - 1

GetMerkleBranch(list, index) ==
    LET levels == Levels(Txid(list))
    IN  [k \in 1 .. Len(levels) - 1 |->
            At(levels[k], Sibling(index \div 2 ^ (k - 1), Len(levels[k])))]

RECURSIVE CheckMerkleBranch(_, _, _)
CheckMerkleBranch(hash, branch, index) ==
    IF branch = <<>> THEN hash
    ELSE CheckMerkleBranch(IF index % 2 = 1 THEN Hash(Head(branch), hash) ELSE Hash(hash, Head(branch)),
                           Tail(branch), index \div 2)

-----------------------------------------------------------------------------
(* CPartialMerkleTree, of n transactions.                                   *)

CalcTreeWidth(n, height) == (n + 2 ^ height - 1) \div 2 ^ height
TreeHeight(n) == Min({h \in 0 .. n : CalcTreeWidth(n, h) <= 1})

RECURSIVE CalcHash(_, _, _)
CalcHash(height, pos, list) ==
    IF height = 0 THEN <<At(list, pos)>>
    ELSE LET left == CalcHash(height - 1, 2 * pos, list)
         IN  Hash(left, IF 2 * pos + 1 < CalcTreeWidth(Len(list), height - 1)
                        THEN CalcHash(height - 1, 2 * pos + 1, list) ELSE left)

Join(a, b) == [vBits |-> a.vBits \o b.vBits, vHash |-> a.vHash \o b.vHash]

\* Faulty variant: of an interesting node at the end, the last transaction is
\* not looked at.
FaultyBelow(height, pos, n) == {p \in pos * 2 ^ height .. (pos + 1) * 2 ^ height - 1 : p < n - 1}
Below(height, pos, n) == {p \in pos * 2 ^ height .. (pos + 1) * 2 ^ height - 1 : p < n}

RECURSIVE TraverseAndBuild(_, _, _, _)
TraverseAndBuild(height, pos, list, match) ==
    LET fParentOfMatch == \E p \in Below(height, pos, Len(list)) : p \in match
        left == TraverseAndBuild(height - 1, 2 * pos, list, match)
        node == [vBits |-> <<fParentOfMatch>>, vHash |-> <<>>]
    IN  IF height = 0 \/ ~fParentOfMatch
        THEN [node EXCEPT !.vHash = <<CalcHash(height, pos, list)>>]
        ELSE IF 2 * pos + 1 < CalcTreeWidth(Len(list), height - 1)
        THEN Join(Join(node, left), TraverseAndBuild(height - 1, 2 * pos + 1, list, match))
        ELSE Join(node, left)

\* The bits come in bytes.
Serialized(tree) ==
    [tree EXCEPT !.vBits =
        [i \in 1 .. 8 * ((Len(@) + 7) \div 8) |-> IF i <= Len(@) THEN @[i] ELSE FALSE]]

PartialMerkleTree(list, match) ==
    Serialized(TraverseAndBuild(TreeHeight(Len(list)), 0, list, match))

\* s: bits and hashes used, matches, fBad, and the hash that is returned.
Bad(s) == [s EXCEPT !.fBad = TRUE, !.hash = <<>>]

RECURSIVE TraverseAndExtract(_, _, _, _, _)
TraverseAndExtract(height, pos, n, tree, s) ==
    IF s.nBitsUsed >= Len(tree.vBits) THEN Bad(s)
    ELSE
    LET fParentOfMatch == At(tree.vBits, s.nBitsUsed)
        t == [s EXCEPT !.nBitsUsed = @ + 1]
    IN  IF height = 0 \/ ~fParentOfMatch
        THEN IF t.nHashUsed >= Len(tree.vHash) THEN Bad(t)
             ELSE LET hash == At(tree.vHash, t.nHashUsed)
                  IN  [t EXCEPT !.nHashUsed = @ + 1, !.hash = hash,
                                !.vMatch = IF fParentOfMatch THEN Append(@, hash) ELSE @]
        ELSE LET left == TraverseAndExtract(height - 1, 2 * pos, n, tree, t)
                 right == TraverseAndExtract(height - 1, 2 * pos + 1, n, tree, left)
             IN  IF 2 * pos + 1 < CalcTreeWidth(n, height - 1)
                 THEN [right EXCEPT !.fBad = @ \/ right.hash = left.hash,
                                    !.hash = Hash(left.hash, right.hash)]
                 ELSE [left EXCEPT !.hash = Hash(left.hash, left.hash)]

\* The root and the matched transactions, or no root.
ExtractMatches(n, tree) ==
    LET s == TraverseAndExtract(TreeHeight(n), 0, n, tree,
                 [nBitsUsed |-> 0, nHashUsed |-> 0, vMatch |-> <<>>, fBad |-> FALSE, hash |-> <<>>])
        failed == \/ n = 0 \/ Len(tree.vHash) > n \/ Len(tree.vBits) < Len(tree.vHash)
                  \/ s.fBad
                  \/ (s.nBitsUsed + 7) \div 8 # (Len(tree.vBits) + 7) \div 8
                  \/ s.nHashUsed # Len(tree.vHash)
    IN  [root |-> IF failed THEN <<>> ELSE s.hash, vMatch |-> s.vMatch]

-----------------------------------------------------------------------------

Init == \E t \in Tx : vtx = <<t>>

Add(t) == Len(vtx) < MaxTx /\ vtx' = Append(vtx, t)

Next == \E t \in Tx : Add(t)

Spec == Init /\ [][Next]_vars

\* Two equal hashes are siblings, somewhere in the tree.
Twins(list) ==
    LET levels == Levels(Txid(list))
    IN  \E k \in DOMAIN levels : \E i \in 1 .. Len(levels[k]) \div 2 :
            levels[k][2 * i - 1] = levels[k][2 * i]

Lists == UNION {[1 .. n -> Tx] : n \in 1 .. MaxTx}

Matched(list, match) ==
    LET picked == SelectSeq([i \in DOMAIN list |-> i], LAMBDA i : i - 1 \in match)
    IN  [k \in DOMAIN picked |-> <<list[picked[k]]>>]

-----------------------------------------------------------------------------

\* "this will detect all known ways of changing the transactions without affecting
\* the merkle root" (primitives/block.cpp): of two lists with one root, one is
\* reported as mutated.
MutationsDetected ==
    LET tree == BuildMerkleTree(vtx)
    IN  ~tree.mutated =>
            \A other \in Lists \ {vtx} :
                LET o == BuildMerkleTree(other) IN o.root = tree.root => o.mutated

\* GetMerkleBranch proves every transaction, of a block of any size, repeated or not.
BranchesProve ==
    \A i \in 0 .. Len(vtx) - 1 :
        CheckMerkleBranch(<<At(vtx, i)>>, GetMerkleBranch(vtx, i), i) = BuildMerkleTree(vtx).root

\* ExtractMatches finds the root of the block and the matched transactions in the
\* partial tree of any set of them, unless two siblings are the same; a block that
\* BuildMerkleTree reports as mutated is refused when all of it is shown.
PartialTreesProve ==
    LET tree == BuildMerkleTree(vtx)
        twins == Twins(vtx)
    IN  \A match \in SUBSET (0 .. Len(vtx) - 1) :
            LET x == ExtractMatches(Len(vtx), PartialMerkleTree(vtx, match))
            IN  /\ x.root \in {<<>>, tree.root}
                /\ ~twins => x.root = tree.root /\ x.vMatch = Matched(vtx, match)
                /\ match = 0 .. Len(vtx) - 1 /\ tree.mutated => x.root = <<>>
=============================================================================
