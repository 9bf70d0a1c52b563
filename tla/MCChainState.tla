---------------------------- MODULE MCChainState ----------------------------
(***************************************************************************)
(* Small block trees for ChainState: two branches above the genesis block. *)
(* A node either has an operator, who invalidates and reconsiders blocks   *)
(* of the smaller tree, or it may crash.                                   *)
(***************************************************************************)
EXTENDS ChainState, TLC

CONSTANTS
    g, a1, a2, b1, b2,
    Operated        \* {TRUE}, {FALSE} or BOOLEAN: whether there is an operator

VARIABLE operator

\* Two branches of two blocks; an operator's node gets no b2.
FullFork == {g, a1, a2, b1, b2}

ForkParent == [b \in Block |-> CASE b = a2 -> a1 [] b = b2 -> b1 [] OTHER -> g]

ForkAncestors == [b \in Block |-> {g, b, ForkParent[b]}]

ForkWork == [b \in Block |-> CASE b = g -> 1 [] b \in {a1, b1} -> 2 [] OTHER -> 3]

\* Only the order of blocks of equal work matters: a1 and b1, a2 and b2.
ForkOrders ==
    { [b \in Block |-> CASE b = a1 -> i [] b = a2 -> j [] OTHER -> 1] :
        i \in {0, 2}, j \in {0, 2} }

ThreadSymmetry == Permutations(Thread)

-----------------------------------------------------------------------------

OperatorInit == Init /\ operator \in Operated

\* With an operator the process may be ended by an assertion; the last disjunct
\* stands for that.
OperatorNext ==
    /\ UNCHANGED operator
    /\ \/ ~operator /\ Next /\ calls'.invalidate = 0 /\ calls'.reconsider = 0
       \/ operator /\ Next /\ calls'.crash = 0 /\ b2 \notin mapBlockIndex'
       \/ operator /\ UNCHANGED vars

OperatorSpec == OperatorInit /\ [][OperatorNext]_<<vars, operator>>
=============================================================================
