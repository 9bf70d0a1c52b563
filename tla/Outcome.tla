------------------------------ MODULE Outcome -------------------------------
(***************************************************************************)
(* The voting schedule of a branch and the miner's outcome transaction.    *)
(*                                                                         *)
(* Decisions end at a block number; those ending in ((n-1)*tau, n*tau] are *)
(* on the ballot of block n*tau, are voted on under the height n*tau, and  *)
(* are considered by getOutcomeTx for block n*tau+ballotTime+unsealTime.   *)
(* Heights are uint32_t; Word stands for 2^32.  The vote matrix, a         *)
(* floating-point computation, is left out: marketOutcome::calc succeeds.  *)
(***************************************************************************)
EXTENDS Integers, FiniteSets

CONSTANTS
    Branches,       \* the (tau, ballotTime, unsealTime) of the branches considered
    Decision, Market_, Voter,
    Word,
    MaxHeight,      \* bound: blocks mined
    EndHeights      \* bound: block numbers given to createdecision and createmarket

OutcomeAssumption ==
    /\ Word \in Nat /\ MaxHeight \in Nat /\ MaxHeight < Word
    /\ EndHeights \subseteq 1 .. Word - 1
    /\ \A b \in Branches : b.tau \in 1 .. Word - 1 /\ b.ballotTime \in Nat /\ b.unsealTime \in Nat

VARIABLES
    branch,     \* its parameters, uint16_t
    height,     \* chainActive.Height()
    eventOverBy,\* of the decisions in the index
    votes,      \* revealed votes in the index
    markets,    \* markets in the index: maturation and decisions
    ballot,     \* what getballot answered at each multiple of tau
    considered, \* how often each decision was in the window of an outcome
    late,       \* decisions created after their outcome was due
    counted,    \* votes that an outcome has taken into its matrix
    decided,    \* decisions with a final outcome
    paid        \* markets whose trades have been paid out

vars == <<branch, height, eventOverBy, votes, markets, ballot, considered, late, counted, decided, paid>>

Sub(a, b) == (a - b) % Word
Wait == branch.ballotTime + branch.unsealTime

Init ==
    /\ branch \in Branches /\ height = 0
    /\ eventOverBy = [d \in {} |-> 0] /\ markets = [m \in {} |-> 0]
    /\ votes = {} /\ ballot = [h \in {} |-> {}]
    /\ considered = [d \in Decision |-> 0]
    /\ late = {} /\ counted = {} /\ decided = {} /\ paid = {}

Decisions == DOMAIN eventOverBy

-----------------------------------------------------------------------------
(* RPC calls.  An object is here once the block at height has it.           *)

\* The block whose outcome considers decisions that end at e.
Due(e) == branch.tau * ((e + branch.tau - 1) \div branch.tau) + Wait

\* createdecision: eventOverBy is not compared with the height.
createdecision(d, e) ==
    /\ d \notin Decisions
    /\ eventOverBy' = [x \in Decisions \cup {d} |-> IF x = d THEN e ELSE eventOverBy[x]]
    /\ late' = IF height >= Due(e) THEN late \cup {d} ELSE late
    /\ UNCHANGED <<branch, height, votes, markets, ballot, considered, counted, decided, paid>>

createmarket(m, at, ds) ==
    /\ m \notin DOMAIN markets /\ ds \subseteq Decisions
    /\ markets' = [x \in DOMAIN markets \cup {m} |->
                      IF x = m THEN [maturation |-> at, decisions |-> ds] ELSE markets[x]]
    /\ UNCHANGED <<branch, height, eventOverBy, votes, ballot, considered, late, counted, decided, paid>>

\* createrevealvote: the height is a multiple of tau, and not compared with the
\* height of the chain.  Bound: one vote of a voter.
createrevealvote(v, h) ==
    /\ \A w \in votes : w.voter # v
    /\ h % branch.tau = 0
    /\ votes' = votes \cup {[voter |-> v, height |-> h, at |-> height]}
    /\ UNCHANGED <<branch, height, eventOverBy, markets, ballot, considered, late, counted, decided, paid>>

\* getballot.
MinBlock(h) == (branch.tau * (Sub(h, 1) \div branch.tau) + 1) % Word
MaxBlock(h) == Sub(MinBlock(h) + branch.tau, 1)
getballot(h) == {d \in Decisions : eventOverBy[d] >= MinBlock(h) /\ eventOverBy[d] <= MaxBlock(h)}

-----------------------------------------------------------------------------
(* getOutcomeTx.                                                            *)

MaxDecisionHeight(h) == Sub(h, Wait)
MinDecisionHeight(h) == Sub(MaxDecisionHeight(h), branch.tau)

\* Faulty variant: the lower end of the window is inside it.
FaultyInWindow(e, h) == ~(e < MinDecisionHeight(h)) /\ ~(e > MaxDecisionHeight(h))
InWindow(e, h) == ~(e <= MinDecisionHeight(h)) /\ ~(e > MaxDecisionHeight(h))

\* A reputation transaction is calculated for block h.
RepDue(h) == h > Wait /\ Sub(h, Wait) % branch.tau = 0

Considered(h) == IF RepDue(h) THEN {d \in Decisions : InWindow(eventOverBy[d], h)} ELSE {}

\* CMarketTreeDB::GetRevealVotes(branchid, height).
GetRevealVotes(h) == {v \in votes : v.height = h}

\* The code leaves with "if (outcome->nDecisions) goto end_rep_tx", so calc sees an
\* outcome without decisions or is not called.
Calculated(h) == RepDue(h) /\ Considered(h) = {}

\* CMarketTreeDB::GetMarkets(id): the markets stored under a decision.
GetMarkets(id) == {m \in DOMAIN markets : id \in markets[m].decisions}

\* The markets that have just ended, among those found under the branch's own id.
BranchId == "branchid"
Ended(h) ==
    {m \in GetMarkets(BranchId) :
        \/ markets[m].maturation = h
        \/ markets[m].maturation < h /\ \E d \in markets[m].decisions : InWindow(eventOverBy[d], h)}

-----------------------------------------------------------------------------
\* A block is mined; voters look at the ballot of each multiple of tau.
MineBlock ==
    /\ height < MaxHeight
    /\ height' = height + 1
    /\ considered' =
          [d \in Decision |-> considered[d] + IF d \in Considered(height') THEN 1 ELSE 0]
    /\ counted' = IF Calculated(height') THEN counted \cup GetRevealVotes(height') ELSE counted
    /\ decided' = IF Calculated(height') THEN decided \cup Considered(height') ELSE decided
    /\ paid' = paid \cup Ended(height')
    /\ ballot' = IF height' % branch.tau # 0 THEN ballot
                 ELSE [h \in DOMAIN ballot \cup {height'} |->
                          IF h = height' THEN getballot(h) ELSE ballot[h]]
    /\ UNCHANGED <<branch, eventOverBy, votes, markets, late>>

Next ==
    \/ MineBlock
    \/ \E e \in EndHeights :
          \/ \E d \in Decision : createdecision(d, e)
          \/ \E v \in Voter : createrevealvote(v, e)
          \/ \E m \in Market_ : \E ds \in SUBSET Decisions \ {{}} : createmarket(m, e, ds)

Spec == Init /\ [][Next]_vars

-----------------------------------------------------------------------------
(* Properties.                                                              *)

\* Types of the variables.
TypeOK ==
    /\ height \in 0 .. MaxHeight
    /\ Decisions \subseteq Decision /\ \A d \in Decisions : eventOverBy[d] \in EndHeights
    /\ \A v \in votes : v.height % branch.tau = 0 /\ v.at <= height
    /\ \A h \in DOMAIN ballot : ballot[h] \subseteq Decisions /\ h <= height
    /\ considered \in [Decision -> Nat]
    /\ late \cup decided \subseteq Decisions /\ counted \subseteq votes /\ paid \subseteq DOMAIN markets

\* "it considers all decisions in that branch ending in heights ((n-1)*tau, n*tau]":
\* the windows of getOutcomeTx, in unsigned arithmetic, have no gap and no overlap,
\* so that a decision is considered once, in the block it is due.
EachDecisionOnce ==
    \A d \in Decisions :
        considered[d] = IF d \in late \/ height < Due(eventOverBy[d]) THEN 0 ELSE 1

\* What getballot showed at n*tau is what getOutcomeTx considers at
\* n*tau + ballotTime + unsealTime, and no decision is on two ballots.
BallotConsidered ==
    \A h \in DOMAIN ballot :
        /\ height >= h + Wait => \A d \in ballot[h] : Due(eventOverBy[d]) = h + Wait
        /\ \A k \in DOMAIN ballot \ {h} : ballot[h] \cap ballot[k] = {}

\* "ballots available for all decisions ending ((n-1)*tau, n*tau]": a decision that an
\* outcome considered was on a ballot.
BallotComplete ==
    \A d \in Decisions : considered[d] > 0 => \E h \in DOMAIN ballot : d \in ballot[h]

\* "We must have ballotTime + unsealTime less than tau": a ballot's decisions have been
\* considered when the next ballot is out.
OutcomeBeforeNextBallot ==
    \A h \in DOMAIN ballot :
        height >= h + branch.tau => \A d \in ballot[h] : considered[d] > 0

\* "it considers all revealed votes submitted for those decisions": a vote revealed in
\* its period is in the matrix of its outcome.
VotesCounted ==
    \A v \in votes :
        v.at > v.height /\ v.at < v.height + Wait /\ height >= v.height + Wait => v \in counted

\* "the miner calcs reputation transactions at height n*tau + ballotTime + unsealTime":
\* a considered decision has an outcome.
DecisionsDecided == \A d \in Decisions : considered[d] > 0 => d \in decided

\* "any market with max { maturation, decisionID[].eventOverBy} at this height, all trade
\* payouts are calculated": a market is paid when it and its decisions are over.
MarketsPaid ==
    \A m \in DOMAIN markets :
        /\ markets[m].maturation < height
        /\ \A d \in markets[m].decisions : considered[d] > 0
        => m \in paid
=============================================================================
