------------------------------ MODULE MCBlocks ------------------------------
(***************************************************************************)
(* What blocks carry and how they are built, linked and weighed: Market,   *)
(* Outcome, Miner, BlockFiles, ChainWalk, Difficulty and MerkleTrees on    *)
(* small instances.  The instances share nothing: a behaviour is one of a  *)
(* single scene, and the others keep their initial state.                  *)
(*   "reorg"    a fork of two branches, two transactions for each object   *)
(*   "trading"  a line of blocks; branches, decisions, markets and trades  *)
(*   "voting"   a line of blocks; sealed, stolen and revealed votes        *)
(*   "schedule" the outcomes of several branches                           *)
(*   "mining"   a miner, a pool of four transactions and other blocks      *)
(*   "files"    three blocks in two files, with crashes and -reindex       *)
(*   "invalid"  the same, with a first block that ConnectBlock refuses     *)
(*   "walk"     a fork of two long branches                                *)
(*   "retarget" block times that go up and down; "testnet" allows blocks   *)
(*              of minimum difficulty                                      *)
(*   "merkle"   all lists of two transactions, up to seven entries         *)
(***************************************************************************)
EXTENDS Market, TLC

CONSTANTS
    Scenes,
    Branches, Decision, Market_, Voter, Word, MaxHeight, EndHeights

VARIABLES
    scene,
    lCreated, lContent, lTip, lIndex, lIndexMay, lCoinsMay, lFlushing,
    branch, height, eventOverBy, votes, markets, ballot, considered, late, counted,
    decided, paid,
    entry, mHeight, pool, pc, pindexPrev, vecPriority, dependsOn, view, fSortedByFee,
    nBlockSize, block,
    stored, cached, fIndex, pos, undoPos, failed, info, nLastBlockFile, fReindex, scan,
    unknown, queue, disk, short,
    mapBlockIndex, pskip, vChain,
    blocks,
    vtx

-----------------------------------------------------------------------------
(* The scenes. *)

Fork == {"g", "a1", "a2", "b1", "b2"}
ForkParent == ("a1" :> "g") @@ ("a2" :> "a1") @@ ("b1" :> "g") @@ ("b2" :> "b1")
ForkChain ==
    ("g" :> {"g"}) @@ ("a1" :> {"g", "a1"}) @@ ("a2" :> {"g", "a1", "a2"})
    @@ ("b1" :> {"g", "b1"}) @@ ("b2" :> {"g", "b1", "b2"})
ForkHeight == ("g" :> 0) @@ ("a1" :> 1) @@ ("a2" :> 2) @@ ("b1" :> 1) @@ ("b2" :> 2)

Line == {"g", "a1", "a2", "a3"}
LineParent == ("a1" :> "g") @@ ("a2" :> "a1") @@ ("a3" :> "a2")
LineChain ==
    ("g" :> {"g"}) @@ ("a1" :> {"g", "a1"}) @@ ("a2" :> {"g", "a1", "a2"})
    @@ ("a3" :> Line)
LineHeight == ("g" :> 0) @@ ("a1" :> 1) @@ ("a2" :> 2) @@ ("a3" :> 3)

KindOf ==
    ("branch" :> "B") @@ ("branch2" :> "B") @@ ("decision" :> "D") @@ ("market" :> "M")
    @@ ("trade" :> "T") @@ ("sealed" :> "S") @@ ("steal" :> "L") @@ ("reveal" :> "R")
RefsOf ==
    ("branch" :> {}) @@ ("branch2" :> {}) @@ ("decision" :> {"branch"})
    @@ ("market" :> {"decision"}) @@ ("trade" :> {"market"}) @@ ("sealed" :> {"branch"})
    @@ ("steal" :> {"branch", "sealed"}) @@ ("reveal" :> {"branch", "sealed"})

Disputed == {"branch", "decision"}
Trading == {"branch", "branch2", "decision", "market", "trade"}
Voting == {"branch", "sealed", "steal", "reveal"}
KindIn(objects) == [o \in objects |-> KindOf[o]]
RefsIn(objects) == [o \in objects |-> RefsOf[o]]
ForkKind == KindIn(Disputed)
ForkRefs == RefsIn(Disputed)

T == INSTANCE Market WITH
    Block <- Line, Parent <- LineParent, Chain <- LineChain, Height <- LineHeight,
    Object <- Trading, Kind <- KindIn(Trading), Refs <- RefsIn(Trading), Copy <- {"c1"},
    created <- lCreated, content <- lContent, tip <- lTip, index <- lIndex,
    indexMay <- lIndexMay, coinsMay <- lCoinsMay, flushing <- lFlushing

V == INSTANCE Market WITH
    Block <- Line, Parent <- LineParent, Chain <- LineChain, Height <- LineHeight,
    Object <- Voting, Kind <- KindIn(Voting), Refs <- RefsIn(Voting), Copy <- {"c1"},
    created <- lCreated, content <- lContent, tip <- lTip, index <- lIndex,
    indexMay <- lIndexMay, coinsMay <- lCoinsMay, flushing <- lFlushing

O == INSTANCE Outcome

B(tau, ballotTime, unsealTime) ==
    [tau |-> tau, ballotTime |-> ballotTime, unsealTime |-> unsealTime]
Several == {B(1, 0, 0), B(2, 0, 1), B(2, 1, 0), B(3, 1, 1), B(2, 1, 2), B(3, 3, 1)}
Fitting == {B(3, 1, 1)}

-----------------------------------------------------------------------------
(* Mining: b spends a and c, d spends b and is final from height 1; other   *)
(* miners' blocks confirm a at height 1 and c at height 3.                  *)

MinerTx == {"a", "b", "c", "d"}
MinerIns ==
    ("a" :> {<<"f", 0>>}) @@ ("b" :> {<<"a", 0>>, <<"c", 0>>}) @@ ("c" :> {<<"f", 1>>})
    @@ ("d" :> {<<"b", 0>>})
MinerSize == ("a" :> 2) @@ ("b" :> 1) @@ ("c" :> 3) @@ ("d" :> 1)
MinerLock == [t \in MinerTx |-> IF t = "d" THEN 1 ELSE 0]
MinerConfirms == [h \in 0 .. 4 |-> IF h = 1 THEN {"a"} ELSE IF h = 3 THEN {"c"} ELSE {}]
MinerEntries == [priority : {0, 2}, feeRate : {0, 1}]

I == INSTANCE Miner WITH
    Tx <- MinerTx, Ins <- MinerIns, Size <- MinerSize, Entries <- MinerEntries,
    Prioritised <- {"d"}, LockHeight <- MinerLock, Coins <- {<<"f", 0>>, <<"f", 1>>, <<"g", 0>>},
    Confirms <- MinerConfirms, BlockMaxSize <- 7, BlockPrioritySize <- 4, BlockMinSize <- 5,
    Reserved <- 1, FreePriority <- 1, MinRelayFee <- 1, MaxHeight <- 3, height <- mHeight

-----------------------------------------------------------------------------
(* Files: g a1 a2, each of one unit, two of which fit into a file; a crash  *)
(* may lose writes to the block files.                                      *)

FileBlock == {"g", "a1", "a2"}
FileParent == [b \in FileBlock |-> IF b = "a2" THEN "a1" ELSE "g"]
FileSize == [b \in FileBlock |-> 1]

F == INSTANCE BlockFiles WITH
    Block <- FileBlock, Genesis <- "g", Parent <- FileParent, Size <- FileSize,
    UndoSize <- FileSize, File <- {0, 1}, MAX_BLOCKFILE_SIZE <- 3, Unconnectable <- {},
    Volatile <- {"blk"}, index <- fIndex

X == INSTANCE BlockFiles WITH
    Block <- FileBlock, Genesis <- "g", Parent <- FileParent, Size <- FileSize,
    UndoSize <- FileSize, File <- {0, 1}, MAX_BLOCKFILE_SIZE <- 3, Unconnectable <- {"a1"},
    Volatile <- {}, index <- fIndex

-----------------------------------------------------------------------------
(* Walk: branch a has heights 0 to 12, branch b leaves it after height 3    *)
(* and ends at 10.                                                          *)

WalkBlock == ({"a"} \X (0 .. 12)) \cup ({"b"} \X (4 .. 10))
WalkParent == [b \in WalkBlock |->
    IF b[2] = 0 THEN b ELSE IF b = <<"b", 4>> THEN <<"a", 3>> ELSE <<b[1], b[2] - 1>>]
WalkHeight == [b \in WalkBlock |-> b[2]]

C == INSTANCE ChainWalk WITH
    Block <- WalkBlock, Genesis <- <<"a", 0>>, Parent <- WalkParent, Height <- WalkHeight,
    Dense <- 2

-----------------------------------------------------------------------------
(* Targets of eight digits of base 4, three blocks to an interval.          *)

D == INSTANCE Difficulty WITH
    Base <- 4, Digits <- 8, ProofOfWorkLimit <- 1023, TargetTimespan <- 12,
    TargetSpacing <- 4, AllowMinDifficultyBlocks <- FALSE, MedianTimeSpan <- 3,
    Delays <- {-2, 1, 5, 13}, MaxBlocks <- 8

N == INSTANCE Difficulty WITH
    Base <- 4, Digits <- 8, ProofOfWorkLimit <- 1023, TargetTimespan <- 12,
    TargetSpacing <- 4, AllowMinDifficultyBlocks <- TRUE, MedianTimeSpan <- 3,
    Delays <- {-2, 1, 5, 13}, MaxBlocks <- 7

K == INSTANCE MerkleTrees WITH Tx <- {1, 2}, MaxTx <- 7

ASSUME
    /\ T!MarketAssumption /\ V!MarketAssumption /\ O!OutcomeAssumption
    /\ I!MinerAssumption /\ C!WalkAssumption /\ D!DifficultyAssumption /\ N!DifficultyAssumption
    /\ F!FilesAssumption /\ X!FilesAssumption

-----------------------------------------------------------------------------

lineVars == <<lCreated, lContent, lTip, lIndex, lIndexMay, lCoinsMay, lFlushing>>
outcomeVars ==
    <<branch, height, eventOverBy, votes, markets, ballot, considered, late, counted,
      decided, paid>>

minerVars ==
    <<entry, mHeight, pool, pc, pindexPrev, vecPriority, dependsOn, view, fSortedByFee,
      nBlockSize, block>>
fileVars ==
    <<stored, cached, fIndex, pos, undoPos, failed, info, nLastBlockFile, fReindex, scan,
      unknown, queue, disk, short>>
walkVars == <<mapBlockIndex, pskip, vChain>>
chainVars == <<walkVars, blocks, vtx>>

\* Modules with several initial states start in one of them in the other scenes.
BlocksInit ==
    /\ scene \in Scenes
    /\ MarketInit
    /\ IF scene = "voting" THEN V!MarketInit ELSE T!MarketInit
    /\ O!Init
    /\ scene # "schedule" => branch = CHOOSE b \in Branches : TRUE
    /\ I!Init
    /\ scene # "mining" => entry = CHOOSE e \in [MinerTx -> MinerEntries] : TRUE
    /\ F!Init /\ C!Init /\ D!Init /\ K!Init
    /\ scene # "merkle" => vtx = <<1>>

MarketsNext ==
    /\ \/ scene = "reorg" /\ MarketNext /\ UNCHANGED <<lineVars, outcomeVars>>
       \/ scene = "trading" /\ T!MarketNext /\ UNCHANGED <<marketVars, outcomeVars>>
       \/ scene = "voting" /\ V!MarketNext /\ UNCHANGED <<marketVars, outcomeVars>>
       \/ scene = "schedule" /\ O!Next /\ UNCHANGED <<marketVars, lineVars>>
    /\ UNCHANGED <<minerVars, fileVars, chainVars>>

MiningNext ==
    /\ scene = "mining" /\ I!Next
    /\ UNCHANGED <<marketVars, lineVars, outcomeVars, fileVars, chainVars>>

FilesNext ==
    /\ (scene = "files" /\ F!Next) \/ (scene = "invalid" /\ X!Next)
    /\ UNCHANGED <<marketVars, lineVars, outcomeVars, minerVars, chainVars>>

ChainNext ==
    /\ \/ scene = "walk" /\ C!Next /\ UNCHANGED <<blocks, vtx>>
       \/ scene = "retarget" /\ D!Next /\ UNCHANGED <<walkVars, vtx>>
       \/ scene = "testnet" /\ N!Next /\ UNCHANGED <<walkVars, vtx>>
       \/ scene = "merkle" /\ K!Next /\ UNCHANGED <<walkVars, blocks>>
    /\ UNCHANGED <<marketVars, lineVars, outcomeVars, minerVars, fileVars>>

BlocksNext == UNCHANGED scene /\ (MarketsNext \/ MiningNext \/ FilesNext \/ ChainNext)

BlocksSpec ==
    BlocksInit
    /\ [][BlocksNext]_<<scene, marketVars, lineVars, outcomeVars, minerVars, fileVars, chainVars>>

-----------------------------------------------------------------------------
(* The properties of the scenes; IndexCoversChain is the one of Market.     *)

\* On a chain that only grows, what an object refers to (the create* calls of
\* rpcwallet.cpp look it up in the market database) is in the chain before it.
\* getOutcomeTx takes each decision into one outcome, in the block it is due, and
\* that is the outcome of the one ballot on which getballot listed it (miner.cpp and
\* rpcwallet.cpp compute the two windows by different formulas).
MarketsSound ==
    /\ IF scene = "voting" THEN V!MarketTypeOK /\ V!ReferencesResolve
                           ELSE T!MarketTypeOK /\ T!ReferencesResolve
    /\ O!TypeOK /\ O!EachDecisionOnce /\ O!BallotConsidered

\* CreateNewBlock makes a valid block whatever order the two queues and the
\* dependencies give, leaves a transaction out only for a reason, and a block that
\* is found on the tip is accepted, whatever happens between the steps of
\* HivemindMiner.
MinerSound ==
    scene = "mining" => I!TemplateValid /\ I!LeftOutForAReason /\ I!FoundAccepted

\* Whatever is written, flushed, lost in a crash and scanned again, the blocks that
\* the index, now or on disk, has data of can be read, and a reindex that ends has
\* found every block that is stored with its ancestors.
FilesSound ==
    /\ [](/\ scene = "files" => F!TypeOK /\ F!BlocksReadable
          /\ scene = "invalid" => X!TypeOK /\ X!BlocksReadable)
    /\ [][/\ scene = "files" => F!ReindexFinds
          /\ scene = "invalid" => X!ReindexFinds]_fileVars

\* GetAncestor over the skip pointers, the array of CChain after any SetTip,
\* FindFork and the locators agree with the parents of the blocks.
\* GetNextWorkRequired asks for targets in range, changes them by at most the
\* factor of four, and the compact form loses less than its last digit; the median
\* of the block times never goes back.
HeadersExact ==
    /\ scene = "walk" => C!AncestorsExact /\ C!ChainExact /\ C!LocatorFinds
    /\ scene = "retarget" =>
        D!RequiredInRange /\ D!MedianGrows /\ D!StepLimited /\ D!CompactExact
    /\ scene = "testnet" => N!RequiredInRange /\ N!MedianGrows

\* Of two lists of transactions with one root BuildMerkleTree reports one, and
\* branches and partial trees prove what they should.
TreesProve ==
    scene = "merkle" => K!MutationsDetected /\ K!BranchesProve /\ K!PartialTreesProve

\* getOutcomeTx decides what its window holds (miner.cpp:131).
DecisionsDecided == O!DecisionsDecided
=============================================================================
