SPECIFICATION BlocksSpec
CONSTANTS
    Scenes = {"reorg", "trading", "voting", "schedule", "mining", "files", "invalid", "walk", "retarget", "testnet", "merkle"}
    Block <- Fork
    Genesis = "g"
    Parent <- ForkParent
    Chain <- ForkChain
    Height <- ForkHeight
    Object <- Disputed
    Kind <- ForkKind
    Refs <- ForkRefs
    GenesisBranch = "branch"
    Copy = {"c1", "c2"}
    NoHeight = NoHeight
    Branches <- Several
    Decision = {"d1"}
    Market_ = {"m1"}
    Voter = {"v1"}
    Word = 64
    MaxHeight = 9
    EndHeights = {1, 2, 3, 4, 6}
INVARIANT IndexCoversChain
INVARIANT MarketsSound
INVARIANT MinerSound
INVARIANT HeadersExact
INVARIANT TreesProve
PROPERTY FilesSound
CHECK_DEADLOCK FALSE
