SPECIFICATION BlocksSpec
CONSTANTS
    Scenes = {"reorg"}
    Block <- Fork
    Genesis = "g"
    Parent <- ForkParent
    Chain <- ForkChain
    Height <- ForkHeight
    Object <- Disputed
    Kind <- ForkKind
    Refs <- ForkRefs
    GenesisBranch = "branch"
    Copy = {"c1"}
    NoHeight = NoHeight
    Branches <- Several
    Decision = {"d1"}
    Market_ = {"m1"}
    Voter = {"v1"}
    Word = 64
    MaxHeight = 9
    EndHeights = {1, 2, 3, 4, 6}
CHECK_DEADLOCK FALSE
INVARIANT IndexIsLedger
