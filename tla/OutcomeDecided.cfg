SPECIFICATION BlocksSpec
CONSTANTS
    Scenes = {"schedule"}
    Block <- Fork
    Genesis = "g"
    Parent <- ForkParent
    Chain <- ForkChain
    Height <- ForkHeight
    Object <- Disputed
    Kind <- ForkKind
    Refs <- ForkRefs
    GenesisBranch = "branch"
    Copy = {"c1", "c2"}
    NoHeight = NoHeight
    Branches <- Fitting
    Decision = {"d1"}
    Market_ = {"m1"}
    Voter = {"v1"}
    Word = 64
    MaxHeight = 6
    EndHeights = {3}
CHECK_DEADLOCK FALSE
INVARIANT DecisionsDecided
