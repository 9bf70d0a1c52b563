SPECIFICATION OperatorSpec
CONSTANTS
    g = g  a1 = a1  a2 = a2  b1 = b1  b2 = b2
    Genesis = g
    Block <- FullFork
    Parent <- ForkParent
    Ancestors <- ForkAncestors
    ChainWork <- ForkWork
    AddressOrders <- ForkOrders
    NonFinal = {}
    Unconnectable = {b2}
    Thread = {t1, t2}
    NoThread = NoThread
    Operated = {TRUE}
    MaxInvalidate = 1
    MaxReconsider = 0
    MaxCrash = 0
INVARIANT FindMostWorkAsserts
