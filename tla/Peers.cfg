SPECIFICATION PeersSpec
CONSTANTS
    Scenes = {"threads", "openers", "flow", "tables", "shuffle", "greeting", "pings", "alerts", "rpc"}
    None = None
    Worker = {"w1", "w2"}
    Call = {"c1", "c2", "c3", "c4", "c5"}
    Method <- CallKind
    MaxTip = 0
    Node = {n1, n2}
    Addr = {"a1", "a2"}
    Opener = {"o1", "o2"}
    Targets <- BothDial
    Names <- SecondNames
    Direct <- SecondNames
    Callers = {"a2"}
    MaxOutbound = 2
    MaxInbound = 1
    Null = Null
    n1 = n1
    n2 = n2
    n3 = n3
SYMMETRY Symmetry
INVARIANT NodesSafe
INVARIANT StreamExact
INVARIANT Check
INVARIANT SessionSound
INVARIANT AlertsSound
INVARIANT RelockPending
CHECK_DEADLOCK FALSE
