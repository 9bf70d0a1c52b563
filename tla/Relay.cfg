SPECIFICATION SceneSpec
CONSTANTS
    Scenes = {"relay", "flight", "failed", "codec"}
    None = None
    Peer = {"p1", "p2"}
    Tx = {"a", "b", "c", "x", "l"}
    Parents <- Spends
    Invalid = {"x"}
    Refused = {}
    Has <- Offers
    Local = {"l"}
    Prompt = {}
    MaxOrphanTx = 2
    MaxAskFor = 2
    Seeds <- CodecSeeds
    Alphabet <- CodecAlphabet
    MaxLen <- CodecMaxLen
INVARIANT CodecsExact
PROPERTY OrphansConsistent
PROPERTY DownloadExact
CHECK_DEADLOCK FALSE
