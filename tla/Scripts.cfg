SPECIFICATION ScriptsSpec
CONSTANTS
    Worker = {w1, w2}
    Master = master
    Check = {c1, c2, c3}
    c1 = c1
    c2 = c2
    c3 = c3
    nBatchSize = 1
    NoThread = NoThread
    MaxSpurious = 1
    Programs <- ScriptPrograms
    Outputs <- ScriptOutputs
    Serialized <- ScriptSerialized
    Flags = {"P2SH", "STRICTENC", "NULLDUMMY", "SIGPUSHONLY", "MINIMALDATA", "CLEANSTACK",
             "DISCOURAGE_UPGRADABLE_NOPS"}
    Txs <- SignedTxs
INVARIANT UnusedUnderMutex
INVARIANT ScriptExact
INVARIANT FlagsRestrict
INVARIANT DigestCommits
PROPERTY WaitIsExact
PROPERTY WaitEnds
CHECK_DEADLOCK FALSE
