SPECIFICATION ValidationSpec
CONSTANTS
    Scenes = {"keys"}
    CoinbaseSpender = {}
    TxId = {"t1", "t2"}
    Pruned = "pruned"
    Coins = {"pruned", "full", "part"}
    NoEntry = NoEntry
    BlockHash = {"g", "b1", "b2", "b3"}
    GenesisHash = "g"
    NullHash = NullHash
    CoinsAt <- SmallCoinsAt
    Tx <- PoolTx
    Block <- PoolBlock
    Coinbase <- PoolCoinbase
    Genesis = "g"
    Parent <- PoolParent
    Height <- PoolHeight
    Chain <- PoolChain
    Vtx <- PoolVtx
    Ins <- PoolIns
    Outs <- PoolOuts
    LockHeight <- PoolLock
    Refusable = {}
    Maturity = 1
    Holder = {"h1", "h2"}
    KeyPoolSize = 2
    MaxKeys = 6
    User = {"net", "rpc", "miner", "main"}
    MaxWrites = 2
    MaxOpens = 3
INVARIANT UsedOnce
