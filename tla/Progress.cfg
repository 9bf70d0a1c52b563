SPECIFICATION ProgressSpec
CONSTANTS
    Scenes = {"chain", "download", "relay", "nodes", "flow", "rpc", "walletdb"}
    None = None
    NoThread = NoThread
PROPERTY BestChainWins
PROPERTY Downloads
PROPERTY Delivered
PROPERTY RpcEnds
PROPERTY UpdatesFlushed
CHECK_DEADLOCK FALSE
