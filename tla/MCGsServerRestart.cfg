SPECIFICATION ServerSpec
CONSTANTS
    Txid <- TwoTxid
    Tx <- TwoTx
    MaxAmount = 2
    MaxTxs = 2
    StartHeight = 2
    MaxBlocks = 4
    MaxQueue = 2
    MaxFailures = 1
    MaxLost = 0
    MaxCrashes = 2
    OddScript = {}
    OddTicker = {}
CHECK_DEADLOCK FALSE
INVARIANTS
    CacheIsSound
    CacheLosesOnlyReread
    CaughtUp
    ConfirmedEdgesComplete
    StatusIsConsistent
PROPERTIES
    SyncSpec
