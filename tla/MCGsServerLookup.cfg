SPECIFICATION ServerSpec
CONSTANTS
    Txid <- TwoTxid
    Tx <- TwoTx
    MaxAmount = 2
    MaxTxs = 2
    StartHeight = 2
    MaxBlocks = 3
    MaxQueue = 2
    MaxFailures = 0
    MaxLost = 0
    MaxCrashes = 0
    OddScript = {}
    OddTicker = {}
CHECK_DEADLOCK FALSE
INVARIANT SearchFindsValid
