SPECIFICATION FairServerSpec
CONSTANTS
    Txid <- ThreeTxid
    Tx <- ThreeTx
    MaxAmount = 2
    MaxTxs = 3
    StartHeight = 2
    MaxBlocks = 2
    MaxQueue = 1
    MaxFailures = 1
    MaxLost = 1
    MaxCrashes = 0
    OddScript <- SomeScript
    OddTicker = {}
CHECK_DEADLOCK FALSE
INVARIANTS
    ServerTypeOK
    AnnouncementsSucceed
PROPERTIES
    StartupEnds
    EventuallyKnown
