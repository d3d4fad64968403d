SPECIFICATION BchSpec
CONSTANTS
    Txid <- UtxoTxid
    Tx <- UtxoTx
    MaxAmount = 2
    OpReturn <- Spam
    RollbackDepth = 2
    Relayable <- UtxoRelayed
    MaxRollbacks = 2
    MaxMissed = 1
    MaxRestarts = 1
CHECK_DEADLOCK FALSE
INVARIANTS
    BchTypeOK
    UtxoSetIsExact
    QueriesAreRight
    HoldingsAreKept
    BatonIsCurrent
