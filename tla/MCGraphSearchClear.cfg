SPECIFICATION SearchSpec
CONSTANTS
    Txid <- DagTxid
    Tx <- DagTx
    MaxAmount = 2
    Reader = {r1}
    Query <- DagQuery
    MaxExclude = 3
    MaxUnlinked = 1
INVARIANT GuardedByLock
