SPECIFICATION SyncSpec
CONSTANTS
    Txid <- SmallTxid
    Tx <- SmallTx
    MaxAmount = 2
    MaxTxs = 2
INVARIANTS
    SyncTypeOK
    GraphsAreValid
    GraphsDisjoint
    EdgesStayInside
PROPERTIES
    VerdictsAreFinal
    ConfirmedGraphGrows
