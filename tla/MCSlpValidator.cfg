SPECIFICATION MCSpec
CONSTANTS
    Txid <- MCTxid
    Tx <- MCTx
    MaxAmount = 3
    Trustable = {"m2", "s2"}
    Removable = {"m1", "s1"}
INVARIANTS
    ValidatorTypeOK
    ValidIsSound
    InOrderIsComplete
    NoRareCondition
    NoInflation
    TokenIsKnown
    QueriesAreTruthful
