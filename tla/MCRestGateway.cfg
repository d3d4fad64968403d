SPECIFICATION FairGatewaySpec
CONSTANTS
    Conn = {c1, c2}
    Request <- MCRequest
    Output <- MCOutput
    Indexed <- MCIndexed
    TxidLen = 2
    Limit = 1
    Uint32 = 16
    Generated <- AnyBuild
PROPERTY ImplementsService
PROPERTY RequestsEnd
