SPECIFICATION FairGatewaySpec
CONSTANTS
    Conn = {c1}
    Request <- MCRequest
    Output <- MCOutput
    Indexed <- MCIndexed
    TxidLen = 2
    Limit = 1
    Uint32 = 16
    Generated <- ThisBuild
PROPERTY RequestsAreAnswered
