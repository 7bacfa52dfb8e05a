CONSTANTS
    ReqChunks = 4
    Peeked = 2
    RespChunks = 3
    ServerCloses = TRUE
SPECIFICATION Spec
INVARIANTS ClientGetsResponse
CHECK_DEADLOCK FALSE
