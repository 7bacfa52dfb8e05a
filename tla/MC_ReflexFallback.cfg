CONSTANTS
    ReqChunks = 4
    Peeked = 2
    RespChunks = 3
    ServerCloses = TRUE
SPECIFICATION FairSpec
INVARIANTS TypeOK RequestRelayedInOrder
PROPERTIES RelayEnds RelayRefined
CHECK_DEADLOCK FALSE
