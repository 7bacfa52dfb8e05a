\* One connection, no symmetry (liveness), an upstream that answers.
CONSTANTS
    Scale = 10
    PacketSizes <- MC_PacketSizes
    Delays <- MC_Delays
    Conns = {c1}
    Users = {"u1"}
    Requests <- MC_LiveRequests
    Window = 1
    MaxTime = 1
    UpLens = {300}
    HasFallback = TRUE
    HasDispatcher = TRUE
SPECIFICATION FairUpstreamSpec
PROPERTY
    ClientCloseEndsTask
CHECK_DEADLOCK FALSE
