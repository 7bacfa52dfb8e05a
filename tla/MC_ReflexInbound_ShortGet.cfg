\* Two connections over the shared "http2-api" profile, one configured user.
CONSTANTS
    Scale = 10
    PacketSizes <- MC_PacketSizes
    Delays <- MC_Delays
    Conns = {c1, c2}
    Users = {"u1"}
    Requests <- MC_WebGetShort
    Window = 1
    MaxTime = 0
    UpLens = {300}
    HasFallback = TRUE
    HasDispatcher = TRUE
SPECIFICATION FairSpec
PROPERTY
    WebClientAnswered
CHECK_DEADLOCK FALSE
