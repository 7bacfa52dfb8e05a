\* Two connections over the shared "http2-api" profile, one configured user.
CONSTANTS
    Scale = 10
    PacketSizes <- MC_PacketSizes
    Delays <- MC_Delays
    Conns = {c1, c2}
    Users = {"u1"}
    Requests <- MC_SameMagic
    Window = 1
    MaxTime = 2
    UpLens = {300}
    HasFallback = TRUE
    HasDispatcher = TRUE
SPECIFICATION Spec
SYMMETRY MC_Symmetry
INVARIANT
    HandshakeNonceSingleUse
CHECK_DEADLOCK FALSE
