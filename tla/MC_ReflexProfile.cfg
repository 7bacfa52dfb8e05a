\* 6 + 36 + 216 distributions (weights in fifths) and 3 + 9 + 27 + 81
\* captures; the handler's profile itself empty.
CONSTANTS
    Scale = 60
    PacketSizes <- NoDist
    Delays <- NoDist
SPECIFICATION Spec
INVARIANTS SampleMatchesReference CaptureProfileReproducesCapture
