--------------------------- MODULE ReflexProfile ---------------------------
(***************************************************************************)
(* The traffic profile engine of proxy/reflex/morph.go: a TrafficProfile   *)
(* with its two one-shot overrides (nextPacketSize, nextDelay) guarded by  *)
(* the profile's mutex, weighted sampling of sizes and delays, AddPadding, *)
(* and ApplyControlFrame.                                                  *)
(*                                                                         *)
(* The profile the inbound handler uses is the process-wide                *)
(* reflex.Profiles["http2-api"]: one TrafficProfile value shared by every  *)
(* connection of every handler, so its overrides are shared state.         *)
(*                                                                         *)
(* Weights are float64 in the code; here a weight is an integer number of  *)
(* 1/Scale units, and rand.Float64() is one of Scale equally likely points *)
(* (2k+1)/(2*Scale), the midpoints of Scale equal cells of [0,1): every    *)
(* cell has the same probability, and no point falls on a bucket boundary *)
(* (a boundary has probability 0 for a continuous r).                      *)
(***************************************************************************)
EXTENDS Integers, Sequences, SequencesExt

CONSTANTS
    Scale,        \* weight units per 1.0
    PacketSizes,  \* TrafficProfile.PacketSizes: <<[value, weight], ...>>
    Delays        \* TrafficProfile.Delays in milliseconds

\* A distribution: buckets in array order, integer weights.
Dist == Seq([value : Int, weight : Nat])

ASSUME ProfileAssumption ==
    /\ Scale \in Nat \ {0}
    /\ PacketSizes \in Dist
    /\ Delays \in Dist

VARIABLES
    nextPacketSize,  \* TrafficProfile.nextPacketSize (0: unset)
    nextDelay        \* TrafficProfile.nextDelay in ms (0: unset)

profileVars == <<nextPacketSize, nextDelay>>

\* Cumulative weight of the first i buckets (cumsum after i iterations).
CumWeight(d, i) == FoldLeft(+, 0, [k \in 1 .. i |-> d[k].weight])

(* Mutant of Sample: the loop keeps walking instead of returning at the   *)
(* first bucket reached, and so returns the last bucket reached.           *)
SampleLastReached(d, k) ==
    LET reached == {i \in 1 .. Len(d) : 2 * k + 1 <= 2 * CumWeight(d, i)}
    IN  IF reached # {} THEN d[Max(reached)].value ELSE d[Len(d)].value

(* The loop of GetPacketSize/GetDelay for the draw r = (2k+1)/(2*Scale):    *)
(* the first bucket whose cumulative weight reaches r (r <= cumsum, i.e.   *)
(* 2k+1 <= 2*Scale*cumsum), or the last bucket when the loop completes.    *)
Sample(d, k) ==
    LET reached == {i \in 1 .. Len(d) : 2 * k + 1 <= 2 * CumWeight(d, i)}
    IN  IF reached # {} THEN d[Min(reached)].value ELSE d[Len(d)].value

\* Every value the sampling part of one call can return: 0 when empty.
Draws(d) == IF d = <<>> THEN {0} ELSE {Sample(d, k) : k \in 0 .. Scale - 1}

(* Mutant of GetPacketSize: the override is returned but not cleared.     *)
GetPacketSizeNoClear(size) ==
    \/ /\ nextPacketSize > 0
       /\ size = nextPacketSize
       /\ UNCHANGED nextPacketSize
    \/ /\ nextPacketSize <= 0
       /\ size \in Draws(PacketSizes)
       /\ UNCHANGED nextPacketSize

(* GetPacketSize, under p.mu: a pending override (> 0) is returned and     *)
(* cleared; otherwise 0 for an empty distribution, else a sampled size.    *)
GetPacketSize(size) ==
    \/ /\ nextPacketSize > 0
       /\ size = nextPacketSize
       /\ nextPacketSize' = 0
    \/ /\ nextPacketSize <= 0
       /\ size \in Draws(PacketSizes)
       /\ UNCHANGED nextPacketSize

\* GetDelay: the same algorithm over Delays and nextDelay.
GetDelay(delay) ==
    \/ /\ nextDelay > 0
       /\ delay = nextDelay
       /\ nextDelay' = 0
    \/ /\ nextDelay <= 0
       /\ delay \in Draws(Delays)
       /\ UNCHANGED nextDelay

\* SetNextPacketSize / SetNextDelay: store the one-shot override.
SetNextPacketSize(size) == nextPacketSize' = size
SetNextDelay(delay) == nextDelay' = delay

(* Mutant of AddPadding: the result length is taken to be the number of   *)
(* padding bytes, target - len(data).                                      *)
AddPaddingLenDiff(len, target) ==
    IF target <= 0 THEN len ELSE target - len

(* AddPadding, on lengths: data unchanged when target <= 0; otherwise the  *)
(* result has exactly target bytes, data[:target] when len(data) >= target *)
(* or data followed by target - len(data) random bytes.                    *)
AddPaddingLen(len, target) ==
    IF target <= 0 THEN len ELSE target

(* ApplyControlFrame(profile, type, payload), profile non-nil:            *)
(* PADDING_CTRL with >= 2 payload bytes sets the size override to the      *)
(* big-endian u16 of payload[0..2]; TIMING_CTRL with >= 8 bytes sets the   *)
(* delay override to the big-endian u64 of payload[0..8] milliseconds;     *)
(* anything else changes nothing.  A payload is abstracted to its length   *)
(* and the integer its leading bytes encode.                               *)
ApplyControlFrame(type, payloadLen, value) ==
    \/ /\ type = "PADDING_CTRL" /\ payloadLen >= 2
       /\ SetNextPacketSize(value)
       /\ UNCHANGED nextDelay
    \/ /\ type = "TIMING_CTRL" /\ payloadLen >= 8
       /\ SetNextDelay(value)
       /\ UNCHANGED nextPacketSize
    \/ /\ ~(type = "PADDING_CTRL" /\ payloadLen >= 2)
       /\ ~(type = "TIMING_CTRL" /\ payloadLen >= 8)
       /\ UNCHANGED profileVars

(* Mutant of CalculateDistribution: the sort compares with > and orders   *)
(* the buckets by descending value.                                       *)
CalculateDistributionDescending(values) ==
    IF values = <<>> THEN <<>>
    ELSE LET keys == SetToSortSeq(ToSet(values), >)
             count(v) == Len(SelectSeq(values, LAMBDA x : x = v))
         IN  [i \in 1 .. Len(keys) |->
                [value |-> keys[i],
                 weight |-> (count(keys[i]) * Scale) \div Len(values)]]

(* calculateSizeDistribution / calculateDelayDistribution: nil for no      *)
(* samples; else one bucket per distinct value with weight count/total,   *)
(* sorted by ascending value.  The weight is in 1/Scale units, exact when *)
(* total divides Scale * count (the float quotient otherwise).            *)
CalculateDistribution(values) ==
    IF values = <<>> THEN <<>>
    ELSE LET keys == SetToSortSeq(ToSet(values), <)
             count(v) == Len(SelectSeq(values, LAMBDA x : x = v))
         IN  [i \in 1 .. Len(keys) |->
                [value |-> keys[i],
                 weight |-> (count(keys[i]) * Scale) \div Len(values)]]

\* CreateProfileFromCapture: the two distributions of a new profile.
CreateProfileFromCapture(packetSizes, delays) ==
    [PacketSizes |-> CalculateDistribution(packetSizes),
     Delays |-> CalculateDistribution(delays)]


=============================================================================
