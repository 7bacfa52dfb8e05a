------------------------- MODULE MC_ReflexProfile -------------------------
(* The sampling loop of GetPacketSize/GetDelay and the profile built by   *)
(* CreateProfileFromCapture, each against a reference.  A state holds     *)
(* either a distribution under test (every distribution of 1 to 3        *)
(* buckets with weights in fifths, bucket i having value i so that the   *)
(* returned value names the bucket) or a capture under test (every       *)
(* capture of 1 to 4 samples over three packet sizes).  Scale = 60 makes  *)
(* weights in fifths and count/total for totals up to 4 exact.           *)
EXTENDS ReflexProfile, FiniteSets

MaxBuckets == 3
MaxSamples == 4
SampleSizes == {200, 500, 1500}

TestDists ==
    UNION { { [i \in 1 .. n |-> [value |-> i, weight |-> w[i] * (Scale \div 5)]]
              : w \in [1 .. n -> 0 .. 5] }
            : n \in 1 .. MaxBuckets }

TestCaptures == UNION { [1 .. n -> SampleSizes] : n \in 1 .. MaxSamples }

VARIABLES
    dist,     \* the distribution under test, or <<>>
    capture   \* the captured packet sizes under test, or <<>>

NoDist == <<>>

Init ==
    /\ \/ dist \in TestDists /\ capture = <<>>
       \/ dist = <<>> /\ capture \in TestCaptures
    /\ nextPacketSize = 0 /\ nextDelay = 0

Next == UNCHANGED <<dist, capture, nextPacketSize, nextDelay>>
Spec == Init /\ [][Next]_<<dist, capture, nextPacketSize, nextDelay>>

CappedCum(d, i) == IF CumWeight(d, i) < Scale THEN CumWeight(d, i) ELSE Scale

(* Reference: of the Scale equally likely draws, bucket i < n receives    *)
(* the part of its weight interval (cum(i-1), cum(i)] that lies below 1,  *)
(* and the last bucket receives everything above cum(n-1).                *)
RefMass(d, i) ==
    IF i < Len(d) THEN CappedCum(d, i) - CappedCum(d, i - 1)
    ELSE Scale - CappedCum(d, i - 1)

(* GetPacketSize/GetDelay (spec 4.2): the walk in array order returns     *)
(* each bucket with exactly its reference probability, including when the *)
(* weights sum to less than 1 (the last bucket takes the rest) or to more *)
(* (later buckets are cut off).                                           *)
SampleMatchesReference ==
    \A i \in 1 .. Len(dist) :
        Cardinality({k \in 0 .. Scale - 1 : Sample(dist, k) = i}) = RefMass(dist, i)

\* Reference: how often v occurs in the capture.
Occurrences(v) == Cardinality({i \in DOMAIN capture : capture[i] = v})

(* Profile construction from captures (spec 3, morph.go 203-236): the     *)
(* buckets are sorted by strictly ascending size, and a profile built      *)
(* from a capture, sampled by GetPacketSize, returns each captured size in *)
(* exactly the fraction of draws with which it occurs in the capture.      *)
CaptureProfileReproducesCapture ==
    LET d == CreateProfileFromCapture(capture, <<>>).PacketSizes
    IN  capture # <<>> =>
        /\ \A i \in 1 .. Len(d) - 1 : d[i].value < d[i + 1].value
        /\ \A v \in SampleSizes :
              Cardinality({k \in 0 .. Scale - 1 : Sample(d, k) = v}) * Len(capture)
                = Occurrences(v) * Scale
=============================================================================
