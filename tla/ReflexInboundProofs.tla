------------------------ MODULE ReflexInboundProofs ------------------------
(***************************************************************************)
(* Proofs about ReflexInbound for every value of its constants: type       *)
(* correctness, that a session (and every reply frame) needs a handshake   *)
(* processHandshake accepted, and that the shared profile's size override  *)
(* is one-shot across connections.                                         *)
(***************************************************************************)
EXTENDS ReflexInbound, WellFoundedInduction, SequenceTheorems, TLAPS

-----------------------------------------------------------------------------
(* The sampling loop of GetPacketSize/GetDelay returns a bucket of the     *)
(* distribution: the first one reached exists because every non-empty set  *)
(* of naturals has a least element.                                        *)

\* Min of a non-empty set of naturals is in it and below all of it.
LEMMA MinIsLeast ==
    ASSUME NEW T, T \subseteq Nat, T # {}
    PROVE  Min(T) \in T /\ \A y \in T : Min(T) <= y
<1>1. \E x \in T : \A y \in T : ~(<<y, x>> \in OpToRel(<, Nat))
    BY NatLessThanWellFounded, WFMin
<1>2. PICK x \in T : \A y \in T : ~(<<y, x>> \in OpToRel(<, Nat))
    BY <1>1
<1>3. \A y \in T : <<y, x>> \in OpToRel(<, Nat) <=> y < x
    BY DEF OpToRel
<1>4. \A y \in T : ~(y < x)
    BY <1>2, <1>3, Zenon
<1>5. \A y \in T : x <= y
    BY <1>4
<1>. QED
    BY <1>5 DEF Min

\* Sample(d, k) is the value of one of d's buckets when d is not empty.
LEMMA SampleInRange ==
    ASSUME NEW d \in Dist, d # <<>>, NEW k
    PROVE  \E i \in 1 .. Len(d) : Sample(d, k) = d[i].value
<1> DEFINE reached == {i \in 1 .. Len(d) : 2 * k + 1 <= 2 * CumWeight(d, i)}
<1>1. Len(d) \in Nat \ {0}
    BY EmptySeq, LenProperties DEF Dist
<1>2. CASE reached # {}
    <2>1. reached \subseteq Nat
        OBVIOUS
    <2>2. Min(reached) \in reached
        BY <1>2, <2>1, MinIsLeast
    <2>. QED
        BY <2>2, <1>2 DEF Sample
<1>3. CASE reached = {}
    BY <1>1, <1>3 DEF Sample
<1>. QED
    BY <1>2, <1>3

\* The values of a distribution's buckets are integers.
LEMMA DistValues ==
    ASSUME NEW d \in Dist
    PROVE  \A i \in 1 .. Len(d) : d[i].value \in Int
<1>1. d \in Seq([value : Int, weight : Nat])
    BY DEF Dist
<1>2. \A i \in 1 .. Len(d) : d[i] \in [value : Int, weight : Nat]
    BY <1>1, LenProperties
<1>. QED
    BY <1>2

\* Every size or delay a call can sample is an integer.
LEMMA DrawsInt ==
    ASSUME NEW d \in Dist
    PROVE  Draws(d) \subseteq Int
<1>1. CASE d = <<>>
    BY <1>1 DEF Draws
<1>2. CASE d # <<>>
    <2>1. \A i \in 1 .. Len(d) : d[i].value \in Int
        BY DistValues
    <2>. QED
        BY <1>2, <2>1, SampleInRange DEF Draws
<1>. QED
    BY <1>1, <1>2

\* A non-empty distribution of positive values only samples positive values.
LEMMA DrawsPositive ==
    ASSUME NEW d \in Dist, d # <<>>,
           \A i \in 1 .. Len(d) : d[i].value > 0
    PROVE  Draws(d) \subseteq Nat \ {0}
<1>1. \A i \in 1 .. Len(d) : d[i].value \in Int
    BY DistValues
<1>. QED
    BY <1>1, SampleInRange DEF Draws

-----------------------------------------------------------------------------
(* The inductive invariant: the types, with the profile's size override a  *)
(* natural number (PADDING_CTRL stores a u16), and the handshake guard of  *)
(* sessions itself, which needs nothing more because acceptedAt is set     *)
(* once, by the same step that passes the window and user checks.          *)
IInv == TypeOK /\ nextPacketSize \in Nat /\ SessionRequiresValidHandshake

\* The frame ReadFrame returns next is a frame, and the rest are frames.
LEMMA NextFrame ==
    ASSUME TypeOK, NEW c \in Conns, inFrames[c] # <<>>
    PROVE  Head(inFrames[c]) \in Frame /\ Tail(inFrames[c]) \in Seq(Frame)
<1>1. inFrames[c] \in Seq(Frame)
    BY DEF TypeOK
<1>. QED
    BY <1>1, HeadTailProperties

(* A step that only ends connection c's task, with an outcome other than  *)
(* "closed" (the one SessionEnd gives a session that read to EOF).        *)
LEMMA FinishIInv ==
    ASSUME IInv, NEW c \in Conns, NEW o \in Outcome \ {"closed"}, Finish(c, o),
           UNCHANGED <<clientEof, now, inFrames, upLen, replies, acceptedAt,
                       appliedSizes, replySizes, profileVars, req>>
    PROVE  IInv'
<1>1. TypeOK'
    BY DEF IInv, TypeOK, Finish, Phase
<1>2. nextPacketSize' \in Nat
    BY DEF IInv, profileVars
<1>3. SessionRequiresValidHandshake'
    <2> SUFFICES ASSUME NEW d \in Conns
                 PROVE  /\ (pc'[d] \in {"session", "upstream", "morph_size", "morph_delay"}
                              \/ outcome'[d] = "closed" \/ replies'[d] # <<>>)
                             => acceptedAt'[d] # -1
                        /\ acceptedAt'[d] # -1 =>
                             /\ req'[d].hs.user \in Users
                             /\ acceptedAt'[d] - Window <= req'[d].hs.ts
                             /\ req'[d].hs.ts <= acceptedAt'[d] + Window
        BY DEF SessionRequiresValidHandshake
    <2>1. CASE d = c
        BY <2>1 DEF IInv, TypeOK, SessionRequiresValidHandshake, Finish
    <2>2. CASE d # c
        BY <2>2 DEF IInv, TypeOK, SessionRequiresValidHandshake, Finish
    <2>. QED
        BY <2>1, <2>2
<1>. QED
    BY <1>1, <1>2, <1>3 DEF IInv

LEMMA InitIInv == Init => IInv
<1> SUFFICES ASSUME Init PROVE IInv
    OBVIOUS
<1>1. \A c \in Conns : req[c].frames \in Seq(Frame)
    BY InboundAssumption DEF Init
<1>2. TypeOK
    BY <1>1, InboundAssumption, EmptySeq DEF Init, TypeOK, Phase, Outcome
<1>3. SessionRequiresValidHandshake
    BY DEF Init, SessionRequiresValidHandshake
<1>. QED
    BY <1>2, <1>3 DEF Init, IInv

LEMMA TickIInv == IInv /\ Tick => IInv'
    BY InboundAssumption DEF IInv, TypeOK, SessionRequiresValidHandshake, Tick, profileVars

LEMMA ClientCloseWriteIInv ==
    ASSUME IInv, NEW c \in Conns, ClientCloseWrite(c) PROVE IInv'
    BY DEF IInv, TypeOK, SessionRequiresValidHandshake, ClientCloseWrite, profileVars

LEMMA ProcessIInv ==
    ASSUME IInv, NEW c \in Conns, Process(c) PROVE IInv'
    BY DEF IInv, TypeOK, SessionRequiresValidHandshake, Process, Goto, Finish,
           Phase, Outcome, profileVars

LEMMA HandleReflexMagicIInv ==
    ASSUME IInv, NEW c \in Conns, HandleReflexMagic(c) PROVE IInv'
    BY DEF IInv, TypeOK, SessionRequiresValidHandshake, HandleReflexMagic, Goto,
           Finish, Phase, Outcome, profileVars

LEMMA HandleReflexHTTPIInv ==
    ASSUME IInv, NEW c \in Conns, HandleReflexHTTP(c) PROVE IInv'
    BY DEF IInv, TypeOK, SessionRequiresValidHandshake, HandleReflexHTTP, Goto,
           Finish, Phase, Outcome, profileVars

LEMMA ProcessHandshakeIInv ==
    ASSUME IInv, NEW c \in Conns, ProcessHandshake(c) PROVE IInv'
<1> DEFINE hs == req[c].hs
<1>1. hs.ts \in Int /\ now \in Nat
    BY InboundAssumption DEF IInv, TypeOK
<1>2. CASE \/ hs.ts < now - Window \/ hs.ts > now + Window
           \/ ~(hs.ts < now - Window \/ hs.ts > now + Window) /\ hs.user \notin Users
    <2>1. Finish(c, "forbidden") /\ UNCHANGED acceptedAt
        BY <1>1, <1>2, InboundAssumption DEF ProcessHandshake
    <2>. QED
        BY <2>1, FinishIInv DEF ProcessHandshake, Outcome
<1>3. CASE ~(hs.ts < now - Window \/ hs.ts > now + Window) /\ hs.user \in Users
    <2>1. Goto(c, "session") /\ acceptedAt' = [acceptedAt EXCEPT ![c] = now]
          /\ UNCHANGED outcome
        BY <1>3 DEF ProcessHandshake
    <2>2. now - Window <= hs.ts /\ hs.ts <= now + Window
        BY <1>1, <1>3, InboundAssumption
    <2>3. UNCHANGED <<clientEof, now, inFrames, upLen, replies, appliedSizes,
                      replySizes, profileVars, req>>
        BY DEF ProcessHandshake
    <2>4. TypeOK'
        BY <1>1, <2>1, <2>3 DEF IInv, TypeOK, Goto, Phase
    <2>5. nextPacketSize' \in Nat
        BY <2>3 DEF IInv, profileVars
    <2>6. ASSUME NEW d \in Conns
          PROVE  /\ (pc'[d] \in {"session", "upstream", "morph_size", "morph_delay"}
                       \/ outcome'[d] = "closed" \/ replies'[d] # <<>>)
                      => acceptedAt'[d] # -1
                 /\ acceptedAt'[d] # -1 =>
                      /\ req'[d].hs.user \in Users
                      /\ acceptedAt'[d] - Window <= req'[d].hs.ts
                      /\ req'[d].hs.ts <= acceptedAt'[d] + Window
        <3>1. CASE d = c
            BY <3>1, <1>1, <1>3, <2>1, <2>2, <2>3 DEF IInv, TypeOK
        <3>2. CASE d # c
            BY <3>2, <2>1, <2>3 DEF IInv, TypeOK, SessionRequiresValidHandshake, Goto
        <3>. QED
            BY <3>1, <3>2
    <2>. QED
        BY <2>4, <2>5, <2>6 DEF IInv, SessionRequiresValidHandshake
<1>. QED
    BY <1>2, <1>3

LEMMA SessionEndIInv ==
    ASSUME IInv, NEW c \in Conns, SessionEnd(c) PROVE IInv'
    BY DEF IInv, TypeOK, SessionRequiresValidHandshake, SessionEnd, Finish,
           Phase, Outcome, profileVars

LEMMA SessionDataIInv ==
    ASSUME IInv, NEW c \in Conns, SessionData(c) PROVE IInv'
<1>1. Tail(inFrames[c]) \in Seq(Frame)
    BY NextFrame DEF IInv, SessionData
<1>. QED
    BY <1>1 DEF IInv, TypeOK, SessionRequiresValidHandshake, SessionData, Goto,
           Phase, profileVars

LEMMA UpstreamReturnIInv ==
    ASSUME IInv, NEW c \in Conns, UpstreamReturn(c) PROVE IInv'
    BY InboundAssumption DEF IInv, TypeOK, SessionRequiresValidHandshake,
           UpstreamReturn, Goto, Phase, profileVars

LEMMA SessionControlIInv ==
    ASSUME IInv, NEW c \in Conns, SessionControl(c) PROVE IInv'
<1>1. Head(inFrames[c]) \in Frame /\ Tail(inFrames[c]) \in Seq(Frame)
    BY NextFrame DEF IInv, SessionControl
<1>2. nextPacketSize' \in Nat
    BY <1>1 DEF IInv, SessionControl, ApplyControlFrame, SetNextPacketSize,
           SetNextDelay, profileVars, Frame
<1>. QED
    BY <1>1, <1>2 DEF IInv, TypeOK, SessionRequiresValidHandshake, SessionControl

LEMMA MorphWriteIInv ==
    ASSUME IInv, NEW c \in Conns, MorphWrite(c) PROVE IInv'
<1>1. PICK size \in {nextPacketSize} \cup Draws(PacketSizes) :
          /\ GetPacketSize(size)
          /\ replies' = [replies EXCEPT ![c] = Append(@, AddPaddingLen(upLen[c], size))]
    BY DEF MorphWrite
<1>2. size \in Int
    BY <1>1, DrawsInt, ProfileAssumption DEF IInv
<1>3. AddPaddingLen(upLen[c], size) \in Nat
    BY <1>2 DEF IInv, TypeOK, AddPaddingLen
<1>4. replies'[c] \in Seq(Nat)
    BY <1>1, <1>3, AppendProperties DEF IInv, TypeOK
<1>5. nextPacketSize' \in Nat
    BY <1>1 DEF IInv, GetPacketSize
<1>. QED
    BY <1>1, <1>4, <1>5 DEF IInv, TypeOK, SessionRequiresValidHandshake,
           MorphWrite, Goto, Phase

LEMMA MorphDelayIInv ==
    ASSUME IInv, NEW c \in Conns, MorphDelay(c) PROVE IInv'
    BY DEF IInv, TypeOK, SessionRequiresValidHandshake, MorphDelay, Goto, Phase

LEMMA HandleFallbackIInv ==
    ASSUME IInv, NEW c \in Conns, HandleFallback(c) PROVE IInv'
<1>1. PICK o \in {"fallback", "dialerror", "nofallback"} : Finish(c, o)
    BY DEF HandleFallback
<1>. QED
    BY <1>1, FinishIInv DEF HandleFallback, Outcome

LEMMA IInvStep == IInv /\ [Next]_vars => IInv'
<1> SUFFICES ASSUME IInv, [Next]_vars PROVE IInv'
    OBVIOUS
<1>1. CASE Tick
    BY <1>1, TickIInv
<1>2. CASE \E c \in Conns : ClientCloseWrite(c) \/ ServerStep(c) \/ UpstreamReturn(c)
    <2>1. PICK c \in Conns : ClientCloseWrite(c) \/ ServerStep(c) \/ UpstreamReturn(c)
        BY <1>2
    <2>. QED
        BY <2>1, ClientCloseWriteIInv, ProcessIInv, HandleReflexMagicIInv,
           HandleReflexHTTPIInv, ProcessHandshakeIInv, SessionEndIInv,
           SessionDataIInv, SessionControlIInv, MorphWriteIInv, MorphDelayIInv,
           HandleFallbackIInv, UpstreamReturnIInv DEF ServerStep
<1>3. CASE UNCHANGED vars
    BY <1>3 DEF IInv, TypeOK, SessionRequiresValidHandshake, vars
<1>. QED
    BY <1>1, <1>2, <1>3 DEF Next

-----------------------------------------------------------------------------
(* Every state of the inbound handler is well typed: the per-connection   *)
(* phase, outcome, frames, read-back length, reply lengths and acceptance *)
(* time that Process, the handshake parsers and handleSession keep.       *)
THEOREM InboundTypeCorrect == Spec => []TypeOK
<1>1. Init => IInv
    BY InitIInv
<1>2. IInv /\ [Next]_vars => IInv'
    BY IInvStep
<1>3. IInv => TypeOK
    BY DEF IInv
<1>. QED
    BY <1>1, <1>2, <1>3, PTL DEF Spec

(* processHandshake: a connection is in the session loop, ended it with   *)
(* EOF, or has been sent reply frames only after its handshake named a    *)
(* configured user with a timestamp within Window of the clock when it    *)
(* was checked.                                                            *)
THEOREM SessionGuarded == Spec => []SessionRequiresValidHandshake
<1>1. Init => IInv
    BY InitIInv
<1>2. IInv /\ [Next]_vars => IInv'
    BY IInvStep
<1>3. IInv => SessionRequiresValidHandshake
    BY DEF IInv
<1>. QED
    BY <1>1, <1>2, <1>3, PTL DEF Spec

-----------------------------------------------------------------------------
(* The size override.  A reply length that the profile cannot sample is   *)
(* charged to a PADDING_CTRL frame: each such length has been replied at   *)
(* most as often as it was applied, less one while it is still pending in  *)
(* nextPacketSize.  This needs the profile to sample only positive sizes   *)
(* (GetPacketSize's 0 for an empty profile leaves the upstream length,     *)
(* which no override explains); every built-in profile has such sizes.     *)
PositiveSizes ==
    PacketSizes # <<>> /\ \A i \in 1 .. Len(PacketSizes) : PacketSizes[i].value > 0

\* Copies of n in bag B (CopiesIn of the standard Bags).
Copies(n, B) == IF n \in DOMAIN B THEN B[n] ELSE 0

\* The override still waiting in nextPacketSize (0 means unset).
Pending(n) == IF nextPacketSize = n /\ n > 0 THEN 1 ELSE 0

OverrideBudget ==
    \A n : n \notin Draws(PacketSizes) =>
        Copies(n, replySizes) + Pending(n) <= Copies(n, appliedSizes)

OInv == IInv /\ IsABag(appliedSizes) /\ IsABag(replySizes) /\ OverrideBudget

\* Adding one copy of v to a bag.
LEMMA BagAddOne ==
    ASSUME NEW B, IsABag(B), NEW v
    PROVE  /\ IsABag(B (+) SetToBag({v}))
           /\ \A n : Copies(n, B (+) SetToBag({v})) = Copies(n, B) + (IF n = v THEN 1 ELSE 0)
<1>1. \A n \in DOMAIN B : B[n] \in Nat \ {0}
    BY DEF IsABag
<1>. QED
    BY <1>1 DEF IsABag, (+), SetToBag, Copies

\* The bag counts of an IsABag are naturals.
LEMMA CopiesNat ==
    ASSUME NEW B, IsABag(B), NEW n
    PROVE  Copies(n, B) \in Nat /\ (n \in DOMAIN B => Copies(n, B) > 0)
    BY DEF IsABag, Copies

LEMMA InitOInv == Init => OInv
<1> SUFFICES ASSUME Init PROVE OInv
    OBVIOUS
<1>1. IInv
    BY InitIInv
<1>2. IsABag(appliedSizes) /\ IsABag(replySizes)
    BY DEF Init, IsABag, EmptyBag, SetToBag
<1>3. OverrideBudget
    BY DEF Init, OverrideBudget, Copies, Pending, EmptyBag, SetToBag
<1>. QED
    BY <1>1, <1>2, <1>3 DEF OInv

\* Only MorphWrite and SessionControl touch the override or the two bags.
LEMMA QuietSteps ==
    ASSUME NEW c \in Conns,
           \/ Tick \/ ClientCloseWrite(c) \/ UpstreamReturn(c)
           \/ Process(c) \/ HandleReflexMagic(c) \/ HandleReflexHTTP(c)
           \/ ProcessHandshake(c) \/ SessionEnd(c) \/ SessionData(c)
           \/ MorphDelay(c) \/ HandleFallback(c)
    PROVE  UNCHANGED <<nextPacketSize, appliedSizes, replySizes>>
    BY DEF Tick, ClientCloseWrite, UpstreamReturn, Process, HandleReflexMagic,
           HandleReflexHTTP, ProcessHandshake, SessionEnd, SessionData,
           MorphDelay, HandleFallback, profileVars

(* MorphWrite: a pending override is consumed by the reply it sizes; a    *)
(* sampled size is one the profile can sample.                            *)
LEMMA MorphWriteOInv ==
    ASSUME PositiveSizes, OInv, IInv', NEW c \in Conns, MorphWrite(c)
    PROVE  OInv'
<1>1. PICK size \in {nextPacketSize} \cup Draws(PacketSizes) :
          /\ GetPacketSize(size)
          /\ replySizes' = replySizes (+) SetToBag({AddPaddingLen(upLen[c], size)})
    BY DEF MorphWrite
<1> DEFINE r == AddPaddingLen(upLen[c], size)
<1>2. Draws(PacketSizes) \subseteq Nat \ {0}
    BY DrawsPositive, ProfileAssumption DEF PositiveSizes
<1>3. UNCHANGED appliedSizes
    BY DEF MorphWrite
<1>4. /\ IsABag(replySizes')
      /\ \A n : Copies(n, replySizes') = Copies(n, replySizes) + (IF n = r THEN 1 ELSE 0)
    BY <1>1, BagAddOne DEF OInv
<1>5. CASE nextPacketSize > 0
    <2>1. size = nextPacketSize /\ nextPacketSize' = 0
        BY <1>1, <1>5 DEF GetPacketSize, OInv, IInv
    <2>2. r = nextPacketSize
        BY <1>5, <2>1 DEF AddPaddingLen, OInv, IInv
    <2>3. \A n : Pending(n) = (IF n = r THEN 1 ELSE 0) /\ Pending(n)' = 0
        BY <1>5, <2>1, <2>2 DEF Pending
    <2>4. OverrideBudget'
        <3> SUFFICES ASSUME NEW n, n \notin Draws(PacketSizes)
                     PROVE  Copies(n, replySizes') + Pending(n)' <= Copies(n, appliedSizes')
            BY DEF OverrideBudget
        <3>1. Copies(n, replySizes) + Pending(n) <= Copies(n, appliedSizes)
            BY DEF OInv, OverrideBudget
        <3>2. Copies(n, replySizes) \in Nat
            BY CopiesNat DEF OInv
        <3>. QED
            BY <1>3, <1>4, <2>3, <3>1, <3>2
    <2>. QED
        BY <1>3, <1>4, <2>4 DEF OInv
<1>6. CASE nextPacketSize <= 0
    <2>1. size \in Draws(PacketSizes) /\ UNCHANGED nextPacketSize
        BY <1>1, <1>6 DEF GetPacketSize, OInv, IInv
    <2>2. r = size
        BY <1>2, <2>1 DEF AddPaddingLen
    <2>3. \A n : Pending(n)' = Pending(n)
        BY <2>1 DEF Pending
    <2>4. OverrideBudget'
        <3> SUFFICES ASSUME NEW n, n \notin Draws(PacketSizes)
                     PROVE  Copies(n, replySizes') + Pending(n)' <= Copies(n, appliedSizes')
            BY DEF OverrideBudget
        <3>1. Copies(n, replySizes) + Pending(n) <= Copies(n, appliedSizes)
            BY DEF OInv, OverrideBudget
        <3>2. n # r
            BY <2>1, <2>2
        <3>3. Copies(n, replySizes) \in Nat /\ Pending(n) \in {0, 1}
            BY CopiesNat DEF OInv, Pending
        <3>. QED
            BY <1>3, <1>4, <2>3, <3>1, <3>2, <3>3
    <2>. QED
        BY <1>3, <1>4, <2>4 DEF OInv
<1>. QED
    BY <1>5, <1>6 DEF OInv, IInv

(* SessionControl: a PADDING_CTRL with a positive value both sets the     *)
(* override and records it as applied; one with value 0 clears it.        *)
LEMMA SessionControlOInv ==
    ASSUME OInv, IInv', NEW c \in Conns, SessionControl(c)
    PROVE  OInv'
<1> DEFINE f == Head(inFrames[c])
<1>1. f \in Frame
    BY NextFrame DEF SessionControl, OInv, IInv
<1>2. UNCHANGED replySizes
    BY DEF SessionControl
<1>3. appliedSizes' = IF f.type = "PADDING_CTRL" /\ f.len >= 2 /\ f.value > 0
                      THEN appliedSizes (+) SetToBag({f.value}) ELSE appliedSizes
    BY DEF SessionControl
<1>4. ApplyControlFrame(f.type, f.len, f.value)
    BY DEF SessionControl
<1>5. CASE f.type = "PADDING_CTRL" /\ f.len >= 2 /\ f.value > 0
    <2>1. nextPacketSize' = f.value
        BY <1>4, <1>5 DEF ApplyControlFrame, SetNextPacketSize
    <2>2. /\ IsABag(appliedSizes')
          /\ \A n : Copies(n, appliedSizes') = Copies(n, appliedSizes) + (IF n = f.value THEN 1 ELSE 0)
        BY <1>3, <1>5, BagAddOne DEF OInv
    <2>3. \A n : Pending(n)' = (IF n = f.value THEN 1 ELSE 0) /\ Pending(n) \in {0, 1}
        BY <1>1, <1>5, <2>1 DEF Pending, Frame
    <2>4. \A n : Copies(n, replySizes) \in Nat
        BY CopiesNat DEF OInv
    <2>5. OverrideBudget'
        <3> SUFFICES ASSUME NEW n, n \notin Draws(PacketSizes)
                     PROVE  Copies(n, replySizes') + Pending(n)' <= Copies(n, appliedSizes')
            BY DEF OverrideBudget
        <3>1. Copies(n, replySizes) + Pending(n) <= Copies(n, appliedSizes)
            BY DEF OInv, OverrideBudget
        <3>2. Copies(n, appliedSizes) \in Nat
            BY CopiesNat DEF OInv
        <3>. QED
            BY <1>2, <2>2, <2>3, <2>4, <3>1, <3>2
    <2>. QED
        BY <1>2, <2>2, <2>5 DEF OInv
<1>6. CASE f.type = "PADDING_CTRL" /\ f.len >= 2 /\ ~(f.value > 0)
    <2>1. nextPacketSize' = f.value /\ f.value = 0
        BY <1>1, <1>4, <1>6 DEF ApplyControlFrame, SetNextPacketSize, Frame
    <2>2. \A n : Pending(n)' = 0 /\ Pending(n) \in {0, 1}
        BY <2>1 DEF Pending
    <2>3. \A n : Copies(n, replySizes) \in Nat /\ Copies(n, appliedSizes) \in Nat
        BY CopiesNat DEF OInv
    <2>4. OverrideBudget'
        <3> SUFFICES ASSUME NEW n, n \notin Draws(PacketSizes)
                     PROVE  Copies(n, replySizes') + Pending(n)' <= Copies(n, appliedSizes')
            BY DEF OverrideBudget
        <3>1. Copies(n, replySizes) + Pending(n) <= Copies(n, appliedSizes)
            BY DEF OInv, OverrideBudget
        <3>2. UNCHANGED appliedSizes
            BY <1>3, <1>6
        <3>. QED
            BY <1>2, <3>2, <2>2, <2>3, <3>1
    <2>. QED
        BY <1>2, <1>3, <1>6, <2>4 DEF OInv
<1>7. CASE ~(f.type = "PADDING_CTRL" /\ f.len >= 2)
    <2>1. UNCHANGED nextPacketSize
        BY <1>4, <1>7 DEF ApplyControlFrame, SetNextDelay, profileVars
    <2>2. UNCHANGED appliedSizes
        BY <1>3, <1>7
    <2>3. OverrideBudget'
        <3> SUFFICES ASSUME NEW n, n \notin Draws(PacketSizes)
                     PROVE  Copies(n, replySizes') + Pending(n)' <= Copies(n, appliedSizes')
            BY DEF OverrideBudget
        <3>1. Copies(n, replySizes) + Pending(n) <= Copies(n, appliedSizes)
            BY DEF OInv, OverrideBudget
        <3>2. Pending(n)' = Pending(n)
            BY <2>1 DEF Pending
        <3>. QED
            BY <1>2, <2>2, <3>1, <3>2
    <2>. QED
        BY <1>2, <2>2, <2>3 DEF OInv
<1>. QED
    BY <1>5, <1>6, <1>7

LEMMA OInvStep ==
    ASSUME PositiveSizes, OInv, [Next]_vars
    PROVE  OInv'
<1>1. IInv'
    BY IInvStep DEF OInv
<1>2. ASSUME UNCHANGED <<nextPacketSize, appliedSizes, replySizes>> PROVE OInv'
    <2>1. OverrideBudget'
        BY <1>2 DEF OInv, OverrideBudget, Pending, Copies
    <2>. QED
        BY <1>1, <1>2, <2>1 DEF OInv
<1>3. CASE \E c \in Conns : MorphWrite(c)
    BY <1>1, <1>3, MorphWriteOInv
<1>4. CASE \E c \in Conns : SessionControl(c)
    BY <1>1, <1>4, SessionControlOInv
<1>5. CASE ~(\E c \in Conns : MorphWrite(c) \/ SessionControl(c))
    <2>1. UNCHANGED <<nextPacketSize, appliedSizes, replySizes>>
        <3>1. CASE Tick
            BY <3>1 DEF Tick, profileVars
        <3>2. CASE \E c \in Conns : ClientCloseWrite(c) \/ ServerStep(c) \/ UpstreamReturn(c)
            <4>1. PICK c \in Conns : ClientCloseWrite(c) \/ ServerStep(c) \/ UpstreamReturn(c)
                BY <3>2
            <4>2. ~MorphWrite(c) /\ ~SessionControl(c)
                BY <1>5
            <4>3. \/ Tick \/ ClientCloseWrite(c) \/ UpstreamReturn(c)
                  \/ Process(c) \/ HandleReflexMagic(c) \/ HandleReflexHTTP(c)
                  \/ ProcessHandshake(c) \/ SessionEnd(c) \/ SessionData(c)
                  \/ MorphDelay(c) \/ HandleFallback(c)
                BY <4>1, <4>2 DEF ServerStep
            <4>. QED
                BY <4>3, QuietSteps
        <3>3. CASE UNCHANGED vars
            BY <3>3 DEF vars
        <3>. QED
            BY <3>1, <3>2, <3>3 DEF Next
    <2>. QED
        BY <1>2, <2>1
<1>. QED
    BY <1>3, <1>4, <1>5

\* The invariant gives the property: a length the profile cannot sample
\* was replied at most as often as it was applied.
LEMMA OInvOverride == OInv => OverrideOneShot
<1> SUFFICES ASSUME OInv, NEW n \in BagToSet(replySizes) \ Draws(PacketSizes)
             PROVE  n \in BagToSet(appliedSizes) /\ replySizes[n] <= appliedSizes[n]
    BY DEF OverrideOneShot
<1>1. Copies(n, replySizes) + Pending(n) <= Copies(n, appliedSizes)
    BY DEF OInv, OverrideBudget
<1>2. Copies(n, replySizes) = replySizes[n] /\ replySizes[n] > 0
      /\ Copies(n, replySizes) \in Nat
    BY CopiesNat DEF OInv, BagToSet, Copies
<1>3. Pending(n) \in {0, 1} /\ Copies(n, appliedSizes) \in Nat
    BY CopiesNat DEF OInv, Pending
<1>4. Copies(n, appliedSizes) > 0 /\ replySizes[n] <= Copies(n, appliedSizes)
    BY <1>1, <1>2, <1>3
<1>5. n \in DOMAIN appliedSizes
    BY <1>4 DEF Copies
<1>. QED
    BY <1>4, <1>5 DEF BagToSet, Copies

(* GetPacketSize / SetNextPacketSize on the profile every connection      *)
(* shares: for a profile whose sizes are positive, each reply length the   *)
(* profile cannot sample was written, over all connections, at most as     *)
(* often as PADDING_CTRL frames carrying it were applied: no override is   *)
(* used twice, whichever connections race for it.                          *)
THEOREM OverrideIsOneShot ==
    ASSUME PositiveSizes
    PROVE  Spec => []OverrideOneShot
<1>1. Init => OInv
    BY InitOInv
<1>2. OInv /\ [Next]_vars => OInv'
    BY OInvStep
<1>3. OInv => OverrideOneShot
    BY OInvOverride
<1>. QED
    BY <1>1, <1>2, <1>3, PTL DEF Spec

=============================================================================
