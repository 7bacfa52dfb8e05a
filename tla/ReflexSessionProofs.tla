------------------------ MODULE ReflexSessionProofs ------------------------
(***************************************************************************)
(* Proofs about ReflexSession for every value of its constants: the type   *)
(* invariant, ReadFrame's replay and reordering protection, for one       *)
(* writer per Session that an honest channel raises no false alarm, and,  *)
(* for any number of writers, that no endpoint seals a nonce twice.        *)
(***************************************************************************)
EXTENDS ReflexSession, SequenceTheorems, TLAPS

(* The helpers the attacker uses keep a wire a sequence of frames.         *)
LEMMA RemoveAtType ==
    ASSUME NEW S, NEW s \in Seq(S), NEW i \in 1 .. Len(s)
    PROVE  RemoveAt(s, i) \in Seq(S)
<1>1. SubSeq(s, 1, i - 1) \in Seq(S) /\ SubSeq(s, i + 1, Len(s)) \in Seq(S)
  BY SubSeqProperties
<1>2. QED
  BY <1>1, ConcatProperties DEF RemoveAt

LEMMA InsertAtType ==
    ASSUME NEW S, NEW s \in Seq(S), NEW i \in 1 .. Len(s) + 1, NEW x \in S
    PROVE  InsertAt(s, i, x) \in Seq(S)
<1>1. SubSeq(s, 1, i - 1) \in Seq(S) /\ SubSeq(s, i, Len(s)) \in Seq(S)
  BY SubSeqProperties
<1>2. <<x>> \in Seq(S)
  OBVIOUS
<1>3. QED
  BY <1>1, <1>2, ConcatProperties DEF InsertAt

-----------------------------------------------------------------------------
(* Type correctness.                                                       *)

LEMMA ForgedFrameType ==
    ASSUME NEW e \in Endpoint
    PROVE  [src |-> Peer(e), ctr |-> 0, sealed |-> FALSE] \in Frame
BY DEF Peer, Endpoint, Frame

(* Every step of the session keeps the state well typed.                  *)
LEMMA TypeOKStep == TypeOK /\ [Next]_vars => TypeOK'
  <2> SUFFICES ASSUME TypeOK, [Next]_vars PROVE TypeOK'
    OBVIOUS
  <2>1. ASSUME NEW e \in Endpoint, NEW w \in Writers, WriteFrameReserve(e, w)
        PROVE  TypeOK'
    BY <2>1 DEF WriteFrameReserve, TypeOK, Idle
  <2>2. ASSUME NEW e \in Endpoint, NEW w \in Writers, WriteFrameEmit(e, w)
        PROVE  TypeOK'
    <3>1. reserved[e][w] \in Nat
      BY <2>2 DEF WriteFrameEmit, TypeOK, Idle
    <3>2. [src |-> e, ctr |-> reserved[e][w], sealed |-> TRUE] \in Frame
      BY <3>1 DEF Frame
    <3>3. Peer(e) \in Endpoint
      BY DEF Peer, Endpoint
    <3> DEFINE f == [src |-> e, ctr |-> reserved[e][w], sealed |-> TRUE]
    <3>4. wire' = [wire EXCEPT ![Peer(e)] = Append(@, f)] /\ seen' = seen \cup {f}
      BY <2>2 DEF WriteFrameEmit
    <3>5. Append(wire[Peer(e)], f) \in Seq(Frame)
      BY <3>2, <3>3, AppendProperties DEF TypeOK
    <3>6. wire' \in [Endpoint -> Seq(Frame)] /\ seen' \subseteq Frame
      BY <3>2, <3>3, <3>4, <3>5 DEF TypeOK
    <3>7. reserved' \in [Endpoint -> [Writers -> Nat \cup {Idle}]]
      BY <2>2 DEF WriteFrameEmit, TypeOK
    <3>8. QED
      BY <2>2, <3>6, <3>7 DEF WriteFrameEmit, TypeOK
  <2>3. ASSUME NEW e \in Endpoint, ReadFrame(e) PROVE TypeOK'
    <3>1. Tail(wire[e]) \in Seq(Frame) /\ Head(wire[e]) \in Frame
      BY <2>3, HeadTailProperties DEF ReadFrame, ReadFrameOpenFails,
         ReadFrameReplayDetected, ReadFrameAccept, TypeOK
    <3>2. CASE ReadFrameAccept(e)
      <4>1. Head(wire[e]).ctr \in Nat
        BY <3>1 DEF Frame
      <4>2. Append(accepted[e], Head(wire[e])) \in Seq(Frame)
        BY <3>1, AppendProperties DEF TypeOK
      <4>3. QED
        BY <3>1, <3>2, <4>1, <4>2 DEF ReadFrameAccept, TypeOK
    <3>3. CASE ReadFrameOpenFails(e) \/ ReadFrameReplayDetected(e)
      BY <3>1, <3>3 DEF ReadFrameOpenFails, ReadFrameReplayDetected, TypeOK
    <3>4. QED
      BY <2>3, <3>2, <3>3 DEF ReadFrame
  <2>4. ASSUME NEW e \in Endpoint, NEW i \in 1 .. MaxWrites + MaxAdversary,
               Drop(e, i)
        PROVE  TypeOK'
    <3>1. RemoveAt(wire[e], i) \in Seq(Frame)
      BY <2>4, RemoveAtType DEF Drop, TypeOK
    <3>2. QED
      BY <2>4, <3>1, SessionAssumption DEF Drop, AdversaryStep, TypeOK
  <2>5. ASSUME NEW e \in Endpoint, NEW i \in 1 .. MaxWrites + MaxAdversary,
               Forge(e, i)
        PROVE  TypeOK'
    <3>1. InsertAt(wire[e], i, [src |-> Peer(e), ctr |-> 0, sealed |-> FALSE])
            \in Seq(Frame)
      BY <2>5, InsertAtType, ForgedFrameType DEF Forge, TypeOK
    <3>2. QED
      BY <2>5, <3>1 DEF Forge, AdversaryStep, TypeOK
  <2>6. ASSUME NEW e \in Endpoint, NEW i \in 1 .. MaxWrites + MaxAdversary,
               NEW f \in seen, Inject(e, f, i)
        PROVE  TypeOK'
    <3>1. InsertAt(wire[e], i, f) \in Seq(Frame)
      BY <2>6, InsertAtType DEF Inject, TypeOK
    <3>2. QED
      BY <2>6, <3>1 DEF Inject, AdversaryStep, TypeOK
  <2>7. CASE UNCHANGED vars
    BY <2>7 DEF vars, TypeOK
  <2>8. QED
    BY <2>1, <2>2, <2>3, <2>4, <2>5, <2>6, <2>7 DEF Next

(* Type correctness: in every reachable state the session's counters,      *)
(* read state, writer reservations and both wires have their types.        *)
THEOREM TypeCorrect == Spec => []TypeOK
<1>1. Init => TypeOK
  BY DEF Init, TypeOK, Idle
<1>2. QED
  BY <1>1, TypeOKStep, PTL DEF Spec

-----------------------------------------------------------------------------
(* Replay and reordering protection.  ReplayAndReorderRejected is not      *)
(* inductive as it stands: a step of ReadFrameAccept compares the new      *)
(* counter only with readNonceCount, so the induction needs to know that   *)
(* readNonceCount is the counter of the last accepted frame, that readSeen *)
(* says whether any frame was accepted, and that the accepted counters     *)
(* increase strictly (which gives the property for frames of one sealer).  *)

LastCtr(s) == s[Len(s)].ctr

ReadStateInv ==
    \A e \in Endpoint :
      /\ readSeen[e] <=> accepted[e] # <<>>
      /\ readSeen[e] => readNonceCount[e] = LastCtr(accepted[e])
      /\ \A i, j \in 1 .. Len(accepted[e]) :
            i < j => accepted[e][i].ctr < accepted[e][j].ctr

IInv == TypeOK /\ ReadStateInv

LEMMA IInvInit == Init => IInv
BY DEF Init, IInv, TypeOK, ReadStateInv, Idle

(* Appending a frame whose counter exceeds the last accepted one keeps the *)
(* accepted counters strictly increasing.                                  *)
LEMMA AppendIncreasing ==
    ASSUME NEW s \in Seq(Frame), NEW f \in Frame,
           \A i, j \in 1 .. Len(s) : i < j => s[i].ctr < s[j].ctr,
           s # <<>> => LastCtr(s) < f.ctr
    PROVE  LET t == Append(s, f)
           IN  \A i, j \in 1 .. Len(t) : i < j => t[i].ctr < t[j].ctr
<1> DEFINE t == Append(s, f)
<1>1. Len(t) = Len(s) + 1 /\ t[Len(s) + 1] = f
        /\ \A i \in 1 .. Len(s) : t[i] = s[i]
  BY AppendProperties
<1>2. \A i \in 1 .. Len(s) : s[i].ctr \in Nat
  <2> TAKE i \in 1 .. Len(s)
  <2>1. s[i] \in Frame
    BY ElementOfSeq
  <2>2. QED
    BY <2>1 DEF Frame
<1>3. f.ctr \in Nat
  BY DEF Frame
<1>4. \A i \in 1 .. Len(s) : s[i].ctr < f.ctr
  <2> TAKE i \in 1 .. Len(s)
  <2>1. s # <<>> /\ Len(s) \in 1 .. Len(s)
    OBVIOUS
  <2>2. s[i].ctr <= s[Len(s)].ctr
    BY <1>2, <2>1
  <2>3. QED
    BY <1>2, <1>3, <2>1, <2>2 DEF LastCtr
<1>5. QED
  BY <1>1, <1>2, <1>4

LEMMA IInvStep == IInv /\ [Next]_vars => IInv'
<1> SUFFICES ASSUME IInv, [Next]_vars PROVE IInv'
  OBVIOUS
<1>1. TypeOK'
  BY TypeOKStep DEF IInv
<1>2. ASSUME NEW e \in Endpoint, ReadFrameAccept(e) PROVE ReadStateInv'
  <2>1. Head(wire[e]) \in Frame
    BY <1>2, HeadTailProperties DEF ReadFrameAccept, IInv, TypeOK
  <2>2. readSeen[e] => LastCtr(accepted[e]) < Head(wire[e]).ctr
    <3>1. Head(wire[e]).ctr \in Nat /\ readNonceCount[e] \in Nat
      BY <2>1 DEF Frame, IInv, TypeOK
    <3>2. QED
      BY <1>2, <3>1 DEF ReadFrameAccept, IInv, ReadStateInv
  <2>3. accepted[e] \in Seq(Frame)
    BY DEF IInv, TypeOK
  <2>4. \A i, j \in 1 .. Len(accepted'[e]) :
          i < j => accepted'[e][i].ctr < accepted'[e][j].ctr
    <3>1. accepted'[e] = Append(accepted[e], Head(wire[e]))
      BY <1>2, <2>3 DEF ReadFrameAccept, IInv, TypeOK
    <3>2. accepted[e] # <<>> => LastCtr(accepted[e]) < Head(wire[e]).ctr
      BY <2>2 DEF IInv, ReadStateInv
    <3>3. \A i, j \in 1 .. Len(accepted[e]) :
            i < j => accepted[e][i].ctr < accepted[e][j].ctr
      BY DEF IInv, ReadStateInv
    <3>4. QED
      BY <2>1, <2>3, <3>1, <3>2, <3>3, AppendIncreasing
  <2>5. readSeen'[e] /\ accepted'[e] # <<>>
        /\ readNonceCount'[e] = LastCtr(accepted'[e])
    BY <1>2, <2>1, <2>3, AppendProperties DEF ReadFrameAccept, LastCtr, IInv, TypeOK
  <2>6. QED
    BY <1>2, <2>4, <2>5 DEF ReadFrameAccept, IInv, ReadStateInv, TypeOK
<1>3. ASSUME NEW e \in Endpoint,
             ReadFrameOpenFails(e) \/ ReadFrameReplayDetected(e)
      PROVE  ReadStateInv'
  BY <1>3 DEF ReadFrameOpenFails, ReadFrameReplayDetected, IInv, ReadStateInv
<1>4. ASSUME ~\E e \in Endpoint : ReadFrameAccept(e),
             ~\E e \in Endpoint : ReadFrameOpenFails(e) \/ ReadFrameReplayDetected(e)
      PROVE  ReadStateInv'
  <2>1. UNCHANGED <<readSeen, readNonceCount, accepted>>
    BY <1>4 DEF Next, vars, ReadFrame, WriteFrameReserve, WriteFrameEmit,
       Drop, Forge, Inject
  <2>2. QED
    BY <2>1 DEF IInv, ReadStateInv
<1>5. QED
  BY <1>1, <1>2, <1>3, <1>4 DEF IInv

(* Replay and reordering protection holds in every reachable state.        *)
THEOREM ReplayProtection == Spec => []ReplayAndReorderRejected
<1>1. IInv => ReplayAndReorderRejected
  <2> SUFFICES ASSUME IInv, NEW e \in Endpoint,
                      NEW i \in DOMAIN accepted[e], NEW j \in DOMAIN accepted[e],
                      i < j
               PROVE  accepted[e][i].ctr < accepted[e][j].ctr
    BY DEF ReplayAndReorderRejected
  <2>1. DOMAIN accepted[e] = 1 .. Len(accepted[e])
    BY LenProperties DEF IInv, TypeOK
  <2>2. QED
    BY <2>1 DEF IInv, ReadStateInv
<1>2. QED
  BY IInvInit, IInvStep, <1>1, PTL DEF Spec

-----------------------------------------------------------------------------
(* No false alarm.  While the attacker has done nothing, the frames in     *)
(* flight towards each end were sealed by its peer, in the order of their *)
(* counters, above the last counter it read and below a counter its peer  *)
(* still holds reserved; so ReadFrame accepts every one of them.  With     *)
(* one writer per Session, as in handleSession, the frame of a counter    *)
(* reserved later is emitted later.  With two writers it is not, and the  *)
(* earlier frame is then rejected as a replay.                            *)
Honest(e) ==
    /\ ~failed[e]
    /\ \A i \in DOMAIN wire[e] :
          /\ wire[e][i].sealed
          /\ wire[e][i].ctr < writeNonceCount[Peer(e)]
          /\ readSeen[e] => readNonceCount[e] < wire[e][i].ctr
    /\ \A i, j \in DOMAIN wire[e] : i < j => wire[e][i].ctr < wire[e][j].ctr
    /\ readSeen[e] => readNonceCount[e] < writeNonceCount[Peer(e)]
    /\ \A w \in Writers : reserved[Peer(e)][w] # Idle =>
          /\ reserved[Peer(e)][w] < writeNonceCount[Peer(e)]
          /\ \A i \in DOMAIN wire[e] : wire[e][i].ctr < reserved[Peer(e)][w]
          /\ readSeen[e] => readNonceCount[e] < reserved[Peer(e)][w]

HonestInv == adversarySteps = 0 => \A e \in Endpoint : Honest(e)

HInv == TypeOK /\ HonestInv

LEMMA PeerOfPeer ==
    ASSUME NEW e \in Endpoint
    PROVE  Peer(e) \in Endpoint /\ Peer(e) # e /\ Peer(Peer(e)) = e
          /\ \A d \in Endpoint : d = e \/ d = Peer(e)
BY SessionAssumption DEF Peer, Endpoint

LEMMA HInvInit == Init => HInv
<1> SUFFICES ASSUME Init PROVE HInv
    OBVIOUS
<1>1. TypeOK
    BY IInvInit DEF IInv
<1>2. ASSUME NEW e \in Endpoint PROVE Honest(e)
    <2>1. DOMAIN wire[e] = {} /\ ~failed[e] /\ ~readSeen[e]
        BY DEF Init
    <2>2. Peer(e) \in Endpoint
        BY PeerOfPeer
    <2>3. \A w \in Writers : reserved[Peer(e)][w] = Idle
        BY <2>2 DEF Init
    <2>. QED
        BY <2>1, <2>3 DEF Honest
<1>3. HonestInv
    BY <1>2 DEF HonestInv
<1>. QED
    BY <1>1, <1>3 DEF HInv

\* A step of the attacker makes the invariant hold vacuously from then on.
LEMMA AttackerHInv ==
    ASSUME TypeOK, adversarySteps' = adversarySteps + 1
    PROVE  HonestInv'
BY DEF TypeOK, HonestInv

LEMMA ReserveHInv ==
    ASSUME NEW w0, Writers = {w0}, HInv,
           NEW q \in Endpoint, NEW w \in Writers, WriteFrameReserve(q, w)
    PROVE  HonestInv'
<1> SUFFICES ASSUME adversarySteps' = 0, NEW e \in Endpoint PROVE Honest(e)'
    BY DEF HonestInv
<1>1. Honest(e)
    BY DEF WriteFrameReserve, HInv, HonestInv
<1>2. CASE q = Peer(e)
    <2>1. w = w0 /\ reserved[q][w0] = Idle
        BY DEF WriteFrameReserve
    <2>2. writeNonceCount[q] \in Nat /\ readNonceCount[e] \in Nat
          /\ \A i \in DOMAIN wire[e] : wire[e][i] \in Frame
        BY PeerOfPeer DEF HInv, TypeOK
    <2>3. reserved'[q][w0] = writeNonceCount[q]
          /\ writeNonceCount'[q] = writeNonceCount[q] + 1
        BY <2>1 DEF WriteFrameReserve, HInv, TypeOK
    <2>. QED
        BY <1>1, <1>2, <2>1, <2>2, <2>3 DEF Honest, WriteFrameReserve, Frame
<1>3. CASE q # Peer(e)
    <2>1. q = e
        BY <1>3, PeerOfPeer
    <2>. QED
        BY <1>1, <2>1, PeerOfPeer DEF Honest, WriteFrameReserve, HInv, TypeOK
<1>. QED
    BY <1>2, <1>3

(* WriteFrameEmit: the one writer's reserved counter goes to the end of   *)
(* the peer's wire, above everything already in flight there.             *)
LEMMA EmitHInv ==
    ASSUME NEW w0, Writers = {w0}, HInv,
           NEW q \in Endpoint, NEW w \in Writers, WriteFrameEmit(q, w)
    PROVE  HonestInv'
<1> SUFFICES ASSUME adversarySteps' = 0, NEW e \in Endpoint PROVE Honest(e)'
    BY DEF HonestInv
<1>1. Honest(e)
    BY DEF WriteFrameEmit, HInv, HonestInv
<1>2. CASE q = Peer(e)
    <2> DEFINE sq == wire[e]
               f == [src |-> q, ctr |-> reserved[q][w], sealed |-> TRUE]
               t == Append(sq, f)
    <2>1. w = w0 /\ reserved[q][w] # Idle /\ reserved'[q][w] = Idle
        BY DEF WriteFrameEmit, HInv, TypeOK
    <2>2. e = Peer(q) /\ wire'[e] = t
        BY <1>2, PeerOfPeer DEF WriteFrameEmit, HInv, TypeOK
    <2>3. sq \in Seq(Frame) /\ reserved[q][w] \in Nat
        BY <2>1 DEF HInv, TypeOK, Idle
    <2>10. f \in Frame
        BY <2>3 DEF Frame
    <2>11. /\ t \in Seq(Frame) /\ Len(t) = Len(sq) + 1 /\ t[Len(sq) + 1] = f
           /\ \A i \in 1 .. Len(sq) : t[i] = sq[i]
        BY <2>3, <2>10, AppendProperties
    <2>12. DOMAIN sq = 1 .. Len(sq) /\ DOMAIN t = 1 .. Len(t)
        BY <2>3, <2>11, LenProperties
    <2>13. \A i \in 1 .. Len(sq) : sq[i].ctr \in Nat
        <3> TAKE i \in 1 .. Len(sq)
        <3>1. sq[i] \in Frame
            BY <2>3, ElementOfSeq
        <3>. QED
            BY <3>1 DEF Frame
    <2>4. /\ Len(t) = Len(sq) + 1 /\ t[Len(sq) + 1] = f
          /\ \A i \in 1 .. Len(sq) : t[i] = sq[i]
          /\ DOMAIN sq = 1 .. Len(sq) /\ DOMAIN t = 1 .. Len(t)
          /\ \A i \in 1 .. Len(sq) : sq[i].ctr \in Nat
        BY <2>11, <2>12, <2>13
    <2>5. /\ reserved[q][w] < writeNonceCount[q]
          /\ \A i \in 1 .. Len(sq) : sq[i].ctr < reserved[q][w]
          /\ readSeen[e] => readNonceCount[e] < reserved[q][w]
        BY <1>1, <1>2, <2>1, <2>4 DEF Honest
    <2>6. UNCHANGED <<failed, readSeen, readNonceCount, writeNonceCount>>
        BY DEF WriteFrameEmit
    <2>7. \A i \in DOMAIN wire'[e] :
              /\ wire'[e][i].sealed
              /\ wire'[e][i].ctr < writeNonceCount'[Peer(e)]
              /\ readSeen'[e] => readNonceCount'[e] < wire'[e][i].ctr
        <3> TAKE i \in DOMAIN wire'[e]
        <3>1. CASE i \in 1 .. Len(sq)
            <4>1. t[i] = sq[i] /\ i \in DOMAIN sq
                BY <2>4, <3>1
            <4>. QED
                BY <1>1, <1>2, <2>2, <2>6, <4>1 DEF Honest
        <3>2. CASE i = Len(sq) + 1
            <4>1. wire'[e][i] = f
                BY <2>2, <2>4, <3>2
            <4>2. Peer(e) = q
                BY <1>2
            <4>. QED
                BY <4>1, <4>2, <2>5, <2>6
        <3>. QED
            BY <2>2, <2>4, <3>1, <3>2
    <2>8. \A i, j \in DOMAIN wire'[e] : i < j => wire'[e][i].ctr < wire'[e][j].ctr
        BY <1>1, <2>2, <2>3, <2>4, <2>5 DEF Honest
    <2>9. \A v \in Writers : reserved'[Peer(e)][v] = Idle
        BY <1>2, <2>1
    <2>. QED
        BY <1>1, <1>2, <2>6, <2>7, <2>8, <2>9 DEF Honest
<1>3. CASE q # Peer(e)
    <2>1. q = e /\ Peer(q) # e /\ Peer(e) # q
        BY <1>3, PeerOfPeer
    <2>. QED
        BY <1>1, <2>1, PeerOfPeer DEF Honest, WriteFrameEmit, HInv, TypeOK
<1>. QED
    BY <1>2, <1>3

(* ReadFrame at e accepts the head (it is sealed and above the last read  *)
(* counter); the counters behind it are above it.                         *)
LEMMA ReadHInv ==
    ASSUME HInv, NEW q \in Endpoint, ReadFrame(q)
    PROVE  HonestInv'
<1> SUFFICES ASSUME adversarySteps' = 0, NEW e \in Endpoint PROVE Honest(e)'
    BY DEF HonestInv
<1>1. adversarySteps = 0 /\ Honest(q) /\ Honest(e)
    BY DEF ReadFrame, ReadFrameOpenFails, ReadFrameReplayDetected,
           ReadFrameAccept, HInv, HonestInv
<1> DEFINE sq == wire[q]
<1>7. sq \in Seq(Frame) /\ sq # <<>>
    BY DEF ReadFrame, ReadFrameOpenFails, ReadFrameReplayDetected,
       ReadFrameAccept, HInv, TypeOK
<1>8. Len(sq) \in Nat \ {0} /\ DOMAIN sq = 1 .. Len(sq)
    BY <1>7, EmptySeq, LenProperties
<1>9. \A i \in 1 .. Len(sq) : sq[i].ctr \in Nat
    <2> TAKE i \in 1 .. Len(sq)
    <2>1. sq[i] \in Frame
        BY <1>7, ElementOfSeq
    <2>. QED
        BY <2>1 DEF Frame
<1>2. /\ sq \in Seq(Frame) /\ sq # <<>>
      /\ Len(sq) \in Nat \ {0} /\ DOMAIN sq = 1 .. Len(sq)
      /\ Head(sq) = sq[1] /\ 1 \in DOMAIN sq
      /\ \A i \in 1 .. Len(sq) : sq[i].ctr \in Nat
    BY <1>7, <1>8, <1>9
<1>3. Head(sq).sealed /\ (readSeen[q] => readNonceCount[q] < Head(sq).ctr)
    BY <1>1, <1>2 DEF Honest
<1>4. ReadFrameAccept(q)
    BY <1>2, <1>3 DEF ReadFrame, ReadFrameOpenFails, ReadFrameReplayDetected,
       HInv, TypeOK
<1>5. CASE e = q
    <2>1. /\ Len(Tail(sq)) = Len(sq) - 1
          /\ \A i \in 1 .. Len(sq) - 1 : Tail(sq)[i] = sq[i + 1]
          /\ DOMAIN Tail(sq) = 1 .. Len(sq) - 1
        BY <1>2, HeadTailProperties, LenProperties
    <2>2. wire'[q] = Tail(sq) /\ readSeen'[q] /\ readNonceCount'[q] = sq[1].ctr
          /\ ~failed'[q]
        BY <1>1, <1>2, <1>4 DEF ReadFrameAccept, Honest, HInv, TypeOK
    <2>3. UNCHANGED <<writeNonceCount, reserved>>
        BY <1>4 DEF ReadFrameAccept
    <2>4. /\ \A i \in 1 .. Len(sq) : sq[i].sealed /\ sq[i].ctr < writeNonceCount[Peer(q)]
          /\ \A i, j \in 1 .. Len(sq) : i < j => sq[i].ctr < sq[j].ctr
          /\ \A v \in Writers : reserved[Peer(q)][v] # Idle =>
                /\ reserved[Peer(q)][v] < writeNonceCount[Peer(q)]
                /\ \A i \in 1 .. Len(sq) : sq[i].ctr < reserved[Peer(q)][v]
        BY <1>1, <1>2 DEF Honest
    <2> DEFINE u == Tail(sq)
    <2>5. \A i \in DOMAIN u :
              /\ u[i].sealed /\ u[i].ctr < writeNonceCount'[Peer(q)]
              /\ readNonceCount'[q] < u[i].ctr
        <3> TAKE i \in DOMAIN u
        <3>1. u[i] = sq[i + 1] /\ i + 1 \in 1 .. Len(sq) /\ 1 < i + 1
            BY <2>1, <1>2
        <3>. QED
            BY <3>1, <1>2, <2>2, <2>3, <2>4
    <2>6. \A i, j \in DOMAIN u : i < j => u[i].ctr < u[j].ctr
        <3> TAKE i, j \in DOMAIN u
        <3>1. u[i] = sq[i + 1] /\ u[j] = sq[j + 1]
              /\ i + 1 \in 1 .. Len(sq) /\ j + 1 \in 1 .. Len(sq)
            BY <2>1, <1>2
        <3>. QED
            BY <3>1, <2>4
    <2>7. readNonceCount'[q] < writeNonceCount'[Peer(q)]
        BY <1>2, <2>2, <2>3, <2>4
    <2>8. \A v \in Writers : reserved'[Peer(q)][v] # Idle =>
              /\ reserved'[Peer(q)][v] < writeNonceCount'[Peer(q)]
              /\ \A i \in DOMAIN u : u[i].ctr < reserved'[Peer(q)][v]
              /\ readNonceCount'[q] < reserved'[Peer(q)][v]
        BY <1>2, <2>1, <2>2, <2>3, <2>4
    <2>. QED
        BY <1>5, <2>2, <2>5, <2>6, <2>7, <2>8 DEF Honest
<1>6. CASE e # q
    BY <1>1, <1>4, <1>6 DEF ReadFrameAccept, Honest, HInv, TypeOK
<1>. QED
    BY <1>5, <1>6

LEMMA HInvStep ==
    ASSUME NEW w0, Writers = {w0}, HInv, [Next]_vars
    PROVE  HInv'
<1>1. TypeOK'
    BY TypeOKStep DEF HInv
<1>2. CASE \E e \in Endpoint, w \in Writers : WriteFrameReserve(e, w) \/ WriteFrameEmit(e, w)
    <2>1. PICK e \in Endpoint, w \in Writers : WriteFrameReserve(e, w) \/ WriteFrameEmit(e, w)
        BY <1>2
    <2>2. HonestInv'
        BY <2>1, ReserveHInv, EmitHInv
    <2>. QED
        BY <1>1, <2>2 DEF HInv
<1>3. CASE \E e \in Endpoint : ReadFrame(e)
    <2>1. HonestInv'
        BY <1>3, ReadHInv
    <2>. QED
        BY <1>1, <2>1 DEF HInv
<1>4. CASE \E e \in Endpoint, i \in 1 .. MaxWrites + MaxAdversary :
              Drop(e, i) \/ Forge(e, i) \/ \E f \in seen : Inject(e, f, i)
    <2>1. adversarySteps' = adversarySteps + 1
        BY <1>4 DEF Drop, Forge, Inject, AdversaryStep
    <2>. QED
        BY <1>1, <2>1, AttackerHInv DEF HInv
<1>5. CASE UNCHANGED vars
    BY <1>1, <1>5 DEF vars, HInv, HonestInv, Honest
<1>. QED
    BY <1>1, <1>2, <1>3, <1>4, <1>5 DEF Next, HInv

(* handleSession with its one writer: as long as the attacker has done    *)
(* nothing, neither end's ReadFrame fails, so no genuine frame is ever     *)
(* taken for a replay or a forgery.                                        *)
THEOREM NoFalseReject ==
    ASSUME NEW w0, Writers = {w0}
    PROVE  Spec => []HonestChannelNoFalseReject
<1>1. Init => HInv
    BY HInvInit
<1>2. HInv /\ [Next]_vars => HInv'
    BY HInvStep
<1>3. HInv => HonestChannelNoFalseReject
    BY DEF HInv, HonestInv, Honest, HonestChannelNoFalseReject
<1>. QED
    BY <1>1, <1>2, <1>3, PTL DEF Spec

-----------------------------------------------------------------------------
(* Nonce uniqueness per sender, for any number of writers.  The counter a  *)
(* writer holds between its locked reservation and its write is below the *)
(* endpoint's writeNonceCount, sealed by no earlier frame of that endpoint,*)
(* and held by no other writer; every sealed counter is below the count.   *)

NonceInv ==
    /\ \A g \in seen : g.ctr < writeNonceCount[g.src]
    /\ \A e \in Endpoint, w \in Writers : reserved[e][w] # Idle =>
          /\ reserved[e][w] < writeNonceCount[e]
          /\ \A g \in seen : g.src = e => g.ctr # reserved[e][w]
    /\ \A e \in Endpoint, v, w \in Writers :
          v # w /\ reserved[e][v] # Idle => reserved[e][v] # reserved[e][w]

NInv == TypeOK /\ NonceInv

LEMMA NInvInit == Init => NInv
BY DEF Init, NInv, NonceInv, TypeOK, Idle

(* The reservation takes writeNonceCount, above every counter sealed or  *)
(* held, and increments it in the same critical section.                  *)
LEMMA ReserveNonceInv ==
    ASSUME NInv, NEW q \in Endpoint, NEW u \in Writers, WriteFrameReserve(q, u)
    PROVE  NonceInv'
<1>1. /\ reserved' = [reserved EXCEPT ![q][u] = writeNonceCount[q]]
      /\ writeNonceCount' = [writeNonceCount EXCEPT ![q] = @ + 1]
      /\ UNCHANGED seen
  BY DEF WriteFrameReserve
<1>2. \A e \in Endpoint : writeNonceCount'[e] >= writeNonceCount[e]
      /\ writeNonceCount'[e] \in Nat
  BY <1>1 DEF NInv, TypeOK
<1>3. \A g \in seen' : g.ctr < writeNonceCount'[g.src]
  <2> SUFFICES ASSUME NEW g \in seen PROVE g.ctr < writeNonceCount'[g.src]
    BY <1>1
  <2>1. g.src \in Endpoint /\ g.ctr \in Nat /\ writeNonceCount[g.src] \in Nat
    BY DEF NInv, TypeOK, Frame
  <2>. QED
    BY <1>2, <2>1 DEF NInv, NonceInv
<1>4. ASSUME NEW e \in Endpoint, NEW w \in Writers, reserved'[e][w] # Idle
      PROVE  /\ reserved'[e][w] < writeNonceCount'[e]
             /\ \A g \in seen' : g.src = e => g.ctr # reserved'[e][w]
  <2>1. CASE e = q /\ w = u
    <3>1. reserved'[e][w] = writeNonceCount[q] /\ writeNonceCount'[q] = writeNonceCount[q] + 1
      BY <1>1, <2>1 DEF NInv, TypeOK
    <3>2. \A g \in seen : g.src = q => g.ctr < writeNonceCount[q]
      BY DEF NInv, NonceInv
    <3>. QED
      BY <1>1, <2>1, <3>1, <3>2 DEF NInv, TypeOK
  <2>2. CASE ~(e = q /\ w = u)
    <3>1. reserved'[e][w] = reserved[e][w]
      BY <1>1, <2>2 DEF NInv, TypeOK
    <3>2. reserved[e][w] \in Nat /\ writeNonceCount[e] \in Nat
      BY <1>4, <3>1 DEF NInv, TypeOK, Idle
    <3>. QED
      BY <1>1, <1>2, <1>4, <3>1, <3>2 DEF NInv, NonceInv
  <2>. QED
    BY <2>1, <2>2
<1>5. ASSUME NEW e \in Endpoint, NEW v \in Writers, NEW w \in Writers,
             v # w, reserved'[e][v] # Idle
      PROVE  reserved'[e][v] # reserved'[e][w]
  <2>1. CASE e = q /\ v = u
    <3>1. reserved'[e][v] = writeNonceCount[q] /\ reserved'[e][w] = reserved[e][w]
      BY <1>1, <2>1, <1>5 DEF NInv, TypeOK
    <3>2. reserved[e][w] # Idle => reserved[e][w] < writeNonceCount[e]
      BY DEF NInv, NonceInv
    <3>3. writeNonceCount[q] \in Nat /\ (reserved[e][w] \in Nat \/ reserved[e][w] = Idle)
      BY <2>1 DEF NInv, TypeOK
    <3>. QED
      BY <2>1, <3>1, <3>2, <3>3 DEF Idle
  <2>2. CASE e = q /\ w = u
    <3>1. reserved'[e][w] = writeNonceCount[q] /\ reserved'[e][v] = reserved[e][v]
      BY <1>1, <2>2, <1>5 DEF NInv, TypeOK
    <3>2. reserved[e][v] < writeNonceCount[e]
      BY <1>5, <3>1 DEF NInv, NonceInv
    <3>3. writeNonceCount[q] \in Nat /\ reserved[e][v] \in Nat
      BY <1>5, <2>2, <3>1 DEF NInv, TypeOK, Idle
    <3>. QED
      BY <2>2, <3>1, <3>2, <3>3
  <2>3. CASE ~(e = q /\ v = u) /\ ~(e = q /\ w = u)
    <3>1. reserved'[e][v] = reserved[e][v] /\ reserved'[e][w] = reserved[e][w]
      BY <1>1, <2>3 DEF NInv, TypeOK
    <3>. QED
      BY <1>5, <3>1 DEF NInv, NonceInv
  <2>. QED
    BY <2>1, <2>2, <2>3
<1>. QED
  BY <1>3, <1>4, <1>5 DEF NonceInv

(* The write seals the held counter, which no other writer holds, and     *)
(* frees the writer.                                                       *)
LEMMA EmitNonceInv ==
    ASSUME NInv, NEW q \in Endpoint, NEW u \in Writers, WriteFrameEmit(q, u)
    PROVE  NonceInv'
<1> DEFINE f == [src |-> q, ctr |-> reserved[q][u], sealed |-> TRUE]
<1>1. /\ reserved[q][u] # Idle
      /\ seen' = seen \cup {f}
      /\ reserved' = [reserved EXCEPT ![q][u] = Idle]
      /\ UNCHANGED writeNonceCount
  BY DEF WriteFrameEmit
<1>2. reserved[q][u] < writeNonceCount[q]
  BY <1>1 DEF NInv, NonceInv
<1>3. \A g \in seen' : g.ctr < writeNonceCount'[g.src]
  BY <1>1, <1>2 DEF NInv, NonceInv
<1>4. ASSUME NEW e \in Endpoint, NEW w \in Writers, reserved'[e][w] # Idle
      PROVE  /\ reserved'[e][w] < writeNonceCount'[e]
             /\ \A g \in seen' : g.src = e => g.ctr # reserved'[e][w]
  <2>1. ~(e = q /\ w = u) /\ reserved'[e][w] = reserved[e][w]
    BY <1>1, <1>4 DEF NInv, TypeOK
  <2>2. e = q => reserved[e][w] # reserved[q][u]
    BY <1>1, <2>1 DEF NInv, NonceInv
  <2>. QED
    BY <1>1, <1>4, <2>1, <2>2 DEF NInv, NonceInv
<1>5. ASSUME NEW e \in Endpoint, NEW v \in Writers, NEW w \in Writers,
             v # w, reserved'[e][v] # Idle
      PROVE  reserved'[e][v] # reserved'[e][w]
  <2>1. ~(e = q /\ v = u) /\ reserved'[e][v] = reserved[e][v]
    BY <1>1, <1>5 DEF NInv, TypeOK
  <2>2. CASE e = q /\ w = u
    <3>1. reserved'[e][w] = Idle
      BY <1>1, <2>2 DEF NInv, TypeOK
    <3>. QED
      BY <1>5, <2>1, <3>1
  <2>3. CASE ~(e = q /\ w = u)
    BY <1>1, <1>5, <2>1, <2>3 DEF NInv, TypeOK, NonceInv
  <2>. QED
    BY <2>2, <2>3
<1>. QED
  BY <1>3, <1>4, <1>5 DEF NonceInv

(* Every step keeps the invariant; reads and the attacker touch neither   *)
(* the counters, the reservations nor the sealed frames.                  *)
LEMMA NInvStep == NInv /\ [Next]_vars => NInv'
<1> SUFFICES ASSUME NInv, [Next]_vars PROVE NInv'
  OBVIOUS
<1>1. TypeOK'
  BY TypeOKStep DEF NInv
<1>2. ASSUME NEW e \in Endpoint, NEW w \in Writers, WriteFrameReserve(e, w)
      PROVE  NInv'
  BY <1>1, <1>2, ReserveNonceInv DEF NInv
<1>3. ASSUME NEW e \in Endpoint, NEW w \in Writers, WriteFrameEmit(e, w)
      PROVE  NInv'
  BY <1>1, <1>3, EmitNonceInv DEF NInv
<1>4. ASSUME ~\E e \in Endpoint, w \in Writers :
                 WriteFrameReserve(e, w) \/ WriteFrameEmit(e, w)
      PROVE  NInv'
  <2>1. UNCHANGED <<writeNonceCount, reserved, seen>>
    BY <1>4 DEF Next, vars, ReadFrame, ReadFrameOpenFails,
       ReadFrameReplayDetected, ReadFrameAccept, Drop, Forge, Inject
  <2>. QED
    BY <1>1, <2>1 DEF NInv, NonceInv
<1>. QED
  BY <1>2, <1>3, <1>4

(* The invariant rules out a second seal: the counter a write seals is    *)
(* one no earlier frame of its endpoint carried.                          *)
LEMMA NInvFresh ==
    NInv => \A e \in Endpoint, w \in Writers :
                WriteFrameEmit(e, w) =>
                    [src |-> e, ctr |-> reserved[e][w], sealed |-> TRUE] \notin seen
BY DEF NInv, NonceInv, WriteFrameEmit

(* WriteFrame's locked read-and-increment of writeNonceCount makes every  *)
(* nonce an endpoint seals fresh, for any number of goroutines writing on *)
(* one Session and whatever the attacker does to the wire.                *)
THEOREM NonceUnique == Spec => NonceSealedOnce
<1>1. Init => NInv
  BY NInvInit
<1>2. NInv /\ [Next]_vars => NInv'
  BY NInvStep
<1>3. NInv => \A e \in Endpoint, w \in Writers :
                WriteFrameEmit(e, w) =>
                    [src |-> e, ctr |-> reserved[e][w], sealed |-> TRUE] \notin seen
  BY NInvFresh
<1>. QED
  BY <1>1, <1>2, <1>3, PTL DEF Spec, NonceSealedOnce

=============================================================================
