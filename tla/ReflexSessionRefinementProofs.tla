------------------- MODULE ReflexSessionRefinementProofs -------------------
(***************************************************************************)
(* Proof that ReflexSession implements AuthChannel under the mapping of    *)
(* ReflexSessionRefinement, for every value of the constants.              *)
(***************************************************************************)
EXTENDS ReflexSessionProofs, ReflexSessionRefinement

\* Bytes on the wire that no Seal under the session key produced.
Forged == {f \in Frame : ~f.sealed}

(* Every frame in transit is either one an endpoint emitted or a forgery:  *)
(* the attacker can copy what it saw, but cannot make a valid tag.         *)
WireInv == \A e \in Endpoint : wire[e] \in Seq(seen \cup Forged)

(* A counter a writer holds was taken below MaxWrites.                     *)
ReservedInv ==
    \A e \in Endpoint, w \in Writers :
        reserved[e][w] # Idle => reserved[e][w] < MaxWrites

RInv == IInv /\ WireInv /\ ReservedInv

LEMMA RInvInit == Init => RInv
BY IInvInit DEF Init, RInv, WireInv, ReservedInv

LEMMA WireInvStep == TypeOK /\ WireInv /\ [Next]_vars => WireInv'
<1> SUFFICES ASSUME TypeOK, WireInv, [Next]_vars PROVE WireInv'
  OBVIOUS
<1> USE DEF WireInv
<1>1. ASSUME NEW e \in Endpoint, NEW w \in Writers, WriteFrameReserve(e, w)
      PROVE  WireInv'
  BY <1>1 DEF WriteFrameReserve
<1>2. ASSUME NEW e \in Endpoint, NEW w \in Writers, WriteFrameEmit(e, w)
      PROVE  WireInv'
  <2> DEFINE f == [src |-> e, ctr |-> reserved[e][w], sealed |-> TRUE]
  <2>1. wire' = [wire EXCEPT ![Peer(e)] = Append(@, f)] /\ seen' = seen \cup {f}
    BY <1>2 DEF WriteFrameEmit
  <2>2. Peer(e) \in Endpoint
    BY DEF Peer, Endpoint
  <2>3. \A d \in Endpoint : wire[d] \in Seq(seen' \cup Forged)
    BY <2>1, SeqMonotonic
  <2>4. Append(wire[Peer(e)], f) \in Seq(seen' \cup Forged)
    BY <2>1, <2>2, <2>3, AppendProperties
  <2>5. QED
    BY <2>1, <2>2, <2>3, <2>4 DEF TypeOK
<1>3. ASSUME NEW e \in Endpoint, ReadFrame(e) PROVE WireInv'
  <2>1. wire' = [wire EXCEPT ![e] = Tail(@)] /\ seen' = seen /\ wire[e] # <<>>
    BY <1>3 DEF ReadFrame, ReadFrameOpenFails, ReadFrameReplayDetected,
       ReadFrameAccept
  <2>2. Tail(wire[e]) \in Seq(seen \cup Forged)
    BY <2>1, HeadTailProperties
  <2>3. QED
    BY <2>1, <2>2 DEF TypeOK
<1>4. ASSUME NEW e \in Endpoint, NEW i \in 1 .. MaxWrites + MaxAdversary,
             Drop(e, i)
      PROVE  WireInv'
  <2>1. RemoveAt(wire[e], i) \in Seq(seen \cup Forged)
    BY <1>4, RemoveAtType DEF Drop
  <2>2. QED
    BY <1>4, <2>1 DEF Drop, TypeOK
<1>5. ASSUME NEW e \in Endpoint, NEW i \in 1 .. MaxWrites + MaxAdversary,
             Forge(e, i)
      PROVE  WireInv'
  <2>1. [src |-> Peer(e), ctr |-> 0, sealed |-> FALSE] \in Forged
    BY ForgedFrameType DEF Forged
  <2>2. InsertAt(wire[e], i, [src |-> Peer(e), ctr |-> 0, sealed |-> FALSE])
          \in Seq(seen \cup Forged)
    BY <1>5, <2>1, InsertAtType DEF Forge
  <2>3. QED
    BY <1>5, <2>2 DEF Forge, TypeOK
<1>6. ASSUME NEW e \in Endpoint, NEW i \in 1 .. MaxWrites + MaxAdversary,
             NEW f \in seen, Inject(e, f, i)
      PROVE  WireInv'
  <2>1. InsertAt(wire[e], i, f) \in Seq(seen \cup Forged)
    BY <1>6, InsertAtType DEF Inject
  <2>2. QED
    BY <1>6, <2>1 DEF Inject, TypeOK
<1>7. CASE UNCHANGED vars
  BY <1>7 DEF vars
<1>8. QED
  BY <1>1, <1>2, <1>3, <1>4, <1>5, <1>6, <1>7 DEF Next

LEMMA ReservedInvStep == ReservedInv /\ [Next]_vars => ReservedInv'
<1> SUFFICES ASSUME ReservedInv, [Next]_vars PROVE ReservedInv'
  OBVIOUS
<1>1. ASSUME NEW e \in Endpoint, NEW w \in Writers, WriteFrameReserve(e, w)
      PROVE  ReservedInv'
  BY <1>1 DEF WriteFrameReserve, ReservedInv
<1>2. ASSUME NEW e \in Endpoint, NEW w \in Writers, WriteFrameEmit(e, w)
      PROVE  ReservedInv'
  BY <1>2 DEF WriteFrameEmit, ReservedInv
<1>3. ASSUME ~\E e \in Endpoint, w \in Writers :
                 WriteFrameReserve(e, w) \/ WriteFrameEmit(e, w)
      PROVE  ReservedInv'
  <2>1. UNCHANGED reserved
    BY <1>3 DEF Next, vars, ReadFrame, ReadFrameOpenFails,
       ReadFrameReplayDetected, ReadFrameAccept, Drop, Forge, Inject
  <2>2. QED
    BY <2>1 DEF ReservedInv
<1>4. QED
  BY <1>1, <1>2, <1>3

LEMMA RInvStep == RInv /\ [Next]_vars => RInv'
BY IInvStep, WireInvStep, ReservedInvStep DEF RInv, IInv

-----------------------------------------------------------------------------
(* The refinement.                                                         *)

\* The images of the session's state under the refinement mapping.
MappedSeq(s) == [i \in DOMAIN s |-> AsMsg(s[i])]
mSent == {AsMsg(f) : f \in seen}
mDelivered == [e \in Endpoint |-> MappedSeq(accepted[e])]

(* Mapping a sequence of frames to messages commutes with Append.         *)
LEMMA MappedAppend ==
    ASSUME NEW s \in Seq(Frame), NEW x \in Frame
    PROVE  MappedSeq(Append(s, x)) = Append(MappedSeq(s), AsMsg(x))
<1>1. DOMAIN Append(s, x) = 1 .. Len(s) + 1 /\ DOMAIN s = 1 .. Len(s)
  BY AppendProperties, LenProperties
<1>2. /\ \A i \in 1 .. Len(s) : Append(s, x)[i] = s[i]
      /\ Append(s, x)[Len(s) + 1] = x
  BY AppendProperties
<1>3. MappedSeq(s) \in Seq([src : Endpoint, ctr : Nat])
  <2>1. \A i \in 1 .. Len(s) : s[i] \in Frame
    BY ElementOfSeq
  <2>2. MappedSeq(s) \in [1 .. Len(s) -> [src : Endpoint, ctr : Nat]]
    BY <1>1, <2>1 DEF MappedSeq, AsMsg, Frame
  <2>3. Len(s) \in Nat
    BY LenProperties
  <2>4. MappedSeq(s) \in UNION {[1 .. n -> [src : Endpoint, ctr : Nat]] : n \in Nat}
    BY <2>2, <2>3
  <2>5. QED
    BY <2>4, SeqDef
<1>4. /\ Len(MappedSeq(s)) = Len(s)
      /\ DOMAIN Append(MappedSeq(s), AsMsg(x)) = 1 .. Len(s) + 1
      /\ \A i \in 1 .. Len(s) : Append(MappedSeq(s), AsMsg(x))[i] = AsMsg(s[i])
      /\ Append(MappedSeq(s), AsMsg(x))[Len(s) + 1] = AsMsg(x)
  <2>1. AsMsg(x) \in [src : Endpoint, ctr : Nat]
    BY DEF AsMsg, Frame
  <2>2. Len(MappedSeq(s)) = Len(s)
    BY <1>1, <1>3, LenProperties DEF MappedSeq
  <2>3. QED
    BY <1>1, <1>3, <2>1, <2>2, AppendProperties, LenProperties DEF MappedSeq
<1>5. QED
  BY <1>1, <1>2, <1>4 DEF MappedSeq

(* A frame ReadFrame accepts is above every counter accepted before.       *)
LEMMA AcceptAboveAll ==
    ASSUME IInv, NEW e \in Endpoint, ReadFrameAccept(e)
    PROVE  \A i \in 1 .. Len(accepted[e]) : accepted[e][i].ctr < Head(wire[e]).ctr
<1> TAKE i \in 1 .. Len(accepted[e])
<1>1. accepted[e] \in Seq(Frame) /\ wire[e] \in Seq(Frame) /\ wire[e] # <<>>
  BY DEF IInv, TypeOK, ReadFrameAccept
<1>2. Head(wire[e]).ctr \in Nat /\ readNonceCount[e] \in Nat
  <2>1. Head(wire[e]) \in Frame
    BY <1>1, HeadTailProperties
  <2>2. QED
    BY <2>1 DEF Frame, IInv, TypeOK
<1>3. \A k \in 1 .. Len(accepted[e]) : accepted[e][k].ctr \in Nat
  <2> TAKE k \in 1 .. Len(accepted[e])
  <2>1. accepted[e][k] \in Frame
    BY <1>1, ElementOfSeq
  <2>2. QED
    BY <2>1 DEF Frame
<1>4. readSeen[e] /\ readNonceCount[e] = accepted[e][Len(accepted[e])].ctr
  BY DEF IInv, ReadStateInv, LastCtr
<1>5. accepted[e][i].ctr <= accepted[e][Len(accepted[e])].ctr
  BY <1>3 DEF IInv, ReadStateInv
<1>6. QED
  BY <1>2, <1>3, <1>4, <1>5 DEF ReadFrameAccept

(* Every step of the session is a step of the channel, or leaves its      *)
(* image unchanged.                                                        *)
LEMMA RefinementStep == RInv /\ [Next]_vars => [AC!Next]_AC!acVars
<1> SUFFICES ASSUME RInv, [Next]_vars PROVE [AC!Next]_AC!acVars
  OBVIOUS
<1>1. ASSUME UNCHANGED <<seen, accepted, failed>> PROVE [AC!Next]_AC!acVars
  BY <1>1 DEF AC!acVars
<1>2. ASSUME NEW e \in Endpoint, NEW w \in Writers, WriteFrameEmit(e, w)
      PROVE  AC!Next
  <2> DEFINE f == [src |-> e, ctr |-> reserved[e][w], sealed |-> TRUE]
  <2>1. reserved[e][w] \in 0 .. MaxWrites
    BY <1>2, SessionAssumption DEF WriteFrameEmit, RInv, ReservedInv, IInv, TypeOK, Idle
  <2>2. seen' = seen \cup {f} /\ UNCHANGED <<accepted, failed>>
    BY <1>2 DEF WriteFrameEmit
  <2>3. {AsMsg(g) : g \in seen'} = {AsMsg(g) : g \in seen} \cup {[src |-> e, ctr |-> reserved[e][w]]}
    <3>1. AsMsg(f) = [src |-> e, ctr |-> reserved[e][w]]
      BY DEF AsMsg
    <3>2. {AsMsg(g) : g \in seen \cup {f}} = {AsMsg(g) : g \in seen} \cup {AsMsg(f)}
      OBVIOUS
    <3>3. QED
      BY <2>2, <3>1, <3>2
  <2>4. AC!Send(e, reserved[e][w])
    BY <2>2, <2>3 DEF AC!Send
  <2>5. QED
    BY <2>1, <2>4 DEF AC!Next
<1>3. ASSUME NEW e \in Endpoint, ReadFrameAccept(e) PROVE AC!Next
  <2> DEFINE h == Head(wire[e])
  <2>1. wire[e] \in Seq(seen \cup Forged) /\ wire[e] # <<>>
    BY <1>3 DEF RInv, WireInv, ReadFrameAccept
  <2>2. h \in seen
    <3>1. h \in seen \cup Forged
      BY <2>1, HeadTailProperties
    <3>2. QED
      BY <1>3, <3>1 DEF ReadFrameAccept, Forged
  <2>3. accepted[e] \in Seq(Frame) /\ h \in Frame
    BY <2>2 DEF RInv, IInv, TypeOK
  <2>4. accepted' = [accepted EXCEPT ![e] = Append(@, h)]
        /\ UNCHANGED <<seen, failed>> /\ ~failed[e]
    BY <1>3 DEF ReadFrameAccept
  <2>5. [d \in Endpoint |-> MappedSeq(accepted'[d])]
          = [mDelivered EXCEPT ![e] = Append(@, AsMsg(h))]
    BY <2>3, <2>4, MappedAppend DEF mDelivered, RInv, IInv, TypeOK
  <2>6. \A i \in DOMAIN mDelivered[e] : mDelivered[e][i].ctr < AsMsg(h).ctr
    <3>1. DOMAIN mDelivered[e] = 1 .. Len(accepted[e])
      BY <2>3, LenProperties DEF mDelivered, MappedSeq
    <3>2. QED
      BY <1>3, <3>1, AcceptAboveAll DEF RInv, mDelivered, MappedSeq, AsMsg
  <2>7. AsMsg(h) \in {AsMsg(f) : f \in seen}
    BY <2>2
  <2>8. AC!Deliver(e, AsMsg(h))
    <3>1. {AsMsg(f) : f \in seen'} = {AsMsg(f) : f \in seen}
      BY <2>4
    <3>2. QED
      BY <2>4, <2>5, <2>6, <2>7, <3>1 DEF AC!Deliver, mDelivered, MappedSeq
  <2>9. \E m \in {AsMsg(f) : f \in seen} : AC!Deliver(e, m)
    BY <2>7, <2>8 DEF AC!Deliver
  <2>10. QED
    BY <2>9 DEF AC!Next
<1>4. ASSUME NEW e \in Endpoint,
             ReadFrameOpenFails(e) \/ ReadFrameReplayDetected(e)
      PROVE  AC!Next
  <2>1. AC!Close(e)
    BY <1>4 DEF ReadFrameOpenFails, ReadFrameReplayDetected, AC!Close
  <2>2. QED
    BY <2>1 DEF AC!Next
<1>5. QED
  BY <1>1, <1>2, <1>3, <1>4 DEF Next, vars, ReadFrame, WriteFrameReserve,
     Drop, Forge, Inject

(* ReflexSession implements the authenticated channel AuthChannel: every  *)
(* behaviour of WriteFrame, ReadFrame and the attacker, seen through the  *)
(* mapping, is a behaviour of AuthChannel, for any number of writers,     *)
(* writes and attacker steps.                                              *)
THEOREM SessionRefinesAuthChannel == Spec => AuthChannelRefined
<1>1. Init => AC!Init
  BY DEF Init, AC!Init
<1>2. QED
  BY <1>1, RInvInit, RInvStep, RefinementStep, PTL DEF Spec, AuthChannelRefined, AC!Spec

=============================================================================
