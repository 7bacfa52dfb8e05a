--------------------------- MODULE ReflexSession ---------------------------
(***************************************************************************)
(* The encrypted frame session of proxy/reflex/session.go, seen from both  *)
(* ends of one REFLEX connection.                                          *)
(*                                                                         *)
(* After the handshake the client and the server each hold a Session over  *)
(* the SAME 32-byte key (both derive it with HKDF from the X25519 shared   *)
(* secret and the client's nonce).  Each Session has one write counter,    *)
(* taken under the mutex and incremented, and a read state                 *)
(* (readNonceCount, readSeen) that accepts a frame only when its counter   *)
(* is strictly above the last accepted one.                                *)
(*                                                                         *)
(* The data of a frame is abstracted to what the properties tell apart:    *)
(* who sealed it (src), the counter in its nonce (ctr) and whether the     *)
(* AEAD tag is valid under the session key (sealed).  ChaCha20-Poly1305 is *)
(* modelled by what it does: Open succeeds exactly on frames Seal produced *)
(* under the key, whatever their direction, since no direction is bound   *)
(* into the key, the nonce or the associated data.                         *)
(*                                                                         *)
(* WriteFrame takes the counter under the lock and releases it before the  *)
(* three conn.Write calls, so it is two steps: a reservation and an        *)
(* emission.  Between the two, the network stands between the endpoints:  *)
(* an active attacker who may drop a frame, insert a copy of any frame it  *)
(* has seen anywhere in either direction, or insert garbage.               *)
(***************************************************************************)
EXTENDS Naturals, Sequences, SequencesExt

CONSTANTS
    Client,        \* the client end of the connection
    Server,        \* the server end: the inbound handler's handleSession
    Writers,       \* goroutines that call WriteFrame on one Session
    MaxWrites,     \* bound on the frames one endpoint seals
    MaxAdversary   \* bound on the attacker's steps

ASSUME SessionAssumption ==
    /\ Client # Server
    /\ Writers # {}
    /\ MaxWrites \in Nat
    /\ MaxAdversary \in Nat

Endpoint == {Client, Server}

Peer(e) == IF e = Client THEN Server ELSE Client

\* No counter reserved by this writer.
Idle == -1

\* A frame on the wire: sealer, nonce counter, and whether its tag verifies.
Frame == [src : Endpoint, ctr : Nat, sealed : BOOLEAN]

VARIABLES
    writeNonceCount,  \* Session.writeNonceCount of each endpoint
    readNonceCount,   \* Session.readNonceCount: last accepted read counter
    readSeen,         \* Session.readSeen: some frame was accepted
    reserved,         \* counter a writer took and has not yet written
    wire,             \* wire[e]: frames in transit towards e, in order
    seen,             \* every frame either endpoint has put on the wire
    accepted,         \* accepted[e]: frames ReadFrame returned to e, in order
    failed,           \* ReadFrame returned an error: e's session loop ended
    adversarySteps    \* steps the attacker has taken

vars == <<writeNonceCount, readNonceCount, readSeen, reserved, wire, seen,
          accepted, failed, adversarySteps>>

TypeOK ==
    /\ writeNonceCount \in [Endpoint -> Nat]
    /\ readNonceCount \in [Endpoint -> Nat]
    /\ readSeen \in [Endpoint -> BOOLEAN]
    /\ reserved \in [Endpoint -> [Writers -> Nat \cup {Idle}]]
    /\ wire \in [Endpoint -> Seq(Frame)]
    /\ seen \subseteq Frame
    /\ accepted \in [Endpoint -> Seq(Frame)]
    /\ failed \in [Endpoint -> BOOLEAN]
    /\ adversarySteps \in Nat

\* NewSession: both counters zero, nothing read yet.
Init ==
    /\ writeNonceCount = [e \in Endpoint |-> 0]
    /\ readNonceCount = [e \in Endpoint |-> 0]
    /\ readSeen = [e \in Endpoint |-> FALSE]
    /\ reserved = [e \in Endpoint |-> [w \in Writers |-> Idle]]
    /\ wire = [e \in Endpoint |-> <<>>]
    /\ seen = {}
    /\ accepted = [e \in Endpoint |-> <<>>]
    /\ failed = [e \in Endpoint |-> FALSE]
    /\ adversarySteps = 0

-----------------------------------------------------------------------------
(* Mutant of WriteFrameReserve: the counter is read under the lock but    *)
(* the increment is lost (s.writeNonceCount++ dropped).                    *)
WriteFrameReserveNoIncrement(e, w) ==
    /\ ~failed[e]
    /\ reserved[e][w] = Idle
    /\ writeNonceCount[e] < MaxWrites
    /\ reserved' = [reserved EXCEPT ![e][w] = writeNonceCount[e]]
    /\ UNCHANGED <<writeNonceCount, readNonceCount, readSeen, wire, seen,
                   accepted, failed, adversarySteps>>

(* WriteFrame, first half: under s.mu, nonceCount := s.writeNonceCount and *)
(* s.writeNonceCount++.  The session loop of a failed endpoint has ended,  *)
(* so it starts no new write.                                              *)
WriteFrameReserve(e, w) ==
    /\ ~failed[e]
    /\ reserved[e][w] = Idle
    /\ writeNonceCount[e] < MaxWrites
    /\ reserved' = [reserved EXCEPT ![e][w] = writeNonceCount[e]]
    /\ writeNonceCount' = [writeNonceCount EXCEPT ![e] = @ + 1]
    /\ UNCHANGED <<readNonceCount, readSeen, wire, seen, accepted, failed,
                   adversarySteps>>

(* WriteFrame, second half, after s.mu.Unlock(): seal type||payload with   *)
(* the nonce 0^4 || counter, then write length, nonce and ciphertext to    *)
(* the connection.                                                         *)
WriteFrameEmit(e, w) ==
    /\ reserved[e][w] # Idle
    /\ LET f == [src |-> e, ctr |-> reserved[e][w], sealed |-> TRUE]
       IN  /\ wire' = [wire EXCEPT ![Peer(e)] = Append(@, f)]
           /\ seen' = seen \cup {f}
    /\ reserved' = [reserved EXCEPT ![e][w] = Idle]
    /\ UNCHANGED <<writeNonceCount, readNonceCount, readSeen, accepted,
                   failed, adversarySteps>>

(* ReadFrame on a frame whose tag does not verify: aead.Open fails, the    *)
(* error ends handleSession.                                               *)
ReadFrameOpenFails(e) ==
    /\ ~failed[e]
    /\ wire[e] # <<>>
    /\ ~Head(wire[e]).sealed
    /\ wire' = [wire EXCEPT ![e] = Tail(@)]
    /\ failed' = [failed EXCEPT ![e] = TRUE]
    /\ UNCHANGED <<writeNonceCount, readNonceCount, readSeen, reserved, seen,
                   accepted, adversarySteps>>

(* ReadFrame on a genuine frame whose counter is not above the last        *)
(* accepted one: "reflex: replay detected", which ends handleSession.      *)
ReadFrameReplayDetected(e) ==
    /\ ~failed[e]
    /\ wire[e] # <<>>
    /\ Head(wire[e]).sealed
    /\ readSeen[e] /\ Head(wire[e]).ctr <= readNonceCount[e]
    /\ wire' = [wire EXCEPT ![e] = Tail(@)]
    /\ failed' = [failed EXCEPT ![e] = TRUE]
    /\ UNCHANGED <<writeNonceCount, readNonceCount, readSeen, reserved, seen,
                   accepted, adversarySteps>>

(* Mutants of ReadFrameAccept: the replay test uses < instead of <=, and  *)
(* an off-by-one store of the accepted counter.                            *)
ReadFrameAcceptLaxReplay(e) ==
    /\ ~failed[e]
    /\ wire[e] # <<>>
    /\ Head(wire[e]).sealed
    /\ ~(readSeen[e] /\ Head(wire[e]).ctr < readNonceCount[e])
    /\ readSeen' = [readSeen EXCEPT ![e] = TRUE]
    /\ readNonceCount' = [readNonceCount EXCEPT ![e] = Head(wire[e]).ctr]
    /\ accepted' = [accepted EXCEPT ![e] = Append(@, Head(wire[e]))]
    /\ wire' = [wire EXCEPT ![e] = Tail(@)]
    /\ UNCHANGED <<writeNonceCount, reserved, seen, failed, adversarySteps>>

ReadFrameAcceptOffByOne(e) ==
    /\ ~failed[e]
    /\ wire[e] # <<>>
    /\ Head(wire[e]).sealed
    /\ ~(readSeen[e] /\ Head(wire[e]).ctr <= readNonceCount[e])
    /\ readSeen' = [readSeen EXCEPT ![e] = TRUE]
    /\ readNonceCount' = [readNonceCount EXCEPT ![e] = Head(wire[e]).ctr - 1]
    /\ accepted' = [accepted EXCEPT ![e] = Append(@, Head(wire[e]))]
    /\ wire' = [wire EXCEPT ![e] = Tail(@)]
    /\ UNCHANGED <<writeNonceCount, reserved, seen, failed, adversarySteps>>

(* Mutant of ReadFrameAccept: the result of aead.Open is not checked, so  *)
(* a frame whose tag does not verify is accepted.                         *)
ReadFrameAcceptUnverified(e) ==
    /\ ~failed[e]
    /\ wire[e] # <<>>
    /\ ~(readSeen[e] /\ Head(wire[e]).ctr <= readNonceCount[e])
    /\ readSeen' = [readSeen EXCEPT ![e] = TRUE]
    /\ readNonceCount' = [readNonceCount EXCEPT ![e] = Head(wire[e]).ctr]
    /\ accepted' = [accepted EXCEPT ![e] = Append(@, Head(wire[e]))]
    /\ wire' = [wire EXCEPT ![e] = Tail(@)]
    /\ UNCHANGED <<writeNonceCount, reserved, seen, failed, adversarySteps>>

(* ReadFrame accepts: readSeen := true, readNonceCount := counter, and the *)
(* frame is returned to the session loop.                                  *)
ReadFrameAccept(e) ==
    /\ ~failed[e]
    /\ wire[e] # <<>>
    /\ Head(wire[e]).sealed
    /\ ~(readSeen[e] /\ Head(wire[e]).ctr <= readNonceCount[e])
    /\ readSeen' = [readSeen EXCEPT ![e] = TRUE]
    /\ readNonceCount' = [readNonceCount EXCEPT ![e] = Head(wire[e]).ctr]
    /\ accepted' = [accepted EXCEPT ![e] = Append(@, Head(wire[e]))]
    /\ wire' = [wire EXCEPT ![e] = Tail(@)]
    /\ UNCHANGED <<writeNonceCount, reserved, seen, failed, adversarySteps>>

ReadFrame(e) ==
    \/ ReadFrameOpenFails(e)
    \/ ReadFrameReplayDetected(e)
    \/ ReadFrameAccept(e)

-----------------------------------------------------------------------------
(* The attacker on the TCP path.                                           *)
AdversaryStep ==
    /\ adversarySteps < MaxAdversary
    /\ adversarySteps' = adversarySteps + 1

\* Delete the i-th frame in transit towards e.
Drop(e, i) ==
    /\ AdversaryStep
    /\ i \in 1 .. Len(wire[e])
    /\ wire' = [wire EXCEPT ![e] = RemoveAt(@, i)]
    /\ UNCHANGED <<writeNonceCount, readNonceCount, readSeen, reserved, seen,
                   accepted, failed>>

\* Insert a recorded frame f at position i of either direction: a replay,
\* a reordering (with Drop) or a reflection back to its sealer.
Inject(e, f, i) ==
    /\ AdversaryStep
    /\ f \in seen
    /\ i \in 1 .. Len(wire[e]) + 1
    /\ wire' = [wire EXCEPT ![e] = InsertAt(@, i, f)]
    /\ UNCHANGED <<writeNonceCount, readNonceCount, readSeen, reserved, seen,
                   accepted, failed>>

\* Insert bytes that were not sealed under the key (or corrupt a frame).
Forge(e, i) ==
    /\ AdversaryStep
    /\ i \in 1 .. Len(wire[e]) + 1
    /\ wire' = [wire EXCEPT ![e] =
                  InsertAt(@, i, [src |-> Peer(e), ctr |-> 0, sealed |-> FALSE])]
    /\ UNCHANGED <<writeNonceCount, readNonceCount, readSeen, reserved, seen,
                   accepted, failed>>

-----------------------------------------------------------------------------
Next ==
    \/ \E e \in Endpoint, w \in Writers :
          WriteFrameReserve(e, w) \/ WriteFrameEmit(e, w)
    \/ \E e \in Endpoint : ReadFrame(e)
    \/ \E e \in Endpoint, i \in 1 .. MaxWrites + MaxAdversary :
          Drop(e, i) \/ Forge(e, i) \/ \E f \in seen : Inject(e, f, i)

Spec == Init /\ [][Next]_vars

-----------------------------------------------------------------------------
(* Properties.                                                             *)

(* Replay and reordering protection (ReadFrame's counter check): an        *)
(* endpoint never accepts the same frame twice, and the frames it accepts  *)
(* from one sealer come in the order of their counters, whatever the      *)
(* attacker dropped, copied or reordered.                                  *)
ReplayAndReorderRejected ==
    \A e \in Endpoint :
      \A i, j \in DOMAIN accepted[e] :
        (i < j /\ accepted[e][i].src = accepted[e][j].src)
          => accepted[e][i].ctr < accepted[e][j].ctr

(* No false alarm: as long as the attacker has done nothing, neither       *)
(* endpoint's ReadFrame fails, so a genuine frame is never taken for a     *)
(* replay (WriteFrame's counters reach the wire in the order taken).       *)
HonestChannelNoFalseReject ==
    adversarySteps = 0 => \A e \in Endpoint : ~failed[e]

(* Origin authentication: every frame an endpoint accepts was sealed by    *)
(* its peer, never by itself (the tunnel is authenticated per direction).  *)
AcceptedFromPeer ==
    \A e \in Endpoint : \A i \in DOMAIN accepted[e] :
        accepted[e][i].src = Peer(e)

(* AES-GCM nonce uniqueness per sender (WriteFrame takes nonceCount and    *)
(* increments writeNonceCount under s.mu, seals after the unlock): an      *)
(* endpoint never seals a counter it has sealed before, however its       *)
(* writers interleave between the reservation and the write.  The two     *)
(* ends share one key and both count from 0; AcceptedFromPeer shows what  *)
(* that lets through.                                                      *)
NonceSealedOnce ==
    [][\A e \in Endpoint, w \in Writers :
          WriteFrameEmit(e, w) =>
              [src |-> e, ctr |-> reserved[e][w], sealed |-> TRUE] \notin seen]_vars

=============================================================================
