---------------------- MODULE ReflexFallbackRefinement ----------------------
(***************************************************************************)
(* ReflexFallback implements ByteRelay.  The refinement mapping:           *)
(*   written, delivered <- what the client sent and the server read;       *)
(*   eof                <- the server read the EOF of CloseWrite;          *)
(*   upOpen             <- pump A has not ended and the target is open;    *)
(*   answered, received <- what the server wrote and the client received;  *)
(*   downOpen           <- pump B has not ended and both sockets are open. *)
(* PumpACopy is Forward, PumpAEnd on the open target is HalfClose,         *)
(* PumpBCopy is Return, PumpBEnd on open sockets is CloseDown, and        *)
(* HandlerReturn is Teardown; the client's half-close and the server's    *)
(* close change none of the mapped state.                                  *)
(***************************************************************************)
EXTENDS ReflexFallback

Relay == INSTANCE ByteRelay WITH
           Req <- Request,
           Resp <- Response,
           written <- sent,
           delivered <- targetIn,
           eof <- targetHalf,
           upOpen <- ~aDone /\ ~targetClosed,
           answered <- respWritten,
           received <- clientIn,
           downOpen <- ~bDone /\ ~connClosed /\ ~targetClosed

(* handleFallback with its two io.Copy pumps behaves as a transparent     *)
(* relay: each side gets a gap-free prefix of what the other wrote, in    *)
(* order, nothing after its direction closed, and CloseWrite reaches the  *)
(* server only after everything the client sent.                          *)
RelayRefined == Relay!Spec

=============================================================================
