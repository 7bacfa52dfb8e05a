----------------------- MODULE ReflexSessionRefinement -----------------------
(***************************************************************************)
(* ReflexSession implements AuthChannel.  The refinement mapping:          *)
(*   sent      <- the frames either end put on the wire (all sealed), as   *)
(*                sender and counter;                                      *)
(*   delivered <- the frames ReadFrame returned to each end;              *)
(*   closed    <- the ends whose ReadFrame failed.                         *)
(* WriteFrameEmit is Send, ReadFrameAccept is Deliver, the two failing     *)
(* reads are Close; the reservation and the attacker's steps change none  *)
(* of the mapped state.                                                    *)
(***************************************************************************)
EXTENDS ReflexSession

\* A frame as the message it carries: its sender and its counter.
AsMsg(f) == [src |-> f.src, ctr |-> f.ctr]

AC == INSTANCE AuthChannel WITH
        Ends <- Endpoint,
        SeqNums <- 0 .. MaxWrites,
        sent <- {AsMsg(f) : f \in seen},
        delivered <- [e \in Endpoint |-> [i \in DOMAIN accepted[e] |-> AsMsg(accepted[e][i])]],
        closed <- failed

(* The session as a whole (WriteFrame, ReadFrame, and whatever the         *)
(* attacker does to the wire) behaves as the authenticated channel: every  *)
(* frame ReadFrame returns was sealed by an end, with a counter above all  *)
(* it returned before, and nothing is returned after a read failed.       *)
AuthChannelRefined == AC!Spec

=============================================================================
