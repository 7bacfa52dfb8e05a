---------------------------- MODULE AuthChannel ----------------------------
(***************************************************************************)
(* What an encrypted REFLEX session promises its two session loops, with   *)
(* no counters, locks or wire: a set of messages that were sent, each      *)
(* named by its sender and its sequence number, and for each end the       *)
(* sequence of messages it was handed.  An end is handed only messages     *)
(* that were really sent, each with a sequence number above every one it  *)
(* was handed before, until its side of the session is closed.  Messages   *)
(* may be lost; nothing is forged, repeated or handed out of order.        *)
(***************************************************************************)
EXTENDS Naturals, Sequences

CONSTANTS
    Ends,      \* the two ends of the session
    SeqNums    \* the sequence numbers a message may carry

Msg == [src : Ends, ctr : SeqNums]

VARIABLES
    sent,       \* messages sent by either end
    delivered,  \* delivered[e]: messages handed to e, in order
    closed      \* closed[e]: e's session loop has ended

acVars == <<sent, delivered, closed>>

TypeOK ==
    /\ sent \subseteq Msg
    /\ delivered \in [Ends -> Seq(Msg)]
    /\ closed \in [Ends -> BOOLEAN]

Init ==
    /\ sent = {}
    /\ delivered = [e \in Ends |-> <<>>]
    /\ closed = [e \in Ends |-> FALSE]

\* End e sends message number c.
Send(e, c) ==
    /\ sent' = sent \cup {[src |-> e, ctr |-> c]}
    /\ UNCHANGED <<delivered, closed>>

\* End e is handed m: sent, and numbered above all e was handed.
Deliver(e, m) ==
    /\ ~closed[e]
    /\ m \in sent
    /\ \A i \in DOMAIN delivered[e] : delivered[e][i].ctr < m.ctr
    /\ delivered' = [delivered EXCEPT ![e] = Append(@, m)]
    /\ UNCHANGED <<sent, closed>>

\* End e's session ends on an error.
Close(e) ==
    /\ ~closed[e]
    /\ closed' = [closed EXCEPT ![e] = TRUE]
    /\ UNCHANGED <<sent, delivered>>

Next ==
    \E e \in Ends :
        \/ \E c \in SeqNums : Send(e, c)
        \/ \E m \in sent : Deliver(e, m)
        \/ Close(e)

Spec == Init /\ [][Next]_acVars

=============================================================================
