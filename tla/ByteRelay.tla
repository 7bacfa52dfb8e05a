----------------------------- MODULE ByteRelay -----------------------------
(***************************************************************************)
(* What a transparent relay between a client and a server promises, with   *)
(* no buffers, goroutines or error channel: each direction hands its       *)
(* receiver a prefix of what its sender wrote, in order and without gaps,  *)
(* while that direction is open.  The server is told the request ended    *)
(* only once it has been handed everything the client wrote, and the      *)
(* client writes nothing after that.  Either direction may close at any   *)
(* time, and what was written and not yet handed over is then lost.       *)
(***************************************************************************)
EXTENDS Naturals, Sequences

CONSTANTS
    Req,    \* the client's request, as a sequence of chunks
    Resp    \* the server's response

VARIABLES
    written,    \* number of request chunks the client wrote
    delivered,  \* the request chunks handed to the server
    eof,        \* the server was told the request ended
    upOpen,     \* the client-to-server direction still relays
    answered,   \* number of response chunks the server wrote
    received,   \* the response chunks handed to the client
    downOpen    \* the server-to-client direction still relays

relayVars == <<written, delivered, eof, upOpen, answered, received, downOpen>>

Init ==
    /\ written \in 0 .. Len(Req)
    /\ delivered = <<>> /\ eof = FALSE /\ upOpen = TRUE
    /\ answered = 0 /\ received = <<>> /\ downOpen = TRUE

\* The client writes its next chunk; never after the server saw the end.
Write ==
    /\ written < Len(Req) /\ ~eof
    /\ written' = written + 1
    /\ UNCHANGED <<delivered, eof, upOpen, answered, received, downOpen>>

\* The next written chunk is handed to the server.
Forward ==
    /\ upOpen /\ Len(delivered) < written
    /\ delivered' = Append(delivered, Req[Len(delivered) + 1])
    /\ UNCHANGED <<written, eof, upOpen, answered, received, downOpen>>

\* The request direction closes and the server is told the request ended.
HalfClose ==
    /\ upOpen /\ Len(delivered) = written
    /\ upOpen' = FALSE /\ eof' = TRUE
    /\ UNCHANGED <<written, delivered, answered, received, downOpen>>

\* The server writes its next chunk.
Answer ==
    /\ answered < Len(Resp)
    /\ answered' = answered + 1
    /\ UNCHANGED <<written, delivered, eof, upOpen, received, downOpen>>

\* The next answered chunk is handed to the client.
Return ==
    /\ downOpen /\ Len(received) < answered
    /\ received' = Append(received, Resp[Len(received) + 1])
    /\ UNCHANGED <<written, delivered, eof, upOpen, answered, downOpen>>

\* The response direction closes.
CloseDown ==
    /\ downOpen /\ downOpen' = FALSE
    /\ UNCHANGED <<written, delivered, eof, upOpen, answered, received>>

\* The relay is torn down: both directions close, the server not told.
Teardown ==
    /\ upOpen' = FALSE /\ downOpen' = FALSE
    /\ UNCHANGED <<written, delivered, eof, answered, received>>

Next ==
    \/ Write \/ Forward \/ HalfClose
    \/ Answer \/ Return \/ CloseDown
    \/ Teardown

Spec == Init /\ [][Next]_relayVars

=============================================================================
