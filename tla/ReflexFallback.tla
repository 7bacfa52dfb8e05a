-------------------------- MODULE ReflexFallback --------------------------
(***************************************************************************)
(* The fallback relay of infra/conf/reflex.go (handleFallback and          *)
(* preloadedConn) for one connection, from the moment the dial to the     *)
(* local fallback server has succeeded.                                    *)
(*                                                                         *)
(* Three tasks run: pump A (io.Copy(target, wrapped), then CloseWrite),    *)
(* pump B (io.Copy(wrapped, target), then wrapped.Close()), and the        *)
(* handler, which returns on the first value in errc and closes the       *)
(* target by its defer.  The client and the fallback server are the two   *)
(* ends.  Bytes are abstracted to chunks numbered in stream order.         *)
(***************************************************************************)
EXTENDS Naturals, Sequences, SequencesExt

CONSTANTS
    ReqChunks,     \* length of the client's request, in chunks
    Peeked,        \* chunks already in the bufio.Reader (read by Peek)
    RespChunks,    \* length of the fallback server's response
    ServerCloses   \* the server closes after answering (Connection: close)

ASSUME FallbackAssumption ==
    /\ ReqChunks \in Nat \ {0}
    /\ Peeked \in 1 .. ReqChunks
    /\ RespChunks \in Nat \ {0}
    /\ ServerCloses \in BOOLEAN

\* The client's request as a byte stream, and the server's response.
Request == [i \in 1 .. ReqChunks |-> i]
Response == [i \in 1 .. RespChunks |-> i]

VARIABLES
    sent,         \* number of request chunks the client has written
    bufRem,       \* chunks still in the bufio.Reader
    sock,         \* chunks of the client in the socket, not yet read
    clientFin,    \* the client has half-closed its side
    targetIn,     \* chunks the fallback server has read
    targetHalf,   \* the server has read EOF caused by CloseWrite
    respOut,      \* chunks the server wrote, not yet read by pump B
    respWritten,  \* number of response chunks the server wrote
    serverFin,    \* the server has closed its side
    clientIn,     \* chunks the client has received
    connClosed,   \* the client connection is closed (wrapped.Close or caller)
    aDone,        \* pump A has sent its result to errc
    bDone,        \* pump B has sent its result to errc
    errc,         \* the results in errc: "eof" (nil or io.EOF) or "err"
    returned,     \* handleFallback has returned
    targetClosed  \* the deferred target.Close() has run

vars == <<sent, bufRem, sock, clientFin, targetIn, targetHalf, respOut, respWritten,
          serverFin, clientIn, connClosed, aDone, bDone, errc, returned, targetClosed>>

TypeOK ==
    /\ sent \in Peeked .. ReqChunks
    /\ bufRem \in Seq(1 .. ReqChunks) /\ sock \in Seq(1 .. ReqChunks)
    /\ targetIn \in Seq(1 .. ReqChunks)
    /\ respOut \in Seq(1 .. RespChunks) /\ clientIn \in Seq(1 .. RespChunks)
    /\ respWritten \in 0 .. RespChunks
    /\ errc \in Seq({"eof", "err"}) /\ Len(errc) <= 2
    /\ {clientFin, targetHalf, serverFin, connClosed, aDone, bDone,
        returned, targetClosed} \subseteq BOOLEAN

\* Peek has filled the bufio.Reader with the first Peeked chunks.
Init ==
    /\ sent = Peeked
    /\ bufRem = SubSeq(Request, 1, Peeked)
    /\ sock = <<>>
    /\ targetIn = <<>> /\ respOut = <<>> /\ clientIn = <<>>
    /\ respWritten = 0
    /\ clientFin = FALSE /\ targetHalf = FALSE /\ serverFin = FALSE
    /\ connClosed = FALSE /\ aDone = FALSE /\ bDone = FALSE /\ errc = <<>>
    /\ returned = FALSE /\ targetClosed = FALSE

\* The client writes the next chunk of its request.
ClientSend ==
    /\ sent < ReqChunks /\ ~clientFin /\ ~connClosed
    /\ sock' = Append(sock, Request[sent + 1])
    /\ sent' = sent + 1
    /\ UNCHANGED <<bufRem, clientFin, targetIn, targetHalf, respOut, respWritten,
                   serverFin, clientIn, connClosed, aDone, bDone, errc, returned,
                   targetClosed>>

\* The client shuts down its write side, possibly before its request ends.
ClientCloseWrite ==
    /\ ~clientFin /\ ~connClosed
    /\ clientFin' = TRUE
    /\ UNCHANGED <<sent, bufRem, sock, targetIn, targetHalf, respOut, respWritten,
                   serverFin, clientIn, connClosed, aDone, bDone, errc, returned,
                   targetClosed>>

(* Mutant of PumpACopy: preloadedConn reads the socket, not the           *)
(* bufio.Reader, so the peeked bytes are skipped while the socket has data.*)
PumpACopySkipBuffer ==
    /\ ~aDone /\ ~targetClosed
    /\ bufRem # <<>> \/ (sock # <<>> /\ ~connClosed)
    /\ IF sock # <<>>
         THEN /\ targetIn' = Append(targetIn, Head(sock))
              /\ sock' = Tail(sock) /\ UNCHANGED bufRem
         ELSE /\ targetIn' = Append(targetIn, Head(bufRem))
              /\ bufRem' = Tail(bufRem) /\ UNCHANGED sock
    /\ UNCHANGED <<sent, clientFin, targetHalf, respOut, respWritten, serverFin,
                   clientIn, connClosed, aDone, bDone, errc, returned, targetClosed>>

(* One Read/Write of io.Copy(target, wrapped): preloadedConn.Read is       *)
(* bufio.Reader.Read, which returns buffered bytes first and reads the     *)
(* socket only once its buffer is empty.                                   *)
PumpACopy ==
    /\ ~aDone /\ ~targetClosed
    /\ bufRem # <<>> \/ (sock # <<>> /\ ~connClosed)
    /\ IF bufRem # <<>>
         THEN /\ targetIn' = Append(targetIn, Head(bufRem))
              /\ bufRem' = Tail(bufRem) /\ UNCHANGED sock
         ELSE /\ targetIn' = Append(targetIn, Head(sock))
              /\ sock' = Tail(sock) /\ UNCHANGED bufRem
    /\ UNCHANGED <<sent, clientFin, targetHalf, respOut, respWritten, serverFin,
                   clientIn, connClosed, aDone, bDone, errc, returned, targetClosed>>

(* Mutant of PumpAEnd: the pump does not stop after reporting, and sends *)
(* to errc again on every later failed read.                              *)
PumpAEndRepeat ==
    LET eof  == bufRem = <<>> /\ sock = <<>> /\ clientFin /\ ~connClosed
        fail == \/ connClosed /\ bufRem = <<>>
                \/ targetClosed /\ (bufRem # <<>> \/ sock # <<>>)
    IN  /\ eof \/ fail
        /\ targetHalf' = (targetHalf \/ ~targetClosed)
        /\ errc' = Append(errc, IF eof THEN "eof" ELSE "err")
        /\ aDone' = TRUE
        /\ UNCHANGED <<sent, bufRem, sock, clientFin, targetIn, respOut, respWritten,
                       serverFin, clientIn, connClosed, bDone, returned, targetClosed>>

(* io.Copy(target, wrapped) returns: nil at EOF, once the client has     *)
(* half-closed and everything was read; an error when its blocked read of *)
(* the client fails because the connection was closed, or when a write    *)
(* to the closed target fails.  Then CloseWrite on the target (no effect  *)
(* once it is closed) and errc <- e.                                      *)
PumpAEnd ==
    LET eof  == bufRem = <<>> /\ sock = <<>> /\ clientFin /\ ~connClosed
        fail == \/ connClosed /\ bufRem = <<>>
                \/ targetClosed /\ (bufRem # <<>> \/ sock # <<>>)
    IN  /\ ~aDone
        /\ eof \/ fail
        /\ targetHalf' = (targetHalf \/ ~targetClosed)
        /\ errc' = Append(errc, IF eof THEN "eof" ELSE "err")
        /\ aDone' = TRUE
        /\ UNCHANGED <<sent, bufRem, sock, clientFin, targetIn, respOut, respWritten,
                       serverFin, clientIn, connClosed, bDone, returned, targetClosed>>

\* The fallback server writes its response once it has read the request.
ServerWrite ==
    /\ targetIn = Request /\ respWritten < RespChunks
    /\ ~serverFin /\ ~targetClosed
    /\ respOut' = Append(respOut, Response[respWritten + 1])
    /\ respWritten' = respWritten + 1
    /\ UNCHANGED <<sent, bufRem, sock, clientFin, targetIn, targetHalf, serverFin,
                   clientIn, connClosed, aDone, bDone, errc, returned, targetClosed>>

(* The server closes its side: after the response when it closes (HTTP    *)
(* Connection: close); a keep-alive server after reading EOF once it has   *)
(* answered, or at once when the request stopped short.                    *)
ServerClose ==
    /\ ~serverFin
    /\ \/ ServerCloses /\ respWritten = RespChunks
       \/ targetHalf /\ (respWritten = RespChunks \/ targetIn # Request)
    /\ serverFin' = TRUE
    /\ UNCHANGED <<sent, bufRem, sock, clientFin, targetIn, targetHalf, respOut,
                   respWritten, clientIn, connClosed, aDone, bDone, errc, returned,
                   targetClosed>>

(* Mutant of PumpBCopy: a short write to the client is not retried, and *)
(* the rest of what was read from the target is dropped.                  *)
PumpBCopyShortWrite ==
    /\ ~bDone /\ ~connClosed /\ ~targetClosed
    /\ respOut # <<>>
    /\ clientIn' = Append(clientIn, Head(respOut))
    /\ respOut' = IF Len(respOut) > 1 THEN Tail(Tail(respOut)) ELSE Tail(respOut)
    /\ UNCHANGED <<sent, bufRem, sock, clientFin, targetIn, targetHalf, respWritten,
                   serverFin, connClosed, aDone, bDone, errc, returned, targetClosed>>

\* One Read/Write of io.Copy(wrapped, target): Write goes to the socket.
PumpBCopy ==
    /\ ~bDone /\ ~connClosed /\ ~targetClosed
    /\ respOut # <<>>
    /\ clientIn' = Append(clientIn, Head(respOut))
    /\ respOut' = Tail(respOut)
    /\ UNCHANGED <<sent, bufRem, sock, clientFin, targetIn, targetHalf, respWritten,
                   serverFin, connClosed, aDone, bDone, errc, returned, targetClosed>>

(* io.Copy(wrapped, target) returns: nil at EOF, once the server closed  *)
(* and everything was relayed; an error when its blocked read of the      *)
(* target fails because the target was closed, or when a write to the     *)
(* closed client connection fails.  Then wrapped.Close() closes the whole *)
(* client connection, and errc <- e.                                      *)
PumpBEnd ==
    LET eof  == respOut = <<>> /\ serverFin /\ ~targetClosed
        fail == targetClosed \/ (connClosed /\ respOut # <<>>)
    IN  /\ ~bDone
        /\ eof \/ fail
        /\ connClosed' = TRUE
        /\ errc' = Append(errc, IF eof THEN "eof" ELSE "err")
        /\ bDone' = TRUE
        /\ UNCHANGED <<sent, bufRem, sock, clientFin, targetIn, targetHalf, respOut,
                       respWritten, serverFin, clientIn, aDone, returned, targetClosed>>

(* Mutant of HandlerReturn: EOF-like results are skipped and the handler  *)
(* waits on errc for an error.                                            *)
HandlerReturnWaitForError ==
    /\ ~returned
    /\ \E i \in 1 .. Len(errc) : errc[i] = "err"
    /\ returned' = TRUE
    /\ targetClosed' = TRUE
    /\ respOut' = <<>>
    /\ connClosed' = TRUE
    /\ errc' = Tail(errc)
    /\ UNCHANGED <<sent, bufRem, sock, clientFin, targetIn, targetHalf, respWritten,
                   serverFin, clientIn, aDone, bDone>>

(* handleFallback receives the first result of errc and returns (an error *)
(* is surfaced, EOF is normal completion); the deferred target.Close()    *)
(* discards what the server wrote and pump B has not read, and the caller *)
(* of Process closes the client connection.                               *)
HandlerReturn ==
    /\ ~returned
    /\ errc # <<>>
    /\ returned' = TRUE
    /\ targetClosed' = TRUE
    /\ respOut' = <<>>
    /\ connClosed' = TRUE
    /\ errc' = Tail(errc)
    /\ UNCHANGED <<sent, bufRem, sock, clientFin, targetIn, targetHalf, respWritten,
                   serverFin, clientIn, aDone, bDone>>

Next ==
    \/ ClientSend \/ ClientCloseWrite
    \/ PumpACopy \/ PumpAEnd
    \/ ServerWrite \/ ServerClose
    \/ PumpBCopy \/ PumpBEnd
    \/ HandlerReturn

Spec == Init /\ [][Next]_vars

(* The proxy's tasks and the fallback server are scheduled fairly; the    *)
(* client is not: it may never half-close.                                 *)
FairSpec ==
    /\ Spec
    /\ WF_vars(PumpACopy) /\ WF_vars(PumpAEnd)
    /\ WF_vars(PumpBCopy) /\ WF_vars(PumpBEnd)
    /\ WF_vars(ServerWrite) /\ WF_vars(ServerClose)
    /\ WF_vars(HandlerReturn)

-----------------------------------------------------------------------------

(* The fallback server reads the client's bytes from the first one, the    *)
(* peeked ones included, in order and without gaps (preloadedConn drains  *)
(* the bufio.Reader before the socket); and when it reads the EOF of       *)
(* CloseWrite it has read everything the client sent.                      *)
RequestRelayedInOrder ==
    /\ IsPrefix(targetIn, Request)
    /\ targetHalf /\ ~targetClosed => targetIn = SubSeq(Request, 1, sent)

(* Whenever one side of the relay closes, handleFallback returns, the     *)
(* connection and the target are closed, and both pump goroutines have    *)
(* delivered their result to errc and ended (none is left blocked).       *)
RelayEnds ==
    (clientFin \/ serverFin)
        ~> (returned /\ connClosed /\ targetClosed /\ aDone /\ bDone)

(* When handleFallback returns after the server has read the whole         *)
(* request, the client has received the whole response: the relay is      *)
(* transparent (spec section 1).                                           *)
ClientGetsResponse ==
    returned /\ targetIn = Request => clientIn = Response

=============================================================================
