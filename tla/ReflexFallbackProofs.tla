------------------------ MODULE ReflexFallbackProofs -----------------------
(***************************************************************************)
(* Proofs about ReflexFallback for every request length, peek length,     *)
(* response length and server behaviour: the type invariant, and that the  *)
(* fallback server reads the client's request in order from its first     *)
(* peeked byte, and all of it by the time it sees CloseWrite.             *)
(***************************************************************************)
EXTENDS ReflexFallbackRefinement, SequenceTheorems, TLAPS

(* The client's bytes are split, in stream order, between what the server *)
(* has read, what is left in the bufio.Reader and what is in the socket;   *)
(* together they are the first sent chunks of the request.                 *)
StreamInv ==
    /\ Len(targetIn) + Len(bufRem) + Len(sock) = sent
    /\ \A i \in 1 .. Len(targetIn) : targetIn[i] = i
    /\ \A i \in 1 .. Len(bufRem) : bufRem[i] = Len(targetIn) + i
    /\ \A i \in 1 .. Len(sock) : sock[i] = Len(targetIn) + Len(bufRem) + i

(* No more client bytes will reach the server: nothing is buffered and the *)
(* client can send no more (it half-closed, its connection is closed, or  *)
(* it has sent the whole request).                                         *)
Drained ==
    /\ bufRem = <<>> /\ sock = <<>>
    /\ clientFin \/ connClosed \/ sent = ReqChunks

(* How the ends of the relay relate while the target is open: CloseWrite  *)
(* is sent only by a finished pump A, and only when no client byte is      *)
(* pending; the server closes only after the whole request or CloseWrite; *)
(* pump B closes the client connection only after the server closed; the   *)
(* server answers only a whole request.                                    *)
CloseInv ==
    /\ targetHalf => aDone
    /\ targetHalf /\ ~targetClosed => Drained
    /\ serverFin /\ ~targetClosed => Len(targetIn) = ReqChunks \/ targetHalf
    /\ connClosed /\ ~targetClosed => Drained
    /\ respWritten > 0 => Len(targetIn) = ReqChunks

(* errc holds the results the pumps sent, less the one the handler took.   *)
ErrcInv ==
    /\ returned => aDone \/ bDone
    /\ Len(errc) + (IF returned THEN 1 ELSE 0)
         = (IF aDone THEN 1 ELSE 0) + (IF bDone THEN 1 ELSE 0)

FInv == TypeOK /\ StreamInv /\ CloseInv /\ ErrcInv

-----------------------------------------------------------------------------
(* The request and the response are sequences of their lengths.           *)
LEMMA RequestType ==
    /\ Request \in Seq(1 .. ReqChunks) /\ Len(Request) = ReqChunks
    /\ Response \in Seq(1 .. RespChunks) /\ Len(Response) = RespChunks
BY FallbackAssumption DEF Request, Response

(* The initial state: the peeked chunks are in the bufio.Reader.          *)
LEMMA InitFInv == Init => FInv
<1> SUFFICES ASSUME Init PROVE FInv
  OBVIOUS
<1>1. bufRem \in Seq(1 .. ReqChunks) /\ Len(bufRem) = Peeked
      /\ \A i \in 1 .. Len(bufRem) : bufRem[i] = i
  BY RequestType, FallbackAssumption, SubSeqProperties DEF Init, Request
<1>2. TypeOK
  <2>1. sent \in Peeked .. ReqChunks /\ respWritten \in 0 .. RespChunks
    BY FallbackAssumption DEF Init
  <2>2. /\ sock \in Seq(1 .. ReqChunks) /\ targetIn \in Seq(1 .. ReqChunks)
        /\ respOut \in Seq(1 .. RespChunks) /\ clientIn \in Seq(1 .. RespChunks)
        /\ errc \in Seq({"eof", "err"}) /\ Len(errc) <= 2
    BY EmptySeq DEF Init
  <2>3. {clientFin, targetHalf, serverFin, connClosed, aDone, bDone,
         returned, targetClosed} \subseteq BOOLEAN
    BY DEF Init
  <2>4. QED
    BY <1>1, <2>1, <2>2, <2>3 DEF TypeOK
<1>3. StreamInv
  BY <1>1 DEF Init, StreamInv
<1>4. CloseInv /\ ErrcInv
  BY DEF Init, CloseInv, ErrcInv
<1>5. QED
  BY <1>2, <1>3, <1>4 DEF FInv

(* The client's steps: sending extends the stream at its end; a          *)
(* half-close can only make the stream drained.                           *)
LEMMA ClientSendFInv == FInv /\ ClientSend => FInv'
<1> SUFFICES ASSUME FInv, ClientSend PROVE FInv'
  OBVIOUS
<1>1. Request[sent + 1] = sent + 1 /\ sent + 1 \in 1 .. ReqChunks
  BY FallbackAssumption DEF ClientSend, FInv, TypeOK, Request
<1>2. /\ sock' \in Seq(1 .. ReqChunks) /\ Len(sock') = Len(sock) + 1
      /\ \A i \in 1 .. Len(sock) : sock'[i] = sock[i]
      /\ sock'[Len(sock) + 1] = sent + 1
  BY <1>1, AppendProperties DEF ClientSend, FInv, TypeOK
<1>3. TypeOK'
  BY <1>2, FallbackAssumption DEF ClientSend, FInv, TypeOK
<1>4. StreamInv'
  <2>1. Len(targetIn) + Len(bufRem) + Len(sock') = sent'
    BY <1>2 DEF ClientSend, FInv, StreamInv
  <2>2. \A i \in 1 .. Len(sock') : sock'[i] = Len(targetIn) + Len(bufRem) + i
    <3> TAKE i \in 1 .. Len(sock')
    <3>1. CASE i <= Len(sock)
      BY <1>2, <3>1 DEF FInv, StreamInv, TypeOK
    <3>2. CASE i = Len(sock) + 1
      BY <1>2, <3>2 DEF FInv, StreamInv, TypeOK
    <3>3. QED
      BY <1>2, <3>1, <3>2 DEF FInv, TypeOK
  <2>3. QED
    BY <2>1, <2>2 DEF ClientSend, FInv, StreamInv
<1>5. ~Drained
  BY FallbackAssumption DEF ClientSend, FInv, TypeOK, Drained
<1>6. ~(targetHalf /\ ~targetClosed) /\ ~(connClosed /\ ~targetClosed)
  BY <1>5 DEF FInv, CloseInv
<1>7. CloseInv' /\ ErrcInv'
  BY <1>6 DEF ClientSend, FInv, CloseInv, ErrcInv
<1>8. QED
  BY <1>3, <1>4, <1>7 DEF FInv

LEMMA ClientCloseWriteFInv == FInv /\ ClientCloseWrite => FInv'
BY DEF ClientCloseWrite, FInv, TypeOK, StreamInv, CloseInv, ErrcInv, Drained

(* While client bytes are pending and the target is open, the server has  *)
(* neither answered nor closed, and the client connection is open.         *)
LEMMA PendingQuiet ==
    ASSUME FInv, ~targetClosed, ~aDone, bufRem # <<>> \/ sock # <<>>
    PROVE  ~targetHalf /\ ~serverFin /\ ~connClosed /\ respWritten = 0
<1>1. ~targetHalf /\ ~connClosed
  BY DEF FInv, CloseInv, Drained
<1>2. Len(bufRem) + Len(sock) > 0
  BY EmptySeq DEF FInv, TypeOK
<1>3. Len(targetIn) < ReqChunks
  BY <1>2, FallbackAssumption DEF FInv, TypeOK, StreamInv
<1>4. ~serverFin
  BY <1>1, <1>3 DEF FInv, CloseInv
<1>5. respWritten = 0
  BY <1>3 DEF FInv, TypeOK, CloseInv
<1>6. QED
  BY <1>1, <1>4, <1>5

(* Moving the first chunk of b to the end of t keeps the numbering: t     *)
(* holds chunks 1 .. Len(t) and b the ones after them, in order.           *)
LEMMA MoveHead ==
    ASSUME NEW S, NEW t \in Seq(S), NEW b \in Seq(S), b # <<>>,
           \A i \in 1 .. Len(t) : t[i] = i,
           \A i \in 1 .. Len(b) : b[i] = Len(t) + i,
           NEW t2, t2 = Append(t, Head(b)), NEW b2, b2 = Tail(b)
    PROVE  /\ Len(t2) + Len(b2) = Len(t) + Len(b)
           /\ \A i \in 1 .. Len(t2) : t2[i] = i
           /\ \A i \in 1 .. Len(b2) : b2[i] = Len(t2) + i
<1>1. /\ Head(b) \in S /\ Tail(b) \in Seq(S) /\ Len(Tail(b)) = Len(b) - 1
      /\ \A i \in 1 .. Len(Tail(b)) : Tail(b)[i] = b[i + 1]
  BY HeadTailProperties
<1>2. Len(b) \in Nat \ {0} /\ Head(b) = b[1]
  BY EmptySeq
<1>3. /\ Append(t, Head(b)) \in Seq(S)
      /\ Len(Append(t, Head(b))) = Len(t) + 1
      /\ \A i \in 1 .. Len(t) : Append(t, Head(b))[i] = t[i]
      /\ Append(t, Head(b))[Len(t) + 1] = Head(b)
  BY <1>1, AppendProperties
<1>4. \A i \in 1 .. Len(t2) : t2[i] = i
  <2> TAKE i \in 1 .. Len(t2)
  <2>1. CASE i <= Len(t)
    BY <1>3, <2>1
  <2>2. CASE i = Len(t) + 1
    BY <1>2, <1>3, <2>2
  <2>3. QED
    BY <1>3, <2>1, <2>2
<1>5. \A i \in 1 .. Len(b2) : b2[i] = Len(t2) + i
  BY <1>1, <1>2, <1>3
<1>6. QED
  BY <1>1, <1>3, <1>4, <1>5

(* One read of pump A moves the next chunk, from the bufio.Reader while it *)
(* has bytes and from the socket after, to the server.                     *)
LEMMA PumpACopyFInv == FInv /\ PumpACopy => FInv'
<1> SUFFICES ASSUME FInv, PumpACopy PROVE FInv'
  OBVIOUS
<1>1. ~targetHalf /\ ~serverFin /\ ~connClosed /\ respWritten = 0
  BY PendingQuiet DEF PumpACopy
<1>2. TypeOK /\ StreamInv
  BY DEF FInv
<1>3. CASE bufRem # <<>>
  <2>1. /\ targetIn' = Append(targetIn, Head(bufRem)) /\ bufRem' = Tail(bufRem)
        /\ sock' = sock /\ sent' = sent
    BY <1>3 DEF PumpACopy
  <2>2. /\ targetIn' \in Seq(1 .. ReqChunks) /\ bufRem' \in Seq(1 .. ReqChunks)
        /\ Len(targetIn') + Len(bufRem') = Len(targetIn) + Len(bufRem)
        /\ \A i \in 1 .. Len(targetIn') : targetIn'[i] = i
        /\ \A i \in 1 .. Len(bufRem') : bufRem'[i] = Len(targetIn') + i
    <3>1. /\ targetIn \in Seq(1 .. ReqChunks) /\ bufRem \in Seq(1 .. ReqChunks) /\ bufRem # <<>>
          /\ \A i \in 1 .. Len(targetIn) : targetIn[i] = i
          /\ \A i \in 1 .. Len(bufRem) : bufRem[i] = Len(targetIn) + i
      BY <1>2, <1>3 DEF TypeOK, StreamInv
    <3>2. Append(targetIn, Head(bufRem)) \in Seq(1 .. ReqChunks) /\ Tail(bufRem) \in Seq(1 .. ReqChunks)
      BY <3>1, HeadTailProperties, AppendProperties
    <3>3. QED
      BY <3>1, <3>2, <2>1, MoveHead
  <2>3. StreamInv' /\ TypeOK'
    BY <1>2, <2>1, <2>2 DEF PumpACopy, TypeOK, StreamInv
  <2>4. QED
    BY <1>1, <2>3 DEF PumpACopy, FInv, CloseInv, ErrcInv
<1>4. CASE bufRem = <<>>
  <2>1. /\ sock # <<>>
        /\ targetIn' = Append(targetIn, Head(sock)) /\ sock' = Tail(sock)
        /\ bufRem' = bufRem /\ sent' = sent
    BY <1>4 DEF PumpACopy
  <2>2. Len(bufRem) = 0 /\ \A i \in 1 .. Len(sock) : sock[i] = Len(targetIn) + i
    BY <1>2, <1>4, EmptySeq DEF StreamInv
  <2>3. /\ targetIn' \in Seq(1 .. ReqChunks) /\ sock' \in Seq(1 .. ReqChunks)
        /\ Len(targetIn') + Len(sock') = Len(targetIn) + Len(sock)
        /\ \A i \in 1 .. Len(targetIn') : targetIn'[i] = i
        /\ \A i \in 1 .. Len(sock') : sock'[i] = Len(targetIn') + i
    <3>1. /\ targetIn \in Seq(1 .. ReqChunks) /\ sock \in Seq(1 .. ReqChunks) /\ sock # <<>>
          /\ \A i \in 1 .. Len(targetIn) : targetIn[i] = i
          /\ \A i \in 1 .. Len(sock) : sock[i] = Len(targetIn) + i
      BY <1>2, <2>1, <2>2 DEF TypeOK, StreamInv
    <3>2. Append(targetIn, Head(sock)) \in Seq(1 .. ReqChunks) /\ Tail(sock) \in Seq(1 .. ReqChunks)
      BY <3>1, HeadTailProperties, AppendProperties
    <3>3. QED
      BY <3>1, <3>2, <2>1, MoveHead
  <2>4. StreamInv'
    <3>1. Len(bufRem') = 0
      BY <1>4, <2>1, EmptySeq
    <3>2. QED
      BY <1>2, <2>1, <2>3, <3>1 DEF TypeOK, StreamInv
  <2>5. TypeOK'
    BY <1>2, <2>1, <2>3 DEF PumpACopy, TypeOK
  <2>6. QED
    BY <1>1, <2>4, <2>5 DEF PumpACopy, FInv, CloseInv, ErrcInv
<1>5. QED
  BY <1>3, <1>4

(* Once the server has read the whole request, nothing more can come.    *)
LEMMA WholeDrained ==
    ASSUME FInv, Len(targetIn) = ReqChunks
    PROVE  Drained
<1>1. Len(bufRem) = 0 /\ Len(sock) = 0 /\ sent = ReqChunks
  BY FallbackAssumption DEF FInv, TypeOK, StreamInv
<1>2. bufRem = <<>> /\ sock = <<>>
  BY <1>1, EmptySeq DEF FInv, TypeOK
<1>3. QED
  BY <1>1, <1>2 DEF Drained

(* With a pump not yet done, errc has room for its result.                 *)
LEMMA ErrcRoom ==
    ASSUME FInv, ~aDone \/ ~bDone
    PROVE  Len(errc) <= 1
BY DEF FInv, TypeOK, ErrcInv

(* Pump A ends: CloseWrite reaches the open target only when nothing of   *)
(* the client is pending, and its result goes to errc.                     *)
LEMMA PumpAEndFInv == FInv /\ PumpAEnd => FInv'
<1> SUFFICES ASSUME FInv, PumpAEnd PROVE FInv'
  OBVIOUS
<1> DEFINE eof  == bufRem = <<>> /\ sock = <<>> /\ clientFin /\ ~connClosed
           fail == \/ connClosed /\ bufRem = <<>>
                   \/ targetClosed /\ (bufRem # <<>> \/ sock # <<>>)
<1>1. /\ ~aDone /\ (eof \/ fail)
      /\ targetHalf' = (targetHalf \/ ~targetClosed)
      /\ errc' = Append(errc, IF eof THEN "eof" ELSE "err")
      /\ aDone' = TRUE
      /\ UNCHANGED <<sent, bufRem, sock, clientFin, targetIn, respOut, respWritten,
                     serverFin, clientIn, connClosed, bDone, returned, targetClosed>>
  BY DEF PumpAEnd
<1>2. Len(errc) <= 1 /\ errc \in Seq({"eof", "err"})
  BY <1>1, ErrcRoom DEF FInv, TypeOK
<1>3. errc' \in Seq({"eof", "err"}) /\ Len(errc') = Len(errc) + 1
  BY <1>1, <1>2, AppendProperties
<1>4. TypeOK'
  <2>1. {clientFin, targetHalf, serverFin, connClosed, aDone, bDone,
          returned, targetClosed}' \subseteq BOOLEAN
    BY <1>1, Zenon DEF FInv, TypeOK
  <2>2. QED
    BY <1>1, <1>2, <1>3, <2>1 DEF FInv, TypeOK
<1>5. ~targetClosed => Drained
  BY <1>1 DEF FInv, CloseInv, Drained
<1>6. CloseInv'
  BY <1>1, <1>5 DEF FInv, CloseInv, Drained
<1>7. ErrcInv'
  BY <1>1, <1>3 DEF FInv, TypeOK, ErrcInv
<1>8. QED
  BY <1>1, <1>4, <1>6, <1>7 DEF FInv, StreamInv

(* The server answers only the whole request.                             *)
LEMMA ServerWriteFInv == FInv /\ ServerWrite => FInv'
<1> SUFFICES ASSUME FInv, ServerWrite PROVE FInv'
  OBVIOUS
<1>1. Len(targetIn) = ReqChunks
  BY RequestType DEF ServerWrite
<1>2. Response[respWritten + 1] \in 1 .. RespChunks
  BY FallbackAssumption DEF ServerWrite, FInv, TypeOK, Response
<1>3. respOut' \in Seq(1 .. RespChunks)
  BY <1>2, AppendProperties DEF ServerWrite, FInv, TypeOK
<1>4. TypeOK'
  BY <1>3, FallbackAssumption DEF ServerWrite, FInv, TypeOK
<1>5. QED
  BY <1>1, <1>4 DEF ServerWrite, FInv, StreamInv, CloseInv, ErrcInv, Drained

(* The server closes only after answering or after CloseWrite.            *)
LEMMA ServerCloseFInv == FInv /\ ServerClose => FInv'
<1> SUFFICES ASSUME FInv, ServerClose PROVE FInv'
  OBVIOUS
<1>1. Len(targetIn) = ReqChunks \/ targetHalf
  BY FallbackAssumption DEF ServerClose, FInv, TypeOK, CloseInv
<1>2. QED
  BY <1>1 DEF ServerClose, FInv, TypeOK, StreamInv, CloseInv, ErrcInv, Drained

(* Pump B relays one chunk of the response.                               *)
LEMMA PumpBCopyFInv == FInv /\ PumpBCopy => FInv'
<1> SUFFICES ASSUME FInv, PumpBCopy PROVE FInv'
  OBVIOUS
<1>1. respOut \in Seq(1 .. RespChunks) /\ respOut # <<>> /\ clientIn \in Seq(1 .. RespChunks)
  BY DEF PumpBCopy, FInv, TypeOK
<1>2. Head(respOut) \in 1 .. RespChunks /\ Tail(respOut) \in Seq(1 .. RespChunks)
  BY <1>1, HeadTailProperties
<1>3. Append(clientIn, Head(respOut)) \in Seq(1 .. RespChunks)
  BY <1>1, <1>2, AppendProperties
<1>4. TypeOK'
  BY <1>2, <1>3 DEF PumpBCopy, FInv, TypeOK
<1>5. QED
  BY <1>4 DEF PumpBCopy, FInv, StreamInv, CloseInv, ErrcInv, Drained

(* Pump B ends and closes the client connection: only once nothing of     *)
(* the client is pending for the open target.                             *)
LEMMA PumpBEndFInv == FInv /\ PumpBEnd => FInv'
<1> SUFFICES ASSUME FInv, PumpBEnd PROVE FInv'
  OBVIOUS
<1> DEFINE eof  == respOut = <<>> /\ serverFin /\ ~targetClosed
           fail == targetClosed \/ (connClosed /\ respOut # <<>>)
<1>1. /\ ~bDone /\ (eof \/ fail)
      /\ connClosed' = TRUE
      /\ errc' = Append(errc, IF eof THEN "eof" ELSE "err")
      /\ bDone' = TRUE
      /\ UNCHANGED <<sent, bufRem, sock, clientFin, targetIn, targetHalf, respOut,
                     respWritten, serverFin, clientIn, aDone, returned, targetClosed>>
  BY DEF PumpBEnd
<1>2. Len(errc) <= 1 /\ errc \in Seq({"eof", "err"})
  BY <1>1, ErrcRoom DEF FInv, TypeOK
<1>3. errc' \in Seq({"eof", "err"}) /\ Len(errc') = Len(errc) + 1
  BY <1>1, <1>2, AppendProperties
<1>4. TypeOK'
  <2>1. {clientFin, targetHalf, serverFin, connClosed, aDone, bDone,
          returned, targetClosed}' \subseteq BOOLEAN
    BY <1>1, Zenon DEF FInv, TypeOK
  <2>2. QED
    BY <1>1, <1>2, <1>3, <2>1 DEF FInv, TypeOK
<1>5. ~targetClosed => Drained
  <2> SUFFICES ASSUME ~targetClosed PROVE Drained
    OBVIOUS
  <2>1. CASE eof
    <3>1. Len(targetIn) = ReqChunks \/ targetHalf
      BY <2>1 DEF FInv, CloseInv
    <3>2. QED
      BY <3>1, WholeDrained DEF FInv, CloseInv
  <2>2. CASE fail
    BY <2>2 DEF FInv, CloseInv
  <2>3. QED
    BY <1>1, <2>1, <2>2
<1>6. Drained => Drained'
  BY <1>1 DEF Drained
<1>7. CloseInv'
  BY <1>1, <1>5, <1>6 DEF FInv, CloseInv
<1>8. ErrcInv'
  BY <1>1, <1>3 DEF FInv, TypeOK, ErrcInv
<1>9. QED
  BY <1>1, <1>4, <1>7, <1>8 DEF FInv, StreamInv

(* handleFallback returns: it takes one result and closes both sockets.   *)
LEMMA HandlerReturnFInv == FInv /\ HandlerReturn => FInv'
<1> SUFFICES ASSUME FInv, HandlerReturn PROVE FInv'
  OBVIOUS
<1>1. errc \in Seq({"eof", "err"}) /\ errc # <<>>
  BY DEF HandlerReturn, FInv, TypeOK
<1>2. Tail(errc) \in Seq({"eof", "err"}) /\ Len(Tail(errc)) = Len(errc) - 1
      /\ Len(errc) \in Nat \ {0}
  BY <1>1, HeadTailProperties, EmptySeq
<1>3. TypeOK'
  BY <1>2, EmptySeq DEF HandlerReturn, FInv, TypeOK
<1>4. ErrcInv'
  BY <1>2 DEF HandlerReturn, FInv, TypeOK, ErrcInv
<1>5. QED
  BY <1>3, <1>4 DEF HandlerReturn, FInv, StreamInv, CloseInv

(* Every step of the relay keeps FInv.                                     *)
LEMMA FInvStep == FInv /\ [Next]_vars => FInv'
<1> SUFFICES ASSUME FInv, [Next]_vars PROVE FInv'
  OBVIOUS
<1>1. CASE ClientSend        BY <1>1, ClientSendFInv
<1>2. CASE ClientCloseWrite  BY <1>2, ClientCloseWriteFInv
<1>3. CASE PumpACopy         BY <1>3, PumpACopyFInv
<1>4. CASE PumpAEnd          BY <1>4, PumpAEndFInv
<1>5. CASE ServerWrite       BY <1>5, ServerWriteFInv
<1>6. CASE ServerClose       BY <1>6, ServerCloseFInv
<1>7. CASE PumpBCopy         BY <1>7, PumpBCopyFInv
<1>8. CASE PumpBEnd          BY <1>8, PumpBEndFInv
<1>9. CASE HandlerReturn     BY <1>9, HandlerReturnFInv
<1>10. CASE UNCHANGED vars
  BY <1>10 DEF vars, FInv, TypeOK, StreamInv, CloseInv, ErrcInv, Drained
<1>11. QED
  BY <1>1, <1>2, <1>3, <1>4, <1>5, <1>6, <1>7, <1>8, <1>9, <1>10 DEF Next

(* The chunks 1 .. n of the request, as a sequence.                        *)
LEMMA RequestPrefix ==
    ASSUME NEW n \in 0 .. ReqChunks
    PROVE  /\ SubSeq(Request, 1, n) \in Seq(1 .. ReqChunks)
           /\ Len(SubSeq(Request, 1, n)) = n
           /\ \A i \in 1 .. n : SubSeq(Request, 1, n)[i] = i
<1>1. \A i \in 1 .. n : Request[i] \in 1 .. ReqChunks
  BY FallbackAssumption DEF Request
<1>2. QED
  BY <1>1, SubSeqProperties, FallbackAssumption DEF Request

(* FInv gives RequestRelayedInOrder: what the server read is the start of *)
(* the request, and all the client sent once the server saw CloseWrite.   *)
LEMMA FInvRelayed == FInv => RequestRelayedInOrder
<1> SUFFICES ASSUME FInv PROVE RequestRelayedInOrder
  OBVIOUS
<1>1. Len(targetIn) \in 0 .. ReqChunks /\ targetIn \in Seq(1 .. ReqChunks)
  BY FallbackAssumption DEF FInv, TypeOK, StreamInv
<1>2. targetIn = SubSeq(Request, 1, Len(targetIn))
  <2>1. /\ SubSeq(Request, 1, Len(targetIn)) \in Seq(1 .. ReqChunks)
        /\ Len(SubSeq(Request, 1, Len(targetIn))) = Len(targetIn)
        /\ \A i \in 1 .. Len(targetIn) : SubSeq(Request, 1, Len(targetIn))[i] = i
    BY <1>1, RequestPrefix
  <2>2. QED
    BY <1>1, <2>1, SeqEqual DEF FInv, StreamInv
<1>3. IsPrefix(targetIn, Request)
  <2>1. SubSeq(targetIn, 1, Len(targetIn)) = targetIn
    <3>1. /\ SubSeq(targetIn, 1, Len(targetIn)) \in Seq(1 .. ReqChunks)
          /\ Len(SubSeq(targetIn, 1, Len(targetIn))) = Len(targetIn)
          /\ \A i \in 1 .. Len(targetIn) : SubSeq(targetIn, 1, Len(targetIn))[i] = targetIn[i]
      <4>1. \A i \in 1 .. Len(targetIn) : targetIn[i] \in 1 .. ReqChunks
        BY <1>1, LenProperties
      <4>2. QED
        BY <1>1, <4>1, SubSeqProperties
    <3>2. QED
      BY <1>1, <3>1, SeqEqual
  <2>2. QED
    BY <1>1, <1>2, <2>1, RequestType DEF IsPrefix
<1>4. targetHalf /\ ~targetClosed => targetIn = SubSeq(Request, 1, sent)
  <2> SUFFICES ASSUME targetHalf, ~targetClosed PROVE targetIn = SubSeq(Request, 1, sent)
    OBVIOUS
  <2>1. bufRem = <<>> /\ sock = <<>>
    BY DEF FInv, CloseInv, Drained
  <2>2. Len(targetIn) = sent
    BY <2>1, EmptySeq DEF FInv, TypeOK, StreamInv
  <2>3. QED
    BY <1>2, <2>2
<1>5. QED
  BY <1>3, <1>4 DEF RequestRelayedInOrder

(* Every reachable state of the relay is well typed: the byte streams are *)
(* chunks of the request and response, and errc never holds more than its *)
(* capacity of 2 results.                                                  *)
THEOREM FallbackTypeCorrect == Spec => []TypeOK
<1>1. Init => FInv
  BY InitFInv
<1>2. FInv /\ [Next]_vars => FInv'
  BY FInvStep
<1>3. FInv => TypeOK
  BY DEF FInv
<1>4. QED
  BY <1>1, <1>2, <1>3, PTL DEF Spec

(* preloadedConn and pump A hand the fallback server the client's request *)
(* from its first, peeked, byte on, in order and without gaps, and all of *)
(* it by the time CloseWrite reaches the server: for every request length *)
(* and peek length, and whatever the client, the server and the pumps do. *)
THEOREM RequestInOrder == Spec => []RequestRelayedInOrder
<1>1. Init => FInv
  BY InitFInv
<1>2. FInv /\ [Next]_vars => FInv'
  BY FInvStep
<1>3. FInv => RequestRelayedInOrder
  BY FInvRelayed
<1>4. QED
  BY <1>1, <1>2, <1>3, PTL DEF Spec

-----------------------------------------------------------------------------
(* The refinement of ByteRelay.                                            *)

(* The server's bytes are split, in stream order, between what the client *)
(* has received and what pump B has not yet read; together they are what  *)
(* the server wrote, less what target.Close() discarded.  The target is   *)
(* closed only together with the client connection.                       *)
RespInv ==
    /\ \A i \in 1 .. Len(clientIn) : clientIn[i] = i
    /\ \A i \in 1 .. Len(respOut) : respOut[i] = Len(clientIn) + i
    /\ Len(clientIn) + Len(respOut) <= respWritten
    /\ ~targetClosed => Len(clientIn) + Len(respOut) = respWritten
    /\ targetClosed => connClosed

RInv == FInv /\ RespInv

LEMMA InitRInv == Init => RInv
<1> SUFFICES ASSUME Init PROVE RInv
  OBVIOUS
<1>1. FInv
  BY InitFInv
<1>2. RespInv
  BY EmptySeq DEF Init, RespInv
<1>3. QED
  BY <1>1, <1>2 DEF RInv

(* The server appends the next chunk of its response after those pending. *)
LEMMA ServerWriteRespInv == FInv /\ RespInv /\ ServerWrite => RespInv'
<1> SUFFICES ASSUME FInv, RespInv, ServerWrite PROVE RespInv'
  OBVIOUS
<1>1. Len(clientIn) + Len(respOut) = respWritten /\ respWritten + 1 \in 1 .. RespChunks
  BY FallbackAssumption DEF ServerWrite, RespInv, FInv, TypeOK
<1>2. /\ respOut' \in Seq(1 .. RespChunks) /\ Len(respOut') = Len(respOut) + 1
      /\ \A i \in 1 .. Len(respOut) : respOut'[i] = respOut[i]
      /\ respOut'[Len(respOut) + 1] = respWritten + 1
  <2>1. Response[respWritten + 1] = respWritten + 1
    BY <1>1 DEF Response
  <2>2. QED
    BY <1>1, <2>1, AppendProperties DEF ServerWrite, FInv, TypeOK
<1>3. \A i \in 1 .. Len(respOut') : respOut'[i] = Len(clientIn') + i
  <2> TAKE i \in 1 .. Len(respOut')
  <2>1. CASE i <= Len(respOut)
    BY <1>2, <2>1 DEF ServerWrite, RespInv, FInv, TypeOK
  <2>2. CASE i = Len(respOut) + 1
    <3>1. clientIn' = clientIn /\ Len(clientIn) \in Nat /\ Len(respOut) \in Nat
      BY DEF ServerWrite, FInv, TypeOK
    <3>2. respOut'[i] = respWritten + 1
      BY <1>2, <2>2
    <3>3. QED
      BY <1>1, <2>2, <3>1, <3>2
  <2>3. QED
    BY <1>2, <2>1, <2>2 DEF FInv, TypeOK
<1>4. QED
  BY <1>1, <1>2, <1>3 DEF ServerWrite, RespInv, FInv, TypeOK

(* Pump B moves the first pending chunk to the client.                    *)
LEMMA PumpBCopyRespInv == FInv /\ RespInv /\ PumpBCopy => RespInv'
<1> SUFFICES ASSUME FInv, RespInv, PumpBCopy PROVE RespInv'
  OBVIOUS
<1>1. /\ clientIn \in Seq(1 .. RespChunks) /\ respOut \in Seq(1 .. RespChunks)
      /\ respOut # <<>>
      /\ clientIn' = Append(clientIn, Head(respOut)) /\ respOut' = Tail(respOut)
  BY DEF PumpBCopy, FInv, TypeOK
<1>2. /\ Len(clientIn') + Len(respOut') = Len(clientIn) + Len(respOut)
      /\ \A i \in 1 .. Len(clientIn') : clientIn'[i] = i
      /\ \A i \in 1 .. Len(respOut') : respOut'[i] = Len(clientIn') + i
  BY <1>1, MoveHead DEF RespInv
<1>3. UNCHANGED <<respWritten, targetClosed, connClosed>>
  BY DEF PumpBCopy
<1>4. QED
  BY <1>2, <1>3 DEF RespInv

(* handleFallback returns: target.Close() drops what pump B had not read, *)
(* and the client connection is closed with it.                           *)
LEMMA HandlerReturnRespInv == FInv /\ RespInv /\ HandlerReturn => RespInv'
<1> SUFFICES ASSUME FInv, RespInv, HandlerReturn PROVE RespInv'
  OBVIOUS
<1>1. Len(respOut') = 0 /\ Len(respOut) \in Nat /\ Len(clientIn) \in Nat
      /\ respWritten \in Nat
  BY EmptySeq DEF HandlerReturn, FInv, TypeOK
<1>2. Len(clientIn') + Len(respOut') <= respWritten'
  BY <1>1 DEF HandlerReturn, RespInv
<1>3. \A i \in 1 .. Len(respOut') : respOut'[i] = Len(clientIn') + i
  BY <1>1
<1>4. QED
  BY <1>2, <1>3 DEF HandlerReturn, RespInv

(* The other steps leave the response stream alone.                       *)
LEMMA RespInvStep == FInv /\ RespInv /\ [Next]_vars => RespInv'
<1> SUFFICES ASSUME FInv, RespInv, [Next]_vars PROVE RespInv'
  OBVIOUS
<1>1. CASE ServerWrite    BY <1>1, ServerWriteRespInv
<1>2. CASE PumpBCopy      BY <1>2, PumpBCopyRespInv
<1>3. CASE HandlerReturn  BY <1>3, HandlerReturnRespInv
<1>4. CASE PumpBEnd       BY <1>4 DEF PumpBEnd, RespInv
<1>5. CASE \/ ClientSend \/ ClientCloseWrite \/ PumpACopy \/ PumpAEnd
           \/ ServerClose \/ UNCHANGED vars
  <2>1. UNCHANGED <<clientIn, respOut, respWritten, targetClosed, connClosed>>
    BY <1>5 DEF ClientSend, ClientCloseWrite, PumpACopy, PumpAEnd, ServerClose, vars
  <2>2. QED
    BY <2>1 DEF RespInv
<1>6. QED
  BY <1>1, <1>2, <1>3, <1>4, <1>5 DEF Next

LEMMA RInvStep == RInv /\ [Next]_vars => RInv'
BY FInvStep, RespInvStep DEF RInv

(* The relay starts with the peeked chunks written and nothing delivered. *)
LEMMA InitRelay == Init => Relay!Init
<1> SUFFICES ASSUME Init PROVE Relay!Init
  OBVIOUS
<1>1. sent \in 0 .. Len(Request)
  BY RequestType, FallbackAssumption DEF Init
<1>2. QED
  BY <1>1 DEF Init, Relay!Init

(* The client writes only while the server has not seen CloseWrite.       *)
LEMMA ClientSendRelay == RInv /\ ClientSend => Relay!Write
<1> SUFFICES ASSUME RInv, ClientSend PROVE Relay!Write
  OBVIOUS
<1>1. ~targetHalf
  <2>1. ~Drained
    BY FallbackAssumption DEF ClientSend, Drained, RInv, FInv, TypeOK
  <2>2. ~targetClosed
    BY DEF ClientSend, RInv, RespInv
  <2>3. QED
    BY <2>1, <2>2 DEF RInv, FInv, CloseInv
<1>2. sent < Len(Request)
  BY RequestType DEF ClientSend
<1>3. QED
  BY <1>1, <1>2 DEF ClientSend, Relay!Write

(* A read of pump A hands the server the next chunk of the request.       *)
LEMMA PumpACopyRelay == RInv /\ RInv' /\ PumpACopy => Relay!Forward
<1> SUFFICES ASSUME RInv, RInv', PumpACopy PROVE Relay!Forward
  OBVIOUS
<1>1. PICK x : targetIn' = Append(targetIn, x)
  BY DEF PumpACopy
<1>2. /\ targetIn \in Seq(1 .. ReqChunks) /\ Len(targetIn) \in Nat
      /\ sent \in Nat /\ sent <= ReqChunks
  BY FallbackAssumption DEF RInv, FInv, TypeOK
<1>3. Len(targetIn') = Len(targetIn) + 1 /\ targetIn'[Len(targetIn) + 1] = x
  BY <1>1, <1>2, AppendProperties
<1>4. x = Len(targetIn) + 1
  BY <1>3 DEF RInv, FInv, StreamInv
<1>5. Len(targetIn) < sent
  <2>1. Len(targetIn') + Len(bufRem') + Len(sock') = sent /\ Len(bufRem') \in Nat
        /\ Len(sock') \in Nat
    BY DEF PumpACopy, RInv, FInv, StreamInv, TypeOK
  <2>2. QED
    BY <1>2, <1>3, <2>1
<1>6. Request[Len(targetIn) + 1] = x
  BY <1>2, <1>4, <1>5, FallbackAssumption DEF Request
<1>7. QED
  BY <1>1, <1>5, <1>6 DEF PumpACopy, Relay!Forward

(* Pump A ends: on the open target its CloseWrite is the relay's          *)
(* half-close, after everything the client sent; on the closed target the *)
(* request direction was already closed.                                  *)
LEMMA PumpAEndRelay == RInv /\ RInv' /\ PumpAEnd => [Relay!Next]_Relay!relayVars
<1> SUFFICES ASSUME RInv, RInv', PumpAEnd PROVE [Relay!Next]_Relay!relayVars
  OBVIOUS
<1>1. CASE targetClosed
  <2>1. targetHalf \in BOOLEAN
    BY DEF RInv, FInv, TypeOK
  <2>2. targetHalf' = targetHalf /\ targetClosed' /\ UNCHANGED <<sent, targetIn, respWritten, clientIn, bDone, connClosed>>
    BY <1>1, <2>1 DEF PumpAEnd
  <2>3. QED
    BY <1>1, <2>2 DEF Relay!relayVars
<1>2. CASE ~targetClosed
  <2>1. targetHalf' /\ ~targetClosed' /\ ~aDone /\ aDone'
    BY <1>2 DEF PumpAEnd
  <2>2. Len(targetIn) = sent
    <3>1. bufRem' = <<>> /\ sock' = <<>>
      BY <2>1 DEF RInv, FInv, CloseInv, Drained
    <3>2. Len(bufRem') = 0 /\ Len(sock') = 0
      BY <3>1, EmptySeq
    <3>3. Len(targetIn') = sent'
      BY <3>2 DEF RInv, FInv, StreamInv, TypeOK
    <3>4. QED
      BY <3>3 DEF PumpAEnd
  <2>3. Relay!HalfClose
    BY <1>2, <2>1, <2>2 DEF PumpAEnd, Relay!HalfClose
  <2>4. QED
    BY <2>3 DEF Relay!Next
<1>3. QED
  BY <1>1, <1>2

(* A read of pump B hands the client the next chunk of the response.      *)
LEMMA PumpBCopyRelay == RInv /\ PumpBCopy => Relay!Return
<1> SUFFICES ASSUME RInv, PumpBCopy PROVE Relay!Return
  OBVIOUS
<1>1. /\ respOut \in Seq(1 .. RespChunks) /\ respOut # <<>>
      /\ clientIn \in Seq(1 .. RespChunks) /\ respWritten \in 0 .. RespChunks
  BY DEF PumpBCopy, RInv, FInv, TypeOK
<1>2. Len(respOut) \in Nat \ {0} /\ Head(respOut) = respOut[1] /\ Len(clientIn) \in Nat
  BY <1>1, EmptySeq
<1>3. Head(respOut) = Len(clientIn) + 1
  BY <1>2 DEF RInv, RespInv
<1>4. Len(clientIn) < respWritten
  BY <1>1, <1>2 DEF RInv, RespInv
<1>5. Response[Len(clientIn) + 1] = Head(respOut)
  BY <1>1, <1>2, <1>3, <1>4, FallbackAssumption DEF Response
<1>6. QED
  BY <1>4, <1>5 DEF PumpBCopy, Relay!Return

(* Every step of the relay's tasks, the client and the server is a step   *)
(* of ByteRelay or leaves its image unchanged.                             *)
LEMMA RelayStep == RInv /\ RInv' /\ [Next]_vars => [Relay!Next]_Relay!relayVars
<1> SUFFICES ASSUME RInv, RInv', [Next]_vars PROVE [Relay!Next]_Relay!relayVars
  OBVIOUS
<1>1. CASE ClientSend
  BY <1>1, ClientSendRelay DEF Relay!Next
<1>2. CASE PumpACopy
  BY <1>2, PumpACopyRelay DEF Relay!Next
<1>3. CASE PumpAEnd
  BY <1>3, PumpAEndRelay
<1>4. CASE ServerWrite
  <2>1. Relay!Answer
    BY <1>4, RequestType DEF ServerWrite, Relay!Answer
  <2>2. QED
    BY <2>1 DEF Relay!Next
<1>5. CASE PumpBCopy
  BY <1>5, PumpBCopyRelay DEF Relay!Next
<1>6. CASE PumpBEnd
  <2>1. CASE connClosed \/ targetClosed
    BY <1>6, <2>1 DEF PumpBEnd, Relay!relayVars
  <2>2. CASE ~connClosed /\ ~targetClosed
    <3>1. Relay!CloseDown
      BY <1>6, <2>2 DEF PumpBEnd, Relay!CloseDown
    <3>2. QED
      BY <3>1 DEF Relay!Next
  <2>3. QED
    BY <2>1, <2>2
<1>7. CASE HandlerReturn
  <2>1. Relay!Teardown
    BY <1>7 DEF HandlerReturn, Relay!Teardown
  <2>2. QED
    BY <2>1 DEF Relay!Next
<1>8. CASE ClientCloseWrite \/ ServerClose \/ UNCHANGED vars
  BY <1>8 DEF ClientCloseWrite, ServerClose, vars, Relay!relayVars
<1>9. QED
  BY <1>1, <1>2, <1>3, <1>4, <1>5, <1>6, <1>7, <1>8 DEF Next

(* handleFallback, with preloadedConn and its two io.Copy pumps, is a     *)
(* transparent relay for every request, peek and response length: each    *)
(* side receives, in order and without gaps, a prefix of what the other   *)
(* wrote, nothing after its direction closed, and CloseWrite reaches the  *)
(* server only after everything the client sent, which then sends no more.*)
THEOREM FallbackRefinesRelay == Spec => RelayRefined
<1>1. Init => Relay!Init /\ RInv
  BY InitRelay, InitRInv
<1>2. RInv /\ [Next]_vars => RInv'
  BY RInvStep
<1>3. RInv /\ RInv' /\ [Next]_vars => [Relay!Next]_Relay!relayVars
  BY RelayStep
<1>4. QED
  BY <1>1, <1>2, <1>3, PTL DEF Spec, RelayRefined, Relay!Spec

=============================================================================
