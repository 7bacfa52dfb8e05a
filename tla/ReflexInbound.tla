--------------------------- MODULE ReflexInbound ---------------------------
(***************************************************************************)
(* The REFLEX inbound handler of infra/conf/reflex.go: one task per        *)
(* accepted connection runs Process (peek, classify), the magic or HTTP    *)
(* handshake parser, processHandshake, then the handleSession loop; every  *)
(* connection's morphed replies and control frames go to the one shared    *)
(* default profile (ReflexProfile).  Fallback is taken to its dial; the    *)
(* relay itself is ReflexFallback.                                         *)
(*                                                                         *)
(* A client's bytes are abstracted to a request record (what the first 64  *)
(* bytes contain, how many bytes the client sends before it waits for an   *)
(* answer, the parsed handshake fields, the frames it sends once the       *)
(* session is up); "kind" is what the client really is, which the server  *)
(* can only guess.  The frame codec is ReflexSession: here a frame is      *)
(* its decrypted {type, payload}, or "BAD" for one ReadFrame rejects.      *)
(***************************************************************************)
EXTENDS ReflexProfile, Bags

CONSTANTS
    Conns,         \* accepted connections
    Users,         \* h.clients: configured UUIDs
    Requests,      \* what a client may send
    Window,        \* the +-300 s freshness window
    MaxTime,       \* bound on the clock
    UpLens,        \* lengths one upstream read-back may return
    HasFallback,   \* h.fallback != nil
    HasDispatcher  \* dispatcher != nil

\* A decrypted frame: its type byte, payload length and leading value.
Frame == [type : STRING, value : Nat, len : Nat]

(* A request's frames are frames, and its handshake timestamp is the     *)
(* int64 clientHS.Timestamp, an integer.                                   *)
ASSUME InboundAssumption ==
    /\ Window \in Nat /\ MaxTime \in Nat
    /\ UpLens \subseteq Nat \ {0}
    /\ HasFallback \in BOOLEAN /\ HasDispatcher \in BOOLEAN
    /\ \A r \in Requests : r.frames \in Seq(Frame) /\ r.hs.ts \in Int

ReflexMinHandshakeSize == 64
MagicFixedSize == 4 + 32 + 16 + 8 + 16 + 2   \* magic + fixed part
HandshakeRawMin == 32 + 16 + 8 + 16

VARIABLES
    req,         \* the request each connection carries, fixed for the run
    pc,          \* where each connection's task is
    clientEof,   \* the client has half-closed its write side
    now,         \* time.Now().Unix()
    inFrames,    \* frames of the client not yet read
    upLen,       \* bytes of the upstream read-back being morphed
    replies,     \* reply DATA frame payload lengths written to the client
    outcome,     \* how Process ended, for the properties
    acceptedAt,  \* clock value when processHandshake accepted (-1: never)
    appliedSizes,\* Bag of PADDING_CTRL values applied to the profile
    replySizes   \* Bag of reply payload lengths written to any client

vars == <<pc, clientEof, now, inFrames, upLen, replies, outcome, acceptedAt,
          appliedSizes, replySizes, nextPacketSize, nextDelay, req>>

Phase == {"peek", "magic", "http", "handshake", "session",
          "upstream", "morph_size", "morph_delay", "fallback", "done"}
Outcome == {"pending", "silent", "error", "forbidden", "closed",
            "fallback", "nofallback", "dialerror"}

TypeOK ==
    /\ req \in [Conns -> Requests]
    /\ pc \in [Conns -> Phase]
    /\ clientEof \in [Conns -> BOOLEAN]
    /\ now \in 0 .. MaxTime
    /\ inFrames \in [Conns -> Seq(Frame)]
    /\ upLen \in [Conns -> Nat]
    /\ replies \in [Conns -> Seq(Nat)]
    /\ outcome \in [Conns -> Outcome]
    /\ acceptedAt \in [Conns -> -1 .. MaxTime]

Init ==
    /\ req \in [Conns -> Requests]
    /\ pc = [c \in Conns |-> "peek"]
    /\ clientEof = [c \in Conns |-> FALSE]
    /\ now = 0
    /\ inFrames = [c \in Conns |-> req[c].frames]
    /\ upLen = [c \in Conns |-> 0]
    /\ replies = [c \in Conns |-> <<>>]
    /\ outcome = [c \in Conns |-> "pending"]
    /\ acceptedAt = [c \in Conns |-> -1]
    /\ appliedSizes = EmptyBag
    /\ replySizes = EmptyBag
    /\ nextPacketSize = 0
    /\ nextDelay = 0

\* Process returns: the task ends with result o.
Finish(c, o) == pc' = [pc EXCEPT ![c] = "done"] /\ outcome' = [outcome EXCEPT ![c] = o]
Goto(c, p) == pc' = [pc EXCEPT ![c] = p]

(* io.ReadFull / bufio reads of the first n bytes: they are there, or the  *)
(* client has closed and the read fails short; otherwise the read blocks.  *)
Available(c, n) == req[c].size >= n
ShortRead(c, n) == req[c].size < n /\ clientEof[c]

\* isReflexMagic / isHTTPPostLike on the peeked bytes.
IsReflexMagic(r) == r.prefix = "RFXL"
IsHTTPPostLike(r) == r.prefix = "POST" /\ r.http11

-----------------------------------------------------------------------------
\* The client's side: it may half-close its write side at any time.
ClientCloseWrite(c) ==
    /\ ~clientEof[c]
    /\ clientEof' = [clientEof EXCEPT ![c] = TRUE]
    /\ UNCHANGED <<pc, now, inFrames, upLen, replies, outcome, acceptedAt,
                   appliedSizes, replySizes, profileVars, req>>

\* The wall clock advances.
Tick ==
    /\ now < MaxTime
    /\ now' = now + 1
    /\ UNCHANGED <<pc, clientEof, inFrames, upLen, replies, outcome, acceptedAt,
                   appliedSizes, replySizes, profileVars, req>>

(* Process: reader.Peek(64) returns when 64 bytes are buffered, or with    *)
(* io.EOF (and the task returns nil) when the client closes first; then    *)
(* magic, else HTTP POST-like, else fallback.                              *)
Process(c) ==
    /\ pc[c] = "peek"
    /\ \/ /\ Available(c, ReflexMinHandshakeSize)
          /\ Goto(c, IF IsReflexMagic(req[c]) THEN "magic"
                     ELSE IF IsHTTPPostLike(req[c]) THEN "http"
                     ELSE "fallback")
          /\ UNCHANGED outcome
       \/ /\ ShortRead(c, ReflexMinHandshakeSize)
          /\ Finish(c, "silent")
    /\ UNCHANGED <<clientEof, now, inFrames, upLen, replies, acceptedAt,
                   appliedSizes, replySizes, profileVars, req>>

(* handleReflexMagic: ReadFull of the magic and the 74-byte fixed part,    *)
(* then of policy_len bytes when policy_len > 0; a short read returns err. *)
HandleReflexMagic(c) ==
    /\ pc[c] = "magic"
    /\ LET need == MagicFixedSize + req[c].policyLen
       IN  \/ Available(c, need) /\ Goto(c, "handshake") /\ UNCHANGED outcome
           \/ ShortRead(c, need) /\ Finish(c, "error")
    /\ UNCHANGED <<clientEof, now, inFrames, upLen, replies, acceptedAt,
                   appliedSizes, replySizes, profileVars, req>>

(* The header loop's test for a Content-Length line: the first 15 bytes   *)
(* of the line compared with a 14-byte literal.                           *)
IsContentLengthLine(line) ==
    Len(line) >= 16
    /\ (SubSeq(line, 1, 15) = "Content-Length" \/ SubSeq(line, 1, 15) = "content-length")

(* contentLength after the header loop: the decimal run of the last line  *)
(* that passes the test, 0 when none does.                                *)
ContentLength(headers) ==
    FoldLeft(LAMBDA v, h : IF IsContentLengthLine(h.line) THEN h.num ELSE v,
             0, headers)

(* handleReflexHTTP: read the header lines, fail on contentLength <= 0,   *)
(* ReadFull the body, json.Unmarshal, base64 decode, and                  *)
(* parseClientHandshakeFromBytes (>= 72 raw bytes); any failure returns    *)
(* the error.                                                              *)
HandleReflexHTTP(c) ==
    /\ pc[c] = "http"
    /\ LET r == req[c]
           cl == ContentLength(r.headers)
       IN  \/ ShortRead(c, r.hdrLen) /\ Finish(c, "error")
           \/ Available(c, r.hdrLen) /\ cl <= 0 /\ Finish(c, "error")
           \/ /\ Available(c, r.hdrLen) /\ cl > 0
              /\ ShortRead(c, r.hdrLen + cl)
              /\ Finish(c, "error")
           \/ /\ cl > 0 /\ Available(c, r.hdrLen + cl)
              /\ IF r.body = "ok" /\ r.rawLen >= HandshakeRawMin
                 THEN Goto(c, "handshake") /\ UNCHANGED outcome
                 ELSE Finish(c, "error")
    /\ UNCHANGED <<clientEof, now, inFrames, upLen, replies, acceptedAt,
                   appliedSizes, replySizes, profileVars, req>>

(* session.WriteFrame's header: uint16(len(nonce) + len(ciphertext)),    *)
(* the ciphertext being the 1-byte type, the payload and the 16-byte tag. *)
WireLen(n) == (12 + (1 + n + 16)) % 65536

(* Mutant of ProcessHandshake: the window test is off by one second in    *)
(* the future (clientHS.Timestamp > now+301).                              *)
ProcessHandshakeLaxWindow(c) ==
    /\ pc[c] = "handshake"
    /\ LET hs == req[c].hs
       IN  \/ /\ hs.ts < now - Window \/ hs.ts > now + Window + 1
              /\ Finish(c, "forbidden")
              /\ UNCHANGED acceptedAt
           \/ /\ ~(hs.ts < now - Window \/ hs.ts > now + Window + 1)
              /\ hs.user \notin Users
              /\ Finish(c, "forbidden")
              /\ UNCHANGED acceptedAt
           \/ /\ ~(hs.ts < now - Window \/ hs.ts > now + Window + 1)
              /\ hs.user \in Users
              /\ Goto(c, "session")
              /\ acceptedAt' = [acceptedAt EXCEPT ![c] = now]
              /\ UNCHANGED outcome
    /\ UNCHANGED <<clientEof, now, inFrames, upLen, replies,
                   appliedSizes, replySizes, profileVars, req>>

(* processHandshake: the timestamp window check, then authenticateUser;   *)
(* either failure writes a 403 and closes.  Otherwise the 200 response is *)
(* written and the session loop starts.                                    *)
ProcessHandshake(c) ==
    /\ pc[c] = "handshake"
    /\ LET hs == req[c].hs
       IN  \/ /\ hs.ts < now - Window \/ hs.ts > now + Window
              /\ Finish(c, "forbidden")
              /\ UNCHANGED acceptedAt
           \/ /\ ~(hs.ts < now - Window \/ hs.ts > now + Window)
              /\ hs.user \notin Users
              /\ Finish(c, "forbidden")
              /\ UNCHANGED acceptedAt
           \/ /\ ~(hs.ts < now - Window \/ hs.ts > now + Window)
              /\ hs.user \in Users
              /\ Goto(c, "session")
              /\ acceptedAt' = [acceptedAt EXCEPT ![c] = now]
              /\ UNCHANGED outcome
    /\ UNCHANGED <<clientEof, now, inFrames, upLen, replies,
                   appliedSizes, replySizes, profileVars, req>>

-----------------------------------------------------------------------------
(* Mutant of SessionEnd: io.EOF from ReadFrame is treated like any other *)
(* end of input and the loop keeps reading (only errors return).          *)
SessionEndIgnoreEof(c) ==
    /\ pc[c] = "session"
    /\ inFrames[c] # <<>> /\ Head(inFrames[c]).type = "BAD" /\ Finish(c, "error")
    /\ UNCHANGED <<clientEof, now, inFrames, upLen, replies, acceptedAt,
                   appliedSizes, replySizes, profileVars, req>>

(* handleSession, one iteration: ReadFrame returns io.EOF once the client *)
(* has closed and every frame is read (return nil), an error for a frame  *)
(* it rejects (return err), or the next frame.                            *)
SessionEnd(c) ==
    /\ pc[c] = "session"
    /\ \/ inFrames[c] = <<>> /\ clientEof[c] /\ Finish(c, "closed")
       \/ inFrames[c] # <<>> /\ Head(inFrames[c]).type = "BAD" /\ Finish(c, "error")
    /\ UNCHANGED <<clientEof, now, inFrames, upLen, replies, acceptedAt,
                   appliedSizes, replySizes, profileVars, req>>

(* A DATA frame: dropped without a dispatcher; else Dispatch, which may   *)
(* fail (continue), or the payload is written, the writer closed, and the *)
(* task blocks in link.Reader.ReadMultiBuffer.                            *)
SessionData(c) ==
    /\ pc[c] = "session"
    /\ inFrames[c] # <<>> /\ Head(inFrames[c]).type = "DATA"
    /\ inFrames' = [inFrames EXCEPT ![c] = Tail(@)]
    /\ IF HasDispatcher
       THEN \/ UNCHANGED pc                       \* Dispatch error: continue
            \/ Goto(c, "upstream")
       ELSE UNCHANGED pc
    /\ UNCHANGED <<clientEof, now, upLen, replies, outcome, acceptedAt,
                   appliedSizes, replySizes, profileVars, req>>

(* ReadMultiBuffer returns once the upstream answers: an error or nothing *)
(* (back to the loop), or n bytes, which are sent back morphed.  It has   *)
(* no deadline, and the client closing its connection does not end it.   *)
UpstreamReturn(c) ==
    /\ pc[c] = "upstream"
    /\ \/ Goto(c, "session") /\ UNCHANGED upLen
       \/ \E n \in UpLens :
             /\ upLen' = [upLen EXCEPT ![c] = n]
             /\ Goto(c, "morph_size")
    /\ UNCHANGED <<clientEof, now, inFrames, replies, outcome, acceptedAt,
                   appliedSizes, replySizes, profileVars, req>>

(* PADDING_CTRL / TIMING_CTRL: ApplyControlFrame on the handler's default *)
(* profile, the one shared by every connection; other types are ignored.  *)
SessionControl(c) ==
    /\ pc[c] = "session"
    /\ inFrames[c] # <<>> /\ Head(inFrames[c]).type \notin {"DATA", "BAD"}
    /\ LET f == Head(inFrames[c])
       IN  /\ ApplyControlFrame(f.type, f.len, f.value)
           /\ appliedSizes' =
                IF f.type = "PADDING_CTRL" /\ f.len >= 2 /\ f.value > 0
                THEN appliedSizes (+) SetToBag({f.value}) ELSE appliedSizes
    /\ inFrames' = [inFrames EXCEPT ![c] = Tail(@)]
    /\ UNCHANGED <<pc, clientEof, now, upLen, replies, outcome, acceptedAt,
                   replySizes, req>>

(* WriteFrameWithMorphing, first half: GetPacketSize under the profile    *)
(* lock, AddPadding, and session.WriteFrame of the DATA reply.            *)
MorphWrite(c) ==
    /\ pc[c] = "morph_size"
    /\ \E size \in {nextPacketSize} \cup Draws(PacketSizes) :
          /\ GetPacketSize(size)
          /\ LET n == AddPaddingLen(upLen[c], size)
             IN  /\ replies' = [replies EXCEPT ![c] = Append(@, n)]
                 /\ replySizes' = replySizes (+) SetToBag({n})
    /\ Goto(c, "morph_delay")
    /\ UNCHANGED <<clientEof, now, inFrames, upLen, outcome, acceptedAt,
                   appliedSizes, nextDelay, req>>

\* Second half: GetDelay under a second acquisition of the lock, then sleep.
MorphDelay(c) ==
    /\ pc[c] = "morph_delay"
    /\ \E d \in {nextDelay} \cup Draws(Delays) : GetDelay(d)
    /\ Goto(c, "session")
    /\ upLen' = [upLen EXCEPT ![c] = 0]
    /\ UNCHANGED <<clientEof, now, inFrames, replies, outcome, acceptedAt,
                   appliedSizes, replySizes, nextPacketSize, req>>

(* handleFallback up to the relay: no fallback configured -> close and    *)
(* error; Dial may fail -> close and error; else the relay runs.          *)
HandleFallback(c) ==
    /\ pc[c] = "fallback"
    /\ IF HasFallback
       THEN \/ Finish(c, "fallback")
            \/ Finish(c, "dialerror")
       ELSE Finish(c, "nofallback")
    /\ UNCHANGED <<clientEof, now, inFrames, upLen, replies, acceptedAt,
                   appliedSizes, replySizes, profileVars, req>>

ServerStep(c) ==
    \/ Process(c) \/ HandleReflexMagic(c) \/ HandleReflexHTTP(c)
    \/ ProcessHandshake(c) \/ SessionEnd(c) \/ SessionData(c)
    \/ SessionControl(c) \/ MorphWrite(c) \/ MorphDelay(c)
    \/ HandleFallback(c)

Next ==
    \/ Tick
    \/ \E c \in Conns : ClientCloseWrite(c) \/ ServerStep(c) \/ UpstreamReturn(c)

Spec == Init /\ [][Next]_vars

(* Every connection's task runs whenever the I/O it waits on is ready.    *)
(* The upstream is part of the environment: it may never answer.          *)
FairSpec == Spec /\ \A c \in Conns : WF_vars(ServerStep(c))

(* The same, with an upstream that always answers (or fails) eventually.  *)
FairUpstreamSpec == FairSpec /\ \A c \in Conns : WF_vars(UpstreamReturn(c))

-----------------------------------------------------------------------------
(* Properties.                                                             *)

(* processHandshake: a connection gets a session (and with it the         *)
(* dispatcher and the shared profile) only for a configured user whose    *)
(* timestamp was within the window of the clock when it was checked, and  *)
(* reply frames are only ever written on such a connection.               *)
SessionRequiresValidHandshake ==
    \A c \in Conns :
        /\ (pc[c] \in {"session", "upstream", "morph_size", "morph_delay"}
              \/ outcome[c] = "closed" \/ replies[c] # <<>>)
            => acceptedAt[c] # -1
        /\ acceptedAt[c] # -1 =>
              /\ req[c].hs.user \in Users
              /\ acceptedAt[c] - Window <= req[c].hs.ts
              /\ req[c].hs.ts <= acceptedAt[c] + Window

(* GetPacketSize/SetNextPacketSize: an override is one-shot even with     *)
(* every connection sharing the profile.  A reply payload length that is  *)
(* not one of the profile's sizes can only come from an override, so each *)
(* such length appears in replies, over all connections, at most as often *)
(* as PADDING_CTRL frames carrying it were applied.                       *)
OverrideOneShot ==
    \A n \in BagToSet(replySizes) \ Draws(PacketSizes) :
        n \in BagToSet(appliedSizes) /\ replySizes[n] <= appliedSizes[n]

(* WriteFrameWithMorphing / WriteFrame (spec 4.1): the length field of    *)
(* every reply frame counts exactly the nonce and ciphertext that follow,  *)
(* so the client's ReadFrame stays in step with the stream.               *)
ReplyLengthFieldExact ==
    \A c \in Conns : \A i \in DOMAIN replies[c] :
        WireLen(replies[c][i]) = 12 + 1 + replies[c][i] + 16

(* Process / handleFallback (spec 4.3, 4.5, 7): traffic that is not a     *)
(* REFLEX client, classified OTHER or failing the REFLEX parse before the *)
(* session, is relayed to the fallback (when one is configured and can be *)
(* dialled), never dropped with an error.                                 *)
WebTrafficFallsBack ==
    \A c \in Conns :
        (req[c].kind = "web" /\ pc[c] = "done")
            => outcome[c] \in {"fallback", "nofallback", "dialerror"}

(* Process (spec 4.3): a web client that sent a complete request and      *)
(* waits is eventually relayed to the fallback, however short the request.*)
WebClientAnswered ==
    \A c \in Conns :
        req[c].kind = "web" ~> outcome[c] \in {"fallback", "nofallback", "dialerror"}

(* processHandshake ("basic timestamp check to avoid trivial replay"): a  *)
(* client handshake, identified by its nonce, opens at most one session.  *)
HandshakeNonceSingleUse ==
    \A c, d \in Conns :
        (c # d /\ acceptedAt[c] # -1 /\ acceptedAt[d] # -1)
            => req[c].hs.nonce # req[d].hs.nonce

(* Cooperative cancellation (spec 5: the core "honors connection closure *)
(* (EOF or I/O error)" and dispatched upstream calls should be cancelable  *)
(* by it): once a client has closed its side, its connection's task ends, *)
(* whatever phase of Process, the handshake or the session loop it is in. *)
ClientCloseEndsTask ==
    \A c \in Conns : clientEof[c] ~> pc[c] = "done"

=============================================================================
