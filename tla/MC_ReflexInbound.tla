------------------------- MODULE MC_ReflexInbound -------------------------
(* Small instances of ReflexInbound: the "http2-api" profile (weights in  *)
(* tenths), a 1-second window on a clock of 0..2, and client requests     *)
(* whose byte counts are those of the real messages.                      *)
EXTENDS ReflexInbound, TLC

\* Profiles["http2-api"]: sizes and delays (ms), weights * 10.
MC_PacketSizes == << [value |-> 200, weight |-> 2], [value |-> 500, weight |-> 3],
                     [value |-> 1000, weight |-> 3], [value |-> 1500, weight |-> 2] >>
MC_Delays == << [value |-> 5, weight |-> 3], [value |-> 10, weight |-> 4],
                [value |-> 15, weight |-> 3] >>

\* Frames a client sends after the handshake.
DataFrame == [type |-> "DATA", value |-> 0, len |-> 4]
PadFrame == [type |-> "PADDING_CTRL", value |-> 700, len |-> 2]
TimingFrame == [type |-> "TIMING_CTRL", value |-> 20, len |-> 8]
BigPadFrame == [type |-> "PADDING_CTRL", value |-> 65530, len |-> 2]
UnknownFrame == [type |-> "UNKNOWN", value |-> 0, len |-> 0]
BadFrame == [type |-> "BAD", value |-> 0, len |-> 0]

Hs(user, ts, nonce) == [user |-> user, ts |-> ts, nonce |-> nonce]

\* A request; fields a kind of request does not have are 0 / empty.
Req(kind, prefix, http11, size, policyLen, headers, hdrLen, body, rawLen, hs, frames) ==
    [kind |-> kind, prefix |-> prefix, http11 |-> http11, size |-> size,
     policyLen |-> policyLen, headers |-> headers, hdrLen |-> hdrLen,
     body |-> body, rawLen |-> rawLen, hs |-> hs, frames |-> frames]

NoHs == Hs("none", 0, "none")

\* A REFLEX magic handshake (78 bytes) of user u at time ts, then frames.
Magic(u, ts, nonce, frames) ==
    Req("magic", "RFXL", FALSE, 78, 0, <<>>, 0, "none", 0, Hs(u, ts, nonce), frames)

\* A magic client that stops after 70 bytes.
MagicTruncated ==
    Req("magic", "RFXL", FALSE, 70, 0, <<>>, 0, "none", 0, Hs("u1", 1, "n9"), <<>>)

\* A REFLEX-HTTP handshake: POST with a Content-Length header and a
\* {"data": base64} body of 72 raw bytes.
HttpHeaders == << [line |-> "POST /api HTTP/1.1\r\n", num |-> 1],
                  [line |-> "Host: x\r\n", num |-> 0],
                  [line |-> "Content-Length: 108\r\n", num |-> 108] >>
HttpReflex ==
    Req("http", "POST", TRUE, 161, 0, HttpHeaders, 53, "ok", 72,
        Hs("u1", 1, "n3"), <<DataFrame>>)

\* An ordinary browser POST form submission.
WebPost ==
    Req("web", "POST", TRUE, 90, 0,
        << [line |-> "POST /login HTTP/1.1\r\n", num |-> 1],
           [line |-> "Content-Length: 9\r\n", num |-> 9] >>,
        81, "badjson", 0, NoHs, <<>>)

\* "GET / HTTP/1.1\r\nHost: x\r\n\r\n" (27 bytes) and a longer GET.
WebGetShort == Req("web", "GET ", TRUE, 27, 0, <<>>, 0, "none", 0, NoHs, <<>>)
WebGetLong == Req("web", "GET ", TRUE, 80, 0, <<>>, 0, "none", 0, NoHs, <<>>)

MC_Requests ==
    { Magic("u1", 1, "n1", <<PadFrame, DataFrame>>),
      Magic("u1", 1, "n2", <<DataFrame, TimingFrame, UnknownFrame, BadFrame>>),
      Magic("u2", 1, "n4", <<>>),
      Magic("u1", 2, "n5", <<>>),
      MagicTruncated, HttpReflex, WebPost, WebGetShort, WebGetLong }

\* Connections are interchangeable.
MC_Symmetry == Permutations(Conns)

MC_WebPost == {WebPost}
MC_WebGetShort == {WebGetShort}
MC_HttpReflex == {HttpReflex}
MC_BigPad == {Magic("u1", 1, "n1", <<BigPadFrame, DataFrame>>)}
MC_SameMagic == {Magic("u1", 1, "n1", <<>>)}

\* A session client with control and DATA frames, and a short GET.
MC_LiveRequests == { Magic("u1", 1, "n1", <<PadFrame, DataFrame, DataFrame>>), WebGetShort }
=============================================================================
