# TLA+ models of the REFLEX inbound

This directory holds TLA+ specifications of the REFLEX proxy inbound in
`src/Reflex-networkProject-main/xray-core`. It also holds the TLC
configurations that check them and the TLAPS proofs about them.
`PROJECT.json` lists, for each definition, the source lines it models, and
for each run, what it checks.

## The system

REFLEX accepts TCP connections on a shared port. For each connection it
decides whether the peer is a REFLEX client or ordinary web traffic. A
REFLEX client gets an authenticated, encrypted, traffic-shaped tunnel. Any
other connection is relayed to a local fallback web server.

| Part | Source | State | Operations |
|---|---|---|---|
| Frame codec and Session | `proxy/reflex/session.go` | `writeNonceCount`, `readNonceCount`, `readSeen` under `s.mu` | `NewSession`, `WriteFrame`, `ReadFrame` |
| Traffic profile engine | `proxy/reflex/morph.go` | the `Profiles` registry; per profile `nextPacketSize` and `nextDelay` under `p.mu` | `GetPacketSize`, `GetDelay`, `SetNext*`, `AddPadding`, `WriteFrameWithMorphing`, `ApplyControlFrame`, `CreateProfileFromCapture` |
| Peek demultiplexer | `infra/conf/reflex.go` `Process` | a `bufio.Reader` per connection | `Peek(64)`, `isReflexMagic`, `isHTTPPostLike` |
| Handshake and session loop | `infra/conf/reflex.go` | the user list (read-only) | `handleReflexMagic`, `handleReflexHTTP`, `processHandshake`, `handleSession` |
| Fallback relay | `infra/conf/reflex.go` `handleFallback` | the dialled target, two pumps | dial, two `io.Copy` pumps, return on the first to finish |

The parts interact as follows:
- Every connection runs its own task.
- The tasks share one object: the handler's default profile. `New` takes it
  from the process-wide `Profiles["http2-api"]`.
- Each connection's control frames write that profile's overrides.
- Each connection's morphed replies consume those overrides.
- Inside one connection, the Session is shared by the reader (the session
  loop) and the writer of the replies.

What makes the system hard:
- Concurrent writers on one Session. The lock covers only taking the
  counter.
- An active network that drops, copies, reflects and forges frames.
- Connections interleaving on the shared profile.
- Clients that send short requests, or half-close.
- Fixed-width length fields.
- The handshake freshness window.

## Modules

| Module | Models | Variables |
|---|---|---|
| `ReflexSession` | both Sessions of one connection, and the network between them | write/read counters per end, `reserved` (counter taken, frame not yet written), `wire` per direction, `seen`, `accepted`, `failed` |
| `ReflexSessionProofs` | the TLAPS proofs about `ReflexSession` | none |
| `ReflexProfile` | `TrafficProfile` and its operations, as step predicates | `nextPacketSize`, `nextDelay` |
| `MC_ReflexProfile` | the sampling loop and `CreateProfileFromCapture`, each against a reference | `dist`, `capture` |
| `ReflexInbound` | the handler, with N connection tasks over the shared profile (EXTENDS ReflexProfile) | `req`, `pc`, `clientEof`, `now`, `inFrames`, `upLen`, `replies`, `outcome`, `acceptedAt`, and the ghost bags `appliedSizes` and `replySizes` |
| `ReflexFallback` | `handleFallback` after a successful dial: pump A, pump B, the handler waiting on `errc`, the client and the fallback server | `sent`, `bufRem` (peeked bytes still in the `bufio.Reader`), `sock`, `targetIn`, `targetHalf`, `respOut`, `respWritten`, `clientIn`, `clientFin`, `serverFin`, `connClosed`, `targetClosed`, `aDone`, `bDone`, `errc`, `returned` |
| `ReflexInboundProofs` | the TLAPS proofs about `ReflexInbound` (and the lemmas on `Sample` and `Draws` of `ReflexProfile`) | none |
| `ReflexFallbackProofs` | the TLAPS proofs about `ReflexFallback`, its refinement of `ByteRelay` included | none |
| `ByteRelay` | the abstract service the fallback relay promises: an ordered, gap-free pipe in each direction that may close and lose what is in flight | `written`, `delivered`, `eof`, `upOpen`, `answered`, `received`, `downOpen` |
| `ReflexFallbackRefinement` | the refinement mapping from `ReflexFallback` to `ByteRelay` | none |
| `AuthChannel` | the abstract service a Session promises: an authenticated, ordered channel that may lose messages | `sent`, `delivered`, `closed` |
| `ReflexSessionRefinement` | the refinement mapping from `ReflexSession` to `AuthChannel` | none |
| `ReflexSessionRefinementProofs` | the TLAPS proof of the refinement | none |
| `MC_ReflexSession`, `MC_ReflexInbound`, `MC_ReflexFallback` | the model values and data of the runs | none |

### ReflexSession: how the model corresponds to the code

`WriteFrame` is two actions, because `s.mu` is released between them:
- `WriteFrameReserve`: lines 53-56, taking the counter and incrementing it.
- `WriteFrameEmit`: lines 58-77, sealing and writing the frame.

`ReadFrame` is three actions:
- `ReadFrameOpenFails`: a length, read or AEAD failure.
- `ReadFrameReplayDetected`: the check at line 122.
- `ReadFrameAccept`: lines 126-133.

The AEAD is modelled by what it does. Both ends use one key and nothing
binds the direction, so `Open` succeeds exactly on frames that some `Seal`
produced, in either direction. A frame is therefore represented by its
sender, its counter and whether it is genuine.

The attacker has three actions, `Drop`, `Inject` and `Forge`. Together they
take at most `MaxAdversary` steps.

### ReflexProfile

Weights are integers in units of `1/Scale`. `rand.Float64()` is one of
`Scale` equally likely midpoints `(2k+1)/(2*Scale)`. These points never fall
on a bucket boundary, and a boundary has probability 0 for the real draw.
The `r <= cumsum` walk is therefore exact in this discretisation.

`AddPadding` is modelled on lengths: it returns the payload length when
`target <= 0`, and `target` otherwise. Payload contents are not modelled.
`ApplyControlFrame` abstracts a payload to its length and the integer its
leading bytes encode.

`CalculateDistribution` (lines 213-261 of `morph.go`) does two things:
- it sorts the distinct values;
- it gives each value the weight `count * Scale / total`, truncated.

`CreateProfileFromCapture` applies it to the sizes and to the delays. The
`profile_sampling` run samples the built profile with the same
`GetPacketSize` walk as the handler.

### ReflexInbound

A client is a request record with these parts:
- what its first 64 bytes say (the prefix, and whether `HTTP/1.1` appears);
- how many bytes it sends before it waits;
- its header lines, as real strings;
- its body verdict and handshake fields (user, timestamp, nonce);
- the frames it sends after the handshake.

`kind` is what the client really is, which the server only guesses.

A read of `n` bytes has three cases:
- it proceeds when the client has sent `n` bytes;
- it fails short when the client has half-closed first;
- otherwise it blocks, and the action is not enabled.

The connection's task runs through these `pc` phases:

    peek -> magic | http | fallback -> handshake -> session -> upstream -> morph_size -> morph_delay -> session
                                                         \-> done

The Content-Length test is the code's own test on the real header strings:
`SubSeq(line, 1, 15) = "Content-Length"`.
It never matches, because it compares 15 bytes with a 14-byte literal. So
no REFLEX-HTTP handshake reaches a session, in the code or in the model.
A unit test of the parser shows this, and no run is spent on it; it is
listed as a hazard.

`ReflexSession` allows several writers. `WriteFrame` releases `s.mu`
before it writes, so two writers can emit counter 1 before counter 0, and
the peer then fails the session. `handleSession` is the only writer in the
handler. `session_main` checks `HonestChannelNoFalseReject` with one
writer. Its mutant loses the counter increment.

`WriteFrameWithMorphing` is two actions, because it takes the profile lock
twice:
- `MorphWrite`: `GetPacketSize`, `AddPadding` and `WriteFrame`.
- `MorphDelay`: `GetDelay` and the sleep.

Other connections may act between the two.

The upstream of a DATA frame has two steps:
- `SessionData` dispatches the frame and enters the phase `upstream`.
- `UpstreamReturn` is the return of `ReadMultiBuffer`. It either fails and
  goes back to the loop, or returns a payload whose length is in `UpLens`.

A returned payload goes to the morphed write. Nothing the client does can
end the wait in `upstream`. This is the code: `ReadMultiBuffer` has no
deadline and is not tied to the client connection.

### ReflexFallback

The model starts after the dial to the fallback server has succeeded. The
dial failure and the missing fallback are both in `ReflexInbound`. Bytes are
chunks numbered in stream order. The model has these actions:
- `PumpACopy`: one read of `io.Copy(target, wrapped)`. `preloadedConn.Read`
  serves the `bufio.Reader` first and the socket after it, so the action
  takes from `bufRem` before `sock`.
- `PumpAEnd`: the end of that copy. It finishes on EOF or on an error,
  calls `CloseWrite` and sends the result on `errc`.
- `PumpBCopy` and `PumpBEnd`: the same for the other direction. The end
  calls `wrapped.Close()`.
- `HandlerReturn`: the handler takes the first result from `errc` and
  returns. Its deferred `target.Close()` then runs.
- The two ends are `ClientSend`, `ClientCloseWrite`, `ServerWrite` and
  `ServerClose`.

`errc` has capacity 2 and only two values are ever sent, so a send never
blocks. The model's `errc` is a sequence of at most two results.

`ByteRelay` says what the relay promises, without buffers or goroutines.
Each direction hands its receiver the next chunk its sender wrote, while
that direction is open (`Forward`, `Return`). The request direction may
close with an EOF to the server only once the server has everything the
client wrote, and the client writes nothing after that (`HalfClose`).
Either direction may close without that (`CloseDown`, `Teardown`), and what
was in flight is then lost. `ReflexFallbackRefinement` maps the model onto it:
- `upOpen` is `~aDone /\ ~targetClosed`;
- `downOpen` is `~bDone /\ ~connClosed /\ ~targetClosed`;
- the other variables are the streams and counts of the same name.

Under this mapping:
- `PumpACopy` is `Forward`;
- `PumpAEnd` on the open target is `HalfClose`;
- `PumpBCopy` is `Return`;
- `PumpBEnd` on open sockets is `CloseDown`;
- `HandlerReturn` is `Teardown`.

The abstract spec admits the response lost by `fallback_half_close`: the
relay may close the response direction early. What it rules out is
reordering, gaps, delivery after close, and an early EOF to the server.

## Runs

| Run | Expect | What it shows |
|---|---|---|
| `session_main` | pass | `ReplayAndReorderRejected`: the attacker drops, copies and forges. Even so, the frames accepted from one sender have strictly increasing counters. `HonestChannelNoFalseReject`: with no attacker and one writer, no genuine frame is rejected. `AuthChannelRefined`: every behaviour, seen through the mapping, is a behaviour of `AuthChannel`. `NonceSealedOnce` (an action property): no write seals a counter that its endpoint sealed before. |
| `session_reflection` | violation | A reflected frame of the endpoint's own is accepted. The same cause, one key with counters from 0 in both directions, also makes both ends seal with nonce 0. |
| `profile_sampling` | pass | `SampleMatchesReference` holds for every distribution of up to 3 buckets with weights in fifths, including sums below and above 1. `CaptureProfileReproducesCapture`: for every capture of up to 4 samples over 3 sizes, the built profile is sorted. Sampled, it gives each size exactly its frequency in the capture. |
| `inbound_main` | pass | `SessionRequiresValidHandshake`: only a configured user with a timestamp in the window at the moment of the check gets a session, and replies go only to such sessions. `OverrideOneShot`: across two connections sharing the profile, each padding override shapes at most one reply. |
| `inbound_web_post` | violation | A browser `POST ... HTTP/1.1` is dropped with an error instead of falling back. |
| `inbound_short_request` | violation | A 27-byte GET never reaches the fallback. It hangs in `Peek(64)`, or is closed silently at EOF. |
| `inbound_handshake_replay` | violation | A replayed handshake opens a second session within the window. |
| `inbound_big_padding` | violation | A PADDING_CTRL of 65530 makes the next reply's uint16 length field wrap. |
| `inbound_liveness` | pass | `ClientCloseEndsTask`: the connection has fair tasks and an upstream that eventually answers. A client that half-closes then always sees its task end, whether the task is in the peek, the handshake or a session with DATA round trips. |
| `inbound_upstream_stall` | violation | An upstream that never answers keeps the session loop in `ReadMultiBuffer`, although the client has closed. |
| `fallback_main` | pass | `RequestRelayedInOrder`: the fallback server reads the request from its first peeked byte, in order. When it sees `CloseWrite`, it has read all the client sent. `RelayEnds`: once either end closes, the handler returns and both sockets close. Both pumps deliver their result and end. `RelayRefined`: the relay implements `ByteRelay`. |
| `fallback_half_close` | violation | A client half-closes after its request. Pump A finishes first, and the handler returns and closes the target, so the response is lost. |

Each property of a passing run has a mutant in `PROJECT.json`: a plausible
bug in the modelled code that the run catches. Examples are a lost counter
increment, `<` in place of `<=` in the replay check, an off-by-one in the
timestamp window, an override that is not cleared, and a sampling loop that
does not return early.

### Bounds

`session_main` uses `MaxWrites = 3` and `MaxAdversary = 2`:
- 3 writes per end give two genuine frames to reorder and a third to follow
  them;
- 2 attacker steps suffice for drop-then-inject and for inject-twice.

`inbound_main` uses 2 connections, 9 request kinds, a window of 1 and a
clock of `0..2`:
- every branch of `Process`, `handleReflexMagic`, `handleReflexHTTP`,
  `processHandshake` and the session loop is reached (TLC's coverage shows
  every action firing);
- a timestamp is stale at some clock values and fresh at others;
- the two connections share the profile, so one's override can be consumed
  by the other.

The connections are symmetric, and the run uses that symmetry. It is sound
there, because its properties are invariants.

The liveness runs use one connection and a clock of `0..1`, with no
symmetry. The client sends a PADDING_CTRL and two DATA frames, so the loop
goes through the upstream and the morphed write twice. A short GET is the
other choice. Liveness needs no second connection: only the shared profile
couples connections, and it never blocks.

`fallback_main` uses a request of 4 chunks, 2 of them peeked, and a
response of 3 chunks:
- pump A reads buffered and socket bytes, with the client still sending;
- either end can close first.

`profile_sampling` enumerates two things:
- 258 distributions;
- every capture of 1 to 4 samples over 3 sizes, 120 captures.

It uses `Scale = 60`, so weights in fifths and the frequencies of 1 to 4
samples are both exact.

### Fairness

`FairSpec` makes each connection's task weakly fair. A goroutine whose read
is satisfied is eventually scheduled. Clients get no fairness: a client may
wait forever, and that is exactly the case the `inbound_short_request` run
is about.

`FairSpec` leaves the upstream unfair: it may never answer, which is the
`inbound_upstream_stall` run. `FairUpstreamSpec` adds weak fairness of
`UpstreamReturn`. The code cannot guarantee this; it is the assumption
under which `inbound_liveness` holds.

In `ReflexFallback`, both pumps, the handler and the fallback server are
weakly fair. The client is not fair, so it may never half-close.
`RelayEnds` therefore starts from the first close.

## Proofs (TLAPS)

`ReflexSessionProofs` proves, for all values of the constants (any writer
set, any `MaxWrites`, any `MaxAdversary`):

- **`TypeCorrect`** (`Spec => []TypeOK`). The proof is by `TypeOKStep`, with
  one step per action. It rests on lemmas about `InsertAt`, `RemoveAt` and
  `Append`.
- **`ReplayProtection`** (`Spec => []ReplayAndReorderRejected`). The
  property is not inductive by itself: a step of `ReadFrameAccept` compares
  with `readNonceCount`, not with the accepted sequence. The inductive
  invariant `IInv` adds `ReadStateInv`, which has three parts:
  - `readSeen` holds exactly when something was accepted;
  - `readNonceCount` is the counter of the last accepted frame;
  - the accepted counters strictly increase.

  Under `IInv`, appending a frame whose counter exceeds `readNonceCount`
  keeps the sequence increasing (lemma `AppendIncreasing`). `IInv` was
  checked with TLC on the `session_main` instance before it was proved.

- **`SessionRefinesAuthChannel`** (`Spec => AC!Spec`). The mapping
  (`ReflexSessionRefinement`) has three parts:
  - `sent` is the set of sealed frames, each as its sender and counter;
  - `delivered` is what `ReadFrame` returned to each end;
  - `closed` is the set of failed ends.

  The steps map as follows:
  - `WriteFrameEmit` is `Send`;
  - `ReadFrameAccept` is `Deliver`;
  - the two failing reads are `Close`;
  - the reservation and the attacker's steps are stutters.

  `IInv` alone cannot show that an accepted frame is in `sent`. Two more
  facts are needed:
  - `WireInv`: every frame on the wire was sealed (it is in `seen`) or is a
    forgery, which the AEAD rejects;
  - `ReservedInv`: a reserved counter is below the write counter.

  `RInv == IInv /\ WireInv /\ ReservedInv` is the inductive invariant.

- **`NoFalseReject`** (`Writers = {w0} => (Spec => []HonestChannelNoFalseReject)`).
  - The inductive invariant `HInv` adds `HonestInv` to `TypeOK`. While the
    attacker has done nothing, each end's `Honest(e)` holds:
    - the frames in flight towards it are sealed;
    - their counters increase along the wire;
    - they lie above the last counter it read and below its peer's write
      counter, and below a counter its peer holds reserved.
  - The hypothesis of one writer is what makes the invariant inductive.
    With one writer, the frame of a later reservation is emitted later.
  - With two writers the property is false. A writer that reserved later
    can emit first, and the earlier frame is then rejected as a replay.
    That case does not arise in this code. `handleSession` is the only
    writer on a connection, and the `session_main` run has one writer.
  - An attacker step makes `HonestInv` hold vacuously from then on, since
    `adversarySteps` never decreases.

- **`NonceUnique`** (`Spec => NonceSealedOnce`, an action property). It
  holds for any writer set.
  - The inductive invariant `NInv` adds `NonceInv` to `TypeOK`. Every
    sealed counter is below its endpoint's `writeNonceCount`. A counter a
    writer holds between reservation and write is also below it. No sealed
    frame of that endpoint carries it, and no other writer holds it.
  - `WriteFrameReserve` keeps this because it reads and increments
    `writeNonceCount` in one step, as the code does under `s.mu`.
  - `WriteFrameEmit` keeps it because the counter it seals was held by no
    other writer.
  - The action property then follows from `NInv` in the state before the
    step.
  - TLC checked `NInv` with two writers before it was proved. Both
    directions share one key and count from 0, so the nonce is unique only
    per sender. `session_reflection` shows the consequence.

`AuthChannel` lets an endpoint receive a message that it sent itself. This
is deliberate: the code does that (see `session_reflection`). The
refinement therefore shows authenticity and order, and not that a message
came from the other end.

`ReflexInboundProofs` proves three results for every value of the
constants. The results rest on two facts from `InboundAssumption`:
- a request's frames are `Frame` records;
- its handshake timestamp is an integer, as the code's int64 is.

The results:

- **`InboundTypeCorrect`** (`Spec => []TypeOK`).
- **`SessionGuarded`** (`Spec => []SessionRequiresValidHandshake`).
  - Both use the inductive invariant `IInv`. It is `TypeOK`, plus
    `nextPacketSize \in Nat`, plus the property itself.
  - The property is inductive as it stands. `acceptedAt` is set only by
    the `ProcessHandshake` step that passes the window and user checks.
    `closed` is reached only from `session`. Replies are appended only in
    `morph_size`.
  - The type part needs `nextPacketSize` to be a natural number, because
    the reply length is `AddPaddingLen` of the size that `GetPacketSize`
    returns.
  - It also needs lemma `DrawsInt`: every sampled size is a bucket value.
    This rests on `SampleInRange`. The `Min` that the sampling loop's first
    reached bucket stands for exists (`MinIsLeast`, from the library's
    well-foundedness of `<` on `Nat`).
  - Lemma `FinishIInv` covers the many steps that only end a task with an
    outcome other than `closed`.
- **`OverrideIsOneShot`** (`PositiveSizes => (Spec => []OverrideOneShot)`).
  - Its hypothesis `PositiveSizes` says the profile has buckets and its
    sizes are positive. The built-in profiles satisfy it, and so does the
    run's `http2-api` profile.
  - Without it the property is false. For an empty profile,
    `GetPacketSize` returns 0 and the reply keeps the upstream length,
    which is no override.
  - The inductive invariant `OInv` adds `OverrideBudget` to `IInv`. For
    each length `n` that the profile cannot sample, it states
    `Copies(n, replySizes) + Pending(n) <= Copies(n, appliedSizes)`, where
    `Pending(n)` is 1 while `n` is still the unconsumed override.
  - `MorphWrite` trades the pending 1 for a reply.
  - A positive `PADDING_CTRL` adds one copy to each side.
  - A zero `PADDING_CTRL` clears the pending 1.

`ReflexFallbackProofs` proves, for any `ReqChunks`, `Peeked`, `RespChunks`
and `ServerCloses`:

- **`FallbackTypeCorrect`** (`Spec => []TypeOK`).
- **`RequestInOrder`** (`Spec => []RequestRelayedInOrder`).

The inductive invariant `FInv` conjoins `TypeOK` with three parts:
- `StreamInv` says the request is split, in order and without loss, into
  what the target received, the peeked bytes still buffered and the bytes
  in the socket: chunk `i` of each is the next number.
- `CloseInv` ties the shutdowns to the streams:
  - the target is half-closed only after pump A ended with everything
    drained;
  - the server answers only after the whole request arrived.
- `ErrcInv` counts the results in `errc` against the pumps that ended and
  the handler's one receive.

The step of `PumpACopy` moves the head of one queue onto `targetIn` (lemma
`MoveHead`). `PendingQuiet` shows that while bytes are pending, nothing has
been closed or answered. `FInv` was checked with TLC on four instances
before it was proved.

- **`FallbackRefinesRelay`** (`Spec => RelayRefined`, that is
  `Spec => Relay!Spec`).
  - The inductive invariant is `RInv == FInv /\ RespInv`. `RespInv` is the
    response counterpart of `StreamInv`: what the client received and what
    pump B has not read are, in order, the chunks the server wrote. While
    the target is open, nothing is missing from them. The target closes
    only together with the client connection.
  - `RelayStep` maps each action, using `RInv` before and after the step:
    - `PumpACopy`'s chunk is the next one of the request, by `StreamInv`
      after the step;
    - pump A's `CloseWrite` comes after everything sent, because `Drained`
      holds after the step;
    - the client sends no more after that, by `CloseInv` together with
      `targetClosed => connClosed`.
  - TLC checked `RespInv` and the refinement with `ServerCloses` TRUE and
    FALSE before they were proved.

Only TLC checks the rest:
- the liveness properties `WebClientAnswered`, `ClientCloseEndsTask` and
  `RelayEnds` (fairness and `ENABLED` are out of the prover's reach);
- the sampling loop and the capture against their references in
  `MC_ReflexProfile` (they are folds over sequences; the prover cannot
  show what a fold computes for every input).

The properties of the violation runs are false of the code; TLC's
counterexamples are the result there.
`ReplyLengthFieldExact` gets no theorem. The wrap depends only on the
`PADDING_CTRL` value the client sends, and the code never bounds it. So
any hypothesis that makes the field exact rules out exactly the case
`inbound_big_padding` shows.

## Not modelled

- X25519, HKDF and ChaCha20-Poly1305, which are taken as ideal.
- The JSON config `Build`, a field copy.
- Delays as time. A `TIMING_CTRL` value is a u64 of milliseconds. Its
  product with `time.Millisecond` needs 64-bit integers, which TLC does not
  have. The overflow and the length of a cross-connection stall remain
  hazards with no property.
- Xray's dispatcher and pipe (not under `src/`). Links that are never
  released are therefore a hazard with no property.
- Byte-level interleaving of two writers' `Write` calls. Only one task
  writes to a connection, and the model emits a frame atomically.
- Write failures of the client connection. They change no handler state.
- The grading script and the documents.

## Plan for later work

1. Delays as time, on a scaled clock, for the cross-connection stall.
