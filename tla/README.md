# Specifications of libwebtransport

libwebtransport wraps Google's QUICHE: it runs a WebTransport server and a
WebTransport client over QUICHE's QUIC and HTTP/3 stack, and gives the
application sessions, streams, datagrams and intervals through callbacks. These
TLA+ modules model the library's own logic, which is small but easy to get
wrong: who may call what inside which callback, what happens when the peer acts
in between, what an alarm finds when it fires, what the socket loop leaves
behind; and the video path of the examples, from the packetizers to the web
pages. QUICHE, BoringSSL, the kernel, the network and the browser are external:
they are modelled by what the code uses of them.

Contents: [the system](#the-system), [the modules](#the-modules),
[the runs](#the-runs), [the proofs](#the-proofs),
[findings](#findings), [what is not modelled](#what-is-not-modelled),
[what is left](#what-is-left).

## The system

Server and client are each single-threaded: one event loop runs alarms and
socket events, and everything else (wrappers, application callbacks) runs inside
those. There are no locks. What is hard is therefore not data races but
*re-entrancy* (the application calls the library inside a callback, and the
client may even run its event loop inside the event loop), *ownership* (QUICHE
frees sessions and streams while the application keeps their pointers),
*one-time notifications* (streams, readable edges and FINs are announced once)
and *copies of state* (`session_closed_`, `connected_`, polled answers).

| Part | Source | State it keeps | Operations | Interacts with |
|---|---|---|---|---|
| Server sessions | `web_transport_server.cc` `SessionWrapper` | `onready_called_`, `session_closed_`, `should_reject_`, `reject_error_code_`, datagram callback, interval alarm | `OnSessionReady`, `RejectSession`, `SendDatagram`, `setInterval`, `onDatagramRead`, `OnDatagramReceived`, `OnIncoming*StreamAvailable`, `OnSessionClosed` | QUIC session (visitor), application callbacks |
| Server streams | `StreamWrapper` | read callback, interval alarm | `Send`, `setInterval`, `onStreamRead`, `OnCanRead` | QUIC stream (visitor), application |
| Backend | `web_transport_server_backend.cc` | the function that makes a wrapper | `ProcessWebTransportRequest`, `FetchResponseFromBackend` | QUIC dispatcher, `Server` |
| Intervals | `web_transport_*_interval.cc` | the alarm to set again | `OnAlarm` | event loop, owner of the alarm |
| Server socket and loop | `web_transport_server_core.cc` `QuicServer` | registration of the socket, `more_to_read`, the dispatcher | `CreateUDPSocketAndListen`, `HandleEventsForever`, `OnSocketEvent` | event loop, dispatcher, kernel |
| Server object | `web_transport_server.h` `Server` | `server_`, `backend_`, `server_initialized_`, callbacks | constructor, `InitializeServer`, `Listen`, destructor | owns the parts above |
| Client | `web_transport_client.cc` | `client_`, `connected_`, `stream_`, two polling alarms, callbacks | `connect`, `runEventLoop`, `disconnect`, destructor, the two alarms | QUIC client, event loop, application |
| Client session | `web_transport_client_session.cc` | callbacks, interval alarm | creation by the poll, `OnSessionClosed`, `OnIncomingBidirectionalStreamAvailable`, datagrams | QUIC session (visitor) |
| Client stream | `web_transport_client_stream.cc` | read callback, interval alarm | `Send`, `OnCanRead` (copy loop) | QUIC stream (visitor) |
| Certificate verifier | `web_transport_client_verify.cc` | pinned file, CA locations | `VerifyCertChain`, `VerifyProof` (a stub) | BoringSSL, QUIC handshake |
| Facade | `web_transport.cc` | wrappers made for each callback | forwards everything | all of the above |
| H.264 | `examples/media_stream/h264_*` | held parameter sets; `fua_buffer_` | `Payload`, `EmitNALUs`, `CreateFUAPackets`, `ParseBody` | an application that sends, a client that writes a file |
| VP8 and RTP | `vp8_*`, `rtp_packet.cc` | `picture_id_` | `Payload`, `Unmarshal` of both | an application, other senders |
| Media servers | `examples/media_*_js/server.cc` | the UDP socket, an interval for each viewer | the interval callback, `Frame::serialize` | RTP source, server streams and sessions |
| Web pages | `examples/media_*_js/index.html` | what was read and not used, the picture being collected, `lastSequenceNumber` | the read loops, `processRTPPacket`, `assembleAndDecodeFrame` | WebTransport API, decoder |

What makes each part correct:

- *Sessions*: the flag `session_closed_` tells the truth; a refusal closes the
  session, once, however it was expressed and whatever the peer does; nothing is
  served after the end; an announced stream gets its wrapper; the library never
  calls back about something freed; an interval repeats until its owner goes.
- *Socket*: when the thread waits, everything that still needs work (a packet in
  the socket, a buffered CHLO, a blocked write) has an event that will come; the
  number of sessions created per socket event is limited.
- *Server object*: what points to the backend goes before the backend.
- *Client*: polling alarms never outlive the client they ask; each connection
  comes to be reported as open or failed, an error is reported once, and a
  failure ends the event loop; the end of an open session is reported.
- *Streams*: bytes reach the application in order, once, and none that arrived
  while a callback was registered stays behind; an empty read is the FIN.
- *Verifier*: success only after the checks of the mode; no certificate, store,
  context or stack leaks or is freed twice whatever fails.
- *Packetizers*: the scan for start codes finds every unit once, in order, and stays
  in the buffer; no payload is larger than the MTU; the parameter sets that go with
  a picture are the last ones before it, go out once, and are not forgotten while
  they wait for a packet that has room; a depacketizer gets out what went in; what
  loss damages ends with the unit it damages.
- *Media servers and pages*: the page stays at the frame boundaries of a stream
  that is cut anywhere and drops whole frames; of datagrams it makes no picture
  that mixes two, and it misses none that arrives whole.

The hazards behind these are in `PROJECT.json`, each at its line.

## The modules

| Module | Models |
|---|---|
| `WebTransportServer` | server sessions, streams, backend and intervals |
| `SessionLifecycle` | the abstract life of a session, which `WebTransportServer` implements |
| `WebTransportServer_proofs` | the proofs about both |
| `QuicServer`, `QuicServer_proofs` | the server's socket, dispatcher allowance and event loop, and the proofs |
| `ServerLifecycle` | the objects a `Server` owns, from construction to destruction |
| `Client`, `Client_proofs` | connecting, polling, the client session, disconnecting, and the proofs |
| `StreamRead` | `OnCanRead` of both sides, byte by byte |
| `AtomicRead` | what an application is promised of reading, which `StreamRead` implements |
| `StreamRead_proofs` | the proofs about both |
| `ProofVerifier`, `ProofVerifier_proofs` | the verification of a certificate chain, and its proofs |
| `H264Payloader` | one call of `Payload`: the scan, the held parameter sets, aggregation, fragments |
| `H264Media`, `H264Media_proofs` | `H264Payloader`, a network that loses and reorders, the client's depacketizer, and the proofs about all three |
| `VP8Media` | `VP8Payloader`, `RTPPacket::Unmarshal` and `VP8Packet::Unmarshal` |
| `MediaStream`, `MediaStream_proofs` | the application that chooses between the two codecs, and proofs about it and about VP8 |
| `MediaRelay`, `MediaRelay_proofs` | an RTP source, the media servers, both web pages, and the proofs |
| `MC*` | instances for TLC |

`MediaStream` composes `H264Media` and `VP8Media`; `H264Media` composes the
packetizer with its network and its receiver; `MediaRelay` composes server,
transport and page.

Definitions that end in `_Something` after the name of another definition, under
a comment "Mutant of", are variants that a plausible bug would make of it. They
are part of no specification: TLC is run with them in place of the original to
show that the property which guards against that bug notices it.

### WebTransportServer

`callback` and `callee` are the call in progress and the object it is about.
Every action that stands for an event of QUICHE or the loop requires
`callback = "none"` (the loop is single-threaded); every action of the
application requires that one of its callbacks runs and that it was handed the
object. `OnSessionClosed` is the exception: a write in a callback may fail and
close the connection right there, so it may happen inside a callback of the
application, too. That is what makes the tests in `OnSessionReady` and
`RejectSession` necessary, and the runs fail if one of them is dropped.

- `ProcessWebTransportRequest`, `RefuseRequest`: the backend with and without
  `:path`; then `OnSessionReady` up to the call of the session callback, and
  `SessionCallbackReturns` for the rest of it.
- `RejectSession`, `SendDatagram`, `onDatagramRead`, `setInterval`: what the
  application may call, at any point of any of its callbacks.
- `OnDatagramReceived`, `OnIncomingStreamAvailable`, `AcceptIncomingStream` (one
  round of the accept loop), `NothingToAccept`, `OnSessionClosed`: the visitor.
- `OnAlarm`, `CallbackReturns`: an alarm fires and, *after* the callback, is set
  again, as in `IntervalAlarmDelegate::OnAlarm`.
- `Destroy`: QUICHE frees a wrapper and with it the alarm it owns.

`handlers` is chosen at the start: all combinations of registered callbacks are
explored, since each absent one is a branch of the code. `closes` keeps the codes
given to `CloseSession` of the QUIC session, so that "closed once" is about calls
and not about a flag. `refused` is a history variable.

Obligations of the application which the model takes for granted: it does not use
an object after it was freed, and does not replace an interval or datagram
callback inside that very callback (both destroy the function that is running;
see the hazards).

### SessionLifecycle

What a user of the server may rely on: absent, deciding (one session at a time),
open, over, gone; service only starts on an open session; a session is freed only
when over and not being served. `WebTransportServer` maps `life` to a function of
wrapper, transport and call in progress (`Life`) and `serving` to the session that
the running visitor call serves (`Serving`).

### QuicServer

One action per step of `OnSocketEvent`; packets arrive, the send buffer drains and
writes block between any two steps. `edgeTriggered` is chosen at the start: TRUE is
QUICHE's libevent loop, FALSE its poll loop, where a reported event leaves the
registration until the code arms it again. `registered` is the registration (or,
edge-triggered, the edges that have not been reported), `artificial` what
`ArtificiallyNotifyEvent` asked for. The dispatcher is its allowance (`allowed`),
its buffered CHLOs and its sessions; `fresh` counts the sessions of one event.

### ServerLifecycle

`InitializeServer` in two steps (backend, then QUIC server), `exit(1)` in between,
`Listen`, and the destructor written by the compiler: members in reverse order.

### Client

`stack` holds the calls in progress, because they nest: an API call runs the event
loop, which runs an alarm, which calls the application, which may call
`disconnect`, which runs the event loop again. `HandshakeAlarm` and `Poll*` are the
two alarm delegates; the poll is split where it calls the application
(`ErrorCallbackReturns`, `SessionCallbackReturns`), since `connected_ = false` and
the stream callback are assigned after the callback. A stream that QUICHE has freed
is still read by the poll; the model then lets the poll find anything
(`Findings`), which is what reading freed memory can produce.

Obligations of the application: it connects only when no alarm polls for an
earlier connection; it runs the loop only after connecting; it does not call
`disconnect` in callbacks made by objects that `disconnect` destroys.

### StreamRead

A byte is its position. Data arrives in pieces of any size, the application
registers its callback at any moment, and the QUIC stream shows one block at a
time. The server side is one `Read` of everything; the client side is the loop over
`PeekNextReadableRegion`, with its buffer and capacity, one action per round.

### AtomicRead

The promise of `OnCanRead` without its blocks, its buffer and its steps: whatever
arrives is answered once, at a single moment, by one call of the callback with
everything that is there (`Delivers`); without a callback the bytes stay (`Keeps`,
the server) or are lost (`Drops`, the client). `StreamRead` maps `due` to a call of
`OnCanRead` in progress and `taken` to what was consumed less what is still in the
client's buffer, so that the copy loop does not show.

### ProofVerifier

One action per call that may fail, with the objects freed on each way out: the
certificates of the chain and the pinned one, the store, the context, and the stack
of intermediates. That stack may be missing without a failure (`StackIntermediates`:
`sk_X509_new_null` is not looked at), a push that fails only makes it shorter. The BIO
inside `LoadCertificate` is made and freed with no return in between, so it is not
among the objects. `evidence` is what has been established when `valid` is assigned.

### H264Payloader, H264Media

Each action of `H264Payloader` is one turn of the loop of `EmitNALUs`, with the
exit that its unit takes: skipped, held, aggregated, alone or in fragments. The
buffer is a sequence of small numbers, positions count from 0, and the search
(`CodeEnds`, `NextStart`, `Offset`) is that of the code: it begins three bytes on,
looks for a short start code first, and for a long one from the byte before.
`found` is a history of the units; a payload carries the numbers of its units, so
that properties can say which one it is. In `H264Media` datagrams wait in `wire`;
`Lose`, or taking one that is not the first, is a fault, of which `MaxFaults` are
allowed. `ReceiveFragment` appends whatever arrives, as `ParseBody` does, which
looks neither at the start bit nor at sequence numbers.

`ScanIsSplit` compares the units found with the pieces between the start codes of
Annex B: `Codes` are the places of the three bytes 0 0 1, `Starts` and `PieceAt` what
lies between them, without the loop and without the long codes. Each piece that is
not empty has to be found, once, in its place in the order, byte for byte; nothing
else may be found behind the units of earlier calls. A zero in front of a start code
is at the end of its piece, as Annex B allows (`trailing_zero_8bits`); that the code
means to look for it and does not is `LongCodesAreSeen`, under
[findings](#findings). Buffers that begin with other bytes and have a start code
inside their first three (`WellBegun`) are left out: the scan begins three bytes on and
takes those bytes and the code for part of the first unit.

No program in the repository calls `H264Payloader` or `VP8Payloader`: they are a
library for senders, next to the example. The receiver is what `client.cc` of
media_stream does with `H264Depacketizer`. The composition of the two is this
project's, as an application would use them.

### VP8Media

The descriptor and both parsers are operators on sequences of bytes, since the
properties are about bytes: header sizes, bits and wrap-around. `OtherSends` makes
descriptors that `VP8Payloader` never makes (TL0PICIDX, TID, KEYIDX), which
`VP8Packet` parses as well; `RtpPacket` puts sources, an extension and padding
around a payload. The properties put each payload into each of those headers, and
give `VP8Packet` each payload cut short, which is what its errors are for.

### MediaRelay

`source` numbers the packets of an RTP source: pictures of up to `MaxParts`
packets and padding without payload. All viewers' intervals read one UDP socket.
On a stream only the bytes are counted: `ends` says where each frame that `Write`
took ends, `arrived` how far the page has read, `taken` how far it has parsed. A
frame that the page looks for where none begins is made of other bytes, written
as packet 0; that this never happens is a property, not an assumption. `Send`
drops a whole frame when too much waits, as `StreamWrapper::Send` does. Datagrams
are lost (`Lose`) and taken in any order (`ReadDatagram`). `processRTPPacket` is
the page's function: the test for a gap, what is dropped (`Kept`), what goes to
the decoder when a new picture begins (`Flushed`) and at the marker.

## The runs

| Run | Instance | States | Shows |
|---|---|---|---|
| `server_sessions` | 2 sessions, 1 stream, 1 code, 1 datagram, all handler sets, with fairness | 213 033 | `FlagMatchesTransport`, `RefusalTakesEffect`, `NoStreamLeftWaiting`, `NoCallbackOnFreed`, `ClosesOnlyOpenSessions`, `ImplementsLifecycle`, `NoServiceAfterEnd`, `IntervalRepeats` |
| `socket_serves` | 3 clients that send twice, 1 session per event, reads of 2, both loops, with fairness | 237 474 | `TypeOK`, `NoStrandedPacket`, `NoStrandedChlo`, `SessionLimit`, `EveryClientServed`, `EdgeWritesResume` |
| `socket_writes` | 2 clients, both loops, with fairness | - | violates `PendingWritesResume` |
| `client` | 2 connections, 2 streams of the server, all handler sets, with fairness | 43 987 | `TypeOK`, `AlarmsHaveClient`, `OneError`, `AnnouncedAreAccepted`, `PollEnds`, `FailureStopsLoop` |
| `client_end_reported` | 1 connection, 1 stream | - | violates `EndIsReported` |
| `stream_read` | 7 bytes, blocks of 2, 1 byte of extra space, both sides | 1 273 | `TypeOK`, `BytesInOrder`, `NothingStranded`, `EmptyReadIsFin`, `ImplementsAtomicRead` |
| `verify_cert_chain` | chains of 0 to 4, both modes | 161 | `FreesAllOnce`, `SuccessIsEarned` |
| `server_lifecycle` | 1 call of `InitializeServer` | - | violates `BackendOutlivesServer` |
| `media_stream` | 2 buffers for an MTU of 12, 1 fault; 3 VP8 frames, MTUs of 4 and 7 | 190 332 | `TypeOK`, `ScanIsSplit`, `PacketsFitMtu`, `ParameterSetsFresh`, `SetsAreNotForgotten`, `LosslessDelivery`, `DamageIsContained`, `VP8IsUnderstood` |
| `media_scan` | the same | - | violates `LongCodesAreSeen` |
| `media_relay` | 1 viewer, 4 packets, pictures of up to 3, sequence numbers that wrap, both transports, with fairness | 92 724 | `TypeOK`, `StreamInSync`, `PicturesAreNotMixed`, `WholePicturesAreDecoded`, `WrittenIsRead` |
| `media_gaps` | 2 viewers, 3 packets | - | violates `IncompleteIsDiscarded` |

Why the bounds are enough:

- *Sessions and streams.* Wrappers share nothing but the call in progress and the
  `Server`'s callbacks, so interference needs two sessions, one acting inside the
  other's callback. A stream adds the second kind of owner of an alarm. One is
  enough for the accept loop: each stream of a live session is accepted before the
  next event, so the loop never meets two that wait; the proofs are for any number. `handlers` holds the kinds of callbacks that the instance has
  streams for. One rejection code beside the code 0 of the library tells apart who
  closed.
- *Socket.* Three clients against an allowance of one leave CHLOs for two further
  events; reads of two against a buffer of three make full and short reads; the
  second packet of a client meets its session, its buffered CHLO, or neither.
- *Client.* A second connection meets everything the first can leave behind
  (alarms, callbacks, interval alarms, `connected_`). Two streams let one come
  while the other is being accepted, or before there is a visitor.
- *Stream.* Seven bytes in blocks of two, cut anywhere by arrivals, give empty,
  partial and whole first and last blocks, with the FIN on each.
- *H.264.* The first buffer is one of all patterns of zeros and ones of three and
  six bytes, which is what the scan can be confused by (two start codes may touch,
  overlap, or lie in the first bytes), or one or two units of each kind: a
  parameter set of each type, a skipped type, a picture that fits with the sets,
  one that fits alone, one of two and one of three fragments. The second buffer
  replaces a set, takes sets along, or sends fragments. An MTU of 12 makes the
  aggregate of the two sets and a picture of three bytes fit exactly. One fault loses or
  delays any one packet. The units of one buffer beside those of the other let a set
  wait through a picture that is too large and go out behind it.
- *VP8.* Frames of 0, 1, 5 and 13 bytes against fragments with no room, with room
  for exactly one byte, and for several; picture ids that cross 127/128 and
  32767/0 within three calls.
- *Relay.* Four packets hold a picture of three packets and the beginning of
  another, or padding inside a picture; the sequence numbers wrap after the first of them.
  Viewers meet only in the UDP socket: what one takes is, for the other, a packet
  that never came, and a full socket drops packets as well. The proofs are for any
  number of viewers.
- *Counters* (`MaxDatagrams`, `MaxSends`, `MaxQueue`, `MaxPending`, `MaxConnects`,
  `MaxInits`, `MaxChain`, `MaxCalls`, `MaxFaults`, `MaxVP8Calls`, `MaxPackets`,
  `MaxParts`) are bounds of the instance; each is named in its module.

Deadlock is not checked: every instance can really stop (all requests refused, no
packet in flight, the client destroyed, the call returned, the source done).

Fairness, and why the code justifies it:

- *Server*: the wrapper's own code runs on and callbacks return (weak fairness of
  `Progress`); each alarm is run although other events come in between (strong
  fairness of `OnAlarm`), because an iteration of the event loop runs all alarms
  that are due before it looks at the sockets again.
- *Socket*: `HandleEventsForever` never leaves its loop (weak fairness of
  `OnSocketEvent`), and a full send buffer drains.
- *Client*: the same for calls that return and for the two polling alarms. Calls
  that return get strong fairness where an interval callback can interrupt them
  again and again. `Answered` is strong fairness of the server's side: an answer,
  a reset or the idle timeout of QUIC ends the wait. Nothing is assumed of the
  application.
- *Relay*: only the page's script goes on (weak fairness of its reads and of its
  loop): `reader.read` resolves when there are bytes. Nothing is assumed of the
  source, of the intervals or of the network.

## The proofs

`tlapm` checks everything in the `_proofs` modules, for any value of the
constants that satisfies the assumptions of the modules: any number of sessions
and streams, any function from streams to sessions, any codes and bounds
(`SessionsDisjoint`, `SessionOfType`, `BidiType`, `CodesType`, `MaxDatagramsType`);
any number of clients, allowance, read size and kind of event loop
(`MaxSessionsType`, `BatchType`, `BoundsType`); streams, blocks and spare buffer
room of any size (`LengthType`, `BlockSizeType`, `ExtraSpaceType`); chains of any
length (`MaxChainType`); any number of connections and any streams
(`MaxConnectsType`); any buffers and calls for any MTU above 2, with any number of
packets lost or out of turn (`MtuAssumption`, `FramesAssumption`,
`FaultsAssumption`), where no unit has a type that stands for an aggregate or a
fragment in RTP (`UnitTypesAssumption`); any VP8 frames, mtus, picture ids and
number of calls (`VP8Assumption`); any number of viewers, packets and parts, any header and
limits, and any space of sequence numbers larger than the number of packets
(`ConstantsAssumption`).

**WebTransportServer_proofs.** None of the safety properties is inductive alone.
`Inductive` adds to `TypeOK` and `FlagMatchesTransport`:

- `WrapperInv`: a session's wrapper runs `OnSessionReady` first, and is freed only
  after the QUIC session reported its end. Without it, a `RejectSession` that finds
  `onready_called_` false would leave a refused session open.
- `RefusalInv`: whoever was refused is closed; a session that the application holds
  has run `OnSessionReady`. `should_reject_` implies `session_closed_`, which is why
  the deferred rejection in `OnSessionReady` has nothing to do.
- `AcceptInv`: a stream waits only if its session is over or the accept loop is
  about to take it, and the loop finds no stream of a session that ended while it
  ran. The loop of the code does not look at `session_closed_` between two streams;
  this is the reason why it need not.
- `LiveInv`: calls in progress and alarms belong to wrappers that exist.

There is one lemma per action or group of actions that preserves every part
(`RequestStep` ... `DestroyStep`, `NextInductive`), and `CloseEffect` and
`CloseIfEffect` say once what closing does. From `Inductive` follow the theorems
`TypeCorrect`, `FlagIsRight`, `RefusalIsFinal`, `StreamsAreAccepted`,
`CallbacksOnLive`, and the action properties `ClosesOnce` and `ServesOnlyOpen`.
`ServerImplementsLifecycle` is the refinement: each action maps to a step of
`SessionLifecycle` or to a stutter, one lemma each (`RequestRefines` ...
`InternalRefines`).

**QuicServer_proofs.** `AllowanceInv` says that the sessions created in an event and
those still allowed share one allowance. `EdgeInv` is the reason why the
edge-triggered loop strands nothing: packets whose edge was taken are there only
while the read loop must still make a round, which is what "a read that was not
full emptied the socket" (`FullRead`) gives. `ArmedInv` is its counterpart for the
poll loop, `ChloInv` for the artificial event. One lemma per actor; theorems:
`TypeCorrect`, `AtMostMaxSessions`, `PacketsAreReported`, `ChlosAreReported`.

**StreamRead_proofs.** `BufferInv` places the client's buffer in the stream: it holds
the bytes just before `consumed`, has room for all that is readable (so the loop
never ends for lack of room), and the round that takes the last byte takes the FIN.
`DeliveredInv` says that the delivered bytes end where the buffer begins; `PhaseInv`
what each step of `OnCanRead` may rely on, above all that it is never called for
nothing, which makes an empty read the FIN. `RegionFacts`, `BytesFacts` and `Join`
are the lemmas on blocks and sequences. Theorems: `TypeCorrect`, `DeliversInOrder`,
`TakesEverything`, `EmptyReadMeansFin`. `ReadsAtOnce` is the refinement of
`AtomicRead`. It needs one more invariant, `CopyInv`: the copy loop is entered with
something to read and ends with a buffer that is not empty, so that the client,
which calls back only for bytes or a FIN, always does. The steps of the loop map to
stutters (`CopyRefines`), the last one to the whole read (`DeliverRefines`); for the
rest there is one lemma each (`OutsideRefines`, `ServerRefines`, `FinRefines`).

**ProofVerifier_proofs.** `MemoryInv` states for every step of `VerifyCertChain`
exactly what is allocated (`Held`), `ModeInv` which steps each mode takes and that
`valid` was earned. `FailureStep` is the lemma for the early returns, `OnwardStep` for
the steps that go on. Theorems: `TypeCorrect`, `FreesEverything`,
`SuccessMeansVerified`.

**Client_proofs.** The inductive invariant is about the nesting of calls, which is
what the client's alarms depend on:

- `NestingInv`: a run of the event loop by `connect`, `runEventLoop` or the
  destructor is the outermost call; only `disconnect` runs it inside a callback; a
  stream callback is directly inside its accept loop. `PushKeeps` and `LeaveKeeps`
  say once what a call and a return do to the stack.
- `AlarmInv`: while `connect` runs and while `disconnect` waits no alarm is set, and
  neither is inside the other. So an alarm finds its client, although the event loop
  runs once more inside `disconnect`.
- `ErrorInv`: a connection that is polled has no visitor, and neither it nor one
  whose session goes on has reported an error: the poll and the end of the session
  cannot both report one.
- `AcceptInv`: only inside the accept loop can an announced stream wait.

Theorems: `ClientTypeCorrect`, `AlarmsFindTheirClient`, `ErrorsAreReportedOnce`,
`AnnouncedStreamsAreAccepted`.

**H264Media_proofs.** Six invariants, each resting on some of those before it.

- `Inductive`: `AtStartCode` is what the loop of `EmitNALUs` has to know: it
  stands at the beginning of the buffer, at its end or at a start code; anywhere
  else `Offset` would skip three bytes that need not be there, and the unsigned size
  of the unit could fall below zero. That it stays so needs that the scan finds a
  *least* position (`LeastPosition`, from well-founded induction on numbers).
  `WireFits` says of every payload under way that it has the form and the size of
  one. Theorems: `MediaTypeCorrect`, `ScanStaysInBounds`, `PayloadsFitMtu`.
- `ScanInv`: the last units found are, one for one, the pieces of the buffer that
  begin before the place where the loop stands (`DoneStarts`, `FoundLast`). A unit has
  its place by the number of pieces that begin no later than it, so the proof counts:
  `FoundOneMore` adds one piece behind all the others, `DoneIsBefore` says that those
  of a turn are. `CodesApart` is why the loop meets each start code: two of them do not
  overlap. `TurnIsUnit` is one turn. Theorem: `ScanSplitsTheBuffer`, for every call and
  not only the first. What a loop computes is a matter of an invariant, not of
  induction over data, as long as what it computed is there to look at: `found` is.
- `SendingInv`: what is under way is as it was found (`ContentInv`), a held set is
  the last of its kind and older than what is scanned (`HeldInv`), and what went
  out in one aggregate is neither held nor in another (`FreshInv`). Theorem:
  `SetsAreFresh`.
- `ReceivingInv`: if the last fragments that arrived are the first `k` of one unit,
  behind an end, then `fua_buffer_` holds exactly their bytes (`BufferInv`): `IsRun`
  and `FirstBytes` say this for each `k`, so that one more fragment is one step, and
  `FragmentBytes` that the bytes of `k` fragments and of the next are those of `k + 1`.
  Theorem: `DamageStaysContained`.
- `LosslessInv`: with no fault, the packets under way are in the order of their
  units, of a unit in fragments the rest is there (`OrderInv`), the first goes on
  where the receiver stands (`FrontInv`), and what is neither under way nor
  written is no picture (`LogInv`). Theorem: `NothingIsLostOrChanged`.
- `SetsAreNotForgotten` is inductive, given `SendingInv` and `LosslessInv`. A set leaves its
  place for a packet, for a newer set (`SetsTurn`), or for the client's file
  (`SetsTake`), where `LosslessInv` has that it is written as it was found. Theorem:
  `SetsAreKept`.

**MediaStream_proofs.** The composition takes the actions of both codecs and leaves the
state of the other alone, so that what is proved of H.264 holds in it (the lemma
`MediaUsesH264`). `VP8Inv` keeps of each packet that
was made what the properties ask of it: `AllReadable` that both parsers get out of
it what went in, behind each of `RtpHeaders`, and that `VP8Packet` notices where it
is cut (`CutReads`); `CallsInOrder` that packets of one
call share their id and only the first has the start bit; `IdsAdvance` that the ids
of two calls, and the next id, are apart by at most as many steps as there were
calls (`Follows`), modulo 2^15. `RtpReadsBack`, `OwnReadsBack` and `OtherReadsBack`
are the lemmas on the formats: source list, extension and padding of RTP, the
descriptor that `VP8Payloader` makes, and those that others make. Theorem:
`VP8PacketsUnderstood`. Ids repeat after 32 768 calls, which `FramesAreTold` has as
its condition; the proof showed that it is needed.

**MediaRelay_proofs.** `SourceInv` says how packets follow each other. `FramedOf` is
the invariant of a stream: the frames lie behind each other without a hole,
`taken` is where the next one begins, and what was read is a prefix of what was
written; that `Write` takes all or nothing is what keeps it. `CollectedOf` is the
invariant of datagrams: what is being collected are consecutive packets of a
picture that is not at its end, *and* `lastSequenceNumber` is that of the last of
them. Without the second half the page's test for a gap would say nothing about the
packets it protects. It needs that no two packets share a sequence number, which is
why `ConstantsAssumption` has fewer packets than numbers: the page itself cannot tell
a packet from one 65 536 later. Theorems: `RelayTypeCorrect`, `StreamStaysInSync`,
`PicturesStayApart`.

That a picture which arrives whole is decoded whole is a claim about many steps, and
needs a second invariant, `WholeInv`. `PartsInv` is about the source: the packets
before the one with part `n`, back to its picture's first, have the parts below `n`
and none ends a picture, unless there is padding among them. `RunIsHeld` is about
the page: if the last packets read are the first `r` of a picture (`RunTo`), the
page holds exactly those. A longer run comes from one that is shorter by one
(`RunShorter`). For the next packet to be appended to it, a stream needs
`StartsEmpty` (nothing is held behind the end of a picture) and datagrams need
`LastIsNoted` (the sequence number remembered is that of the packet before, so the
test for a gap keeps what was collected). Theorem: `WholePicturesReachDecoder`.

Every safety property that a passing run checks, invariant or action property, and
the two refinements are proved. Only model-checked is liveness (`IntervalRepeats`,
`EveryClientServed`, `EdgeWritesResume`, `PollEnds`, `FailureStopsLoop`,
`WrittenIsRead`): the prover has neither fairness nor ENABLED. The violated
properties of the [findings](#findings) have counterexamples, not proofs.

## Findings

- **A session that ends before the poll looks is never reported** (`EndIsReported`,
  `client_end_reported`). The `ClientSession` becomes the visitor only when the
  10 ms poll sees the session ready (`web_transport_client.cc:88`). If the server
  accepts and closes in between, the poll reports an open session and the error
  callback never comes.
- **With the poll event loop, a write that blocks late never resumes**
  (`PendingWritesResume`, `socket_writes`). `RearmSocket` for writable is called only
  inside the writable branch (`web_transport_server_core.cc:253`); after the first
  writable event nothing is armed. With an edge-triggered loop the property holds
  (`EdgeWritesResume`).
- **The backend is destroyed before the QUIC server that uses it**
  (`BackendOutlivesServer`, `server_lifecycle`): member order in
  `web_transport_server.h:68-69`, against the comment in
  `web_transport_server_core.h:33`. A second `InitializeServer` has the same window.
- **The page decodes what is left of a picture whose beginning it dropped**
  (`IncompleteIsDiscarded`, `media_gaps`). At a gap it empties the collected packets
  and says "Discarding incomplete frame due to packet loss"
  (`examples/media_datagrams_js/index.html:799`), but the packet behind the gap, and
  those that follow in the same picture, are collected again and decoded at the
  marker.

- **The scan never sees a long start code between two units** (`LongCodesAreSeen`,
  `media_scan`). Under "Also check for 4-byte start code"
  (`examples/media_stream/h264_rtp_packetizer.cc:133`) the code tests bytes `i-1..i+2`,
  but the test for a short code, of bytes `i..i+2`, comes first, and is true whenever
  that one is. The first zero of a long code goes out as the last byte of the unit in
  front, which a decoder takes for a trailing zero. At the beginning of a buffer
  `Offset` does see a long code.

Noted in passing, with no run of their own:

- `web_transport_server_core.h:55` says that `WaitForEvents` waits up to 50 ms; the
  code waits up to 100 (`web_transport_server_core.cc:203`).
- Each `connect` makes a new session cache (`web_transport_client.cc:309`), so a repeat
  connection has no ticket to resume with, whereas `README.md:26` promises 0-RTT.
- With an MTU of 2 `CreateFUAPackets` never ends, below 2 its fragments are unbounded;
  `MtuAssumption` excludes both.
- A buffer that begins with other bytes than a start code and has one inside its first
  three bytes is not split there, since the scan begins three bytes on (`WellBegun`).
- Parameter sets stay held when the picture behind them is too large to aggregate, and
  go out with a later one; the client meets that picture without them.
- Under loss the client of `media_stream` writes a unit made of what arrived: no
  sequence number or start bit is looked at. `DamageIsContained` states that this ends
  with the unit.
- The viewers of a media server share one UDP socket: each packet goes to one of them.

## What is not modelled

- The facade `web_transport.cc`: forwarding to the classes above; it keeps the
  application's callbacks and makes a new wrapper object at each call of one, which
  nothing frees. What an application may call through it is what the models of the
  classes let it call.
- `createBidirectionalStream`, client datagrams, and datagrams the server's
  application sends: single calls of QUICHE that keep no state in the library. `Send`
  on a stream is in `MediaRelay`, with the `Write` that refuses.
- `FetchResponseFromBackend` (a constant answer), `VerifyProof` (a constant answer),
  `QuicServer::Shutdown` (nothing calls it), the setters before `connect`.
- Failures of socket calls in `CreateUDPSocketAndListen` beyond "exit".
- An interval replaced inside its own callback, and a client stream that QUIC does not
  allow (`web_transport_client.cc:334`): from there on the code uses freed or null
  memory, and no property could hold. Both are among the hazards.
- Units of type 24 or 28 in the buffers given to `H264Payloader`: H.264 leaves these
  numbers to its transports, and the client would take such a unit for an aggregate
  or a fragment.
- In the packetizers: the AVC output format, `ClearSPSPPS` and the queries that no
  example calls; fields of RTP and VP8 headers that only getters return.
- In the pages: the JavaScript ports of the parsers (`VP8Media` has the originals),
  decoding and drawing. The copies of pages and programs beside the originals
  (`index copy.html`, `server copy.cc`, ...) are other versions of them, which no
  build file names.
- The example HTTPS server and `httplib.h`: the latter is a vendored library of 10 380
  lines which the repository has twice, about three quarters of all its lines.
- `platform/`: logging, flags, reference counts and mutexes that QUICHE asks its
  embedder for, taken from QUICHE's defaults.
- Time: an alarm that is set may fire at any moment; no property is about durations.

## What is left

The modules were written in this order, by importance: server sessions (with their
abstract specification and proofs), socket, client, streams (likewise), verifier, server
lifetime, H.264 and VP8, the media relay, the proofs about the client. What could
follow:

1. `EndToEnd`: one client and one server session over a channel, composing the
   actions of `Client` and `WebTransportServer` that meet: refusal on the server
   against the poll on the client.
2. An abstract specification of `QuicServer` (every packet is served), with the
   refinement and its proof.
