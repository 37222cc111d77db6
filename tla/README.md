# StealthLink in TLA+

Specifications, model-checking configurations and machine-checked proofs for the
core of StealthLink (`src/protocol/core/transport`). Every definition is
translated from the Go code; `PROJECT.json` maps each to its lines.

Contents: [the system](#the-system) · [the modules](#the-modules) ·
[the runs](#the-runs) · [the proofs](#the-proofs) ·
[disagreements](#disagreements-between-the-code-and-what-is-said-of-it) ·
[known behaviour](#behaviour-worth-knowing) · [not modelled](#not-modelled) ·
[plan](#plan)

## The system

A client runs a SOCKS proxy (and an HTTP proxy in front of it) or a TUN device.
It reaches a server over one of several transports. There are two ways through
the tunnel:

- **Direct connections.** Each SOCKS `CONNECT` dials its own connection (or QUIC
  stream) to the server, sends its credentials and the target's address, waits
  for a status byte, and then both sides copy bytes in both directions.
- **The persistent channel.** One connection (or QUIC stream) carries frames:
  UDP datagrams of numbered associations, IP packets, TCP streams. It is opened
  when the first UDP association needs it, or at once in TUN mode, and is torn
  down when it fails.

```
 app ── SOCKS/HTTP ── Client ──(transport)── Server ── target
                        │ dialer per CONNECT    │ handleDirectConnection
                        │ persistent channel ───│ handleTUNSession ── UDP sockets
                        │                       │ firewall, auth, replay filter
              connect loop, selector
```

### Inventory

| Component | State | Operations | What is hard | What makes it correct |
|---|---|---|---|---|
| Client channel (`client.go`, `udp_assoc.go`) | `writer`, `reader`, `quicConn`, `udpHandlers`, `frameInbox`, `frameLoopActive`, `nextUDPAssocID` under one mutex; the mutex is released around every I/O | ensure, open/send/close of an association, frame loop, reset, drop, Stop | any number of callers, frame loops and the connect loop interleave; state read under the lock is used after it | no channel closed twice or left open, every handler served, the loop reads what the client writes to |
| Connect loop and selector (`client.go`, `subscription.go`) | servers, statistics, cool downs; a ranking kept for a round | rank, dial, report, back off, update, Stop | the subscription changes during a round; scores mix weight, failures and time | nobody passed over, a reachable server found, Stop ends it |
| SOCKS and HTTP proxy (`proxy.go`, `upstream.go`, `relay.go`) | a dialer or QUIC connection; per connection its deadlines | handshake, dial, reply, relay, UDP associate | deadlines against slow dials; half-closed connections | everything delivered, both ends told, both handlers return |
| Server handlers (`server.go`) | sessions per user; per TUN session a map of UDP sockets | authenticate, read mode and address, dial, relay; frames | nine transports with different closing rules; goroutines per frame | client and server agree on who speaks; counts exact |
| Firewall (`firewall.go`) | connection counters, bandwidth trackers | check, connect, disconnect, track | check and count are separate steps; counters are made lazily | counts exact; the connection limit kept |
| Frame writer and reader (`framing.go`) | batch, timer, `flushChan`, `closeChan`; a pool of buffers | write, flush, auto flush, close; read, hand on, release | timer, callback and flusher race writers and Close; buffers are used again at once | an ordered stream, no frame left waiting, payloads intact |
| Replay filter (`replay.go`, `peeking_conn.go`) | two Bloom filters | check and add, rotate | two-step locking, rotation in between | nothing let in twice within one period |
| Authentication (`auth.go`, `server.go`) | users, rate limits per address; per connection a deadline | peek, read, limit, validate | minutes of two clocks, windows of refused attempts, a wait between making and checking a payload | payloads are let in while they are fresh, an address gets no more than its rate, nobody is locked out for good |
| Transports (`reality`, `redstone`, `masque`, `mirage`, `webrtc`, `uquic`, `camouflage`) | a connection; Mirage: a table of sessions, two pipes | dial, accept; upload, download | handshakes, half-close, streams made of separate requests | same order of messages on both sides, ordered streams, both sides end |
| TUN client (`tun_client.go`), devices, mobile, commands, certificates, obfuscation, padding | little | pumps, start-up | sharing of the frame reader | (see below) |

Everything that is hard to test is listed, at its line, under `hazards` in
`PROJECT.json`, with the properties that would notice it going wrong.

## The modules

| Module | Models | Proofs |
|---|---|---|
| `ClientChannel` | the client's persistent channel, UDP associations, frame loops, connect loop, Stop | `ClientChannelProofs` |
| `ServerSessions` | counting of connections and sessions on the server, the connection limit | `ServerSessionsProofs` |
| `TunUDP` | UDP sockets of one TUN session | `TunUDPProofs` |
| `SocksUDP` | one SOCKS UDP ASSOCIATE: local socket and three goroutines | `ClientProofs` |
| `ReplayWindow` / `ReplayFilter` | what the replay filter promises / how it keeps it | `AdmissionProofs` |
| `Admission` (extends `ReplayFilter`) | how a server lets a connection in: filter, deadline, rate limit, minute | `AdmissionProofs` |
| `FrameWriter` | batching and flushing of frames | `FrameWriterProofs` |
| `FrameLink` (extends `FrameWriter`) | the channel from writer to receivers: connection, pool, frame loop | `FrameWriterProofs` |
| `OrderedStream` | what a transport promises of its streams | refined by `FrameLink`, `MirageSession` |
| `MirageSession` | one connection over Mirage: requests, pipes, goroutines | `MirageSessionProofs` |
| `Attempts` | selection of servers and the connect loop | `ClientProofs` |
| `Tunnel` | one proxied TCP connection, end to end, over any transport | `TunnelProofs` |

`MC*` modules hold symmetry sets and values of constants for TLC. Definitions
commented *Mutated form* are plausible bugs; no specification uses them. They
are there to show that each property notices something.

### ClientChannel

`Candidates` are the kinds of server that the connect loop tries, so TLS and QUIC
channels may follow one another. The granularity is the mutex `c.mu`: what happens between two `Lock`/`Unlock`
pairs is one action, as is each I/O. For these two kinds `writer`, `reader` and
`transportCloser` are assigned together and are one variable, `channel`; the connections that
uQUIC, WebRTC and Masque store (client.go:294, 405, 472) carry no frames and are outside of the
module. Goroutines are
callers (SOCKS UDP handlers), frame loops, the connect loop (`Main`) and the one
that calls Stop; each has a `pc` and the locals the Go code keeps across an unlock
(`held`, `sess`, `grab`). `cont` is where a goroutine returns to after
`EnsurePersistentChannel`. `panicked` records a `close` of a closed channel. A
payload or an inbox frame only matters as "a frame arrived" (`LoopFrame`),
except a `FrameUDPClose` (`LoopCloseFrame`), which takes a handler away. A
connection or a QUIC session may fail at any time. `Close` of a QUIC stream ends what it sends;
its other direction brings frames as long as its connection stands and the server has not closed
it (`Readable`).

### ServerSessions

`ServerSessions` splits `CheckConnection`, `OnConnect`, the session table, the
dial, the relay and the deferred calls, and splits `getConnCount` into its read
lock and its write lock. There are four kinds of request, because the code
treats them differently: a direct connection is checked, counted and has a
session; a QUIC stream is checked and counted; a TUN session is counted and not
checked; a `FrameConnect` is checked and not counted.

### TunUDP

One action per critical section of `getOrCreateUDPAssociation`, plus binding,
sending and the start of the relay; the frame reader closes associations and ends
the session. `FrameUDP` frames are handled by goroutines of their own, so they
race everything.

### ReplayFilter and ReplayWindow

A filter is the set of its bits, and `Bits` says which bits the hashes of a datum
select, so false positives are part of the model. The shared half of
`CheckAndAdd` and the exclusive half are separate actions. `age` counts the
rotations since a datum was let in: it is a history variable, and the abstract
state. `ReplayWindow` knows no bits and no locks: a question gets an answer in
one step, and what is remembered is never let in. `KeepsWindow == Window!Spec` is
checked by TLC and proved.

### Admission

A connection of a caller goes through `CheckAndAdd` of `ReplayFilter` (as two steps
that other connections interleave with), a deadline, `checkRateLimit` and
`ValidateAuth`, which reads the clock again. The module extends `ReplayFilter` and adds
the server around it, so the filter is checked and proved in its place. Time passes in
ticks, `Minute` of them to a minute; `phase` is where in its minute the server's clock
is. Every comparison in `auth.go` is of two times, so the model keeps differences (`left`
until `resetAt`, `minute` between payload and server, `waited` since the deadline was set)
and time never ends. `made` and `passed` are history: how old a payload really is, and
the attempts that were let through in the last minute, each with its age and its number in
its window, so that they can be counted. Keys are abstract: a payload
is of a user whose record may expire. Camouflage and Reality peek differently and then
call the same functions.

### FrameWriter

A frame is a number and a size. `timer`, `firing` (callbacks on their way),
`token` (`flushChan` has capacity one) and `flusher` are the chain that ends in a
flush. Close is three steps, as in the code, and is not atomic with writers. A
write fails at any moment, and then all later ones do.

### FrameLink and OrderedStream

`FrameLink` puts the connection and the client's frame loop behind `FrameWriter`. A
frame is read into a buffer of the pool, offered to its receiver without waiting, and its
buffer released. `AnotherReader` is any other reader of the process: it writes into every
buffer that nobody holds. So a payload that is handed on by reference, or a buffer that is
released too early, becomes visible.

`OrderedStream` is the promise: what is received was sent, in order, once, without a gap,
and a stream may be lost with a part of what is on its way. `FrameLink` implements it with
the frames in the batch and on the wire as what is on its way; `MirageSession` implements it
twice, once for each direction, with what pipes, requests and goroutines hold.

### SocksUDP

One handler, its waiter on the control connection, and the receiver. What they share is
`done`, `clientAddr` and the socket; each step between two of those is an action. Opening,
binding, replying and sending may fail, any source may send, the deadline of the handshake
may pass before the reply, and the client may drop its channel. The association itself is
`ClientChannel`'s.

### MirageSession

The client's user and the server's handler each stand on one end of a `net.Pipe`. The
download is the response to one GET; uploads are POSTs, one at a time, of up to a chunk. A
write into a pipe waits until it was read, in parts (`SessionReads`, `UserReads`), or until
the pipe is closed. The GET may be cut at any moment, a POST may fail before or after it
reached the server, and either user may close. `UplinkBreaks`, `UplinkCloses`, `PumpBreaks`,
`PumpCloses`, `HandlerDeletes` and `HandlerShuts` are the order in which the code shuts down.
The session is what the server does with its end of the pipe: a handshake under deadlines
(`SessionDials`, `SessionFails`), then `BidirectionalRelay`, which returns when both copies have
ended (`SessionReturns`) and reads its target without a deadline.

### Attempts

Scores, cool downs and the two stable sorts are the code's arithmetic. A ranking
is one that `IsRanking` accepts, and there is exactly one. Time is `cooling`,
the seconds until each `cooldownUntil`. What makes an attempt fail, and which failures say
that the credentials were refused, depends on the transport and on the mode (`CanFail`,
`CanDeny`): in TUN mode (`Persistent`) every candidate but QUIC is dialled as a persistent channel
over TLS, which waits for the status. Successes do not enter a score here: the
loop never ranks again after one.

### Tunnel

Three hops (application–client `A`, client–server `W`, server–target `T`), each
with two directions, and for each direction how much is on its way, whether the
writer ended it (`fin`) and whether the reader is gone (`gone`). TCP's close with
unread data resets the connection and may destroy what is on its way
(`CloseEnd`); a QUIC stream's `Close` ends one direction only (`EndStream`).

Handshakes are tables, because the handlers have one shape: a dialer sends a
first part, may wait for a reply before it sends the rest, then waits for the
status (`Dialer`); a server passes through stages that each read one part
(`FirstStage`, `Needed`). Which part is sent when comes from each transport's dial
function, which stages there are from its handler. `DialVPNServer` always posts to a secret path,
which `NewClient`, `connectTLS` and `DialUpstream` fill in, whether the server has camouflage or
not; `TakesPost` is what a server without it makes of the POST.

The relay is four copies, each a loop of `Copy` that ends (`CopyEnds`) and then
does what the code does after it (`AfterCopy`): `closeWrite`, which reaches TCP
for some transports only (`ClosesWrite`), or, on a QUIC server, a full close.
`HandlerCloses` says whose server handler closes the connection afterwards.

`kind` is a variable that never changes, so one run covers all nine transports:

| kind | client | server | `closeWrite` works on W: client / server | handler closes W |
|---|---|---|---|---|
| `tls` | TLS with secret path | TLS without camouflage, over a peeking connection or, as the fallback of `any`, over TCP | nothing is relayed | yes |
| `camouflage` | TLS with secret path | camouflage server | yes / no | no |
| `reality` | TLS over TCP | TLS over a peeking connection | yes / no | yes |
| `quic` | quic-go | `handleQUICStream` | stream close / stream close | yes |
| `uquic` | uTLS QUIC | `handleQUICStream` | no / stream close | yes |
| `redstone` | game protocol framing | the same | no / no | yes |
| `masque`, `mirage`, `webrtc` | HTTP/3, HTTP/1.1, data channel | the same | no / no | no |

## The runs

Every run finishes on two workers within three minutes, most within one.

| Run | Bounds | Distinct states | Shows |
|---|---|---|---|
| `client_quic` | 2 callers, 2 loops, 2 streams, 1 QUIC connection, 2 incoming channels, ids 1..2 | 818,397 | no double close, no forgotten channel or stream, every handler served, the loop reads the current channel and drops only its own |
| `client_mixed` | TLS and QUIC candidates, 2 callers, 2 loops, 2 channels, 1 incoming channel, one id; fairness | 487,628 | a lost channel closes the receiver, unless another one is read |
| `client_tun` | TUN mode over QUIC, the connect loop and 1 caller, 2 loops, 2 streams, 2 incoming channels, ids 1..2 | 263,876 | no forgotten channel or stream, also when the connect loop must undo what it stored |
| `server_sessions` | 3 requests, 2 users, 3 counters, limit 2 | 39,867 | exact counts and sessions |
| `server_limit` | 2 requests, 1 user, limit 1 | violation | the limit is exceeded |
| `tun_udp` | 3 datagrams at a time, 2 ids, 4 sockets | 74,263 | no socket forgotten, one source port per association, responses read |
| `admission` | 2 connections of one address (one clock a minute late), 2 data of which one may be a false positive, a minute of 2 ticks, limit 2; fairness | 487,428 | the filter implements `ReplayWindow` and forgets, rate, freshness, nobody locked out |
| `frame_link` | 3 frames of size 1 and 3, batch of 4, 2 callbacks, 1 receiver of capacity 1, 1 buffer; fairness | 164,021 | implements `OrderedStream`; no lost wake-up, frames arrive, and intact |
| `attempts` | TUN mode; 3 servers, one heavier, one for Redstone only, lists of 2 of them, TLS, QUIC and Redstone, failures up to 2; fairness | 156,202 | nobody passed over, healthy first, found, Stop |
| `tunnel` | 9 transports, 1 datum each way, 1 per hop and direction; fairness | 98,715 | handshakes and whom they serve, deadlines, delivery, half-close, end of the handlers |
| `socks_udp` | 2 sources, 3 datagrams, 2 answers, 1 waiting; fairness | 288,786 | no answer without an address, everything is released |
| `mirage` | 3 items each way, chunks of 2; fairness | 255,077 | two ordered streams, uploads find their session, both sides end |

**Why the bounds are enough.** Most races in this code are between two goroutines and
a third that resets or closes. The runs of `ClientChannel` have two callers, or one caller and the
connect loop in TUN mode, besides frame loops and Stop; those of the server three requests or
datagrams. The other modules have the fixed goroutines of one connection or association, and
`Admission` two connections. Two callers are needed for `client_mixed`: with one, nobody overwrites a
channel that is in use. Links and incoming
channels are not reused, so two of each mean that one replaces another, which is
what the hazards need. Four sockets for three datagrams let each bind one and one
more be bound after a close. A batch of 4 with sizes 1 and 3 meets both the
half-full flush and the overflow; one buffer in the pool means that each reader gets the
one the other has just released. In `admission` the bits of one datum are a part of the
other's, so it is taken for a replay without being one; two ticks to a minute put events
before and after a boundary, and a limit of 2 is passed by two callers. Three items in chunks of 2
make both directions of Mirage take more than one request and more than one read of a pipe.
Two sources and three datagrams let a stranger send before and after the application. No run
lets an association id wrap; for that there is only the theorem `ClosedOnce`.
`attempts` runs in TUN mode, where every candidate may fail and refuse for good: whatever
happens outside of that mode can happen there.
`MaxFailures` caps consecutive failures at 2; scores grow linearly and cool downs
are larger than any weight, so more failures only repeat an order.

**Deadlock.** `server_sessions`, `admission` and `frame_link` are checked for it: there
somebody can always go on. The client (after Stop), a TUN session, the connect loop, a
tunnel, a SOCKS association and a Mirage connection really end, and their bounds use up what
can be opened: these runs say `CHECK_DEADLOCK FALSE`.

**Fairness.** Only what the scheduler and the code give:

- `ClientChannel`: goroutines that can run do run. A frame loop always runs on
  because a read of a failed connection returns an error; that a closed QUIC stream still
  brings frames for a while does not keep it from that. Nobody has to fail, send
  or close anything. Dials, whose timeouts are in the code, end.
- `FrameWriter`: a running timer expires, its callback runs, the flusher runs.
  Writers and Close need not.
- `FrameLink`: besides, the frame loop runs. Receivers need not take anything.
- `Admission`: handlers run, time passes, filters rotate, and clients that are asked
  answer and try again. Nothing says how fast: `GetsIn` is about executions in which,
  from some time on, no tick passes while a connection is served (`Prompt`), which includes
  every execution whose delays end some day.
- `SocksUDP`: the three goroutines run, and their reads of at most two seconds end. The
  application need not send or end anything.
- `MirageSession`: the goroutines of both sides run and requests are answered or fail.
  The handshake of a session ends, by its deadlines; its relay is sure to return only when its
  pipe is closed and its target has ended. The client's user reads what there is, as the copy
  loops of the proxy do until they fail; nobody has to write, to close or to end, and the target
  may stay for ever.
- `Attempts`: the connect loop runs; dials and sleeps end. Seconds need not pass.
- `Tunnel`: both handlers and the copies run, and every wait of a handshake ends
  (deadlines of 10 to 30 seconds; two waits have none, see below). The application and the
  target read what they get. They need not send, stop or leave.

**What the liveness properties promise, and for whom.** `EndReachesTarget`,
`EndReachesApp` and `TunnelEnds` name the transports they hold for. For the
others they do not hold, by the table above; see *behaviour worth knowing*. `LossReachesReceivers`
leaves out the time in which a frame loop waits on another connection than the one that was lost
(the first of *behaviour worth knowing*); over QUIC that time is short (`ReaderIsCurrent`). `AllEnds` promises the end of
everything that belongs to a Mirage connection, and that of the session once its target has ended.

## The proofs

Everything below holds for all values of the constants, under the assumptions
named in the modules (goroutines of different kinds are different, `None` is none of the
values, sizes fit the batch). Four theorems of `ClientChannelProofs` assume more, and
say what: without it the code breaks the property.

| Theorem | States |
|---|---|
| `ClientChannelProofs`: `TypeCorrect`, `ClosedOnce`, `AlwaysServed` | types; no double close for any number of goroutines and wrapping ids; a registered handler has a live loop |
| `ClientChannelProofs`: `NoneForgotten` | no incoming channel is forgotten, assuming no more of them than ids |
| `ClientChannelProofs`: `NoneLeftOpen`, `ReadsWhatIsWritten` | no stream is forgotten, and the frame loop reads the current one, assuming no TLS server in the list |
| `ClientChannelProofs`: `DropsOnlyItsOwn` | before Stop a frame loop tears down only the channel it was reading, assuming no TLS server and not TUN mode |
| `ServerSessionsProofs`: `ServerTypes`, `CountsExact`, `SessionsExact` | counts are never negative, and exact |
| `TunUDPProofs`: `SocketsRemembered`, `MapSound`, `SharedSource`, `ResponsesRead` | sockets are never lost, the map is sound, one source per association, and somebody reads what it receives |
| `AdmissionProofs`: `AlwaysRemembered`, `AlwaysForgotten`, `Implements` | the replay filter alone: the window, and the refinement |
| `AdmissionProofs`: `FilterInPlace`, `PayloadsAreTimely`, `RatesAreBounded` | the refinement holds for the filter as the server uses it; minutes measure the age of a payload; fewer than twice the limit get through in any minute |
| `FrameWriterProofs`: `FramesInOrder`, `PrefixOnTheWire`, `AlwaysScheduled`, `ChannelIsStream`, `FramesIntact` | order on the wire; wake-ups are not lost; the channel implements `OrderedStream`; payloads are handed on intact |
| `MirageSessionProofs`: `UploadsMeetTheirSession`, `RequestsAreStreams` | an upload meets its session until that is over; the requests of a connection implement two `OrderedStream`s |
| `ClientProofs`: `SourceIsOne`, `EveryAnswerAddressed` | one source per association; every answer finds its address |
| `ClientProofs`: `AllAreTried`, `HealthyComeFirst` | a round of the connect loop passes over nobody; rankings put what never failed before what cools down |
| `TunnelProofs`: `NeverBothWait`, `NoDeadlineInRelay` | in the handshakes of all transports nobody waits for what the other has not sent; no deadline survives into the relay |
| `TunnelProofs`: `OnlyPlainTLSRefuses` | every server but the one of TLS without camouflage reads what its client sent for what it is; behind that one nothing is ever relayed |
| `TunnelProofs`: `TunnelTypes`, `RequestsAreWhole`, `ResponsesAreWhole` | types; who is told that a direction has ended has got all of it |

**Inductive invariants.** None of the properties is inductive as it stands.

- *Double close.* `Ownership` says who may close an incoming channel: an entry
  of the map is open and under one id only (`EntriesAreDistinct`,
  `EntriesAreOpen`), and what a goroutine took out of the map is open, not in
  the map, and taken by it alone (`TakenAreOpen`, `TakenOnce`). Taking and closing are lemmas
  about any goroutine (`TakeKeepsOwnership`, `CloseKeepsOwnership`), so each action
  is one citation. That a new channel may replace the entry of an id that wrapped
  is `RegisterKeepsOwnership`.
- *Served.* The loop that set `frameLoopActive` stays alive until it, a reset or
  another loop's drop clears flag and handlers in one critical section. `Served`
  says that while the flag is set some loop lives.
- *Nothing forgotten.* `IdsInOrder` counts the ids that were given out, so `Register`
  finds an empty entry; `OpenIsKept` follows each open channel from the map into the hands
  of the goroutine that will close it (`HeldToClose`).
- *Streams.* `Dialing` says that with QUIC servers a goroutine dials over a QUIC
  connection, hence installs behind the second check; `Opened` and `Waiting` say that what is
  held has been opened. One lemma covers every step that stays inside one goroutine
  (`LocalKeepsStreams`), and each step that changes the shared fields has its own.
- *Own channel.* `Owns`: while nothing was stopped, one frame loop at most is alive (`Alone`),
  what it reads or is about to drop is the current channel (`LoopOK`), nothing is
  open before a server is found (`Unconnected`), and the connect loop resets nothing once it
  runs (`MainOK`). A caller that lost the race of two openings closes its own stream and touches no field.
- *Counts.* `CountersOK` says that counters are not shared between users and never
  replaced; `LocalsOK` that the counter a handler holds is its user's. The equation
  between a count and the number of handlers is kept by `CountsFollow`: if one
  handler moves, and the count changes by what it changes in the set, the equation stays.
- *Sockets.* `InsertsOK` and `ClosingOK`: a socket in the hands of a goroutine is
  open, in no map and in no other hand. `SourceOK` relates each socket to its id, `Relayed` to the relay that reads it.
- *Replay.* `Remembered` and `Forgotten` are inductive together. Each step of
  the filter is then a step of the window: the exclusive check lets in only what
  has expired.
- *Admission.* The refinement is inherited: each step of `Admission` is a step of
  `ReplayFilter` or leaves the filter alone, so `Implements` is used step by step. For the
  minutes, `ClockInv` bounds the age of a payload from both sides by the minutes that were
  counted and the phase of the clock (`AgeOK`): a payload of the server's own minute is no
  older than the minute is, one of the minute before is less than two minutes old, and any other
  is older than one.
- *Rate.* A minute may take in two windows of the limiter: the open one and the end of the one
  before. `WindowOK` says how the remembered attempts lie in them: whoever opened a window is
  number 1 and as old as the window is, nobody in the open one has a number above the count,
  and of the one before number 1 is forgotten already. So the two windows, put one after the other, number the
  attempts from 1 to `2 * Limit - 1`, and `WindowsAddUp` makes that an injection. `NewAttempt` shows that
  the history loses nothing: an attempt that passes was not in the set before.
- *Search.* A round begins with every transport of every server because an order that the sort
  accepts is a permutation (`Everybody`: no server comes before itself, so the order is injective,
  and on a finite list onto). A failure takes away the transport that was dialled, and nothing
  else touches the round (`FailFollows`, `SameRound`). A score is above 5000 for what cools down and at most 2250 for
  what never failed, for every weight (`Scores`).
- *SOCKS UDP.* Once recorded, the address stays; what is sent on or answered
  implies that it is recorded, and so does a datagram on its way to be sent.
- *Channel.* The frames on the wire are what was accepted before those in the batch
  (the writer's invariant), the loop has read a prefix of them, and the buffer it holds is
  not in the pool and has the content of the frame it read last. Each step sends,
  receives or loses; that a batch which no longer reaches the connection is lost and not
  doubled is the case of a failing write.
- *Mirage.* `Phases` says who is there: client goroutines only after the header, which is sent
  only after the session is in the table, and the table entry exactly while the handler is at
  work. `Posts`: the next POST is made when the last one was read whole, and none is longer than
  a chunk; `Buffers`: what is in nobody's hands is nowhere. Then each step moves each stream as `OrderedStream`
  allows (`UpMoves`, `DownMoves`); that `ChunkSize <= MaxBody` is what makes the body of a
  POST arrive whole (`FirstOfLess`).
- *Frames.* `BatchOK` (a waiting batch has a size) and `FlusherOK` (the flusher
  returns only after Close) make order and wake-ups inductive.
- *Handshakes.* `Agree`: which stages the server of a transport passes, and that the one of
  TLS without camouflage is never sent credentials (`StagesOK`), what the client has said when it waits (`DialerOK`), and that a server
  past the greeting has replied (`RepliesOK`). `Tables` is all the argument needs to know of
  the nine dial functions and handlers. A transport added to the tables is covered
  if it satisfies that lemma.
- *Delivery.* `DataInv` follows the end of a direction behind its data, hop by hop: a hop
  is ended only when everything before it is empty and ended (`UpOK`, `DownOK`), so
  whoever is told the end has nothing left to come. What makes it inductive is to say
  which connections count. `UpCounts` and `DownCounts` are the premises of the two
  properties with what was lost for good added: data that is missing never
  comes back (`Conserved`), so once they are false they stay so, and every step that can
  destroy data (a close before everything was read, a write to somebody who is gone) either makes
  them false or meets a hop that `UpOK` or `DownOK` says is empty. `Held` and `Copied` say
  who may still close what. Each action is one lemma over the six directions; closing is
  summed up in `CloseEndIs`, a copy in `CopyIs` and `CopyEndIs`.

**Only model-checked.** Everything about liveness (`LossReachesReceivers`, `FramesArrive`, `GetsIn`, `AllIsReleased`, `AllEnds`, `FindsServer`, `StopEnds`,
`EndReachesTarget`, `EndReachesApp`, `TunnelEnds`): fairness and `ENABLED` are out of the
prover's reach. Every invariant and every safety property of a step that a passing run checks
is proved. `MapSound` and `SourceIsOne` are proved, too, and checked by no run.

## Disagreements between the code and what is said of it

- **The connection limit can be exceeded** (`server_limit`, `LimitHolds`).
  `CheckConnection` reads the count (firewall.go:111-117) and `OnConnect` adds to
  it later (server.go:662-667), so requests that are checked together all pass.
  `transport_test.go:392` expects "should hit connection limit".
- **Bandwidth limits of users are not enforced** (not modelled: nothing acts on them).
  README.md:22 promises "user-specific bandwidth limits"; the tracker gets the
  default limit (firewall.go:159), its verdict is ignored (server.go:401, 534, 589), and streams are
  not counted.
- **The TLS transport needs camouflage** (`tunnel`, `Understood`). A server without
  it takes the first 56 bytes for credentials (server.go:343), but every client posts its
  credentials to a secret path, because one is always filled in (client.go:78-80, 343-346,
  upstream.go:106-109). The server refuses the beginning of the POST, and the client finds no
  response 200. README.md:105 lists `tls` as "Standard TLS 1.3 over TCP", with camouflage as an
  option of its own, and README.md:191 has "a direct client" of "the plain `tls` transport".
  The default configuration has camouflage on. `Understood`, proved by
  `OnlyPlainTLSRefuses`, says that no client is served there and that no other transport has this
  problem.

## Behaviour worth knowing

Found while modelling; the code promises nothing to the contrary, so these are
not listed as findings. The properties are worded around them.

- Two callers that open a channel over TLS at the same time both install one
  (client.go:674-680). The first is overwritten and never closed. If its caller has registered by
  then, the frame loop stays with it, and the second, which the client writes to, is read by
  nobody, because `frameLoopActive` is set (udp_assoc.go:55). When the second is lost, no
  receiver is told until the first is lost as well: `AnotherIsRead` is this exception in
  `LossReachesReceivers`. `NoLinkIsForgotten` holds over QUIC, where the check is
  repeated.
- A frame loop that finds no reader drops the channel that another goroutine may
  have installed meanwhile (udp_assoc.go:117-119).
- A connect attempt that is under way when Stop resets the client installs its
  channel afterwards.
- A datagram that is handled after the end of a TUN session leaves its socket in
  a map that nobody reads any more (server.go:564). Nothing closes it.
- `closeWrite` does nothing for a TLS connection over a `PeekingConn`, which is
  what every TLS server that uses the replay filter has: the end of the target's data is
  then not passed on to the application until the application ends too.
- Over `redstone`, `masque`, `mirage` and `webrtc` no end is passed on in either
  direction: when both ends have stopped sending and merely wait, both handlers
  wait for each other, and the user's connection stays counted.
- When a client leaves while its target neither sends nor ends, the server's relay keeps reading
  the target without a deadline (relay.go:30), over every transport but QUIC; the user's connection
  stays counted until the target ends.
- Over `camouflage`, `masque`, `mirage` and `webrtc` the server's handler does not
  close the connection when it returns (server.go:618).
- Over QUIC the server closes the target when the application only stops sending
  (server.go:847), so a target that answers after the end of the request is cut off.
- A SOCKS dial that takes longer than 10 seconds loses its reply: the write fails
  and the relay starts all the same (proxy.go:186-190).
- Two waits have no deadline: the response to Mirage's download request
  (mirage.go:100), and the first bytes of a connection at a server
  (server.go:283, camouflage.go:166).
- In TUN mode a channel may be dropped by another than its
  own frame loop (a reset while a caller installs one): `DropsItsOwnChannel` is checked without
  it. And `vpnToTun` (tun_client.go:158) reads from the same `FrameReader`, with one header
  buffer, as a frame loop that a UDP association has started.
- In TUN mode nothing reopens a lost channel until the next association does.
- A failed QUIC attempt leaves its UDP socket open when the connection stood but its stream
  or the credentials failed (client.go:753-783); Masque does the same (masque.go:104-112).
- The frame writers of the QUIC authentication are never closed (client.go:759, uquic.go:104,
  server.go:774, 782): an `autoFlusher` and its batch buffer remain for each connection.
- TLS, Reality, Masque and Redstone learn nothing about the credentials when they
  connect (Redstone dials nothing), so with wrong credentials the client counts as connected
  and never tries another server.
- Every UDP datagram goes through the replay filter (server.go:55, peeking_conn.go:59),
  which is sized for 100,000 entries in five minutes: under load, false positives drop packets.
- `PeekingConn` reads once. A first segment of less than 44 bytes is not checked for replay,
  and the camouflage server takes a first read of less than 56 bytes for a web request.
- A window of the rate limit opens with its first attempt, so up to twice the limit less one
  may pass within a minute; entries are never removed (`cleanRateLimits` has no caller). A client
  whose clock is ahead of the server's minute is refused; expiry is looked at once, when the
  connection is let in.
- The first datagram claims a SOCKS association for its source even if it does not parse.
- A SOCKS receiver whose channel is closed returns and the handler does not notice: the
  association goes on sending and hears nothing (proxy.go:295-298).
- The HTTP proxy ignores an error of its read of the SOCKS reply (proxy.go:478-480): it
  answers `200 Connection Established` for a handler that closed without a reply. What follows the header
  in the first read is dropped.
- Frames that are written after the writer was closed wait until something else
  flushes (framing.go:401-411).

## Not modelled

- Bytes: encoding and parsing of addresses, frames, links, HTTP and game packets;
  padding, obfuscation, cryptography, certificates. They keep no state.
- Port and address rules of the firewall: stateless. Its bandwidth tracker: every caller ignores
  what it says.
- The decoy web server, TUN devices, the commands and the mobile binding: I/O
  and start-up.
- TCP data streams of a TUN session: the client never opens one.
- The HTTP proxy: one handler that parses one read and forwards to the SOCKS proxy.
- The packet pumps of the TUN client: with a frame loop beside them they race on one
  `FrameReader`, which has no defined outcome; alone they are two copy loops.
- WebRTC's peer connection, HTTP/1.1, HTTP/3 and QUIC inside: libraries. `Tunnel` has
  what the code relies on.
- `RemoveUser`, `SetUserBandwidthLimit` and `cleanRateLimits`: nothing calls them.

## Plan

Done in this order: `ClientChannel`, `ServerSessions`, `TunUDP`, `ReplayFilter`,
`FrameWriter`, `Attempts`, `Tunnel`; then `SocksUDP`, `OrderedStream`,
`FrameLink`, `MirageSession` and `Admission`, with the proofs listed above. Next:

1. **Prove.** By how much the connection limit can be exceeded (a bound by the number of requests
   that are checked together), where `LimitHolds` is refuted.
2. **Compose.** `TunUDP` under `ClientChannel`: associations end to end, with ids
   that wrap while the server still has the old socket.
