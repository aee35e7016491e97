# Formal models of Chimera

TLA+ modules for Chimera, a VPN whose handshake and record layout are generated
from a seed: its protocol state, its server, its daemon and its three clients,
and the data they agree on.  The models are written from the source (paths below
are under `src/`); docs and comments are what the source is compared with.
Every run below is a TLC configuration in this directory, every theorem is
checked by TLAPS.

## 1. Inventory

| Part | Source | State | Operations |
|---|---|---|---|
| Packet window | `internal/compiler/packet.go` | per direction: `packetSend`, `packetBase`, bitmap `packetSeen` | `EncodePacket`, `DecodePacket`, `AdvanceBaseTo` |
| Session at the client (and on streams) | `internal/tunnel/tunnel.go` | `ackTracker.peerBase`, `ackDue`, control and data queues, keepalive pump | `SendPacket`, `PushControl`, `ReceivePacket`, `WaitControl`, `Close` |
| Session at a UDP server | `internal/tunnel/mux.go` (`ServerTunnel`) | the same, plus token bucket, inbound queue, `closed` channel | `SendPacket`, `sendKeepalive`, `feed`, `Close` |
| Session multiplexer | `internal/tunnel/mux.go` (`ServerMux`) | `pending`, `lastCreate`, `established`, accept backlog `ready`, `closed` | `handleDatagram`, `advance`, `finishHandshake`, `retransmit`, `sweepSessions`, `Accept`, `Close`, `SetProtocols`, `BroadcastControl` |
| Handshake engine | `internal/compiler/handshake.go`, `knock.go`, `runHandshake` in `tunnel.go` | step index, codecs, transcript, keys | `EncodeStep`, `RecvStep`, `FinishPacket`, retransmission at both ends |
| Replay table | `internal/tunnel/replay.go` | map of first datagrams with expiry, a file | `seen`, sweep, persist, load |
| Immune system | `core/immune.go` | telemetry counters, threat level, probe mode, `baseGen`, `rotating`, `currentCPS` | `onTelemetry`, `immuneLoop`, `evaluateThreat`, `rotateGeneration`, `rotationLoop` |
| Server core | `core/core.go`, `core/assign.go` | listeners, `acceptCh`, `tcpSessions`, HTTP pairs, address pool | `Start`, `Accept`, `makeConn`, `Conn.Close`, `Close`, `Allocate`, `Release` |
| Daemon | `cmd/chimerad` | routes by address, by connection, by host | accept loop, pumps, `register`, `remove`, `reapRoamed` |
| Client core | `core/core.go` (`Client`), `core/porthop.go` | session, `genBase`, working transport, ports | `StartContext`, `AssignedIP`, `Close` |
| Command-line, Windows and Android clients | `cmd/chimerac`, `apps/`, `bind/` | reconnect loop, watchdog, wish to be connected, routes, resolver, adapter | start, stop, reconnect, back-off, install and release of routes |
| Stream, WebSocket, HTTP transports | `internal/tunnel/stream.go`, `websocket.go`, `httpstream.go`, `core/httpstream.go`, `core/stream_probe.go` | partial frames, pairs of HTTP legs, counts of handlers and decoys | framing, opening, probe answers, pairing |
| Shaping | `decoy.go`, `txmask.go`, `jitter.go`, `compiler/cover.go`, `fep.go` | decoy budget, noise window | decoy bursts, noise, jitter, covers |
| Generator and compiler | `internal/genome`, `internal/drbg`, `internal/compiler` | none at run time | seed to message layout; frames |
| Configuration and invites | `core.NormalizeConfig`, `cmd/*/config.go`, `internal/invite`, `Invite.kt`, the forms | saved settings | read, normalise, save, share |
| Tools and I/O | `cmd/chimera-*`, `internal/tun`, socket code | none of the protocol | - |

How they interact.  One UDP socket per hop port feeds one `ServerMux`; stream
listeners hand each connection to a goroutine of its own.  Both kinds put
finished sessions on `acceptCh`; the daemon accepts, leases an address, sends it
once, and runs one pump per session.  The immune system reads telemetry that the
muxes and stream handlers report, and writes back the probe mode and the
protocol window.  Sessions push the new generation to clients, who use it when
they dial next.  A client's configuration, generated protocol, ports and paths
come from the same seed and generation as the server's; nothing negotiates them.

What is hard here: datagrams are lost, duplicated and reordered, and loss
control has no retransmission of its own; four goroutines share the tables of a
mux and delete entries by address; six kinds of goroutine close one session;
`Close` meets a read loop in mid-handshake; a rotation touches every listener
one at a time while handshakes go on; several effects are sent once and never
confirmed (SKIP, the address, the generation); the user, a watchdog and a
blocked dial decide about one client; two ends compute the same bytes from the
same seed and must not differ in one of them.

What makes each part correct:

* packet window and loss recovery: nothing is delivered twice, the window stays
  behind the sender, acknowledgements never overstate, loss does not stop a
  direction for good;
* multiplexer: an address is in at most one table, the cap holds, an open
  session keeps its route until it closes, the read loop never waits, silent
  clients are forgotten and live ones are not, every session reaches the
  application or is closed;
* handshake and replay table: both ends that finish hold matching keys, a first
  datagram is admitted once, what is stuck fails;
* immune system: listeners agree, clients are never ahead of a listener, a
  stale client can come back, the defence follows the threat both ways;
* server and daemon: an address is granted to at most one session at a time, a
  session loses it in the routing table only by being closed, the routing maps
  agree, a closed session is forgotten, one client does not stop the others;
* clients: a client that is wanted reconnects, one that is stopped leaves no
  session or interface behind, and no route or resolver that could be taken back;
* data: what one end encodes the other decodes, sizes fit their fields, settings
  mean the same on every platform.

`PROJECT.json` lists every hazard at its line, with the properties that cover it.

## 2. Modules

| Module | What it is |
|---|---|
| `Datagram` | abstract: one direction of a session, numbers taken at most once between two give-ups |
| `PacketChannel` | the established session, both ends, both directions; implements `Datagram` twice |
| `PacketChannelProofs` | its theorems |
| `SessionTable` | abstract: idle, handshake or session per address, under a cap |
| `ServerMux` | the multiplexer with its goroutines; implements `SessionTable` |
| `ServerMuxProofs` | its theorems |
| `Keepalive` | one idle session in time: two pumps, the sweep, the idle timeout |
| `Decoys` | decoy replies, noise and jitter in time |
| `MuxLifeProofs` | theorems of both |
| `Immune` | threat monitor, rotation, and clients that dial generations |
| `Openings` | how a connection to a stream listener opens, and who is let in |
| `ImmuneProofs` | theorems of both |
| `ReplayTable` | the replay tables and their file |
| `Handshake` | both ends of generated handshakes over datagrams; extends `ReplayTable` |
| `StreamHandshake` | the same over TCP, WebSocket and HTTP, with framing |
| `HandshakeProofs` | theorems of both |
| `StreamProofs` | theorems on what the streams hold, how long it is and how it begins, and that it reads back |
| `Codec` | frames byte by byte |
| `Grammar` | the sizes of all messages that can be generated |
| `Covers` | the printable prefix of a handshake datagram and the test it answers |
| `Draws` | the deterministic stream and the choices drawn from it |
| `Leases` | abstract: an address has one holder |
| `AddressPool`, `ClientRoute`, `HttpPairing`, `Startup` | data of the server and the daemon, with its operations |
| `Daemon` | the daemon with every goroutine that closes sessions; implements `Leases` |
| `DaemonProofs` | its theorems |
| `PortSequence` | the ports of a generation |
| `CoreClient` | the client core, a server that rotates and restarts, and the network |
| `RouteTakeover` | routes installed one by one, rolled back and released, as far as the tools do it |
| `LinuxClient`, `WindowsClient`, `AndroidClient` | the three clients over `CoreClient` |
| `Clients` | the three in one specification, with the properties they share |
| `ClientsProofs` | its theorems, and those on settings, invites and routes |
| `Settings` | files, forms and preferences of both ends, to the `Config` of the core |
| `Invites` | share links as read by Go and by Kotlin |
| `SplitRoutes` | which way a packet leaves once the routes are taken over |
| `MC...` | constants for TLC, and what the stateless modules say, said of states |

How they compose: `PacketChannel` instantiates `Datagram`, `ServerMux`
`SessionTable`, `Daemon` `Leases`, `ClientRoute` and `HttpPairing`; the other
compositions are extensions.  `Codec`, `Grammar`, `Covers`, `Draws`, `Keepalive`,
`Decoys`, `Openings`, `Settings`, `Invites` and `SplitRoutes` have no variables:
they are functions and sets translated from code that computes, and their
properties quantify over bounded inputs.  An MC module checks them as invariants
of the machine they serve, in the states where it relies on them
(`MessagesReadBack` while a message is on its way, `DialsItsServer` while a
session is open, `BypassedRight` while routes are taken over, and so on).  That
adds no interaction; it says where the result is used.

Definitions whose comment calls them a change for the worse, or that come right
before a definition of the same shape (`AcceptableUnbounded` before
`Acceptable`), are plausible mistakes: substituting one for the definition that
follows must break the property it is paired with in `PROJECT.json`.

### PacketChannel

`sent`, `base`, `seen` are `packetSend`, `packetBase` and the bitmap (as a set
of numbers above the base); `peerBase` and `ackDue` are the tracker's.  A frame
carries its number, because a nonce opens exactly one frame and `DecodePacket`
tries every unseen one in the window.  One action is one critical section under
`sessMu`: encoding and writing a frame (`SendPacket`, `SendRaw`), the loss check
after a send (`CheckGapSmall`, `CheckGapLarge`), the write of a SKIP with the
optimistic advance (`WriteSkip`), and the receipt of each kind of frame with the
ACK it may cause.  The loss check is a critical section of its own in the code,
so other senders get between it and the send, and between it and the write.
`got`, `asked`, `delivered`, `twice` are history.  Both ends run one set of
actions: `PacketTunnel` and `ServerTunnel` duplicate the code.  What differs is
a constant (the limiter, who emits frames outside the send path).

### ServerMux, Keepalive, Decoys

`pending`, `lastCreate`, `established`, `ready`, `closed` are the fields of the
same names.  A handshake and the session it becomes share an id, so that a
deletion by address that hits the wrong one is visible.  `reader`, `timer` and
`closer` say where the three goroutines are between critical sections of `m.mu`.
Closing a session is two steps, as in the code: the `closed` channel
(`MarkClosed`), then `onClose` (`Detach`); whoever else calls `Close` waits for
the first caller (`CloseReturned`, the semantics of `sync.Once`).  What a
datagram is (frame, first message or knock, message due, junk) is chosen by the
environment, since the code decides it by authentication; early returns that
change nothing are stutters.  Time is the three actions of `Clock`.

`Keepalive` runs one idle session for every pair of intervals: the client's
pump writes when its own side was quiet for an interval, the server's sweep
when the session was quiet, and neither answers the other.  `Decoys` has the
second-long window of decoy replies, the size and burst rules, the noise mask
and the delay of jitter.

Left out: statistics, failures of key derivation and of socket writes, the
inbound queue of a session, protocols and generations (see `Immune`).

### Immune, Openings

`Evaluate`, `BeginResponse`, `StoreThreat`, `Compare` are `evaluateThreat` and
the rest of an iteration of `immuneLoop`; a threat response calls
`rotateGeneration` in the middle, which can take long.  `rot[r]` holds the
locals of each caller of `rotateGeneration`; its actions follow the function
line by line: `Begin`, `CompileFails`, `Publish` (the base advances, the stream
sessions are listed), `Count` per mux, `Defer` or `SwapStream` and `SwapMux`,
`PushMux`, `PushStream`, `EndRotation`.  `served[l]` is the base of a listener's
window and the extra slot.  `transports` is what this server listens on, and
`Transport` its first: `setProbeMode` looks at no other.  A client dials a
generation of its probing range that a listener accepts; others time out and
change nothing.

`Openings` has the requests with which WebSocket and HTTP clients open, what a
listener answers them, and the handlers of a TCP listener that race for the cap
and for the places of held decoys.  Both are looked at first and counted up
after; `raced` is history, the handlers that looked at the number of decoys
beside another one.

`ServerFirst` are the generations whose handshake the server begins: a mux
takes the knock for one of them for the base's, so it serves them as the base
only.  Which knock a stream listener takes for which generation is left open
here and worked out in `CoreClient` (`Taken`).

Left out: closing the server.

### Handshake, StreamHandshake, ReplayTable

A client is one attempt, `heard[c]` the messages it has taken in order; a
handshake of the server has `script[h]`.  `EncodeStep` and `RecvStep` advance
these sequences; the transcript and the mixing of ephemeral keys at the key
steps of each pattern give the session keys as terms (`SessionKeys`).  The
server's half is `selectHandshake`, `advance`, `retransmit` and
`finishHandshake` of the mux, with `ReplayTable` for the check of first
datagrams; the timer of either end may fire at any time.  A restart empties the
memory and reloads the file.  `StreamHandshake` replaces the network by two byte
streams per client: a frame is a header and a body, a deadline between the two
loses the place (`at = "lost"`).

### Codec, Grammar, Covers, Draws

`Encode`, `Decode`, `ReadFrame` and segments over layouts with the length field
anywhere; the sizes of every message of the grammar with padding, ladder and
cover; the heuristics a cover has to pass; the stream, its rejection sampling
and weighted choices, and the order in which a design is drawn.

### Daemon and what it is made of

`stage` is how far a session has come, `open` which sessions are not closed,
`job` which `Close` each goroutine is in the middle of.  Goroutines are the
stream handlers, the pumps, the reapers, the accept loop and the main goroutine
in `Server.Close`.  `boot` is `Server.Start`: transports bind in order and the
first failure undoes all.  Leases and routes are records updated by the operators
of `AddressPool` and `ClientRoute`, pairs by those of `HttpPairing`.  A client
sends from the address it was granted or from the one it falls back on
(`setup.local`), in the pool or not: `register` checks neither.

### Clients

`sess` are the sessions of the client process, `world` the server and the
network.  `unix`, `win` and `droid` are where each front end is.  A step is what
its goroutine does between two blocking calls: dialing, waiting for the address,
running, releasing, backing off.  `RouteTakeover` gives all outcomes of a series
of route changes that may fail at any step, deletions included: a route whose
deletion fails is forgotten and stays in the system (`refused` remembers it, as
history), until it is installed again or its device is closed.  So does the
resolver of the Linux client.  A default half that stays without the way to the
server swallows the session (`HalfStays`, `Swallows`).  `Window`, ports and generations
decide whether a dial comes up, times out or is refused, as in `StartContext`;
`Taken` is what the server takes a first message for, a knock in particular.

### Settings, Invites, SplitRoutes

Functions from files, forms and links to a configuration (a set: empty when
refused), for both ends and all platforms; from links to profiles, once as Go
reads them and once as Kotlin does; from the adapters, networks and routes of a
host to the adapter by which an address leaves.  Android's service refuses a transport
that is not spelled as the core spells it, HTTP, and hops out of range; a number
of a JSON invite goes through a float64 in Go (`Float`).  IPv4 and its networks are
constants of `SplitRoutes`: a network is the set of its addresses, and the
longest prefix is the innermost of those an address is in.

## 3. Runs

| Run | Expect | What it shows |
|---|---|---|
| `packet_channel` | pass | `WindowBehindSender`, `BeliefOnlyAheadBySkip`, `WedgeIsPermanent`, `ImplementsDatagram` with loss, duplication, reordering, concurrent senders, write errors and the limiter |
| `packet_channel_wedge` | violation of `NeverWedged` | losing one frame and the SKIP for it stops the direction |
| `packet_channel_twice` | violation of `AtMostOnce` | a SKIP that is overtaken lets a duplicate through |
| `server_mux` | pass | three addresses, cap two: `TablesSound` (types, disjoint tables, cap), `OpenSessionsRouted`, `ReadLoopNeverWaits`, `ImplementsSessionTable` |
| `server_mux_life` | pass | one address, `Close`, reaping, vanishing client: `SilentClientsForgotten`, `SessionsReachApplication`; and `IdleSessionKept`, `ChaffBounded` |
| `server_mux_close` | violation of `CloseShutsAll` | a session published during `Close` stays open |
| `immune` | pass | `ClientsBehindServer`, `ListenersSound`, `DefenceMatchesThreat`, `StreamDoorsKept`, `NeverRotatesBack`, `RotationReleases` |
| `immune_stale` | violation of `OneStaleReconnects` | deferred rotations strand clients one step behind |
| `immune_calm` | violation of `Deescalates` | the defence never comes down |
| `handshake` | pass | `KeysAgree`, `AdmittedOnce`, `StreamsSound`, `RestartRemembers`, `StrandedFails` for every pattern over three transports; `MessagesReadBack`, `TrafficShaped` |
| `daemon` | pass | `ListensOnAll`, `RoutesSound`, `ImplementsLeases`, `LeaseLostOnlyClosed`, `TimeoutSparesSession`, `ClosedForgotten`, `Answered` |
| `clients` | pass | `LeavesNothing`, `SessionsClosed`, `Reconnects` in ten deployments; `DialsItsServer`, `ServedAsWritten`, `InvitedAlike`, `BypassedRight` |

The violations are disagreements between the code and what a comment or document
says of it; `PROJECT.json` quotes each under "findings".  Several passing
properties state what the code does where that is less than one would wish:
`Stranded`, `MayBeLeft` and `refused` in `Clients`, `Stranded` in `Handshake`,
`raced` in `Openings`, the udp-first server of `DefenceMatchesThreat` and the
closed holder of `LeaseLostOnlyClosed` name each such case, and the property says
there is no other.  Section 6 lists them.

### Bounds

* `packet_channel`: window 3, SKIP at 2, ACK at 2.  Five server frames are enough
  for two sends, a loss check with a SKIP, a keepalive and a frame past the
  window, in any order; two client frames for one ACK and one frame after it.
  The proportions of the code (SKIP at 3/4 of the window) are kept in the wedge
  run, window 8 and SKIP at 6, where only the first data frame and the first
  SKIP can be lost.
* `server_mux`: three addresses for two slots, three handshakes, a backlog of
  one, so that the cap, the shed and the second handshake of an address happen;
  pattern c_s_c.  Addresses are symmetric.  Two handshakes at one address are
  what deletion by address can confuse, which both passing runs contain.
  `server_mux_close` uses s_c, the pattern of the shortest counterexample.
* `Keepalive`: time in sweeps, 25 s being 8 of them, 40 sweeps ahead
  (`Horizon`), which is more than two of the longest interval behind the longest
  timeout; a frame arrives within a sweep and none is lost.  `Decoys`: seconds
  of four ticks, two decoys a second, up to seven requests within two seconds,
  enough to straddle two windows with both full.
* `immune`: two muxes and the streams, two rotations, so that both callers
  rotate and one may be deferred; one client (what it learns does not depend on
  the others, except that a handshake in flight defers a rotation).  One server
  lists TCP and one UDP before TCP (`TransportLists`).  Bursts of 40 probes and
  of 20 replays reach every threat level.  `immune_stale` has two clients, one
  to stay behind and one to keep a handshake in flight, and a third rotation,
  because with window 1 two deferrals are needed; with window 2, the value the
  programs ship with, it takes three.  Generation 1 is server-first in `immune`.
  `Openings`: three connections to two ports with caps of one; the caps do not
  count WebSocket and HTTP handlers, and a certificate names its host.
* `handshake`: two attempts, two ports, two handshakes of the server
  (`MaxHandshakes`), one restart, a table of one entry that lives an hour of two
  (`MaxTime`), two frames on a stream (`MaxQueue`), all six patterns.  Attempts
  and ports are symmetric; every property of the run is an invariant or about
  single steps, so the reduction is sound.
* `Codec`: plain fields of one or two bytes with the length field in every
  position, payloads of 0 and 3 bytes, one or two segments.  `Grammar`: the ends
  of every range of field sizes and a few values between; the largest value of a
  4-byte length field is cut to 2^31-1.  `Covers`: two of the ten method
  beginnings, covers of 24 and 32 bytes, two frames.  `Draws`: words of 9 bits,
  blocks of 3 bytes, streams of four sample words.
* `daemon`: four setups with two sessions of one client behind one host, a pool of
  one address and an address outside it to fall back on (`Outside`), and one with
  two clients that both fall back on the first address of a pool of two; a backlog
  and cap of one, two hop ports, one waiting packet per session.  Two
  sessions that have had the same address are what every hazard here needs.
  Each session is one connection and is used once.
* `clients`: one client at a time, four sessions alive in its process (`Ids`),
  up to three generations above the one first seen (`upTo`), one restart, one
  failed reconnect in a row for the five of Android (`MaxAttempts`), one waiting
  call of a user, one route left in the system at a time because its deletion
  failed (`MaxRefusals`).  Generations 1 and 2 are server-first, and the covers of 0 and
  1 of one length, so that knocks are taken rightly, wrongly and not at all.
  From some moment on the network is calm: it neither loses nor delays.
* `Settings`, `Invites`, `SplitRoutes`: each field with the spellings the code
  tells apart; numbers end at 100 (`MaxLong`) with one beyond, and are exact in
  a float64 up to 64 (`MaxExact`, for 2^53), with 77 as one that is not; sixteen
  addresses for IPv4, two halves of eight, and networks of one to four
  addresses.

Deadlock is checked where the system never stops (`server_mux`, `immune`,
`handshake`).  The packet channel stops at its bound on frames, a mux that is
closed, a daemon that has ended and a client that was stopped stop.

### Fairness

* `ServerMux`: weak fairness of the read loop with a datagram in hand, of the
  timer loop, of a pending `onClose`, of time, and of `Accept`.  The first three
  are goroutines that are never blocked (this is what `ReadLoopNeverWaits`
  checks); the daemon calls `Accept` in a loop.  No fairness makes a client send
  or the mux close, and `SessionsReachApplication` needs none of either.
* `Immune`: weak fairness of the monitor and of each rotation's next step.  The
  write to a stream client is the one step that may block, and it is disabled
  while the client does not read: `RotationReleases` says so in its conclusion.
* `Daemon`: weak fairness of each pump and of all other goroutines together.
  The others take finitely many steps, so this is fairness to each; deadlines of
  handshakes and of pairing are among them.  No client sends or hangs up.
* `Clients`: weak fairness of the goroutine that works, of Android's reconnect,
  of what watches the link, and of an assigned address on a link that works.
  The network becoming calm is an assumption of `Reconnects`, not fairness, and
  no user acts by fairness.

## 4. Proofs

`PacketChannelProofs` proves for every value of the constants (under
`ChannelAssumption`: positive window, SKIP span and ACK interval):

* `TypeCorrect`: `Spec => []TypeOK`;
* `WindowStaysBehind`: `Spec => []WindowBehindSender`;
* `BeliefIsSound`: `Spec => []BeliefOnlyAheadBySkip`;
* `WedgeForGood`: `Spec => WedgeIsPermanent`;
* `ChannelImplementsDatagram`: `Spec => ImplementsDatagram`.

They rest on one inductive invariant (`ChannelInvariant`).  None of the
properties is inductive by itself: that the window stays behind the sender needs
that every frame in flight, or encoded and not yet written, has a number already
used and, if it is a SKIP, names its own number as target; that an ACK does not
overstate needs that every ACK in flight carries a position its sender's base has
reached, and that bases only grow; that `Datagram` is implemented needs `got` to
hold exactly the numbers the bitmap and the base account for since the last
SKIP.  The lemmas about `Slide` (it returns the least number from the base on
that is not marked) are proved once from the existence of a least element and
used by every receiving action.  The step proofs split `Next` into its actions
and each action into the conjuncts it can disturb.

`ServerMuxProofs` proves for any finite set of addresses, any handshake pattern
that ends with both ends having spoken, and any cap, backlog and number of
handshakes (`MuxAssumption`):

* `SessionsStayRouted`: `Spec => []OpenSessionsRouted`;
* `TablesStaySound`: `Spec => []TablesSound` (types, disjoint tables, cap);
* `MuxImplementsTable`: `Spec => ImplementsSessionTable`.

That an open session is the one its address is routed to is not inductive: the
read loop works on a handshake it has already taken out of a table, between two
critical sections, and a session's `onClose` deletes by address.  The invariant
`IInv` therefore also says what the read loop may hold: the handshake in hand is
one that was started, its address has no session until it is published
(`InHandSound`), what a table holds under an address was started for that address
(`Addressed`), ids not given out have no session (`Fresh`), a session that closes
is routed until it has been detached (`Routed`), and the tables are reset only
once `closed` is set (`ClosedFirst`).  The cap needs one more conjunct: the
handshake in hand still counts while it is in neither table, which is why
`HandshakeStart` and the publication of a session cannot both pass (`CapKept`,
with the finite-set theorems).  The refinement maps each goroutine's step to one
step of `SessionTable` or to none.

`ImmuneProofs` proves for any number of muxes and clients, any window, bursts of
probing and number of rotations (`ImmuneAssumption`):

* `ListenersStaySound`: `Spec => []ListenersSound`;
* `ClientsStayBehind`: `Spec => []ClientsBehindServer`;
* `RotationsGoForward`: `Spec => NeverRotatesBack`;
* `DefenceHolds`: `Spec => []DefenceMatchesThreat`.

All but the last rest on `IInv`: the flag `rotating` admits one caller
(`OneRotates`), that caller's locals are those of the base generation it read or
stored (`WorksOnNext`), and the listeners it has swapped are at its generation
while, before its first swap and after its last, all are alike (`SwapsSound`).  The last
needs `MonitorInStep`, of servers whose first transport is a stream: what the
monitor has answered so far is the threat level it remembers, which between a level
change and the end of its rotation is not yet the one evaluated.

The same module proves of `Openings`, for any seeds, generations, profiles and
caps, and any connections to any ports, opened in any way (`OpeningsAssumption`:
finitely many of them; that a seed's and generation's path is no other's is how the
model has it, a pair of the two in place of an HMAC):

* `ListenersKnowTheirOwn`: `OnlyItsOwn`;
* `DoorsAreKept`: `\A mode : DoorsKept(mode)`;
* `DoorsStayKept`: `Spec => []StreamDoorsKept`.

What the doors can come to is a recursive function of the number of steps.  Its
sets are sound by induction over that number; `CountedOn` is the induction
principle, for a set of numbers instead of a predicate, from the library's theorem
that `<` on the naturals is well founded (`WFMin`).  The invariant `DoorsInv` says
that the counter `pending` is the number of handlers at work and `decoys` the
number of connections held (`Counted`), that the decoys and those about to be are
above their cap by those alone that looked beside another one (`Roomed`), that a
port's accept loop looks at the cap before it adds one and each port has one loop,
so the excess is at most one per further port (`Capped`), and that an alert answers
a TLS hello under the TLS defence (`AlertsTls`).

`MuxLifeProofs` proves of one session in the multiplexer and what it sends beside
its data

* `IdleSessionsStay`: `Spec => []IdleSessionKept`, for any configured intervals and
  idle timeouts and any horizon (`KeepaliveAssumption`: the default interval is not
  zero, and a quarter of an interval is a whole number of sweeps);
* `ChaffStaysBounded`: `Spec => []ChaffBounded`, for any sequences of times in
  order, any sizes, ticks to a second and limits (`DecoyAssumption`: the gap of the
  noise is a tick at least).

For the first, `Reached` is followed sweep by sweep with the same induction.  The
invariant `KeptSoFar` ties the two ends' clocks to each other (`Linked`): when the
server last heard is when the client last sent, a pump that is asleep wakes before
its silence has lasted an interval and a quarter (`Paced`), and a multiplexer that
waits for longer than that never closes (`Patient`).  It has to be said of the
moments before and after each end has acted, since either may be first.  For the
second, two replies that are granted have different places in a window or windows
that do not overlap (`WindowsApart`), and two noise frames are a gap apart
(`NoiseApart`), by induction over the requests between them; so the frames of any
second map one to one into pairs of a window and a place, or into the gaps of a
second, and are no more than those (`PairsCount`, `NumbersCount`, from the
finite-set theorem on injections).

`DaemonProofs` proves for any sessions over any transports, any listeners, pool,
backlog and cap (`PoolAssumption`, `DaemonAssumption`: the pool of a server is not
empty, and some transport is listed, as `NormalizeConfig` of `core/core.go:156`
sees to; nothing is assumed of the addresses clients send from):

* `RoutesStaySound`: `Spec => []RoutesSound`;
* `PoolImplementsLeases`: `Spec => ImplementsLeases`;
* `LeasesLostOnlyByClosing`: `Spec => LeaseLostOnlyClosed`;
* `TimeoutsSpareSessions`: `Spec => TimeoutSparesSession`;
* `RunningListensOnAll`: `Spec => []ListensOnAll`.

Their invariant `IInv` has the agreement of the routing table's three maps,
which `Register`, `ReapRoamed` and `Remove` preserve by themselves (lemmas about
`ClientRoute`), and what the pool needs: an address granted to a session not yet
closed is marked and nobody else's (`LeaseSound`).  That holds because a session
is granted one only once, so the queue names it once and not while the accept
loop has it (`QueueSound`), and because only sessions that have one, or need
none, have a pump, a place in the table or a place in another pump's list
(`PumpSound`).  That a lease is lost in the routing table only by closing its
holder rests on `register`, which hands the session it displaces to the caller
to close, and on the pump that starts registering nothing but its own grant,
which is no other session's.  The last two theorems have invariants of their
own: `MetSound`, that neither request of a session that has started is waited
for any more, except a download that came first, and `BootSound`, what has been
bound when the next port is the p-th of the k-th transport, and how many sockets
that is.

`HandshakeProofs` proves, over datagrams and over streams, for any clients, ports,
patterns and sizes of the replay table, and any number of handshakes and restarts
(`TableAssumption`, `HandshakeAssumption`: a client is not a handshake's id, and in
every pattern both ends speak; `StreamAssumption`):

* `FirstsAdmittedOnce`: `Spec => []AdmittedOnce`;
* `KeysOfBothEndsAgree`: `Spec => []KeysAgree`;
* `RestartsRemember`: `Spec => RestartRemembers`;
* `WhoIsStrandedFails`: `Spec => StrandedFails`.

The invariant `IInv` has, besides types, who says what: a server's transcript is
the pattern with the client's and the handshake's own messages in their places
(`ScriptSound`); a message under way says who sent it, at a step which is that
side's turn, and if it is the server's, from a handshake started for that client
(`MessagesSound`, of the datagrams and of what the streams hold, whatever place
the reader has lost); so what a client has heard is its own or such a handshake's
(`HeardSound`).  Why there is only one such handshake is `FirstsGuarded`: the
first message of every handshake started is fresh in the table of the port its
client dials, or the stream it came on is past its first frame, or it is among
the forgotten; what is fresh stays so when another one is recorded
(`RecordedKeeps`).  With `AdmittedOnce` the two transcripts are then equal entry by
entry, which gives the keys, since each side's keyed message exists
(`KeySteps`, from the greatest and the least element of a finite set of numbers).
`RestartsRemember` needs that with one port the file has what the table has
(`FileSound`); `WhoIsStrandedFails` follows from the step cases and the types.

`StreamProofs` proves of the same model, when the transport is a stream,

* `StreamsStaySound`: `Spec => []StreamsSound`,

of `Grammar` and `Covers`, for any MTU a datagram can carry, any sizes to try and
any covers, marks and frames (`GrammarAssumption`, `CoverAssumption`),

* `TrafficStaysShaped`: `Spec => []TrafficShaped`,

and of `Codec` and `Draws`, for any layouts with one length field, any payloads, and
words and blocks of any width (`LayoutsAssumption`, `DrawsAssumption`),

* `MessagesAlwaysReadBack`: `Spec => []MessagesReadBack`.

The first adds to the invariant of `HandshakeProofs` types, bounds on the tables and the
counters, and `LinksSound`: what a client's stream holds are messages of its own,
none past what it has said; as long as the server still follows the stream, each
it waits for comes there in the order of the pattern, and none that was sent is
missing; the client is never ahead of the server; and a stream is over its bound
by one frame at most, the one to the client only while it holds the answer sent
last, which the client has not read.  That last part is what keeps the bound
inductive: the server may add one answer whatever the stream holds, and then
waits.

The second is about what computes, not about what moves: each of its four parts is
proved by itself.  A length comes out of the band by the case of `WireLen` that made
it.  A padding reaches its rung because the next rung is the least above the length,
found among finitely many, and `pad_length` holds what is missing unless it is one
byte.  The largest frame is bounded once, from the largest field widths of the
grammar, and every width of length field holds that bound.  A cover is exempt by its
first four bytes and by how many of its bytes are printable: writing a mark leaves
the rest of it, and what the mark begins with is what `Spells` excludes.

The third cuts what is written at the places where it was joined: where a field begins
is the sum of what comes before it (`OffsetsAre`, `PieceCut`), and the length field
says where the frame ends whichever part of it the layout counts (`FrameEndIs`), so the
pieces come back one by one (`PlaintextReadBack`, `FrameDecodes`).  A value below n is
drawn from as many words as any other because the number of words is a multiple of the
mask's (`MaskIs`, `ValuesFair`), an index from as many as it weighs because the sums of
the weights only grow (`IndexFair`), and every order is reached by some draws because
an order of n fields is one of n - 1 after a swap (`OrderReached`, `PermsFair`).  Reads
of a stream join to its beginning by induction over the reads (`ReadsAre`).

`ClientsProofs` proves for any deployments, generations and ports
(`CoreAssumption`: typed deployments, session numbers above 0):

* `SessionsStayClosed`: `Spec => SessionsClosed`;
* `StoppedLeavesNothing`: `Spec => []LeavesNothing`;

for any server files whose fields have the types of the structure they are read into
(`SettingsAssumption`; texts are any set that has the words the code knows),

* `ServersServeWhatIsWritten`: `Spec => []ServedAsWritten`;
* `FrontEndsMeetTheirServer`: `Spec => []DialsItsServer`;

and for any texts that are one of the three forms, with strings, numbers and nulls
for values, where no number is a key of 64 digits, and for any limit of exact numbers
(`InvitesAssumption`; nothing is asked of how Go rounds beyond it),

* `InvitesAreReadAlike`: `Spec => []InvitedAlike`;

and for any hosts, with any adapters, databases and lists of private networks
(`RoutesAssumption`),

* `TakeoverKeepsTheBypass`: `Spec => []BypassedRight`.

What `RoutesAssumption` asks of a host is what the code presumes of it: networks
left outside are nested or apart, as prefixes are, and every network is less
than a half, so the two routes of the takeover win over the default and lose
against all others; adapters are on the same network or on networks apart, so
`choosePhysicalAdapter`, which compares only metrics, has one network to compare
on; none of them is the server alone, a route the takeover would share; and no
network left outside is a part of the tunnel's.  Another program's own halves,
or one adapter's network inside another's, are beyond it.

Which port or generation is answered plays no part: whether a dial works is left
open, so the theorems hold of every way it may end.  The invariant says that only
the platform's own client acts (`OneActs`), and then, for each platform, who has
which session.  Linux (`UnixSound`): there is a next session exactly while its
address is waited for, and every system route is a remembered one or was refused.  Windows
(`WinSound`): a start that dials has no session yet, without a bridge no route is
remembered, and once a stop has the lock nothing is wanted, and nothing held when
it is done, unless the watchdog overrode it.  Android (`DroidSound`): each
coroutine has a session of its own while it waits; that of `startVpn` is the
instance's handle as long as it is open; and `isRunning` outlives its instance
only when a coroutine sets it late.

The other four are about functions, as `TrafficStaysShaped` is.  That
`NormalizeConfig` has nothing left to do on what it returned needs, field by field,
that each default is a fixed point, and of the two lists: what `Distinct` keeps has no
doubles and no blanks, which is an induction over the list (`DistinctKeeps`), and a
list without doubles has one sorted order, which exists by inserting one element
after the other (`CanBeOrdered`) and is the only one.  The decoys are the exception
the property states.  For the front ends the settings a user is told are a deal
(`Deal`): what they have in common with the server's configuration.  Each of the nine
ways is a lemma that carries the deal through its form, its file and the core, to one
configuration of which `MeetsIf` says whether it meets.  For the invites, `FirstOf`
picks the least index at which something stands; a key Android takes where Go takes
none is the text `null` or a number, neither of which is a key (`KeysAlike`); and a
number both accept is in the range both have (`NumbersAlike`, `NumberOf`).  For the
routes, where the innermost network of an address is known, its way is known too
(`Leads`, `OneWay`; `Among`, `BestWay` for the adapters' own routes); so each kind of
address needs its innermost network and all the routes to it: the server itself, the
tunnel's network, one of those left outside (`Narrowest`: the smallest that has it),
or else a half.  That the adapter chosen is the one the server was reached by then
compares least metrics (`PhysicalKeeps`, `UnderlayKeeps`).

The inductions are over the natural numbers as a set (`CountedOn`, from the
well-founded induction of the library, applied to a set rather than a predicate).

Only model-checked:

* the liveness properties, and `ReadLoopNeverWaits`, which uses ENABLED.

The violations are TLC counterexamples.

## 5. Not modelled

* The two `chnroute_v4.go` files, 11000 lines of generated network numbers
  (`SplitRoutes` has how they are used).
* Operating-system calls: TUN devices, sockets, `ip`, `netsh`, `resolvectl`,
  Wintun.  Where a model uses one it succeeds or fails.
* Cryptography: authentication is a verdict of the environment (`ServerMux`), a
  property of a nonce (`PacketChannel`) or of a key term (`Handshake`).
* User interfaces: the Windows window and tray, Android's activity and
  notifications, beyond the calls they make and the settings they save.
* Offline tools: traffic evaluation and code generation.
* The tunnel check of `chimerac -check` with its ICMP packets, statistics and
  getters: nothing else depends on them.
* The entropy accounting and fingerprint of a genome; a late HTTP request, whose
  other half has given up; packets that are not IPv4; the daemon's read-only
  lookup of a packet from the TUN.
* `Client.SendPacket` holds `Client.mu` while it writes (`core/core.go`): on a
  stream whose peer has stopped reading, `IdleFor` and `Close` wait for that
  write, so the watchdog waits too until TCP gives the connection up.  The client
  models let a write fail but not block.

Abstractions a reader should know of: a new Android service starts only when the
coroutines of the destroyed one have ended; the thread in which `stopVpn` closes
the session is atomic; a generation pushed while connected matters only to Linux,
whose client alone adopts it; a failing route step is `RouteTakeover`'s and not
`SplitRoutes`'; the daemon's clients act only while the server runs, and fall
silent only when their packets have been pumped.

## 6. Where code and comments differ

The five runs that expect a violation show the disagreements with the largest
effect.  These others were met while modelling; the properties above hold
because they state what the code does.

Sessions and shaping

* The threat response.  "elevated probing escalates the TCP first-frame defense
  from silent to TLS mimicry" and "attack-level traffic goes to close"
  (`README.md:83`), of a server that may list `["udp", "tcp"]` (`README.md:71`):
  `NormalizeConfig` makes udp its `Transport` (`core/core.go:183`), and
  `setProbeMode` returns on that (`core/immune.go:264-267`), so its TCP listeners
  keep the configured defence at every threat.  `DefenceMatchesThreat` says both
  halves.
* `StreamDecoyMaxPending` "caps concurrent unauthenticated TCP conns"
  (`core/core.go:45`; `docs/PROTOCOL.md:144`, `docs/DEPLOY.md:64`): the number is
  read and then added to (`core/stream_probe.go:24-28`), so as many handlers as
  look before the first has added pass it together.  `StreamDoorsKept` bounds the
  excess by those that did; nothing but the number of handlers bounds them.
* Idle links.  The server's keepalives count as traffic for the client's pump,
  and control frames are not acknowledged: with equal intervals (25 s, the
  default) the client says nothing, and a server with `idle_timeout` (180 s)
  reaps it alive; with a shorter client interval the server says nothing and the
  client's 90 s watchdog reconnects.  No setting gives both (`IdleSessionKept`;
  compare `core/core.go:626-629`, `docs/PROTOCOL.md:75-78`).
* `MaxSessions` "caps established clients" (`core/core.go:98`); TCP listeners
  compare it with handlers in progress only, WebSocket and HTTP not at all.
* `Conn.Generation` of a stream session is the index in the window
  (`internal/tunnel/stream.go:193`).
* "Server-first knocks still bind to the base generation"
  (`core/core.go:88-90`): on a stream they bind to the first server-first
  generation of the window, and only if its covers are as long as the base's
  (`internal/tunnel/stream.go:196-203`); a stream checks no knock for replay.
* Decoys: the budget is per mux, not process-wide; a burst of 8 replies goes
  over the amplification ratio; the burst cannot be set from `server.json`.
* A probe mark may spell an HTTP method although `fep.go:97` says it must not be
  emitted as a cover; `ProbeMark` "must match the server's" although the cover
  is not authenticated.
* `tunnel.go:176` calls the jitter uniform; it is a truncated exponential.
* `generator.go:394` and `:417` state closed ranges that are half-open in the
  code; "every other design choice bit-identical" of `GenerateWithCipher` is not
  true of cover length and pad target, which come from a fingerprint that
  includes the cipher; `handshakePadTarget` draws from one byte, so only targets
  from 701 to 956 occur.

Server and configuration

* "The server hands each client a unique TUN address ... the fallback used when the
  server has no client_cidr configured" (`README.md:207`).  Grants are unique
  (`ImplementsLeases`), addresses in use are not: the Windows and Android clients
  fall back also when the address does not come in time
  (`apps/windows/app.go:219-226`, `ChimeraVpnService.kt:199-200`), by default on
  10.99.0.2 (`app.go:178-181`, `ChimeraVpnService.kt:565`, `ClientPrefs.kt:30`),
  the first address such a pool grants, and `register` of `cmd/chimerad/route.go`
  asks nobody whose it is.  The client that was granted it is closed by the other's
  first packet (`LeaseLostOnlyClosed`).
* A UDP port that cannot be bound hangs `Start` in the deferred `Close`
  (`core/core.go:862`); README.md:71 "every listed underlay at once", but all
  except UDP bind the same TCP port.
* `porthop.go:14` "base port always first" against `sort.Ints`; a spread of 1
  with more than one hop divides by zero (`porthop.go:61`).
* A negative `decoy_every` (off) is undone by normalising twice
  (`cmd/chimerad/config.go:29`, `main.go:60`).
* The cipher is carried only by the Linux file, not by forms or invites; an
  invite carries neither transports nor hops; the Windows front end and Android's
  service (`ChimeraVpnService.kt:95-104`) refuse http and https; an old Android
  library drops hops for TCP.
* `Invite.kt:13` "Keep in lockstep with Go": JSON invites differ for null, for
  numbers in string fields, and for a generation above 2^53 given as a number,
  which Go reads as a float64 (`internal/invite/invite.go:134-145`) and Kotlin
  exactly; an imported invite changes what an Android restart uses.

Clients

* "Release removes every route Install added" (`route_windows.go:234`): a deletion
  that fails is logged and its route forgotten, in `Release`, in the roll-back of
  `Install` (`route_windows.go:126-134`) and on Linux (`route_linux.go:128-144`);
  a resolver that is not reverted is tried again by nobody (`dns_linux.go:61-70`,
  called once).  `LeavesNothing` excepts what was refused.
* `core/core.go:381` and README.md:71 speak of preferring the transport that
  worked; the code does not.
* A restarted server serves its configured generation again, which a client that
  adopted a later one cannot reach; adopting a generation also changes the
  client's hop ports and WebSocket path, while the server's stay.
* Linux: a pump that ends by itself reconnects without `Close`
  (`tun_linux.go:134`); the server's name is resolved through the tunnel that is
  down; a changed address drops the last one of the interface; the exception for
  the server goes stale when the host moves.
* Windows: the watchdog overrides a `Stop` (against `app.go:58-64`); a bridge of
  which only the sending loop ended goes unnoticed; the user's own failed start
  is never retried; a country batch broken off is not remembered for removal.
  "Once set, mainland-direct routes are extracted from the database in real time"
  (`app.go:35-36`, translated; also `core_bridge_transport.go:115`): `start` makes
  its configuration anew without `GeoipDb` (`app.go:182-193`), so the Windows
  client always takes the snapshot.  On Linux an empty list of the database is
  taken as it is, and `geoip.go:50` reuses a record between networks.
* Android: a session or interface may come after the stop; `isRunning` is shared
  by instances; a failed `establishTun` leaks the handle; after five failures
  the client gives up.

## 7. Plan

Done: every module of section 2, with its runs, and the proofs of section 4.
Left: a blocking write in `CoreClient`.
