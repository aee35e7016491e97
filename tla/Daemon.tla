-------------------------------- MODULE Daemon --------------------------------
(***************************************************************************)
(* chimerad from the start of its listeners to the end of the process: the   *)
(* stream handlers and the mux feed one accept queue (core/core.go), the    *)
(* accept loop grants an address and starts a pump for each session, pumps  *)
(* register the source addresses they see and close the sessions these      *)
(* displace (cmd/chimerad/main.go), and Server.Close ends it all.           *)
(*                                                                          *)
(* A session is closed by whoever gets there: its own pump, another         *)
(* session's pump, its reaper, the accept loop, its handler, Server.Close.  *)
(* `job' is the Close each of these goroutines is in the middle of.         *)
(***************************************************************************)
EXTENDS AddressPool, Startup

CONSTANTS
  Sessions,    \* client sessions, each one connection
  Setups,      \* what the sessions come over, whether client_cidr is set and how many
               \* addresses it has, the address each client falls back on, whether
               \* streams have a keepalive goroutine, and what the server listens on
  HostOf,      \* the remote host of each, if it is not the one that ...
  HttpRemote,  \* ... every HTTP session has
  Outside,     \* addresses that are not the pool's
  Backlog,     \* capacity of acceptCh
  MaxSessions, \* cap on stream handshakes, 0 for none
  NoLease,     \* no address
  NoSession    \* no session

Places == Addresses \cup Outside

ASSUME DaemonAssumption ==
  /\ Setups \subseteq [kind : [Sessions -> {"udp", "tcp", "http"}],
                       assigns : BOOLEAN, clients : 1 .. PoolSize,
                       local : [Sessions -> Places], keepalive : BOOLEAN,
                       transports : Seq({"udp", "tcp", "websocket", "wss", "http", "https"}),
                       ports : Nat \ {0}]
  /\ \A u \in Setups : u.transports # <<>>
  /\ NoSession \notin Sessions
  /\ NoLease \notin Places
  /\ Backlog \in Nat \ {0}
  /\ MaxSessions \in Nat

VARIABLES
  setup,      \* one of Setups
  boot,       \* how far Server.Start has come
  stage,      \* how far each session has come
  open,       \* sessions whose tunnel is not closed
  hungUp,     \* streams the client has closed
  queue,      \* acceptCh
  loop,       \* the accept loop: what it does with which session
  registered, \* tcpSessions
  pool,       \* the address pool
  lease,      \* the address each session was granted
  ended,      \* sessions whose Conn.Close has begun (closeOnce)
  routes,     \* the routing table
  inbox,      \* the source of a packet waiting to be received
  quiet,      \* sessions silent for as long as roaming and idle reaping need
  pump,       \* each session's pump: where it is, with which packet
  todo,       \* the sessions it has still to close
  job,        \* the Close each goroutine is in
  pumping,    \* streams whose keepalive goroutine is not stopped (kaCancel)
  main,       \* the process
  pair,       \* the two requests of an HTTP session
  left        \* the streams Server.Close has still to close

sessionVars == <<stage, open, hungUp, registered, ended, pumping>>
poolVars == <<pool, lease>>
pumpVars == <<routes, inbox, quiet, pump, todo>>
vars == <<setup, boot, sessionVars, poolVars, queue, loop, pumpVars, job, main, left, pair>>

Goroutines == {"pump", "reaper", "handler"} \X Sessions \cup {"accept", "server"} \X {NoSession}
Pump(s) == <<"pump", s>>
Reaper(s) == <<"reaper", s>>
Handler(s) == <<"handler", s>>
Acceptor == <<"accept", NoSession>>
Server == <<"server", NoSession>>

NoJob == [of |-> NoSession, at |-> "none"]

Pairing == INSTANCE HttpPairing

\* hostIP(RemoteAddr())
RemoteHost == [s \in Sessions |-> IF setup.kind[s] = "http" THEN HttpRemote ELSE HostOf[s]]

Routes == INSTANCE ClientRoute WITH
  HostOf <- RemoteHost,
  NoPlace <- NoLease

Streams == {s \in Sessions : setup.kind[s] # "udp"}
HttpLegs == {s \in Sessions : setup.kind[s] = "http"}

Init ==
  /\ setup \in Setups
  /\ boot = NewBoot
  /\ stage = [s \in Sessions |-> "idle"]
  /\ open = {}
  /\ hungUp = {}
  /\ queue = <<>>
  /\ loop = [at |-> "accept", of |-> NoSession]
  /\ registered = {}
  /\ pool = NewPool(setup.clients)
  /\ lease = [s \in Sessions |-> NoLease]
  /\ ended = {}
  /\ routes = Routes!NewRoutes
  /\ inbox = [s \in Sessions |-> NoLease]
  /\ quiet = {}
  /\ pump = [s \in Sessions |-> [at |-> "none", src |-> NoLease]]
  /\ todo = [s \in Sessions |-> {}]
  /\ job = [g \in Goroutines |-> NoJob]
  /\ pumping = {}
  /\ main = "starting"
  /\ left = {}
  /\ pair = [s \in Sessions |-> Pairing!NewPair]

\* The process goes on: neither ended nor brought down by a panic.
Alive == main \in {"starting", "run", "stop", "closing"}

Idle(g) == job[g].at = "none"

------------------------------------------------------------------------------
(* Close *)

\* ServerTunnel.Close; or PacketTunnel.Close, which looks at kaCancel and then
\* calls it.  A makeConn that failed and a handler close no more than the tunnel.
CloseTunnel(g, s) ==
  job' = [job EXCEPT ![g] = [of |-> s, at |-> IF s \in pumping THEN "cancel" ELSE "shut"]]

\* Conn.Close: what runs once gives the address back and forgets the stream.
CloseConn(g, s) ==
  /\ CloseTunnel(g, s)
  /\ ended' = ended \cup {s}
  /\ registered' = registered \ {s}
  /\ pool' = IF s \in ended \/ lease[s] = NoLease THEN pool ELSE Released(pool, lease[s])

\* The tunnel is closed, after the keepalive goroutine has stopped and kaCancel
\* is nil.  If another closer has set it to nil since this one looked, the call
\* may be of a nil function.
CloseReturns(g) ==
  LET s == job[g].of IN
  /\ ~Idle(g)
  /\ job' = [job EXCEPT ![g] = NoJob]
  /\ open' = open \ {s}
  /\ pumping' = pumping \ {s}
  /\ UNCHANGED <<setup, boot, stage, hungUp, registered, ended, poolVars, queue, loop, pumpVars, main, left, pair>>

ClosePanics(g) ==
  /\ job[g].at = "cancel"
  /\ job[g].of \notin pumping
  /\ main' = "panicked"
  /\ UNCHANGED <<setup, boot, sessionVars, poolVars, queue, loop, pumpVars, job, left, pair>>

Closing(g) == CloseReturns(g) \/ ClosePanics(g)

------------------------------------------------------------------------------
(* Handlers: handleStreamConn of a stream, Accept's goroutine of a mux *)

pairFrame == <<setup, boot, poolVars, loop, pumpVars, main, left, ended, open, registered,
               pumping, queue, job>>
handlerFrame == <<setup, boot, poolVars, loop, pumpVars, main, left, hungUp, ended, pair>>

\* tcpPending
Handled == {s \in Sessions : setup.kind[s] = "tcp" /\ stage[s] \in {"shaking", "offered", "leaving"}}

Dial(s) ==
  LET full == /\ MaxSessions > 0
              /\ setup.kind[s] = "tcp"
              /\ Cardinality(Handled) >= MaxSessions
  IN
  /\ main = "run"
  /\ stage[s] = "idle"
  /\ s \notin HttpLegs
  /\ stage' = [stage EXCEPT ![s] =
       IF full THEN "gone" ELSE "shaking"]
  /\ UNCHANGED <<handlerFrame, open, registered, pumping, queue, job>>

\* A request comes; the second one starts the session in the place they wait at.
\* One that comes after the other has given up waits in vain, and is left out.
RequestComes(s) ==
  /\ main = "run"
  /\ s \in HttpLegs
  /\ stage[s] \in {"idle", "pairing"}
  /\ \/ pair[s].up = "none" /\ pair' = [pair EXCEPT ![s] = Pairing!UploadCome(@)]
     \/ pair[s].down = "none" /\ pair' = [pair EXCEPT ![s] = Pairing!DownloadCome(@)]
  /\ stage' = [stage EXCEPT ![s] =
       IF pair'[s].started THEN "shaking" ELSE "pairing"]
  /\ UNCHANGED <<pairFrame, hungUp>>

\* httpPairTimeout.  A download that gives up closes its half of a session that
\* has started, and the client closes the other.
RequestGivesUp(s) ==
  /\ \/ pair[s].up = "waits" /\ pair' = [pair EXCEPT ![s] = Pairing!UploadGivesUp(@)]
     \/ pair[s].down = "waits" /\ pair' = [pair EXCEPT ![s] = Pairing!DownloadGivesUp(@)]
  /\ IF pair[s].started
       THEN hungUp' = hungUp \cup {s} /\ UNCHANGED stage
       ELSE stage' = [stage EXCEPT ![s] = "gone"] /\ UNCHANGED hungUp
  /\ UNCHANGED pairFrame

\* The goroutine that served the session sees its connection closed.
PairEnds(s) ==
  /\ pair[s].listed /\ pair[s].started
  /\ stage[s] # "shaking"
  /\ s \notin open
  /\ pair' = [pair EXCEPT ![s] = Pairing!Dropped(@)]
  /\ UNCHANGED <<pairFrame, stage, hungUp>>

HandshakeDone(s) ==
  /\ stage[s] = "shaking"
  /\ s \in Streams \/ main # "closing"
  /\ stage' = [stage EXCEPT ![s] = "offered"]
  /\ open' = open \cup {s}
  /\ registered' = registered \cup ({s} \cap Streams)
  /\ pumping' = pumping \cup ({s} \cap IF setup.keepalive THEN Streams ELSE {})
  /\ UNCHANGED <<handlerFrame, queue, job>>

HandshakeFails(s) ==
  /\ stage[s] = "shaking"
  /\ stage' = [stage EXCEPT ![s] = "gone"]
  /\ UNCHANGED <<handlerFrame, open, registered, pumping, queue, job>>

Offer(s) ==
  /\ stage[s] = "offered"
  /\ Len(queue) < Backlog
  /\ queue' = Append(queue, s)
  /\ stage' = [stage EXCEPT ![s] = "queued"]
  /\ UNCHANGED <<handlerFrame, open, registered, pumping, job>>

CancelledForStreams(s) == s \in Streams /\ (main = "closing" \/ s \in HttpLegs \cap hungUp)

\* The context the handler was given: the server's, or its HTTP request's.
Cancelled(s) == main = "closing" \/ s \in HttpLegs \cap hungUp

OfferCancelled(s) ==
  /\ stage[s] = "offered"
  /\ Cancelled(s)
  /\ registered' = registered \ {s}
  /\ stage' = [stage EXCEPT ![s] = "leaving"]
  /\ CloseTunnel(Handler(s), s)
  /\ UNCHANGED <<handlerFrame, open, pumping, queue>>

Leave(s) ==
  /\ stage[s] = "leaving"
  /\ Idle(Handler(s))
  /\ stage' = [stage EXCEPT ![s] = "gone"]
  /\ UNCHANGED <<handlerFrame, open, registered, pumping, queue, job>>

HandlerStep(s) ==
  \/ RequestGivesUp(s) \/ PairEnds(s) \/ HandshakeDone(s) \/ HandshakeFails(s) \/ Offer(s) \/ OfferCancelled(s) \/ Leave(s)

------------------------------------------------------------------------------
(* The accept loop: Accept and makeConn *)

acceptFrame == <<setup, boot, open, hungUp, registered, ended, pumping,
                 routes, inbox, quiet, todo, main, left, pair>>

StartPump(s) ==
  /\ pump' = [pump EXCEPT ![s] = [at |-> "start", src |-> lease'[s]]]
  /\ stage' = [stage EXCEPT ![s] = "running"]
  /\ loop' = [at |-> "accept", of |-> NoSession]

GiveUp(s, how) ==
  /\ CloseTunnel(Acceptor, s)
  /\ stage' = [stage EXCEPT ![s] = how]
  /\ loop' = [at |-> "failed", of |-> s]
  /\ UNCHANGED pump

Accept ==
  LET s == Head(queue) IN
  /\ loop.at = "accept"
  /\ queue # <<>>
  /\ queue' = Tail(queue)
  /\ \/ ~setup.assigns /\ UNCHANGED poolVars /\ StartPump(s) /\ UNCHANGED job
     \/ setup.assigns /\ Exhausted(pool) /\ UNCHANGED poolVars /\ GiveUp(s, "refused")
     \/ /\ setup.assigns /\ ~Exhausted(pool)
        /\ lease' = [lease EXCEPT ![s] = NextFree(pool)]
        /\ pool' = Allocated(pool)
        /\ loop' = [at |-> "assign", of |-> s]
        /\ UNCHANGED <<stage, pump, job>>
  /\ UNCHANGED acceptFrame

\* SendControl; a write to a connection the client has closed may still succeed.
Assigned ==
  LET s == loop.of IN
  /\ loop.at = "assign"
  /\ s \in open
  /\ UNCHANGED poolVars
  /\ StartPump(s)
  /\ UNCHANGED <<queue, job, acceptFrame>>

AssignFailsKeeping ==
  LET s == loop.of IN
  /\ loop.at = "assign"
  /\ s \notin open \/ s \in hungUp
  /\ lease' = [lease EXCEPT ![s] = NoLease]
  /\ UNCHANGED pool
  /\ GiveUp(s, "unsent")
  /\ UNCHANGED <<queue, acceptFrame>>

AssignFails ==
  LET s == loop.of IN
  /\ loop.at = "assign"
  /\ s \notin open \/ s \in hungUp
  /\ lease' = [lease EXCEPT ![s] = NoLease]
  /\ pool' = Released(pool, lease[s])
  /\ GiveUp(s, "unsent")
  /\ UNCHANGED <<queue, acceptFrame>>

\* A failed makeConn ends the loop with a fatal error, the end of the daemon's
\* context ends it quietly.
LoopEnds ==
  /\ \/ loop.at = "failed" /\ Idle(Acceptor)
     \/ loop.at = "accept" /\ main # "run"
  /\ loop' = [loop EXCEPT !.at = "over"]
  /\ UNCHANGED <<acceptFrame, stage, poolVars, queue, pump, job>>

AcceptStep == Accept \/ Assigned \/ AssignFails \/ LoopEnds

------------------------------------------------------------------------------
(* Pumps: pumpClientToTun *)

pumpFrame == <<setup, boot, stage, hungUp, open, pumping, lease, queue, loop, main, left, pair>>
closeVars == <<job, ended, registered, pool>>

Goes(s, at) == pump' = [pump EXCEPT ![s].at = at]

\* The granted address is registered; whom it displaces is not looked at.
PumpStarts(s) ==
  /\ pump[s].at = "start"
  /\ routes' = IF lease[s] = NoLease THEN routes ELSE Routes!Register(routes, s, lease[s])
  /\ Goes(s, "receive")
  /\ UNCHANGED <<pumpFrame, inbox, quiet, todo, closeVars>>

\* A mux session that is closed still has its queue, and select may take from
\* it; a closed connection is not read any more, one the client closed is.
Received(s) ==
  /\ pump[s].at = "receive"
  /\ inbox[s] # NoLease
  /\ s \in open \/ s \notin Streams
  /\ pump' = [pump EXCEPT ![s] = [at |-> "register", src |-> inbox[s]]]
  /\ inbox' = [inbox EXCEPT ![s] = NoLease]
  /\ quiet' = IF s \in Streams THEN quiet \ {s} ELSE quiet
  /\ UNCHANGED <<pumpFrame, routes, todo, closeVars>>

RegisterSource(s) ==
  LET src == pump[s].src
      displaced == Routes!Displaced(routes, s, src)
  IN /\ pump[s].at = "register"
     /\ routes' = Routes!Register(routes, s, src)
     /\ Goes(s, "roam")
     /\ IF displaced = NoSession THEN UNCHANGED closeVars ELSE CloseConn(Pump(s), displaced)
     /\ UNCHANGED <<pumpFrame, inbox, quiet, todo>>

ReapRoamed(s) ==
  /\ pump[s].at = "roam"
  /\ Idle(Pump(s))
  /\ todo' = [todo EXCEPT ![s] = Routes!Roamed(routes, s, quiet)]
  /\ routes' = Routes!Reap(routes, s, quiet)
  /\ Goes(s, "write")
  /\ UNCHANGED <<pumpFrame, inbox, quiet, closeVars>>

CloseRoamed(s) ==
  /\ pump[s].at = "write"
  /\ Idle(Pump(s))
  /\ \E t \in todo[s] :
       /\ CloseConn(Pump(s), t)
       /\ todo' = [todo EXCEPT ![s] = @ \ {t}]
  /\ UNCHANGED <<pumpFrame, routes, inbox, quiet, pump>>

Written(s) ==
  /\ pump[s].at = "write"
  /\ Idle(Pump(s))
  /\ todo[s] = {}
  /\ main = "run"
  /\ pump' = [pump EXCEPT ![s] = [at |-> "receive", src |-> NoLease]]
  /\ UNCHANGED <<pumpFrame, routes, inbox, quiet, todo, closeVars>>

\* The session has ended, or the device refuses the packet.
Fails(s) ==
  \/ /\ pump[s].at = "receive"
     /\ s \notin open \/ (s \in hungUp /\ inbox[s] = NoLease)
  \/ pump[s].at = "write" /\ Idle(Pump(s)) /\ todo[s] = {}

PumpEndsRouted(s) ==
  /\ Fails(s)
  /\ pump' = [pump EXCEPT ![s] = [at |-> "over", src |-> NoLease]]
  /\ CloseConn(Pump(s), s)
  /\ UNCHANGED <<pumpFrame, routes, inbox, quiet, todo>>

\* The deferred remove, then the deferred Close.
PumpEnds(s) ==
  /\ Fails(s)
  /\ routes' = Routes!Remove(routes, s)
  /\ pump' = [pump EXCEPT ![s] = [at |-> "over", src |-> NoLease]]
  /\ CloseConn(Pump(s), s)
  /\ UNCHANGED <<pumpFrame, inbox, quiet, todo>>

PumpStep(s) ==
  \/ PumpStarts(s) \/ Received(s) \/ RegisterSource(s) \/ ReapRoamed(s)
  \/ CloseRoamed(s) \/ Written(s) \/ PumpEnds(s)

------------------------------------------------------------------------------
(* Silence *)

\* reapIdle, of streams
ReapIdle(s) ==
  /\ stage[s] = "running"
  /\ s \in (Streams \cap quiet) \ ended
  /\ Idle(Reaper(s))
  /\ CloseConn(Reaper(s), s)
  /\ UNCHANGED <<pumpFrame, pumpVars>>

\* The mux sweeps its sessions itself and knows nothing of the Conn.
Sweep(s) ==
  /\ s \in (open \cap quiet) \ Streams
  /\ open' = open \ {s}
  /\ UNCHANGED <<setup, boot, stage, hungUp, registered, ended, pumping, poolVars, queue,
                 loop, pumpVars, job, main, left, pair>>

------------------------------------------------------------------------------
(* The process: run and Server.Close *)

mainFrame == <<setup, stage, hungUp, registered, ended, pumping, poolVars, queue,
               loop, pumpVars, pair>>

\* Start returns at the first failure, and the deferred Close follows.
StartStep ==
  /\ main = "starting"
  /\ boot' \in Started(boot, setup.transports, setup.ports)
  /\ main' = IF boot'.failed # "none" THEN "stop"
             ELSE IF boot'.at > Len(setup.transports) THEN "run" ELSE main
  /\ UNCHANGED <<mainFrame, open, job, left>>

\* A signal, or reading the TUN device fails.
Interrupt ==
  /\ main = "run"
  /\ main' = "stop"
  /\ UNCHANGED <<mainFrame, boot, open, job, left>>

FatalStops ==
  /\ main = "run"
  /\ loop.at = "over"
  /\ main' = "stop"
  /\ UNCHANGED <<mainFrame, boot, open, job, left>>

\* Close copies the table of streams, cancels the listeners' context and closes
\* the muxes with their sessions ...
BeginClose ==
  /\ main = "stop"
  /\ main' = "closing"
  /\ left' = registered
  /\ open' = open \cap Streams
  /\ UNCHANGED <<mainFrame, boot, job>>

\* ... then the streams of the copy ...
CloseStream ==
  /\ main = "closing"
  /\ Idle(Server)
  /\ \E s \in left :
       /\ CloseTunnel(Server, s)
       /\ left' = left \ {s}
  /\ UNCHANGED <<mainFrame, boot, open, main>>

\* ... and waits for the goroutines of the listeners and the muxes.
Exit ==
  /\ main = "closing"
  /\ left = {}
  /\ Idle(Server)
  /\ \A s \in Sessions \ Streams : stage[s] \notin {"offered", "leaving"}
  /\ WaitsEnd(boot)
  /\ main' = "exited"
  /\ UNCHANGED <<mainFrame, boot, open, job, left>>

MainStep == StartStep \/ FatalStops \/ BeginClose \/ CloseStream \/ Exit

------------------------------------------------------------------------------
(* Clients *)

\* A client uses the address it was granted, or the one it falls back on when none
\* reaches it: 10.99.0.2 unless configured, which the usual pool grants first (start of
\* apps/windows/app.go, ChimeraVpnService.kt, ClientPrefs.kt).  Nobody checks it.
Sources(s) == ({lease[s]} \ {NoLease}) \cup {setup.local[s]}

Arrive(s) ==
  /\ main = "run"
  /\ stage[s] = "running"
  /\ s \in open \ hungUp
  /\ inbox[s] = NoLease
  /\ \E a \in Sources(s) : inbox' = [inbox EXCEPT ![s] = a]
  /\ quiet' = IF s \in Streams THEN quiet ELSE quiet \ {s}
  /\ UNCHANGED <<pumpFrame, routes, pump, todo, closeVars>>

\* The client closes its end of a stream.
HangUp(s) ==
  /\ main = "run"
  /\ s \in (Streams \cap open) \ hungUp
  /\ hungUp' = hungUp \cup {s}
  /\ UNCHANGED <<setup, boot, stage, open, registered, ended, pumping, poolVars, queue,
                 loop, pumpVars, job, main, left, pair>>

\* The silence that counts is so long (roamReapAfter is 30 s) that the pump has
\* nothing left to do.
FallSilent(s) ==
  /\ main = "run"
  /\ pump[s].at = "receive"
  /\ inbox[s] = NoLease
  /\ s \in open \ quiet
  /\ quiet' = quiet \cup {s}
  /\ UNCHANGED <<pumpFrame, routes, inbox, pump, todo, closeVars>>

------------------------------------------------------------------------------
(* Specification *)

OtherStep ==
  \/ \E s \in Sessions : HandlerStep(s)
  \/ \E g \in Goroutines : Closing(g)
  \/ AcceptStep
  \/ MainStep

Next ==
  /\ Alive
  /\ \/ \E s \in Sessions :
          \/ Dial(s) \/ RequestComes(s) \/ PumpStep(s) \/ ReapIdle(s) \/ Sweep(s)
          \/ Arrive(s) \/ HangUp(s) \/ FallSilent(s)
     \/ OtherStep
     \/ Interrupt

Spec == Init /\ [][Next]_vars

\* Goroutines run on, and handshakes have deadlines.  Only the pumps can take
\* steps for ever: fairness to all the others together is fairness to each.
Fairness ==
  /\ WF_vars(Alive /\ OtherStep)
  /\ \A s \in Sessions : WF_vars(Alive /\ PumpStep(s))

FairSpec == Spec /\ Fairness

------------------------------------------------------------------------------
(* Properties *)

DaemonTypeOK ==
  /\ stage \in [Sessions -> {"idle", "pairing", "shaking", "offered", "leaving", "queued",
                             "running", "refused", "unsent", "gone"}]
  /\ open \subseteq Sessions /\ hungUp \subseteq Streams /\ pumping \subseteq Streams
  /\ registered \subseteq Streams /\ left \subseteq Streams
  /\ ended \subseteq {s \in Sessions : stage[s] = "running"}
  /\ \A s \in Sessions : pair[s].started => s \in HttpLegs
  /\ queue \in Seq(Sessions) /\ Len(queue) <= Backlog
  /\ pool.count = setup.clients
  /\ pool.bits \subseteq 0 .. pool.count - 1 /\ pool.nextHint \in 0 .. pool.count - 1
  /\ lease \in [Sessions -> Addresses \cup {NoLease}]
  /\ \A s \in Sessions : (stage[s] = "queued") = (\E i \in DOMAIN queue : queue[i] = s) \/ loop.of = s
  /\ \A g \in Goroutines : Idle(g) = (job[g].of = NoSession)

\* A server that runs listens for each of its transports on each of its ports,
\* with a socket of its own: clients may arrive over any of them, and Start
\* swallows no failure (Start and rollbackTransports of core/core.go).
ListensOnAll ==
  main = "run" =>
    /\ \A i \in DOMAIN setup.transports, p \in 1 .. setup.ports :
         Socket(setup.transports[i], p) \in boot.bound
    /\ \A x \in boot.bound : \E i \in DOMAIN setup.transports, p \in 1 .. setup.ports :
         x = Socket(setup.transports[i], p)
    /\ Cardinality(boot.bound) = Len(setup.transports) * setup.ports

\* The three maps of the routing table say the same: an address leads to the
\* session that has it, and a session is found by its host exactly while it has
\* one (register, reapRoamed and remove of cmd/chimerad/route.go).
RoutesAgree ==
  /\ \A a \in Places : \A s \in Sessions :
       (routes.byIP[a] = s) = (routes.byConn[s] = a)
  /\ \A h \in Routes!Hosts :
       routes.byHost[h] = {s \in Sessions : RemoteHost[s] = h /\ Routes!Routed(routes, s)}

\* Queue, loop, pool and stages of the sessions fit together, and the routing
\* table does.
RoutesSound == DaemonTypeOK /\ RoutesAgree

Leased == INSTANCE Leases WITH
  free <- Free(pool),
  held <- [s \in Sessions |-> IF s \in ended THEN NoLease ELSE lease[s]],
  before <- {s \in Sessions : stage[s] = "unsent" \/ (s \in ended /\ lease[s] # NoLease)},
  refused <- {s \in Sessions : stage[s] = "refused"}

\* The pool, with makeConn, Conn.Close and everyone who closes sessions, grants
\* an address to one session at a time and refuses one only when all are taken
\* (addressPool of core/assign.go).
ImplementsLeases == Leased!Spec

\* A session in use loses the address it was granted in the routing table only by being
\* closed for it: whoever sends from that address, another live session included, closes
\* the one it displaces (register, pumpClientToTun).  Only a session already closed, whose
\* pump is late, takes one without.  Grants themselves never meet, so the pump that
\* registers its own and looks at nobody (PumpStarts) robs no other grant; a session that
\* merely uses a pool address it robs silently.  "The server hands each client a unique
\* TUN address" (README.md:207) is so of the grants; of the addresses in use it is not, as
\* a client falls back on a pool address when the control packet does not come in time,
\* not only "when the server has no client_cidr configured".
LeaseLostOnlyClosed ==
  [][ \A s \in Sessions \ ended' :
        lease[s] # NoLease /\ routes.byIP[lease[s]] = s
          => routes'.byIP[lease[s]] \in {s, NoSession} \cup ended ]_vars

\* The ten seconds two requests have to find each other do not cut short an HTTP
\* session that has started, unless its download came first (handleHTTPUpload and
\* handleHTTPDownload of core/httpstream.go).
TimeoutSparesSession ==
  [][ \A s \in open :
        pair[s].listed /\ ~pair'[s].listed => pair[s].down = "waits" ]_vars

Forgotten(s) == pump[s].at = "over" /\ s \in ended /\ ~Routes!Routed(routes, s)

\* A session that is closed, by whomever, ends off the routing table and with its
\* address given back (the deferred calls of pumpClientToTun): in the end there
\* is none that is not.
ClosedForgotten ==
  <>[](Alive => \A s \in Sessions \ open :
                  /\ stage[s] = "running" => Forgotten(s)
                  /\ ~pair[s].listed)

\* Every client whose handshake began is served or dropped in the end, and a
\* Close of the server returns: no handler waits for ever for room in the accept
\* queue, and a start that fails ends the process unless a UDP port is what could
\* not be bound (handleStreamConn, Accept, Start and Close of core/core.go).
Answered ==
  <>[](Alive => /\ main = "run" \/ boot.failed = "udp"
                /\ \A s \in Sessions :
                     stage[s] \in {"idle", "running", "refused", "unsent", "gone"})
===============================================================================
