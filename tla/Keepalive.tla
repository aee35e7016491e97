------------------------------ MODULE Keepalive ------------------------------
(***************************************************************************)
(* A session on which nothing is sent but keepalives: the pumps of          *)
(* PacketTunnel (internal/tunnel/tunnel.go), which the client has and, on   *)
(* streams, the server too; and the 100 ms sweep of the server's            *)
(* multiplexer (mux.go), which also closes sessions that are idle.          *)
(*                                                                          *)
(* Time is counted in sweeps.  A pump's interval is some sweeps long, and   *)
(* nothing is lost: a frame has arrived by the next sweep.                  *)
(***************************************************************************)
EXTENDS Integers, FiniteSetsExt

CONSTANTS
  DefaultKeepalive, \* DefaultKeepaliveInterval, in sweeps
  Configured,       \* keepalive intervals to configure: 0 the default, negative none
  IdleTimeouts,     \* idle timeouts to configure
  Horizon           \* bound: sweeps to look ahead

ASSUME KeepaliveAssumption ==
  /\ DefaultKeepalive \in Nat \ {0} /\ DefaultKeepalive % 4 = 0
  /\ \A d \in Configured : d \in Int /\ d % 4 = 0
  /\ IdleTimeouts \subseteq Int
  /\ Horizon \in Nat

Never == Horizon + 1

\* SetKeepalive, WithKeepalive
Interval(d) == CASE d < 0 -> Never [] d = 0 -> DefaultKeepalive [] OTHER -> d

\* WithIdleTimeout
IdleTimeout(d) == IF d <= 0 THEN Never ELSE d

\* What one configuration makes of both ends: newMux, handleStreamConn,
\* configureTunnel.
Sessions ==
  {[client |-> Interval(c), server |-> Interval(s), timeout |-> IdleTimeout(t),
    stream |-> k] :
     c \in Configured, s \in Configured, t \in IdleTimeouts, k \in BOOLEAN}

------------------------------------------------------------------------------
(* One end: sweeps since it last had a frame and since it last sent one, and *)
(* until its pump wakes.                                                     *)

\* quietFor
Quiet(e) == Min({e.recv, e.send})

\* nextDelay: 75% to 125% of the interval.
NextDelays(interval) ==
  IF interval = Never THEN {Never} ELSE (3 * interval) \div 4 .. (5 * interval) \div 4

Fresh(interval) == {[recv |-> 0, send |-> 0, wakes |-> w] : w \in NextDelays(interval)}

Later(e) == [recv |-> e.recv + 1, send |-> e.send + 1,
             wakes |-> IF e.wakes = Never THEN Never ELSE e.wakes - 1]

\* A change for the worse of Waits: the pump sleeps for another whole delay.
WaitsLong(e, interval) == {[e EXCEPT !.wakes = w] : w \in NextDelays(interval)}

\* Traffic of either direction puts the pump off for a quarter of its interval.
Waits(e, interval) == {[e EXCEPT !.wakes = interval \div 4]}

\* Silence makes it send.
Sends(e, interval) == {[e EXCEPT !.send = 0, !.wakes = w] : w \in NextDelays(interval)}

Silent(e, interval) == e.wakes = 0 /\ Quiet(e) >= interval

Pumped(e, interval) ==
  CASE e.wakes > 0 -> {e}
    [] Silent(e, interval) -> Sends(e, interval)
    [] OTHER -> Waits(e, interval)

------------------------------------------------------------------------------
(* Both ends.  Data would touch the same clocks; a keepalive is neither      *)
(* answered nor acknowledged (handleLossControl).                            *)

\* touchRecv, touch
Heard(e, sent) == IF sent THEN [e EXCEPT !.recv = 0] ELSE e

ClientActs(s, conf) ==
  {[s EXCEPT !.client = e, !.server = Heard(@, Silent(s.client, conf.client))] :
     e \in Pumped(s.client, conf.client)}

Idle(s, conf) == s.server.recv >= conf.timeout

\* The sweep over a session of the multiplexer: keepalives go out on every one
\* until the client is heard, and do not count as traffic themselves.
Sweep(s, conf) ==
  IF Idle(s, conf) THEN {[s EXCEPT !.open = FALSE]}
  ELSE {[s EXCEPT !.client = Heard(@, s.server.recv >= conf.server)]}

\* A stream has a pump at the server too, and is looked at every 5 seconds.
Reaped(s, conf) == IF Idle(s, conf) THEN {[s EXCEPT !.open = FALSE]} ELSE {}

StreamActs(s, conf) ==
  Reaped(s, conf) \cup
  {[s EXCEPT !.server = e, !.client = Heard(@, Silent(s.server, conf.server))] :
     e \in Pumped(s.server, conf.server)}

ServerActs(s, conf) == IF conf.stream THEN StreamActs(s, conf) ELSE Sweep(s, conf)

Older(s) == [s EXCEPT !.client = Later(@), !.server = Later(@)]

ClientBefore(s, conf) == UNION {ServerActs(u, conf) : u \in ClientActs(s, conf)}

\* A session that is closed hears nothing more.
ServerBefore(s, conf) ==
  UNION {IF u.open THEN ClientActs(u, conf) ELSE {u} : u \in ServerActs(s, conf)}

\* One sweep later; either end may be the first to act.
After(s, conf) == ClientBefore(Older(s), conf) \cup ServerBefore(Older(s), conf)

Opened(conf) ==
  {[open |-> TRUE, client |-> c, server |-> s] :
     c \in Fresh(conf.client),
     s \in Fresh(IF conf.stream THEN conf.server ELSE Never)}

\* What an idle session can come to, sweep by sweep.
Onward(known, conf) ==
  LET new == UNION {After(s, conf) : s \in {t \in known.last : t.open}} \ known.all
  IN [all |-> known.all \cup new, last |-> new]

Reached(conf) ==
  LET upTo[n \in 0..Horizon] ==
        IF n = 0 THEN [all |-> Opened(conf), last |-> Opened(conf)]
                 ELSE Onward(upTo[n - 1], conf)
  IN upTo[Horizon].all

------------------------------------------------------------------------------
(* Property *)

Latest(interval) == interval + interval \div 4

\* The path between the two ends of an open session never goes without a frame
\* for longer than an interval of the server's sweep, or of a pump with the
\* quarter it may be late by.
PathKept(s, conf) ==
  Quiet(s.client) <= Min({Latest(conf.client),
                          IF conf.stream THEN Latest(conf.server) ELSE conf.server})

\* A multiplexer whose interval is the shorter one is heard by the client in
\* every interval, so that its watchdog has nothing to say; and one that waits
\* for longer than the client's pump does not close the session of a client
\* that is alive.  (No choice of the two intervals gives both: see README.)
OtherSideHeard(s, conf) ==
  /\ conf.server < conf.client => s.client.recv <= conf.server
  /\ Latest(conf.client) < Min({conf.server, conf.timeout}) => s.open

IdleLinkKept ==
  \A conf \in Sessions : \A s \in Reached(conf) :
    /\ s.open => PathKept(s, conf)
    /\ ~conf.stream /\ (s.open \/ conf.server > conf.client) => OtherSideHeard(s, conf)
==============================================================================
