------------------------------- MODULE Openings -------------------------------
(***************************************************************************)
(* How a connection to a stream listener opens: the requests a client dials *)
(* a WebSocket or HTTP listener with and what the listener answers           *)
(* (internal/tunnel/websocket.go, httpstream.go, core/tls_config.go), and    *)
(* the handlers of a TCP listener, which turn away, let in or hold those     *)
(* that come at once (core.go: runTCPAccept, handleStreamConn;               *)
(* core/stream_probe.go).                                                    *)
(***************************************************************************)
EXTENDS Integers, FiniteSets

CONSTANTS
  Seeds, Starts,         \* seeds, and generations servers are configured with
  Conns,                 \* connections that come at once ...
  Calls,                 \* ... and how: functions from Conns to [port, opens]
  MaxPending,            \* MaxSessions, as runTCPAccept reads it: 0 none
  StreamDecoyMaxPending  \* decoys held at once, as NormalizeConfig leaves it

ASSUME OpeningsAssumption ==
  /\ IsFiniteSet(Conns)
  /\ \A calls \in Calls : \A c \in Conns :
       calls[c].opens \in {"client", "hello", "other", "nothing"}
  /\ MaxPending \in Nat
  /\ StreamDecoyMaxPending \in Nat \ {0}

------------------------------------------------------------------------------
(* Requests *)

Secured(transport) == transport \in {"wss", "https"}
Upgrades(transport) == transport \in {"websocket", "wss"}

\* websocketPath: another seed or generation, another path.
Path(of) == <<of.seed, of.generation>>

Paths == Seeds \X Starts \cup {<<>>}

\* serverTLSConfig: who signed the certificate.
Sites ==
  [seed : Seeds, generation : Starts, transport : {"websocket", "wss", "http", "https"},
   issuer : {"public", "private"}]

Profiles ==
  [seed : Seeds, generation : Starts, transport : {"websocket", "wss", "http", "https"},
   ca : {"none", "private", "unreadable"}, insecure : BOOLEAN]

\* clientTLSConfig: a CA file adds to the roots of the system, and is read even
\* where nothing is verified.
Trusts(profile, site) ==
  /\ profile.ca # "unreadable"
  /\ profile.insecure \/ site.issuer \in {"public", profile.ca}

Request(path, upgrade, sid, dir) ==
  [path |-> path, upgrade |-> upgrade, sid |-> sid, dir |-> dir]

\* dialWebSocketPacket, DialHTTPStream: 12 random bytes of sid, in hex.
Dialled(profile) ==
  IF Upgrades(profile.transport) THEN {Request(Path(profile), TRUE, 0, "none")}
  ELSE {Request(Path(profile), FALSE, 24, dir) : dir \in {"up", "down"}}

Requests == [path : Paths, upgrade : BOOLEAN, sid : {0, 23, 24}, dir : {"up", "down", "none"}]

\* wsHandler, UpgradeWebSocket
WsAnswer(site, r) ==
  IF r.path # Path(site) THEN "not found" ELSE IF r.upgrade THEN "stream" ELSE "bad request"

\* httpHandler
HttpAnswer(site, r) ==
  IF r.path = Path(site) /\ r.sid = 24 /\ r.dir \in {"up", "down"} THEN "stream" ELSE "not found"

Answer(site, r) == IF Upgrades(site.transport) THEN WsAnswer(site, r) ELSE HttpAnswer(site, r)

\* A session is dialled: each of its requests becomes a leg of a stream.
LetIn(profile, site) ==
  /\ profile.transport = site.transport
  /\ Secured(profile.transport) => Trusts(profile, site)
  /\ \A r \in Dialled(profile) : Answer(site, r) = "stream"

------------------------------------------------------------------------------
(* Connections.  The two counters are looked at and counted up in two steps. *)
(*   "coming", "admitted" by the accept loop of its port, "opening",         *)
(*   "probing", "looked" at the number of decoys, "held" as a decoy; and     *)
(*   ends "away", "session", "closed", "alerted"                             *)
(* "raced" is history: those looked or held that saw the number of decoys     *)
(*   while another had looked and not yet counted itself.                    *)

NewDoors ==
  [at |-> [c \in Conns |-> "coming"], handled |-> {}, pending |-> 0, decoys |-> 0, raced |-> {}]

Ended == {"away", "session", "closed", "alerted"}

To(d, c, place) == [d EXCEPT !.at[c] = place]

\* runTCPAccept: one loop for each port.
AcceptLoop(d, c, calls) ==
  IF \E o \in Conns : calls[o].port = calls[c].port /\ d.at[o] = "admitted" THEN {}
  ELSE {To(d, c, IF MaxPending > 0 /\ d.pending >= MaxPending THEN "away" ELSE "admitted")}

Begins(d, c) ==
  {[To(d, c, "opening") EXCEPT !.handled = @ \cup {c}, !.pending = @ + 1]}

\* ServerHandshakeStream: a header that does not come is an error like others.
Opens(d, c, opens) ==
  {To(d, c, CASE opens = "client" -> "session"
              [] opens = "nothing" -> "closed"
              [] OTHER -> "probing")}

Beside(d, c) == IF \E o \in Conns : d.at[o] = "looked" THEN {c} ELSE {}

GoesOn(d, c) == [To(d, c, "looked") EXCEPT !.raced = @ \cup Beside(d, c)]

\* A change for the worse of Looks: the cap lets in one too many.
LooksBeyond(d, c) ==
  {IF d.decoys > StreamDecoyMaxPending THEN To(d, c, "closed") ELSE GoesOn(d, c)}

\* handleStreamProbe: the number is read here and counted up in Holds.
Looks(d, c) ==
  {IF d.decoys >= StreamDecoyMaxPending THEN To(d, c, "closed") ELSE GoesOn(d, c)}

Holds(d, c) == {[To(d, c, "held") EXCEPT !.decoys = @ + 1]}

\* At once, or when the decoy has lasted its time.
LetsGo(d, c, opens, mode) ==
  LET end == IF mode = "tls" /\ opens = "hello" THEN "alerted" ELSE "closed"
  IN {[To(d, c, end) EXCEPT !.decoys = @ - 1, !.raced = @ \ {c}]}

Returns(d, c) == {[d EXCEPT !.handled = @ \ {c}, !.pending = @ - 1]}

Steps(d, c, calls, mode) ==
  CASE d.at[c] = "coming" -> AcceptLoop(d, c, calls)
    [] d.at[c] = "admitted" -> Begins(d, c)
    [] d.at[c] = "opening" -> Opens(d, c, calls[c].opens)
    [] d.at[c] = "probing" -> Looks(d, c)
    [] d.at[c] = "looked" -> Holds(d, c)
    [] d.at[c] = "held" -> LetsGo(d, c, calls[c].opens, mode)
    [] d.at[c] \in Ended /\ c \in d.handled -> Returns(d, c)
    [] OTHER -> {}

AfterDoors(d, calls, mode) == UNION {Steps(d, c, calls, mode) : c \in Conns}

FurtherDoors(known, calls, mode) ==
  LET new == UNION {AfterDoors(d, calls, mode) : d \in known.last}
  IN [all |-> known.all \cup new, last |-> new]

\* Each connection takes eight steps at most.
Doors(calls, mode) ==
  LET upTo[n \in 0..(8 * Cardinality(Conns))] ==
        IF n = 0 THEN [all |-> {NewDoors}, last |-> {NewDoors}]
                 ELSE FurtherDoors(upTo[n - 1], calls, mode)
  IN upTo[8 * Cardinality(Conns)].all

------------------------------------------------------------------------------
(* Properties *)

\* A client gets its stream from the listener of its own seed and first
\* generation, whatever else it could have dialled, if it can tell whose it is;
\* and who knows neither is told the same by every listener of the transport.
OnlyItsOwn ==
  \A site \in Sites :
    /\ \A profile \in Profiles :
         LetIn(profile, site) <=>
           /\ profile.transport = site.transport
           /\ profile.seed = site.seed /\ profile.generation = site.generation
           /\ Secured(site.transport) => Trusts(profile, site)
    /\ \A other \in {s \in Sites : s.transport = site.transport}, r \in Requests :
         r.path \notin {Path(site), Path(other)} => Answer(site, r) = Answer(other, r)

\* However they come, the handlers of a TCP server at work are no more than its
\* cap and one for each further port.  StreamDecoyMaxPending is not the cap of the
\* decoys that core.go and PROTOCOL.md call it: it is passed, but by no more than
\* looked while another was between its look and its count, and never by more
\* than the handlers there are.  The counters are back at zero when all have gone,
\* nobody is left open who has no session, and only a TLS client is sent an alert.
DoorsKept(mode) ==
  \A calls \in Calls : \A d \in Doors(calls, mode) :
    LET ports == {calls[c].port : c \in Conns}
        taken == {c \in Conns : d.at[c] \in {"looked", "held"}} IN
    /\ MaxPending > 0 => d.pending < MaxPending + Cardinality(ports)
    /\ Cardinality(taken) <= StreamDecoyMaxPending + Cardinality(d.raced)
    /\ d.decoys <= d.pending
    /\ AfterDoors(d, calls, mode) = {} =>
         /\ d.pending = 0 /\ d.decoys = 0
         /\ \A c \in Conns : d.at[c] \in Ended
    /\ \A c \in Conns : d.at[c] = "alerted" => mode = "tls" /\ calls[c].opens = "hello"
===============================================================================
