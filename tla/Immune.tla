-------------------------------- MODULE Immune --------------------------------
(***************************************************************************)
(* The server's immune system (core/immune.go): the threat monitor that     *)
(* escalates the TCP probe defence, the rotation of the protocol            *)
(* generation, and the clients that dial the generations a server accepts   *)
(* (Client in core/core.go).                                                *)
(*                                                                          *)
(* Two goroutines may rotate: the scheduler, on its ticker, and the threat  *)
(* monitor, in the middle of an evaluation.  A rotation is one action per   *)
(* critical section of s.mu and per listener it counts, swaps or pushes to. *)
(*                                                                          *)
(* A listener is a UDP mux or "stream", which stands for every stream       *)
(* listener: they all read currentCPS.  A generation is accepted when it is *)
(* in a listener's list; whether its handshake then completes is left open. *)
(***************************************************************************)
EXTENDS Integers

CONSTANTS
  Muxes,           \* the UDP muxes, one per port
  Clients,
  Window,          \* GenerationWindow, the same at both ends
  ServerFirst,     \* the generations that begin with a knock
  RotationEnabled, \* GenerationRotation > 0
  TransportLists,  \* the transports a server may list, after NormalizeConfig
  Configured,      \* StreamDecoyMode
  Bursts,          \* what one burst of probing adds to the two counters
  MaxScore,        \* bound: the score one window may collect
  MaxGen           \* bound: the highest base generation

Modes == {"silent", "tls", "close"}
Rotators == {"scheduler", "monitor"}
Listeners == Muxes \cup {"stream"}
Levels == 0..3

ASSUME ImmuneAssumption ==
  /\ "stream" \notin Muxes
  /\ Window \in Nat
  /\ RotationEnabled \in BOOLEAN
  /\ \A list \in TransportLists : 1 \in DOMAIN list
  /\ Configured \in Modes
  /\ Bursts \subseteq [probes : Nat, replays : Nat]
  /\ MaxScore \in Nat
  /\ MaxGen \in Nat

VARIABLES
  transports, \* the transports this server listens on
  tele,      \* teleProbes and teleReplays of the window that is running
  threat,    \* s.threat
  probeMode, \* the probe defence in force
  calm,      \* immuneLoop's count of calmer windows
  monitor,   \* immuneLoop: where it is and the level it has worked out
  baseGen,   \* s.baseGen
  rotating,  \* s.rotating
  rot,       \* each caller of rotateGeneration: where it is and its locals
  served,    \* the window each listener accepts: its base and the extra slot
  client,    \* each client: its session or handshake and what it knows
  pushes,    \* ControlGeneration frames in flight
  stuck,     \* clients whose stream is open and who stopped reading it
  (* history, read by no guard *)
  before     \* the base each listener served before its present one

vars == <<transports, tele, threat, probeMode, calm, monitor, baseGen, rotating, rot,
          served, client, pushes, stuck, before>>

threatVars == <<transports, tele, threat, probeMode, calm, monitor>>
rotationVars == <<baseGen, rotating, rot, served, before>>
clientVars == <<client, pushes, stuck>>

Idle == [pc |-> "idle", gen |-> 0, old |-> 0, busy |-> FALSE, todo |-> {},
         sessions |-> {}]
Offline(known) == [state |-> "down", at |-> "stream", gen |-> 0, known |-> known]
Calm == [probes |-> 0, replays |-> 0]

Init ==
  /\ transports \in TransportLists
  /\ tele = Calm
  /\ threat = 0
  /\ probeMode = Configured
  /\ calm = 0
  /\ monitor = [pc |-> "wait", level |-> 0]
  /\ baseGen = 0
  /\ rotating = FALSE
  /\ rot = [r \in Rotators |-> Idle]
  /\ served = [l \in Listeners |-> [base |-> 0, slot |-> 0]]
  /\ client = [c \in Clients |-> Offline(0)]
  /\ pushes = {}
  /\ stuck = {}
  /\ before = [l \in Listeners |-> 0]

------------------------------------------------------------------------------
(* Rotation: rotateGeneration *)

Shaking(l) == {c \in Clients : client[c].state = "shaking" /\ client[c].at = l}
Up(l) == {c \in Clients : client[c].state = "up" /\ client[c].at = l}

MayBegin(r) == rot[r].pc = "idle" /\ ~rotating

BeginAnyway(r) ==
  /\ rot[r].pc = "idle"
  /\ baseGen < MaxGen
  /\ rotating' = TRUE
  /\ rot' = [rot EXCEPT ![r].pc = "compile", ![r].old = baseGen, ![r].gen = baseGen + 1]

Begin(r) ==
  /\ MayBegin(r)
  /\ baseGen < MaxGen
  /\ rotating' = TRUE
  /\ rot' = [rot EXCEPT ![r].pc = "compile", ![r].old = baseGen, ![r].gen = baseGen + 1]

BeginScheduled ==
  /\ RotationEnabled
  /\ Begin("scheduler")
  /\ UNCHANGED <<threatVars, baseGen, served, before, clientVars>>

Return(r) ==
  /\ rotating' = FALSE
  /\ rot' = [rot EXCEPT ![r] = Idle]

CompileFails(r) ==
  /\ rot[r].pc = "compile"
  /\ Return(r)
  /\ UNCHANGED <<threatVars, baseGen, served, before, clientVars>>

\* The base generation advances, and the stream sessions are listed, before
\* the handshakes in flight are looked at.
Publish(r) ==
  /\ rot[r].pc = "compile"
  /\ baseGen' = rot[r].gen
  /\ rot' = [rot EXCEPT ![r].pc = "count", ![r].todo = Muxes,
                        ![r].sessions = Up("stream")]
  /\ UNCHANGED <<threatVars, rotating, served, before, clientVars>>

\* PendingCount of one mux; the handshakes of streams are not counted.
Count(r, m) ==
  /\ rot[r].pc = "count"
  /\ m \in rot[r].todo
  /\ rot' = [rot EXCEPT ![r].todo = @ \ {m},
                        ![r].busy = @ \/ Shaking(m) # {}]
  /\ UNCHANGED <<threatVars, baseGen, rotating, served, before, clientVars>>

DeferHolding(r) ==
  /\ rotating' = rotating
  /\ rot' = [rot EXCEPT ![r] = Idle]

\* A deferred rotation gives up; baseGen stays advanced.
GiveUp(r) == Return(r)

Defer(r) ==
  /\ rot[r].pc = "count"
  /\ rot[r].todo = {}
  /\ rot[r].busy
  /\ GiveUp(r)
  /\ UNCHANGED <<threatVars, baseGen, served, before, clientVars>>

SwapMuxesOnly(r, l) ==
  /\ served' = [served EXCEPT ![l] = IF l \in Muxes
                  THEN [base |-> rot[r].gen, slot |-> rot[r].old] ELSE @]
  /\ before' = [before EXCEPT ![l] = served[l].base]

\* The new window, and a slot for the generation it was computed from.
Swap(r, l) ==
  /\ served' = [served EXCEPT ![l] = [base |-> rot[r].gen, slot |-> rot[r].old]]
  /\ before' = [before EXCEPT ![l] = served[l].base]

SwapStream(r) ==
  /\ rot[r].pc = "count"
  /\ rot[r].todo = {}
  /\ ~rot[r].busy
  /\ Swap(r, "stream")
  /\ rot' = [rot EXCEPT ![r].pc = "swap", ![r].todo = Muxes]
  /\ UNCHANGED <<threatVars, baseGen, rotating, clientVars>>

SwapMux(r, m) ==
  /\ rot[r].pc = "swap"
  /\ m \in rot[r].todo
  /\ Swap(r, m)
  /\ rot' = [rot EXCEPT ![r].todo = @ \ {m}]
  /\ UNCHANGED <<threatVars, baseGen, rotating, clientVars>>

SwapsSomeDone(r) == rot[r].pc = "swap"

SwapsDone(r) == rot[r].pc = "swap" /\ rot[r].todo = {}

StartPush(r) ==
  /\ SwapsDone(r)
  /\ rot' = [rot EXCEPT ![r].pc = "push", ![r].todo = Muxes]
  /\ UNCHANGED <<threatVars, baseGen, rotating, served, before, clientVars>>

Pushed(r, cs) == {[to |-> c, gen |-> rot[r].gen] : c \in cs}

\* BroadcastControl: to the sessions the mux has when its turn comes.
PushMux(r, m) ==
  /\ rot[r].pc = "push"
  /\ m \in rot[r].todo
  /\ pushes' = pushes \cup Pushed(r, Up(m))
  /\ rot' = [rot EXCEPT ![r].todo = @ \ {m}]
  /\ UNCHANGED <<threatVars, baseGen, rotating, served, before, client, stuck>>

\* To the stream sessions listed by Publish that still are: the write waits
\* for a client that does not read.
PushStream(r, c) ==
  /\ rot[r].pc = "push"
  /\ rot[r].todo = {}
  /\ c \in rot[r].sessions \ stuck
  /\ pushes' = pushes \cup Pushed(r, {c})
  /\ rot' = [rot EXCEPT ![r].sessions = @ \ {c}]
  /\ UNCHANGED <<threatVars, baseGen, rotating, served, before, client, stuck>>

EndRotation(r) ==
  /\ rot[r].pc = "push"
  /\ rot[r].todo = {}
  /\ rot[r].sessions = {}
  /\ Return(r)
  /\ UNCHANGED <<threatVars, baseGen, served, before, clientVars>>

RotationStep(r) ==
  \/ CompileFails(r) \/ Publish(r) \/ Defer(r) \/ SwapStream(r) \/ StartPush(r)
  \/ EndRotation(r)
  \/ \E m \in rot[r].todo : Count(r, m) \/ SwapMux(r, m) \/ PushMux(r, m)
  \/ \E c \in rot[r].sessions : PushStream(r, c)

------------------------------------------------------------------------------
(* The threat monitor: onTelemetry, immuneLoop, evaluateThreat *)

Score(t) == t.probes + 10 * t.replays

Observe(b) ==
  LET t == [probes |-> tele.probes + b.probes, replays |-> tele.replays + b.replays]
  IN /\ Score(t) <= MaxScore
     /\ tele' = t
     /\ UNCHANGED <<transports, threat, probeMode, calm, monitor, rotationVars, clientVars>>

LevelOf(score) ==
  CASE score >= 200 -> 3
    [] score >= 50 /\ score < 200 -> 2
    [] score >= 5 /\ score < 50 -> 1
    [] OTHER -> 0

\* cfg.Transport, as NormalizeConfig sets it.
Transport == transports[1]

\* A server whose first transport is udp keeps the defence of its stream
\* listeners, if it has any, as configured.
SetProbeMode(mode) == probeMode' = IF Transport = "udp" THEN probeMode ELSE mode

ResponseUnlessSet(level) ==
  IF probeMode = "silent" THEN (IF level = 3 THEN "close" ELSE "tls") ELSE probeMode

Response(level) == IF level = 3 THEN "close" ELSE "tls"

\* A level that rises calls for a rotation; one that does not is stored at once.
Evaluate ==
  LET level == LevelOf(Score(tele)) IN
  /\ monitor.pc = "wait"
  /\ tele' = Calm
  /\ IF level > threat THEN SetProbeMode(Response(level)) ELSE UNCHANGED probeMode
  /\ IF level > threat /\ level >= 2 /\ RotationEnabled
       THEN monitor' = [pc |-> "call", level |-> level] /\ UNCHANGED threat
       ELSE monitor' = [pc |-> "compare", level |-> level] /\ threat' = level
  /\ UNCHANGED <<transports, calm, rotationVars, clientVars>>

BeginResponse ==
  /\ monitor.pc = "call"
  /\ Begin("monitor")
  /\ monitor' = [monitor EXCEPT !.pc = "rotating"]
  /\ UNCHANGED <<transports, tele, threat, probeMode, calm, baseGen, served, before,
                 clientVars>>

\* evaluateThreat stores the level when rotateGeneration has returned, at once
\* if another rotation is under way (or the bound is reached).
StoreThreat ==
  /\ \/ monitor.pc = "call" /\ (rotating \/ baseGen = MaxGen)
     \/ monitor.pc = "rotating" /\ rot["monitor"].pc = "idle"
  /\ threat' = monitor.level
  /\ monitor' = [monitor EXCEPT !.pc = "compare"]
  /\ UNCHANGED <<transports, tele, probeMode, calm, rotationVars, clientVars>>

\* immuneLoop compares the level with the threat that is stored by then.
Compare ==
  LET calmer == calm + 1 IN
  /\ monitor.pc = "compare"
  /\ IF monitor.level < threat
       THEN /\ calm' = IF calmer >= 2 THEN 0 ELSE calmer
            /\ IF calmer >= 2 THEN SetProbeMode(Configured) ELSE UNCHANGED probeMode
       ELSE calm' = 0 /\ UNCHANGED probeMode
  /\ threat' = monitor.level
  /\ monitor' = [monitor EXCEPT !.pc = "wait"]
  /\ UNCHANGED <<transports, tele, rotationVars, clientVars>>

Monitor == Evaluate \/ BeginResponse \/ StoreThreat \/ Compare

------------------------------------------------------------------------------
(* The clients *)

InWindow(l, g) == served[l].base <= g /\ g <= served[l].base + Window

\* A mux takes a knock for the base's; which one a stream listener takes it for
\* is left open.
Accepts(l, g) ==
  /\ InWindow(l, g) \/ g = served[l].slot
  /\ l # "stream" /\ g \in ServerFirst => g = served[l].base

\* StartContext tries BaseGeneration .. BaseGeneration + Window, each after the
\* one before has timed out; a listener answers only what it accepts.
Probes(c) == client[c].known..(client[c].known + Window)

Dial(c, l, g) ==
  /\ client[c].state = "down"
  /\ g \in Probes(c)
  /\ Accepts(l, g)
  /\ client' = [client EXCEPT ![c].state = "shaking", ![c].at = l, ![c].gen = g]
  /\ UNCHANGED <<threatVars, rotationVars, pushes, stuck>>

HandshakeDone(c) ==
  /\ client[c].state = "shaking"
  /\ client' = [client EXCEPT ![c].state = "up"]
  /\ UNCHANGED <<threatVars, rotationVars, pushes, stuck>>

\* A handshake fails or a session ends; nothing reaches it any more.
Drop(c) ==
  /\ client[c].state # "down"
  /\ client' = [client EXCEPT ![c] = Offline(@.known)]
  /\ pushes' = {p \in pushes : p.to # c}
  /\ stuck' = stuck \ {c}
  /\ rot' = [r \in Rotators |-> [rot[r] EXCEPT !.sessions = @ \ {c}]]
  /\ UNCHANGED <<threatVars, baseGen, rotating, served, before>>

StopReading(c) ==
  /\ c \in Up("stream")
  /\ stuck' = stuck \cup {c}
  /\ UNCHANGED <<threatVars, rotationVars, client, pushes>>

\* The OnGeneration callback keeps the largest generation pushed.
Learn(p) ==
  /\ p.to \notin stuck
  /\ pushes' = pushes \ {p}
  /\ client' = [client EXCEPT ![p.to].known = IF p.gen > @ THEN p.gen ELSE @]
  /\ UNCHANGED <<threatVars, rotationVars, stuck>>

LosePush(p) ==
  /\ client[p.to].at # "stream"
  /\ pushes' = pushes \ {p}
  /\ UNCHANGED <<threatVars, rotationVars, client, stuck>>

ClientStep(c) ==
  \/ \E l \in Listeners, g \in Probes(c) : Dial(c, l, g)
  \/ HandshakeDone(c) \/ Drop(c) \/ StopReading(c)

Next ==
  \/ BeginScheduled
  \/ \E r \in Rotators : RotationStep(r)
  \/ \E b \in Bursts : Observe(b)
  \/ Monitor
  \/ \E c \in Clients : ClientStep(c)
  \/ \E p \in pushes : Learn(p) \/ LosePush(p)

Spec == Init /\ [][Next]_vars

\* The two goroutines run; nothing makes a client or a prober act.
Fairness == WF_vars(Monitor) /\ \A r \in Rotators : WF_vars(RotationStep(r))

FairSpec == Spec /\ Fairness

------------------------------------------------------------------------------
(* Properties *)

TypeOK ==
  /\ transports \in TransportLists
  /\ tele \in [probes : Nat, replays : Nat]
  /\ threat \in Levels
  /\ probeMode \in Modes
  /\ calm \in 0..1
  /\ monitor \in [pc : {"wait", "call", "rotating", "compare"}, level : Levels]
  /\ baseGen \in 0..MaxGen
  /\ rotating \in BOOLEAN
  /\ rot \in [Rotators ->
       [pc : {"idle", "compile", "count", "swap", "push"}, gen : 0..MaxGen,
        old : 0..MaxGen, busy : BOOLEAN, todo : SUBSET Muxes,
        sessions : SUBSET Clients]]
  /\ served \in [Listeners -> [base : 0..baseGen, slot : 0..baseGen]]
  /\ client \in [Clients -> [state : {"down", "shaking", "up"}, at : Listeners,
                             gen : Nat, known : 0..baseGen]]
  /\ pushes \subseteq [to : Clients, gen : 1..baseGen]
  /\ stuck \subseteq Clients
  /\ before \in [Listeners -> 0..MaxGen]

\* No client ever knows, or is about to learn, a generation that some listener
\* has not reached: the push follows every swap.  A client that got ahead would
\* skip the only generations that listener accepts.
ClientsBehindServer ==
  \A l \in Listeners :
    /\ \A c \in Clients : client[c].known <= served[l].base
    /\ \A p \in pushes : p.gen <= served[l].base

\* Between rotations every listener accepts the same generations, whether the
\* last rotation went through, was deferred or failed.
ListenersAgree ==
  ~rotating => \A l, m \in Listeners : served[l] = served[m]

\* The state of the immune system is of its type, and its listeners agree.
ListenersSound == TypeOK /\ ListenersAgree

\* No listener goes back to a generation it has left: two rotations, the
\* scheduler's and the monitor's, never interleave their swaps.
NeverRotatesBack ==
  [][\A l \in Listeners : served'[l].base >= served[l].base]_vars

\* Whatever happened to the level before, a server whose first transport is a
\* stream is not left on the silent defence under a threat, nor on less than close
\* under an attack.  One that lists udp first stays on its configured defence at
\* every threat, its stream listeners included: setProbeMode looks at cfg.Transport
\* only, though README.md promises the escalation of every TCP listener.
DefenceMatchesThreat ==
  IF Transport = "udp" THEN probeMode = Configured
  ELSE /\ threat >= 1 => probeMode # "silent"
       /\ threat = 3 => probeMode = "close"

\* A rotation ends, and lets the next one begin, unless it waits for a stream
\* client that has stopped reading.
RotationReleases == rotating ~> (~rotating \/ stuck # {})

\* README.md says one-generation-stale clients reconnect, immune.go that a
\* client that learned a generation just before the rotation still can: a
\* client that knows the base a listener served before its present one has a
\* generation to dial there.
OneStaleReconnects ==
  \A c \in Clients, l \in Listeners :
    client[c].known >= before[l] => \E g \in Probes(c) : Accepts(l, g)

\* README.md says everything de-escalates automatically after two calm
\* windows: if the probing stops for good, the configured defence comes back.
Deescalates == <>[](tele = Calm) => <>[](probeMode = Configured)
==============================================================================
