----------------------------- MODULE WindowsClient -----------------------------
(***************************************************************************)
(* The Windows client: ChimeraApp of apps/windows/app.go with the bridge to *)
(* the core and to the Wintun adapter.  start and Stop hold lifecycleMu     *)
(* (win.lock); the watchdog reads the state without it, decides, marks the  *)
(* status and only then calls start.  The generation dialed is always the   *)
(* configured one.  One call of the user at a time is waiting (win.ask).    *)
(***************************************************************************)
EXTENDS CoreClient, RouteTakeover

VARIABLE win

WinInit ==
  win = [lock |-> "free", step |-> "none", id |-> 0, status |-> "disconnected", want |-> FALSE,
         retry |-> FALSE, bridge |-> "none", routes |-> NoRoutes, fallback |-> FALSE,
         dog |-> "off", ask |-> "none", asked |-> "none", overrode |-> FALSE]

WinHeld == {win.id} \ {0}

UserCalls ==
  /\ setup.platform = "windows" /\ win.ask = "none"
  /\ \E call \in {"start", "stop"} : win' = [win EXCEPT !.ask = call, !.asked = call]
  /\ UNCHANGED coreVars

\* start, of the user or of the watchdog, until the configuration is written.
\* What was running goes on when that fails.
Begins(by, w) ==
  \/ win' = [w EXCEPT !.lock = by, !.step = "begun", !.status = "connecting", !.want = TRUE]
  \/ ~world.calm /\ win' = [w EXCEPT !.status = "error", !.want = TRUE,
                                     !.dog = IF by = "dog" THEN "failed" ELSE @]

UserStarts ==
  /\ win.lock = "free" /\ win.ask = "start"
  /\ \/ Begins("user", [win EXCEPT !.ask = "none", !.overrode = FALSE])
     \/ win' = [win EXCEPT !.ask = "none", !.status = "error"]  \* an option is invalid
  /\ UNCHANGED coreVars

DogStarts ==
  /\ win.lock = "free" /\ win.dog = "marked"
  /\ Begins("dog", [win EXCEPT !.dog = "starts",
                               !.overrode = win.asked = "stop" /\ win.ask = "none"])
  /\ UNCHANGED coreVars

\* stopPacketBridge, which releases the routes and closes the adapter only if there
\* is a bridge, and stopTransport
Stopped(w) ==
  {[w EXCEPT !.bridge = "none", !.id = 0, !.routes = r] :
     r \in IF w.bridge = "none" THEN {w.routes}
           ELSE {WithoutDevice(q) : q \in Released(w.routes)}}

StopsOld ==
  /\ win.step = "begun"
  /\ \E w \in Stopped(win) : win' = [w EXCEPT !.step = "dial"]
  /\ sess' = Closed(WinHeld)
  /\ UNCHANGED <<setup, world>>

\* start returns an error; the watchdog notes that of its own calls.
Fails ==
  win' = [win EXCEPT !.lock = "free", !.step = "none", !.id = 0, !.status = "error",
                     !.dog = IF win.lock = "dog" THEN "failed" ELSE @]

TransportStarts ==
  /\ win.step = "dial" /\ Reaches(ServerGen)
  /\ \E i \in Ids :
       /\ Unused(i, WinHeld)
       /\ sess' = Started(i, ServerGen)
       /\ win' = [win EXCEPT !.step = "assign", !.id = i]
  /\ UNCHANGED <<setup, world>>

TransportBreaks ==
  /\ win.step = "dial" /\ MayFail(ServerGen)
  /\ Fails
  /\ UNCHANGED coreVars

\* Without an assigned address the configured one is used.
TakesAddress ==
  /\ win.step = "assign"
  /\ sess[win.id].wait = "address" \/ WaitMayEnd(win.id)
  /\ sess' = Waited(win.id)
  /\ win' = [win EXCEPT !.step = "bridge", !.fallback = sess[win.id].wait # "address"]
  /\ UNCHANGED <<setup, world>>

\* Without routes the bridge stays.
BridgeStarts ==
  /\ win.step = "bridge"
  /\ \E r \in WindowsInstalls(win.routes, setup.split) :
       win' = [win EXCEPT !.lock = "free", !.step = "none", !.status = "connected",
                          !.bridge = "up", !.routes = r,
                          !.dog = IF win.lock = "dog" THEN "done"
                                  ELSE IF @ = "off" THEN "watches" ELSE @]
  /\ UNCHANGED coreVars

BridgeBreaks ==
  /\ ~world.calm /\ win.step = "bridge"
  /\ Fails
  /\ sess' = Closed(WinHeld)
  /\ UNCHANGED <<setup, world>>

StopBegins ==
  /\ win.lock = "free" /\ win.ask = "stop"
  /\ win' = [win EXCEPT !.lock = "user", !.step = "stops", !.ask = "none", !.want = FALSE]
  /\ UNCHANGED coreVars

StopEnds ==
  /\ win.step = "stops"
  /\ \E w \in Stopped(win) :
       win' = [w EXCEPT !.lock = "free", !.step = "none", !.status = "disconnected"]
  /\ sess' = Closed(WinHeld)
  /\ UNCHANGED <<setup, world>>

LockHolder ==
  \/ StopsOld \/ TransportStarts \/ TransportBreaks \/ TakesAddress
  \/ BridgeStarts \/ BridgeBreaks \/ StopEnds

-------------------------------------------------------------------------------
(* The watchdog *)

\* IdleFor grows when nothing comes or nobody reads: keepalives count only while
\* the receive loop of the bridge takes them in.
Silent == win.id # 0 /\ (~sess[win.id].link \/ win.bridge \notin {"up", "half"})

DogDecides ==
  /\ win.dog = "watches" /\ win.want
  /\ \/ win.status = "connected" /\ Silent
     \/ win.status = "error" /\ win.retry
  /\ win' = [win EXCEPT !.dog = "decided"]
  /\ UNCHANGED coreVars

DogMarks ==
  /\ win.dog = "decided"
  /\ win' = [win EXCEPT !.dog = "marked", !.status = "connecting"]
  /\ UNCHANGED coreVars

DogNotes ==
  /\ win.dog \in {"failed", "done"}
  /\ win' = [win EXCEPT !.dog = "watches", !.retry = win.dog = "failed"]
  /\ UNCHANGED coreVars

Dog == DogDecides \/ DogMarks \/ DogStarts \/ DogNotes
WinUser == UserStarts \/ StopBegins

-------------------------------------------------------------------------------
(* The two loops of the bridge *)

\* The core refuses a packet: the adapter is closed, its routes go with it.  The
\* receive loop ends only at the next packet for the adapter.
SenderEnds ==
  /\ ~world.calm /\ win.bridge = "up"
  /\ win' = [win EXCEPT !.bridge = "half", !.routes = WithoutDevice(@)]
  /\ UNCHANGED coreVars

ReceiverEnds ==
  /\ win.bridge = "half" /\ win.id # 0 /\ sess[win.id].link
  /\ win' = [win EXCEPT !.bridge = "dead"]
  /\ UNCHANGED coreVars

\* What the session sends goes into the tunnel again.
Swallows ==
  /\ win.id # 0 /\ Loops(win.routes) /\ sess[win.id].link
  /\ sess' = [sess EXCEPT ![win.id].link = FALSE]
  /\ UNCHANGED <<setup, world, win>>
===============================================================================
