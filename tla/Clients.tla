-------------------------------- MODULE Clients --------------------------------
(***************************************************************************)
(* The three clients over the same core and the same world, one of them at  *)
(* a time: the setup chooses the platform, and the others stay idle.        *)
(***************************************************************************)
EXTENDS LinuxClient, WindowsClient, AndroidClient

vars == <<setup, world, sess, unix, win, droid>>

Init == CoreInit /\ UnixInit /\ WinInit /\ DroidInit

Held == UnixHeld \cup WinHeld \cup DroidHeld
Awaiting ==
  IF setup.platform = "linux" THEN {unix.next} \ {0}
  ELSE IF setup.platform = "windows" THEN (IF win.step = "assign" THEN {win.id} ELSE {})
  ELSE {droid.startId, droid.recId} \ {0}

AddressArrives == \E i \in Awaiting : AddressComes(i) /\ UNCHANGED <<unix, win, droid>>

Environment ==
  /\ World(Held) \/ \E i \in Awaiting : DataComesFirst(i)
  /\ UNCHANGED <<unix, win, droid>>

OnLinux == setup.platform = "linux"
OnWindows == setup.platform = "windows"
OnAndroid == setup.platform = "android"

LinuxStep == OnLinux /\ UnixStep /\ UNCHANGED <<win, droid>>
LinuxEvent == OnLinux /\ (Signal \/ HostMoves \/ HalfStays) /\ UNCHANGED <<win, droid>>

WindowsLock == OnWindows /\ LockHolder /\ UNCHANGED <<unix, droid>>
WindowsUser == OnWindows /\ WinUser /\ UNCHANGED <<unix, droid>>
WindowsDog == OnWindows /\ Dog /\ UNCHANGED <<unix, droid>>
WindowsEvent == OnWindows /\ (UserCalls \/ SenderEnds \/ ReceiverEnds \/ Swallows) /\ UNCHANGED <<unix, droid>>

AndroidStart == OnAndroid /\ StartVpn /\ UNCHANGED <<unix, win>>
AndroidReconnect == OnAndroid /\ ReconnectGo /\ UNCHANGED <<unix, win>>
AndroidRequest == OnAndroid /\ RequestsReconnect /\ UNCHANGED <<unix, win>>
AndroidTeardown == OnAndroid /\ Teardown /\ UNCHANGED <<unix, win>>
AndroidEvent == OnAndroid /\ (Connect \/ Disconnect \/ UserReconnects) /\ UNCHANGED <<unix, win>>

Next ==
  \/ AddressArrives \/ Environment
  \/ LinuxStep \/ LinuxEvent
  \/ WindowsLock \/ WindowsUser \/ WindowsDog \/ WindowsEvent
  \/ AndroidStart \/ AndroidReconnect \/ AndroidRequest \/ AndroidTeardown \/ AndroidEvent

\* What is started goes on, what watches the link looks at it again and again, and
\* an address that is assigned arrives as long as the link works.
Worker == LinuxStep \/ WindowsLock \/ AndroidStart
Watcher == WindowsDog \/ AndroidRequest

Fairness ==
  WF_vars(AddressArrives) /\ WF_vars(Worker) /\ WF_vars(AndroidReconnect) /\ WF_vars(Watcher)

Spec == Init /\ [][Next]_vars /\ Fairness

-------------------------------------------------------------------------------
(* A client process leaves a session running that nobody can close only where
   the code is known to: on Linux when the pump of the session ended by itself
   and the next one takes its place (the main loop closes a session only when it
   was silent); on Android when the service was destroyed while startVpn or
   reconnectGo was blocked in the core, when the new address could not be put on
   an interface, or when startVpn and reconnectGo run in one instance, because
   isRunning, which is shared by the instances, was left set by an earlier one.
   On Windows never, whatever start, Stop and the watchdog do to each other. *)
Ownerless == Open \ Held

MayBeLeft ==
  {i \in {unix.cur} : unix.pc = "assign"}
    \cup {i \in {droid.startId} : droid.svc = "gone"}
    \cup {i \in {droid.handle} : droid.start = "dial"}
    \cup {i \in {droid.recId} : droid.rec = "assign" /\ (droid.svc = "gone" \/ ~world.calm)}

SessionsClosed == [][Ownerless' \subseteq Ownerless \cup MayBeLeft]_vars

-------------------------------------------------------------------------------
(* When the network has become calm, a client that is meant to be connected gets
   connected, and on Linux its traffic goes through the tunnel, unless it is
   stranded in one of the ways the code allows. *)

\* The server still takes a generation the client tries from this one on, over a
\* transport on which it tries that far: on a stream only while the server keeps
\* it waiting, and at none of the ports the two ends do not share.
Answered(configured) ==
  \E t \in ToSet(setup.transports), k \in 0 .. Window :
    /\ Accepts(t, configured + k)
    /\ t = "ws" => configured = ServerGen
    /\ t # "udp" /\ k > 0 =>
         /\ setup.holds /\ (Len(setup.transports) > 1 \/ setup.ports > 1)
         /\ setup.ports = 1 \/ configured = ServerGen

Wants ==
  \/ unix.pc \notin {"off", "exit"} /\ ~unix.signalled
  \/ win.want
  \/ droid.running /\ droid.svc = "on" /\ droid.asked = "start"

Connected ==
  \/ /\ unix.pc = "run" /\ sess[unix.cur].link
     /\ "halves" \in unix.routes.specs => "halves" \in unix.routes.system
  \/ win.status = "connected" /\ win.id # 0 /\ sess[win.id].link /\ win.bridge = "up"
  \/ droid.handle # 0 /\ sess[droid.handle].link /\ droid.tun

\* Linux: a server it no longer shares a generation with, a host that moved since the
\* routes were installed, or whose takeover was not wholly rolled back, a name that is
\* looked up through the dead tunnel, an address that changed.  Windows: the user's own
\* start failed, which nothing tries again, or the sending loop ended alone, which
\* nothing looks at.  Windows and Android never learn of a generation; Android otherwise
\* connects or gives up.
Stranded ==
  CASE setup.platform = "linux" ->
         \/ ~Answered(Greater(unix.gen, UnixPushed))
         \/ unix.stale \/ (setup.named /\ unix.dns)
         \/ "halves" \in unix.routes.specs \ unix.routes.system
    [] setup.platform = "windows" ->
         \/ ~Answered(ServerGen)
         \/ win.status = "error" /\ ~win.retry
         \/ win.bridge = "half"
    [] OTHER -> FALSE

Reconnects == world.calm /\ Wants ~> Connected \/ ~Wants \/ Stranded

-------------------------------------------------------------------------------
(* A client that was stopped and has done all it does then has no session and no
   interface.  It leaves behind what the system's tools refused to take back when
   they were asked to, which is logged and forgotten ("Release removes every route
   Install added", route_windows.go:234, counts on the tools), and on Windows the
   part of a country list whose batch broke off, which was never remembered;
   nothing else is left, whatever failed before and however often.  There are two
   exceptions: the Windows watchdog that had decided before the stop starts the
   client again after it, and an Android service destroyed under a blocked startVpn
   or reconnectGo gets its interface or its session late. *)
StoppedForGood ==
  \/ unix.pc = "exit"
  \/ /\ win.asked = "stop" /\ win.ask = "none" /\ win.lock = "free"
     /\ win.dog \in {"off", "watches"} /\ ~win.overrode
  \/ droid.asked = "stop" /\ droid.svc = "none" /\ ~droid.late

LeavesNothing ==
  StoppedForGood =>
    /\ Held = {}
    /\ unix.routes.system \subseteq unix.routes.refused
    /\ unix.dns => "resolver" \in unix.routes.refused
    /\ win.routes.system \subseteq win.routes.refused \cup {"country"}
    /\ win.bridge = "none" /\ ~win.want /\ ~droid.tun /\ ~droid.running
===============================================================================
