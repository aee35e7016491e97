------------------------------ MODULE LinuxClient ------------------------------
(***************************************************************************)
(* The command-line client on Linux: runVPN of cmd/chimerac/tun_linux.go    *)
(* with startClient of session.go, the routes and the resolver.  unix.pc is *)
(* where the main goroutine is: it dials and waits for the address for the  *)
(* first time (dial, assign with cur = 0), runs, and dials again.  With     *)
(* --lost-after 0 a silent link would never be noticed; the default is      *)
(* modelled.                                                               *)
(***************************************************************************)
EXTENDS CoreClient, RouteTakeover

VARIABLE unix

UnixIdle ==
  [pc |-> "off", first |-> TRUE, cur |-> 0, next |-> 0, gen |-> ServerGen, heard |-> ServerGen,
   routes |-> NoRoutes, dns |-> FALSE, stale |-> FALSE, signalled |-> FALSE]

UnixInit ==
  unix = IF setup.platform = "linux" THEN [UnixIdle EXCEPT !.pc = "dial"] ELSE UnixIdle

UnixHeld == {unix.cur, unix.next} \ {0}

\* BaseGeneration of the last session; a closed client still answers.
UnixPushed == IF unix.cur = 0 THEN unix.heard ELSE sess[unix.cur].base

\* A reconnect resolves the server's name: through the tunnel if the resolver
\* was pushed onto it.  It dials past the tunnel only by the route installed for
\* the adapter of that time.
MayNotResolve == setup.named /\ unix.dns

DialWorks ==
  /\ unix.pc = "dial" /\ ~unix.signalled /\ ~unix.stale /\ Reaches(unix.gen)
  /\ \E i \in Ids :
       /\ Unused(i, UnixHeld)
       /\ sess' = Started(i, unix.gen)
       /\ unix' = [unix EXCEPT !.pc = "assign", !.next = i]
  /\ UNCHANGED <<setup, world>>

\* startClient fails: the first time the program ends.
GivesUp == [unix EXCEPT !.pc = IF unix.first THEN "exit" ELSE "wait", !.next = 0]

DialBreaks ==
  /\ unix.pc = "dial" /\ ~unix.signalled
  /\ MayFail(unix.gen) \/ unix.stale \/ MayNotResolve
  /\ unix' = GivesUp
  /\ UNCHANGED coreVars

NoAddress ==
  /\ unix.pc = "assign" /\ WaitMayEnd(unix.next)
  /\ sess' = Closed({unix.next})
  /\ unix' = GivesUp
  /\ UNCHANGED <<setup, world>>

\* The TUN device is opened and configured, then the routes are taken over and
\* the resolver set, neither of which stops the program when it fails.
SetsUp ==
  /\ unix.pc = "assign" /\ sess[unix.next].wait = "address" /\ unix.first
  /\ \/ /\ sess' = Waited(unix.next)
        /\ \E r \in IF setup.takes THEN LinuxInstalls(NoRoutes, setup.split) ELSE {NoRoutes} :
           \E dns \in IF r.specs = {} THEN {FALSE} ELSE BOOLEAN :
             unix' = [unix EXCEPT !.pc = "run", !.first = FALSE, !.cur = unix.next,
                                  !.next = 0, !.routes = r, !.dns = dns]
     \/ /\ sess' = Closed({unix.next})
        /\ unix' = [unix EXCEPT !.pc = "exit", !.next = 0]
  /\ UNCHANGED <<setup, world>>

\* The new session takes the place of the old one, which is not closed here.  If
\* the address is another one the device loses its only IPv4 address before it
\* gets the new one, and the kernel drops the IPv4 routes through the device.
Reconnected ==
  /\ unix.pc = "assign" /\ sess[unix.next].wait = "address" /\ ~unix.first
  /\ sess' = Waited(unix.next)
  /\ \E dropped \in {{}, {"halves"}} :
       unix' = [unix EXCEPT !.pc = "run", !.cur = unix.next, !.next = 0, !.heard = ServerGen,
                            !.routes.system = @ \ dropped]
  /\ UNCHANGED <<setup, world>>

\* A change for the worse of LinkLost: the session is not closed.
LinkLostOnlyTold ==
  /\ unix.pc = "run" /\ ~sess[unix.cur].link
  /\ unix' = [unix EXCEPT !.pc = "wait", !.cur = 0, !.heard = UnixPushed]
  /\ UNCHANGED coreVars

\* watchInbound: the link was silent, the session is closed.
LinkLost ==
  /\ unix.pc = "run" /\ ~sess[unix.cur].link
  /\ unix' = [unix EXCEPT !.pc = "wait", !.cur = 0, !.heard = UnixPushed]
  /\ sess' = Closed({unix.cur})
  /\ UNCHANGED <<setup, world>>

\* pumpNetToTun returns by itself: a stream was reset, or the TUN device refused
\* a packet.  The main loop reconnects and closes nothing.
PumpEnds ==
  /\ unix.pc = "run"
  /\ \/ ~sess[unix.cur].link /\ sess[unix.cur].via # "udp"
     \/ ~world.calm /\ FewLeft
  /\ unix' = [unix EXCEPT !.pc = "wait"]
  /\ UNCHANGED coreVars

\* A change for the worse of WaitEnds: no generation is adopted.
WaitEndsAsBefore ==
  /\ unix.pc = "wait" /\ ~unix.signalled
  /\ unix' = [unix EXCEPT !.pc = "dial"]
  /\ UNCHANGED coreVars

\* After the backoff the generation pushed on the last session is adopted.
WaitEnds ==
  /\ unix.pc = "wait" /\ ~unix.signalled
  /\ unix' = [unix EXCEPT !.pc = "dial", !.gen = Greater(@, UnixPushed)]
  /\ UNCHANGED coreVars

\* The process leaves; what it deferred reverts the resolver and the routes, as far as
\* the tools do it, and closes the device.
Exits ==
  /\ unix.signalled /\ unix.pc # "exit"
  /\ \E r \in Released(unix.routes), dns \in {FALSE, unix.dns} :
       unix' = [UnixIdle EXCEPT !.pc = "exit", !.signalled = TRUE, !.dns = dns,
                  !.routes = [WithoutDevice(r) EXCEPT !.refused =
                                @ \cup IF dns THEN {"resolver"} ELSE {}]]
  /\ sess' = Closed(Ids)
  /\ UNCHANGED <<setup, world>>

UnixStep ==
  \/ DialWorks \/ DialBreaks \/ NoAddress \/ SetsUp \/ Reconnected
  \/ LinkLost \/ PumpEnds \/ WaitEnds \/ Exits

Signal ==
  /\ unix.pc \notin {"off", "exit"} /\ ~unix.signalled
  /\ unix' = [unix EXCEPT !.signalled = TRUE]
  /\ UNCHANGED coreVars

\* The route to the server is not that of an adapter that leads to it, and everything
\* else goes into the tunnel.
Strands ==
  /\ unix' = [unix EXCEPT !.stale = TRUE]
  /\ sess' = [i \in Ids |-> [sess[i] EXCEPT !.link = FALSE]]
  /\ UNCHANGED <<setup, world>>

\* The host moves to another network: the route is that of the old adapter.
HostMoves == ~world.calm /\ unix.pc = "run" /\ "server" \in unix.routes.system /\ FewLeft /\ Strands

\* The takeover was rolled back and a half stayed: packets to the server may meet it.
HalfStays == unix.pc = "run" /\ Loops(unix.routes) /\ ~unix.stale /\ Strands
===============================================================================
