------------------------------- MODULE Startup -------------------------------
(***************************************************************************)
(* Server.Start of core/core.go: each listed transport binds its port and    *)
(* the ports hopped to, one after the other; the first that fails undoes     *)
(* all.  Close waits for the channels `made' by then, which only the         *)
(* goroutines started after the last port of a transport close (`watched').  *)
(* WebSocket and HTTP have none it would wait for for long.                  *)
(***************************************************************************)
EXTENDS Integers, Sequences

NewBoot == [at |-> 1, port |-> 1, bound |-> {}, made |-> {}, watched |-> {}, failed |-> "none"]

\* All but UDP listen on a TCP port: the same one.
Socket(transport, port) == <<IF transport = "udp" THEN "udp" ELSE "tcp", port>>

\* Whose listeners have a channel: startUDPMuxes makes it before its first port,
\* startTCPListeners after its last.
MadeAt(transport, first, last) ==
  IF (transport = "udp" /\ first) \/ (transport = "tcp" /\ last) THEN {transport} ELSE {}

\* A port of a transport with so many is bound.
Bound(b, transport, ports) ==
  LET last == b.port = ports IN
  [b EXCEPT !.bound = @ \cup {Socket(transport, b.port)},
            !.made = @ \cup MadeAt(transport, b.port = 1, last),
            !.watched = @ \cup IF last THEN {transport} ELSE {},
            !.at = IF last THEN @ + 1 ELSE @,
            !.port = IF last THEN 1 ELSE @ + 1]

\* A change for the worse of Failed: only the last transport's error is looked at.
FailedBefore(b, transport) ==
  [b EXCEPT !.made = @ \cup MadeAt(transport, b.port = 1, FALSE), !.at = @ + 1, !.port = 1]

\* It cannot be: taken by another process or by a listener of this one, or there
\* is no certificate.  rollbackTransports closes what was bound.
Failed(b, transport) ==
  [b EXCEPT !.bound = {}, !.made = @ \cup MadeAt(transport, b.port = 1, FALSE),
            !.failed = transport]

Started(b, transports, ports) ==
  LET t == transports[b.at] IN
  {Failed(b, t)} \cup
  IF Socket(t, b.port) \in b.bound THEN {} ELSE {Bound(b, t, ports)}

\* What Server.Close waits for comes.
WaitsEnd(b) == b.made \subseteq b.watched
===============================================================================
