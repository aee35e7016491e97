----------------------------- MODULE SessionTable -----------------------------
(***************************************************************************)
(* What the server's session multiplexer promises, with none of its         *)
(* goroutines: an address is idle, in a handshake, or has a session; only a *)
(* handshake becomes a session; handshakes and sessions together stay       *)
(* within the cap.  ServerMux implements this specification.                *)
(***************************************************************************)
EXTENDS Integers, FiniteSets

CONSTANTS
  Addrs,  \* client addresses
  Cap     \* how many handshakes and sessions there may be, 0 for no limit

VARIABLES
  shaking,  \* the addresses in a handshake
  live      \* the addresses that have a session

vars == <<shaking, live>>

Init == shaking = {} /\ live = {}

Room == Cap > 0 => Cardinality(shaking) + Cardinality(live) < Cap

Start(a) ==
  /\ a \notin shaking \cup live
  /\ Room
  /\ shaking' = shaking \cup {a}
  /\ UNCHANGED live

Complete(a) ==
  /\ a \in shaking
  /\ shaking' = shaking \ {a}
  /\ live' = live \cup {a}

GiveUp(a) ==
  /\ a \in shaking
  /\ shaking' = shaking \ {a}
  /\ UNCHANGED live

End(a) ==
  /\ a \in live
  /\ live' = live \ {a}
  /\ UNCHANGED shaking

\* Shutting down ends every session at once; a handshake being worked on at
\* that moment may still go on.
Shutdown ==
  /\ live' = {}
  /\ shaking' \in SUBSET shaking

Next ==
  \/ \E a \in Addrs : Start(a) \/ Complete(a) \/ GiveUp(a) \/ End(a)
  \/ Shutdown

Spec == Init /\ [][Next]_vars
===============================================================================
