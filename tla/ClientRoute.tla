------------------------------ MODULE ClientRoute ------------------------------
(***************************************************************************)
(* The daemon's routing table, cmd/chimerad/route.go: which session the     *)
(* packets for an address go to.  A session has one address in it, the last *)
(* it was registered with.  Every operation holds the table's lock.         *)
(***************************************************************************)
EXTENDS Integers

CONSTANTS
  Sessions,  \* client sessions
  HostOf,    \* the remote host of each session, without the port
  Places,    \* source addresses of tunnelled packets
  NoSession, \* no session
  NoPlace    \* no address

Hosts == {HostOf[s] : s \in Sessions}

NewRoutes ==
  [byIP |-> [a \in Places |-> NoSession],
   byConn |-> [s \in Sessions |-> NoPlace],
   byHost |-> [h \in Hosts |-> {}]]

Routed(r, s) == r.byConn[s] # NoPlace

\* The session register(s, a) pushes out, or NoSession.
Displaced(r, s, a) ==
  IF r.byIP[a] # s THEN r.byIP[a] ELSE NoSession

RegisterKeepingOld(r, s, a) ==
  LET other == Displaced(r, s, a) IN
  [byIP |-> [r.byIP EXCEPT ![a] = s],
   byConn |-> [t \in Sessions |->
       IF t = s THEN a ELSE IF t = other THEN NoPlace ELSE r.byConn[t]],
   byHost |-> [h \in Hosts |->
       (r.byHost[h] \ {other}) \cup (IF h = HostOf[s] THEN {s} ELSE {})]]

Register(r, s, a) ==
  LET other == Displaced(r, s, a) IN
  [byIP |-> [b \in Places |->
       IF b = a THEN s
       ELSE IF b = r.byConn[s] THEN NoSession ELSE r.byIP[b]],
   byConn |-> [t \in Sessions |->
       IF t = s THEN a ELSE IF t = other THEN NoPlace ELSE r.byConn[t]],
   byHost |-> [h \in Hosts |->
       (r.byHost[h] \ {other}) \cup (IF h = HostOf[s] THEN {s} ELSE {})]]

\* The sessions of s's host, other than s, that have gone quiet.
Roamed(r, s, quiet) == (r.byHost[HostOf[s]] \cap quiet) \ {s}

\* reapRoamed
Reap(r, s, quiet) ==
  LET old == Roamed(r, s, quiet) IN
  [byIP |-> [a \in Places |->
       IF \E t \in old : r.byConn[t] = a THEN NoSession ELSE r.byIP[a]],
   byConn |-> [t \in Sessions |-> IF t \in old THEN NoPlace ELSE r.byConn[t]],
   byHost |-> [r.byHost EXCEPT ![HostOf[s]] = @ \ old]]

\* remove
Remove(r, s) ==
  [byIP |-> [a \in Places |->
       IF a = r.byConn[s] THEN NoSession ELSE r.byIP[a]],
   byConn |-> [r.byConn EXCEPT ![s] = NoPlace],
   byHost |-> [r.byHost EXCEPT ![HostOf[s]] = @ \ {s}]]
===============================================================================
