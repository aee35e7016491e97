----------------------------- MODULE RouteTakeover -----------------------------
(***************************************************************************)
(* The takeover of the default route: installed route by route by a tool    *)
(* that may fail at any of them, remembered in order to be released (Install *)
(* and Release of apps/windows/internal/bridge/route_windows.go, and         *)
(* cmd/chimerac/route_linux.go).  A table has what the system routes, what   *)
(* is remembered, and, as history, what the tool last refused to delete;      *)
(* routes of one purpose count as one.                                        *)
(***************************************************************************)
EXTENDS Integers, FiniteSets

CONSTANT MaxRefusals  \* bounds how many routes are left at a time

NoRoutes == [system |-> {}, specs |-> {}, refused |-> {}]

Added(r, kinds) ==
  [system |-> r.system \cup kinds, specs |-> r.specs \cup kinds, refused |-> r.refused \ kinds]

\* What is remembered is forgotten, and the system keeps that of it whose deletion fails.
Forgotten(r, kept) ==
  [system |-> r.system \ (r.specs \ kept), specs |-> {},
   refused |-> (r.refused \ r.specs) \cup kept]

Refusals(r) ==
  {kept \in SUBSET (r.system \cap r.specs) :
     Cardinality(kept \cup (r.refused \ r.specs)) <= MaxRefusals}

\* A change for the worse of Released: the exception for the server is not deleted.
ReleasedButServer(r) ==
  LET others == [r EXCEPT !.specs = @ \ {"server"}]
  IN {Forgotten(others, kept) : kept \in Refusals(others)}

\* Release, and rollback, which is the same on what is remembered so far: a deletion that
\* fails is logged, and its route is forgotten like the others.
Released(r) == {Forgotten(r, kept) : kept \in Refusals(r)}

\* A device that is closed takes its routes with it.
WithoutDevice(r) ==
  [r EXCEPT !.system = @ \ {"halves", "tun"}, !.refused = @ \ {"halves", "tun"}]

\* A rolled back takeover may leave a half without the way to the server.
Loops(r) == "halves" \in r.system /\ "server" \notin r.system

\* The tables after each step succeeds or one does not: all, or what a rollback
\* leaves.
Outcomes(r, before, after) ==
  {Added(r, before \cup after)} \cup
  UNION {Released(Added(r, done)) : done \in SUBSET (before \cup after)}

\* Windows, with split tunnelling: the list of the country's networks is one
\* batch, whose failure is logged and which is not remembered then.
WindowsInstalls(r, split) ==
  LET first == {"server"} \cup IF split THEN {"tun", "private"} ELSE {}
      listed == {r} \cup IF split
                  THEN {Added(r, {"country"}), [r EXCEPT !.system = @ \cup {"country"}]}
                  ELSE {}
  IN IF r.specs # {} THEN {r} ELSE UNION {Outcomes(l, first, {"halves"}) : l \in listed}

\* Linux: the list is remembered before its batch is run.
LinuxInstalls(r, split) ==
  LET taken == Outcomes(r, {"server"}, {"halves"}) IN
  taken \cup IF split
    THEN {Added(t, {"country"}) : t \in {u \in taken : u.specs # {}}} \cup
         {[t EXCEPT !.specs = @ \cup {"country"}] : t \in {u \in taken : u.specs # {}}}
    ELSE {}
===============================================================================
