---------------------------- MODULE SplitRoutes ----------------------------
(***************************************************************************)
(* Where packets go once a client has taken the default route over: the      *)
(* adapter chosen for the server, the networks that split tunnelling leaves  *)
(* to it, the two halves, and the longest prefix among all these and the     *)
(* routes there were before (apps/windows/internal/bridge/route.go,          *)
(* route_windows.go, core_bridge_transport.go, cmd/chimerac/route_linux.go,  *)
(* geoip).  A network is the set of its addresses: of two one holds the      *)
(* other or they are apart, and the inner one has the longer prefix.         *)
(***************************************************************************)
EXTENDS Integers, Sequences, FiniteSets, SequencesExt, FiniteSetsExt

CONSTANTS
  Everywhere,     \* the addresses of IPv4
  Halves,         \* 0.0.0.0/1 and 128.0.0.0/1
  PrivateBypass,  \* private networks, which Windows leaves outside the tunnel
  TunSubnet,      \* the network of the tunnel
  Chnroute,       \* the snapshot of the country's networks
  Loopback,
  Hosts           \* adapters, the server, the platform and a country database

NoCountry == ""

\* One network of the database, and its country, if it names one.
Network(to, country) == [to |-> to, country |-> country, v6 |-> FALSE]

-------------------------------------------------------------------------------
(* The country's networks *)

\* Reader.CountryPrefixes: the record is one for all networks, and what a network
\* leaves out keeps the value of the last before it that had one.
CountryPrefixes(networks) ==
  {networks[i] : i \in {k \in 1 .. Len(networks) :
     \E j \in 1 .. k : /\ networks[j].country = "CN"
                       /\ \A m \in j + 1 .. k : networks[m].country = NoCountry}}

CountryNetworks(db) == {n.to : n \in {m \in CountryPrefixes(db.networks) : ~m.v6}}

\* On Linux those of a database that opens and can be read to its end, else the
\* snapshot; on Windows the snapshot: ChimeraApp.start makes its configuration anew, and
\* the path of the database is not among what it keeps of the one before.
LinuxCountry(db) == IF db.readable THEN CountryNetworks(db) ELSE Chnroute
WindowsCountry == Chnroute

-------------------------------------------------------------------------------
(* The adapter for the server *)

Up(h) == {a \in DOMAIN h.adapters : h.adapters[a].up}

OnLink(h, address) == {a \in Up(h) : address \in h.adapters[a].onLink}

\* Neither our own adapter nor that of another tunnel (isVirtual).
Usable(h) == {a \in Up(h) \ {"tun"} : ~h.adapters[a].virtual}

Best(h, adapters) ==
  {a \in adapters : \A b \in adapters : h.adapters[a].metric <= h.adapters[b].metric}

\* A change for the worse of Physical: whatever network the server is on.
PhysicalByDefault(h) == Best(h, {a \in Usable(h) : h.adapters[a].gateway})

\* choosePhysicalAdapter; of equals, the first in the order of the system.
Physical(h) ==
  LET lan == OnLink(h, h.server) \cap Usable(h)
  IN IF lan # {} THEN Best(h, lan) ELSE Best(h, {a \in Usable(h) : h.adapters[a].gateway})

-------------------------------------------------------------------------------
(* Routing *)

Route(to, by, metric) == [to |-> to, by |-> by, metric |-> metric]

\* The routes of the adapters themselves.
Before(h) ==
  {Route(h.adapters[a].onLink, a, h.adapters[a].metric) : a \in Up(h)} \cup
  {Route(Everywhere, a, h.adapters[a].metric) : a \in {b \in Up(h) : h.adapters[b].gateway}}

\* Longest prefix first, then lowest metric; several if these are equal.
Ways(routes, address) ==
  LET matching == {r \in routes : address \in r.to}
      longest == {r \in matching : \A q \in matching : r.to \subseteq q.to}
  IN {r.by : r \in {l \in longest : \A q \in longest : l.metric <= q.metric}}

\* Linux asks the system for the way to the server (lookupUnderlay).
Underlay(h) == IF h.server \in Loopback THEN {} ELSE Ways(Before(h), h.server)

Through(by, metric, networks) == {Route(to, by, metric) : to \in networks}

\* What goes by the adapter chosen when the takeover is a split one.
Direct(h) ==
  IF h.platform = "windows" THEN PrivateBypass \cup WindowsCountry ELSE LinuxCountry(h.db)

\* Install, if every step succeeds (RouteTakeover has the others), through the adapter
\* chosen; a route without a metric has that of its adapter.
WindowsInstalled(h, by) ==
  LET metric(a) == h.adapters[a].metric
  IN Before(h) \cup Through(by, metric(by), {{h.server}} \cup Direct(h))
     \cup Through("tun", metric("tun"), {TunSubnet} \cup Halves)

\* installDefaultRoutes, then installCIDRDirectRoutes, which asks once more.
LinuxInstalled(h, by) ==
  LET taken == Before(h) \cup Through(by, 0, {{h.server}}) \cup Through("tun", 0, Halves)
  IN taken \cup UNION {Through(again, 0, Direct(h)) : again \in Ways(taken, h.server)}

Installed(h) ==
  IF h.platform = "windows" THEN {WindowsInstalled(h, by) : by \in Physical(h)}
  ELSE {LinuxInstalled(h, by) : by \in Underlay(h)}

-------------------------------------------------------------------------------
(* What a host may be *)

\* The networks the database says are of some countries, or says nothing of.
Of(h, countries) ==
  {n.to : n \in {m \in ToSet(h.db.networks) : m.country \in countries /\ ~m.v6}}

Within(n) == \E half \in Halves : n \subseteq half /\ n # half
Apart(n, m) == n \cap m = {}
Nested(n, m) == Apart(n, m) \/ n \subseteq m \/ m \subseteq n

\* Networks that may be left outside the tunnel.
Bypassing(h) ==
  PrivateBypass \cup Chnroute \cup {n.to : n \in {m \in ToSet(h.db.networks) : ~m.v6}}

\* A network is less than a half.  Adapters are on the same network or on networks apart,
\* never on one that is the server alone; of the networks to leave outside two are nested
\* or apart, and none is part of the tunnel's.
IsHost(h) ==
  /\ h.db.networks \in Seq(Range(h.db.networks))
  /\ Within({h.server}) /\ h.server \notin TunSubnet
  /\ "tun" \in DOMAIN h.adapters
  /\ h.adapters["tun"].up /\ ~h.adapters["tun"].gateway /\ h.adapters["tun"].onLink = TunSubnet
  /\ \A a \in DOMAIN h.adapters : LET n == h.adapters[a].onLink IN
       /\ h.adapters[a].metric \in Nat /\ Within(n) /\ n # {h.server}
       /\ \A b \in DOMAIN h.adapters : n = h.adapters[b].onLink \/ Apart(n, h.adapters[b].onLink)
  /\ \A n \in Bypassing(h) :
       /\ IsFiniteSet(n) /\ Within(n)
       /\ Apart(n, TunSubnet) \/ (TunSubnet \subseteq n /\ n # TunSubnet)
       /\ \A m \in Bypassing(h) : Nested(n, m)

ASSUME RoutesAssumption ==
  /\ UNION Halves = Everywhere /\ Everywhere \notin Halves
  /\ \A n, m \in Halves : n = m \/ Apart(n, m)
  /\ TunSubnet # {}
  /\ \A h \in Hosts : IsHost(h)

-------------------------------------------------------------------------------
(* Properties *)

Tunnels(h) == {a \in Up(h) : h.adapters[a].virtual}

\* The traffic to the server, and that to private networks and the country's, leave by
\* the adapter they left by before, unless that was another tunnel, or the server sits
\* on the network of an adapter that is not theirs: then they all go there.  The
\* tunnel's own network and the rest of the world go through the tunnel, unless an
\* adapter is itself on that network.
WaysKept(h, routes) ==
  LET before(address) == Ways(Before(h), address)
      chosen == Ways(routes, h.server)
  IN /\ chosen \in {{a} : a \in Up(h) \ {"tun"}}
     /\ h.platform = "windows" => chosen \cap Tunnels(h) = {}
     /\ ~(before(h.server) \subseteq Tunnels(h)) => chosen \subseteq before(h.server)
     /\ \A address \in Everywhere \ (Loopback \cup {h.server}) :
          CASE OnLink(h, address) \ {"tun"} # {} ->
                 Ways(routes, address) \subseteq OnLink(h, address) \cup chosen
            [] address \in UNION Direct(h) /\ OnLink(h, address) = {} ->
                 /\ Ways(routes, address) = chosen
                 /\ before(address) \cap Tunnels(h) = {} /\ OnLink(h, h.server) = {}
                      => chosen \subseteq before(address)
            [] OTHER -> Ways(routes, address) = {"tun"}

\* The country's networks are those of the database, give or take the ones it names
\* no country for.
CountryKept(h) == Of(h, {"CN"}) \subseteq Direct(h) /\ Direct(h) \subseteq Of(h, {"CN", NoCountry})

\* So it is on any host after a split takeover, with the networks of a database that
\* can be read on Linux only: "mainland-direct routes are extracted from the database in
\* real time; empty = built-in snapshot" (app.go:35-36, translated) says it of Windows
\* too, where no configured database is ever opened (choosePhysicalAdapter, Install,
\* installDefaultRoutes, installCIDRDirectRoutes, CountryPrefixes, ChimeraApp.start).
BypassKeepsItsWay ==
  \A h \in Hosts :
    /\ \A routes \in Installed(h) : WaysKept(h, routes)
    /\ h.platform = "linux" /\ h.db.readable => CountryKept(h)
===============================================================================
