------------------------------- MODULE MCClients -------------------------------
(***************************************************************************)
(* A few deployments per platform.  With two ports the ports derived from   *)
(* different generations differ, and some candidates pass the last port.    *)
(***************************************************************************)
EXTENDS Clients, Settings, Invites, SplitRoutes

MCDraw(gen, k) == gen + 3 * k

\* Generations 0 and 1 have covers of one length.
MCCoverLen(gen) == 24 + gen \div 2

Deployment(platform, transports, from, upTo) ==
  [platform |-> platform, transports |-> transports, ports |-> 1, named |-> FALSE,
   takes |-> FALSE, split |-> FALSE, holds |-> TRUE, assigns |-> TRUE,
   from |-> from, upTo |-> upTo, restarts |-> TRUE,
   left |-> 1]

MCSetups ==
  { [Deployment("linux", <<"udp">>, 0, 0) EXCEPT !.takes = TRUE, !.split = TRUE, !.left = 2],
    [Deployment("linux", <<"udp">>, 0, 0) EXCEPT !.takes = TRUE, !.named = TRUE],
    Deployment("linux", <<"udp">>, 0, 3),
    [Deployment("linux", <<"tcp">>, 0, 3) EXCEPT !.ports = 2],
    [Deployment("linux", <<"ws", "udp">>, 1, 2) EXCEPT !.holds = FALSE],
    Deployment("linux", <<"ws">>, 0, 1),
    [Deployment("windows", <<"udp">>, 0, 0) EXCEPT !.split = TRUE],
    [Deployment("windows", <<"tcp">>, 1, 3) EXCEPT !.ports = 2, !.holds = FALSE,
                                                    !.assigns = FALSE],
    Deployment("android", <<"udp">>, 0, 0),
    [Deployment("android", <<"tcp">>, 2, 3) EXCEPT !.ports = 2, !.restarts = FALSE] }

-------------------------------------------------------------------------------
(* Server files: fields that matter to a client, each as it may be written. *)

Keyed == {[seed |-> seed, psk |-> "9512", generation |-> 3] : seed \in Plain \cup {"0x5EED"}}
Transported ==
  {<<>>, [transport |-> "https"], [transport |-> " TCP"], [transports |-> <<"udp", " TCP">>],
   [transports |-> <<" ", "udp", "udp">>], [transports |-> <<"wss", "udp">>],
   [transport |-> "ftp"]}
Hopping == {<<>>, [hops |-> 0], [hops |-> 4], [hops |-> 2, spread |-> 100], [hops |-> 17]}
Otherwise ==
  {<<>>, [window |-> {0}], [window |-> {-1}], [cipher |-> "chacha20-poly1305"],
   [decoyEvery |-> -1, decoysPerSec |-> 5], [buckets |-> <<576, 96, 1400>>],
   [buckets |-> <<576, 576>>]}

MCWords == STRING

MCServerFiles == {InitServer} \cup
  {ServerFile(o @@ h @@ t @@ k) : k \in Keyed, t \in Transported, h \in Hopping, o \in Otherwise}

-------------------------------------------------------------------------------
(* Texts to paste: a key may be absent, or have any of some values. *)

MaybeKey(key, values) == {<<>>} \cup {key :> v : v \in values}
Numbers ==
  {Num(-1), Num(3), Num(77), Num(MaxLong + 1), Str("3"), Str("-1"), Str("x"), Str("2^63"),
   Str(""), Null}

Pasted(form, addr, addr2, seed, psk, generation, name) ==
  {[form |-> form, fields |-> a @@ b @@ s @@ (psk :> Str(" 9512")) @@ g @@ n] :
     a \in MaybeKey(addr, {Str("vpn:1"), Null, Num(3)}),
     b \in MaybeKey(addr2, {Str("old:1"), Num(3)}),
     s \in MaybeKey(seed, {Str("5eed"), Str("0x5EED"), Str("5ee"), Null}),
     g \in MaybeKey(generation, Numbers), n \in MaybeKey(name, {Str(" "), Null})}

MCTexts ==
  Pasted("json", "serverAddr", "a", "seedHex", "psk_hex", "generation", "n") \cup
  {[t EXCEPT !.fields = @ @@ v] :
     t \in Pasted("v1", "a", "x", "s", "p", "g", "n"),
     v \in MaybeKey("v", {Num(0), Num(1), Num(2), Str("x"), Null})} \cup
  {t \in Pasted("connect", "server", "addr", "seed", "psk", "g", "n") :
     \A key \in DOMAIN t.fields : t.fields[key].type = "string"} \cup
  {[form |-> "other", fields |-> <<>>]}

MCProfiles ==
  [addr : {"vpn:1", " "}, seed : {"0x5EED", "5eed", "5ee"}, psk : {"9512"},
   generation : {0, 3, MaxLong}, name : {"", "home"}]

-------------------------------------------------------------------------------
(* Hosts: two network cards, perhaps one not up, perhaps another tunnel. *)

MCEverywhere == 0 .. 15
MCHalves == {0 .. 7, 8 .. 15}
MCPrivateBypass == {0 .. 3, 12 .. 13}
MCTunSubnet == 0 .. 1
MCChnroute == {6 .. 6}
MCLoopback == 14 .. 14

Adapter(up, virtual, metric, gateway, onLink) ==
  [up |-> up, virtual |-> virtual, metric |-> metric, gateway |-> gateway, onLink |-> onLink]
Down == Adapter(FALSE, FALSE, 1, FALSE, {})
Cards == {Adapter(TRUE, FALSE, m, g, l) :
            m \in {2, 3}, g \in BOOLEAN, l \in {2 .. 3, 12 .. 13, 10 .. 11, TunSubnet}}
Others == {Down, Adapter(TRUE, FALSE, 2, TRUE, 12 .. 13), Adapter(TRUE, FALSE, 3, FALSE, 2 .. 3)}
Vpns == {Down, Adapter(TRUE, TRUE, 1, TRUE, 5 .. 5), Adapter(TRUE, TRUE, 3, TRUE, 2 .. 3)}
Own == Adapter(TRUE, TRUE, 1, FALSE, TunSubnet)

Database(readable, networks) == [readable |-> readable, networks |-> networks]
Databases ==
  {Database(TRUE, <<Network(4 .. 4, "CN"), Network(7 .. 7, ""), Network(9 .. 9, "US"),
                    [Network(8 .. 8, "CN") EXCEPT !.v6 = TRUE]>>),
   Database(TRUE, <<Network(9 .. 9, "US"), Network(4 .. 4, "")>>),
   Database(FALSE, <<Network(4 .. 4, "CN")>>)}

MCHosts ==
  {[platform |-> p, server |-> s, db |-> d,
    adapters |-> [eth |-> e, wifi |-> w, vpn |-> v, tun |-> Own]] :
     p \in {"windows", "linux"}, s \in {2, 3, 4, 9, 12, 14}, d \in Databases,
     e \in Cards \cup {Down}, w \in Others, v \in Vpns}

-------------------------------------------------------------------------------
(* Properties.  What Settings, Invites and SplitRoutes say is about values, not  *)
(* states: here it is said of the states in which it matters.                     *)

\* A client whose session is open could be told by any front end what the server's
\* file says, and they would meet (Settings: NormalizeConfig and every front end).
DialsItsServer == Open # {} => SettingsMeet

\* The server of an open session serves what its file says, as normalised once
\* (Settings: chimerad's main and NewServer).
ServedAsWritten == Open # {} => NormalOnceNormal

\* Whoever runs an Android client from an invite runs it as Linux and Windows would,
\* but for a generation too large for a float64 (Invites: internal/invite and Invite.kt).
InvitedAlike == OnAndroid /\ Held # {} => InvitesAgree

\* While the routes are taken over, what was to bypass the tunnel does, and nothing
\* else (SplitRoutes: Install, installDefaultRoutes, installCIDRDirectRoutes).
BypassedRight == unix.routes.specs \cup win.routes.specs # {} => BypassKeepsItsWay
===============================================================================
