----------------------------- MODULE ClientsProofs -----------------------------
(***************************************************************************)
(* Theorems about the three clients, for any deployments, generations and   *)
(* ports: which session may be left running by a step (SessionsClosed) and  *)
(* what a client that was stopped leaves behind (LeavesNothing).  Nothing    *)
(* in them depends on which port or generation is answered: whether a dial   *)
(* works is left open throughout.  Then, for any server files, that what     *)
(* NormalizeConfig makes of a file is normal (ServedAsWritten), that every   *)
(* front end dials with what meets the server (DialsItsServer), and, for     *)
(* any texts, that both readers of invites agree (InvitedAlike); and, for    *)
(* any hosts, that what is to bypass the tunnel does (BypassedRight).        *)
(***************************************************************************)
EXTENDS MCClients, FiniteSetTheorems, WellFoundedInduction, TLAPS

Kinds == {"server", "tun", "private", "halves", "country"}
Tables == [system : SUBSET Kinds, specs : SUBSET Kinds, refused : SUBSET (Kinds \cup {"resolver"})]

\* Whatever else the system routes is remembered, or was refused when it was to be deleted.
Backed(r, more) == r.system \subseteq r.specs \cup r.refused \cup more

SessionRecord ==
  [at : {"none", "open"}, base : Nat, link : BOOLEAN,
   wait : {"nothing", "address", "data", "done"}, via : {"none", "udp", "tcp", "ws", "http"}]

WorldRecord == [calm : BOOLEAN, base : Nat, slot : Nat \cup {NoSlot}, restarted : BOOLEAN]

CoreTypes ==
  /\ setup \in Setups
  /\ world \in WorldRecord
  /\ sess \in [Ids -> SessionRecord]

UnixTypes ==
  unix \in [pc : {"off", "dial", "assign", "run", "wait", "exit"}, first : BOOLEAN,
            cur : Ids \cup {0}, next : Ids \cup {0}, gen : Nat, heard : Nat, routes : Tables,
            dns : BOOLEAN, stale : BOOLEAN, signalled : BOOLEAN]

Locks == {"free", "user", "dog"}
Steps == {"none", "begun", "dial", "assign", "bridge", "stops"}
Statuses == {"disconnected", "connecting", "connected", "error"}
Bridges == {"none", "up", "half", "dead"}
Dogs == {"off", "watches", "decided", "marked", "starts", "failed", "done"}
Calls == {"none", "start", "stop"}

WinTypes ==
  win \in [lock : Locks, step : Steps, id : Ids \cup {0}, status : Statuses, want : BOOLEAN,
           retry : BOOLEAN, bridge : Bridges, routes : Tables, fallback : BOOLEAN, dog : Dogs,
           ask : Calls, asked : Calls, overrode : BOOLEAN]

Services == {"none", "on", "ending", "gone"}
Coroutines == {"none", "dial", "assign"}

DroidRecord ==
  [svc : Services, running : BOOLEAN, handle : Ids \cup {0}, tun : BOOLEAN, fallback : BOOLEAN,
   start : Coroutines, startId : Ids \cup {0}, rec : Coroutines, recId : Ids \cup {0},
   attempts : Nat, due : BOOLEAN, late : BOOLEAN, asked : Calls]

DroidTypes == droid \in DroidRecord

TypeOK == CoreTypes /\ UnixTypes /\ WinTypes /\ DroidTypes

\* The clients of the other platforms have not begun.
OneActs ==
  /\ ~OnLinux => unix = UnixIdle
  /\ ~OnWindows => WinInit
  /\ ~OnAndroid => DroidInit

\* Linux: there is a next session exactly while its address is waited for; before the
\* first one runs nothing was set up; what the system routes is remembered or was refused;
\* and a process that has ended has reverted all that was not.
UnixSound ==
  /\ Backed(unix.routes, {})
  /\ unix.pc = "assign" => unix.next # 0
  /\ unix.pc # "assign" => unix.next = 0
  /\ unix.first /\ unix.pc # "exit" => unix.cur = 0 /\ unix.routes = NoRoutes /\ ~unix.dns
  /\ unix.pc = "exit" => /\ unix.cur = 0 /\ unix.routes.system \subseteq unix.routes.refused
                         /\ unix.dns => "resolver" \in unix.routes.refused

\* Windows: a start has no session when it dials; without a bridge no route is
\* remembered; and between a stop that has the lock and the next start of the user the
\* client wants nothing and, once the stop has ended, has nothing, unless the watchdog
\* overrode it.
WinSound ==
  /\ Backed(win.routes, {"country"})
  /\ win.bridge = "none" => win.routes.specs = {}
  /\ win.step = "dial" => win.id = 0
  /\ win.step = "assign" => win.id # 0
  /\ win.lock = "free" <=> win.step = "none"
  /\ win.ask # "none" => win.asked = win.ask
  /\ win.asked = "stop" /\ win.ask = "none" /\ ~win.overrode =>
       /\ ~win.want
       /\ win.step = "stops" \/ (win.step = "none" /\ win.id = 0 /\ win.bridge = "none")

\* Android: each coroutine has a session of its own exactly while it waits for the
\* address; that of startVpn is the instance's handle as long as it is open; an instance
\* that is gone for good has neither; and isRunning outlives one only if a coroutine
\* set it late.
DroidSound ==
  /\ droid.start = "assign" => droid.startId # 0
  /\ droid.start # "assign" => droid.startId = 0
  /\ droid.rec = "assign" => droid.recId # 0
  /\ droid.rec # "assign" => droid.recId = 0
  /\ droid.startId # 0 => droid.recId # droid.startId
  /\ droid.startId \in Open => droid.handle = droid.startId
  /\ droid.svc = "none" => /\ droid.start = "none" /\ droid.rec = "none"
                           /\ ~droid.tun /\ droid.handle = 0
  /\ droid.svc \in {"gone", "none"} /\ droid.running => droid.late

IInv == TypeOK /\ OneActs /\ UnixSound /\ WinSound /\ DroidSound

-------------------------------------------------------------------------------
(* What the operations on sessions do to the set of open ones *)

LEMMA OpenAfterClosed ==
  ASSUME CoreTypes, NEW ids, setup' = setup, world' = world, sess' = Closed(ids)
  PROVE  CoreTypes' /\ Open' = Open \ ids
<1>1. Absent \in SessionRecord /\ Absent.at = "none"
  BY DEF Absent, SessionRecord
<1>2. /\ sess' = [i \in Ids |-> IF i \in ids THEN Absent ELSE sess[i]]
      /\ \A i \in Ids : sess[i] \in SessionRecord
  BY DEF CoreTypes, Closed
<1>3. \A i \in Ids : /\ sess'[i] \in SessionRecord
                     /\ sess'[i].at = IF i \in ids THEN "none" ELSE sess[i].at
  BY <1>1, <1>2
<1>4. sess' \in [Ids -> SessionRecord]
  BY <1>2, <1>3
<1>5. Open' = Open \ ids
  BY <1>3 DEF Open
<1> QED BY <1>4, <1>5 DEF CoreTypes

\* One field of a session's record changed
Rebased(r, b) == [r EXCEPT !.base = b]
Relinked(r, l) == [r EXCEPT !.link = l]
Rewaited(r, w) == [r EXCEPT !.wait = w]

LEMMA OneFieldChanged ==
  ASSUME NEW r \in SessionRecord
  PROVE  /\ \A b \in Nat : Rebased(r, b) \in SessionRecord /\ Rebased(r, b).at = r.at
         /\ \A l \in BOOLEAN : Relinked(r, l) \in SessionRecord /\ Relinked(r, l).at = r.at
         /\ \A w \in {"nothing", "address", "data", "done"} :
              Rewaited(r, w) \in SessionRecord /\ Rewaited(r, w).at = r.at
BY DEF SessionRecord, Rebased, Relinked, Rewaited

\* Sessions that change in nothing but such fields are open as before.
LEMMA OpenAsBefore ==
  ASSUME CoreTypes, sess' = [i \in Ids |-> sess'[i]],
         \A i \in Ids : sess'[i] \in SessionRecord /\ sess'[i].at = sess[i].at
  PROVE  sess' \in [Ids -> SessionRecord] /\ Open' = Open
BY DEF CoreTypes, Open

LEMMA OpenAfterWaited ==
  ASSUME CoreTypes, NEW i \in Ids, setup' = setup, world' = world, sess' = Waited(i)
  PROVE  CoreTypes' /\ Open' = Open
<1>1. sess' = [j \in Ids |-> IF j = i THEN Rewaited(sess[i], "done") ELSE sess[j]]
  BY DEF CoreTypes, Waited, Rewaited
<1>2. \A j \in Ids : sess'[j] \in SessionRecord /\ sess'[j].at = sess[j].at
  BY <1>1, OneFieldChanged DEF CoreTypes
<1>3. sess' = [j \in Ids |-> sess'[j]]
  BY <1>1
<1> QED BY <1>2, <1>3, OpenAsBefore DEF CoreTypes

\* A dial that works has a first transport that does.
LEMMA SomeTransportFirst ==
  ASSUME CoreTypes, NEW c, Reaches(c)
  PROVE  setup.transports[FirstThatWorks(c)] \in {"udp", "tcp", "ws", "http"}
<1> DEFINE ts == setup.transports
           W == {t \in DOMAIN ts : Works(ts[t], c)}
<1>1. ts \in Seq({"udp", "tcp", "ws", "http"}) /\ DOMAIN ts = 1 .. Len(ts) /\ Len(ts) \in Nat
  BY CoreAssumption DEF CoreTypes
<1>2. PICK t \in W : \A u \in W : ~ (u < t)
  <2>1. W \subseteq Nat /\ W # {}
    BY <1>1 DEF Reaches, ToSet
  <2>2. PICK t \in W : \A u \in W : <<u, t>> \notin OpToRel(<, Nat)
    <3> HIDE DEF W, OpToRel
    <3> QED BY <2>1, NatLessThanWellFounded, WFMin
  <2> QED BY <2>1, <2>2 DEF OpToRel
<1>3. /\ t \in DOMAIN ts /\ Works(ts[t], c)
      /\ \A u \in 1 .. t - 1 : ~Works(ts[u], c)
  BY <1>1, <1>2
<1>4. FirstThatWorks(c) \in DOMAIN ts
  BY <1>3 DEF FirstThatWorks
<1> QED BY <1>1, <1>4

LEMMA OpenAfterStarted ==
  ASSUME CoreTypes, NEW i \in Ids, NEW c \in Nat, Reaches(c),
         setup' = setup, world' = world, sess' = Started(i, c)
  PROVE  CoreTypes' /\ Open' = Open \cup {i}
<1>1. PICK via \in {"udp", "tcp", "ws", "http"} : via = setup.transports[FirstThatWorks(c)]
  BY SomeTransportFirst
<1>2. sess' = [sess EXCEPT ![i] = [at |-> "open", base |-> c, link |-> TRUE,
                                   wait |-> "nothing", via |-> via]]
  BY <1>1 DEF Started
<1> QED BY <1>2 DEF CoreTypes, SessionRecord, Open

\* The world changes no session's being open.
LEMMA OpenInWorld ==
  ASSUME CoreTypes, NEW held,
         World(held) \/ (\E i \in held : AddressComes(i) \/ DataComesFirst(i))
  PROVE  CoreTypes' /\ Open' = Open /\ setup' = setup
<1>1. CASE Rotates
  <2>1. PICK hear \in SUBSET Ids :
          sess' = [i \in Ids |-> IF i \in hear
                     THEN Rebased(sess[i], Greater(sess[i].base, world.base + 1)) ELSE sess[i]]
    BY <1>1 DEF Rotates, Rebased, Open
  <2>2. \A i \in Ids : Greater(sess[i].base, world.base + 1) \in Nat
    BY DEF Greater, CoreTypes, WorldRecord, SessionRecord
  <2>3. \A i \in Ids : sess'[i] \in SessionRecord /\ sess'[i].at = sess[i].at
    BY <2>1, <2>2, OneFieldChanged DEF CoreTypes
  <2>4. sess' = [i \in Ids |-> sess'[i]]
    BY <2>1
  <2>5. sess' \in [Ids -> SessionRecord] /\ Open' = Open
    BY <2>3, <2>4, OpenAsBefore
  <2>6. setup' = setup /\ world' = [world EXCEPT !.base = world.base + 1, !.slot = world.base]
    BY <1>1 DEF Rotates
  <2>7. world' \in WorldRecord
    <3>1. \A w \in WorldRecord, b \in Nat, c \in Nat :
            [w EXCEPT !.base = c, !.slot = b] \in WorldRecord
      BY DEF WorldRecord
    <3>2. world \in WorldRecord /\ world.base \in Nat /\ world.base + 1 \in Nat
      BY DEF CoreTypes, WorldRecord
    <3> QED BY <2>6, <3>1, <3>2
  <2> QED BY <2>5, <2>6, <2>7 DEF CoreTypes
<1>2. CASE GraceEnds \/ Calms
  BY <1>2 DEF GraceEnds, Calms, NoSlot, CoreTypes, WorldRecord, Open
<1>3. CASE Restarts
  <2>1. sess' = [i \in Ids |-> Relinked(sess[i], FALSE)]
    BY <1>3 DEF Restarts, Relinked
  <2>2. \A i \in Ids : sess'[i] \in SessionRecord /\ sess'[i].at = sess[i].at
    BY <2>1, OneFieldChanged DEF CoreTypes
  <2>3. sess' = [i \in Ids |-> sess'[i]]
    BY <2>1
  <2>4. sess' \in [Ids -> SessionRecord] /\ Open' = Open
    BY <2>2, <2>3, OpenAsBefore
  <2>5. setup' = setup /\ world' = [world EXCEPT !.base = ServerGen, !.slot = NoSlot,
                                                   !.restarted = TRUE]
    BY <1>3 DEF Restarts
  <2>6. world' \in WorldRecord
    BY <2>5 DEF CoreTypes, WorldRecord, ServerGen, NoSlot
  <2> QED BY <2>4, <2>5, <2>6 DEF CoreTypes
<1>4. CASE \E i \in held : LinkFails(i) \/ AddressComes(i) \/ DataComesFirst(i)
  <2>1. PICK i \in Ids : /\ setup' = setup /\ world' = world
                         /\ \/ sess' = [sess EXCEPT ![i] = Relinked(sess[i], FALSE)]
                            \/ sess' = [sess EXCEPT ![i] = Rewaited(sess[i], "address")]
                            \/ sess' = [sess EXCEPT ![i] = Rewaited(sess[i], "data")]
    <3>1. CASE \E i \in held : LinkFails(i)
      BY <3>1 DEF LinkFails, Relinked, Open
    <3>2. CASE \E i \in held : AddressComes(i)
      BY <3>2 DEF AddressComes, Rewaited, Open
    <3>3. CASE \E i \in held : DataComesFirst(i)
      BY <3>3 DEF DataComesFirst, Rewaited, Open
    <3> QED BY <1>4, <3>1, <3>2, <3>3
  <2>2. PICK r \in SessionRecord : sess' = [sess EXCEPT ![i] = r] /\ r.at = sess[i].at
    <3>1. sess[i] \in SessionRecord
      BY DEF CoreTypes
    <3> QED BY <2>1, <3>1, OneFieldChanged
  <2>3. /\ \A j \in Ids : sess'[j] \in SessionRecord /\ sess'[j].at = sess[j].at
        /\ sess' = [j \in Ids |-> sess'[j]]
    BY <2>2 DEF CoreTypes
  <2>4. sess' \in [Ids -> SessionRecord] /\ Open' = Open
    BY <2>3, OpenAsBefore
  <2> QED BY <2>1, <2>4 DEF CoreTypes
<1> QED BY <1>1, <1>2, <1>3, <1>4 DEF World

-------------------------------------------------------------------------------
(* Routes *)

\* What is added, released or lost with the device leaves nothing unaccounted for.
LEMMA BackedStill ==
  ASSUME NEW r \in Tables, NEW more, Backed(r, more)
  PROVE  /\ \A kinds \in SUBSET Kinds : Added(r, kinds) \in Tables /\ Backed(Added(r, kinds), more)
         /\ \A q \in Released(r) : q \in Tables /\ Backed(q, more) /\ q.specs = {}
         /\ WithoutDevice(r) \in Tables /\ Backed(WithoutDevice(r), more)
         /\ WithoutDevice(r).specs = r.specs
<1> USE DEF Tables, Backed
<1>1. ASSUME NEW kinds \in SUBSET Kinds
      PROVE  Added(r, kinds) \in Tables /\ Backed(Added(r, kinds), more)
  BY DEF Added
<1>2. ASSUME NEW q \in Released(r)
      PROVE  q \in Tables /\ Backed(q, more) /\ q.specs = {}
  <2>1. PICK kept \in SUBSET (r.system \cap r.specs) :
          q = [system |-> r.system \ (r.specs \ kept), specs |-> {},
               refused |-> (r.refused \ r.specs) \cup kept]
    BY DEF Released, Refusals, Forgotten
  <2> QED BY <2>1
<1>3. /\ WithoutDevice(r) \in Tables /\ Backed(WithoutDevice(r), more)
      /\ WithoutDevice(r).specs = r.specs
  BY DEF WithoutDevice
<1> QED BY <1>1, <1>2, <1>3

\* Nor does a takeover, whichever of its steps fails; on Windows the country's list may not
\* be remembered.
LEMMA InstalledBacked ==
  ASSUME NEW split
  PROVE  /\ \A r \in LinuxInstalls(NoRoutes, split) : r \in Tables /\ Backed(r, {})
         /\ \A r \in Tables : Backed(r, {"country"}) =>
              \A q \in WindowsInstalls(r, split) : q \in Tables /\ Backed(q, {"country"})
<1>1. ASSUME NEW r \in Tables, NEW more, Backed(r, more), NEW before \in SUBSET Kinds,
             NEW after \in SUBSET Kinds, NEW q \in Outcomes(r, before, after)
      PROVE  q \in Tables /\ Backed(q, more)
  <2>1. CASE q = Added(r, before \cup after)
    <3>1. before \cup after \in SUBSET Kinds
      OBVIOUS
    <3> QED BY <1>1, <2>1, <3>1, BackedStill
  <2>2. CASE \E done \in SUBSET (before \cup after) : q \in Released(Added(r, done))
    <3>1. PICK done \in SUBSET Kinds : q \in Released(Added(r, done))
      BY <2>2
    <3>2. Added(r, done) \in Tables /\ Backed(Added(r, done), more)
      BY <1>1, BackedStill
    <3> QED BY <3>1, <3>2, BackedStill
  <2> QED BY <1>1, <2>1, <2>2 DEF Outcomes
<1>2. ASSUME NEW r \in LinuxInstalls(NoRoutes, split)
      PROVE  r \in Tables /\ Backed(r, {})
  <2>1. NoRoutes \in Tables /\ Backed(NoRoutes, {})
    BY DEF NoRoutes, Tables, Backed
  <2>2. {"server"} \in SUBSET Kinds /\ {"halves"} \in SUBSET Kinds /\ {"country"} \in SUBSET Kinds
    BY DEF Kinds
  <2>3. PICK t \in Outcomes(NoRoutes, {"server"}, {"halves"}) :
          \/ r = t
          \/ r = Added(t, {"country"})
          \/ r = [t EXCEPT !.specs = @ \cup {"country"}]
    BY DEF LinuxInstalls
  <2>4. t \in Tables /\ Backed(t, {})
    BY <1>1, <2>1, <2>2
  <2>5. CASE r = Added(t, {"country"})
    BY <2>2, <2>4, <2>5, BackedStill
  <2>6. CASE r = [t EXCEPT !.specs = @ \cup {"country"}]
    BY <2>2, <2>4, <2>6 DEF Tables, Backed
  <2> QED BY <2>3, <2>4, <2>5, <2>6
<1>3. ASSUME NEW r \in Tables, Backed(r, {"country"}), NEW q \in WindowsInstalls(r, split)
      PROVE  q \in Tables /\ Backed(q, {"country"})
  <2>1. CASE q = r
    BY <1>3, <2>1
  <2>2. CASE q # r
    <3>1. PICK l, first : /\ first \subseteq Kinds
                          /\ \/ l = r
                             \/ l = Added(r, {"country"})
                             \/ l = [r EXCEPT !.system = @ \cup {"country"}]
                          /\ q \in Outcomes(l, first, {"halves"})
      <4> DEFINE first == {"server"} \cup IF split THEN {"tun", "private"} ELSE {}
      <4>1. first \subseteq Kinds
        BY DEF Kinds
      <4>2. \E l \in {r} \cup IF split
                  THEN {Added(r, {"country"}), [r EXCEPT !.system = @ \cup {"country"}]}
                  ELSE {} : q \in Outcomes(l, first, {"halves"})
        BY <2>2 DEF WindowsInstalls
      <4> QED BY <4>1, <4>2
    <3>2. {"halves"} \in SUBSET Kinds /\ {"country"} \in SUBSET Kinds
      BY DEF Kinds
    <3>3. l \in Tables /\ Backed(l, {"country"})
      <4>1. CASE l = Added(r, {"country"})
        BY <1>3, <3>2, <4>1, BackedStill
      <4>2. CASE l = [r EXCEPT !.system = @ \cup {"country"}]
        BY <1>3, <3>2, <4>2 DEF Tables, Backed
      <4> QED BY <1>3, <3>1, <4>1, <4>2
    <3> QED BY <1>1, <3>1, <3>2, <3>3
  <2> QED BY <2>1, <2>2
<1> QED BY <1>2, <1>3
-------------------------------------------------------------------------------
(* Linux *)

\* The sessions nobody on Linux holds
LinuxOwnerless == Open \ UnixHeld

LEMMA LinuxKept ==
  ASSUME TypeOK, UnixSound, UnixStep \/ Signal \/ HostMoves \/ HalfStays
  PROVE  /\ CoreTypes' /\ UnixTypes' /\ UnixSound' /\ setup' = setup
         /\ LinuxOwnerless' \subseteq LinuxOwnerless \cup {i \in {unix.cur} : unix.pc = "assign"}
<1> USE DEF LinuxOwnerless, UnixHeld
<1>1. CoreTypes /\ UnixTypes /\ 0 \notin Ids
  BY CoreAssumption DEF TypeOK
<1>2. /\ NoRoutes \in Tables /\ NoRoutes.system = {} /\ Backed(NoRoutes, {})
      /\ ServerGen \in Nat
  BY DEF NoRoutes, Tables, ServerGen, Backed
<1>3. UnixPushed \in Nat
  BY <1>1 DEF UnixPushed, UnixTypes, CoreTypes, SessionRecord
<1>4. CASE DialWorks
  <2>1. PICK i \in Ids : /\ sess' = Started(i, unix.gen) /\ Reaches(unix.gen)
                         /\ unix' = [unix EXCEPT !.pc = "assign", !.next = i]
                         /\ unix.pc = "dial" /\ setup' = setup /\ world' = world
    BY <1>4 DEF DialWorks
  <2>2. CoreTypes' /\ Open' = Open \cup {i}
    BY <1>1, <2>1, OpenAfterStarted DEF UnixTypes
  <2>3. UnixTypes' /\ UnixSound' /\ unix'.next = i /\ unix'.cur = unix.cur /\ unix.next = 0
    BY <1>1, <2>1 DEF UnixTypes, UnixSound
  <2> QED BY <1>1, <2>1, <2>2, <2>3
<1>5. ASSUME unix' = GivesUp, unix.pc \in {"dial", "assign"}
      PROVE  UnixTypes' /\ UnixSound' /\ unix'.cur = unix.cur /\ unix'.next = 0
  <2>1. PICK p \in {"exit", "wait"} : /\ unix' = [unix EXCEPT !.pc = p, !.next = 0]
                                      /\ p = "exit" => unix.first
    BY <1>5 DEF GivesUp
  <2>2. /\ UnixTypes' /\ unix'.cur = unix.cur /\ unix'.next = 0 /\ unix'.pc = p
        /\ unix'.first = unix.first /\ unix'.routes = unix.routes /\ unix'.dns = unix.dns
    BY <1>1, <2>1 DEF UnixTypes
  <2>3. UnixSound'
    <3>1. /\ Backed(unix.routes, {})
          /\ unix.first => unix.cur = 0 /\ unix.routes = NoRoutes /\ ~unix.dns
      BY <1>5 DEF UnixSound
    <3>2. p = "exit" => unix.routes.system = {}
      BY <1>2, <2>1, <3>1
    <3> QED BY <2>1, <2>2, <3>1, <3>2 DEF UnixSound
  <2> QED BY <2>2, <2>3
<1>6. CASE DialBreaks
  BY <1>1, <1>5, <1>6 DEF DialBreaks, coreVars, CoreTypes, Open, UnixSound
<1>7. CASE NoAddress
  <2>1. sess' = Closed({unix.next}) /\ unix' = GivesUp /\ setup' = setup /\ world' = world
        /\ unix.pc = "assign"
    BY <1>7 DEF NoAddress
  <2> QED BY <1>1, <1>5, <2>1, OpenAfterClosed
<1>8. CASE SetsUp
  <2>1. /\ unix.pc = "assign" /\ unix.first /\ unix.next \in Ids /\ unix.cur = 0
        /\ setup' = setup /\ world' = world
    BY <1>1, <1>8 DEF SetsUp, UnixSound, UnixTypes
  <2>2. CASE sess' = Waited(unix.next)
             /\ \E r \in IF setup.takes THEN LinuxInstalls(NoRoutes, setup.split) ELSE {NoRoutes} :
                  \E dns \in IF r.specs = {} THEN {FALSE} ELSE BOOLEAN :
                    unix' = [unix EXCEPT !.pc = "run", !.first = FALSE, !.cur = unix.next,
                                         !.next = 0, !.routes = r, !.dns = dns]
    <3>1. PICK r \in Tables, dns \in BOOLEAN :
             /\ Backed(r, {})
             /\ unix' = [unix EXCEPT !.pc = "run", !.first = FALSE, !.cur = unix.next,
                                     !.next = 0, !.routes = r, !.dns = dns]
      BY <1>2, <2>2, InstalledBacked
    <3>2. CoreTypes' /\ Open' = Open
      BY <1>1, <2>1, <2>2, OpenAfterWaited
    <3>3. UnixTypes' /\ UnixSound' /\ unix'.cur = unix.next /\ unix'.next = 0
      BY <1>1, <2>1, <3>1 DEF UnixTypes, UnixSound
    <3> QED BY <2>1, <3>2, <3>3
  <2>3. CASE sess' = Closed({unix.next}) /\ unix' = [unix EXCEPT !.pc = "exit", !.next = 0]
    <3>1. CoreTypes' /\ Open' = Open \ {unix.next}
      BY <1>1, <2>1, <2>3, OpenAfterClosed
    <3>2. UnixTypes' /\ UnixSound' /\ unix'.cur = unix.cur /\ unix'.next = 0
      BY <1>1, <1>2, <2>1, <2>3 DEF UnixTypes, UnixSound
    <3> QED BY <2>1, <3>1, <3>2
  <2> QED BY <1>8, <2>2, <2>3 DEF SetsUp
<1>9. CASE Reconnected
  <2>1. /\ unix.pc = "assign" /\ ~unix.first /\ unix.next \in Ids
        /\ sess' = Waited(unix.next) /\ setup' = setup /\ world' = world
    BY <1>1, <1>9 DEF Reconnected, UnixSound, UnixTypes
  <2>2. PICK system \in SUBSET unix.routes.system :
          unix' = [unix EXCEPT !.pc = "run", !.cur = unix.next, !.next = 0, !.heard = ServerGen,
                               !.routes = [@ EXCEPT !.system = system]]
    BY <1>1, <1>9 DEF Reconnected, UnixTypes, Tables
  <2>3. PICK r \in Tables : /\ Backed(r, {})
                            /\ unix' = [unix EXCEPT !.pc = "run", !.cur = unix.next, !.next = 0,
                                                    !.heard = ServerGen, !.routes = r]
    <3>1. unix.routes \in Tables /\ Backed(unix.routes, {})
      BY <1>1 DEF UnixTypes, UnixSound
    <3>2. /\ [unix.routes EXCEPT !.system = system] \in Tables
          /\ Backed([unix.routes EXCEPT !.system = system], {})
      BY <3>1 DEF Tables, Backed
    <3> QED BY <2>2, <3>1, <3>2
  <2>4. CoreTypes' /\ Open' = Open
    BY <1>1, <2>1, OpenAfterWaited
  <2>5. UnixTypes' /\ UnixSound' /\ unix'.cur = unix.next /\ unix'.next = 0
    BY <1>1, <1>2, <2>1, <2>3 DEF UnixTypes, UnixSound
  <2> QED BY <2>1, <2>4, <2>5
<1>10. CASE LinkLost
  <2>1. /\ unix.pc = "run" /\ sess' = Closed({unix.cur}) /\ setup' = setup /\ world' = world
        /\ unix' = [unix EXCEPT !.pc = "wait", !.cur = 0, !.heard = UnixPushed]
    BY <1>10 DEF LinkLost
  <2>2. CoreTypes' /\ Open' = Open \ {unix.cur}
    BY <1>1, <2>1, OpenAfterClosed
  <2>3. UnixTypes' /\ UnixSound' /\ unix'.cur = 0 /\ unix'.next = unix.next
    <3> HIDE DEF UnixPushed
    <3> QED BY <1>1, <1>3, <2>1 DEF UnixTypes, UnixSound
  <2> QED BY <2>1, <2>2, <2>3
<1>11. CASE PumpEnds
  <2>1. /\ unix.pc = "run" /\ unix' = [unix EXCEPT !.pc = "wait"]
        /\ setup' = setup /\ world' = world /\ sess' = sess
    BY <1>11 DEF PumpEnds, coreVars
  <2>2. UnixTypes' /\ UnixSound' /\ unix'.cur = unix.cur /\ unix'.next = unix.next
    BY <1>1, <2>1 DEF UnixTypes, UnixSound
  <2> QED BY <1>1, <2>1, <2>2 DEF CoreTypes, Open
<1>12. CASE WaitEnds
  <2>1. PICK g \in Nat : /\ unix' = [unix EXCEPT !.pc = "dial", !.gen = g] /\ unix.pc = "wait"
                         /\ setup' = setup /\ world' = world /\ sess' = sess
    BY <1>1, <1>3, <1>12 DEF WaitEnds, coreVars, Greater, UnixTypes
  <2>2. UnixTypes' /\ UnixSound' /\ unix'.cur = unix.cur /\ unix'.next = unix.next
    BY <1>1, <2>1 DEF UnixTypes, UnixSound
  <2> QED BY <1>1, <2>1, <2>2 DEF CoreTypes, Open
<1>13. CASE Exits
  <2>1. PICK r \in Released(unix.routes), dns \in BOOLEAN, lost \in SUBSET {"resolver"} :
           /\ unix' = [UnixIdle EXCEPT !.pc = "exit", !.signalled = TRUE, !.dns = dns,
                         !.routes = [WithoutDevice(r) EXCEPT !.refused = @ \cup lost]]
           /\ dns => "resolver" \in lost
           /\ sess' = Closed(Ids) /\ setup' = setup /\ world' = world
    <3>1. unix.dns \in BOOLEAN
      BY <1>1 DEF UnixTypes
    <3>2. PICK r \in Released(unix.routes), dns \in {FALSE, unix.dns} :
            unix' = [UnixIdle EXCEPT !.pc = "exit", !.signalled = TRUE, !.dns = dns,
                       !.routes = [WithoutDevice(r) EXCEPT !.refused =
                                     @ \cup IF dns THEN {"resolver"} ELSE {}]]
      BY <1>13, Zenon DEF Exits
    <3>3. PICK lost : lost = IF dns THEN {"resolver"} ELSE {}
      OBVIOUS
    <3>4. unix' = [UnixIdle EXCEPT !.pc = "exit", !.signalled = TRUE, !.dns = dns,
                     !.routes = [WithoutDevice(r) EXCEPT !.refused = @ \cup lost]]
      BY <3>2, <3>3, Zenon
    <3>5. dns \in BOOLEAN /\ lost \in SUBSET {"resolver"} /\ (dns => "resolver" \in lost)
      BY <3>1, <3>3
    <3>6. sess' = Closed(Ids) /\ setup' = setup /\ world' = world
      BY <1>13 DEF Exits
    <3> QED BY <3>4, <3>5, <3>6, Zenon
  <2> DEFINE t == WithoutDevice(r)
             q == [t EXCEPT !.refused = @ \cup lost]
  <2>2. t \in Tables /\ Backed(t, {}) /\ t.specs = {}
    <3>1. unix.routes \in Tables /\ Backed(unix.routes, {})
      BY <1>1 DEF UnixTypes, UnixSound
    <3>2. r \in Tables /\ Backed(r, {}) /\ r.specs = {}
      BY <3>1, BackedStill
    <3> QED BY <3>2, BackedStill
  <2> HIDE DEF t
  <2>3. /\ q \in Tables /\ Backed(q, {}) /\ q.system \subseteq q.refused
        /\ dns => "resolver" \in q.refused
    BY <2>1, <2>2 DEF Tables, Backed
  <2>4. unix' = [UnixIdle EXCEPT !.pc = "exit", !.signalled = TRUE, !.dns = dns, !.routes = q]
    BY <2>1 DEF t
  <2> HIDE DEF q
  <2>5. CoreTypes' /\ Open' = Open \ Ids
    BY <1>1, <2>1, OpenAfterClosed
  <2>6. unix' = [pc |-> "exit", first |-> TRUE, cur |-> 0, next |-> 0, gen |-> ServerGen,
                 heard |-> ServerGen, routes |-> q, dns |-> dns, stale |-> FALSE,
                 signalled |-> TRUE]
    BY <2>4 DEF UnixIdle
  <2>7. UnixTypes'
    BY <1>2, <2>3, <2>6 DEF UnixTypes
  <2>8. UnixSound'
    <3>1. /\ unix'.pc = "exit" /\ unix'.first /\ unix'.cur = 0 /\ unix'.next = 0
          /\ unix'.routes = q /\ unix'.dns = dns
      BY <2>6
    <3> QED BY <2>3, <3>1, Zenon DEF UnixSound
  <2> QED BY <2>1, <2>5, <2>7, <2>8 DEF Open
<1>14. CASE Signal
  <2>1. /\ unix' = [unix EXCEPT !.signalled = TRUE]
        /\ setup' = setup /\ world' = world /\ sess' = sess
    BY <1>14 DEF Signal, coreVars
  <2>2. UnixTypes' /\ UnixSound' /\ unix'.cur = unix.cur /\ unix'.next = unix.next
    BY <1>1, <2>1 DEF UnixTypes, UnixSound
  <2> QED BY <1>1, <2>1, <2>2 DEF CoreTypes, Open
<1>15. CASE HostMoves \/ HalfStays
  <2>1. /\ unix' = [unix EXCEPT !.stale = TRUE] /\ setup' = setup /\ world' = world
        /\ sess' = [i \in Ids |-> Relinked(sess[i], FALSE)]
    BY <1>15 DEF HostMoves, HalfStays, Strands, Relinked
  <2>2. CoreTypes' /\ Open' = Open
    <3>1. \A i \in Ids : sess'[i] \in SessionRecord /\ sess'[i].at = sess[i].at
      BY <1>1, <2>1, OneFieldChanged DEF CoreTypes
    <3>2. sess' = [i \in Ids |-> sess'[i]]
      BY <2>1
    <3> QED BY <1>1, <2>1, <3>1, <3>2, OpenAsBefore DEF CoreTypes
  <2>3. UnixTypes' /\ UnixSound' /\ unix'.cur = unix.cur /\ unix'.next = unix.next
    BY <1>1, <2>1 DEF UnixTypes, UnixSound
  <2> QED BY <2>1, <2>2, <2>3
<1> QED BY <1>4, <1>6, <1>7, <1>8, <1>9, <1>10, <1>11, <1>12, <1>13, <1>14, <1>15 DEF UnixStep
-------------------------------------------------------------------------------
(* Windows *)

\* The sessions nobody on Windows holds
WindowsOwnerless == Open \ WinHeld

\* stopPacketBridge leaves no route but the country's list and what was refused, and
\* remembers none.
LEMMA WindowsStopped ==
  ASSUME WinTypes, WinSound, NEW w \in Stopped(win)
  PROVE  \E r \in Tables : /\ w = [win EXCEPT !.bridge = "none", !.id = 0, !.routes = r]
                           /\ Backed(r, {"country"}) /\ r.specs = {}
<1>1. win.routes \in Tables /\ Backed(win.routes, {"country"})
  BY DEF WinTypes, WinSound
<1>2. PICK r : /\ w = [win EXCEPT !.bridge = "none", !.id = 0, !.routes = r]
               /\ r \in IF win.bridge = "none" THEN {win.routes}
                        ELSE {WithoutDevice(q) : q \in Released(win.routes)}
  BY DEF Stopped
<1>3. CASE win.bridge = "none"
  BY <1>1, <1>2, <1>3 DEF WinSound
<1>4. CASE win.bridge # "none"
  <2>1. PICK q \in Released(win.routes) : r = WithoutDevice(q)
    BY <1>2, <1>4
  <2>2. q \in Tables /\ Backed(q, {"country"}) /\ q.specs = {}
    BY <1>1, BackedStill
  <2> QED BY <1>2, <2>1, <2>2, BackedStill
<1> QED BY <1>3, <1>4

LEMMA WindowsKept ==
  ASSUME TypeOK, WinSound, LockHolder \/ WinUser \/ Dog \/ UserCalls \/ SenderEnds \/ ReceiverEnds
           \/ Swallows
  PROVE  /\ CoreTypes' /\ WinTypes' /\ WinSound' /\ setup' = setup
         /\ WindowsOwnerless' \subseteq WindowsOwnerless
<1> USE DEF WindowsOwnerless, WinHeld
<1>1. CoreTypes /\ WinTypes /\ 0 \notin Ids
  BY CoreAssumption DEF TypeOK
<1>0. /\ Locks = {"free", "user", "dog"}
      /\ {"none", "begun", "dial", "assign", "bridge", "stops"} \subseteq Steps
      /\ {"disconnected", "connecting", "connected", "error"} \subseteq Statuses
      /\ {"none", "up", "half", "dead"} \subseteq Bridges
      /\ {"off", "watches", "decided", "marked", "starts", "failed", "done"} \subseteq Dogs
      /\ {"none", "start", "stop"} = Calls
  BY DEF Locks, Steps, Statuses, Bridges, Dogs, Calls
<1>2. ASSUME UNCHANGED coreVars
      PROVE  CoreTypes' /\ Open' = Open /\ setup' = setup
  BY <1>1, <1>2 DEF coreVars, CoreTypes, Open
<1>3. CASE UserCalls
  <2>1. PICK call \in {"start", "stop"} : /\ win' = [win EXCEPT !.ask = call, !.asked = call]
                                          /\ win.ask = "none"
    BY <1>3 DEF UserCalls
  <2>2. /\ WinTypes' /\ win'.ask = call /\ win'.asked = call
        /\ win'.id = win.id /\ win'.routes = win.routes /\ win'.bridge = win.bridge
        /\ win'.lock = win.lock /\ win'.step = win.step
    BY <1>0, <1>1, <2>1 DEF WinTypes
  <2>3. WinSound'
    BY <2>2 DEF WinSound
  <2> QED BY <1>2, <1>3, <2>2, <2>3 DEF UserCalls
<1>4. ASSUME NEW by \in {"user", "dog"}, NEW v, Begins(by, v), win.lock = "free",
             \/ /\ by = "user" /\ win.ask = "start"
                /\ v = [win EXCEPT !.ask = "none", !.overrode = FALSE]
             \/ /\ by = "dog"
                /\ v = [win EXCEPT !.dog = "starts",
                                   !.overrode = win.asked = "stop" /\ win.ask = "none"]
      PROVE  WinTypes' /\ WinSound' /\ win'.id = win.id
  <2>1. PICK ask \in Calls, overrode \in BOOLEAN,
             dog \in Dogs :
          /\ v = [win EXCEPT !.ask = ask, !.overrode = overrode, !.dog = dog]
          /\ ask # "none" => win.asked = ask
          /\ win.asked = "stop" /\ ask = "none" => overrode
    <3>1. CASE by = "user"
      <4>1. v = [win EXCEPT !.ask = "none", !.overrode = FALSE, !.dog = win.dog]
        BY <1>0, <1>1, <1>4, <3>1 DEF WinTypes
      <4>2. win.asked = "start" /\ win.dog \in
              Dogs
        BY <1>0, <1>1, <1>4, <3>1 DEF WinTypes, WinSound
      <4> QED BY <1>0, <4>1, <4>2
    <3>2. CASE by = "dog"
      <4>1. PICK o \in BOOLEAN : o = (win.asked = "stop" /\ win.ask = "none")
        OBVIOUS
      <4>2. v = [win EXCEPT !.ask = win.ask, !.overrode = o, !.dog = "starts"]
        BY <1>0, <1>1, <1>4, <3>2, <4>1 DEF WinTypes
      <4>3. win.ask \in Calls /\ (win.ask # "none" => win.asked = win.ask)
        BY <1>1 DEF WinTypes, WinSound
      <4> QED BY <1>0, <4>1, <4>2, <4>3
    <3> QED BY <3>1, <3>2
  <2>2. PICK lock \in Locks, step \in {"none", "begun"},
             status \in Statuses,
             d \in Dogs :
          /\ win' = [win EXCEPT !.ask = ask, !.overrode = overrode, !.dog = d, !.lock = lock,
                                !.step = step, !.status = status, !.want = TRUE]
          /\ lock = "free" <=> step = "none"
    <3>1. CASE win' = [v EXCEPT !.lock = by, !.step = "begun", !.status = "connecting",
                                !.want = TRUE]
      <4>1. win' = [win EXCEPT !.ask = ask, !.overrode = overrode, !.dog = dog, !.lock = by,
                               !.step = "begun", !.status = "connecting", !.want = TRUE]
        BY <1>0, <1>1, <2>1, <3>1 DEF WinTypes
      <4> QED BY <1>0, <1>4, <4>1
    <3>2. CASE win' = [v EXCEPT !.status = "error", !.want = TRUE,
                                !.dog = IF by = "dog" THEN "failed" ELSE @]
      <4>1. PICK d \in {dog, "failed"} : win' = [v EXCEPT !.status = "error", !.want = TRUE, !.dog = d]
        BY <1>0, <1>1, <2>1, <3>2 DEF WinTypes
      <4>2. win' = [win EXCEPT !.ask = ask, !.overrode = overrode, !.dog = d, !.lock = "free",
                               !.step = "none", !.status = "error", !.want = TRUE]
        <5>1. win.lock = "free" /\ win.step = "none"
          BY <1>4 DEF WinSound
        <5>2. win' = [win EXCEPT !.ask = ask, !.overrode = overrode, !.dog = d,
                                 !.status = "error", !.want = TRUE]
          BY <1>1, <2>1, <4>1 DEF WinTypes
        <5> QED BY <1>1, <5>1, <5>2 DEF WinTypes
      <4>3. d \in Dogs
        BY <1>0, <4>1
      <4> QED BY <1>0, <4>2, <4>3
    <3> QED BY <1>4, <3>1, <3>2 DEF Begins
  <2>3. /\ WinTypes' /\ win'.ask = ask /\ win'.overrode = overrode /\ win'.asked = win.asked
        /\ win'.id = win.id /\ win'.routes = win.routes /\ win'.bridge = win.bridge
        /\ win'.lock = lock /\ win'.step = step
    BY <1>0, <1>1, <2>2 DEF WinTypes
  <2>4. WinSound'
    BY <1>0, <2>1, <2>2, <2>3 DEF WinSound
  <2> QED BY <2>3, <2>4
<1>5. CASE UserStarts
  <2>1. win.lock = "free" /\ win.ask = "start" /\ UNCHANGED coreVars
    BY <1>5 DEF UserStarts
  <2>2. CASE Begins("user", [win EXCEPT !.ask = "none", !.overrode = FALSE])
    BY <1>2, <1>4, <2>1, <2>2
  <2>3. CASE win' = [win EXCEPT !.ask = "none", !.status = "error"]
    <3>1. WinTypes' /\ WinSound' /\ win'.id = win.id
      BY <1>0, <1>1, <2>1, <2>3 DEF WinTypes, WinSound
    <3> QED BY <1>2, <2>1, <3>1
  <2> QED BY <1>5, <2>2, <2>3 DEF UserStarts
<1>6. CASE DogStarts
  <2>1. win.lock = "free" /\ UNCHANGED coreVars
        /\ Begins("dog", [win EXCEPT !.dog = "starts",
                                     !.overrode = win.asked = "stop" /\ win.ask = "none"])
    BY <1>6 DEF DogStarts
  <2> QED BY <1>2, <1>4, <2>1
<1>9. CASE StopsOld
  <2>1. PICK r \in Tables :
          /\ Backed(r, {"country"}) /\ r.specs = {}
          /\ win' = [win EXCEPT !.bridge = "none", !.id = 0, !.routes = r, !.step = "dial"]
    <3>1. PICK w \in Stopped(win) : win' = [w EXCEPT !.step = "dial"]
      BY <1>9 DEF StopsOld
    <3> QED BY <1>1, <3>1, WindowsStopped DEF WinTypes
  <2>2. win.step = "begun" /\ sess' = Closed(WinHeld) /\ setup' = setup /\ world' = world
    BY <1>9 DEF StopsOld
  <2>3. CoreTypes' /\ Open' = Open \ WinHeld
    BY <1>1, <2>2, OpenAfterClosed
  <2>4. WinTypes' /\ WinSound' /\ win'.id = 0
    BY <1>0, <1>1, <2>1, <2>2 DEF WinTypes, WinSound
  <2> QED BY <2>2, <2>3, <2>4
<1>10. CASE StopEnds
  <2>1. PICK r \in Tables :
          /\ Backed(r, {"country"}) /\ r.specs = {}
          /\ win' = [win EXCEPT !.bridge = "none", !.id = 0, !.routes = r, !.lock = "free",
                                !.step = "none", !.status = "disconnected"]
    <3>1. PICK w \in Stopped(win) :
            win' = [w EXCEPT !.lock = "free", !.step = "none", !.status = "disconnected"]
      BY <1>10 DEF StopEnds
    <3> QED BY <1>1, <3>1, WindowsStopped DEF WinTypes
  <2>2. win.step = "stops" /\ sess' = Closed(WinHeld) /\ setup' = setup /\ world' = world
    BY <1>10 DEF StopEnds
  <2>3. CoreTypes' /\ Open' = Open \ WinHeld
    BY <1>1, <2>2, OpenAfterClosed
  <2>4. WinTypes' /\ WinSound' /\ win'.id = 0
    BY <1>0, <1>1, <2>1, <2>2 DEF WinTypes, WinSound
  <2> QED BY <2>2, <2>3, <2>4
<1>11. CASE TransportStarts
  <2>1. PICK i \in Ids : /\ sess' = Started(i, ServerGen) /\ Reaches(ServerGen)
                         /\ win' = [win EXCEPT !.step = "assign", !.id = i]
                         /\ win.step = "dial" /\ setup' = setup /\ world' = world
    BY <1>11 DEF TransportStarts
  <2>2. CoreTypes' /\ Open' = Open \cup {i}
    BY <1>1, <2>1, OpenAfterStarted DEF ServerGen
  <2>3. WinTypes' /\ WinSound' /\ win'.id = i /\ win.id = 0
    BY <1>0, <1>1, <2>1 DEF WinTypes, WinSound
  <2> QED BY <1>1, <2>1, <2>2, <2>3
<1>12. ASSUME Fails, win.step \in {"dial", "bridge"}
       PROVE  WinTypes' /\ WinSound' /\ win'.id = 0
  <2>1. PICK d \in Dogs :
          win' = [win EXCEPT !.lock = "free", !.step = "none", !.id = 0, !.status = "error",
                             !.dog = d]
    BY <1>0, <1>1, <1>12 DEF Fails, WinTypes
  <2>2. /\ WinTypes' /\ win'.id = 0 /\ win'.lock = "free" /\ win'.step = "none"
        /\ win'.routes = win.routes /\ win'.bridge = win.bridge /\ win'.ask = win.ask
        /\ win'.asked = win.asked /\ win'.overrode = win.overrode /\ win'.want = win.want
    BY <1>0, <1>1, <2>1 DEF WinTypes
  <2>3. WinSound'
    BY <1>12, <2>2 DEF WinSound
  <2> QED BY <2>2, <2>3
<1>13. CASE TransportBreaks
  BY <1>1, <1>2, <1>12, <1>13 DEF TransportBreaks, WinSound
<1>14. CASE BridgeBreaks
  <2>1. /\ win.step = "bridge" /\ sess' = Closed(WinHeld) /\ setup' = setup /\ world' = world
        /\ Fails
    BY <1>14 DEF BridgeBreaks
  <2>2. CoreTypes' /\ Open' = Open \ WinHeld
    BY <1>1, <2>1, OpenAfterClosed
  <2> QED BY <1>12, <2>1, <2>2
<1>15. CASE TakesAddress
  <2>1. PICK f \in BOOLEAN : /\ win.step = "assign" /\ sess' = Waited(win.id)
                             /\ win' = [win EXCEPT !.step = "bridge", !.fallback = f]
                             /\ setup' = setup /\ world' = world
    BY <1>15 DEF TakesAddress
  <2>2. win.id \in Ids
    BY <1>0, <1>1, <2>1 DEF WinTypes, WinSound
  <2>3. CoreTypes' /\ Open' = Open
    BY <1>1, <2>1, <2>2, OpenAfterWaited
  <2>4. WinTypes' /\ WinSound' /\ win'.id = win.id
    BY <1>0, <1>1, <2>1 DEF WinTypes, WinSound
  <2> QED BY <2>1, <2>3, <2>4
<1>16. CASE BridgeStarts
  <2>1. win.step = "bridge" /\ UNCHANGED coreVars
    BY <1>16 DEF BridgeStarts
  <2>2. PICK q \in WindowsInstalls(win.routes, setup.split),
             d \in Dogs :
          win' = [win EXCEPT !.lock = "free", !.step = "none", !.status = "connected",
                             !.bridge = "up", !.routes = q, !.dog = d]
    <3>1. PICK q \in WindowsInstalls(win.routes, setup.split) :
            win' = [win EXCEPT !.lock = "free", !.step = "none", !.status = "connected",
                               !.bridge = "up", !.routes = q,
                               !.dog = IF win.lock = "dog" THEN "done"
                                       ELSE IF @ = "off" THEN "watches" ELSE @]
      BY <1>16 DEF BridgeStarts
    <3>2. PICK d : d = IF win.lock = "dog" THEN "done"
                       ELSE IF win.dog = "off" THEN "watches" ELSE win.dog
      OBVIOUS
    <3>3. d \in Dogs
      BY <1>0, <1>1, <3>2 DEF WinTypes
    <3> QED BY <3>1, <3>2, <3>3
  <2>3. q \in Tables /\ Backed(q, {"country"})
    BY <1>0, <1>1, InstalledBacked DEF WinTypes, WinSound
  <2>4. WinTypes' /\ WinSound' /\ win'.id = win.id
    BY <1>0, <1>1, <2>1, <2>2, <2>3 DEF WinTypes, WinSound
  <2> QED BY <1>2, <2>1, <2>4
<1>17. CASE StopBegins
  <2>1. /\ win.lock = "free" /\ win.ask = "stop" /\ UNCHANGED coreVars
        /\ win' = [win EXCEPT !.lock = "user", !.step = "stops", !.ask = "none", !.want = FALSE]
    BY <1>17 DEF StopBegins
  <2>2. WinTypes' /\ WinSound' /\ win'.id = win.id
    BY <1>0, <1>1, <2>1 DEF WinTypes, WinSound
  <2> QED BY <1>2, <2>1, <2>2
<1>18. CASE DogDecides \/ DogMarks \/ DogNotes
  <2>1. PICK d \in Dogs, t \in BOOLEAN,
             s \in Statuses :
          win' = [win EXCEPT !.dog = d, !.status = s, !.retry = t]
    <3>1. CASE DogDecides
      <4>1. win' = [win EXCEPT !.dog = "decided", !.status = win.status, !.retry = win.retry]
        BY <1>0, <1>1, <3>1 DEF DogDecides, WinTypes
      <4> QED BY <1>0, <1>1, <4>1 DEF WinTypes
    <3>2. CASE DogMarks
      <4>1. win' = [win EXCEPT !.dog = "marked", !.status = "connecting", !.retry = win.retry]
        BY <1>0, <1>1, <3>2 DEF DogMarks, WinTypes
      <4> QED BY <1>0, <1>1, <4>1 DEF WinTypes
    <3>3. CASE DogNotes
      <4>1. PICK t \in BOOLEAN : t = (win.dog = "failed")
        OBVIOUS
      <4>2. win' = [win EXCEPT !.dog = "watches", !.status = win.status, !.retry = t]
        BY <1>0, <1>1, <3>3, <4>1 DEF DogNotes, WinTypes
      <4> QED BY <1>0, <1>1, <4>2 DEF WinTypes
    <3> QED BY <1>18, <3>1, <3>2, <3>3
  <2>2. UNCHANGED coreVars
    BY <1>18 DEF DogDecides, DogMarks, DogNotes
  <2>3. /\ WinTypes' /\ win'.id = win.id /\ win'.lock = win.lock /\ win'.step = win.step
        /\ win'.routes = win.routes /\ win'.bridge = win.bridge /\ win'.ask = win.ask
        /\ win'.asked = win.asked /\ win'.overrode = win.overrode /\ win'.want = win.want
    BY <1>0, <1>1, <2>1 DEF WinTypes
  <2>4. WinSound'
    BY <2>3 DEF WinSound
  <2> QED BY <1>2, <2>2, <2>3, <2>4
<1>19. CASE SenderEnds
  <2>1. PICK q \in Tables :
          /\ Backed(q, {"country"}) /\ q.specs = win.routes.specs
          /\ win' = [win EXCEPT !.bridge = "half", !.routes = q]
    <3>1. win.routes \in Tables /\ Backed(win.routes, {"country"})
      BY <1>1 DEF WinTypes, WinSound
    <3> QED BY <1>19, <3>1, BackedStill DEF SenderEnds
  <2>2. win.bridge = "up" /\ UNCHANGED coreVars
    BY <1>19 DEF SenderEnds
  <2>3. WinTypes' /\ WinSound' /\ win'.id = win.id
    BY <1>0, <1>1, <2>1, <2>2 DEF WinTypes, WinSound
  <2> QED BY <1>2, <2>2, <2>3
<1>20. CASE ReceiverEnds
  <2>1. win.bridge = "half" /\ UNCHANGED coreVars /\ win' = [win EXCEPT !.bridge = "dead"]
    BY <1>20 DEF ReceiverEnds
  <2>2. WinTypes' /\ WinSound' /\ win'.id = win.id
    BY <1>0, <1>1, <2>1 DEF WinTypes, WinSound
  <2> QED BY <1>2, <2>1, <2>2
<1>21. CASE Swallows
  <2>1. /\ win.id \in Ids /\ win' = win /\ setup' = setup /\ world' = world
        /\ sess' = [i \in Ids |-> IF i = win.id THEN Relinked(sess[i], FALSE) ELSE sess[i]]
    BY <1>1, <1>21 DEF Swallows, Relinked, WinTypes, CoreTypes
  <2>2. \A i \in Ids : sess'[i] \in SessionRecord /\ sess'[i].at = sess[i].at
    BY <1>1, <2>1, OneFieldChanged DEF CoreTypes
  <2>3. sess' = [i \in Ids |-> sess'[i]]
    BY <2>1
  <2>4. CoreTypes' /\ Open' = Open
    BY <1>1, <2>1, <2>2, <2>3, OpenAsBefore DEF CoreTypes
  <2> QED BY <1>1, <2>1, <2>4 DEF WinTypes, WinSound
<1> QED BY <1>3, <1>5, <1>6, <1>9, <1>10, <1>11, <1>13, <1>14, <1>15, <1>16, <1>17, <1>18,
           <1>19, <1>20, <1>21 DEF LockHolder, WinUser, Dog
-------------------------------------------------------------------------------
(* Android *)

\* The sessions nobody on Android holds, and those a step may leave behind
AndroidOwnerless == Open \ DroidHeld
AndroidLeft ==
  {i \in {droid.startId} : droid.svc = "gone"}
    \cup {i \in {droid.handle} : droid.start = "dial"}
    \cup {i \in {droid.recId} : droid.rec = "assign" /\ (droid.svc = "gone" \/ ~world.calm)}

\* Of the fields that matter, stopVpn changes three and stopSelf one.
LEMMA AndroidStops ==
  ASSUME NEW d \in DroidRecord
  PROVE  LET v == StopVpn(d)
             e == StopSelf(v)
         IN /\ v \in DroidRecord /\ e \in DroidRecord
            /\ v.svc = d.svc /\ e.svc = IF d.svc = "on" THEN "ending" ELSE d.svc
            /\ \A w \in {v, e} :
                 /\ ~w.running /\ w.handle = 0 /\ ~w.tun /\ w.start = d.start
                 /\ w.startId = d.startId /\ w.rec = d.rec /\ w.recId = d.recId
                 /\ w.late = d.late /\ w.asked = d.asked
<1> DEFINE v == StopVpn(d)
           e == StopSelf(v)
<1>1. /\ v \in DroidRecord /\ v.svc = d.svc /\ ~v.running /\ v.handle = 0 /\ ~v.tun
      /\ v.start = d.start /\ v.startId = d.startId /\ v.rec = d.rec /\ v.recId = d.recId
      /\ v.late = d.late /\ v.asked = d.asked
  BY DEF DroidRecord, StopVpn
<1>2. PICK svc \in Services : /\ svc = IF d.svc = "on" THEN "ending" ELSE d.svc
                              /\ e = [v EXCEPT !.svc = svc]
  <2>1. PICK svc : svc = IF v.svc = "on" THEN "ending" ELSE v.svc
    OBVIOUS
  <2>2. svc \in Services
    BY <1>1, <2>1 DEF DroidRecord, Services
  <2>3. e = [v EXCEPT !.svc = svc]
    BY <2>1 DEF StopSelf
  <2> QED BY <1>1, <2>1, <2>2, <2>3
<1> HIDE DEF v
<1>3. /\ e \in DroidRecord /\ e.svc = svc /\ e.running = v.running /\ e.handle = v.handle
      /\ e.tun = v.tun /\ e.start = v.start /\ e.startId = v.startId /\ e.rec = v.rec
      /\ e.recId = v.recId /\ e.late = v.late /\ e.asked = v.asked
  <2> HIDE DEF e
  <2> QED BY <1>1, <1>2 DEF DroidRecord
<1> QED BY <1>1, <1>2, <1>3 DEF v

LEMMA OpenAfterReplaced ==
  ASSUME CoreTypes, NEW i \in Ids, NEW h, setup' = setup, world' = world,
         sess' = [j \in Ids |-> IF j = h THEN Absent ELSE Waited(i)[j]]
  PROVE  CoreTypes' /\ Open' = Open \ {h}
<1>1. Absent \in SessionRecord /\ Absent.at = "none"
  BY DEF Absent, SessionRecord
<1>2. Waited(i) = [j \in Ids |-> IF j = i THEN Rewaited(sess[i], "done") ELSE sess[j]]
  BY DEF CoreTypes, Waited, Rewaited
<1>3. \A j \in Ids : Waited(i)[j] \in SessionRecord /\ Waited(i)[j].at = sess[j].at
  BY <1>2, OneFieldChanged DEF CoreTypes
<1>4. \A j \in Ids : /\ sess'[j] \in SessionRecord
                     /\ sess'[j].at = IF j = h THEN "none" ELSE sess[j].at
  BY <1>1, <1>3
<1>5. sess' \in [Ids -> SessionRecord]
  BY <1>4
<1>6. Open' = Open \ {h}
  BY <1>4 DEF Open
<1> QED BY <1>5, <1>6 DEF CoreTypes
\* A step of the Android client keeps the invariant, and leaves no more behind than that.
LEMMA AndroidKept ==
  ASSUME TypeOK, DroidSound,
         \/ Connect \/ Disconnect \/ UserReconnects \/ Teardown
         \/ StartVpn \/ RequestsReconnect \/ ReconnectGo
  PROVE  /\ CoreTypes' /\ DroidTypes' /\ DroidSound' /\ setup' = setup
         /\ AndroidOwnerless' \subseteq AndroidOwnerless \cup AndroidLeft
<1> USE DEF AndroidOwnerless, AndroidLeft, DroidHeld
<1>0. /\ {"none", "on", "ending", "gone"} = Services /\ {"none", "dial", "assign"} = Coroutines
      /\ {"none", "start", "stop"} = Calls
  BY DEF Services, Coroutines, Calls
<1>1. CoreTypes /\ DroidTypes /\ 0 \notin Ids /\ Open \subseteq Ids
  BY CoreAssumption DEF TypeOK, Open
<1>2. ASSUME UNCHANGED coreVars
      PROVE  CoreTypes' /\ Open' = Open /\ setup' = setup
  BY <1>1, <1>2 DEF coreVars, CoreTypes, Open
<1>3. CASE Connect
  <2>1. /\ droid' = [droid EXCEPT !.svc = "on", !.start = "dial", !.asked = "start", !.late = FALSE]
        /\ UNCHANGED coreVars /\ ~droid.tun /\ droid.start = "none" /\ droid.svc \in {"none", "on"}
    BY <1>3 DEF Connect
  <2>2. /\ DroidTypes' /\ droid'.svc = "on" /\ droid'.start = "dial"
        /\ droid'.handle = droid.handle /\ droid'.startId = droid.startId
        /\ droid'.rec = droid.rec /\ droid'.recId = droid.recId
    BY <1>0, <1>1, <2>1 DEF DroidTypes, DroidRecord
  <2>3. DroidSound'
    BY <1>2, <2>1, <2>2 DEF DroidSound
  <2> QED BY <1>2, <2>1, <2>2, <2>3
<1>4. ASSUME NEW d \in DroidRecord, droid' = StopSelf(StopVpn(d)), sess' = Closed({droid.handle}),
             setup' = setup, world' = world, droid.svc # "none", d.svc = droid.svc,
             \/ d.start = droid.start /\ d.startId = droid.startId
             \/ d.start = "none" /\ d.startId = 0,
             \/ d.rec = droid.rec /\ d.recId = droid.recId
             \/ d.rec = "none" /\ d.recId = 0
      PROVE  /\ CoreTypes' /\ DroidTypes' /\ DroidSound'
             /\ AndroidOwnerless' \subseteq
                  AndroidOwnerless \cup ({droid.recId} \ {d.recId})
  <2>1. CoreTypes' /\ Open' = Open \ {droid.handle}
    BY <1>1, <1>4, OpenAfterClosed
  <2>2. /\ DroidTypes' /\ droid'.svc = (IF d.svc = "on" THEN "ending" ELSE d.svc)
        /\ ~droid'.running /\ droid'.handle = 0 /\ ~droid'.tun /\ droid'.start = d.start
        /\ droid'.startId = d.startId /\ droid'.rec = d.rec /\ droid'.recId = d.recId
    BY <1>4, AndroidStops DEF DroidTypes
  <2>3. droid.startId \notin Open'
    BY <2>1 DEF DroidSound
  <2>4. DroidSound'
    BY <1>1, <1>4, <2>1, <2>2, <2>3 DEF DroidSound
  <2>5. AndroidOwnerless' \subseteq AndroidOwnerless \cup ({droid.recId} \ {d.recId})
    BY <1>1, <1>4, <2>1, <2>2, <2>3
  <2> QED BY <2>1, <2>2, <2>4, <2>5
<1>5. CASE Disconnect
  <2>1. CASE droid.svc = "on"
    <3>1. /\ droid' = [StopSelf(StopVpn(droid)) EXCEPT !.asked = "stop"]
          /\ sess' = Closed({droid.handle}) /\ setup' = setup /\ world' = world
      BY <1>5, <2>1 DEF Disconnect
    <3>2. PICK e \in DroidRecord :
             /\ e = StopSelf(StopVpn(droid)) /\ e.svc = "ending" /\ ~e.running /\ e.handle = 0
             /\ ~e.tun /\ e.start = droid.start /\ e.startId = droid.startId
             /\ e.rec = droid.rec /\ e.recId = droid.recId
      BY <1>1, <2>1, AndroidStops DEF DroidTypes
    <3>3. droid' = [e EXCEPT !.asked = "stop"]
      BY <3>1, <3>2
    <3>4. /\ DroidTypes' /\ droid'.svc = e.svc /\ droid'.running = e.running
          /\ droid'.handle = e.handle /\ droid'.tun = e.tun /\ droid'.start = e.start
          /\ droid'.startId = e.startId /\ droid'.rec = e.rec /\ droid'.recId = e.recId
      BY <1>0, <3>3 DEF DroidTypes, DroidRecord
    <3>5. CoreTypes' /\ Open' = Open \ {droid.handle}
      BY <1>1, <3>1, OpenAfterClosed
    <3>6. droid.startId \notin Open'
      BY <3>5 DEF DroidSound
    <3>7. DroidSound'
      BY <1>1, <3>2, <3>4, <3>5, <3>6 DEF DroidSound
    <3> QED BY <1>1, <3>1, <3>2, <3>4, <3>5, <3>7
  <2>2. CASE droid.svc # "on"
    <3>1. droid' = [droid EXCEPT !.asked = "stop", !.running = FALSE] /\ UNCHANGED coreVars
      BY <1>5, <2>2 DEF Disconnect, coreVars
    <3>2. /\ DroidTypes' /\ droid'.svc = droid.svc /\ ~droid'.running
          /\ droid'.handle = droid.handle /\ droid'.tun = droid.tun /\ droid'.start = droid.start
          /\ droid'.startId = droid.startId /\ droid'.rec = droid.rec /\ droid'.recId = droid.recId
      BY <1>0, <1>1, <3>1 DEF DroidTypes, DroidRecord
    <3>3. DroidSound'
      BY <1>2, <3>1, <3>2 DEF DroidSound
    <3> QED BY <1>2, <3>1, <3>2, <3>3
  <2> QED BY <2>1, <2>2
<1>6. CASE Destroyed
  <2>1. /\ droid' = [StopVpn(droid) EXCEPT !.svc = "gone"] /\ droid.svc = "ending"
        /\ sess' = Closed({droid.handle}) /\ setup' = setup /\ world' = world
    BY <1>6 DEF Destroyed
  <2>2. PICK v \in DroidRecord :
           /\ v = StopVpn(droid) /\ ~v.running /\ v.handle = 0
           /\ ~v.tun /\ v.start = droid.start /\ v.startId = droid.startId
           /\ v.rec = droid.rec /\ v.recId = droid.recId
    BY <1>1, AndroidStops DEF DroidTypes
  <2>3. droid' = [v EXCEPT !.svc = "gone"]
    BY <2>1, <2>2
  <2>4. /\ DroidTypes' /\ droid'.svc = "gone" /\ droid'.running = v.running
        /\ droid'.handle = v.handle /\ droid'.tun = v.tun /\ droid'.start = v.start
        /\ droid'.startId = v.startId /\ droid'.rec = v.rec /\ droid'.recId = v.recId
    BY <1>0, <2>3 DEF DroidTypes, DroidRecord
  <2>5. CoreTypes' /\ Open' = Open \ {droid.handle}
    BY <1>1, <2>1, OpenAfterClosed
  <2>6. droid.startId \notin Open'
    BY <2>5 DEF DroidSound
  <2>7. DroidSound'
    BY <1>1, <2>2, <2>4, <2>5, <2>6 DEF DroidSound
  <2> QED BY <1>1, <2>1, <2>2, <2>4, <2>5, <2>7
<1>7. CASE Vanished
  <2>1. /\ droid' = [droid EXCEPT !.svc = "none", !.handle = 0, !.tun = FALSE, !.attempts = 0,
                                  !.fallback = FALSE]
        /\ droid.svc = "gone" /\ droid.start = "none" /\ droid.rec = "none" /\ UNCHANGED coreVars
    BY <1>7 DEF Vanished
  <2>2. /\ DroidTypes' /\ droid'.svc = "none" /\ droid'.running = droid.running
        /\ droid'.handle = 0 /\ ~droid'.tun /\ droid'.start = droid.start
        /\ droid'.startId = droid.startId /\ droid'.rec = droid.rec /\ droid'.recId = droid.recId
        /\ droid'.late = droid.late
    BY <1>0, <1>1, <2>1 DEF DroidTypes, DroidRecord
  <2>3. DroidSound'
    BY <1>1, <1>2, <2>1, <2>2 DEF DroidSound
  <2> QED BY <1>2, <2>1, <2>2, <2>3
<1>8. CASE StartDials
  <2>1. PICK i \in Ids :
           /\ Unused(i, DroidHeld) /\ sess' = Started(i, ServerGen) /\ Reaches(ServerGen)
           /\ droid' = [droid EXCEPT !.start = "assign", !.startId = i, !.handle = i]
           /\ droid.start = "dial" /\ setup' = setup /\ world' = world
    BY <1>8 DEF StartDials
  <2>2. i \notin Open /\ i \notin DroidHeld /\ i # 0
    BY <1>1, <2>1 DEF Unused
  <2>3. CoreTypes' /\ Open' = Open \cup {i}
    BY <1>1, <2>1, OpenAfterStarted DEF ServerGen
  <2>4. /\ DroidTypes' /\ droid'.svc = droid.svc /\ droid'.running = droid.running
        /\ droid'.handle = i /\ droid'.tun = droid.tun /\ droid'.start = "assign"
        /\ droid'.startId = i /\ droid'.rec = droid.rec /\ droid'.recId = droid.recId
        /\ droid'.late = droid.late
    BY <1>0, <1>1, <2>1 DEF DroidTypes, DroidRecord
  <2>5. DroidSound'
    BY <1>1, <2>1, <2>2, <2>3, <2>4 DEF DroidSound
  <2>6. droid.startId = 0
    BY <2>1 DEF DroidSound
  <2> QED BY <1>1, <2>1, <2>3, <2>4, <2>5, <2>6
<1>9. ASSUME StopsAndEnds, droid.start \in {"dial", "assign"}
      PROVE  /\ CoreTypes' /\ DroidTypes' /\ DroidSound' /\ setup' = setup
             /\ AndroidOwnerless' \subseteq AndroidOwnerless
  <2>1. PICK d : d = [droid EXCEPT !.start = "none", !.startId = 0]
    OBVIOUS
  <2>2. /\ d \in DroidRecord /\ d.svc = droid.svc /\ d.start = "none" /\ d.startId = 0
        /\ d.rec = droid.rec /\ d.recId = droid.recId
    BY <1>0, <1>1, <2>1 DEF DroidTypes, DroidRecord
  <2>3. droid.svc # "none"
    BY <1>9 DEF DroidSound
  <2>4. /\ droid' = StopSelf(StopVpn(d)) /\ sess' = Closed({droid.handle})
        /\ setup' = setup /\ world' = world
    BY <1>9, <2>1 DEF StopsAndEnds
  <2> QED BY <1>4, <2>2, <2>3, <2>4
<1>10. CASE StartBreaks
  BY <1>9, <1>10 DEF StartBreaks
<1>11. CASE StartNotEstablished
  BY <1>9, <1>11 DEF StartNotEstablished
<1>12. CASE StartEnds
  <2>1. PICK f \in BOOLEAN, l \in BOOLEAN :
           /\ l = (droid.late \/ droid.svc = "gone")
           /\ droid' = [droid EXCEPT !.start = "none", !.startId = 0, !.tun = TRUE,
                                     !.running = TRUE, !.attempts = 0, !.fallback = f, !.late = l]
    <3>1. PICK f \in BOOLEAN, l \in BOOLEAN : f = Unaddressed(droid.startId)
                                              /\ l = (droid.late \/ droid.svc = "gone")
      BY DEF Unaddressed
    <3> QED BY <1>12, <3>1 DEF StartEnds
  <2>2. /\ droid.start = "assign" /\ setup' = setup /\ world' = world
        /\ sess' = IF droid.startId \in Open THEN Waited(droid.startId) ELSE sess
    BY <1>12 DEF StartEnds
  <2>3. CoreTypes' /\ Open' = Open
    <3>1. CASE droid.startId \in Open
      BY <1>1, <2>2, <3>1, OpenAfterWaited
    <3>2. CASE droid.startId \notin Open
      BY <1>2, <2>2, <3>2 DEF coreVars
    <3> QED BY <3>1, <3>2
  <2>4. /\ DroidTypes' /\ droid'.svc = droid.svc /\ droid'.running /\ droid'.handle = droid.handle
        /\ droid'.tun /\ droid'.start = "none" /\ droid'.startId = 0 /\ droid'.rec = droid.rec
        /\ droid'.recId = droid.recId /\ droid'.late = l
    <3>1. droid' = [svc |-> droid.svc, running |-> TRUE, handle |-> droid.handle, tun |-> TRUE,
                    fallback |-> f, start |-> "none", startId |-> 0, rec |-> droid.rec,
                    recId |-> droid.recId, attempts |-> 0, due |-> droid.due, late |-> l,
                    asked |-> droid.asked]
      BY <1>1, <2>1 DEF DroidTypes, DroidRecord
    <3> QED BY <1>0, <1>1, <3>1 DEF DroidTypes, DroidRecord
  <2>5. droid.svc # "none" /\ droid.svc \in Services
    BY <1>1, <2>2 DEF DroidSound, DroidTypes, DroidRecord
  <2>6. DroidSound'
    BY <1>1, <2>1, <2>3, <2>4, <2>5 DEF DroidSound
  <2>7. droid.startId \in Open => droid.handle = droid.startId
    BY DEF DroidSound
  <2> QED BY <1>0, <1>1, <2>2, <2>3, <2>4, <2>5, <2>6, <2>7
<1>13. ASSUME NEW due \in BOOLEAN, Requests([droid EXCEPT !.due = due])
       PROVE  /\ CoreTypes' /\ DroidTypes' /\ DroidSound' /\ setup' = setup
              /\ AndroidOwnerless' \subseteq AndroidOwnerless
  <2>1. /\ droid' = [droid EXCEPT !.due = due, !.rec = "dial"] /\ droid.rec = "none"
        /\ droid.svc \in {"on", "ending"} /\ UNCHANGED coreVars
    BY <1>1, <1>13 DEF Requests, DroidTypes, DroidRecord
  <2>2. /\ DroidTypes' /\ droid'.svc = droid.svc /\ droid'.running = droid.running
        /\ droid'.handle = droid.handle /\ droid'.tun = droid.tun /\ droid'.start = droid.start
        /\ droid'.startId = droid.startId /\ droid'.rec = "dial" /\ droid'.recId = droid.recId
        /\ droid'.late = droid.late
    BY <1>0, <1>1, <2>1 DEF DroidTypes, DroidRecord
  <2>3. DroidSound'
    BY <1>2, <2>1, <2>2 DEF DroidSound
  <2> QED BY <1>2, <2>1, <2>2, <2>3
<1>14. ASSUME Requests(droid)
       PROVE  /\ CoreTypes' /\ DroidTypes' /\ DroidSound' /\ setup' = setup
              /\ AndroidOwnerless' \subseteq AndroidOwnerless
  <2>1. PICK due \in BOOLEAN : droid = [droid EXCEPT !.due = due]
    <3>1. droid.due \in BOOLEAN /\ droid = [droid EXCEPT !.due = droid.due]
      BY <1>1 DEF DroidTypes, DroidRecord
    <3> QED BY <3>1
  <2> QED BY <1>13, <1>14, <2>1
<1>15. CASE UserReconnects \/ RequestsReconnect
  BY <1>13, <1>14, <1>15 DEF UserReconnects, RequestsReconnect
<1>16. CASE ReconnectDials
  <2>1. PICK i \in Ids :
           /\ Unused(i, DroidHeld) /\ sess' = Started(i, ServerGen) /\ Reaches(ServerGen)
           /\ droid' = [droid EXCEPT !.rec = "assign", !.recId = i]
           /\ droid.rec = "dial" /\ setup' = setup /\ world' = world
    BY <1>16 DEF ReconnectDials
  <2>2. i \notin Open /\ i \notin DroidHeld /\ i # 0
    BY <1>1, <2>1 DEF Unused
  <2>3. CoreTypes' /\ Open' = Open \cup {i}
    BY <1>1, <2>1, OpenAfterStarted DEF ServerGen
  <2>4. /\ DroidTypes' /\ droid'.svc = droid.svc /\ droid'.running = droid.running
        /\ droid'.handle = droid.handle /\ droid'.tun = droid.tun /\ droid'.start = droid.start
        /\ droid'.startId = droid.startId /\ droid'.rec = "assign" /\ droid'.recId = i
        /\ droid'.late = droid.late
    BY <1>0, <1>1, <2>1 DEF DroidTypes, DroidRecord
  <2>5. DroidSound'
    BY <1>1, <2>1, <2>2, <2>3, <2>4 DEF DroidSound
  <2>6. droid.recId = 0
    BY <2>1 DEF DroidSound
  <2> QED BY <1>1, <2>1, <2>3, <2>4, <2>5, <2>6
<1>17. ASSUME Failed, setup' = setup, world' = world, droid.rec \in {"dial", "assign"},
              droid.rec = "assign" => ~world.calm
       PROVE  /\ CoreTypes' /\ DroidTypes' /\ DroidSound'
              /\ AndroidOwnerless' \subseteq AndroidOwnerless \cup AndroidLeft
  <2>1. droid.svc # "none" /\ (droid.recId # 0 => ~world.calm /\ droid.rec = "assign")
    BY <1>0, <1>17 DEF DroidSound
  <2>2. CASE droid.attempts < MaxAttempts
    <3>1. PICK due \in BOOLEAN, n \in Nat :
             /\ droid' = [droid EXCEPT !.rec = "none", !.recId = 0, !.attempts = n, !.due = due]
             /\ UNCHANGED coreVars
      <4>1. droid.attempts + 1 \in Nat /\ (droid.svc # "gone") \in BOOLEAN
        BY <1>1 DEF DroidTypes, DroidRecord
      <4>2. /\ droid' = [droid EXCEPT !.rec = "none", !.recId = 0, !.attempts = droid.attempts + 1,
                                      !.due = droid.svc # "gone"]
            /\ UNCHANGED coreVars
        BY <1>17, <2>2 DEF Failed, coreVars
      <4> QED BY <4>1, <4>2
    <3>2. /\ DroidTypes' /\ droid'.svc = droid.svc /\ droid'.running = droid.running
          /\ droid'.handle = droid.handle /\ droid'.tun = droid.tun /\ droid'.start = droid.start
          /\ droid'.startId = droid.startId /\ droid'.rec = "none" /\ droid'.recId = 0
          /\ droid'.late = droid.late
      <4>1. DroidTypes'
        BY <1>1, <3>1 DEF DroidTypes, DroidRecord, Coroutines
      <4>2. droid'.svc = droid.svc /\ droid'.running = droid.running
            /\ droid'.handle = droid.handle /\ droid'.tun = droid.tun
            /\ droid'.start = droid.start /\ droid'.startId = droid.startId
            /\ droid'.late = droid.late
        BY <1>1, <3>1 DEF DroidTypes, DroidRecord
      <4>3. droid'.rec = "none" /\ droid'.recId = 0
        BY <1>1, <3>1 DEF DroidTypes, DroidRecord
      <4> QED BY <4>1, <4>2, <4>3
    <3>3. DroidSound'
      BY <1>1, <1>2, <2>1, <3>1, <3>2 DEF DroidSound
    <3> QED BY <1>2, <2>1, <3>1, <3>2, <3>3
  <2>3. CASE ~(droid.attempts < MaxAttempts)
    <3>1. PICK d : d = [droid EXCEPT !.rec = "none", !.recId = 0]
      OBVIOUS
    <3>2. /\ d \in DroidRecord /\ d.svc = droid.svc /\ d.start = droid.start
          /\ d.startId = droid.startId /\ d.rec = "none" /\ d.recId = 0
      BY <1>0, <1>1, <3>1 DEF DroidTypes, DroidRecord
    <3>3. droid' = StopSelf(StopVpn(d)) /\ sess' = Closed({droid.handle})
      BY <1>17, <2>3, <3>1 DEF Failed
    <3>4. {droid.recId} \ {d.recId} \subseteq AndroidLeft
      BY <2>1, <3>2
    <3> QED BY <1>4, <1>17, <2>1, <3>2, <3>3, <3>4
  <2> QED BY <2>2, <2>3
<1>18. CASE ReconnectBreaks
  BY <1>17, <1>18 DEF ReconnectBreaks
<1>19. CASE ReconnectNotEstablished
  BY <1>17, <1>19 DEF ReconnectNotEstablished
<1>20. CASE ReconnectEnds
  <2>1. PICK f \in BOOLEAN, l \in BOOLEAN, tun \in BOOLEAN :
           /\ l = (droid.late \/ droid.svc = "gone")
           /\ droid' = [droid EXCEPT !.rec = "none", !.recId = 0, !.handle = droid.recId,
                                     !.tun = tun, !.attempts = 0, !.fallback = f, !.late = l]
    <3>1. PICK f \in BOOLEAN, l \in BOOLEAN : f = Unaddressed(droid.recId)
                                              /\ l = (droid.late \/ droid.svc = "gone")
      BY DEF Unaddressed
    <3>2. {droid.tun, TRUE} \subseteq BOOLEAN
      BY <1>1 DEF DroidTypes, DroidRecord
    <3> QED BY <1>20, <3>1, <3>2 DEF ReconnectEnds
  <2>2. /\ droid.rec = "assign" /\ setup' = setup /\ world' = world
        /\ sess' = [i \in Ids |-> IF i = droid.handle THEN Absent ELSE Waited(droid.recId)[i]]
    BY <1>20 DEF ReconnectEnds
  <2>3. droid.recId \in Ids
    BY <1>1, <2>2 DEF DroidSound, DroidTypes, DroidRecord
  <2>4. CoreTypes' /\ Open' = Open \ {droid.handle}
    BY <1>1, <2>2, <2>3, OpenAfterReplaced
  <2>5. /\ DroidTypes' /\ droid'.svc = droid.svc /\ droid'.running = droid.running
        /\ droid'.handle = droid.recId /\ droid'.tun = tun /\ droid'.start = droid.start
        /\ droid'.startId = droid.startId /\ droid'.rec = "none" /\ droid'.recId = 0
        /\ droid'.late = l
    <3>1. PICK h \in Ids : h = droid.recId
      BY <2>3
    <3>2. droid' = [droid EXCEPT !.rec = "none", !.recId = 0, !.handle = h, !.tun = tun,
                                 !.attempts = 0, !.fallback = f, !.late = l]
      BY <2>1, <3>1
    <3>3. DroidTypes'
      <4>1. droid' = [svc |-> droid.svc, running |-> droid.running, handle |-> h, tun |-> tun,
                      fallback |-> f, start |-> droid.start, startId |-> droid.startId,
                      rec |-> "none", recId |-> 0, attempts |-> 0, due |-> droid.due,
                      late |-> l, asked |-> droid.asked]
        BY <1>1, <3>2 DEF DroidTypes, DroidRecord
      <4> QED BY <1>0, <1>1, <4>1 DEF DroidTypes, DroidRecord
    <3>4. /\ droid'.svc = droid.svc /\ droid'.running = droid.running
          /\ droid'.handle = h /\ droid'.tun = tun /\ droid'.start = droid.start
          /\ droid'.startId = droid.startId /\ droid'.rec = "none" /\ droid'.recId = 0
          /\ droid'.late = l
      BY <1>1, <3>2 DEF DroidTypes, DroidRecord
    <3> QED BY <3>1, <3>3, <3>4
  <2>6. droid.startId \notin Open' /\ droid.svc # "none" /\ droid.svc \in Services
    BY <1>1, <2>2, <2>4 DEF DroidSound, DroidTypes, DroidRecord
  <2>7. DroidSound'
    BY <1>1, <2>1, <2>2, <2>4, <2>5, <2>6 DEF DroidSound
  <2> QED BY <1>0, <1>1, <2>2, <2>4, <2>5, <2>6, <2>7
<1> QED BY <1>3, <1>5, <1>6, <1>7, <1>8, <1>10, <1>11, <1>12, <1>15, <1>16, <1>18, <1>19, <1>20
        DEF Teardown, StartVpn, ReconnectGo
-------------------------------------------------------------------------------
(* All clients *)

LEMMA InitHolds == Init => IInv
<1> SUFFICES ASSUME Init
             PROVE  IInv
  OBVIOUS
<1>1. /\ setup \in Setups /\ sess = [i \in Ids |-> Absent] /\ setup.from \in Nat
      /\ setup.platform \in {"linux", "windows", "android"}
  BY CoreAssumption DEF Init, CoreInit
<1>2. CoreTypes
  <2>1. world = [calm |-> FALSE, base |-> setup.from, slot |-> NoSlot, restarted |-> FALSE]
    BY DEF Init, CoreInit
  <2>2. world \in WorldRecord
    BY <1>1, <2>1 DEF WorldRecord
  <2>3. Absent \in SessionRecord
    BY DEF Absent, SessionRecord
  <2> QED BY <1>1, <2>2, <2>3 DEF CoreTypes
<1>3. Open = {} /\ 0 \notin Ids
  BY <1>1, CoreAssumption DEF Open, Absent
<1>4. /\ NoRoutes \in Tables /\ NoRoutes.system = {} /\ NoRoutes.specs = {}
      /\ \A more : Backed(NoRoutes, more)
      /\ ServerGen \in Nat
  BY DEF NoRoutes, Tables, ServerGen, Backed
<1>5. UnixTypes /\ UnixSound
  <2>1. PICK pc \in {"off", "dial"} :
          unix = [pc |-> pc, first |-> TRUE, cur |-> 0, next |-> 0, gen |-> ServerGen,
                  heard |-> ServerGen, routes |-> NoRoutes, dns |-> FALSE, stale |-> FALSE,
                  signalled |-> FALSE]
    BY DEF Init, UnixInit, UnixIdle
  <2> QED BY <1>4, <2>1 DEF UnixTypes, UnixSound
<1>6. WinTypes /\ WinSound
  <2>1. WinInit
    BY DEF Init
  <2>2. WinTypes
    BY <1>4, <2>1 DEF WinInit, WinTypes, Locks, Steps, Statuses, Bridges, Dogs, Calls
  <2>3. WinSound
    BY <1>4, <2>1 DEF WinInit, WinSound
  <2> QED BY <2>2, <2>3
<1>7. DroidTypes /\ DroidSound
  <2>1. DroidInit
    BY DEF Init
  <2>2. DroidTypes
    BY <2>1 DEF DroidInit, DroidTypes, DroidRecord, Services, Coroutines, Calls
  <2>3. DroidSound
    BY <1>3, <2>1 DEF DroidInit, DroidSound
  <2> QED BY <2>2, <2>3
<1>8. OneActs
  BY DEF Init, UnixInit, OneActs, OnLinux, OnWindows, OnAndroid
<1> QED BY <1>2, <1>5, <1>6, <1>7, <1>8 DEF IInv, TypeOK

\* Only the platform's client holds sessions.
LEMMA OneHolds ==
  ASSUME IInv
  PROVE  /\ OnLinux => WinHeld = {} /\ DroidHeld = {}
         /\ OnWindows => UnixHeld = {} /\ DroidHeld = {}
         /\ OnAndroid => UnixHeld = {} /\ WinHeld = {}
<1>1. OneActs
  BY DEF IInv
<1>2. ~OnLinux => UnixHeld = {}
  BY <1>1 DEF OneActs, UnixIdle, UnixHeld
<1>3. ~OnWindows => WinHeld = {}
  BY <1>1 DEF OneActs, WinInit, WinHeld
<1>4. ~OnAndroid => DroidHeld = {}
  BY <1>1 DEF OneActs, DroidInit, DroidHeld
<1> QED BY <1>2, <1>3, <1>4 DEF OnLinux, OnWindows, OnAndroid

LEMMA NextKeeps ==
  ASSUME IInv, [Next]_vars
  PROVE  IInv' /\ Ownerless' \subseteq Ownerless \cup MayBeLeft
<1>1. TypeOK /\ OneActs /\ UnixSound /\ WinSound /\ DroidSound
  BY DEF IInv
<1>2. CASE LinuxStep \/ LinuxEvent
  <2>1. OnLinux /\ (UnixStep \/ Signal \/ HostMoves \/ HalfStays) /\ win' = win /\ droid' = droid
    BY <1>2 DEF LinuxStep, LinuxEvent
  <2>2. /\ CoreTypes' /\ UnixTypes' /\ UnixSound' /\ setup' = setup
        /\ LinuxOwnerless' \subseteq LinuxOwnerless \cup {i \in {unix.cur} : unix.pc = "assign"}
    BY <1>1, <2>1, LinuxKept
  <2>3. WinTypes' /\ WinSound'
    BY <1>1, <2>1 DEF TypeOK, WinTypes, WinSound
  <2>4. OnLinux' /\ ~OnAndroid /\ ~OnAndroid' /\ OneActs'
    BY <1>1, <2>1, <2>2 DEF OneActs, OnLinux, OnWindows, OnAndroid, WinInit, DroidInit
  <2>5. DroidInit'
    BY <2>4 DEF OneActs
  <2>6. 0 \notin Open'
    BY CoreAssumption DEF Open
  <2>7. DroidTypes' /\ DroidSound'
    <3>1. DroidTypes'
      BY <1>1, <2>1 DEF TypeOK, DroidTypes
    <3>2. DroidSound'
      BY <2>5, <2>6 DEF DroidInit, DroidSound
    <3> QED BY <3>1, <3>2
  <2>8. IInv'
    BY <2>2, <2>3, <2>4, <2>7 DEF IInv, TypeOK
  <2>9. Ownerless = LinuxOwnerless /\ Ownerless' = LinuxOwnerless'
    <3>1. WinHeld = {} /\ DroidHeld = {}
      BY <2>1, OneHolds
    <3>2. WinHeld' = {} /\ DroidHeld' = {}
      BY <2>1, <3>1 DEF WinHeld, DroidHeld
    <3> QED BY <3>1, <3>2 DEF Held, Ownerless, LinuxOwnerless
  <2> QED BY <2>2, <2>8, <2>9 DEF MayBeLeft
<1>3. CASE WindowsLock \/ WindowsUser \/ WindowsDog \/ WindowsEvent
  <2>1. /\ OnWindows /\ unix' = unix /\ droid' = droid
        /\ LockHolder \/ WinUser \/ Dog \/ UserCalls \/ SenderEnds \/ ReceiverEnds \/ Swallows
    BY <1>3 DEF WindowsLock, WindowsUser, WindowsDog, WindowsEvent
  <2>2. /\ CoreTypes' /\ WinTypes' /\ WinSound' /\ setup' = setup
        /\ WindowsOwnerless' \subseteq WindowsOwnerless
    BY <1>1, <2>1, WindowsKept
  <2>3. UnixTypes' /\ UnixSound'
    BY <1>1, <2>1 DEF TypeOK, UnixTypes, UnixSound
  <2>4. OnWindows' /\ ~OnAndroid /\ ~OnAndroid' /\ OneActs'
    BY <1>1, <2>1, <2>2 DEF OneActs, OnLinux, OnWindows, OnAndroid, UnixIdle, DroidInit
  <2>5. DroidInit'
    BY <2>4 DEF OneActs
  <2>6. 0 \notin Open'
    BY CoreAssumption DEF Open
  <2>7. DroidTypes' /\ DroidSound'
    <3>1. DroidTypes'
      BY <1>1, <2>1 DEF TypeOK, DroidTypes
    <3>2. DroidSound'
      BY <2>5, <2>6 DEF DroidInit, DroidSound
    <3> QED BY <3>1, <3>2
  <2>8. IInv'
    BY <2>2, <2>3, <2>4, <2>7 DEF IInv, TypeOK
  <2>9. Ownerless = WindowsOwnerless /\ Ownerless' = WindowsOwnerless'
    <3>1. UnixHeld = {} /\ DroidHeld = {}
      BY <2>1, OneHolds
    <3>2. UnixHeld' = {} /\ DroidHeld' = {}
      BY <2>1, <3>1 DEF UnixHeld, DroidHeld
    <3> QED BY <3>1, <3>2 DEF Held, Ownerless, WindowsOwnerless
  <2> QED BY <2>2, <2>8, <2>9 DEF MayBeLeft
<1>4. CASE AndroidStart \/ AndroidReconnect \/ AndroidRequest \/ AndroidTeardown \/ AndroidEvent
  <2>1. /\ OnAndroid /\ unix' = unix /\ win' = win
        /\ \/ Connect \/ Disconnect \/ UserReconnects \/ Teardown
           \/ StartVpn \/ RequestsReconnect \/ ReconnectGo
    BY <1>4 DEF AndroidStart, AndroidReconnect, AndroidRequest, AndroidTeardown, AndroidEvent
  <2>2. /\ CoreTypes' /\ DroidTypes' /\ DroidSound' /\ setup' = setup
        /\ AndroidOwnerless' \subseteq AndroidOwnerless \cup AndroidLeft
    BY <1>1, <2>1, AndroidKept
  <2>3. /\ UnixTypes' /\ UnixSound'
        /\ WinTypes' /\ WinSound'
    BY <1>1, <2>1 DEF TypeOK, UnixTypes, UnixSound, WinTypes, WinSound
  <2>4. OnAndroid' /\ OneActs'
    BY <1>1, <2>1, <2>2 DEF OneActs, OnLinux, OnWindows, OnAndroid, UnixIdle, WinInit
  <2>5. IInv'
    BY <2>2, <2>3, <2>4 DEF IInv, TypeOK
  <2>6. Ownerless = AndroidOwnerless /\ Ownerless' = AndroidOwnerless'
    <3>1. UnixHeld = {} /\ WinHeld = {}
      BY <2>1, OneHolds
    <3>2. UnixHeld' = {} /\ WinHeld' = {}
      BY <2>1, <3>1 DEF UnixHeld, WinHeld
    <3> QED BY <3>1, <3>2 DEF Held, Ownerless, AndroidOwnerless
  <2> QED BY <2>2, <2>5, <2>6 DEF MayBeLeft, AndroidLeft
<1>5. ASSUME CoreTypes', Open' = Open, setup' = setup, UNCHANGED <<unix, win, droid>>
      PROVE  IInv' /\ Ownerless' = Ownerless
  <2>1. UnixTypes' /\ UnixSound' /\ WinTypes' /\ WinSound'
    BY <1>1, <1>5 DEF TypeOK, UnixTypes, UnixSound, WinTypes, WinSound
  <2>2. DroidTypes' /\ DroidSound'
    BY <1>1, <1>5 DEF TypeOK, DroidTypes, DroidSound
  <2>3. OneActs'
    BY <1>1, <1>5 DEF OneActs, OnLinux, OnWindows, OnAndroid, WinInit, DroidInit
  <2>4. Ownerless' = Ownerless
    BY <1>5 DEF Ownerless, Held, UnixHeld, WinHeld, DroidHeld
  <2> QED BY <1>5, <2>1, <2>2, <2>3, <2>4 DEF IInv, TypeOK
<1>6. CASE AddressArrives
  <2>1. CoreTypes' /\ Open' = Open /\ setup' = setup
    BY <1>1, <1>6, OpenInWorld DEF AddressArrives, TypeOK
  <2> QED BY <1>5, <1>6, <2>1 DEF AddressArrives
<1>7. CASE Environment
  <2>1. CoreTypes' /\ Open' = Open /\ setup' = setup
    BY <1>1, <1>7, OpenInWorld DEF Environment, TypeOK
  <2> QED BY <1>5, <1>7, <2>1 DEF Environment
<1>8. CASE UNCHANGED vars
  <2>1. CoreTypes' /\ Open' = Open
    BY <1>1, <1>8 DEF vars, TypeOK, CoreTypes, Open
  <2> QED BY <1>5, <1>8, <2>1 DEF vars
<1> QED BY <1>2, <1>3, <1>4, <1>6, <1>7, <1>8 DEF Next

\* The invariant, for any deployments, sessions, ports and generations.
LEMMA InvariantHolds == Spec => []IInv
<1>1. IInv /\ [Next]_vars => IInv'
  BY NextKeeps
<1> QED BY <1>1, InitHolds, PTL DEF Spec

\* No step of a client leaves a session running that nobody can close, except where
\* MayBeLeft says the code does: the main loop of runVPN after a pump ended by itself, and
\* the three ways of ChimeraVpnService.  On Windows none does.
THEOREM SessionsStayClosed == Spec => SessionsClosed
<1>1. IInv /\ [Next]_vars => [Ownerless' \subseteq Ownerless \cup MayBeLeft]_vars
  BY NextKeeps
<1> QED BY <1>1, InvariantHolds, PTL DEF Spec, SessionsClosed

\* What is left of a client that was stopped and is done: what the tools refused to take
\* back when they were asked, on Windows the country's routes too, and nothing else (runVPN's
\* deferred calls, ChimeraApp.Stop, Release, stopVpn and onDestroy).
THEOREM StoppedLeavesNothing == Spec => []LeavesNothing
<1>1. IInv => LeavesNothing
  <2> SUFFICES ASSUME IInv, StoppedForGood
               PROVE  /\ Held = {}
                      /\ unix.routes.system \subseteq unix.routes.refused
                      /\ unix.dns => "resolver" \in unix.routes.refused
                      /\ win.routes.system \subseteq win.routes.refused \cup {"country"}
                      /\ win.bridge = "none" /\ ~win.want /\ ~droid.tun /\ ~droid.running
    BY DEF LeavesNothing
  <2>1. TypeOK /\ OneActs /\ UnixSound /\ WinSound /\ DroidSound
    BY DEF IInv
  <2>2. NoRoutes.system = {}
    BY DEF NoRoutes
  <2>3. ~OnLinux => unix.pc = "off" /\ UnixHeld = {} /\ unix.routes.system = {} /\ ~unix.dns
    BY <2>1, <2>2 DEF OneActs, UnixIdle, UnixHeld
  <2>4. ~OnWindows => /\ win.asked = "none" /\ WinHeld = {} /\ win.routes.system = {}
                      /\ win.bridge = "none" /\ ~win.want
    BY <2>1, <2>2 DEF OneActs, WinInit, WinHeld
  <2>5. ~OnAndroid => droid.asked = "none" /\ DroidHeld = {} /\ ~droid.tun /\ ~droid.running
    BY <2>1 DEF OneActs, DroidInit, DroidHeld
  <2>6. CASE unix.pc = "exit"
    <3>1. OnLinux /\ ~OnWindows /\ ~OnAndroid
      BY <2>3, <2>6 DEF OnLinux, OnWindows, OnAndroid
    <3>2. UnixHeld = {}
      BY <2>1, <2>6 DEF UnixSound, UnixHeld
    <3>3. /\ unix.routes.system \subseteq unix.routes.refused
          /\ unix.dns => "resolver" \in unix.routes.refused
      BY <2>1, <2>6 DEF UnixSound
    <3> QED BY <2>4, <2>5, <3>1, <3>2, <3>3 DEF Held
  <2>7. CASE win.asked = "stop" /\ win.ask = "none" /\ win.lock = "free" /\ ~win.overrode
    <3>1. OnWindows /\ ~OnLinux /\ ~OnAndroid
      BY <2>4, <2>7 DEF OnLinux, OnWindows, OnAndroid
    <3>2. ~win.want /\ win.id = 0 /\ win.bridge = "none"
      BY <2>1, <2>7 DEF WinSound
    <3>3. WinHeld = {} /\ win.routes.system \subseteq win.routes.refused \cup {"country"}
      BY <2>1, <3>2 DEF WinSound, WinHeld, Backed
    <3> QED BY <2>3, <2>5, <3>1, <3>2, <3>3 DEF Held
  <2>8. CASE droid.asked = "stop" /\ droid.svc = "none" /\ ~droid.late
    <3>1. OnAndroid /\ ~OnLinux /\ ~OnWindows
      BY <2>5, <2>8 DEF OnLinux, OnWindows, OnAndroid
    <3>2. DroidHeld = {} /\ ~droid.tun /\ ~droid.running
      BY <2>1, <2>8 DEF DroidSound, DroidHeld
    <3> QED BY <2>3, <2>4, <3>1, <3>2 DEF Held
  <2> QED BY <2>6, <2>7, <2>8 DEF StoppedForGood
<1> QED BY <1>1, InvariantHolds, PTL

-------------------------------------------------------------------------------
(* What a set of numbers contains that has 0 and is closed under + 1 *)

LEMMA CountedOn ==
  ASSUME NEW S, 0 \in S, \A n \in Nat : n \in S => n + 1 \in S
  PROVE  Nat \subseteq S
<1> SUFFICES ASSUME Nat \ S # {} PROVE FALSE
  OBVIOUS
<1> DEFINE T == Nat \ S
           R == OpToRel(<, Nat)
<1>1. PICK n \in T : \A k \in T : <<k, n>> \notin R
  <2>1. T \subseteq Nat /\ T # {}
    OBVIOUS
  <2> HIDE DEF T, R
  <2>2. IsWellFoundedOn(R, Nat)
    BY NatLessThanWellFounded DEF R
  <2> QED BY <2>1, <2>2, WFMin
<1>2. n \in Nat /\ n # 0 /\ n - 1 \in Nat /\ n - 1 < n
  <2>1. n \in Nat /\ n \notin S
    OBVIOUS
  <2>2. n # 0
    BY <2>1
  <2> QED BY <2>1, <2>2
<1>3. n - 1 \in S
  <2>1. <<n - 1, n>> \in R
    BY <1>2 DEF OpToRel
  <2> QED BY <1>1, <1>2, <2>1
<1>4. (n - 1) + 1 = n
  BY <1>2
<1> QED BY <1>1, <1>2, <1>3, <1>4


-------------------------------------------------------------------------------
(* Texts *)

LEMMA Spellings ==
  /\ Empty # Blank /\ Empty # Shouted /\ Blank # Shouted /\ "tcp" # Shouted /\ "tcp" # Blank
  /\ Empty \in Words
  /\ \A t \in Transports : t \in Words /\ t # Empty /\ t # Blank /\ t # Shouted
  /\ \A t \in Plain : t \in Words /\ t # Empty /\ t # Blank
  /\ \A t \in Modes \cup Ciphers : t \in Words /\ t # Empty
  /\ AnyAddress \in Words /\ AnyAddress # Empty /\ AnyAddress # Blank /\ AnyAddress # Shouted
<1>1. /\ Empty # Blank /\ Empty # Shouted /\ Blank # Shouted /\ "tcp" # Shouted /\ "tcp" # Blank
  BY Zenon DEF Empty, Blank, Shouted
<1>2. /\ Empty \in Words /\ AnyAddress \in Words
      /\ Plain \cup Transports \cup Modes \cup Ciphers \subseteq Words
  BY SettingsAssumption
<1>3. \A t \in Transports : t # Empty /\ t # Blank /\ t # Shouted
  BY Zenon DEF Transports, Empty, Blank, Shouted
<1>4. \A t \in Plain : t # Empty /\ t # Blank
  BY Zenon DEF Plain, Empty, Blank
<1>5. \A t \in Modes \cup Ciphers : t # Empty
  BY Zenon DEF Modes, Ciphers, Empty
<1>6. AnyAddress # Empty /\ AnyAddress # Blank /\ AnyAddress # Shouted
  BY Zenon DEF AnyAddress, Empty, Blank, Shouted
<1> QED BY <1>1, <1>2, <1>3, <1>4, <1>5, <1>6

LEMMA CleanFacts ==
  /\ \A t \in Words : Clean(t) \in Words /\ Clean(Clean(t)) = Clean(t)
  /\ \A t \in Transports \cup {Empty, AnyAddress} : Clean(t) = t
<1>1. \A t : t # Shouted /\ t # Blank => Clean(t) = t
  BY ZenonT(30) DEF Clean
<1>2. Clean(Shouted) = "tcp" /\ Clean(Blank) = Empty
  <2>1. Clean(Shouted) = "tcp"
    BY Spellings, ZenonT(30) DEF Clean
  <2> QED BY <2>1, Spellings, ZenonT(30) DEF Clean
<1>3. "tcp" \in Words
  BY Spellings DEF Transports
<1>4. \A t \in Words : Clean(t) \in Words /\ Clean(Clean(t)) = Clean(t)
  <2> SUFFICES ASSUME NEW t \in Words PROVE Clean(t) \in Words /\ Clean(Clean(t)) = Clean(t)
    OBVIOUS
  <2>1. Clean("tcp") = "tcp" /\ Clean(Empty) = Empty
    BY <1>1, Spellings
  <2>2. CASE t = Shouted
    BY <1>2, <1>3, <2>1, <2>2
  <2>3. CASE t = Blank
    BY <1>2, <2>1, <2>3, Spellings
  <2>4. CASE t # Shouted /\ t # Blank
    BY <1>1, <2>4
  <2> QED BY <2>2, <2>3, <2>4
<1>5. \A t \in Transports \cup {Empty, AnyAddress} : Clean(t) = t
  BY <1>1, Spellings
<1> QED BY <1>4, <1>5

LEMMA BytesFacts ==
  /\ DOMAIN Bytes = Plain \cup {"0x5EED", "0x9512"}
  /\ \A key \in DOMAIN Bytes : Bytes[key] \in Plain
  /\ \A key \in Plain : key \in DOMAIN Bytes /\ Bytes[key] = key
<1>1. \A key \in Plain \cup {"0x5EED", "0x9512"} :
        Bytes[key] = CASE key = "0x5EED" -> "5eed" [] key = "0x9512" -> "9512" [] OTHER -> key
  BY DEF Bytes
<1>2. DOMAIN Bytes = Plain \cup {"0x5EED", "0x9512"}
  BY DEF Bytes
<1>3. Bytes["5eed"] = "5eed" /\ Bytes["9512"] = "9512"
  <2>1. "5eed" \in Plain /\ "9512" \in Plain
    BY DEF Plain
  <2>2. "5eed" # "0x5EED" /\ "5eed" # "0x9512" /\ "9512" # "0x5EED" /\ "9512" # "0x9512"
    OBVIOUS
  <2> QED BY <1>1, <2>1, <2>2, ZenonT(30)
<1>4. Bytes["0x5EED"] = "5eed" /\ Bytes["0x9512"] = "9512"
  <2>1. "0x9512" # "0x5EED"
    OBVIOUS
  <2> QED BY <1>1, <2>1, ZenonT(30)
<1> QED BY <1>2, <1>3, <1>4 DEF Plain

-------------------------------------------------------------------------------
(* The list of transports *)

Building(f, q) == f = [n \in 0 .. Len(q) |-> IF n = 0 THEN <<>> ELSE Adding(f[n - 1], q[n])]

LEMMA BuildingExists ==
  ASSUME NEW q \in Seq(Words)
  PROVE  \E f : Building(f, q)
<1> DEFINE Upto(f, k) == f = [n \in 0 .. k |-> IF n = 0 THEN <<>> ELSE Adding(f[n - 1], q[n])]
           S == {k \in Nat : \E f : Upto(f, k)}
<1>1. 0 \in S
  <2> DEFINE f == [n \in 0 .. 0 |-> <<>>]
  <2>1. Upto(f, 0)
    OBVIOUS
  <2> QED BY <2>1
<1>2. ASSUME NEW k \in Nat, k \in S PROVE k + 1 \in S
  <2>1. PICK f : Upto(f, k)
    BY <1>2
  <2> DEFINE g == [i \in 0 .. k + 1 |-> IF i <= k THEN f[i] ELSE Adding(f[k], q[k + 1])]
  <2>2. \A i \in 0 .. k + 1 : g[i] = IF i = 0 THEN <<>> ELSE Adding(g[i - 1], q[i])
    <3> TAKE i \in 0 .. k + 1
    <3>1. CASE i = 0
      BY <2>1, <3>1
    <3>2. CASE i # 0 /\ i <= k
      <4>1. i \in 0 .. k /\ i - 1 \in 0 .. k /\ i - 1 \in 0 .. k + 1 /\ i - 1 <= k
        BY <3>2
      <4>2. f[i] = Adding(f[i - 1], q[i])
        BY <2>1, <3>2, <4>1
      <4> QED BY <3>2, <4>1, <4>2
    <3>3. CASE i # 0 /\ ~(i <= k)
      <4>1. i - 1 = k /\ i = k + 1 /\ k \in 0 .. k + 1 /\ k <= k
        BY <3>3
      <4>2. g[i] = Adding(f[k], q[k + 1]) /\ g[k] = f[k]
        BY <3>3, <4>1
      <4> QED BY <3>3, <4>1, <4>2
    <3> QED BY <3>1, <3>2, <3>3
  <2>3. Upto(g, k + 1)
    <3>1. g = [i \in 0 .. k + 1 |-> g[i]]
      OBVIOUS
    <3> HIDE DEF g
    <3> QED BY <2>2, <3>1
  <2>4. \E h : Upto(h, k + 1)
    BY <2>3
  <2> QED BY <2>4
<1>3. Nat \subseteq S
  <2> HIDE DEF S
  <2> QED BY <1>1, <1>2, CountedOn
<1>4. Len(q) \in Nat
  OBVIOUS
<1> QED BY <1>3, <1>4 DEF Building

LEMMA DistinctIsBuilt ==
  ASSUME NEW q \in Seq(Words)
  PROVE  \E f : /\ f[0] = <<>> /\ f[Len(q)] = Distinct(q)
                /\ \A n \in 1 .. Len(q) : f[n] = Adding(f[n - 1], q[n])
<1> DEFINE f == CHOOSE g : Building(g, q)
<1>1. Building(f, q)
  BY BuildingExists
<1>2. Distinct(q) = f[Len(q)]
  BY DEF Distinct, Building
<1>3. Len(q) \in Nat
  OBVIOUS
<1> HIDE DEF f
<1>4. f[0] = <<>> /\ \A n \in 1 .. Len(q) : f[n] = Adding(f[n - 1], q[n])
  BY <1>1, <1>3 DEF Building
<1> QED BY <1>2, <1>4

\* Cleaned texts of q, each once.
Unlike(d, q) ==
  /\ d \in Seq(Words)
  /\ \A k \in 1 .. Len(d) : d[k] # Empty /\ \E i \in 1 .. Len(q) : d[k] = Clean(q[i])
  /\ \A j, k \in 1 .. Len(d) : d[j] = d[k] => j = k

LEMMA AddingKeeps ==
  ASSUME NEW q \in Seq(Words), NEW d, Unlike(d, q), NEW i \in 1 .. Len(q)
  PROVE  Unlike(Adding(d, q[i]), q)
<1>1. q[i] \in Words /\ Clean(q[i]) \in Words
  BY CleanFacts
<1>2. CASE Clean(q[i]) \in {Empty} \cup ToSet(d)
  BY <1>2 DEF Adding
<1>3. CASE Clean(q[i]) \notin {Empty} \cup ToSet(d)
  <2> DEFINE e == Append(d, Clean(q[i]))
  <2>1. d \in Seq(Words) /\ Len(d) \in Nat
    BY DEF Unlike
  <2>2. /\ e \in Seq(Words) /\ Len(e) = Len(d) + 1
        /\ \A k \in 1 .. Len(d) : e[k] = d[k]
        /\ e[Len(d) + 1] = Clean(q[i])
    BY <1>1, <2>1
  <2>3. \A k \in 1 .. Len(d) : d[k] # Clean(q[i])
    BY <1>3, <2>1 DEF ToSet
  <2>4. Clean(q[i]) # Empty
    BY <1>3
  <2>5. Adding(d, q[i]) = e
    BY <1>3 DEF Adding
  <2> HIDE DEF e
  <2>6. ASSUME NEW k \in 1 .. Len(e)
        PROVE  e[k] # Empty /\ \E n \in 1 .. Len(q) : e[k] = Clean(q[n])
    <3>1. k \in 1 .. Len(d) \/ k = Len(d) + 1
      BY <2>1, <2>2
    <3> QED BY <2>2, <2>4, <3>1 DEF Unlike
  <2>7. ASSUME NEW j \in 1 .. Len(e), NEW k \in 1 .. Len(e), e[j] = e[k] PROVE j = k
    <3>1. /\ j \in 1 .. Len(d) \/ j = Len(d) + 1
          /\ k \in 1 .. Len(d) \/ k = Len(d) + 1
      BY <2>1, <2>2
    <3> QED BY <2>2, <2>3, <2>7, <3>1 DEF Unlike
  <2> QED BY <2>2, <2>5, <2>6, <2>7 DEF Unlike
<1> QED BY <1>2, <1>3

LEMMA DistinctUnlike ==
  ASSUME NEW q \in Seq(Words)
  PROVE  Unlike(Distinct(q), q)
<1>1. PICK f : /\ f[0] = <<>> /\ f[Len(q)] = Distinct(q)
               /\ \A n \in 1 .. Len(q) : f[n] = Adding(f[n - 1], q[n])
  BY DistinctIsBuilt
<1>2. Len(q) \in Nat
  OBVIOUS
<1> DEFINE S == {k \in Nat : k <= Len(q) => Unlike(f[k], q)}
<1>3. 0 \in S
  <2>1. <<>> \in Seq(Words) /\ Len(<<>>) = 0
    OBVIOUS
  <2>2. Unlike(<<>>, q)
    BY <2>1 DEF Unlike
  <2> QED BY <1>1, <2>2
<1>4. ASSUME NEW k \in Nat, k \in S PROVE k + 1 \in S
  <2> SUFFICES ASSUME k + 1 <= Len(q) PROVE Unlike(f[k + 1], q)
    OBVIOUS
  <2>1. Unlike(f[k], q)
    BY <1>2, <1>4
  <2>2. k + 1 \in 1 .. Len(q) /\ (k + 1) - 1 = k
    BY <1>2
  <2>3. f[k + 1] = Adding(f[k], q[k + 1])
    BY <1>1, <2>2
  <2> QED BY <2>1, <2>2, <2>3, AddingKeeps
<1>5. Nat \subseteq S
  <2> HIDE DEF S
  <2> QED BY <1>3, <1>4, CountedOn
<1> QED BY <1>1, <1>2, <1>5

LEMMA DistinctKeeps ==
  ASSUME NEW q \in Seq(Words), \A i \in 1 .. Len(q) : q[i] # Empty /\ Clean(q[i]) = q[i],
         \A i, j \in 1 .. Len(q) : q[i] = q[j] => i = j
  PROVE  Distinct(q) = q
<1>1. PICK f : /\ f[0] = <<>> /\ f[Len(q)] = Distinct(q)
               /\ \A n \in 1 .. Len(q) : f[n] = Adding(f[n - 1], q[n])
  BY DistinctIsBuilt
<1>2. Len(q) \in Nat
  OBVIOUS
<1> DEFINE SameUpto(d, k) == d \in Seq(Words) /\ Len(d) = k /\ \A i \in 1 .. k : d[i] = q[i]
           S == {k \in Nat : k <= Len(q) => SameUpto(f[k], k)}
<1>3. 0 \in S
  <2>1. <<>> \in Seq(Words) /\ Len(<<>>) = 0
    OBVIOUS
  <2>2. SameUpto(<<>>, 0)
    BY <2>1
  <2> HIDE DEF SameUpto
  <2> QED BY <1>1, <2>2
<1>4. ASSUME NEW k \in Nat, k \in S PROVE k + 1 \in S
  <2> SUFFICES ASSUME k + 1 <= Len(q) PROVE SameUpto(f[k + 1], k + 1)
    OBVIOUS
  <2>1. SameUpto(f[k], k)
    BY <1>2, <1>4
  <2>2. k + 1 \in 1 .. Len(q) /\ (k + 1) - 1 = k
    BY <1>2
  <2>3. f[k + 1] = Adding(f[k], q[k + 1])
    BY <1>1, <2>2
  <2> DEFINE d == f[k]
             x == q[k + 1]
  <2>4. x \in Words /\ Clean(x) = x /\ x # Empty
    BY <2>2
  <2>5. x \notin ToSet(d)
    <3> SUFFICES ASSUME NEW i \in DOMAIN d, d[i] = x PROVE FALSE
      BY DEF ToSet
    <3>1. DOMAIN d = 1 .. Len(d) /\ Len(d) = k
      BY <2>1
    <3>2. i \in 1 .. k
      BY <3>1
    <3>3. d[i] = q[i]
      BY <2>1, <3>2
    <3>4. i \in 1 .. Len(q) /\ i # k + 1
      BY <1>2, <2>2, <3>2
    <3> QED BY <2>2, <3>3, <3>4
  <2>6. f[k + 1] = Append(d, x)
    BY <2>3, <2>4, <2>5 DEF Adding
  <2> HIDE DEF d, x
  <2>7. d \in Seq(Words) /\ Len(d) = k /\ \A i \in 1 .. k : d[i] = q[i]
    BY <2>1 DEF d
  <2>8. /\ Append(d, x) \in Seq(Words) /\ Len(Append(d, x)) = k + 1
        /\ \A i \in 1 .. k : Append(d, x)[i] = d[i]
        /\ Append(d, x)[k + 1] = x
    BY <2>4, <2>7
  <2>9. \A i \in 1 .. k + 1 : Append(d, x)[i] = q[i]
    <3> TAKE i \in 1 .. k + 1
    <3>1. i \in 1 .. k \/ i = k + 1
      OBVIOUS
    <3> QED BY <2>7, <2>8, <3>1 DEF x
  <2> QED BY <2>6, <2>8, <2>9
<1>5. Nat \subseteq S
  <2> HIDE DEF S
  <2> QED BY <1>3, <1>4, CountedOn
<1>6. SameUpto(Distinct(q), Len(q))
  BY <1>1, <1>2, <1>5
<1> QED BY <1>6
-------------------------------------------------------------------------------
(* The ladder, in order *)

LEMMA LeastOf ==
  ASSUME NEW B, B \subseteq Nat, B # {}
  PROVE  \E m \in B : \A n \in B : m <= n
<1> DEFINE R == OpToRel(<, Nat)
<1>1. PICK m \in B : \A n \in B : <<n, m>> \notin R
  <2> HIDE DEF R
  <2>1. IsWellFoundedOn(R, Nat)
    BY NatLessThanWellFounded DEF R
  <2> QED BY <2>1, WFMin
<1>2. \A n \in B : ~(n < m)
  BY <1>1 DEF OpToRel
<1>3. m \in Nat /\ \A n \in B : n \in Nat
  OBVIOUS
<1>4. \A n \in B : m <= n
  BY <1>2, <1>3
<1> QED BY <1>4

Orders(s, q, n) ==
  /\ \A i \in 1 .. n : \E j \in 1 .. n : s[i] = q[j]
  /\ \A j \in 1 .. n : \E i \in 1 .. n : s[i] = q[j]
  /\ \A i, j \in 1 .. n : i < j => s[i] < s[j]

LEMMA Inserted ==
  ASSUME NEW n \in Nat, NEW q \in [1 .. n + 1 -> Int], NEW r \in [1 .. n -> Int],
         \A i, j \in 1 .. n + 1 : q[i] = q[j] => i = j, Orders(r, q, n)
  PROVE  \E s \in [1 .. n + 1 -> Int] : Orders(s, q, n + 1)
<1> DEFINE x == q[n + 1]
           B == {i \in 1 .. n : r[i] > x}
<1>0. /\ x \in Int /\ \A i \in 1 .. n : r[i] \in Int
      /\ \A i \in 1 .. n : i \in 1 .. n + 1 /\ i # n + 1
      /\ n + 1 \in 1 .. n + 1
  OBVIOUS
<1>1. \A i \in 1 .. n : r[i] # x
  <2> SUFFICES ASSUME NEW i \in 1 .. n, r[i] = x PROVE FALSE
    OBVIOUS
  <2>1. PICK j \in 1 .. n : r[i] = q[j]
    BY DEF Orders
  <2>2. j \in 1 .. n + 1 /\ j # n + 1 /\ n + 1 \in 1 .. n + 1
    OBVIOUS
  <2> QED BY <2>1, <2>2
<1>2. \E k \in 1 .. n + 1 : /\ \A i \in 1 .. n : i < k => r[i] < x
                            /\ \A i \in 1 .. n : k <= i => x < r[i]
  <2>1. CASE B = {}
    <3>1. \A i \in 1 .. n : r[i] < x
      BY <1>0, <1>1, <2>1
    <3>2. \A i \in 1 .. n : ~(n + 1 <= i)
      OBVIOUS
    <3> QED BY <1>0, <3>1, <3>2
  <2>2. CASE B # {}
    <3>1. B \subseteq Nat
      OBVIOUS
    <3>2. PICK k \in B : \A i \in B : k <= i
      <4> HIDE DEF B
      <4> QED BY <2>2, <3>1, LeastOf
    <3>3. k \in 1 .. n /\ k \in 1 .. n + 1 /\ x < r[k] /\ r[k] \in Int
      BY <1>0
    <3>4. ASSUME NEW i \in 1 .. n, i < k PROVE r[i] < x
      <4>1. i \notin B
        BY <3>2, <3>3, <3>4
      <4> QED BY <1>0, <1>1, <4>1
    <3>5. ASSUME NEW i \in 1 .. n, k <= i PROVE x < r[i]
      <4>1. i = k \/ k < i
        BY <3>3, <3>5
      <4>2. k < i => r[k] < r[i]
        BY <3>3 DEF Orders
      <4>3. r[i] \in Int
        BY <1>0
      <4> QED BY <1>0, <3>3, <4>1, <4>2, <4>3
    <3> QED BY <3>3, <3>4, <3>5
  <2> QED BY <2>1, <2>2
<1> HIDE DEF x, B
<1>3. PICK k \in 1 .. n + 1 : /\ \A i \in 1 .. n : i < k => r[i] < x
                              /\ \A i \in 1 .. n : k <= i => x < r[i]
  BY <1>2
<1> DEFINE s == [i \in 1 .. n + 1 |-> IF i < k THEN r[i] ELSE IF i = k THEN x ELSE r[i - 1]]
<1>4. /\ \A i \in 1 .. n + 1 : i < k => i \in 1 .. n /\ s[i] = r[i]
      /\ s[k] = x
      /\ \A i \in 1 .. n + 1 : k < i => i - 1 \in 1 .. n /\ k <= i - 1 /\ s[i] = r[i - 1]
  <2>1. \A i \in 1 .. n + 1 : i < k => i \in 1 .. n
    OBVIOUS
  <2>2. \A i \in 1 .. n + 1 : k < i => i - 1 \in 1 .. n /\ k <= i - 1 /\ ~(i < k) /\ i # k
    OBVIOUS
  <2> QED BY <2>1, <2>2
<1>5. s \in [1 .. n + 1 -> Int]
  <2>1. ASSUME NEW i \in 1 .. n + 1
        PROVE  (IF i < k THEN r[i] ELSE IF i = k THEN x ELSE r[i - 1]) \in Int
    <3>1. i < k => r[i] \in Int
      BY <1>0, <1>4
    <3>2. k < i => r[i - 1] \in Int
      BY <1>0, <1>4
    <3>3. i < k \/ i = k \/ k < i
      OBVIOUS
    <3> QED BY <1>0, <3>1, <3>2, <3>3
  <2> QED BY <2>1
<1> HIDE DEF s
<1>6. ASSUME NEW i \in 1 .. n + 1 PROVE \E j \in 1 .. n + 1 : s[i] = q[j]
  <2>1. CASE i < k
    <3>1. PICK j \in 1 .. n : r[i] = q[j]
      BY <1>4, <2>1 DEF Orders
    <3> QED BY <1>0, <1>4, <2>1, <3>1
  <2>2. CASE i = k
    BY <1>0, <1>4, <2>2 DEF x
  <2>3. CASE k < i
    <3>1. PICK j \in 1 .. n : r[i - 1] = q[j]
      BY <1>4, <2>3 DEF Orders
    <3> QED BY <1>0, <1>4, <2>3, <3>1
  <2> QED BY <2>1, <2>2, <2>3
<1>7. ASSUME NEW j \in 1 .. n + 1 PROVE \E i \in 1 .. n + 1 : s[i] = q[j]
  <2>1. CASE j = n + 1
    BY <1>4, <2>1 DEF x
  <2>2. CASE j # n + 1
    <3>1. j \in 1 .. n
      BY <2>2
    <3>2. PICK i \in 1 .. n : r[i] = q[j]
      BY <3>1 DEF Orders
    <3>3. CASE i < k
      BY <1>0, <1>4, <3>2, <3>3
    <3>4. CASE k <= i
      <4>1. i + 1 \in 1 .. n + 1 /\ k < i + 1 /\ (i + 1) - 1 = i
        BY <3>4
      <4>2. s[i + 1] = r[i]
        BY <1>4, <4>1
      <4> QED BY <3>2, <4>1, <4>2
    <3> QED BY <3>3, <3>4
  <2> QED BY <2>1, <2>2
<1>8. ASSUME NEW i \in 1 .. n + 1, NEW j \in 1 .. n + 1, i < j PROVE s[i] < s[j]
  <2>1. CASE j < k
    <3>1. i < k
      BY <1>8, <2>1
    <3>2. s[i] = r[i] /\ s[j] = r[j] /\ i \in 1 .. n /\ j \in 1 .. n
      BY <1>4, <2>1, <3>1
    <3> QED BY <1>8, <3>2 DEF Orders
  <2>2. CASE j = k
    BY <1>3, <1>4, <1>8, <2>2
  <2>3. CASE k < j /\ i < k
    <3>1. /\ s[i] = r[i] /\ i \in 1 .. n /\ r[i] < x
          /\ s[j] = r[j - 1] /\ j - 1 \in 1 .. n /\ x < r[j - 1]
      BY <1>3, <1>4, <2>3
    <3>2. r[i] \in Int /\ r[j - 1] \in Int
      BY <1>0, <3>1
    <3> QED BY <1>0, <3>1, <3>2
  <2>4. CASE k < j /\ i = k
    <3>1. s[j] = r[j - 1] /\ j - 1 \in 1 .. n /\ x < r[j - 1]
      BY <1>3, <1>4, <2>4
    <3> QED BY <1>4, <2>4, <3>1
  <2>5. CASE k < i
    <3>1. k < j /\ i - 1 < j - 1
      BY <1>8, <2>5
    <3>2. s[i] = r[i - 1] /\ s[j] = r[j - 1] /\ i - 1 \in 1 .. n /\ j - 1 \in 1 .. n
      BY <1>4, <2>5, <3>1
    <3> QED BY <3>1, <3>2 DEF Orders
  <2> QED BY <2>1, <2>2, <2>3, <2>4, <2>5
<1>9. Orders(s, q, n + 1)
  BY <1>6, <1>7, <1>8 DEF Orders
<1> QED BY <1>5, <1>9

LEMMA CanBeOrdered ==
  ASSUME NEW n \in Nat, NEW q \in [1 .. n -> Int], \A i, j \in 1 .. n : q[i] = q[j] => i = j
  PROVE  \E s \in [1 .. n -> Int] : Orders(s, q, n)
<1> DEFINE S == {m \in Nat : \A p \in [1 .. m -> Int] :
                   (\A i, j \in 1 .. m : p[i] = p[j] => i = j)
                     => \E s \in [1 .. m -> Int] : Orders(s, p, m)}
<1>1. 0 \in S
  BY DEF Orders
<1>2. ASSUME NEW m \in Nat, m \in S PROVE m + 1 \in S
  <2> SUFFICES ASSUME NEW p \in [1 .. m + 1 -> Int],
                      \A i, j \in 1 .. m + 1 : p[i] = p[j] => i = j
               PROVE  \E s \in [1 .. m + 1 -> Int] : Orders(s, p, m + 1)
    OBVIOUS
  <2> DEFINE front == [i \in 1 .. m |-> p[i]]
  <2>1. \A i \in 1 .. m : i \in 1 .. m + 1 /\ front[i] = p[i]
    OBVIOUS
  <2>2. front \in [1 .. m -> Int]
    BY <2>1
  <2> HIDE DEF front
  <2>3. \A i, j \in 1 .. m : front[i] = front[j] => i = j
    BY <2>1
  <2>4. PICK r \in [1 .. m -> Int] : Orders(r, front, m)
    BY <1>2, <2>2, <2>3
  <2>5. Orders(r, p, m)
    <3>1. ASSUME NEW i \in 1 .. m PROVE \E j \in 1 .. m : r[i] = p[j]
      <4>1. PICK j \in 1 .. m : r[i] = front[j]
        BY <2>4 DEF Orders
      <4> QED BY <2>1, <4>1
    <3>2. ASSUME NEW j \in 1 .. m PROVE \E i \in 1 .. m : r[i] = p[j]
      <4>1. PICK i \in 1 .. m : r[i] = front[j]
        BY <2>4 DEF Orders
      <4> QED BY <2>1, <4>1
    <3>3. \A i, j \in 1 .. m : i < j => r[i] < r[j]
      BY <2>4 DEF Orders
    <3> QED BY <3>1, <3>2, <3>3, Zenon DEF Orders
  <2> QED BY <2>5, Inserted
<1>3. Nat \subseteq S
  <2> HIDE DEF S
  <2> QED BY <1>1, <1>2, CountedOn
<1> QED BY <1>3

LEMMA SortedFacts ==
  ASSUME NEW q \in Seq(Int), IsInjective(q)
  PROVE  /\ Sorted(q) \in Seq(Int) /\ Len(Sorted(q)) = Len(q)
         /\ ToSet(Sorted(q)) = ToSet(q) /\ IsInjective(Sorted(q))
         /\ Sorted(Sorted(q)) = Sorted(q)
<1>0. Len(q) \in Nat /\ DOMAIN q = 1 .. Len(q) /\ q \in [1 .. Len(q) -> Int]
  OBVIOUS
<1>1. PICK r \in [1 .. Len(q) -> Int] : Orders(r, q, Len(q))
  <2>1. \A i, j \in 1 .. Len(q) : q[i] = q[j] => i = j
    BY <1>0 DEF IsInjective
  <2> QED BY <1>0, <2>1, CanBeOrdered
<1>2. ToSet(r) = ToSet(q) /\ r \in [1 .. Len(q) -> ToSet(q)]
  <2>1. DOMAIN r = 1 .. Len(q)
    BY <1>1
  <2>2. \A x : x \in ToSet(r) <=> \E i \in 1 .. Len(q) : x = r[i]
    BY <2>1, Zenon DEF ToSet
  <2>3. \A x : x \in ToSet(q) <=> \E i \in 1 .. Len(q) : x = q[i]
    BY <1>0, Zenon DEF ToSet
  <2> DEFINE places == 1 .. Len(q)
  <2>0. /\ \A i \in places : \E j \in places : r[i] = q[j]
        /\ \A j \in places : \E i \in places : r[i] = q[j]
    BY <1>1 DEF Orders
  <2> HIDE DEF places
  <2>4. ToSet(r) \subseteq ToSet(q)
    BY <2>0, <2>2, <2>3, Zenon DEF places
  <2>5. ToSet(q) \subseteq ToSet(r)
    BY <2>0, <2>2, <2>3, Zenon DEF places
  <2>6. r \in [1 .. Len(q) -> ToSet(q)]
    BY <1>1, <2>3, <2>4, <2>2
  <2> QED BY <2>4, <2>5, <2>6
<1>3. \A i, j \in DOMAIN q : i < j => r[i] < r[j]
  BY <1>0, <1>1 DEF Orders
<1> DEFINE s == Sorted(q)
<1>4. /\ s \in [1 .. Len(q) -> ToSet(q)] /\ ToSet(s) = ToSet(q)
      /\ \A i, j \in DOMAIN q : i < j => s[i] < s[j]
  BY <1>2, <1>3 DEF Sorted
<1> HIDE DEF s
<1>5. s \in [1 .. Len(q) -> Int]
  <2>1. ToSet(q) \subseteq Int
    BY <1>0 DEF ToSet
  <2> QED BY <1>4, <2>1
<1>6. s \in Seq(Int) /\ Len(s) = Len(q) /\ DOMAIN s = DOMAIN q
  BY <1>0, <1>5, SMTT(30)
<1>7. IsInjective(s)
  <2> SUFFICES ASSUME NEW i \in 1 .. Len(q), NEW j \in 1 .. Len(q), s[i] = s[j], i # j PROVE FALSE
    BY <1>0, <1>6 DEF IsInjective
  <2>1. i < j \/ j < i
    BY <1>0
  <2>2. s[i] \in Int /\ s[j] \in Int
    BY <1>5
  <2>3. (i < j => s[i] < s[j]) /\ (j < i => s[j] < s[i])
    BY <1>0, <1>4, Zenon
  <2> QED BY <2>1, <2>2, <2>3
<1>8. Sorted(s) = Sorted(q)
  BY <1>4, <1>6 DEF Sorted
<1> QED BY <1>4, <1>6, <1>7, <1>8 DEF s
-------------------------------------------------------------------------------
(* What a configuration that can be used is filled in with *)

LEMMA ListedFacts ==
  ASSUME NEW c \in Configs, ~Unusable(c)
  PROVE  /\ Listed(c) \in Seq(Words) /\ Len(Listed(c)) >= 1
         /\ \A k \in 1 .. Len(Listed(c)) : Listed(c)[k] \in Transports
         /\ \A j, k \in 1 .. Len(Listed(c)) : Listed(c)[j] = Listed(c)[k] => j = k
<1> DEFINE q == c.transports
           d == Distinct(q)
<1>1. c.transport \in Words /\ q \in Seq(Words)
  BY DEF Configs, Records
<1>2. {Clean(t) : t \in {c.transport} \cup ToSet(q)} \ (Transports \cup {Empty}) = {}
  BY DEF Unusable
<1>3. Clean(c.transport) \in Transports \cup {Empty}
  BY <1>2, Zenon
<1>4. \A i \in 1 .. Len(q) : Clean(q[i]) \in Transports \cup {Empty}
  <2> SUFFICES ASSUME NEW i \in 1 .. Len(q) PROVE Clean(q[i]) \in Transports \cup {Empty}
    OBVIOUS
  <2>1. q[i] \in ToSet(q)
    BY <1>1 DEF ToSet
  <2> QED BY <1>2, <2>1, Zenon
<1>5. Unlike(d, q)
  BY <1>1, DistinctUnlike
<1> HIDE DEF d, q
<1>6. CASE d # <<>>
  <2>1. d \in Seq(Words) /\ Len(d) \in Nat
    BY <1>5 DEF Unlike
  <2>2. Len(d) >= 1
    BY <1>6, <2>1
  <2>3. \A k \in 1 .. Len(d) : d[k] \in Transports
    BY <1>4, <1>5 DEF Unlike
  <2>4. Listed(c) = d
    BY <1>6 DEF Listed, d, q
  <2>5. \A j, k \in 1 .. Len(d) : d[j] = d[k] => j = k
    BY <1>5 DEF Unlike
  <2> QED BY <2>1, <2>2, <2>3, <2>4, <2>5
<1>7. CASE d = <<>>
  <2> DEFINE t == IF Clean(c.transport) = Empty THEN "udp" ELSE Clean(c.transport)
  <2>1. Listed(c) = <<t>>
    BY <1>7 DEF Listed, d, q
  <2>2. t \in Transports
    BY <1>3 DEF Transports
  <2>3. t \in Words
    BY <2>2, Spellings
  <2> HIDE DEF t
  <2>4. <<t>> \in Seq(Words) /\ Len(<<t>>) = 1 /\ <<t>>[1] = t
    BY <2>3
  <2> QED BY <2>1, <2>2, <2>4
<1> QED BY <1>6, <1>7

LEMMA ListedAgain ==
  ASSUME NEW c, NEW q \in Seq(Words), c.transports = q, Len(q) >= 1,
         \A k \in 1 .. Len(q) : q[k] \in Transports,
         \A j, k \in 1 .. Len(q) : q[j] = q[k] => j = k
  PROVE  Listed(c) = q
<1>1. \A i \in 1 .. Len(q) : q[i] # Empty /\ Clean(q[i]) = q[i]
  BY Spellings, CleanFacts
<1>2. Distinct(q) = q
  BY <1>1, DistinctKeeps
<1>3. q # <<>>
  OBVIOUS
<1> QED BY <1>2, <1>3 DEF Listed

\* Field by field.
LEMMA FilledFields ==
  ASSUME NEW c \in Configs
  PROVE  LET n == Filled(c) IN
         /\ n.seed = Bytes[c.seed] /\ n.psk = Bytes[c.psk] /\ n.addr = c.addr
         /\ n.generation = c.generation /\ n.window = c.window
         /\ n.transport = Listed(c)[1] /\ n.transports = Listed(c)
         /\ n.mode = (IF c.mode = Empty THEN "silent" ELSE c.mode)
         /\ n.hops = AtLeast(1, c.hops) /\ n.spread = SpreadOf(c.hops, c.spread)
         /\ n.rotation = AtLeast(0, c.rotation)
         /\ n.decoyEvery = Decoys(c.decoyEvery, c.decoysPerSec)[1]
         /\ n.decoysPerSec = Decoys(c.decoyEvery, c.decoysPerSec)[2]
         /\ n.decoyBurst = (IF c.decoyBurst > 8 THEN 8 ELSE AtLeast(1, c.decoyBurst))
         /\ n.buckets = Sorted(c.buckets) /\ n.mark = c.mark /\ n.cipher = c.cipher
         /\ n.jitter = AtLeast(0, c.jitter)
  BY DEF Filled, Configs, Records

\* The numbers, filled in, and filled in again.
LEMMA FilledNumbers ==
  /\ \A x, m \in Int : AtLeast(m, x) \in Int /\ m <= AtLeast(m, x)
                       /\ AtLeast(m, AtLeast(m, x)) = AtLeast(m, x)
                       /\ \A y \in Int : m <= y /\ x <= y => AtLeast(m, x) <= y
  /\ \A h, s \in Int : SpreadOf(h, s) \in Int
                       /\ SpreadOf(AtLeast(1, h), SpreadOf(h, s)) = SpreadOf(h, s)
  /\ \A b \in Int : LET r == IF b > 8 THEN 8 ELSE AtLeast(1, b) IN
       r \in Int /\ (IF r > 8 THEN 8 ELSE AtLeast(1, r)) = r
<1>1. \A x, m \in Int : AtLeast(m, x) \in Int /\ m <= AtLeast(m, x)
                        /\ AtLeast(m, AtLeast(m, x)) = AtLeast(m, x)
                        /\ \A y \in Int : m <= y /\ x <= y => AtLeast(m, x) <= y
  BY DEF AtLeast
<1>2. \A h, s \in Int : SpreadOf(h, s) \in Int
                        /\ SpreadOf(AtLeast(1, h), SpreadOf(h, s)) = SpreadOf(h, s)
  BY DEF SpreadOf, AtLeast
<1>3. \A b \in Int : LET r == IF b > 8 THEN 8 ELSE AtLeast(1, b) IN
        r \in Int /\ (IF r > 8 THEN 8 ELSE AtLeast(1, r)) = r
  BY DEF AtLeast
<1> QED BY <1>1, <1>2, <1>3

LEMMA DecoysFacts ==
  ASSUME NEW x \in Int, NEW y \in Int
  PROVE  LET e == Decoys(x, y)[1]
             p == Decoys(x, y)[2]
         IN /\ e \in Int /\ p \in Int
            /\ \/ e > 0 /\ p > 0 /\ Decoys(e, p)[1] = e /\ Decoys(e, p)[2] = p
               \/ e = 0 /\ p = 0 /\ Decoys(e, p)[1] = 48 /\ Decoys(e, p)[2] = 2
<1>1. CASE x < 0 \/ y < 0
  BY <1>1 DEF Decoys
<1>2. CASE ~(x < 0 \/ y < 0)
  <2> DEFINE e == IF x = 0 THEN 48 ELSE x
             p == IF y = 0 THEN 2 ELSE y
  <2>1. Decoys(x, y)[1] = e /\ Decoys(x, y)[2] = p
    BY <1>2 DEF Decoys
  <2>2. e \in Int /\ p \in Int /\ e > 0 /\ p > 0
    BY <1>2
  <2> HIDE DEF e, p
  <2>3. Decoys(e, p)[1] = e /\ Decoys(e, p)[2] = p
    BY <2>2 DEF Decoys
  <2> QED BY <2>1, <2>2, <2>3
<1> QED BY <1>1, <1>2

\* The sizes a packet may be filled up to.
FittingSizes == 64 .. 1452

\* What a usable configuration has in each of its fields.
Sound(c) ==
  /\ c.seed \in DOMAIN Bytes /\ c.psk \in DOMAIN Bytes
  /\ Clean(c.addr) # Empty /\ c.mode \in Modes \cup {Empty} /\ c.hops \in 0 .. 16
  /\ {Clean(t) : t \in {c.transport} \cup ToSet(c.transports)} \ (Transports \cup {Empty}) = {}
  /\ Len(c.buckets) <= 16 /\ ToSet(c.buckets) \subseteq FittingSizes /\ IsInjective(c.buckets)
  /\ c.mark \in VisibleMarks /\ c.cipher \in Ciphers \cup {Empty}
  /\ c.window <= MaxGenerationWindow /\ c.jitter <= MaxJitter

LEMMA SoundIsUsable ==
  ASSUME NEW c \in Configs
  PROVE  Sound(c) <=> ~Unusable(c)
<1> DEFINE keys == {c.seed, c.psk} \ DOMAIN Bytes # {}
           addr == Clean(c.addr) = Empty
           clean == {Clean(t) : t \in {c.transport} \cup ToSet(c.transports)} \ (Transports \cup {Empty})
           mode == c.mode \in Modes \cup {Empty}
           hops == c.hops \in 0 .. 16
           sizes == ToSet(c.buckets)
           once == IsInjective(c.buckets)
           found == clean # {}
           fits == FittingSizes
           mark == c.mark \in VisibleMarks
           cipher == c.cipher \in Ciphers \cup {Empty}
<1>1. Unusable(c) <=>
        \/ keys
        \/ addr
        \/ found
        \/ ~mode
        \/ ~hops
        \/ Len(c.buckets) > 16
        \/ sizes \ fits # {}
        \/ ~once
        \/ ~mark
        \/ ~cipher
        \/ c.window > MaxGenerationWindow
        \/ c.jitter > MaxJitter
  BY Zenon DEF Unusable, FittingSizes
<1>2. Sound(c) <=>
        /\ c.seed \in DOMAIN Bytes /\ c.psk \in DOMAIN Bytes
        /\ ~addr /\ mode /\ hops
        /\ clean = {}
        /\ Len(c.buckets) <= 16 /\ sizes \subseteq fits /\ once
        /\ mark /\ cipher
        /\ c.window <= MaxGenerationWindow /\ c.jitter <= MaxJitter
  BY Zenon DEF Sound
<1>3. keys <=> ~(c.seed \in DOMAIN Bytes /\ c.psk \in DOMAIN Bytes)
  OBVIOUS
<1> HIDE DEF sizes, fits
<1>4. sizes \ fits # {} <=> ~(sizes \subseteq fits)
  OBVIOUS
<1>5. /\ c.window > MaxGenerationWindow <=> ~(c.window <= MaxGenerationWindow)
      /\ c.jitter > MaxJitter <=> ~(c.jitter <= MaxJitter)
      /\ Len(c.buckets) > 16 <=> ~(Len(c.buckets) <= 16)
  <2>1. c.window \in Nat /\ c.jitter \in Int /\ Len(c.buckets) \in Nat /\ MaxGenerationWindow \in Nat
        /\ MaxJitter \in Nat
    BY DEF Configs, Records, MaxGenerationWindow, MaxJitter
  <2> QED BY <2>1
<1>6. clean = {} <=> ~found
  OBVIOUS
<1> HIDE DEF keys, addr, clean, found, mode, hops, once, mark, cipher
<1> QED BY <1>1, <1>2, <1>3, <1>4, <1>5, <1>6

\* The fields in which a filled-in configuration may differ from what it was.
LEMMA ChangedStays ==
  ASSUME NEW c \in Configs, NEW n,
         n = [c EXCEPT !.seed = n.seed, !.psk = n.psk, !.transports = n.transports,
                       !.transport = n.transport, !.mode = n.mode,
                       !.decoyEvery = n.decoyEvery, !.decoysPerSec = n.decoysPerSec,
                       !.hops = n.hops, !.spread = n.spread, !.rotation = n.rotation,
                       !.decoyBurst = n.decoyBurst, !.buckets = n.buckets, !.jitter = n.jitter],
         n.seed \in Words, n.psk \in Words, n.transport \in Words, n.mode \in Words,
         n.transports \in Seq(Words), n.buckets \in Seq(Int), n.decoyEvery \in Int,
         n.decoysPerSec \in Int, n.hops \in Int, n.spread \in Int, n.rotation \in Int,
         n.decoyBurst \in Int, n.jitter \in Int
  PROVE  n \in Configs
<1>1. PICK seed \in Words, psk \in Words, transport \in Words, mode \in Words,
           transports \in Seq(Words), buckets \in Seq(Int) :
             /\ seed = n.seed /\ psk = n.psk /\ transport = n.transport /\ mode = n.mode
             /\ transports = n.transports /\ buckets = n.buckets
  BY Zenon
<1>2. PICK every \in Int, perSec \in Int, hops \in Int, spread \in Int, rotation \in Int,
           burst \in Int, jitter \in Int :
             /\ every = n.decoyEvery /\ perSec = n.decoysPerSec /\ hops = n.hops
             /\ spread = n.spread /\ rotation = n.rotation /\ burst = n.decoyBurst
             /\ jitter = n.jitter
  BY Zenon
<1>3. n = [c EXCEPT !.seed = seed, !.psk = psk, !.transports = transports,
                    !.transport = transport, !.mode = mode,
                    !.decoyEvery = every, !.decoysPerSec = perSec,
                    !.hops = hops, !.spread = spread, !.rotation = rotation,
                    !.decoyBurst = burst, !.buckets = buckets, !.jitter = jitter]
  BY <1>1, <1>2, Zenon
<1>4. [c EXCEPT !.seed = seed, !.psk = psk, !.transports = transports,
                    !.transport = transport, !.mode = mode,
                    !.decoyEvery = every, !.decoysPerSec = perSec,
                    !.hops = hops, !.spread = spread, !.rotation = rotation,
                    !.decoyBurst = burst, !.buckets = buckets, !.jitter = jitter] \in Configs
  <2> DEFINE m == [c EXCEPT !.seed = seed, !.psk = psk, !.transports = transports,
                    !.transport = transport, !.mode = mode,
                    !.decoyEvery = every, !.decoysPerSec = perSec,
                    !.hops = hops, !.spread = spread, !.rotation = rotation,
                    !.decoyBurst = burst, !.buckets = buckets, !.jitter = jitter]
  <2> QED BY DEF Configs, Records
<1> QED BY <1>3, <1>4, Zenon

LEMMA FilledUsable ==
  ASSUME NEW c \in Configs, ~Unusable(c)
  PROVE  Filled(c) \in Configs /\ ~Unusable(Filled(c))
<1> DEFINE n == Filled(c)
           L == Listed(c)
<1>1. Sound(c)
  BY SoundIsUsable
<1>2. /\ n.seed = Bytes[c.seed] /\ n.psk = Bytes[c.psk] /\ n.addr = c.addr
      /\ n.generation = c.generation /\ n.window = c.window
      /\ n.transport = L[1] /\ n.transports = L
      /\ n.mode = (IF c.mode = Empty THEN "silent" ELSE c.mode)
      /\ n.hops = AtLeast(1, c.hops) /\ n.spread = SpreadOf(c.hops, c.spread)
      /\ n.rotation = AtLeast(0, c.rotation)
      /\ n.decoyEvery = Decoys(c.decoyEvery, c.decoysPerSec)[1]
      /\ n.decoysPerSec = Decoys(c.decoyEvery, c.decoysPerSec)[2]
      /\ n.decoyBurst = (IF c.decoyBurst > 8 THEN 8 ELSE AtLeast(1, c.decoyBurst))
      /\ n.buckets = Sorted(c.buckets) /\ n.mark = c.mark /\ n.cipher = c.cipher
      /\ n.jitter = AtLeast(0, c.jitter)
  BY FilledFields
<1>3. /\ L \in Seq(Words) /\ Len(L) >= 1 /\ \A k \in 1 .. Len(L) : L[k] \in Transports
  BY ListedFacts
<1>4. /\ c.addr \in Words /\ c.generation \in Nat /\ c.window \in Nat /\ c.mode \in Words
      /\ c.hops \in Int /\ c.spread \in Int /\ c.rotation \in Int /\ c.decoyEvery \in Int
      /\ c.decoysPerSec \in Int /\ c.decoyBurst \in Int /\ c.buckets \in Seq(Int)
      /\ c.mark \in Words /\ c.cipher \in Words /\ c.jitter \in Int
  BY DEF Configs, Records
<1> HIDE DEF n, L
<1>6. /\ n.seed \in Plain /\ n.psk \in Plain /\ Clean(n.addr) # Empty
      /\ n.mode \in Modes /\ n.mark \in VisibleMarks /\ n.cipher \in Ciphers \cup {Empty}
      /\ n.window <= MaxGenerationWindow
  <2>1. n.mode \in Modes
    BY <1>1, <1>2 DEF Sound, Modes
  <2> QED BY <1>1, <1>2, <2>1, BytesFacts DEF Sound
<1>7. n.transports \in Seq(Words) /\ n.transport \in Transports
      /\ {Clean(t) : t \in {n.transport} \cup ToSet(n.transports)} \ (Transports \cup {Empty}) = {}
  <2>1. 1 \in 1 .. Len(L)
    BY <1>3
  <2>2. \A t \in ToSet(L) : t \in Transports
    BY <1>3 DEF ToSet
  <2>3. \A t \in {n.transport} \cup ToSet(n.transports) : Clean(t) \in Transports
    BY <1>2, <1>3, <2>1, <2>2, CleanFacts
  <2> QED BY <1>2, <1>3, <2>1, <2>3
<1>8. /\ n.hops \in 0 .. 16 /\ n.jitter \in Int /\ n.jitter <= MaxJitter /\ n.rotation \in Int
      /\ n.spread \in Int /\ n.decoyBurst \in Int
  <2>1. c.hops \in 0 .. 16 /\ c.jitter <= MaxJitter
    BY <1>1 DEF Sound
  <2>2. AtLeast(1, c.hops) \in 0 .. 16
    BY <2>1 DEF AtLeast
  <2>3. AtLeast(0, c.jitter) \in Int /\ AtLeast(0, c.jitter) <= MaxJitter
    BY <1>4, <2>1 DEF AtLeast, MaxJitter
  <2>4. AtLeast(0, c.rotation) \in Int /\ SpreadOf(c.hops, c.spread) \in Int
        /\ (IF c.decoyBurst > 8 THEN 8 ELSE AtLeast(1, c.decoyBurst)) \in Int
    BY <1>4 DEF AtLeast, SpreadOf
  <2> QED BY <1>2, <2>2, <2>3, <2>4
<1>9. n.decoyEvery \in Int /\ n.decoysPerSec \in Int
  BY <1>2, <1>4, DecoysFacts
<1>10. /\ n.buckets \in Seq(Int) /\ Len(n.buckets) <= 16 /\ ToSet(n.buckets) \subseteq FittingSizes
       /\ IsInjective(n.buckets)
  <2>1. /\ Len(c.buckets) <= 16 /\ ToSet(c.buckets) \subseteq FittingSizes /\ IsInjective(c.buckets)
    BY <1>1, Zenon DEF Sound
  <2>2. c.buckets \in Seq(Int)
    BY <1>4
  <2>3. n.buckets = Sorted(c.buckets)
    BY <1>2
  <2>4. /\ Sorted(c.buckets) \in Seq(Int) /\ Len(Sorted(c.buckets)) = Len(c.buckets)
        /\ ToSet(Sorted(c.buckets)) = ToSet(c.buckets) /\ IsInjective(Sorted(c.buckets))
    BY <2>1, <2>2, SortedFacts
  <2>5. /\ n.buckets \in Seq(Int) /\ Len(n.buckets) = Len(c.buckets)
        /\ ToSet(n.buckets) = ToSet(c.buckets) /\ IsInjective(n.buckets)
    BY <2>3, <2>4, Zenon
  <2>6. Len(n.buckets) <= 16
    <3>1. Len(c.buckets) <= 16 /\ Len(n.buckets) = Len(c.buckets)
      BY <2>1, <2>5, Zenon
    <3> QED BY ONLY <3>1
  <2>7. ToSet(n.buckets) \subseteq FittingSizes
    <3> DEFINE sizes == ToSet(c.buckets)
               fits == FittingSizes
    <3>1. sizes \subseteq fits /\ ToSet(n.buckets) = sizes
      BY <2>1, <2>5, Zenon
    <3> HIDE DEF sizes, fits
    <3>2. ToSet(n.buckets) \subseteq fits
      BY <3>1
    <3> QED BY <3>2 DEF fits
  <2> QED BY <2>5, <2>6, <2>7, Zenon
<1>11. Sound(n)
  BY <1>6, <1>7, <1>8, <1>10, BytesFacts DEF Sound
<1>12. n \in Configs
  <2>1. /\ n.seed \in Words /\ n.psk \in Words /\ n.mode \in Words /\ n.transport \in Words
    BY <1>6, <1>7, Spellings
  <2>2. n.hops \in Int
    BY <1>8
  <2>3. n = [c EXCEPT !.seed = n.seed, !.psk = n.psk, !.transports = n.transports,
                      !.transport = n.transport, !.mode = n.mode,
                      !.decoyEvery = n.decoyEvery, !.decoysPerSec = n.decoysPerSec,
                      !.hops = n.hops, !.spread = n.spread, !.rotation = n.rotation,
                      !.decoyBurst = n.decoyBurst, !.buckets = n.buckets, !.jitter = n.jitter]
    BY <1>2 DEF n, L, Filled
  <2>4. /\ n.transports \in Seq(Words) /\ n.spread \in Int /\ n.rotation \in Int
        /\ n.decoyBurst \in Int /\ n.buckets \in Seq(Int) /\ n.jitter \in Int
    BY <1>7, <1>8, <1>10
  <2> QED BY <1>9, <2>1, <2>2, <2>3, <2>4, ChangedStays, Zenon
<1> QED BY <1>11, <1>12, SoundIsUsable DEF n

ConfigFields ==
  {"seed", "psk", "addr", "generation", "window", "transport", "transports", "mode", "hops",
   "spread", "rotation", "decoyEvery", "decoysPerSec", "decoyBurst", "buckets", "mark",
   "cipher", "jitter"}

LEMMA ConfigIs == \A x \in Configs : x = [f \in ConfigFields |-> x[f]]
  BY DEF Configs, Records, ConfigFields

LEMMA SameConfig ==
  ASSUME NEW x \in Configs, NEW y \in Configs,
         x.seed = y.seed, x.psk = y.psk, x.addr = y.addr, x.generation = y.generation,
         x.window = y.window, x.transport = y.transport, x.transports = y.transports,
         x.mode = y.mode, x.hops = y.hops, x.spread = y.spread, x.rotation = y.rotation,
         x.decoyEvery = y.decoyEvery, x.decoysPerSec = y.decoysPerSec,
         x.decoyBurst = y.decoyBurst, x.buckets = y.buckets, x.mark = y.mark,
         x.cipher = y.cipher, x.jitter = y.jitter
  PROVE  x = y
<1>1. \A f \in ConfigFields : x[f] = y[f]
  BY DEF ConfigFields
<1>2. [f \in ConfigFields |-> x[f]] = [f \in ConfigFields |-> y[f]]
  BY <1>1
<1> QED BY <1>2, ConfigIs, Zenon

LEMMA FilledAgain ==
  ASSUME NEW c \in Configs, ~Unusable(c)
  PROVE  LET n == Filled(c)
             m == Filled(n)
         IN /\ m.seed = n.seed /\ m.psk = n.psk /\ m.addr = n.addr /\ m.generation = n.generation
            /\ m.window = n.window /\ m.transport = n.transport /\ m.transports = n.transports
            /\ m.mode = n.mode /\ m.hops = n.hops /\ m.spread = n.spread
            /\ m.rotation = n.rotation /\ m.decoyBurst = n.decoyBurst
            /\ m.buckets = n.buckets /\ m.mark = n.mark /\ m.cipher = n.cipher
            /\ m.jitter = n.jitter
            /\ \/ n.decoyEvery > 0 /\ m.decoyEvery = n.decoyEvery /\ m.decoysPerSec = n.decoysPerSec
               \/ n.decoyEvery = 0 /\ m.decoyEvery = 48 /\ m.decoysPerSec = 2
<1> DEFINE n == Filled(c)
           m == Filled(n)
           L == Listed(c)
<1>1. Sound(c)
  BY SoundIsUsable
<1>2. n \in Configs
  BY FilledUsable
<1>3. /\ n.seed = Bytes[c.seed] /\ n.psk = Bytes[c.psk]
      /\ n.transport = L[1] /\ n.transports = L
      /\ n.mode = (IF c.mode = Empty THEN "silent" ELSE c.mode)
      /\ n.hops = AtLeast(1, c.hops) /\ n.spread = SpreadOf(c.hops, c.spread)
      /\ n.rotation = AtLeast(0, c.rotation)
      /\ n.decoyEvery = Decoys(c.decoyEvery, c.decoysPerSec)[1]
      /\ n.decoysPerSec = Decoys(c.decoyEvery, c.decoysPerSec)[2]
      /\ n.decoyBurst = (IF c.decoyBurst > 8 THEN 8 ELSE AtLeast(1, c.decoyBurst))
      /\ n.buckets = Sorted(c.buckets)
      /\ n.jitter = AtLeast(0, c.jitter)
  BY FilledFields
<1> HIDE DEF n
<1>4. /\ m.seed = Bytes[n.seed] /\ m.psk = Bytes[n.psk] /\ m.addr = n.addr
      /\ m.generation = n.generation /\ m.window = n.window
      /\ m.transport = Listed(n)[1] /\ m.transports = Listed(n)
      /\ m.mode = (IF n.mode = Empty THEN "silent" ELSE n.mode)
      /\ m.hops = AtLeast(1, n.hops) /\ m.spread = SpreadOf(n.hops, n.spread)
      /\ m.rotation = AtLeast(0, n.rotation)
      /\ m.decoyEvery = Decoys(n.decoyEvery, n.decoysPerSec)[1]
      /\ m.decoysPerSec = Decoys(n.decoyEvery, n.decoysPerSec)[2]
      /\ m.decoyBurst = (IF n.decoyBurst > 8 THEN 8 ELSE AtLeast(1, n.decoyBurst))
      /\ m.buckets = Sorted(n.buckets) /\ m.mark = n.mark /\ m.cipher = n.cipher
      /\ m.jitter = AtLeast(0, n.jitter)
  BY <1>2, FilledFields
<1> HIDE DEF m
<1>5. /\ c.hops \in Int /\ c.spread \in Int /\ c.rotation \in Int /\ c.decoyEvery \in Int
      /\ c.decoysPerSec \in Int /\ c.decoyBurst \in Int /\ c.buckets \in Seq(Int)
      /\ c.jitter \in Int
  BY DEF Configs, Records
<1>6. m.seed = n.seed /\ m.psk = n.psk
  <2>1. c.seed \in DOMAIN Bytes /\ c.psk \in DOMAIN Bytes
    BY <1>1 DEF Sound
  <2>2. n.seed \in Plain /\ n.psk \in Plain
    BY <1>3, <2>1, BytesFacts
  <2> QED BY <1>4, <2>2, BytesFacts
<1>7. m.transport = n.transport /\ m.transports = n.transports
  <2>1. /\ L \in Seq(Words) /\ Len(L) >= 1 /\ \A k \in 1 .. Len(L) : L[k] \in Transports
        /\ \A j, k \in 1 .. Len(L) : L[j] = L[k] => j = k
    BY ListedFacts
  <2> HIDE DEF L
  <2>2. Listed(n) = L
    BY <1>3, <2>1, ListedAgain
  <2> QED BY <1>3, <1>4, <2>2, Zenon
<1>8. m.mode = n.mode
  <2>1. n.mode # Empty
    <3>1. CASE c.mode = Empty
      BY <1>3, <3>1, Spellings DEF Modes
    <3>2. CASE c.mode # Empty
      BY <1>3, <3>2
    <3> QED BY <3>1, <3>2
  <2> QED BY <1>4, <2>1
<1>9. m.hops = n.hops /\ m.rotation = n.rotation /\ m.jitter = n.jitter
  <2>1. \A x, k \in Int : AtLeast(k, AtLeast(k, x)) = AtLeast(k, x)
    BY FilledNumbers
  <2>2. 0 \in Int /\ 1 \in Int
    OBVIOUS
  <2>3. /\ AtLeast(1, AtLeast(1, c.hops)) = AtLeast(1, c.hops)
        /\ AtLeast(0, AtLeast(0, c.rotation)) = AtLeast(0, c.rotation)
        /\ AtLeast(0, AtLeast(0, c.jitter)) = AtLeast(0, c.jitter)
    BY <1>5, <2>1, <2>2, Zenon
  <2> QED BY <1>3, <1>4, <2>3, Zenon
<1>10. m.spread = n.spread
  <2>1. SpreadOf(AtLeast(1, c.hops), SpreadOf(c.hops, c.spread)) = SpreadOf(c.hops, c.spread)
    BY <1>5, FilledNumbers
  <2> QED BY <1>3, <1>4, <2>1, Zenon
<1>11. m.decoyBurst = n.decoyBurst
  <2>1. \A b \in Int : LET r == IF b > 8 THEN 8 ELSE AtLeast(1, b) IN
          (IF r > 8 THEN 8 ELSE AtLeast(1, r)) = r
    BY FilledNumbers
  <2>2. c.decoyBurst \in Int
    BY <1>5, Zenon
  <2>3. n.decoyBurst = IF c.decoyBurst > 8 THEN 8 ELSE AtLeast(1, c.decoyBurst)
    BY <1>3, Zenon
  <2>4. m.decoyBurst = IF n.decoyBurst > 8 THEN 8 ELSE AtLeast(1, n.decoyBurst)
    BY <1>4, Zenon
  <2> HIDE DEF m, n
  <2> QED BY <2>1, <2>2, <2>3, <2>4
<1>12. m.buckets = n.buckets
  <2>1. Sorted(Sorted(c.buckets)) = Sorted(c.buckets)
    BY <1>1, <1>5, SortedFacts DEF Sound
  <2> QED BY <1>3, <1>4, <2>1, Zenon
<1>13. \/ n.decoyEvery > 0 /\ m.decoyEvery = n.decoyEvery /\ m.decoysPerSec = n.decoysPerSec
       \/ n.decoyEvery = 0 /\ m.decoyEvery = 48 /\ m.decoysPerSec = 2
  <2> DEFINE e == Decoys(c.decoyEvery, c.decoysPerSec)[1]
             p == Decoys(c.decoyEvery, c.decoysPerSec)[2]
  <2>1. /\ \/ e > 0 /\ p > 0 /\ Decoys(e, p)[1] = e /\ Decoys(e, p)[2] = p
           \/ e = 0 /\ p = 0 /\ Decoys(e, p)[1] = 48 /\ Decoys(e, p)[2] = 2
    BY <1>5, DecoysFacts
  <2>2. /\ n.decoyEvery = e /\ n.decoysPerSec = p
        /\ m.decoyEvery = Decoys(e, p)[1] /\ m.decoysPerSec = Decoys(e, p)[2]
    BY <1>3, <1>4, Zenon
  <2> HIDE DEF e, p
  <2> QED BY <2>1, <2>2
<1> QED BY <1>4, <1>6, <1>7, <1>8, <1>9, <1>10, <1>11, <1>12, <1>13 DEF m, n

LEMMA NormalTwice ==
  ASSUME NEW c \in Configs, NEW n \in Normalized(c)
  PROVE  Normalized(n) = {IF n.decoyEvery > 0 THEN n
                          ELSE [n EXCEPT !.decoyEvery = 48, !.decoysPerSec = 2]}
<1> DEFINE m == Filled(n)
           k == [n EXCEPT !.decoyEvery = 48, !.decoysPerSec = 2]
<1>1. ~Unusable(c) /\ n = Filled(c)
  BY DEF Normalized
<1>2. n \in Configs /\ ~Unusable(n)
  BY <1>1, FilledUsable
<1>3. m \in Configs /\ Normalized(n) = {m}
  BY <1>2, FilledUsable DEF Normalized
<1>4. /\ m.seed = n.seed /\ m.psk = n.psk /\ m.addr = n.addr /\ m.generation = n.generation
      /\ m.window = n.window /\ m.transport = n.transport /\ m.transports = n.transports
      /\ m.mode = n.mode /\ m.hops = n.hops /\ m.spread = n.spread
      /\ m.rotation = n.rotation /\ m.decoyBurst = n.decoyBurst
      /\ m.buckets = n.buckets /\ m.mark = n.mark /\ m.cipher = n.cipher
      /\ m.jitter = n.jitter
      /\ \/ n.decoyEvery > 0 /\ m.decoyEvery = n.decoyEvery /\ m.decoysPerSec = n.decoysPerSec
         \/ n.decoyEvery = 0 /\ m.decoyEvery = 48 /\ m.decoysPerSec = 2
  BY <1>1, FilledAgain
<1>5. /\ k.seed = n.seed /\ k.psk = n.psk /\ k.addr = n.addr /\ k.generation = n.generation
      /\ k.window = n.window /\ k.transport = n.transport /\ k.transports = n.transports
      /\ k.mode = n.mode /\ k.hops = n.hops /\ k.spread = n.spread
      /\ k.rotation = n.rotation /\ k.decoyBurst = n.decoyBurst
      /\ k.buckets = n.buckets /\ k.mark = n.mark /\ k.cipher = n.cipher
      /\ k.jitter = n.jitter /\ k.decoyEvery = 48 /\ k.decoysPerSec = 2
  <2>1. n \in Configs
    BY <1>2
  <2> QED BY ONLY <2>1 DEF Configs, Records
<1>8. k \in Configs
  <2>1. n \in Configs
    BY <1>2
  <2>2. ASSUME NEW x \in Configs, NEW every \in Int, NEW perSec \in Int
        PROVE  [x EXCEPT !.decoyEvery = every, !.decoysPerSec = perSec] \in Configs
    BY DEF Configs, Records
  <2>3. 48 \in Int /\ 2 \in Int
    OBVIOUS
  <2> QED BY <2>1, <2>2, <2>3, Zenon
<1> HIDE DEF m, k
<1>6. CASE n.decoyEvery > 0
  <2>1. m.decoyEvery = n.decoyEvery /\ m.decoysPerSec = n.decoysPerSec
    BY <1>4, <1>6
  <2>2. m = n
    BY <1>2, <1>3, <1>4, <2>1, SameConfig
  <2> QED BY <1>3, <1>6, <2>2 DEF k
<1>7. CASE ~(n.decoyEvery > 0)
  <2>1. m.decoyEvery = 48 /\ m.decoysPerSec = 2
    BY <1>4, <1>7
  <2>2. m = k
    BY <1>3, <1>4, <1>5, <1>8, <2>1, SameConfig
  <2> QED BY <1>3, <1>7, <2>2 DEF k
<1> QED BY <1>6, <1>7

LEMMA ServerConfigs ==
  ASSUME NEW file \in ServerFiles, NEW c \in ServerConfig(file)
  PROVE  c \in Configs
<1>1. file \in Records(SUBSET Int)
  BY SettingsAssumption
<1>2. PICK window \in {w \in IF file.window = {} THEN {2} ELSE file.window : w >= 0} :
        c = [file EXCEPT !.window = window, !.jitter = IF @ = 0 THEN 20 ELSE AtLeast(0, @)]
  BY DEF ServerConfig
<1>3. window \in Nat
  <2>1. file.window \in SUBSET Int
    BY <1>1 DEF Records
  <2> QED BY <2>1
<1>4. PICK jitter \in Int : jitter = (IF file.jitter = 0 THEN 20 ELSE AtLeast(0, file.jitter))
  <2>1. file.jitter \in Int
    BY <1>1 DEF Records
  <2> QED BY <2>1 DEF AtLeast
<1>5. c = [file EXCEPT !.window = window, !.jitter = jitter]
  BY <1>2, <1>4
<1> QED BY <1>1, <1>3, <1>5 DEF Configs, Records

LEMMA NormalEverywhere == NormalOnceNormal
  BY ServerConfigs, NormalTwice DEF NormalOnceNormal
-------------------------------------------------------------------------------
(* What a server serves, and what a client given the same dials *)

LEMMA ServerServes ==
  ASSUME NEW file \in Records(SUBSET Int), NEW s \in Server(file)
  PROVE  /\ s \in Configs /\ ~Unusable(s)
         /\ file.seed \in DOMAIN Bytes /\ file.psk \in DOMAIN Bytes
         /\ s.seed = Bytes[file.seed] /\ s.psk = Bytes[file.psk] /\ s.addr = file.addr
         /\ s.generation = file.generation /\ s.hops = AtLeast(1, file.hops)
         /\ s.spread = SpreadOf(file.hops, file.spread) /\ s.cipher = file.cipher
         /\ s.transports = Listed(file)
         /\ s.transports \in Seq(Words)
         /\ \A k \in 1 .. Len(s.transports) : s.transports[k] \in Transports
         /\ \A j, k \in 1 .. Len(s.transports) : s.transports[j] = s.transports[k] => j = k
<1>0. PICK c \in ServerConfig(file) : \E n \in Normalized(c) : s \in Normalized(n)
  BY DEF Server
<1>1. PICK n \in Normalized(c) : s \in Normalized(n)
  BY <1>0
<1>2. PICK window, jitter \in Int :
        c = [file EXCEPT !.window = window, !.jitter = jitter] /\ window \in Nat
  <2>1. PICK window \in {w \in IF file.window = {} THEN {2} ELSE file.window : w >= 0} :
          c = [file EXCEPT !.window = window, !.jitter = IF @ = 0 THEN 20 ELSE AtLeast(0, @)]
    BY DEF ServerConfig
  <2>2. window \in Nat
    <3>1. file.window \in SUBSET Int
      BY DEF Records
    <3> QED BY <3>1
  <2>3. PICK jitter \in Int : jitter = (IF file.jitter = 0 THEN 20 ELSE AtLeast(0, file.jitter))
    <3>1. file.jitter \in Int
      BY DEF Records
    <3> QED BY <3>1 DEF AtLeast
  <2>4. c = [file EXCEPT !.window = window, !.jitter = jitter]
    BY <2>1, <2>3
  <2>5. window \in Int
    BY <2>2
  <2> QED BY <2>2, <2>4, <2>5, Zenon
<1>3. c \in Configs
  BY <1>2 DEF Configs, Records
<1>4. /\ c.seed = file.seed /\ c.psk = file.psk /\ c.addr = file.addr
      /\ c.generation = file.generation /\ c.hops = file.hops /\ c.spread = file.spread
      /\ c.cipher = file.cipher /\ c.transport = file.transport /\ c.transports = file.transports
  BY <1>2 DEF Records
<1>5. ~Unusable(c) /\ n = Filled(c)
  BY <1>1 DEF Normalized
<1>6. n \in Configs /\ ~Unusable(n)
  BY <1>3, <1>5, FilledUsable
<1>7. s = Filled(n)
  BY <1>1 DEF Normalized
<1>8. s \in Configs /\ ~Unusable(s)
  BY <1>6, <1>7, FilledUsable
<1>9. /\ s.seed = n.seed /\ s.psk = n.psk /\ s.addr = n.addr /\ s.generation = n.generation
      /\ s.transports = n.transports /\ s.hops = n.hops /\ s.spread = n.spread /\ s.cipher = n.cipher
  BY <1>3, <1>5, <1>7, FilledAgain
<1>10. /\ n.seed = Bytes[c.seed] /\ n.psk = Bytes[c.psk] /\ n.addr = c.addr
       /\ n.generation = c.generation /\ n.transports = Listed(c) /\ n.hops = AtLeast(1, c.hops)
       /\ n.spread = SpreadOf(c.hops, c.spread) /\ n.cipher = c.cipher
  BY <1>3, <1>5, FilledFields
<1>11. Listed(c) = Listed(file)
  BY <1>4 DEF Listed
<1>12. c.seed \in DOMAIN Bytes /\ c.psk \in DOMAIN Bytes
  BY <1>3, <1>5, SoundIsUsable DEF Sound
<1>13. /\ Listed(c) \in Seq(Words)
       /\ \A k \in 1 .. Len(Listed(c)) : Listed(c)[k] \in Transports
       /\ \A j, k \in 1 .. Len(Listed(c)) : Listed(c)[j] = Listed(c)[k] => j = k
  BY <1>3, <1>5, ListedFacts
<1> QED BY <1>4, <1>8, <1>9, <1>10, <1>11, <1>12, <1>13

\* What a client may be given: what it leaves out is filled in.
Offered(d) ==
  /\ d \in Configs
  /\ d.seed \in DOMAIN Bytes /\ d.psk \in DOMAIN Bytes /\ Clean(d.addr) # Empty
  /\ d.mode = Empty /\ d.buckets = <<>> /\ d.mark = Empty /\ d.cipher \in Ciphers \cup {Empty}
  /\ d.hops \in 0 .. 16
  /\ Clean(d.transport) \in Transports \cup {Empty}
  /\ \A i \in 1 .. Len(d.transports) : d.transports[i] \in Transports
  /\ \A i, j \in 1 .. Len(d.transports) : d.transports[i] = d.transports[j] => i = j

ListOf(d) ==
  IF d.transports # <<>> THEN d.transports
  ELSE <<IF Clean(d.transport) = Empty THEN "udp" ELSE Clean(d.transport)>>

LEMMA CoreDials ==
  ASSUME NEW d, Offered(d)
  PROVE  \E k : /\ ClientCore(d) = {k}
                /\ k.seed = Bytes[d.seed] /\ k.psk = Bytes[d.psk] /\ k.addr = d.addr
                /\ k.generation = d.generation /\ k.hops = AtLeast(1, d.hops)
                /\ k.spread = SpreadOf(d.hops, d.spread) /\ k.cipher = d.cipher
                /\ k.transports = ListOf(d)
<1> DEFINE c == [d EXCEPT !.window = 2, !.jitter = 20]
           k == Filled(c)
<1>1. d \in Configs
  BY DEF Offered
<1>2. c \in Configs
  <2>1. ASSUME NEW x \in Configs, NEW w \in Nat, NEW j \in Int
        PROVE  [x EXCEPT !.window = w, !.jitter = j] \in Configs
    BY DEF Configs, Records
  <2>2. 2 \in Nat /\ 20 \in Int
    OBVIOUS
  <2> QED BY <1>1, <2>1, <2>2, Zenon
<1>3. /\ c.seed = d.seed /\ c.psk = d.psk /\ c.addr = d.addr /\ c.generation = d.generation
      /\ c.hops = d.hops /\ c.spread = d.spread /\ c.cipher = d.cipher /\ c.mark = d.mark
      /\ c.mode = d.mode /\ c.buckets = d.buckets /\ c.transport = d.transport
      /\ c.transports = d.transports /\ c.window = 2 /\ c.jitter = 20
  BY <1>1 DEF Configs, Records
<1> HIDE DEF c
<1>4. d.transports \in Seq(Words)
  BY <1>1 DEF Configs, Records
<1>5. Sound(c)
  <2>1. {Clean(t) : t \in {c.transport} \cup ToSet(c.transports)} \ (Transports \cup {Empty}) = {}
    <3>1. \A t \in ToSet(c.transports) : t \in Transports
      BY <1>3, <1>4 DEF Offered, ToSet
    <3>2. \A t \in {c.transport} \cup ToSet(c.transports) : Clean(t) \in Transports \cup {Empty}
      BY <1>3, <3>1, CleanFacts DEF Offered
    <3> QED BY <3>2
  <2>2. Len(c.buckets) <= 16 /\ ToSet(c.buckets) \subseteq FittingSizes /\ IsInjective(c.buckets)
    <3>1. c.buckets = <<>>
      BY <1>3 DEF Offered
    <3>2. Len(<<>>) = 0 /\ DOMAIN <<>> = {}
      OBVIOUS
    <3>3. IsInjective(<<>>)
      BY <3>2 DEF IsInjective
    <3>4. ToSet(<<>>) = {}
      BY <3>2 DEF ToSet
    <3>5. \A fits : {} \subseteq fits
      OBVIOUS
    <3>6. 0 <= 16
      OBVIOUS
    <3> QED BY <3>1, <3>2, <3>3, <3>4, <3>5, <3>6, Zenon
  <2>3. c.window <= MaxGenerationWindow /\ c.jitter <= MaxJitter
    BY <1>3 DEF MaxGenerationWindow, MaxJitter
  <2>4. /\ c.seed \in DOMAIN Bytes /\ c.psk \in DOMAIN Bytes /\ Clean(c.addr) # Empty
        /\ c.mode = Empty /\ c.mark = Empty /\ c.cipher \in Ciphers \cup {Empty}
        /\ c.hops \in 0 .. 16
    BY <1>3 DEF Offered
  <2>5. c.mode \in Modes \cup {Empty} /\ c.mark \in VisibleMarks
    BY <2>4 DEF VisibleMarks
  <2> QED BY <2>1, <2>2, <2>3, <2>4, <2>5, Zenon DEF Sound
<1>6. ClientCore(d) = {k}
  <2>1. ~Unusable(c)
    BY <1>2, <1>5, SoundIsUsable
  <2> QED BY <2>1 DEF ClientCore, Normalized, c
<1>7. /\ k.seed = Bytes[c.seed] /\ k.psk = Bytes[c.psk] /\ k.addr = c.addr
      /\ k.generation = c.generation /\ k.transports = Listed(c) /\ k.hops = AtLeast(1, c.hops)
      /\ k.spread = SpreadOf(c.hops, c.spread) /\ k.cipher = c.cipher
  BY <1>2, FilledFields
<1> HIDE DEF k
<1>8. Listed(c) = ListOf(d)
  <2>1. Distinct(d.transports) = d.transports
    <3>1. \A i \in 1 .. Len(d.transports) : d.transports[i] # Empty
                                              /\ Clean(d.transports[i]) = d.transports[i]
      BY Spellings, CleanFacts DEF Offered
    <3> QED BY <1>4, <3>1, DistinctKeeps DEF Offered
  <2> QED BY <1>3, <2>1, Zenon DEF Listed, ListOf
<1> QED BY <1>3, <1>6, <1>7, <1>8

\* What the owner of a server told a user of it.
Deal(s, t) ==
  /\ s.addr \in Words /\ Clean(s.addr) # Empty /\ s.seed \in Plain /\ s.psk \in Plain
  /\ s.generation \in Nat /\ s.window \in Nat /\ s.hops \in 1 .. 16
  /\ s.cipher \in Words /\ s.cipher \in Ciphers \cup {Empty}
  /\ s.transports \in Seq(Words)
  /\ \A k \in 1 .. Len(s.transports) : s.transports[k] \in Transports
  /\ \A j, k \in 1 .. Len(s.transports) : s.transports[j] = s.transports[k] => j = k
  /\ t \in [addr : Words, seed : Words, psk : Words, generation : Nat, transport : Words,
            hops : Int, spread : Int]
  /\ t.addr = s.addr /\ t.psk = s.psk /\ t.generation = s.generation /\ t.hops = s.hops
  /\ t.seed \in DOMAIN Bytes /\ Bytes[t.seed] = s.seed
  /\ t.transport \in Transports /\ t.transport \in ToSet(s.transports)

\* The width within which the further ports are drawn.
Width(spread) == IF spread <= 0 THEN 2048 ELSE spread

LEMMA ToldIsADeal ==
  ASSUME NEW file \in Records(SUBSET Int), NEW s \in Server(file), NEW t \in Told(file, s)
  PROVE  Deal(s, t) /\ Width(t.spread) = Width(s.spread)
<1>1. /\ s \in Configs /\ ~Unusable(s)
      /\ file.seed \in DOMAIN Bytes /\ file.psk \in DOMAIN Bytes
      /\ s.seed = Bytes[file.seed] /\ s.psk = Bytes[file.psk]
      /\ s.hops = AtLeast(1, file.hops) /\ s.spread = SpreadOf(file.hops, file.spread)
  BY ServerServes
<1>2. /\ s.transports \in Seq(Words)
      /\ \A k \in 1 .. Len(s.transports) : s.transports[k] \in Transports
      /\ \A j, k \in 1 .. Len(s.transports) : s.transports[j] = s.transports[k] => j = k
  BY ServerServes
<1>3. Sound(s)
  BY <1>1, SoundIsUsable
<1>4. s.addr \in Words /\ s.generation \in Nat /\ s.window \in Nat /\ s.cipher \in Words
      /\ s.hops \in Int
  BY <1>1 DEF Configs, Records
<1>5. file.seed \in Words /\ file.spread \in Int /\ file.hops \in Int
  BY DEF Records
<1>6. s.seed \in Plain /\ s.psk \in Plain /\ s.seed \in Words /\ s.psk \in Words
  BY <1>1, BytesFacts, Spellings
<1>7. s.hops \in 1 .. 16
  <2>1. s.hops \in 0 .. 16
    BY <1>3 DEF Sound
  <2>2. 1 <= AtLeast(1, file.hops)
    BY <1>5 DEF AtLeast
  <2>3. 1 <= s.hops
    BY <1>1, <2>2
  <2> QED BY <2>1, <2>3
<1>8. t \in [addr : {s.addr}, seed : {file.seed, s.seed}, psk : {s.psk},
             generation : {s.generation}, transport : ToSet(s.transports), hops : {s.hops},
             spread : {file.spread}]
  BY DEF Told
<1>9. /\ t.addr = s.addr /\ t.psk = s.psk /\ t.generation = s.generation /\ t.hops = s.hops
      /\ t.seed \in {file.seed, s.seed} /\ t.transport \in ToSet(s.transports)
      /\ t.spread = file.spread
  BY <1>8
<1>10. ToSet(s.transports) \subseteq Transports
  BY <1>2 DEF ToSet
<1>11. t.transport \in Transports /\ t.transport \in Words
  BY <1>9, <1>10, Spellings
<1>12. t.seed \in DOMAIN Bytes /\ Bytes[t.seed] = s.seed /\ t.seed \in Words
  BY <1>1, <1>5, <1>6, <1>9, BytesFacts
<1>13. t \in [addr : Words, seed : Words, psk : Words, generation : Nat, transport : Words,
              hops : Int, spread : Int]
  <2>1. t = [addr |-> t.addr, seed |-> t.seed, psk |-> t.psk, generation |-> t.generation,
             transport |-> t.transport, hops |-> t.hops, spread |-> t.spread]
    BY <1>8
  <2>2. /\ t.addr \in Words /\ t.seed \in Words /\ t.psk \in Words /\ t.generation \in Nat
        /\ t.transport \in Words /\ t.hops \in Int /\ t.spread \in Int
    BY <1>4, <1>5, <1>6, <1>9, <1>11, <1>12
  <2> QED BY <2>1, <2>2
<1>14. Width(t.spread) = Width(s.spread)
  BY <1>1, <1>5, <1>9 DEF Width, SpreadOf
<1>15. Clean(s.addr) # Empty /\ s.cipher \in Ciphers \cup {Empty}
  BY <1>3 DEF Sound
<1> QED BY <1>2, <1>4, <1>6, <1>7, <1>9, <1>11, <1>12, <1>13, <1>14, <1>15, Zenon DEF Deal

LEMMA ServedWidth ==
  ASSUME NEW h \in Int, NEW spread \in Int
  PROVE  Width(SpreadOf(h, spread)) = Width(spread) /\ SpreadOf(h, spread) \in Int
  BY DEF Width, SpreadOf

\* A client with the server's own keys and address meets it if the ciphers, the
\* transports and the ports fit.
LEMMA MeetsIf ==
  ASSUME NEW s, NEW c, s.generation \in Nat, s.window \in Nat, s.hops \in 1 .. 16,
         c.seed = s.seed, c.psk = s.psk, c.addr = s.addr, c.generation = s.generation,
         c.hops = 1 \/ (c.hops = s.hops /\ Width(c.spread) = Width(s.spread))
  PROVE  Meet(s, c) <=> c.cipher = s.cipher /\ ToSet(c.transports) \cap ToSet(s.transports) # {}
<1>1. c.generation \in s.generation .. s.generation + s.window
  OBVIOUS
<1>2. PortsOf(c) \subseteq PortsOf(s)
  <2> DEFINE ports(a, seed, g, hops, width) ==
        {<<a>>} \cup {<<a, seed, g, width, k>> : k \in 1 .. hops - 1}
  <2>1. /\ PortsOf(c) = ports(c.addr, c.seed, c.generation, c.hops, Width(c.spread))
        /\ PortsOf(s) = ports(s.addr, s.seed, s.generation, s.hops, Width(s.spread))
    BY DEF PortsOf, Width
  <2>2. CASE c.hops = 1
    <3>1. 1 .. 1 - 1 = {}
      OBVIOUS
    <3> QED BY <2>1, <2>2, <3>1
  <2>3. CASE c.hops = s.hops /\ Width(c.spread) = Width(s.spread)
    <3> HIDE DEF ports
    <3> QED BY <2>1, <2>3
  <2> QED BY <2>2, <2>3
<1>3. <<c.seed, c.psk, c.cipher>> = <<s.seed, s.psk, s.cipher>> <=> c.cipher = s.cipher
  OBVIOUS
<1> QED BY <1>1, <1>2, <1>3, Zenon DEF Meet

\* A client that has the server's address and keys, and what else it was given.
LEMMA OfferMeets ==
  ASSUME NEW s, NEW t, Deal(s, t), NEW d, Offered(d),
         Bytes[d.seed] = s.seed, d.psk = s.psk, d.addr = s.addr, d.generation = s.generation,
         d.hops <= 1 \/ (d.hops = s.hops /\ Width(d.spread) = Width(s.spread))
  PROVE  \E k : /\ ClientCore(d) = {k}
                /\ Meet(s, k) <=> /\ d.cipher = s.cipher
                                  /\ ToSet(ListOf(d)) \cap ToSet(s.transports) # {}
<1>1. PICK k : /\ ClientCore(d) = {k}
               /\ k.seed = Bytes[d.seed] /\ k.psk = Bytes[d.psk] /\ k.addr = d.addr
               /\ k.generation = d.generation /\ k.hops = AtLeast(1, d.hops)
               /\ k.spread = SpreadOf(d.hops, d.spread) /\ k.cipher = d.cipher
               /\ k.transports = ListOf(d)
  BY CoreDials
<1>2. /\ s.psk \in Plain /\ s.generation \in Nat /\ s.window \in Nat /\ s.hops \in 1 .. 16
  BY DEF Deal
<1>3. d.hops \in 0 .. 16 /\ d.spread \in Int
  BY DEF Offered, Configs, Records
<1>4. k.seed = s.seed /\ k.psk = s.psk /\ k.addr = s.addr /\ k.generation = s.generation
  BY <1>1, <1>2, BytesFacts
<1>5. k.hops = 1 \/ (k.hops = s.hops /\ Width(k.spread) = Width(s.spread))
  <2>1. CASE d.hops <= 1
    <3>1. AtLeast(1, d.hops) = 1
      BY <1>3, <2>1 DEF AtLeast
    <3> QED BY <1>1, <3>1
  <2>2. CASE d.hops = s.hops /\ Width(d.spread) = Width(s.spread)
    <3>1. AtLeast(1, d.hops) = s.hops
      BY <1>2, <2>2 DEF AtLeast
    <3>2. Width(SpreadOf(d.hops, d.spread)) = Width(d.spread)
      <4>1. d.hops \in Int
        BY <1>3
      <4> QED BY <1>3, <4>1, ServedWidth
    <3>3. k.hops = s.hops
      BY <1>1, <3>1
    <3>4. Width(k.spread) = Width(s.spread)
      BY <1>1, <2>2, <3>2, Zenon
    <3> QED BY <3>3, <3>4
  <2> QED BY <2>1, <2>2
<1>6. Meet(s, k) <=> k.cipher = s.cipher /\ ToSet(k.transports) \cap ToSet(s.transports) # {}
  BY <1>2, <1>4, <1>5, MeetsIf
<1> QED BY <1>1, <1>6

LEMMA NoConfigIsOne == NoConfig \in Configs
<1>1. <<>> \in Seq(Words) /\ <<>> \in Seq(Int) /\ 0 \in Nat /\ 0 \in Int /\ Empty \in Words
  BY Spellings
<1> HIDE DEF Empty
<1> QED BY <1>1 DEF NoConfig, Configs, Records

Given7 == [addr : Words, seed : Words, psk : Words, generation : Nat, transport : Words,
           hops : Int, spread : Int]

LEMMA ConfigOfIs ==
  ASSUME NEW u \in Given7
  PROVE  LET d == ConfigOf(u) IN
         /\ d \in Configs
         /\ d.addr = u.addr /\ d.seed = u.seed /\ d.psk = u.psk /\ d.generation = u.generation
         /\ d.transport = u.transport /\ d.hops = u.hops /\ d.spread = u.spread
         /\ d.transports = <<>> /\ d.mode = Empty /\ d.buckets = <<>> /\ d.mark = Empty
         /\ d.cipher = Empty
<1>1. ASSUME NEW c \in Configs, NEW addr \in Words, NEW seed \in Words, NEW psk \in Words,
             NEW generation \in Nat, NEW transport \in Words, NEW hops \in Int, NEW spread \in Int
      PROVE  [c EXCEPT !.addr = addr, !.seed = seed, !.psk = psk, !.generation = generation,
                       !.transport = transport, !.hops = hops, !.spread = spread] \in Configs
  BY DEF Configs, Records
<1>2. /\ u.addr \in Words /\ u.seed \in Words /\ u.psk \in Words /\ u.generation \in Nat
      /\ u.transport \in Words /\ u.hops \in Int /\ u.spread \in Int
  BY DEF Given7
<1>3. ConfigOf(u) \in Configs
  BY <1>1, <1>2, NoConfigIsOne, Zenon DEF ConfigOf
<1>4. LET d == ConfigOf(u) IN
         /\ d.addr = u.addr /\ d.seed = u.seed /\ d.psk = u.psk /\ d.generation = u.generation
         /\ d.transport = u.transport /\ d.hops = u.hops /\ d.spread = u.spread
         /\ d.transports = <<>> /\ d.mode = Empty /\ d.buckets = <<>> /\ d.mark = Empty
         /\ d.cipher = Empty
  BY DEF ConfigOf, NoConfig
<1> QED BY <1>3, <1>4, Zenon

LEMMA TellsCore ==
  ASSUME NEW s, NEW t, Deal(s, t), NEW u \in Given7,
         u.addr = s.addr, u.seed \in DOMAIN Bytes, Bytes[u.seed] = s.seed, u.psk = s.psk,
         u.generation = s.generation, Clean(u.transport) \in Transports \cup {Empty},
         u.hops \in 0 .. 16,
         u.hops <= 1 \/ (u.hops = s.hops /\ Width(u.spread) = Width(s.spread))
  PROVE  \E k : /\ ClientCore(ConfigOf(u)) = {k}
                /\ Meet(s, k) <=>
                     /\ s.cipher = Empty
                     /\ (IF Clean(u.transport) = Empty THEN "udp" ELSE Clean(u.transport))
                          \in ToSet(s.transports)
<1> DEFINE d == ConfigOf(u)
           way == IF Clean(u.transport) = Empty THEN "udp" ELSE Clean(u.transport)
<1>1. /\ d \in Configs
      /\ d.addr = u.addr /\ d.seed = u.seed /\ d.psk = u.psk /\ d.generation = u.generation
      /\ d.transport = u.transport /\ d.hops = u.hops /\ d.spread = u.spread
      /\ d.transports = <<>> /\ d.mode = Empty /\ d.buckets = <<>> /\ d.mark = Empty
      /\ d.cipher = Empty
  BY ConfigOfIs
<1> HIDE DEF d
<1>2. Offered(d)
  <2>1. d.seed \in DOMAIN Bytes /\ d.psk \in DOMAIN Bytes /\ Clean(d.addr) # Empty
    BY <1>1, BytesFacts DEF Deal
  <2>2. Len(d.transports) = 0
    BY <1>1
  <2>3. /\ \A i \in 1 .. Len(d.transports) : d.transports[i] \in Transports
        /\ \A i, j \in 1 .. Len(d.transports) : d.transports[i] = d.transports[j] => i = j
    BY <2>2
  <2>4. d.cipher \in Ciphers \cup {Empty}
    BY <1>1
  <2> QED BY <1>1, <2>1, <2>3, <2>4 DEF Offered
<1>3. PICK k : /\ ClientCore(d) = {k}
               /\ Meet(s, k) <=> /\ d.cipher = s.cipher
                                 /\ ToSet(ListOf(d)) \cap ToSet(s.transports) # {}
  BY <1>1, <1>2, OfferMeets
<1>4. ListOf(d) = <<way>>
  BY <1>1 DEF ListOf
<1> HIDE DEF way
<1>5. ToSet(ListOf(d)) = {way}
  <2>1. DOMAIN <<way>> = {1} /\ <<way>>[1] = way
    OBVIOUS
  <2> QED BY <1>4, <2>1 DEF ToSet
<1>6. Meet(s, k) <=> s.cipher = Empty /\ way \in ToSet(s.transports)
  BY <1>1, <1>3, <1>5
<1> QED BY <1>3, <1>6 DEF d, way
-------------------------------------------------------------------------------
(* Each front end in turn *)

LEMMA DealFacts ==
  ASSUME NEW s, NEW t, Deal(s, t)
  PROVE  /\ t \in Given7 /\ t.addr = s.addr /\ t.psk = s.psk /\ t.generation = s.generation
         /\ t.hops = s.hops /\ t.hops \in 1 .. 16 /\ t.spread \in Int
         /\ t.seed \in DOMAIN Bytes /\ Bytes[t.seed] = s.seed /\ t.psk \in Plain
         /\ t.addr # Empty /\ t.addr # Blank /\ t.addr \in Words /\ t.generation \in Nat
         /\ Clean(t.transport) = t.transport /\ t.transport \in Transports
         /\ t.transport \in ToSet(s.transports) /\ t.transport # Empty
         /\ s.seed \in Plain /\ s.seed \in Words /\ s.seed \in DOMAIN Bytes
         /\ Bytes[s.seed] = s.seed
<1>1. t \in Given7
  BY DEF Deal, Given7
<1>2. t.addr # Empty /\ t.addr # Blank
  <2>1. Clean(Empty) = Empty
    BY CleanFacts
  <2>2. Clean(Blank) = Empty
    <3>1. Blank # Shouted
      BY Spellings
    <3> QED BY <3>1, ZenonT(30) DEF Clean
  <2>3. Clean(t.addr) # Empty
    BY DEF Deal
  <2> QED BY <2>1, <2>2, <2>3
<1>3. /\ t.addr = s.addr /\ t.psk = s.psk /\ t.generation = s.generation
      /\ t.hops = s.hops /\ t.hops \in 1 .. 16
      /\ t.seed \in DOMAIN Bytes /\ Bytes[t.seed] = s.seed /\ t.psk \in Plain
      /\ t.addr \in Words /\ t.generation \in Nat
      /\ t.transport \in Transports /\ t.transport \in ToSet(s.transports) /\ s.seed \in Plain
  BY DEF Deal
<1>4. t.spread \in Int
  BY <1>1 DEF Given7
<1>5. Clean(t.transport) = t.transport /\ t.transport # Empty
  BY <1>3, CleanFacts, Spellings
<1>6. s.seed \in DOMAIN Bytes /\ Bytes[s.seed] = s.seed /\ s.seed \in Words
  BY <1>3, BytesFacts, Spellings
<1> QED BY <1>1, <1>2, <1>3, <1>4, <1>5, <1>6

\* What a form makes of what was typed.
Typed(t) == [t EXCEPT !.spread = SpreadOf(t.hops, @)]

LEMMA TypedFacts ==
  ASSUME NEW s, NEW t, Deal(s, t), Width(t.spread) = Width(s.spread)
  PROVE  LET w == Typed(t) IN
         /\ w \in Given7 /\ w.addr = s.addr /\ w.seed = t.seed /\ w.psk = s.psk
         /\ w.generation = s.generation /\ w.transport = t.transport /\ w.hops = s.hops
         /\ Width(w.spread) = Width(s.spread)
         /\ w.spread = SpreadOf(t.hops, t.spread)
         /\ ~(w.hops > 1 /\ w.spread <= 0)
         /\ SpreadOf(w.hops, w.spread) = w.spread
<1> DEFINE w == Typed(t)
<1>1. /\ t \in Given7 /\ t.addr = s.addr /\ t.psk = s.psk /\ t.generation = s.generation
      /\ t.hops = s.hops /\ t.hops \in 1 .. 16 /\ t.spread \in Int
  BY DealFacts
<1>2. PICK spread \in Int : spread = SpreadOf(t.hops, t.spread)
  BY <1>1 DEF SpreadOf
<1>3. w = [t EXCEPT !.spread = spread]
  BY <1>2 DEF Typed
<1>4. /\ w \in Given7 /\ w.addr = t.addr /\ w.seed = t.seed /\ w.psk = t.psk
      /\ w.generation = t.generation /\ w.transport = t.transport /\ w.hops = t.hops
      /\ w.spread = spread
  BY <1>1, <1>3 DEF Given7
<1> HIDE DEF w
<1>5. t.hops \in Int
  BY <1>1
<1>6. /\ Width(SpreadOf(t.hops, t.spread)) = Width(t.spread)
      /\ ~(t.hops > 1 /\ SpreadOf(t.hops, t.spread) <= 0)
      /\ SpreadOf(t.hops, SpreadOf(t.hops, t.spread)) = SpreadOf(t.hops, t.spread)
  BY <1>1, <1>5 DEF SpreadOf, Width
<1> QED BY <1>1, <1>2, <1>4, <1>6 DEF w

\* A form leaves the transport as it was told.
LEMMA SameTransport ==
  ASSUME NEW t \in Given7, NEW y
  PROVE  /\ [t EXCEPT !.transport = t.transport, !.spread = y] = [t EXCEPT !.spread = y]
         /\ [t EXCEPT !.transport = t.transport] = t
         /\ [t EXCEPT !.addr = t.addr, !.psk = t.psk, !.generation = t.generation] = t
  BY DEF Given7

\* A file with the list and the cipher of a server.
Listing(c, ts, ci) == [c EXCEPT !.transports = ts, !.cipher = ci]

LEMMA TwoChanged ==
  ASSUME NEW c \in Configs, NEW ts \in Seq(Words), NEW ci \in Words
  PROVE  LET d == Listing(c, ts, ci)
         IN /\ d \in Configs /\ d.transports = ts /\ d.cipher = ci
            /\ d.seed = c.seed /\ d.psk = c.psk /\ d.addr = c.addr
            /\ d.generation = c.generation /\ d.transport = c.transport /\ d.hops = c.hops
            /\ d.spread = c.spread /\ d.mode = c.mode /\ d.buckets = c.buckets
            /\ d.mark = c.mark
<1> DEFINE d == [c EXCEPT !.transports = ts, !.cipher = ci]
<1>1. d \in Configs
  BY DEF Configs, Records
<1>2. "transports" \in DOMAIN c /\ "cipher" \in DOMAIN c
  BY DEF Configs, Records
<1>3. d.transports = ts /\ d.cipher = ci
  BY <1>2
<1>4. \A f \in DOMAIN c \ {"transports", "cipher"} : d[f] = c[f]
  OBVIOUS
<1>5. DOMAIN c = ConfigFields
  BY ConfigIs
<1> HIDE DEF d
<1>6. /\ d.seed = c.seed /\ d.psk = c.psk /\ d.addr = c.addr
      /\ d.generation = c.generation /\ d.transport = c.transport /\ d.hops = c.hops
      /\ d.spread = c.spread /\ d.mode = c.mode /\ d.buckets = c.buckets /\ d.mark = c.mark
  BY <1>4, <1>5 DEF ConfigFields
<1>7. d = Listing(c, ts, ci)
  BY DEF d, Listing
<1> QED BY <1>1, <1>3, <1>6, <1>7, Zenon

LEMMA LinuxDials ==
  ASSUME NEW s, NEW t, Deal(s, t), Width(t.spread) = Width(s.spread)
  PROVE  \E k : ClientCore(ClientFile(t, s.transports, s.cipher)) = {k} /\ Meet(s, k)
<1> DEFINE c == ConfigOf(t)
           d == ClientFile(t, s.transports, s.cipher)
<1>1. /\ t \in Given7 /\ t.addr = s.addr /\ t.psk = s.psk /\ t.generation = s.generation
      /\ t.hops = s.hops /\ t.hops \in 1 .. 16 /\ t.seed \in DOMAIN Bytes
      /\ Bytes[t.seed] = s.seed /\ t.psk \in Plain /\ Clean(t.transport) = t.transport
      /\ t.transport \in Transports /\ t.transport \in ToSet(s.transports)
  BY DealFacts
<1>2. /\ c \in Configs
      /\ c.addr = t.addr /\ c.seed = t.seed /\ c.psk = t.psk /\ c.generation = t.generation
      /\ c.transport = t.transport /\ c.hops = t.hops /\ c.spread = t.spread
      /\ c.mode = Empty /\ c.buckets = <<>> /\ c.mark = Empty
  BY <1>1, ConfigOfIs
<1> HIDE DEF c
<1>3. /\ s.transports \in Seq(Words) /\ s.cipher \in Words /\ s.cipher \in Ciphers \cup {Empty}
      /\ Clean(s.addr) # Empty
      /\ \A k \in 1 .. Len(s.transports) : s.transports[k] \in Transports
      /\ \A j, k \in 1 .. Len(s.transports) : s.transports[j] = s.transports[k] => j = k
  BY DEF Deal
<1>4. d = Listing(c, s.transports, s.cipher)
  BY DEF ClientFile, Listing, c
<1> HIDE DEF d
<1>5. /\ d \in Configs /\ d.addr = c.addr /\ d.seed = c.seed /\ d.psk = c.psk
      /\ d.generation = c.generation /\ d.transport = c.transport /\ d.hops = c.hops
      /\ d.spread = c.spread /\ d.mode = c.mode /\ d.buckets = c.buckets /\ d.mark = c.mark
      /\ d.transports = s.transports /\ d.cipher = s.cipher
  <2>1. /\ c \in Configs /\ s.transports \in Seq(Words) /\ s.cipher \in Words
    BY <1>2, <1>3
  <2> QED BY <1>4, <2>1, TwoChanged, Zenon
<1>6. Offered(d)
  <2>1. /\ d.seed \in DOMAIN Bytes /\ d.psk \in DOMAIN Bytes /\ Clean(d.addr) # Empty
        /\ d.hops \in 0 .. 16 /\ Clean(d.transport) \in Transports \cup {Empty}
    BY <1>1, <1>2, <1>3, <1>5, BytesFacts
  <2>2. /\ \A i \in 1 .. Len(d.transports) : d.transports[i] \in Transports
        /\ \A i, j \in 1 .. Len(d.transports) : d.transports[i] = d.transports[j] => i = j
    BY <1>3, <1>5
  <2>3. d.cipher \in Ciphers \cup {Empty}
    BY <1>3, <1>5
  <2> QED BY <1>2, <1>5, <2>1, <2>2, <2>3 DEF Offered
<1>7. PICK k : /\ ClientCore(d) = {k}
               /\ Meet(s, k) <=> /\ d.cipher = s.cipher
                                 /\ ToSet(ListOf(d)) \cap ToSet(s.transports) # {}
  <2>1. /\ Bytes[d.seed] = s.seed /\ d.psk = s.psk /\ d.addr = s.addr
        /\ d.generation = s.generation /\ d.hops = s.hops /\ Width(d.spread) = Width(s.spread)
    BY <1>1, <1>2, <1>5
  <2> QED BY <1>6, <2>1, OfferMeets
<1>8. ListOf(d) = s.transports
  <2>1. s.transports # <<>>
    BY <1>1, <1>3 DEF ToSet
  <2> QED BY <1>5, <2>1 DEF ListOf
<1>9. Meet(s, k)
  BY <1>1, <1>5, <1>7, <1>8
<1> QED BY <1>7, <1>9 DEF d

LEMMA InviteDials ==
  ASSUME NEW s, NEW t, Deal(s, t)
  PROVE  \E k : /\ ClientCore(WithInvite(NoConfig, [t EXCEPT !.seed = s.seed])) = {k}
                /\ Meet(s, k) <=> s.cipher = Empty /\ "udp" \in ToSet(s.transports)
<1> DEFINE d == WithInvite(NoConfig, [t EXCEPT !.seed = s.seed])
           u == [t EXCEPT !.seed = s.seed, !.transport = Empty, !.hops = 0, !.spread = 0]
<1>1. /\ t \in Given7 /\ t.addr = s.addr /\ t.psk = s.psk /\ t.generation = s.generation
      /\ s.seed \in Words /\ s.seed \in DOMAIN Bytes /\ Bytes[s.seed] = s.seed
  BY DealFacts
<1>3. /\ u \in Given7 /\ u.addr = t.addr /\ u.seed = s.seed /\ u.psk = t.psk
      /\ u.generation = t.generation /\ u.transport = Empty /\ u.hops = 0 /\ u.spread = 0
  <2>1. ASSUME NEW x \in Words, NEW y \in Words, NEW h \in Int
        PROVE  [t EXCEPT !.seed = x, !.transport = y, !.hops = h, !.spread = h] \in Given7
    BY <1>1 DEF Given7
  <2>2. u \in Given7
    <3>1. Empty \in Words /\ 0 \in Int
      BY Spellings
    <3> QED BY <1>1, <2>1, <3>1, Zenon
  <2> QED BY <1>1, <2>2 DEF Given7
<1>2. ConfigOf(u) = d
  <2> DEFINE c == ConfigOf(u)
  <2>1. /\ c \in Configs
        /\ c.addr = u.addr /\ c.seed = u.seed /\ c.psk = u.psk /\ c.generation = u.generation
        /\ c.transport = u.transport /\ c.hops = u.hops /\ c.spread = u.spread
        /\ c.transports = <<>> /\ c.mode = Empty /\ c.buckets = <<>> /\ c.mark = Empty
        /\ c.cipher = Empty
    BY <1>3, ConfigOfIs
  <2>2. /\ c.window = 0 /\ c.rotation = 0 /\ c.decoyEvery = 0 /\ c.decoysPerSec = 0
        /\ c.decoyBurst = 0 /\ c.jitter = 0
    BY DEF ConfigOf, NoConfig
  <2>3. /\ d.addr = t.addr /\ d.seed = s.seed /\ d.psk = t.psk /\ d.generation = t.generation
        /\ d.transport = Empty /\ d.hops = 0 /\ d.spread = 0 /\ d.transports = <<>>
        /\ d.mode = Empty /\ d.buckets = <<>> /\ d.mark = Empty /\ d.cipher = Empty
        /\ d.window = 0 /\ d.rotation = 0 /\ d.decoyEvery = 0 /\ d.decoysPerSec = 0
        /\ d.decoyBurst = 0 /\ d.jitter = 0
    BY <1>1 DEF WithInvite, NoConfig, Given7
  <2>4. d \in Configs
    <3>1. ASSUME NEW x \in Configs, NEW addr \in Words, NEW seed \in Words, NEW psk \in Words,
                 NEW generation \in Nat
          PROVE  [x EXCEPT !.addr = addr, !.seed = seed, !.psk = psk, !.generation = generation]
                   \in Configs
      BY DEF Configs, Records
    <3>2. /\ t.addr \in Words /\ t.psk \in Words /\ t.generation \in Nat
      BY <1>1 DEF Given7
    <3>3. d = [NoConfig EXCEPT !.addr = t.addr, !.seed = s.seed, !.psk = t.psk,
                               !.generation = t.generation]
      BY <1>1 DEF WithInvite, Given7
    <3>4. [NoConfig EXCEPT !.addr = t.addr, !.seed = s.seed, !.psk = t.psk,
                           !.generation = t.generation] \in Configs
      <4>1. s.seed \in Words
        BY <1>1
      <4> QED BY ONLY <3>1, <3>2, <4>1, NoConfigIsOne, Zenon
    <3> QED BY <3>3, <3>4, Zenon
  <2> HIDE DEF c, d, u
  <2>5. c = d
    BY <1>3, <2>1, <2>2, <2>3, <2>4, SameConfig
  <2> QED BY <2>5 DEF c
<1> HIDE DEF u, d
<1>4. Clean(u.transport) = Empty
  BY <1>3, CleanFacts
<1>5. u.hops \in 0 .. 16 /\ u.hops <= 1
  BY <1>3
<1>6. PICK k : /\ ClientCore(ConfigOf(u)) = {k}
               /\ Meet(s, k) <=>
                     /\ s.cipher = Empty
                     /\ (IF Clean(u.transport) = Empty THEN "udp" ELSE Clean(u.transport))
                          \in ToSet(s.transports)
  BY <1>1, <1>3, <1>4, <1>5, TellsCore
<1>7. Meet(s, k) <=> s.cipher = Empty /\ "udp" \in ToSet(s.transports)
  BY <1>4, <1>6
<1> QED BY <1>2, <1>6, <1>7 DEF d

\* From a form, or an import, to the core.
LEMMA FormDials ==
  ASSUME NEW s, NEW t, Deal(s, t), NEW u \in Given7,
         u.addr = s.addr, u.seed \in DOMAIN Bytes, Bytes[u.seed] = s.seed, u.psk = s.psk,
         u.generation = s.generation, u.transport = t.transport, u.hops \in 0 .. 16,
         u.hops <= 1 \/ (u.hops = s.hops /\ Width(u.spread) = Width(s.spread))
  PROVE  \E k : ClientCore(ConfigOf(u)) = {k} /\ (Meet(s, k) <=> s.cipher = Empty)
<1>1. /\ Clean(t.transport) = t.transport /\ t.transport \in Transports
      /\ t.transport \in ToSet(s.transports) /\ t.transport # Empty
  BY DealFacts
<1>2. Clean(u.transport) = t.transport
  BY <1>1
<1>3. Clean(u.transport) \in Transports \cup {Empty}
  BY <1>1, <1>2
<1>4. PICK k : /\ ClientCore(ConfigOf(u)) = {k}
               /\ Meet(s, k) <=>
                     /\ s.cipher = Empty
                     /\ (IF Clean(u.transport) = Empty THEN "udp" ELSE Clean(u.transport))
                          \in ToSet(s.transports)
  BY <1>3, TellsCore
<1>5. Meet(s, k) <=> s.cipher = Empty
  BY <1>1, <1>2, <1>4
<1> QED BY <1>4, <1>5
LEMMA SubmittedIs ==
  ASSUME NEW s, NEW t, Deal(s, t), Width(t.spread) = Width(s.spread)
  PROVE  Submitted(t) = IF t.seed \in Plain /\ t.transport \in AppTransports
                        THEN {Typed(t)} ELSE {}
<1>1. /\ t \in Given7 /\ t.hops \in 1 .. 16 /\ t.psk \in Plain /\ t.addr # Empty
      /\ t.generation \in Nat /\ Clean(t.transport) = t.transport /\ t.transport # Empty
  BY DealFacts
<1>2. ~(t.generation < 0)
  BY <1>1
<1>3. {t.seed, t.psk} \ Plain # {} <=> t.seed \notin Plain
  BY <1>1
<1>4. Clean(t.transport) \notin AppTransports \cup {Empty} <=> t.transport \notin AppTransports
  BY <1>1
<1>5. FormIncomplete(t) <=> ~(t.seed \in Plain /\ t.transport \in AppTransports)
  BY <1>1, <1>2, <1>3, <1>4, Zenon DEF FormIncomplete
<1>6. [t EXCEPT !.transport = IF Clean(@) = Empty THEN "udp" ELSE Clean(@),
                !.spread = SpreadOf(t.hops, @)] = Typed(t)
  <2>1. [t EXCEPT !.transport = t.transport, !.spread = SpreadOf(t.hops, t.spread)]
          = [t EXCEPT !.spread = SpreadOf(t.hops, t.spread)]
    BY <1>1, SameTransport
  <2>2. (IF Clean(t.transport) = Empty THEN "udp" ELSE Clean(t.transport)) = t.transport
    BY <1>1
  <2> QED BY <2>1, <2>2 DEF Typed
<1> QED BY <1>5, <1>6, Zenon DEF Submitted

LEMMA KeptIs ==
  ASSUME NEW s, NEW t, Deal(s, t), Width(t.spread) = Width(s.spread),
         t.seed \in Plain, t.transport \in AppTransports
  PROVE  /\ \A last : Kept(last, Typed(t)) = {Typed(t)}
         /\ Restarted(Reloaded(Typed(t))) = {Typed(t)}
<1> DEFINE w == Typed(t)
           quiet == [w EXCEPT !.transport = Empty]
<1>1. /\ t.hops \in 1 .. 16 /\ t.hops = s.hops /\ t.psk \in Plain /\ t.psk = s.psk
      /\ t.addr # Empty /\ t.addr = s.addr
      /\ Clean(t.transport) = t.transport /\ t.transport # Empty
  BY DealFacts
<1>2. /\ w \in Given7 /\ w.addr = s.addr /\ w.seed = t.seed /\ w.psk = s.psk
      /\ w.transport = t.transport /\ w.hops = s.hops
      /\ ~(w.hops > 1 /\ w.spread <= 0) /\ SpreadOf(w.hops, w.spread) = w.spread
  BY TypedFacts
<1> HIDE DEF w
<1>3. /\ ~(w.hops \notin 0 .. 16)
      /\ {w.seed, w.psk} \ Plain = {} /\ w.addr # Empty /\ Clean(w.transport) = w.transport
      /\ w.transport # Empty /\ w.transport \in AppTransports
  BY <1>1, <1>2
<1>4. [w EXCEPT !.transport = w.transport] = w
  BY <1>2, SameTransport
<1>5. \A last : Kept(last, w) = {w}
  BY <1>2, <1>3, <1>4, Zenon DEF Kept
<1>6. Reloaded(w) = w
  <2>1. [w EXCEPT !.transport = w.transport, !.spread = w.spread] = w
    BY <1>2 DEF Given7
  <2>2. (IF w.transport = Empty THEN "udp" ELSE w.transport) = w.transport
    BY <1>3
  <2> QED BY <1>2, <2>1, <2>2 DEF Reloaded
<1>7. /\ quiet.addr = w.addr /\ quiet.seed = w.seed /\ quiet.psk = w.psk
      /\ quiet.transport = Empty /\ quiet.hops = w.hops /\ quiet.spread = w.spread
      /\ [quiet EXCEPT !.transport = w.transport] = w
  BY <1>2 DEF Given7
<1>8. Clean(Empty) = Empty
  BY CleanFacts
<1>9. Restarted(w) = {w}
  <2>1. Restarted(w) = Kept(w, quiet)
    BY DEF Restarted
  <2> HIDE DEF quiet
  <2> QED BY <1>2, <1>3, <1>7, <1>8, <2>1, Zenon DEF Kept
<1> QED BY <1>5, <1>6, <1>9 DEF w

LEMMA WindowsCoreIs ==
  ASSUME NEW w \in Given7, SpreadOf(w.hops, w.spread) = w.spread
  PROVE  WindowsCore(w) = ClientCore(ConfigOf(w))
<1>1. [w EXCEPT !.spread = w.spread] = w
  BY DEF Given7
<1> QED BY <1>1 DEF WindowsCore

LEMMA WindowsDials ==
  ASSUME NEW s, NEW t, Deal(s, t), Width(t.spread) = Width(s.spread)
  PROVE  LET windows == UNION {Kept(WindowsDefaults, a) : a \in Submitted(t)}
             tray == UNION {Restarted(Reloaded(w)) : w \in windows}
         IN IF t.seed \in Plain /\ t.transport \in AppTransports
            THEN \E k : /\ UNION {WindowsCore(x) : x \in windows} = {k}
                        /\ UNION {WindowsCore(x) : x \in tray} = {k}
                        /\ Meet(s, k) <=> s.cipher = Empty
            ELSE /\ UNION {WindowsCore(x) : x \in windows} = {}
                 /\ UNION {WindowsCore(x) : x \in tray} = {}
<1> DEFINE windows == UNION {Kept(WindowsDefaults, a) : a \in Submitted(t)}
           tray == UNION {Restarted(Reloaded(w)) : w \in windows}
           w == Typed(t)
<1>1. CASE t.seed \in Plain /\ t.transport \in AppTransports
  <2>1. Submitted(t) = {w}
    BY <1>1, SubmittedIs
  <2>2. Kept(WindowsDefaults, w) = {w} /\ Restarted(Reloaded(w)) = {w}
    BY <1>1, KeptIs
  <2>3. windows = {w}
    BY <2>1, <2>2
  <2> HIDE DEF windows
  <2>4. tray = {w}
    BY <2>2, <2>3
  <2> HIDE DEF tray
  <2>5. /\ w \in Given7 /\ w.addr = s.addr /\ w.seed = t.seed /\ w.psk = s.psk
        /\ w.generation = s.generation /\ w.transport = t.transport /\ w.hops = s.hops
        /\ Width(w.spread) = Width(s.spread) /\ SpreadOf(w.hops, w.spread) = w.spread
    BY TypedFacts
  <2>6. t.seed \in DOMAIN Bytes /\ Bytes[t.seed] = s.seed /\ t.hops \in 0 .. 16 /\ t.hops = s.hops
    BY DealFacts
  <2> HIDE DEF w
  <2>7. PICK k : ClientCore(ConfigOf(w)) = {k} /\ (Meet(s, k) <=> s.cipher = Empty)
    BY <2>5, <2>6, FormDials
  <2>8. WindowsCore(w) = {k}
    BY <2>5, <2>7, WindowsCoreIs
  <2>9. /\ UNION {WindowsCore(x) : x \in windows} = {k}
        /\ UNION {WindowsCore(x) : x \in tray} = {k}
    BY <2>3, <2>4, <2>8
  <2> QED BY <1>1, <2>7, <2>9 DEF windows, tray
<1>2. CASE ~(t.seed \in Plain /\ t.transport \in AppTransports)
  <2>1. Submitted(t) = {}
    BY <1>2, SubmittedIs
  <2>2. windows = {}
    BY <2>1
  <2> HIDE DEF windows
  <2>3. tray = {}
    BY <2>2
  <2> HIDE DEF tray
  <2>4. /\ UNION {WindowsCore(x) : x \in windows} = {}
        /\ UNION {WindowsCore(x) : x \in tray} = {}
    BY <2>2, <2>3
  <2> QED BY <1>2, <2>4 DEF windows, tray
<1> QED BY <1>1, <1>2

LEMMA EnteredIs ==
  ASSUME NEW s, NEW t, Deal(s, t), Width(t.spread) = Width(s.spread)
  PROVE  /\ Entered(t) = IF t.seed \in Plain THEN {Typed(t)} ELSE {}
         /\ t.seed \in Plain =>
              LET served == IF t.transport \in AppTransports THEN {Typed(t)} ELSE {}
              IN ServiceConfig({Typed(t)}, {}) = served /\ ServiceConfig({}, {Typed(t)}) = served
<1> DEFINE w == Typed(t)
<1>1. /\ t \in Given7 /\ t.psk \in Plain /\ t.addr # Empty /\ t.addr # Blank /\ t.addr = s.addr
      /\ t.psk = s.psk /\ Clean(t.transport) = t.transport /\ t.transport # Empty
  BY DealFacts
<1>2. {t.seed, t.psk} \ Plain # {} <=> t.seed \notin Plain
  BY <1>1
<1>3. [t EXCEPT !.transport = IF Clean(@) = Empty THEN "udp" ELSE @,
                !.spread = SpreadOf(t.hops, @)] = w
  <2>1. [t EXCEPT !.transport = t.transport, !.spread = SpreadOf(t.hops, t.spread)]
          = [t EXCEPT !.spread = SpreadOf(t.hops, t.spread)]
    BY <1>1, SameTransport
  <2>2. (IF Clean(t.transport) = Empty THEN "udp" ELSE t.transport) = t.transport
    BY <1>1
  <2> QED BY <2>1, <2>2 DEF Typed
<1>4. w.addr = s.addr /\ w.seed = t.seed /\ w.psk = s.psk /\ w.transport = t.transport
      /\ w.hops \in 1 .. 16
  BY TypedFacts, DealFacts
<1> HIDE DEF w
<1>5. Entered(t) = IF t.seed \in Plain THEN {w} ELSE {}
  BY <1>1, <1>2, <1>3, Zenon DEF Entered
<1>6. ASSUME t.seed \in Plain
      PROVE  LET served == IF t.transport \in AppTransports THEN {w} ELSE {}
             IN ServiceConfig({w}, {}) = served /\ ServiceConfig({}, {w}) = served
  <2>1. {w.addr, w.seed, w.psk} \cap {Empty, Blank} = {}
    BY <1>1, <1>4, <1>6, Spellings
  <2> HIDE DEF AppTransports
  <2> QED BY <1>4, <2>1 DEF ServiceConfig
<1> QED BY <1>5, <1>6 DEF w
LEMMA AndroidDials ==
  ASSUME NEW s, NEW t, Deal(s, t), Width(t.spread) = Width(s.spread), t.seed \in Plain
  PROVE  LET w == Typed(t) IN
         /\ \E k : StartGo(w, NewLibrary) = {k} /\ (Meet(s, k) <=> s.cipher = Empty)
         /\ IF (t.transport = "udp" /\ t.hops = 1) \/ t.transport = "tcp"
            THEN \E k : StartGo(w, {"transport"}) = {k} /\ (Meet(s, k) <=> s.cipher = Empty)
            ELSE StartGo(w, {"transport"}) = {}
         /\ IF t.transport = "udp" /\ t.hops = 1
            THEN \E k : StartGo(w, {}) = {k} /\ (Meet(s, k) <=> s.cipher = Empty)
            ELSE StartGo(w, {}) = {}
<1> DEFINE w == Typed(t)
           one == [w EXCEPT !.hops = 1, !.spread = 0]
<1>1. /\ w \in Given7 /\ w.addr = s.addr /\ w.seed = t.seed /\ w.psk = s.psk
      /\ w.generation = s.generation /\ w.transport = t.transport /\ w.hops = s.hops
      /\ Width(w.spread) = Width(s.spread)
  BY TypedFacts
<1>2. /\ t.seed \in DOMAIN Bytes /\ Bytes[t.seed] = s.seed /\ t.hops \in 1 .. 16 /\ t.hops = s.hops
  BY DealFacts
<1> HIDE DEF w
<1>3. /\ one \in Given7 /\ one.addr = w.addr /\ one.seed = w.seed /\ one.psk = w.psk
      /\ one.generation = w.generation /\ one.transport = w.transport /\ one.hops = 1
  <2>1. ASSUME NEW h \in Int, NEW x \in Int
        PROVE  [w EXCEPT !.hops = h, !.spread = x] \in Given7
    BY <1>1 DEF Given7
  <2>2. one \in Given7
    <3>1. 1 \in Int /\ 0 \in Int
      OBVIOUS
    <3> QED BY <2>1, <3>1, Zenon
  <2> QED BY <1>1, <2>2 DEF Given7
<1> HIDE DEF one
<1>4. w.generation \in Nat /\ one.generation \in Nat
  BY <1>1, <1>3 DEF Given7
<1>5. BindStart(w) = ClientCore(ConfigOf(w)) /\ BindStart(one) = ClientCore(ConfigOf(one))
  <2>1. ~(w.generation < 0) /\ ~(one.generation < 0)
    BY <1>4
  <2> QED BY <2>1 DEF BindStart
<1>6. PICK k : BindStart(w) = {k} /\ (Meet(s, k) <=> s.cipher = Empty)
  <2>1. w.hops \in 0 .. 16
    BY <1>1, <1>2
  <2>2. \E k : ClientCore(ConfigOf(w)) = {k} /\ (Meet(s, k) <=> s.cipher = Empty)
    BY <1>1, <1>2, <2>1, FormDials
  <2> QED BY <1>5, <2>2
<1>7. PICK j : BindStart(one) = {j} /\ (Meet(s, j) <=> s.cipher = Empty)
  <2>1. one.hops \in 0 .. 16 /\ one.hops <= 1
    BY <1>3
  <2>2. /\ one.addr = s.addr /\ one.seed \in DOMAIN Bytes /\ Bytes[one.seed] = s.seed
        /\ one.psk = s.psk /\ one.generation = s.generation /\ one.transport = t.transport
    BY <1>1, <1>2, <1>3
  <2>3. \E i : ClientCore(ConfigOf(one)) = {i} /\ (Meet(s, i) <=> s.cipher = Empty)
    BY <1>3, <2>1, <2>2, FormDials
  <2> QED BY <1>5, <2>3
<1>8. StartGo(w, NewLibrary) = BindStart(w)
  BY DEF StartGo, NewLibrary
<1>9. "hop" \notin {"transport"} /\ "hop" \notin {} /\ "transport" \notin {}
      /\ "transport" \in {"transport"}
  OBVIOUS
<1>10. w.hops <= 1 <=> t.hops = 1
  BY <1>1, <1>2
<1>11. StartGo(w, {"transport"}) = IF (t.transport = "udp" /\ t.hops = 1) \/ t.transport = "tcp"
                                   THEN BindStart(one) ELSE {}
  BY <1>1, <1>9, <1>10, Zenon DEF StartGo, one
<1>12. StartGo(w, {}) = IF t.transport = "udp" /\ t.hops = 1 THEN BindStart(one) ELSE {}
  BY <1>1, <1>9, <1>10, Zenon DEF StartGo, one
<1> QED BY <1>6, <1>7, <1>8, <1>11, <1>12 DEF w

LEMMA ImportDials ==
  ASSUME NEW s, NEW t, Deal(s, t), Width(t.spread) = Width(s.spread)
  PROVE  LET dialled == UNION {StartGo(c, NewLibrary) :
                c \in ServiceConfig({}, {Imported(t, [t EXCEPT !.seed = s.seed])})}
         IN IF t.transport \in AppTransports
            THEN \E k : dialled = {k} /\ (Meet(s, k) <=> s.cipher = Empty)
            ELSE dialled = {}
<1> DEFINE u == [t EXCEPT !.seed = s.seed]
<1>1. /\ t \in Given7 /\ t.addr = s.addr /\ t.psk = s.psk /\ t.generation = s.generation
      /\ t.hops = s.hops /\ t.hops \in 1 .. 16 /\ t.psk \in Plain
      /\ t.addr # Empty /\ t.addr # Blank
      /\ Clean(t.transport) = t.transport /\ t.transport # Empty
      /\ s.seed \in Plain /\ s.seed \in Words /\ s.seed \in DOMAIN Bytes
      /\ Bytes[s.seed] = s.seed
  BY DealFacts
<1>2. /\ u \in Given7 /\ u.addr = t.addr /\ u.seed = s.seed /\ u.psk = t.psk
      /\ u.generation = t.generation /\ u.transport = t.transport /\ u.hops = t.hops
      /\ u.spread = t.spread
  BY <1>1 DEF Given7
<1> HIDE DEF u
<1>3. Imported(t, u) = u
  <2>1. Imported(t, u) = [t EXCEPT !.addr = u.addr, !.seed = u.seed, !.psk = u.psk,
                                   !.generation = u.generation, !.transport = t.transport]
    BY <1>1 DEF Imported
  <2>2. [t EXCEPT !.addr = t.addr, !.seed = s.seed, !.psk = t.psk,
                  !.generation = t.generation, !.transport = t.transport]
          = [t EXCEPT !.seed = s.seed]
    BY <1>1 DEF Given7
  <2> QED BY <1>2, <2>1, <2>2 DEF u
<1>4. ServiceConfig({}, {u}) = IF t.transport \in AppTransports THEN {u} ELSE {}
  <2>1. {u.addr, u.seed, u.psk} \cap {Empty, Blank} = {}
    BY <1>1, <1>2, Spellings
  <2> HIDE DEF AppTransports
  <2> QED BY <1>1, <1>2, <2>1 DEF ServiceConfig
<1>5. StartGo(u, NewLibrary) = ClientCore(ConfigOf(u))
  <2>1. ~(u.generation < 0)
    BY <1>2 DEF Given7
  <2> QED BY <2>1 DEF StartGo, NewLibrary, BindStart
<1>6. PICK k : ClientCore(ConfigOf(u)) = {k} /\ (Meet(s, k) <=> s.cipher = Empty)
  <2>1. u.hops \in 0 .. 16
    BY <1>1, <1>2
  <2> QED BY <1>1, <1>2, <2>1, FormDials
<1>7. UNION {StartGo(c, NewLibrary) : c \in {u}} = {k}
  BY <1>5, <1>6
<1>8. UNION {StartGo(c, NewLibrary) : c \in {}} = {}
  OBVIOUS
<1>9. Imported(t, [t EXCEPT !.seed = s.seed]) = u
  BY <1>3 DEF u
<1> HIDE DEF AppTransports
<1> QED BY <1>4, <1>6, <1>7, <1>8, <1>9

-------------------------------------------------------------------------------
(* All of them *)

\* As SettingsMeet asks of a front end and what it dials with.
Right(end, dialled, s, t) ==
  /\ dialled = {} <=> Declines(end, t)
  /\ \A c \in dialled :
       Meet(s, c) <=> /\ s.cipher = Empty \/ end = "linux"
                      /\ end = "invite" => "udp" \in ToSet(s.transports)

LEMMA DecliningIs ==
  ASSUME NEW t, t.hops = 1 \/ t.hops # 1
  PROVE  /\ ~Declines("linux", t) /\ ~Declines("invite", t)
         /\ Declines("import", t) <=> t.transport \notin AppTransports
         /\ \A end \in {"windows", "tray", "android", "tile"} :
              Declines(end, t) <=> ~(t.seed \in Plain /\ t.transport \in AppTransports)
         /\ Declines("older", t) <=>
              ~(t.seed \in Plain /\ ((t.transport = "udp" /\ t.hops = 1) \/ t.transport = "tcp"))
         /\ Declines("oldest", t) <=>
              ~(t.seed \in Plain /\ t.transport = "udp" /\ t.hops = 1)
<1>1. ~Declines("linux", t) /\ ~Declines("invite", t)
  BY ZenonT(30) DEF Declines
<1>2. Declines("import", t) <=> t.transport \notin AppTransports
  <2>1. "import" \notin {"linux", "invite"} /\ "import" \notin {"older", "oldest"}
        /\ "import" \in {"linux", "invite", "import"}
    OBVIOUS
  <2> HIDE DEF AppTransports
  <2> QED BY <2>1, ZenonT(30) DEF Declines
<1>3. ASSUME NEW end \in {"windows", "tray", "android", "tile"}
      PROVE  Declines(end, t) <=> ~(t.seed \in Plain /\ t.transport \in AppTransports)
  <2>1. end \notin {"linux", "invite", "import"} /\ end \notin {"older", "oldest"}
        /\ end \notin {"linux", "invite"}
    BY <1>3
  <2> HIDE DEF AppTransports
  <2> QED BY <2>1, ZenonT(30) DEF Declines
<1>4. "udp" \in AppTransports /\ "tcp" \in AppTransports
  BY DEF AppTransports, Transports
<1>5. Declines("older", t) <=>
        ~(t.seed \in Plain /\ ((t.transport = "udp" /\ t.hops = 1) \/ t.transport = "tcp"))
  <2>1. "older" \notin {"linux", "invite", "import"} /\ "older" \notin {"linux", "invite"}
    OBVIOUS
  <2>2. "older" \in {"older", "oldest"}
    OBVIOUS
  <2> HIDE DEF AppTransports
  <2> QED BY <1>4, <2>1, <2>2, ZenonT(30) DEF Declines
<1>6. Declines("oldest", t) <=> ~(t.seed \in Plain /\ t.transport = "udp" /\ t.hops = 1)
  <2>1. "oldest" \notin {"linux", "invite", "import"} /\ "oldest" \notin {"linux", "invite"}
    OBVIOUS
  <2>2. "oldest" \in {"older", "oldest"} /\ "oldest" # "older"
    OBVIOUS
  <2> HIDE DEF AppTransports
  <2> QED BY <1>4, <2>1, <2>2, ZenonT(30) DEF Declines
<1> QED BY <1>1, <1>2, <1>3, <1>5, <1>6, Zenon

\* Where one thing is dialled with, or nothing.
LEMMA RightOne ==
  ASSUME NEW s, NEW t, NEW end, NEW dialled, end # "linux", end # "invite",
         Declines(end, t) => dialled = {},
         ~Declines(end, t) => \E k : dialled = {k} /\ (Meet(s, k) <=> s.cipher = Empty)
  PROVE  Right(end, dialled, s, t)
<1>1. CASE ~Declines(end, t)
  <2>1. PICK k : dialled = {k} /\ (Meet(s, k) <=> s.cipher = Empty)
    BY <1>1
  <2> QED BY <1>1, <2>1 DEF Right
<1>2. CASE Declines(end, t)
  BY <1>2 DEF Right
<1> QED BY <1>1, <1>2

LEMMA AllAreRight ==
  ASSUME NEW s, NEW t, Deal(s, t), Width(t.spread) = Width(s.spread)
  PROVE  \A end \in DOMAIN Dialing(t, s) : Right(end, Dialing(t, s)[end], s, t)
<1> DEFINE D == Dialing(t, s)
           w == Typed(t)
           windows == UNION {Kept(WindowsDefaults, a) : a \in Submitted(t)}
           tray == UNION {Restarted(Reloaded(x)) : x \in windows}
           entered == Entered(t)
           plain == t.seed \in Plain
           onApps == t.seed \in Plain /\ t.transport \in AppTransports
           onOlder == t.seed \in Plain /\ ((t.transport = "udp" /\ t.hops = 1) \/ t.transport = "tcp")
           onOldest == t.seed \in Plain /\ t.transport = "udp" /\ t.hops = 1
<1>1. DOMAIN D = {"linux", "invite", "windows", "tray", "android", "tile", "import", "older", "oldest"}
  BY DEF Dialing
<1>2. /\ D["linux"] = ClientCore(ClientFile(t, s.transports, s.cipher))
      /\ D["invite"] = ClientCore(WithInvite(NoConfig, [t EXCEPT !.seed = s.seed]))
      /\ D["windows"] = UNION {WindowsCore(k) : k \in windows}
      /\ D["tray"] = UNION {WindowsCore(k) : k \in tray}
  BY DEF Dialing
<1>3. /\ D["android"] = UNION {StartGo(c, NewLibrary) : c \in ServiceConfig(entered, {})}
      /\ D["tile"] = UNION {StartGo(c, NewLibrary) : c \in ServiceConfig({}, entered)}
      /\ D["import"] = UNION {StartGo(c, NewLibrary) :
                                c \in ServiceConfig({}, {Imported(t, [t EXCEPT !.seed = s.seed])})}
      /\ D["older"] = UNION {StartGo(c, {"transport"}) : c \in ServiceConfig(entered, {})}
      /\ D["oldest"] = UNION {StartGo(c, {}) : c \in ServiceConfig(entered, {})}
  BY DEF Dialing
<1> HIDE DEF D
<1>4. /\ ~Declines("linux", t) /\ ~Declines("invite", t)
      /\ Declines("import", t) <=> t.transport \notin AppTransports
      /\ Declines("windows", t) <=> ~onApps
      /\ Declines("tray", t) <=> ~onApps
      /\ Declines("android", t) <=> ~onApps
      /\ Declines("tile", t) <=> ~onApps
      /\ Declines("older", t) <=> ~onOlder
      /\ Declines("oldest", t) <=> ~onOldest
  BY DecliningIs, Zenon
<1>5. Right("linux", D["linux"], s, t)
  <2>1. PICK k : D["linux"] = {k} /\ Meet(s, k)
    BY <1>2, LinuxDials
  <2>2. "linux" # "invite"
    OBVIOUS
  <2> QED BY <1>4, <2>1, <2>2 DEF Right
<1>6. Right("invite", D["invite"], s, t)
  <2>1. PICK k : /\ D["invite"] = {k}
                 /\ Meet(s, k) <=> s.cipher = Empty /\ "udp" \in ToSet(s.transports)
    BY <1>2, InviteDials
  <2>2. "linux" # "invite"
    OBVIOUS
  <2> QED BY <1>4, <2>1, <2>2 DEF Right
<1>7. /\ IF onApps THEN \E k : D["windows"] = {k} /\ (Meet(s, k) <=> s.cipher = Empty)
         ELSE D["windows"] = {}
      /\ IF onApps THEN \E k : D["tray"] = {k} /\ (Meet(s, k) <=> s.cipher = Empty)
         ELSE D["tray"] = {}
  <2>1. IF onApps
        THEN \E k : /\ UNION {WindowsCore(x) : x \in windows} = {k}
                    /\ UNION {WindowsCore(x) : x \in tray} = {k}
                    /\ Meet(s, k) <=> s.cipher = Empty
        ELSE /\ UNION {WindowsCore(x) : x \in windows} = {}
             /\ UNION {WindowsCore(x) : x \in tray} = {}
    BY WindowsDials
  <2> HIDE DEF windows, tray, onApps
  <2> QED BY <1>2, <2>1, Zenon
<1>8. /\ entered = (IF plain THEN {w} ELSE {})
      /\ onApps => ServiceConfig({w}, {}) = {w} /\ ServiceConfig({}, {w}) = {w}
      /\ plain /\ ~onApps => ServiceConfig({w}, {}) = {} /\ ServiceConfig({}, {w}) = {}
      /\ onApps => plain
  BY EnteredIs
<1>9. ServiceConfig({}, {}) = {}
  BY DEF ServiceConfig
<1>10. /\ onApps => ServiceConfig(entered, {}) = {w} /\ ServiceConfig({}, entered) = {w}
       /\ ~onApps => ServiceConfig(entered, {}) = {} /\ ServiceConfig({}, entered) = {}
  <2> HIDE DEF entered, w, plain, onApps
  <2> QED BY <1>8, <1>9, Zenon
<1>11. onApps => /\ \E k : StartGo(w, NewLibrary) = {k} /\ (Meet(s, k) <=> s.cipher = Empty)
                 /\ IF onOlder
                    THEN \E k : StartGo(w, {"transport"}) = {k} /\ (Meet(s, k) <=> s.cipher = Empty)
                    ELSE StartGo(w, {"transport"}) = {}
                 /\ IF onOldest
                    THEN \E k : StartGo(w, {}) = {k} /\ (Meet(s, k) <=> s.cipher = Empty)
                    ELSE StartGo(w, {}) = {}
  <2> HAVE onApps
  <2> HIDE DEF w
  <2> QED BY AndroidDials, Zenon DEF w
<1>12. \A X, library : /\ X = {w} => UNION {StartGo(c, library) : c \in X} = StartGo(w, library)
                       /\ X = {} => UNION {StartGo(c, library) : c \in X} = {}
  <2> HIDE DEF w
  <2> QED OBVIOUS
<1>13. onOlder \/ onOldest => onApps
  <2>1. "udp" \in AppTransports /\ "tcp" \in AppTransports
    BY DEF AppTransports, Transports
  <2> HIDE DEF AppTransports
  <2> QED BY <2>1
<1> HIDE DEF entered, w, plain, onApps, onOlder, onOldest
<1>14. /\ D["android"] = (IF onApps THEN StartGo(w, NewLibrary) ELSE {})
       /\ D["tile"] = (IF onApps THEN StartGo(w, NewLibrary) ELSE {})
       /\ D["older"] = (IF onApps THEN StartGo(w, {"transport"}) ELSE {})
       /\ D["oldest"] = (IF onApps THEN StartGo(w, {}) ELSE {})
  BY <1>3, <1>10, <1>12
<1>15. IF onApps THEN \E k : D["android"] = {k} /\ (Meet(s, k) <=> s.cipher = Empty)
       ELSE D["android"] = {}
  BY <1>11, <1>14, Zenon
<1>16. IF onApps THEN \E k : D["tile"] = {k} /\ (Meet(s, k) <=> s.cipher = Empty)
       ELSE D["tile"] = {}
  BY <1>11, <1>14, Zenon
<1>17. IF onOlder THEN \E k : D["older"] = {k} /\ (Meet(s, k) <=> s.cipher = Empty)
       ELSE D["older"] = {}
  BY <1>11, <1>13, <1>14, Zenon
<1>18. IF onOldest THEN \E k : D["oldest"] = {k} /\ (Meet(s, k) <=> s.cipher = Empty)
       ELSE D["oldest"] = {}
  BY <1>11, <1>13, <1>14, Zenon
<1>19. IF t.transport \in AppTransports
       THEN \E k : D["import"] = {k} /\ (Meet(s, k) <=> s.cipher = Empty)
       ELSE D["import"] = {}
  <2> HIDE DEF AppTransports
  <2> QED BY <1>3, ImportDials
<1>20. /\ Right("windows", D["windows"], s, t) /\ Right("tray", D["tray"], s, t)
       /\ Right("android", D["android"], s, t) /\ Right("tile", D["tile"], s, t)
       /\ Right("older", D["older"], s, t) /\ Right("oldest", D["oldest"], s, t)
       /\ Right("import", D["import"], s, t)
  <2>1. Right("windows", D["windows"], s, t)
    <3>1. /\ Declines("windows", t) => D["windows"] = {}
          /\ ~Declines("windows", t) => \E k : D["windows"] = {k} /\ (Meet(s, k) <=> s.cipher = Empty)
      BY <1>4, <1>7, Zenon
    <3> QED BY <3>1, RightOne
  <2>2. Right("tray", D["tray"], s, t)
    <3>1. /\ Declines("tray", t) => D["tray"] = {}
          /\ ~Declines("tray", t) => \E k : D["tray"] = {k} /\ (Meet(s, k) <=> s.cipher = Empty)
      BY <1>4, <1>7, Zenon
    <3> QED BY <3>1, RightOne
  <2>3. Right("android", D["android"], s, t)
    <3>1. /\ Declines("android", t) => D["android"] = {}
          /\ ~Declines("android", t) => \E k : D["android"] = {k} /\ (Meet(s, k) <=> s.cipher = Empty)
      BY <1>4, <1>15, Zenon
    <3> QED BY <3>1, RightOne
  <2>4. Right("tile", D["tile"], s, t)
    <3>1. /\ Declines("tile", t) => D["tile"] = {}
          /\ ~Declines("tile", t) => \E k : D["tile"] = {k} /\ (Meet(s, k) <=> s.cipher = Empty)
      BY <1>4, <1>16, Zenon
    <3> QED BY <3>1, RightOne
  <2>5. Right("older", D["older"], s, t)
    <3>1. /\ Declines("older", t) => D["older"] = {}
          /\ ~Declines("older", t) => \E k : D["older"] = {k} /\ (Meet(s, k) <=> s.cipher = Empty)
      BY <1>4, <1>17, Zenon
    <3> QED BY <3>1, RightOne
  <2>6. Right("oldest", D["oldest"], s, t)
    <3>1. /\ Declines("oldest", t) => D["oldest"] = {}
          /\ ~Declines("oldest", t) => \E k : D["oldest"] = {k} /\ (Meet(s, k) <=> s.cipher = Empty)
      BY <1>4, <1>18, Zenon
    <3> QED BY <3>1, RightOne
  <2>7. Right("import", D["import"], s, t)
    <3>1. /\ Declines("import", t) => D["import"] = {}
          /\ ~Declines("import", t) => \E k : D["import"] = {k} /\ (Meet(s, k) <=> s.cipher = Empty)
      BY <1>4, <1>19, Zenon
    <3> QED BY <3>1, RightOne
  <2> QED BY <2>1, <2>2, <2>3, <2>4, <2>5, <2>6, <2>7
<1> QED BY <1>1, <1>5, <1>6, <1>20, Zenon DEF D
LEMMA ServerDefaultsAre == ServerDefaults \in Records(SUBSET Int)
<1>1. /\ <<>> \in Seq(Words) /\ <<>> \in Seq(Int) /\ 0 \in Nat /\ 0 \in Int /\ 1 \in Int
      /\ 48 \in Int /\ 2 \in Int /\ 20 \in Int /\ {} \in SUBSET Int
  OBVIOUS
<1>2. Empty \in Words /\ AnyAddress \in Words /\ "udp" \in Words /\ "silent" \in Words
  BY Spellings DEF Transports, Modes
<1> HIDE DEF Empty, AnyAddress
<1> QED BY <1>1, <1>2 DEF ServerDefaults, Records

LEMMA InitServerIs ==
  /\ InitServer \in Records(SUBSET Int)
  /\ InitServer.addr = AnyAddress /\ InitServer.seed = "5eed" /\ InitServer.psk = "9512"
  /\ InitServer.generation = 0 /\ InitServer.transport = "udp" /\ InitServer.transports = <<>>
  /\ InitServer.hops = 1 /\ InitServer.spread = 0 /\ InitServer.cipher = Empty
<1>1. ASSUME NEW f \in Records(SUBSET Int), NEW seed \in Words, NEW psk \in Words,
             NEW window \in SUBSET Int
      PROVE  [f EXCEPT !.seed = seed, !.psk = psk, !.window = window] \in Records(SUBSET Int)
  BY DEF Records
<1>2. "5eed" \in Words /\ "9512" \in Words /\ {2} \in SUBSET Int
  BY Spellings DEF Plain
<1>3. InitServer \in Records(SUBSET Int)
  BY <1>1, <1>2, ServerDefaultsAre, Zenon DEF InitServer
<1>4. /\ InitServer.addr = AnyAddress /\ InitServer.seed = "5eed" /\ InitServer.psk = "9512"
      /\ InitServer.generation = 0 /\ InitServer.transport = "udp" /\ InitServer.transports = <<>>
      /\ InitServer.hops = 1 /\ InitServer.spread = 0 /\ InitServer.cipher = Empty
  BY DEF InitServer, ServerDefaults
<1> QED BY <1>3, <1>4, Zenon

LEMMA InitClientIs ==
  /\ Offered(InitClient)
  /\ InitClient.addr = AnyAddress /\ InitClient.seed = "5eed" /\ InitClient.psk = "9512"
  /\ InitClient.generation = 0 /\ InitClient.transport = Empty /\ InitClient.transports = <<>>
  /\ InitClient.hops = 0 /\ InitClient.spread = 0 /\ InitClient.cipher = Empty
<1> DEFINE d == InitClient
<1>1. ASSUME NEW c \in Configs, NEW addr \in Words, NEW seed \in Words, NEW psk \in Words
      PROVE  [c EXCEPT !.addr = addr, !.seed = seed, !.psk = psk] \in Configs
  BY DEF Configs, Records
<1>2. "5eed" \in Words /\ "9512" \in Words /\ AnyAddress \in Words
  BY Spellings DEF Plain
<1>3. d \in Configs
  BY <1>1, <1>2, NoConfigIsOne, Zenon DEF InitClient
<1>4. /\ d.addr = AnyAddress /\ d.seed = "5eed" /\ d.psk = "9512"
      /\ d.generation = 0 /\ d.transport = Empty /\ d.transports = <<>>
      /\ d.hops = 0 /\ d.spread = 0 /\ d.cipher = Empty /\ d.mode = Empty /\ d.buckets = <<>>
      /\ d.mark = Empty
  BY DEF InitClient, NoConfig
<1> HIDE DEF d
<1>5. d.seed \in DOMAIN Bytes /\ d.psk \in DOMAIN Bytes
  BY <1>4, BytesFacts DEF Plain
<1>6. Clean(d.addr) # Empty /\ Clean(d.transport) \in Transports \cup {Empty}
  BY <1>4, CleanFacts, Spellings
<1>7. d.hops \in 0 .. 16 /\ Len(d.transports) = 0 /\ d.cipher \in Ciphers \cup {Empty}
  BY <1>4
<1>8. /\ \A i \in 1 .. Len(d.transports) : d.transports[i] \in Transports
      /\ \A i, j \in 1 .. Len(d.transports) : d.transports[i] = d.transports[j] => i = j
  BY <1>7
<1>9. Offered(d)
  BY <1>3, <1>4, <1>5, <1>6, <1>7, <1>8 DEF Offered
<1> QED BY <1>4, <1>9 DEF d

LEMMA InitFilesMeet == InitMeets
<1> SUFFICES ASSUME NEW s \in Server(InitServer), NEW c \in ClientCore(InitClient)
             PROVE  Meet(s, c)
  BY Zenon DEF InitMeets
<1>1. Bytes["5eed"] = "5eed" /\ Bytes["9512"] = "9512"
  BY BytesFacts DEF Plain
<1>2. /\ s \in Configs /\ s.seed = "5eed" /\ s.psk = "9512" /\ s.addr = AnyAddress
      /\ s.generation = 0 /\ s.hops = AtLeast(1, 1) /\ s.spread = SpreadOf(1, 0) /\ s.cipher = Empty
      /\ s.transports = Listed(InitServer)
  BY <1>1, InitServerIs, ServerServes
<1>3. PICK k : /\ ClientCore(InitClient) = {k}
               /\ k.seed = Bytes[InitClient.seed] /\ k.psk = Bytes[InitClient.psk]
               /\ k.addr = InitClient.addr
               /\ k.generation = InitClient.generation /\ k.hops = AtLeast(1, InitClient.hops)
               /\ k.spread = SpreadOf(InitClient.hops, InitClient.spread)
               /\ k.cipher = InitClient.cipher
               /\ k.transports = ListOf(InitClient)
  BY InitClientIs, CoreDials
<1>4. c = k
  BY <1>3
<1>5. Listed(InitServer) = <<"udp">>
  <2>1. <<>> \in Seq(Words) /\ Len(<<>>) = 0
    OBVIOUS
  <2>2. Distinct(<<>>) = <<>>
    <3> DEFINE q == <<>>
    <3>1. q \in Seq(Words) /\ Len(q) = 0
      BY <2>1
    <3> HIDE DEF q
    <3>2. \A i \in 1 .. Len(q) : FALSE
      BY <3>1
    <3>3. Distinct(q) = q
      BY <3>1, <3>2, DistinctKeeps
    <3> QED BY <3>3 DEF q
  <2>3. Clean("udp") = "udp" /\ "udp" # Empty
    BY CleanFacts, Spellings DEF Transports
  <2> QED BY <2>2, <2>3, InitServerIs DEF Listed
<1>6. ListOf(InitClient) = <<"udp">>
  <2>1. Clean(Empty) = Empty
    BY CleanFacts
  <2> QED BY <2>1, InitClientIs DEF ListOf
<1>7. s.hops = 1 /\ c.hops = 1
  <2>1. AtLeast(1, 1) = 1 /\ AtLeast(1, 0) = 1
    BY DEF AtLeast
  <2> QED BY <1>2, <1>3, <1>4, <2>1, InitClientIs
<1>8. /\ s.generation \in Nat /\ s.window \in Nat /\ s.hops \in 1 .. 16
      /\ c.seed = s.seed /\ c.psk = s.psk /\ c.addr = s.addr /\ c.generation = s.generation
      /\ c.cipher = s.cipher
  <2>1. s.window \in Nat
    BY <1>2 DEF Configs, Records
  <2>2. /\ InitClient.addr = AnyAddress /\ InitClient.seed = "5eed" /\ InitClient.psk = "9512"
        /\ InitClient.generation = 0 /\ InitClient.cipher = Empty
    BY InitClientIs
  <2>3. s.hops \in 1 .. 16 /\ s.generation \in Nat
    BY <1>2, <1>7
  <2> QED BY <1>1, <1>2, <1>3, <1>4, <2>1, <2>2, <2>3
<1>9. ToSet(c.transports) \cap ToSet(s.transports) # {}
  <2>1. "udp" \in ToSet(<<"udp">>)
    BY DEF ToSet
  <2> QED BY <1>2, <1>3, <1>4, <1>5, <1>6, <2>1
<1> QED BY <1>7, <1>8, <1>9, MeetsIf

LEMMA SettingsAlwaysMeet == SettingsMeet
<1>1. ASSUME NEW file \in ServerFiles, NEW s \in Server(file), NEW t \in Told(file, s)
      PROVE  \A end \in DOMAIN Dialing(t, s) : Right(end, Dialing(t, s)[end], s, t)
  <2>1. file \in Records(SUBSET Int)
    BY SettingsAssumption
  <2>2. Deal(s, t) /\ Width(t.spread) = Width(s.spread)
    BY <2>1, ToldIsADeal
  <2> QED BY <2>2, AllAreRight
<1> QED BY <1>1, InitFilesMeet, Zenon DEF SettingsMeet, Right

\* The server of an open session serves what its file says, normalised once: the second
\* NormalizeConfig changes only the decoys of a file that turned them off (NormalizeConfig,
\* chimerad's main, NewServer), for every file whose fields have their types.
THEOREM ServersServeWhatIsWritten == Spec => []ServedAsWritten
<1>1. ServedAsWritten
  BY NormalEverywhere DEF ServedAsWritten
<1> QED BY <1>1, PTL

\* Whatever the server's file says, a front end that was told it dials with settings under
\* which the two meet, or declines to try, and each declines and differs just as Declines and
\* SettingsMeet say (the forms, files, invites and bindings of the three platforms).
THEOREM FrontEndsMeetTheirServer == Spec => []DialsItsServer
<1>1. DialsItsServer
  BY SettingsAlwaysMeet DEF DialsItsServer
<1> QED BY <1>1, PTL

-------------------------------------------------------------------------------
(* Profiles, as the invites have them *)

LEMMA TextFacts ==
  /\ \A x : Trimmed(Trimmed(x)) = Trimmed(x) /\ (Trimmed(x) # NoText => Trimmed(x) = x)
  /\ Trimmed(NoText) = NoText
<1>1. Space # NoText
  BY Zenon DEF Space, NoText
<1> QED BY <1>1 DEF Trimmed

LEMMA DigitsFacts ==
  /\ \A key \in DOMAIN Digits : Digits[key] \in DOMAIN Digits /\ Digits[Digits[key]] = Digits[key]
  /\ "null" \notin DOMAIN Digits /\ NoText \notin DOMAIN Digits
  /\ Trimmed("null") = "null"
<1>1. DOMAIN Digits = {"5eed", "9512", "0x5EED", Indented}
  BY DEF Digits
<1>2. \A key \in {"5eed", "9512", "0x5EED", Indented} :
        Digits[key] = CASE key = "0x5EED" -> "5eed" [] key = Indented -> "9512" [] OTHER -> key
  BY DEF Digits
<1>3. /\ "5eed" # "0x5EED" /\ "5eed" # Indented /\ "9512" # "0x5EED" /\ "9512" # Indented
      /\ "0x5EED" # Indented
  BY Zenon DEF Indented
<1>4. Digits["5eed"] = "5eed" /\ Digits["9512"] = "9512"
  BY <1>2, <1>3, ZenonT(30)
<1>5. Digits["0x5EED"] = "5eed" /\ Digits[Indented] = "9512"
  BY <1>2, <1>3, ZenonT(30)
<1>6. "null" \notin DOMAIN Digits
  BY <1>1, Zenon DEF Indented
<1>7. NoText \notin DOMAIN Digits
  BY <1>1, Zenon DEF Indented, NoText
<1>8. Trimmed("null") = "null"
  <2>1. "null" # Space
    BY Zenon DEF Space
  <2> QED BY <2>1 DEF Trimmed
<1> QED BY <1>1, <1>4, <1>5, <1>6, <1>7, <1>8

LEMMA CanonicalOf ==
  ASSUME NEW a, NEW s, NEW p, NEW g, NEW n
  PROVE  Canonical(Profile(a, s, p, g, n)) =
           IF s \in DOMAIN Digits /\ p \in DOMAIN Digits /\ Trimmed(a) # NoText
           THEN {Profile(Trimmed(a), Digits[s], Digits[p], g, Trimmed(n))} ELSE {}
<1> DEFINE q == Profile(a, s, p, g, n)
<1>1. /\ q.addr = a /\ q.seed = s /\ q.psk = p /\ q.generation = g /\ q.name = n
  BY DEF Profile
<1> HIDE DEF q
<1>3. {q.seed, q.psk} \ DOMAIN Digits # {} <=> ~(s \in DOMAIN Digits /\ p \in DOMAIN Digits)
  BY <1>1
<1>4. Canonical(q) =
           IF s \in DOMAIN Digits /\ p \in DOMAIN Digits /\ Trimmed(a) # NoText
           THEN {Profile(Trimmed(a), Digits[s], Digits[p], g, Trimmed(n))} ELSE {}
  BY <1>1, <1>3, Zenon DEF Canonical
<1> QED BY <1>4 DEF q

\* What is canonical stays as it is.
LEMMA CanonicalAgain ==
  ASSUME NEW a, NEW s, NEW p, NEW g, NEW n, NEW c \in Canonical(Profile(a, s, p, g, n))
  PROVE  /\ c = Profile(c.addr, c.seed, c.psk, c.generation, c.name)
         /\ Canonical(c) = {c} /\ c.addr = Trimmed(a) /\ c.addr # NoText
         /\ s \in DOMAIN Digits /\ c.seed = Digits[s] /\ p \in DOMAIN Digits /\ c.psk = Digits[p]
         /\ c.generation = g /\ Canonical(Profile(a, s, p, g, n)) = {c}
         /\ Trimmed(c.name) = c.name
<1>1. /\ s \in DOMAIN Digits /\ p \in DOMAIN Digits /\ Trimmed(a) # NoText
      /\ c = Profile(Trimmed(a), Digits[s], Digits[p], g, Trimmed(n))
  BY CanonicalOf
<1>2. /\ c.addr = Trimmed(a) /\ c.seed = Digits[s] /\ c.psk = Digits[p] /\ c.generation = g
      /\ c.name = Trimmed(n)
  BY <1>1 DEF Profile
<1>3. c = Profile(c.addr, c.seed, c.psk, c.generation, c.name)
  BY <1>1, <1>2
<1>4. Canonical(Profile(c.addr, c.seed, c.psk, c.generation, c.name)) =
        {Profile(Trimmed(c.addr), Digits[c.seed], Digits[c.psk], c.generation, Trimmed(c.name))}
  BY <1>1, <1>2, CanonicalOf, DigitsFacts, TextFacts
<1>5. Trimmed(c.addr) = c.addr /\ Trimmed(c.name) = c.name
      /\ Digits[c.seed] = c.seed /\ Digits[c.psk] = c.psk
  BY <1>1, <1>2, DigitsFacts, TextFacts
<1>6. Canonical(c) = {c}
  BY <1>3, <1>4, <1>5, Zenon
<1>7. Canonical(Profile(a, s, p, g, n)) = {c}
  BY <1>1, CanonicalOf
<1> QED BY <1>1, <1>2, <1>3, <1>5, <1>6, <1>7

-------------------------------------------------------------------------------
(* Numbers *)

LEMMA SpelledOnce ==
  /\ \A text : \A m, n \in Spelled(text) : m = n
  /\ Spelled(NoText) = {}
<1>1. \A text : \/ Spelled(text) = {3} \/ Spelled(text) = {-1} \/ Spelled(text) = {MaxLong + 1}
                \/ Spelled(text) = {}
  BY ZenonT(30) DEF Spelled
<1>2. Spelled(NoText) = {}
  <2>1. NoText # "3" /\ NoText # "-1" /\ NoText # "2^63"
    BY Zenon DEF NoText
  <2> QED BY <2>1, ZenonT(30) DEF Spelled
<1> QED BY <1>1, <1>2

LEMMA OptLongOf ==
  ASSUME NEW fields, NEW key, NEW default
  PROVE  /\ key \notin DOMAIN fields => OptLong(fields, key, default) = default
         /\ \A n \in Int : key \in DOMAIN fields /\ fields[key] = Num(n) /\ n <= MaxLong
                             => OptLong(fields, key, default) = n
<1>1. ASSUME key \notin DOMAIN fields PROVE OptLong(fields, key, default) = default
  <2>1. Given(fields, key) = {}
    BY <1>1 DEF Given, ValuesOf
  <2> QED BY <2>1 DEF OptLong
<1>2. ASSUME NEW n \in Int, key \in DOMAIN fields, fields[key] = Num(n), n <= MaxLong
      PROVE  OptLong(fields, key, default) = n
  <2>1. Num(n) # Null /\ Num(n).type = "number" /\ Num(n).n = n
    BY DEF Num, Null
  <2>2. Given(fields, key) = {Num(n)}
    BY <1>2, <2>1 DEF Given, ValuesOf
  <2> DEFINE numbers(v) == IF v.type = "number" THEN {v.n} ELSE Spelled(v.text)
             found == UNION {numbers(v) : v \in Given(fields, key)}
  <2>3. numbers(Num(n)) = {n}
    BY <2>1
  <2> HIDE DEF numbers
  <2>4. found = {n}
    BY <2>2, <2>3
  <2>5. OptLong(fields, key, default) =
          IF found = {} THEN default
          ELSE LET m == CHOOSE k \in found : TRUE IN IF m > MaxLong THEN MaxLong ELSE m
    BY DEF OptLong, numbers
  <2> HIDE DEF found
  <2>6. ~(n > MaxLong)
    BY <1>2, InvitesAssumption
  <2>7. (CHOOSE k \in {n} : TRUE) = n
    OBVIOUS
  <2> QED BY <2>4, <2>5, <2>6, <2>7
<1> QED BY <1>1, <1>2
-------------------------------------------------------------------------------
(* What is read at a key *)

GoText(fields) ==
  [k \in Keys |-> IF \E v \in ValuesOf(fields, k) : v.type = "string" THEN fields[k].text
                  ELSE NoText]
KtText(fields) == [k \in Keys |-> OptString(fields, k)]

LEMMA ValueFacts ==
  /\ \A v : IsValue(v) => \/ v.type = "string" /\ v # Null /\ v.type # "number" /\ v = Str(v.text)
                          \/ v.type # "string" /\ v.type = "number" /\ v # Null /\ v.n \in Int
                             /\ v = Num(v.n)
                          \/ v.type # "string" /\ v = Null
  /\ Null.type # "string" /\ Null.type # "number"
<1>1. Null.type = "null" /\ "null" # "string" /\ "null" # "number" /\ "string" # "number"
  BY DEF Null
<1> QED BY <1>1 DEF IsValue

LEMMA OptStringOf ==
  ASSUME NEW fields, NEW key
  PROVE  /\ key \notin DOMAIN fields => OptString(fields, key) = NoText
         /\ key \in DOMAIN fields /\ IsValue(fields[key]) =>
              \/ fields[key].type = "string" /\ OptString(fields, key) = fields[key].text
              \/ fields[key].type # "string" /\ fields[key] = Null
                 /\ OptString(fields, key) = "null"
              \/ fields[key].type # "string" /\ fields[key].type = "number"
                 /\ OptString(fields, key) = Numeral(fields[key].n)
<1>1. ASSUME key \in DOMAIN fields, IsValue(fields[key])
      PROVE  \/ fields[key].type = "string" /\ OptString(fields, key) = fields[key].text
             \/ fields[key].type # "string" /\ fields[key] = Null
                /\ OptString(fields, key) = "null"
             \/ fields[key].type # "string" /\ fields[key].type = "number"
                /\ OptString(fields, key) = Numeral(fields[key].n)
  <2> DEFINE v == fields[key]
  <2>1. OptString(fields, key) = CASE v = Null -> "null" [] v.type = "number" -> Numeral(v.n)
                                   [] OTHER -> v.text
    BY <1>1 DEF OptString
  <2>2. IsValue(v)
    BY <1>1
  <2> HIDE DEF v
  <2>3. \/ v.type = "string" /\ v # Null /\ v.type # "number"
        \/ v.type # "string" /\ v.type = "number" /\ v # Null
        \/ v.type # "string" /\ v = Null
    BY <2>2, ValueFacts
  <2>4. CASE v.type = "string" /\ v # Null /\ v.type # "number"
    <3>1. OptString(fields, key) = v.text
      BY <2>1, <2>4, ZenonT(30)
    <3> QED BY <2>4, <3>1 DEF v
  <2>5. CASE v.type # "string" /\ v.type = "number" /\ v # Null
    <3>1. OptString(fields, key) = Numeral(v.n)
      BY <2>1, <2>5, ZenonT(30)
    <3> QED BY <2>5, <3>1 DEF v
  <2>6. CASE v.type # "string" /\ v = Null
    <3>0. v.type # "number"
      BY <2>6, ValueFacts
    <3>1. OptString(fields, key) = "null"
      BY <2>1, <2>6, <3>0, ZenonT(30)
    <3> QED BY <2>6, <3>1 DEF v
  <2> QED BY <2>3, <2>4, <2>5, <2>6
<1> QED BY <1>1 DEF OptString

LEMMA TextsDiffer ==
  ASSUME NEW fields, \A key \in DOMAIN fields : IsValue(fields[key]), NEW key \in Keys
  PROVE  \/ GoText(fields)[key] = KtText(fields)[key]
         \/ /\ key \in DOMAIN fields /\ fields[key].type # "string"
            /\ GoText(fields)[key] = NoText /\ KtText(fields)[key] = OptString(fields, key)
<1>1. KtText(fields)[key] = OptString(fields, key)
  BY DEF KtText
<1>2. GoText(fields)[key] = IF \E v \in ValuesOf(fields, key) : v.type = "string"
                            THEN fields[key].text ELSE NoText
  BY DEF GoText
<1>3. CASE key \notin DOMAIN fields
  BY <1>1, <1>2, <1>3, OptStringOf DEF ValuesOf
<1>4. CASE key \in DOMAIN fields /\ fields[key].type = "string"
  <2>1. GoText(fields)[key] = fields[key].text
    BY <1>2, <1>4 DEF ValuesOf
  <2> QED BY <1>1, <1>4, <2>1, OptStringOf
<1>5. CASE key \in DOMAIN fields /\ fields[key].type # "string"
  BY <1>1, <1>2, <1>5 DEF ValuesOf
<1> QED BY <1>3, <1>4, <1>5

LEMMA MinOf ==
  ASSUME NEW S, S \subseteq 1 .. 3, S # {}
  PROVE  Min(S) \in S /\ \A i \in S : Min(S) <= i
<1>1. \E m \in S : \A i \in S : m <= i
  <2>1. CASE 1 \in S
    BY <2>1
  <2>2. CASE 1 \notin S /\ 2 \in S
    BY <2>2
  <2>3. CASE 1 \notin S /\ 2 \notin S /\ 3 \in S
    BY <2>3
  <2>4. 1 \in S \/ 2 \in S \/ 3 \in S
    <3>1. PICK x : x \in S
      OBVIOUS
    <3>2. x \in 1 .. 3
      BY <3>1
    <3> QED BY <3>1, <3>2
  <2> QED BY <2>1, <2>2, <2>3, <2>4
<1> QED BY <1>1 DEF Min

\* Of some keys the two clients take the same, or Android what is no text.
LEMMA FirstAlike ==
  ASSUME NEW fields, \A key \in DOMAIN fields : IsValue(fields[key]),
         NEW keys, DOMAIN keys \subseteq 1 .. 3, \A i \in DOMAIN keys : keys[i] \in Keys
  PROVE  LET g == FirstOf(keys, GoText(fields))
             k == FirstOf(keys, KtText(fields))
         IN \/ g = k
            \/ \E i \in DOMAIN keys : /\ keys[i] \in DOMAIN fields
                                      /\ fields[keys[i]].type # "string"
                                      /\ k = Trimmed(OptString(fields, keys[i]))
<1> DEFINE go == GoText(fields)
           kt == KtText(fields)
           G == {i \in DOMAIN keys : Trimmed(go[keys[i]]) # NoText}
           K == {i \in DOMAIN keys : Trimmed(kt[keys[i]]) # NoText}
           g == FirstOf(keys, go)
           k == FirstOf(keys, kt)
<1>1. /\ g = IF G = {} THEN NoText ELSE Trimmed(go[keys[Min(G)]])
      /\ k = IF K = {} THEN NoText ELSE Trimmed(kt[keys[Min(K)]])
  BY Zenon DEF FirstOf
<1>2. \A i \in DOMAIN keys : \/ go[keys[i]] = kt[keys[i]]
                             \/ /\ keys[i] \in DOMAIN fields /\ fields[keys[i]].type # "string"
                                /\ go[keys[i]] = NoText /\ kt[keys[i]] = OptString(fields, keys[i])
  BY TextsDiffer
<1>3. G \subseteq 1 .. 3 /\ K \subseteq 1 .. 3
  OBVIOUS
<1>4. G \subseteq K
  BY <1>2, TextFacts
<1>5. \A i \in K : i \in DOMAIN keys /\ (i \notin G => go[keys[i]] # kt[keys[i]])
  OBVIOUS
<1> HIDE DEF go, kt, G, K, g, k
<1>6. CASE K = {}
  BY <1>1, <1>4, <1>6 DEF g, k, go, kt
<1>7. CASE K # {} /\ Min(K) \in G
  <2>1. Min(K) \in K /\ \A i \in K : Min(K) <= i
    BY <1>3, <1>7, MinOf
  <2>2. Min(G) \in G /\ \A i \in G : Min(G) <= i
    BY <1>3, <1>7, MinOf
  <2>3. Min(G) = Min(K)
    <3>1. Min(G) \in 1 .. 3 /\ Min(K) \in 1 .. 3
      BY <1>3, <2>1, <2>2
    <3>2. Min(G) <= Min(K) /\ Min(K) <= Min(G)
      BY <1>4, <1>7, <2>1, <2>2
    <3> QED BY <3>1, <3>2
  <2>4. Min(K) \in DOMAIN keys
    BY <1>5, <2>1
  <2>5. go[keys[Min(K)]] = kt[keys[Min(K)]] \/ go[keys[Min(K)]] = NoText
    BY <1>2, <2>4
  <2>6. Trimmed(go[keys[Min(K)]]) # NoText
    BY <1>7 DEF G
  <2>7. go[keys[Min(K)]] = kt[keys[Min(K)]]
    BY <2>5, <2>6, TextFacts
  <2>8. g = k
    BY <1>1, <1>7, <2>3, <2>7
  <2> QED BY <2>8 DEF g, k, go, kt
<1>8. CASE K # {} /\ Min(K) \notin G
  <2>1. Min(K) \in K
    BY <1>3, <1>8, MinOf
  <2>2. Min(K) \in DOMAIN keys /\ go[keys[Min(K)]] # kt[keys[Min(K)]]
    BY <1>5, <1>8, <2>1
  <2>3. /\ keys[Min(K)] \in DOMAIN fields /\ fields[keys[Min(K)]].type # "string"
        /\ kt[keys[Min(K)]] = OptString(fields, keys[Min(K)])
    BY <1>2, <2>2
  <2>4. k = Trimmed(OptString(fields, keys[Min(K)]))
    BY <1>1, <1>8, <2>3
  <2> QED BY <2>2, <2>3, <2>4 DEF g, k, go, kt
<1> QED BY <1>6, <1>7, <1>8

LEMMA KeysAre ==
  \A keys \in {AddrKeys, SeedKeys, PskKeys, NameKeys} :
    DOMAIN keys \subseteq 1 .. 3 /\ \A i \in DOMAIN keys : keys[i] \in Keys /\ keys[i] \in ToSet(keys)
<1>1. \A keys \in {AddrKeys, SeedKeys, PskKeys, NameKeys} : DOMAIN keys \subseteq 1 .. 3
  BY DEF AddrKeys, SeedKeys, PskKeys, NameKeys
<1>2. \A keys \in {AddrKeys, SeedKeys, PskKeys, NameKeys} :
        \A i \in DOMAIN keys : keys[i] \in ToSet(keys)
  BY Zenon DEF ToSet
<1>3. \A keys \in {AddrKeys, SeedKeys, PskKeys, NameKeys} : ToSet(keys) \subseteq Keys
  BY DEF Keys
<1> QED BY <1>1, <1>2, <1>3
-------------------------------------------------------------------------------
(* Pasted configurations *)

Values(fields) == \A key \in DOMAIN fields : IsValue(fields[key])

\* The keys are digits to one client only if they are the same to the other.
LEMMA KeysAlike ==
  ASSUME NEW fields, Values(fields), NEW keys \in {SeedKeys, PskKeys},
         \A key \in DOMAIN fields : fields[key].type = "number" =>
                                      Numeral(fields[key].n) \notin DOMAIN Digits,
         FirstOf(keys, KtText(fields)) \in DOMAIN Digits
  PROVE  FirstOf(keys, GoText(fields)) = FirstOf(keys, KtText(fields))
<1> DEFINE g == FirstOf(keys, GoText(fields))
           k == FirstOf(keys, KtText(fields))
<1>1. \/ g = k
      \/ \E i \in DOMAIN keys : /\ keys[i] \in DOMAIN fields /\ fields[keys[i]].type # "string"
                                /\ k = Trimmed(OptString(fields, keys[i]))
  BY FirstAlike, KeysAre DEF Values
<1>2. k \in DOMAIN Digits
  OBVIOUS
<1> HIDE DEF g, k
<1>3. ASSUME NEW i \in DOMAIN keys, keys[i] \in DOMAIN fields, fields[keys[i]].type # "string",
             k = Trimmed(OptString(fields, keys[i]))
      PROVE  FALSE
  <2>1. IsValue(fields[keys[i]])
    BY <1>3 DEF Values
  <2>2. k = OptString(fields, keys[i])
    BY <1>2, <1>3, DigitsFacts, TextFacts
  <2>3. \/ fields[keys[i]] = Null /\ OptString(fields, keys[i]) = "null"
        \/ fields[keys[i]].type = "number" /\ OptString(fields, keys[i]) = Numeral(fields[keys[i]].n)
    BY <1>3, <2>1, OptStringOf
  <2>4. CASE OptString(fields, keys[i]) = "null"
    BY <1>2, <2>2, <2>4, DigitsFacts
  <2>5. CASE fields[keys[i]].type = "number" /\ OptString(fields, keys[i]) = Numeral(fields[keys[i]].n)
    BY <1>2, <1>3, <2>2, <2>5
  <2> QED BY <2>3, <2>4, <2>5
<1>4. g = k
  BY <1>1, <1>3
<1> QED BY <1>4 DEF g, k

LEMMA ObjectOf ==
  ASSUME NEW text, NEW n, NEW c \in OfObject(text, n)
  PROVE  /\ FirstOf(SeedKeys, text) \in DOMAIN Digits /\ c.seed = Digits[FirstOf(SeedKeys, text)]
         /\ FirstOf(PskKeys, text) \in DOMAIN Digits /\ c.psk = Digits[FirstOf(PskKeys, text)]
         /\ c.addr = Trimmed(FirstOf(AddrKeys, text))
  BY CanonicalAgain DEF OfObject

LEMMA ObjectsMeet ==
  ASSUME NEW fields, Values(fields),
         \A key \in DOMAIN fields : fields[key].type = "number" =>
                                      Numeral(fields[key].n) \notin DOMAIN Digits,
         NEW m, NEW n, NEW g \in OfObject(GoText(fields), m), NEW k \in OfObject(KtText(fields), n)
  PROVE  /\ <<g.seed, g.psk>> = <<k.seed, k.psk>>
         /\ g.addr = k.addr \/ k.addr \in Misread(fields)
<1>1. FirstOf(SeedKeys, GoText(fields)) = FirstOf(SeedKeys, KtText(fields))
  BY ObjectOf, KeysAlike
<1>2. FirstOf(PskKeys, GoText(fields)) = FirstOf(PskKeys, KtText(fields))
  BY ObjectOf, KeysAlike
<1>3. g.seed = k.seed /\ g.psk = k.psk
  BY <1>1, <1>2, ObjectOf
<1>4. g.addr = Trimmed(FirstOf(AddrKeys, GoText(fields)))
      /\ k.addr = Trimmed(FirstOf(AddrKeys, KtText(fields)))
  BY ObjectOf
<1>5. \/ FirstOf(AddrKeys, GoText(fields)) = FirstOf(AddrKeys, KtText(fields))
      \/ \E i \in DOMAIN AddrKeys :
           /\ AddrKeys[i] \in DOMAIN fields /\ fields[AddrKeys[i]].type # "string"
           /\ FirstOf(AddrKeys, KtText(fields)) = Trimmed(OptString(fields, AddrKeys[i]))
  BY FirstAlike, KeysAre DEF Values
<1>6. ASSUME NEW i \in DOMAIN AddrKeys,
             AddrKeys[i] \in DOMAIN fields, fields[AddrKeys[i]].type # "string",
             FirstOf(AddrKeys, KtText(fields)) = Trimmed(OptString(fields, AddrKeys[i]))
      PROVE  k.addr \in Misread(fields)
  <2>1. k.addr = Trimmed(OptString(fields, AddrKeys[i]))
    BY <1>4, <1>6, TextFacts
  <2>2. AddrKeys[i] \in ToSet(AddrKeys)
    BY KeysAre
  <2> QED BY <1>6, <2>1, <2>2 DEF Misread
<1> QED BY <1>3, <1>4, <1>5, <1>6

\* The generation in a configuration.
GoNumber(fields) ==
  LET read(v) == CASE v.type = "number" -> IF v.n < 0 THEN {} ELSE {Float(v.n)}
                   [] v = Str(NoText) -> {0}
                   [] OTHER -> GoUint(v.text)
      given == Given(fields, "generation")
  IN IF given = {} THEN {0} ELSE UNION {read(v) : v \in given}

LEMMA GoObjectOf ==
  ASSUME NEW fields
  PROVE  GoObject(fields) = UNION {OfObject(GoText(fields), n) : n \in GoNumber(fields)}
  BY Zenon DEF GoObject, GoText, GoNumber

LEMMA KtObjectOf ==
  ASSUME NEW fields
  PROVE  KtObject(fields) = OfObject(KtText(fields), OptLong(fields, "generation", 0))
  BY Zenon DEF KtObject, KtText

LEMMA GivenOne ==
  ASSUME NEW fields, NEW key
  PROVE  /\ key \notin DOMAIN fields => Given(fields, key) = {}
         /\ key \in DOMAIN fields /\ fields[key].type # "null" => Given(fields, key) = {fields[key]}
         /\ key \in DOMAIN fields /\ fields[key] = Null => Given(fields, key) = {}
  BY DEF Given, ValuesOf, Null

LEMMA NumberOf ==
  ASSUME NEW fields, Values(fields),
         "generation" \in DOMAIN fields =>
           fields["generation"].type = "number" /\ fields["generation"].n \in 0 .. MaxLong
  PROVE  GoNumber(fields) = {Float(OptLong(fields, "generation", 0))}
<1> DEFINE key == "generation"
           v == fields[key]
<1>1. CASE key \notin DOMAIN fields
  <2>1. Given(fields, key) = {}
    BY <1>1, GivenOne
  <2>2. GoNumber(fields) = {0}
    BY <2>1, Zenon DEF GoNumber
  <2>3. OptLong(fields, key, 0) = 0
    BY <1>1, OptLongOf
  <2>4. Float(0) = 0
    BY InvitesAssumption DEF Float
  <2> QED BY <2>2, <2>3, <2>4
<1>2. CASE key \in DOMAIN fields
  <2>1. /\ v.type = "number" /\ v.n \in Int /\ v.n >= 0 /\ v.n <= MaxLong /\ v = Num(v.n)
        /\ v.type # "null"
    <3>1. IsValue(v) /\ v.type = "number" /\ v.n \in 0 .. MaxLong
      BY <1>2 DEF Values
    <3>2. v.n \in Int /\ v = Num(v.n)
      BY <3>1, ValueFacts
    <3> QED BY <3>1, <3>2, InvitesAssumption
  <2>2. Given(fields, key) = {v}
    BY <1>2, <2>1, GivenOne
  <2>3. OptLong(fields, key, 0) = v.n
    BY <1>2, <2>1, OptLongOf
  <2> DEFINE read(w) == CASE w.type = "number" -> IF w.n < 0 THEN {} ELSE {Float(w.n)}
                          [] w = Str(NoText) -> {0}
                          [] OTHER -> GoUint(w.text)
  <2>4. GoNumber(fields) = IF Given(fields, key) = {} THEN {0}
                           ELSE UNION {read(w) : w \in Given(fields, key)}
    BY Zenon DEF GoNumber
  <2>5. v # Str(NoText)
    <3>1. Str(NoText).type = "string" /\ "string" # "number"
      BY DEF Str
    <3> QED BY <2>1, <3>1
  <2>6. read(v) = IF v.n < 0 THEN {} ELSE {Float(v.n)}
    BY <2>1, <2>5, ZenonT(30)
  <2> HIDE DEF read, v, key
  <2>7. (IF v.n < 0 THEN {} ELSE {Float(v.n)}) = {Float(v.n)}
    BY <2>1
  <2>8. GoNumber(fields) = {Float(v.n)}
    BY <2>2, <2>4, <2>6, <2>7
  <2> QED BY <2>3, <2>8 DEF key
<1> QED BY <1>1, <1>2

\* The generation takes no part in whether a profile is accepted.
LEMMA OtherGeneration ==
  ASSUME NEW text, NEW m, NEW n
  PROVE  /\ OfObject(text, m) = {[k EXCEPT !.generation = m] : k \in OfObject(text, n)}
         /\ \A k \in OfObject(text, n) : k.generation = n
<1> DEFINE a == FirstOf(AddrKeys, text)
           s == FirstOf(SeedKeys, text)
           p == FirstOf(PskKeys, text)
           x == FirstOf(NameKeys, text)
           fit == s \in DOMAIN Digits /\ p \in DOMAIN Digits /\ Trimmed(a) # NoText
           Made(g) == Profile(Trimmed(a), Digits[s], Digits[p], g, Trimmed(x))
<1>1. \A g : OfObject(text, g) = IF fit THEN {Made(g)} ELSE {}
  BY CanonicalOf, Zenon DEF OfObject
<1>2. [Made(n) EXCEPT !.generation = m] = Made(m) /\ Made(n).generation = n
  BY DEF Profile
<1> HIDE DEF fit, Made
<1> QED BY <1>1, <1>2

LEMMA OrdinaryObject ==
  ASSUME NEW fields, Values(fields),
         \A key \in DOMAIN fields :
           IF key \in {"g", "generation", "v"}
           THEN fields[key].type = "number" /\ fields[key].n \in 0 .. MaxLong
           ELSE fields[key].type = "string"
  PROVE  GoObject(fields) = {[k EXCEPT !.generation = Float(@)] : k \in KtObject(fields)}
<1>1. \A key \in Keys : key \notin {"g", "generation", "v"}
  BY DEF Keys, AddrKeys, SeedKeys, PskKeys, NameKeys, ToSet
<1>2. \A key \in Keys : GoText(fields)[key] = KtText(fields)[key]
  BY <1>1, TextsDiffer DEF Values
<1>3. GoText(fields) = KtText(fields)
  BY <1>2 DEF GoText, KtText
<1> DEFINE n == OptLong(fields, "generation", 0)
<1>4. GoNumber(fields) = {Float(n)}
  BY NumberOf
<1>5. GoObject(fields) = OfObject(KtText(fields), Float(n))
  <2>1. UNION {OfObject(GoText(fields), m) : m \in {Float(n)}} = OfObject(KtText(fields), Float(n))
    BY <1>3
  <2> QED BY <1>4, <2>1, GoObjectOf
<1>6. KtObject(fields) = OfObject(KtText(fields), n)
  BY KtObjectOf
<1>7. \A k \in OfObject(KtText(fields), n) : k.generation = n
  BY OtherGeneration
<1>8. OfObject(KtText(fields), Float(n)) =
        {[k EXCEPT !.generation = Float(n)] : k \in OfObject(KtText(fields), n)}
  BY OtherGeneration
<1> HIDE DEF n
<1>9. {[k EXCEPT !.generation = Float(n)] : k \in KtObject(fields)} =
      {[k EXCEPT !.generation = Float(@)] : k \in KtObject(fields)}
  BY <1>6, <1>7
<1> QED BY <1>5, <1>6, <1>8, <1>9
-------------------------------------------------------------------------------
(* Links *)

Fits(v, key) ==
  IF key = "g" THEN v.type = "number" /\ v.n >= 0
  ELSE v.type = IF key = "v" THEN "number" ELSE "string"
GoWireNumber(fields, key) ==
  {v.n : v \in Given(fields, key)} \cup IF Given(fields, key) = {} THEN {0} ELSE {}
GoWireText(fields) ==
  [k \in {"a", "s", "p", "n"} |-> IF Given(fields, k) = {} THEN NoText ELSE fields[k].text]
KtWireText(fields) == [k \in {"a", "s", "p", "n"} |-> OptString(fields, k)]
Unfit(fields) ==
  \E key \in DOMAIN fields \cap WireKeys : \E v \in Given(fields, key) : ~Fits(v, key)

LEMMA WiresOf ==
  ASSUME NEW fields
  PROVE  /\ GoWire(fields) =
              IF Unfit(fields) \/ GoWireNumber(fields, "v") \cap {0, 1} = {} THEN {}
              ELSE UNION {OfWire(GoWireText(fields), n) : n \in GoWireNumber(fields, "g")}
         /\ KtWire(fields) =
              IF OptLong(fields, "v", 1) \notin {0, 1} THEN {}
              ELSE OfWire(KtWireText(fields), OptLong(fields, "g", 0))
<1>1. GoWire(fields) =
        IF Unfit(fields) \/ GoWireNumber(fields, "v") \cap {0, 1} = {} THEN {}
        ELSE UNION {OfWire(GoWireText(fields), n) : n \in GoWireNumber(fields, "g")}
  BY Zenon DEF GoWire, Unfit, Fits, GoWireNumber, GoWireText
<1>2. KtWire(fields) = IF OptLong(fields, "v", 1) \notin {0, 1} THEN {}
                       ELSE OfWire(KtWireText(fields), OptLong(fields, "g", 0))
  BY Zenon DEF KtWire, KtWireText
<1> QED BY <1>1, <1>2

\* A text where one belongs is the same to both.
LEMMA WireTextsAlike ==
  ASSUME NEW fields, Values(fields), NEW key \in {"a", "s", "p", "n"},
         key \in DOMAIN fields => fields[key].type = "string"
  PROVE  GoWireText(fields)[key] = KtWireText(fields)[key]
<1>1. /\ GoWireText(fields)[key] = IF Given(fields, key) = {} THEN NoText ELSE fields[key].text
      /\ KtWireText(fields)[key] = OptString(fields, key)
  BY Zenon DEF GoWireText, KtWireText
<1>2. CASE key \notin DOMAIN fields
  BY <1>1, <1>2, GivenOne, OptStringOf
<1>3. CASE key \in DOMAIN fields
  <2>1. fields[key].type = "string" /\ fields[key].type # "null" /\ IsValue(fields[key])
    BY <1>3 DEF Values
  <2>2. Given(fields, key) # {}
    BY <1>3, <2>1, GivenOne
  <2>3. OptString(fields, key) = fields[key].text
    BY <1>3, <2>1, OptStringOf
  <2> QED BY <1>1, <2>2, <2>3
<1> QED BY <1>2, <1>3

LEMMA WireOf ==
  ASSUME NEW text, NEW n, NEW c \in OfWire(text, n)
  PROVE  /\ text["s"] \in DOMAIN Digits /\ c.seed = Digits[text["s"]]
         /\ text["p"] \in DOMAIN Digits /\ c.psk = Digits[text["p"]]
         /\ c.addr = Trimmed(text["a"]) /\ c.addr # NoText
  BY CanonicalAgain DEF OfWire

\* What is no text is no key and no address to the first client.
LEMMA WireMeansText ==
  ASSUME NEW fields, Values(fields), ~Unfit(fields), NEW key \in {"a", "s", "p"},
         GoWireText(fields)[key] # NoText
  PROVE  key \in DOMAIN fields => fields[key].type = "string"
<1>1. SUFFICES ASSUME key \in DOMAIN fields PROVE fields[key].type = "string"
  OBVIOUS
<1>2. GoWireText(fields)[key] = IF Given(fields, key) = {} THEN NoText ELSE fields[key].text
  BY Zenon DEF GoWireText
<1>3. Given(fields, key) # {}
  BY <1>2
<1>4. fields[key].type # "null" \/ fields[key] # Null
  BY <1>1, <1>3, GivenOne
<1>5. Given(fields, key) \subseteq {fields[key]}
  BY <1>1 DEF Given, ValuesOf
<1>6. fields[key] \in Given(fields, key)
  BY <1>3, <1>5
<1>7. key \in WireKeys /\ key # "g" /\ key # "v"
  BY DEF WireKeys
<1>8. Fits(fields[key], key)
  BY <1>1, <1>6, <1>7 DEF Unfit
<1> QED BY <1>7, <1>8 DEF Fits

LEMMA WiresMeet ==
  ASSUME NEW fields, Values(fields), NEW g \in GoWire(fields), NEW k \in KtWire(fields)
  PROVE  <<g.seed, g.psk>> = <<k.seed, k.psk>> /\ g.addr = k.addr
<1>1. ~Unfit(fields)
  BY WiresOf
<1>2. PICK m : g \in OfWire(GoWireText(fields), m)
  BY <1>1, WiresOf
<1>3. PICK n : k \in OfWire(KtWireText(fields), n)
  BY WiresOf
<1>4. /\ GoWireText(fields)["s"] # NoText /\ GoWireText(fields)["p"] # NoText
      /\ GoWireText(fields)["a"] # NoText
  BY <1>2, WireOf, DigitsFacts, TextFacts
<1>5. \A key \in {"a", "s", "p"} : GoWireText(fields)[key] = KtWireText(fields)[key]
  <2>1. SUFFICES ASSUME NEW key \in {"a", "s", "p"}
                 PROVE  GoWireText(fields)[key] = KtWireText(fields)[key]
    OBVIOUS
  <2>2. GoWireText(fields)[key] # NoText
    BY <1>4
  <2>3. key \in DOMAIN fields => fields[key].type = "string"
    BY <1>1, <2>2, WireMeansText
  <2> QED BY <2>3, WireTextsAlike
<1> QED BY <1>2, <1>3, <1>5, WireOf

\* A number where one belongs.
LEMMA WireNumberOf ==
  ASSUME NEW fields, Values(fields), NEW key, NEW default \in Nat,
         key \in DOMAIN fields => fields[key].type = "number" /\ fields[key].n \in 0 .. MaxLong
  PROVE  /\ key \notin DOMAIN fields => GoWireNumber(fields, key) = {0}
                                        /\ OptLong(fields, key, default) = default
         /\ key \in DOMAIN fields => /\ GoWireNumber(fields, key) = {fields[key].n}
                                     /\ OptLong(fields, key, default) = fields[key].n
                                     /\ fields[key].n >= 0
<1>1. CASE key \notin DOMAIN fields
  <2>1. Given(fields, key) = {}
    BY <1>1, GivenOne
  <2> QED BY <1>1, <2>1, OptLongOf DEF GoWireNumber
<1>2. CASE key \in DOMAIN fields
  <2> DEFINE v == fields[key]
  <2>1. /\ v.type = "number" /\ v.n \in Int /\ v.n >= 0 /\ v.n <= MaxLong /\ v = Num(v.n)
        /\ v.type # "null"
    <3>1. IsValue(v) /\ v.type = "number" /\ v.n \in 0 .. MaxLong
      BY <1>2 DEF Values
    <3>2. v.n \in Int /\ v = Num(v.n)
      BY <3>1, ValueFacts
    <3> QED BY <3>1, <3>2, InvitesAssumption
  <2>2. Given(fields, key) = {v}
    BY <1>2, <2>1, GivenOne
  <2>3. OptLong(fields, key, default) = v.n
    BY <1>2, <2>1, OptLongOf
  <2>4. GoWireNumber(fields, key) = {v.n}
    BY <2>2 DEF GoWireNumber
  <2> QED BY <1>2, <2>1, <2>3, <2>4
<1> QED BY <1>1, <1>2

\* The values that belong at a link's keys.
LinkShaped(fields) ==
  \A key \in DOMAIN fields \cap WireKeys :
    IF key \in {"g", "v"} THEN fields[key].type = "number" /\ fields[key].n \in 0 .. MaxLong
    ELSE fields[key].type = "string"

LEMMA PlainFits ==
  ASSUME NEW fields, Values(fields), LinkShaped(fields) PROVE ~Unfit(fields)
<1>1. SUFFICES ASSUME NEW key \in DOMAIN fields \cap WireKeys, NEW v \in Given(fields, key)
               PROVE  Fits(v, key)
  BY DEF Unfit
<1>2. v = fields[key]
  BY DEF Given, ValuesOf
<1>3. IF key \in {"g", "v"} THEN v.type = "number" /\ v.n \in 0 .. MaxLong
      ELSE v.type = "string"
  BY <1>2 DEF LinkShaped
<1>4. key = "g" => v.n >= 0
  <2>1. key = "g" => IsValue(v) /\ v.type = "number" /\ v.n \in 0 .. MaxLong
    BY <1>2, <1>3 DEF Values
  <2>2. key = "g" => v.n \in Int
    BY <2>1, ValueFacts
  <2> QED BY <2>1, <2>2, InvitesAssumption
<1> QED BY <1>3, <1>4 DEF Fits

LEMMA PlainWire ==
  ASSUME NEW fields, Values(fields), LinkShaped(fields)
  PROVE  GoWire(fields) = KtWire(fields)
<1>1. ~Unfit(fields)
  BY PlainFits
<1>2. GoWireText(fields) = KtWireText(fields)
  <2>1. \A key \in {"a", "s", "p", "n"} :
          key \in WireKeys /\ key \notin {"g", "v"}
    BY DEF WireKeys
  <2>2. \A key \in {"a", "s", "p", "n"} : GoWireText(fields)[key] = KtWireText(fields)[key]
    BY <2>1, WireTextsAlike DEF LinkShaped
  <2> QED BY <2>2 DEF GoWireText, KtWireText
<1>3. \A key \in {"g", "v"} : key \in WireKeys
  BY DEF WireKeys
<1>4. \A key \in {"g", "v"} : key \in DOMAIN fields =>
        fields[key].type = "number" /\ fields[key].n \in 0 .. MaxLong
  BY <1>3 DEF LinkShaped
<1>5. GoWireNumber(fields, "g") = {OptLong(fields, "g", 0)}
  BY <1>4, WireNumberOf
<1>6. GoWireNumber(fields, "v") \cap {0, 1} = {} <=> OptLong(fields, "v", 1) \notin {0, 1}
  BY <1>4, WireNumberOf
<1>7. UNION {OfWire(GoWireText(fields), n) : n \in GoWireNumber(fields, "g")} =
        OfWire(KtWireText(fields), OptLong(fields, "g", 0))
  BY <1>2, <1>5
<1> QED BY <1>1, <1>6, <1>7, WiresOf

-------------------------------------------------------------------------------
(* Queries *)

LEMMA QueryOf ==
  ASSUME NEW param, NEW n, NEW c \in OfQuery(param, n)
  PROVE  /\ c.seed = Digits[FirstOf(<<"seed", "seedHex">>, param)]
         /\ c.psk = Digits[FirstOf(<<"psk", "pskHex">>, param)]
         /\ c.addr = Trimmed(FirstOf(<<"addr", "server", "serverAddr">>, param))
  BY CanonicalAgain DEF OfQuery

LEMMA QueriesOf ==
  ASSUME NEW fields
  PROVE  /\ GoQuery(fields) =
              UNION {OfQuery(Param(fields), n) :
                     n \in IF FirstOf(<<"generation", "g">>, Param(fields)) = NoText THEN {0}
                           ELSE GoUint(FirstOf(<<"generation", "g">>, Param(fields)))}
         /\ KtQuery(fields) =
              UNION {OfQuery(Param(fields), n) :
                     n \in KtLong(FirstOf(<<"generation", "g">>, Param(fields)))}
  BY Zenon DEF GoQuery, KtQuery

LEMMA QueriesMeet ==
  ASSUME NEW fields, NEW g \in GoQuery(fields), NEW k \in KtQuery(fields)
  PROVE  <<g.seed, g.psk>> = <<k.seed, k.psk>> /\ g.addr = k.addr
<1>1. PICK m : g \in OfQuery(Param(fields), m)
  BY QueriesOf
<1>2. PICK n : k \in OfQuery(Param(fields), n)
  BY QueriesOf
<1> QED BY <1>1, <1>2, QueryOf

\* A generation both read the same.
LEMMA NumbersAlike ==
  ASSUME NEW text, text = NoText \/ Spelled(text) \cap 0 .. MaxLong # {}
  PROVE  (IF text = NoText THEN {0} ELSE GoUint(text)) = KtLong(text)
<1>1. CASE text = NoText
  <2>1. KtLong(NoText) = {0}
    <3>1. {n \in Spelled(NoText) : n <= MaxLong} = {}
      BY SpelledOnce
    <3> QED BY <3>1 DEF KtLong
  <2> QED BY <1>1, <2>1
<1>2. CASE text # NoText
  <2>1. PICK n : n \in Spelled(text) /\ n \in 0 .. MaxLong
    BY <1>2
  <2>2. Spelled(text) = {n}
    BY <2>1, SpelledOnce
  <2>3. n \in Int /\ 0 <= n /\ n <= MaxLong
    BY <2>1, InvitesAssumption
  <2>4. GoUint(text) = {n}
    BY <2>2, <2>3 DEF GoUint
  <2>5. KtLong(text) = {n}
    <3>1. {m \in Spelled(text) : m <= MaxLong} = {n}
      BY <2>2, <2>3
    <3>2. {n} # {}
      OBVIOUS
    <3> QED BY <3>1, <3>2, Zenon DEF KtLong
  <2> QED BY <1>2, <2>4, <2>5
<1> QED BY <1>1, <1>2

LEMMA OrdinaryQuery ==
  ASSUME NEW fields,
         \A key \in DOMAIN fields : key \in {"g", "generation"} =>
           fields[key].text = NoText \/ Spelled(fields[key].text) \cap 0 .. MaxLong # {}
  PROVE  GoQuery(fields) = KtQuery(fields)
<1> DEFINE keys == <<"generation", "g">>
           param == Param(fields)
           text == FirstOf(keys, param)
           filled == {i \in DOMAIN keys : Trimmed(param[keys[i]]) # NoText}
<1>1. \A key \in {"g", "generation"} :
        param[key] = IF key \in DOMAIN fields THEN fields[key].text ELSE NoText
  BY Zenon DEF Param
<1>2. \A key \in {"g", "generation"} :
        param[key] = NoText \/ Spelled(param[key]) \cap 0 .. MaxLong # {}
  BY <1>1
<1>3. \A i \in DOMAIN keys : keys[i] \in {"g", "generation"}
  OBVIOUS
<1>4. DOMAIN keys \subseteq 1 .. 3
  OBVIOUS
<1>5. text = IF filled = {} THEN NoText ELSE Trimmed(param[keys[Min(filled)]])
  BY Zenon DEF FirstOf
<1> HIDE DEF keys, param
<1>6. text = NoText \/ Spelled(text) \cap 0 .. MaxLong # {}
  <2>1. CASE filled = {}
    BY <1>5, <2>1
  <2>2. CASE filled # {}
    <3>1. Min(filled) \in filled
      BY <1>4, <2>2, MinOf
    <3>2. text = param[keys[Min(filled)]] /\ text # NoText
      BY <1>5, <2>2, <3>1, TextFacts
    <3>3. keys[Min(filled)] \in {"g", "generation"}
      BY <1>3, <3>1
    <3> HIDE DEF text, filled
    <3> QED BY <1>2, <3>2, <3>3
  <2> QED BY <2>1, <2>2
<1> HIDE DEF text
<1>7. (IF text = NoText THEN {0} ELSE GoUint(text)) = KtLong(text)
  BY <1>6, NumbersAlike
<1>8. /\ GoQuery(fields) = UNION {OfQuery(param, n) : n \in IF text = NoText THEN {0}
                                                            ELSE GoUint(text)}
      /\ KtQuery(fields) = UNION {OfQuery(param, n) : n \in KtLong(text)}
  BY QueriesOf DEF text, keys, param
<1> QED BY <1>7, <1>8
-------------------------------------------------------------------------------
(* What is shared, and what is pasted *)

\* A profile in a link comes back as its canonical form.
LEMMA LinkReadBack ==
  ASSUME NEW p \in Profiles, NEW link \in Format(p)
  PROVE  {GoParse(link), KtParse(link)} = {Canonical(p)}
<1>1. PICK c \in Canonical(p) :
        link = [form |-> "v1",
                fields |-> [key \in {k \in WireKeys : k = "n" => c.name # NoText} |->
                              Written(c)[key]]]
  BY Zenon DEF Format
<1>2. p = Profile(p.addr, p.seed, p.psk, p.generation, p.name) /\ p.generation \in 0 .. MaxLong
  BY InvitesAssumption
<1>3. /\ c = Profile(c.addr, c.seed, c.psk, c.generation, c.name)
      /\ Canonical(c) = {c} /\ Canonical(p) = {c} /\ c.generation = p.generation
  BY <1>2, CanonicalAgain
<1> DEFINE fields == [key \in {k \in WireKeys : k = "n" => c.name # NoText} |-> Written(c)[key]]
<1>4. /\ Written(c)["v"] = Num(1) /\ Written(c)["a"] = Str(c.addr)
      /\ Written(c)["s"] = Str(c.seed) /\ Written(c)["p"] = Str(c.psk)
      /\ Written(c)["g"] = Num(c.generation) /\ Written(c)["n"] = Str(c.name)
  BY DEF Written
<1>5. /\ \A key \in DOMAIN fields : fields[key] = Written(c)[key]
      /\ DOMAIN fields = {k \in WireKeys : k = "n" => c.name # NoText}
  OBVIOUS
<1> HIDE DEF fields
<1>6. {k \in WireKeys : k = "n" => c.name # NoText} =
        IF c.name = NoText THEN {"v", "a", "s", "p", "g"} ELSE {"v", "a", "s", "p", "g", "n"}
  BY DEF WireKeys
<1>7. /\ {"v", "a", "s", "p", "g"} \subseteq DOMAIN fields
      /\ fields["v"] = Num(1) /\ fields["a"] = Str(c.addr) /\ fields["s"] = Str(c.seed)
      /\ fields["p"] = Str(c.psk) /\ fields["g"] = Num(c.generation)
  BY <1>4, <1>5, <1>6
<1>8. /\ c.name = NoText => DOMAIN fields = {"v", "a", "s", "p", "g"}
      /\ c.name # NoText => /\ DOMAIN fields = {"v", "a", "s", "p", "g", "n"}
                            /\ fields["n"] = Str(c.name)
  BY <1>4, <1>5, <1>6
<1>9. /\ \A x : Str(x).type = "string" /\ Str(x).text = x
      /\ \A n : Num(n).type = "number" /\ Num(n).n = n
      /\ "string" # "number" /\ "string" # "null"
  BY DEF Str, Num
<1>10. /\ \A key \in DOMAIN fields :
            \/ key = "v" \/ key = "g"
            \/ key \in {"a", "s", "p", "n"} /\ fields[key].type = "string"
               /\ fields[key] = Str(fields[key].text)
  BY <1>7, <1>8, <1>9
<1>11. Values(fields)
  <2>1. c.generation \in Int /\ 1 \in Int
    BY <1>2, <1>3, InvitesAssumption
  <2>2. IsValue(fields["v"]) /\ IsValue(fields["g"])
    BY <1>7, <1>9, <2>1 DEF IsValue
  <2> QED BY <1>10, <2>2 DEF Values, IsValue
<1>12. LinkShaped(fields)
  <2>1. 1 \in 0 .. MaxLong /\ c.generation \in 0 .. MaxLong
    BY <1>2, <1>3, InvitesAssumption
  <2>2. /\ fields["v"].type = "number" /\ fields["v"].n = 1
        /\ fields["g"].type = "number" /\ fields["g"].n = c.generation
    BY <1>7, <1>9
  <2>3. \A key \in {"a", "s", "p", "n"} : key \notin {"g", "v"}
    OBVIOUS
  <2> QED BY <1>10, <2>1, <2>2, <2>3 DEF LinkShaped
<1>13. GoWire(fields) = KtWire(fields)
  BY <1>11, <1>12, PlainWire
<1>14. KtWire(fields) = {c}
  <2>1. OptLong(fields, "v", 1) = 1 /\ OptLong(fields, "g", 0) = c.generation
    <3>1. 1 \in Int /\ 1 <= MaxLong /\ c.generation \in Int /\ c.generation <= MaxLong
      BY <1>2, <1>3, InvitesAssumption
    <3>2. "v" \in DOMAIN fields /\ "g" \in DOMAIN fields
      BY <1>7
    <3>3. OptLong(fields, "v", 1) = 1
      <4>1. \A n \in Int : n <= MaxLong /\ fields["v"] = Num(n) => OptLong(fields, "v", 1) = n
        BY <3>2, OptLongOf
      <4> QED BY <1>7, <3>1, <4>1
    <3>4. OptLong(fields, "g", 0) = c.generation
      <4>1. \A n \in Int : n <= MaxLong /\ fields["g"] = Num(n) => OptLong(fields, "g", 0) = n
        BY <3>2, OptLongOf
      <4> QED BY <1>7, <3>1, <4>1
    <3> QED BY <3>3, <3>4
  <2>2. /\ OptString(fields, "a") = c.addr /\ OptString(fields, "s") = c.seed
        /\ OptString(fields, "p") = c.psk
    BY <1>7, <1>9, <1>11, OptStringOf DEF Values
  <2>3. OptString(fields, "n") = c.name
    BY <1>8, <1>9, <1>11, OptStringOf DEF Values
  <2>4. /\ KtWireText(fields)["a"] = c.addr /\ KtWireText(fields)["s"] = c.seed
        /\ KtWireText(fields)["p"] = c.psk /\ KtWireText(fields)["n"] = c.name
    BY <2>2, <2>3 DEF KtWireText
  <2>5. OfWire(KtWireText(fields), c.generation) = Canonical(c)
    BY <1>3, <2>4, Zenon DEF OfWire
  <2> QED BY <1>3, <2>1, <2>5, WiresOf
<1>15. link.form = "v1" /\ link.fields = fields
  BY <1>1 DEF fields
<1>16. GoParse(link) = GoWire(fields) /\ KtParse(link) = KtWire(fields)
  BY <1>15, ZenonT(30) DEF GoParse, KtParse
<1> QED BY <1>3, <1>13, <1>14, <1>16

LEMMA ParseOf ==
  ASSUME NEW text \in Texts
  PROVE  /\ Values(text.fields)
         /\ \A key \in DOMAIN text.fields : text.fields[key].type = "number" =>
              Numeral(text.fields[key].n) \notin DOMAIN Digits
         /\ \/ text.form = "v1" /\ GoParse(text) = GoWire(text.fields)
               /\ KtParse(text) = KtWire(text.fields)
            \/ text.form = "connect" /\ GoParse(text) = GoQuery(text.fields)
               /\ KtParse(text) = KtQuery(text.fields)
               /\ \A key \in DOMAIN text.fields : text.fields[key].type = "string"
            \/ text.form = "json" /\ GoParse(text) = GoObject(text.fields)
               /\ KtParse(text) = KtObject(text.fields)
            \/ text.form = "other" /\ GoParse(text) = {} /\ KtParse(text) = {}
<1>1. IsText(text)
  BY InvitesAssumption
<1>2. text.form \in Forms
  BY <1>1 DEF IsText
<1>3. \/ text.form = "v1" \/ text.form = "connect" \/ text.form = "json" \/ text.form = "other"
  BY <1>2 DEF Forms
<1>4. /\ "v1" # "connect" /\ "v1" # "json" /\ "v1" # "other" /\ "connect" # "json"
      /\ "connect" # "other" /\ "json" # "other"
  OBVIOUS
<1>5. \/ text.form = "v1" /\ GoParse(text) = GoWire(text.fields)
         /\ KtParse(text) = KtWire(text.fields)
      \/ text.form = "connect" /\ GoParse(text) = GoQuery(text.fields)
         /\ KtParse(text) = KtQuery(text.fields)
      \/ text.form = "json" /\ GoParse(text) = GoObject(text.fields)
         /\ KtParse(text) = KtObject(text.fields)
      \/ text.form = "other" /\ GoParse(text) = {} /\ KtParse(text) = {}
  BY <1>3, <1>4, ZenonT(60) DEF GoParse, KtParse
<1>6. /\ Values(text.fields)
      /\ \A key \in DOMAIN text.fields : text.fields[key].type = "number" =>
           Numeral(text.fields[key].n) \notin DOMAIN Digits
      /\ text.form = "connect" => \A key \in DOMAIN text.fields : text.fields[key].type = "string"
  BY <1>1 DEF IsText, Values
<1> QED BY <1>5, <1>6

LEMMA OrdinaryAlike ==
  ASSUME NEW text \in Texts, Ordinary(text)
  PROVE  GoParse(text) = {Rounded(text, k) : k \in KtParse(text)}
<1> DEFINE fields == text.fields
<1>1. \A key \in DOMAIN fields :
        IF key \in {"g", "generation", "v"} /\ text.form # "connect"
        THEN fields[key].type = "number" /\ fields[key].n \in 0 .. MaxLong
        ELSE /\ fields[key].type = "string"
             /\ key \in {"g", "generation"} =>
                  fields[key].text = NoText \/ Spelled(fields[key].text) \cap 0 .. MaxLong # {}
  BY DEF Ordinary, ValuesOf, GenerationKeys
<1>2. CASE /\ text.form = "v1" /\ GoParse(text) = GoWire(fields)
           /\ KtParse(text) = KtWire(fields)
  <2>1. LinkShaped(fields)
    <3>1. \A key \in WireKeys : key \in {"g", "v"} \/ key \notin {"g", "generation", "v"}
      BY DEF WireKeys
    <3> QED BY <1>1, <1>2, <3>1 DEF LinkShaped
  <2>2. GoParse(text) = KtParse(text)
    BY <1>2, <2>1, ParseOf, PlainWire
  <2>3. \A k : Rounded(text, k) = k
    BY <1>2 DEF Rounded
  <2> QED BY <2>2, <2>3
<1>3. CASE text.form = "connect" /\ GoParse(text) = GoQuery(fields)
           /\ KtParse(text) = KtQuery(fields)
  <2>1. GoParse(text) = KtParse(text)
    BY <1>1, <1>3, OrdinaryQuery
  <2>2. \A k : Rounded(text, k) = k
    BY <1>3 DEF Rounded
  <2> QED BY <2>1, <2>2
<1>4. CASE text.form = "json" /\ GoParse(text) = GoObject(fields)
           /\ KtParse(text) = KtObject(fields)
  <2>1. text.form # "connect"
    BY <1>4
  <2>2. GoParse(text) = {[k EXCEPT !.generation = Float(@)] : k \in KtParse(text)}
    BY <1>1, <1>4, <2>1, ParseOf, OrdinaryObject
  <2>3. \A k : Rounded(text, k) = [k EXCEPT !.generation = Float(@)]
    BY <1>4 DEF Rounded
  <2> QED BY <2>2, <2>3
<1>5. CASE GoParse(text) = {} /\ KtParse(text) = {}
  BY <1>5
<1> QED BY <1>2, <1>3, <1>4, <1>5, ParseOf

LEMMA BothAccept ==
  ASSUME NEW text \in Texts, NEW g \in GoParse(text), NEW k \in KtParse(text)
  PROVE  /\ <<g.seed, g.psk>> = <<k.seed, k.psk>>
         /\ g.addr = k.addr \/ k.addr \in Misread(text.fields)
<1> DEFINE fields == text.fields
<1>1. CASE GoParse(text) = GoWire(fields) /\ KtParse(text) = KtWire(fields)
  BY <1>1, ParseOf, WiresMeet
<1>2. CASE GoParse(text) = GoQuery(fields) /\ KtParse(text) = KtQuery(fields)
  BY <1>2, QueriesMeet
<1>3. CASE GoParse(text) = GoObject(fields) /\ KtParse(text) = KtObject(fields)
  <2>1. PICK m : g \in OfObject(GoText(fields), m)
    BY <1>3, GoObjectOf
  <2>2. k \in OfObject(KtText(fields), OptLong(fields, "generation", 0))
    BY <1>3, KtObjectOf
  <2> QED BY <2>1, <2>2, ParseOf, ObjectsMeet
<1> QED BY <1>1, <1>2, <1>3, ParseOf

\* The clients read an invitation alike, whatever is pasted or shared.
LEMMA Agreed == InvitesAgree
  BY LinkReadBack, OrdinaryAlike, BothAccept, Zenon DEF InvitesAgree

\* Whatever is pasted and whatever is shared, the two readers of invites agree: a link made by
\* one is the canonical profile to both, ordinary texts give both the same but for the rounding
\* of a pasted object's generation, and strange ones never other keys (internal/invite's Parse and Format, Invite.kt).
THEOREM InvitesAreReadAlike == Spec => []InvitedAlike
<1>1. InvitedAlike
  BY Agreed DEF InvitedAlike
<1> QED BY <1>1, PTL

-------------------------------------------------------------------------------
(* The routes of a host *)

\* Where the narrowest network an address is in is N, its packets go by the routes to N
\* that cost least (Ways).
LEMMA WaysTo ==
  ASSUME NEW routes, NEW address, NEW N,
         address \in N, \E r \in routes : r.to = N,
         \A r \in routes : address \in r.to => N \subseteq r.to
  PROVE  Ways(routes, address) =
           {r.by : r \in {l \in routes : l.to = N /\ \A q \in routes : q.to = N => l.metric <= q.metric}}
<1> DEFINE matching == {r \in routes : address \in r.to}
<1> DEFINE longest == {r \in matching : \A q \in matching : r.to \subseteq q.to}
<1>1. longest = {r \in routes : r.to = N}
  <2>1. ASSUME NEW r \in longest PROVE r \in routes /\ r.to = N
    <3>1. r \in routes /\ address \in r.to /\ \A q \in matching : r.to \subseteq q.to
      OBVIOUS
    <3>2. PICK q \in routes : q.to = N
      OBVIOUS
    <3>3. r.to \subseteq N
      BY <3>1, <3>2
    <3> QED BY <3>1, <3>3
  <2>2. ASSUME NEW r \in routes, r.to = N PROVE r \in longest
    BY <2>2
  <2> QED BY <2>1, <2>2
<1> HIDE DEF longest
<1>2. Ways(routes, address) = {r.by : r \in {l \in longest : \A q \in longest : l.metric <= q.metric}}
  BY DEF Ways, longest
<1>3. {l \in longest : \A q \in longest : l.metric <= q.metric} =
      {l \in routes : l.to = N /\ \A q \in routes : q.to = N => l.metric <= q.metric}
  BY <1>1
<1> QED BY <1>2, <1>3

\* N is the narrowest network of an address, and by the only way there, at one cost.
Leads(routes, address, N, by, metric) ==
  /\ address \in N /\ metric \in Nat
  /\ \E r \in routes : r.to = N
  /\ \A r \in routes : address \in r.to => N \subseteq r.to
  /\ \A r \in routes : r.to = N => r.by = by /\ r.metric = metric

LEMMA OneWay ==
  ASSUME NEW routes, NEW address, NEW N, NEW by, NEW metric, Leads(routes, address, N, by, metric)
  PROVE  Ways(routes, address) = {by}
<1> USE DEF Leads
<1> DEFINE least == {l \in routes : l.to = N /\ \A q \in routes : q.to = N => l.metric <= q.metric}
<1>1. Ways(routes, address) = {r.by : r \in least}
  BY WaysTo
<1>2. least = {l \in routes : l.to = N}
  <2> SUFFICES ASSUME NEW l \in routes, l.to = N, NEW q \in routes, q.to = N PROVE l.metric <= q.metric
    OBVIOUS
  <2>1. l.metric = metric /\ q.metric = metric
    OBVIOUS
  <2> QED BY <2>1
<1> HIDE DEF least
<1>3. \A r \in least : r.by = by
  BY <1>2
<1>4. \E r \in least : TRUE
  BY <1>2
<1> QED BY <1>1, <1>3, <1>4

-------------------------------------------------------------------------------
(* Before the takeover *)

Gateways(h) == {a \in Up(h) : h.adapters[a].gateway}

\* A network that is within a half, and an address of it.
LEMMA InItsHalf ==
  ASSUME NEW N, Within(N), NEW address \in N, NEW half \in Halves, address \in half
  PROVE  /\ N \subseteq half /\ N # half /\ ~(half \subseteq N)
         /\ N \subseteq Everywhere /\ N # Everywhere /\ ~(Everywhere \subseteq N)
<1>1. PICK other \in Halves : N \subseteq other /\ N # other
  BY DEF Within
<1>2. other = half
  BY <1>1, RoutesAssumption DEF Apart
<1>3. half \subseteq Everywhere
  BY RoutesAssumption
<1> QED BY <1>1, <1>2, <1>3

LEMMA HasItsHalf ==
  ASSUME NEW N, Within(N), NEW address \in N
  PROVE  \E half \in Halves : address \in half
BY DEF Within

LEMMA WithinAll ==
  ASSUME NEW N, Within(N), NEW address \in N
  PROVE  N \subseteq Everywhere /\ N # Everywhere /\ ~(Everywhere \subseteq N)
BY InItsHalf, HasItsHalf

LEMMA AdapterOf ==
  ASSUME NEW h, IsHost(h), NEW a \in Up(h)
  PROVE  /\ h.adapters[a].metric \in Nat /\ Within(h.adapters[a].onLink)
         /\ h.adapters[a].onLink # {h.server}
         /\ \A b \in Up(h) : \/ h.adapters[a].onLink = h.adapters[b].onLink
                             \/ Apart(h.adapters[a].onLink, h.adapters[b].onLink)
BY DEF IsHost, Up

LEMMA RoutesBefore ==
  ASSUME NEW h, NEW r \in Before(h)
  PROVE  \/ \E a \in Up(h) : r = Route(h.adapters[a].onLink, a, h.adapters[a].metric)
         \/ \E a \in Gateways(h) : r = Route(Everywhere, a, h.adapters[a].metric)
BY DEF Before, Gateways

LEMMA AreBefore ==
  ASSUME NEW h
  PROVE  /\ \A a \in Up(h) : Route(h.adapters[a].onLink, a, h.adapters[a].metric) \in Before(h)
         /\ \A a \in Gateways(h) : Route(Everywhere, a, h.adapters[a].metric) \in Before(h)
BY DEF Before, Gateways

\* The narrowest network of an address is N, and there the ways are those of adapters.
Among(routes, address, N, h, adapters) ==
  /\ address \in N
  /\ \E r \in routes : r.to = N
  /\ \A r \in routes : address \in r.to => N \subseteq r.to
  /\ \A r \in routes : r.to = N => r.by \in adapters /\ r.metric = h.adapters[r.by].metric
  /\ \A b \in adapters : \E r \in routes : r.to = N /\ r.by = b /\ r.metric = h.adapters[b].metric

\* Then the best of them is taken.
LEMMA BestWay ==
  ASSUME NEW routes, NEW address, NEW N, NEW h, NEW adapters, Among(routes, address, N, h, adapters)
  PROVE  Ways(routes, address) = Best(h, adapters)
<1> USE DEF Among
<1> DEFINE least == {l \in routes : l.to = N /\ \A q \in routes : q.to = N => l.metric <= q.metric}
<1>1. Ways(routes, address) = {r.by : r \in least}
  BY WaysTo
<1>2. {r.by : r \in least} \subseteq Best(h, adapters)
  <2> SUFFICES ASSUME NEW r \in least, NEW b \in adapters
               PROVE  r.by \in adapters /\ h.adapters[r.by].metric <= h.adapters[b].metric
    BY DEF Best
  <2>1. PICK q \in routes : q.to = N /\ q.metric = h.adapters[b].metric
    OBVIOUS
  <2> QED BY <2>1
<1>3. Best(h, adapters) \subseteq {r.by : r \in least}
  <2> SUFFICES ASSUME NEW b \in Best(h, adapters) PROVE \E r \in least : r.by = b
    OBVIOUS
  <2>1. b \in adapters /\ \A c \in adapters : h.adapters[b].metric <= h.adapters[c].metric
    BY DEF Best
  <2>2. PICK r \in routes : r.to = N /\ r.by = b /\ r.metric = h.adapters[b].metric
    BY <2>1
  <2>3. ASSUME NEW q \in routes, q.to = N PROVE r.metric <= q.metric
    BY <2>1, <2>2, <2>3
  <2> QED BY <2>2, <2>3
<1> QED BY <1>1, <1>2, <1>3

\* What is on the network of an adapter goes by such an adapter.
LEMMA LocalWay ==
  ASSUME NEW h, IsHost(h), NEW address, OnLink(h, address) # {}
  PROVE  Ways(Before(h), address) = Best(h, OnLink(h, address))
<1>1. PICK a \in Up(h) : address \in h.adapters[a].onLink
  BY DEF OnLink
<1> DEFINE N == h.adapters[a].onLink
<1>2. Within(N) /\ address \in N
  BY <1>1, AdapterOf
<1>3. N \subseteq Everywhere /\ N # Everywhere
  BY <1>2, WithinAll
<1>4. \A b \in Up(h) : address \in h.adapters[b].onLink <=> h.adapters[b].onLink = N
  <2> SUFFICES ASSUME NEW b \in Up(h), address \in h.adapters[b].onLink
               PROVE  h.adapters[b].onLink = N
    BY <1>1
  <2>1. h.adapters[a].onLink = h.adapters[b].onLink \/ Apart(h.adapters[a].onLink, h.adapters[b].onLink)
    BY AdapterOf
  <2> QED BY <1>1, <2>1 DEF Apart
<1> HIDE DEF N
<1>5. ASSUME NEW r \in Before(h), address \in r.to PROVE N \subseteq r.to
  <2>1. CASE \E b \in Up(h) : r = Route(h.adapters[b].onLink, b, h.adapters[b].metric)
    <3>1. PICK b \in Up(h) : r = Route(h.adapters[b].onLink, b, h.adapters[b].metric)
      BY <2>1
    <3>2. r.to = h.adapters[b].onLink
      BY <3>1 DEF Route
    <3> QED BY <1>4, <1>5, <3>2
  <2>2. CASE \E b \in Gateways(h) : r = Route(Everywhere, b, h.adapters[b].metric)
    BY <1>3, <2>2 DEF Route
  <2> QED BY <2>1, <2>2, RoutesBefore
<1>6. \E r \in Before(h) : r.to = N
  <2>1. Route(h.adapters[a].onLink, a, h.adapters[a].metric) \in Before(h)
    BY AreBefore
  <2>2. Route(h.adapters[a].onLink, a, h.adapters[a].metric).to = N
    BY DEF Route, N
  <2> QED BY <2>1, <2>2
<1>7. ASSUME NEW r \in Before(h), r.to = N
      PROVE  r.by \in OnLink(h, address) /\ r.metric = h.adapters[r.by].metric
  <2>1. PICK b \in Up(h) : r = Route(h.adapters[b].onLink, b, h.adapters[b].metric)
    BY <1>3, <1>7, RoutesBefore DEF Route
  <2>2. r.by = b /\ r.metric = h.adapters[b].metric /\ r.to = h.adapters[b].onLink
    BY <2>1 DEF Route
  <2> QED BY <1>4, <1>7, <2>2 DEF OnLink
<1>8. ASSUME NEW b \in OnLink(h, address)
      PROVE  \E r \in Before(h) : r.to = N /\ r.by = b /\ r.metric = h.adapters[b].metric
  <2>1. b \in Up(h) /\ h.adapters[b].onLink = N
    BY <1>4, <1>8 DEF OnLink
  <2>2. Route(h.adapters[b].onLink, b, h.adapters[b].metric) \in Before(h)
    BY <2>1, AreBefore
  <2> QED BY <2>1, <2>2 DEF Route
<1>9. Among(Before(h), address, N, h, OnLink(h, address))
  BY <1>2, <1>5, <1>6, <1>7, <1>8 DEF Among
<1> QED BY <1>9, BestWay

\* The rest goes by an adapter that has a gateway, if there is one.
LEMMA DefaultWay ==
  ASSUME NEW h, IsHost(h), NEW address \in Everywhere, OnLink(h, address) = {}
  PROVE  Ways(Before(h), address) = Best(h, Gateways(h))
<1>1. ASSUME NEW r \in Before(h), address \in r.to
      PROVE  \E a \in Gateways(h) : r = Route(Everywhere, a, h.adapters[a].metric)
  <2> SUFFICES ASSUME NEW a \in Up(h), r = Route(h.adapters[a].onLink, a, h.adapters[a].metric)
               PROVE  FALSE
    BY RoutesBefore
  <2>1. r.to = h.adapters[a].onLink
    BY DEF Route
  <2> QED BY <1>1, <2>1 DEF OnLink
<1>2. CASE Gateways(h) = {}
  BY <1>1, <1>2 DEF Ways, Best
<1>3. CASE Gateways(h) # {}
  <2>1. ASSUME NEW r \in Before(h), r.to = Everywhere
        PROVE  r.by \in Gateways(h) /\ r.metric = h.adapters[r.by].metric
    BY <1>1, <2>1 DEF Route
  <2>2. ASSUME NEW b \in Gateways(h)
        PROVE  \E r \in Before(h) : r.to = Everywhere /\ r.by = b /\ r.metric = h.adapters[b].metric
    <3>1. Route(Everywhere, b, h.adapters[b].metric) \in Before(h)
      BY AreBefore
    <3> QED BY <3>1 DEF Route
  <2>3. ASSUME NEW r \in Before(h), address \in r.to PROVE Everywhere \subseteq r.to
    BY <1>1, <2>3 DEF Route
  <2>4. \E r \in Before(h) : r.to = Everywhere
    BY <1>3, <2>2
  <2>5. Among(Before(h), address, Everywhere, h, Gateways(h))
    BY <2>1, <2>2, <2>3, <2>4 DEF Among
  <2> QED BY <2>5, BestWay
<1> QED BY <1>2, <1>3

-------------------------------------------------------------------------------
(* After it *)

\* The routes once the networks of direct and the server go by an adapter, and those of
\* mine and the halves by the tunnel.
TakenOver(h, by, m, direct, mine, t) ==
  Before(h) \cup Through(by, m, {{h.server}} \cup direct) \cup Through("tun", t, mine \cup Halves)

LEMMA RoutesTaken ==
  ASSUME NEW h, NEW by, NEW m, NEW direct, NEW mine, NEW t,
         NEW r \in TakenOver(h, by, m, direct, mine, t)
  PROVE  \/ \E a \in Up(h) : /\ r.to = h.adapters[a].onLink /\ r.by = a
                             /\ r.metric = h.adapters[a].metric
         \/ r.to = Everywhere
         \/ r.to \in {{h.server}} \cup direct /\ r.by = by /\ r.metric = m
         \/ r.to \in mine \cup Halves /\ r.by = "tun" /\ r.metric = t
<1>1. CASE r \in Before(h)
  BY <1>1, RoutesBefore DEF Route
<1>2. CASE r \in Through(by, m, {{h.server}} \cup direct)
  BY <1>2 DEF Route, Through
<1>3. CASE r \in Through("tun", t, mine \cup Halves)
  BY <1>3 DEF Route, Through
<1> QED BY <1>1, <1>2, <1>3 DEF TakenOver

LEMMA AdaptersTaken ==
  ASSUME NEW h, NEW by, NEW m, NEW direct, NEW mine, NEW t, NEW a \in Up(h)
  PROVE  \E r \in TakenOver(h, by, m, direct, mine, t) : r.to = h.adapters[a].onLink
<1>1. Route(h.adapters[a].onLink, a, h.adapters[a].metric) \in Before(h)
  BY AreBefore
<1> QED BY <1>1 DEF TakenOver, Route

LEMMA DirectTaken ==
  ASSUME NEW h, NEW by, NEW m, NEW direct, NEW mine, NEW t, NEW n \in {{h.server}} \cup direct
  PROVE  \E r \in TakenOver(h, by, m, direct, mine, t) : r.to = n
<1>1. Route(n, by, m) \in Through(by, m, {{h.server}} \cup direct)
  BY DEF Through
<1> QED BY <1>1 DEF TakenOver, Route

LEMMA HalvesTaken ==
  ASSUME NEW h, NEW by, NEW m, NEW direct, NEW mine, NEW t, NEW n \in Halves
  PROVE  \E r \in TakenOver(h, by, m, direct, mine, t) : r.to = n
<1>1. Route(n, "tun", t) \in Through("tun", t, mine \cup Halves)
  BY DEF Through
<1> QED BY <1>1 DEF TakenOver, Route

\* Whatever else is taken, the server is reached by the adapter chosen.
LEMMA ServerLed ==
  ASSUME NEW h, IsHost(h), NEW by, NEW m \in Nat, NEW t \in Nat,
         NEW direct, NEW mine \in SUBSET {TunSubnet}
  PROVE  Leads(TakenOver(h, by, m, direct, mine, t), h.server, {h.server}, by, m)
<1> DEFINE routes == TakenOver(h, by, m, direct, mine, t)
           N == {h.server}
<1>1. Within(N) /\ h.server \notin TunSubnet /\ h.server \in N
  BY DEF IsHost
<1>2. \A r \in routes : h.server \in r.to => N \subseteq r.to
  OBVIOUS
<1>3. \E r \in routes : r.to = N
  <2>1. N \in {{h.server}} \cup direct
    OBVIOUS
  <2> HIDE DEF N
  <2> QED BY <2>1, DirectTaken
<1>4. ASSUME NEW r \in routes, r.to = N PROVE r.by = by /\ r.metric = m
  <2>1. \A a \in Up(h) : h.adapters[a].onLink # N
    BY AdapterOf
  <2>2. N # Everywhere
    BY <1>1, WithinAll
  <2>3. N \notin Halves
    BY <1>1, InItsHalf
  <2>4. N \notin mine
    BY <1>1
  <2>5. \/ \E a \in Up(h) : r.to = h.adapters[a].onLink
        \/ r.to = Everywhere
        \/ r.by = by /\ r.metric = m
        \/ r.to \in mine \cup Halves
    BY RoutesTaken
  <2> QED BY <1>4, <2>1, <2>2, <2>3, <2>4, <2>5
<1> QED BY <1>1, <1>2, <1>3, <1>4 DEF Leads

\* Of networks of which two are nested or apart, one is the narrowest that has an address.
LEMMA Narrowest ==
  ASSUME NEW nets, NEW address \in UNION nets,
         \A n \in nets : IsFiniteSet(n) /\ \A m \in nets : Nested(n, m)
  PROVE  \E n \in nets : address \in n /\ \A m \in nets : address \in m => n \subseteq m
<1> DEFINE S == {n \in nets : address \in n}
           sizes == {Cardinality(n) : n \in S}
<1>1. sizes \subseteq Nat /\ sizes # {}
  BY FS_CardinalityType
<1>2. PICK k \in sizes : \A l \in sizes : k <= l
  <2> HIDE DEF sizes
  <2> QED BY <1>1, LeastOf
<1>3. PICK n \in S : Cardinality(n) = k
  OBVIOUS
<1>4. ASSUME NEW m \in nets, address \in m PROVE n \subseteq m
  <2>1. Nested(n, m)
    OBVIOUS
  <2>2. CASE m \subseteq n
    <3>1. Cardinality(n) <= Cardinality(m)
      BY <1>2, <1>3, <1>4
    <3>2. IsFiniteSet(n) /\ Cardinality(n) \in Nat /\ Cardinality(m) \in Nat
      BY FS_CardinalityType
    <3>3. Cardinality(m) = Cardinality(n)
      BY <2>2, <3>1, <3>2, FS_Subset
    <3> QED BY <2>2, <3>2, <3>3, FS_Subset
  <2> QED BY <1>4, <2>1, <2>2 DEF Nested, Apart
<1> QED BY <1>4

-------------------------------------------------------------------------------
(* Address by address *)

LEMMA TunnelAdapter ==
  ASSUME NEW h, IsHost(h)
  PROVE  /\ "tun" \in Up(h) /\ h.adapters["tun"].onLink = TunSubnet
         /\ "tun" \notin Gateways(h) /\ Within(TunSubnet) /\ h.adapters["tun"].metric \in Nat
         /\ "tun" \notin OnLink(h, h.server)
<1>1. "tun" \in Up(h) /\ h.adapters["tun"].onLink = TunSubnet /\ "tun" \notin Gateways(h)
  BY DEF IsHost, Up, Gateways
<1>2. h.server \notin TunSubnet
  BY DEF IsHost
<1> QED BY <1>1, <1>2, AdapterOf DEF OnLink

LEMMA OfOneNetwork ==
  ASSUME NEW h, IsHost(h), NEW a \in Up(h), NEW b \in Up(h), NEW address,
         address \in h.adapters[a].onLink, address \in h.adapters[b].onLink
  PROVE  h.adapters[a].onLink = h.adapters[b].onLink
BY AdapterOf DEF Apart

\* An address on the network of an adapter that is not the tunnel's.
LEMMA LocalTaken ==
  ASSUME NEW h, IsHost(h), NEW by, NEW m \in Nat, NEW t \in Nat,
         NEW direct, NEW mine \in SUBSET {TunSubnet},
         NEW address, OnLink(h, address) \ {"tun"} # {}
  PROVE  Ways(TakenOver(h, by, m, direct, mine, t), address) \subseteq OnLink(h, address) \cup {by}
<1> DEFINE routes == TakenOver(h, by, m, direct, mine, t)
<1>1. PICK a \in Up(h) : address \in h.adapters[a].onLink
  BY DEF OnLink
<1> DEFINE N == h.adapters[a].onLink
<1>2. Within(N) /\ address \in N
  BY <1>1, AdapterOf
<1>3. \E r \in routes : r.to = N
  BY AdaptersTaken
<1> SUFFICES ASSUME NEW r \in routes, address \in r.to, \A q \in routes : address \in q.to => r.to \subseteq q.to
             PROVE  r.by \in OnLink(h, address) \cup {by}
  BY DEF Ways
<1>4. r.to \subseteq N
  BY <1>2, <1>3
<1>5. r.to # Everywhere
  BY <1>2, <1>4, WithinAll
<1>6. r.to \notin Halves
  BY <1>2, <1>4, InItsHalf
<1>7. \/ \E b \in Up(h) : r.to = h.adapters[b].onLink /\ r.by = b
      \/ r.by = by
      \/ r.to = TunSubnet /\ r.by = "tun"
  BY <1>5, <1>6, RoutesTaken
<1>8. ASSUME r.to = TunSubnet PROVE "tun" \in OnLink(h, address)
  BY <1>8, TunnelAdapter DEF OnLink
<1> QED BY <1>7, <1>8 DEF OnLink

LEMMA OfBypassing ==
  ASSUME NEW h, IsHost(h), NEW n \in Bypassing(h)
  PROVE  /\ IsFiniteSet(n) /\ Within(n)
         /\ Apart(n, TunSubnet) \/ (TunSubnet \subseteq n /\ n # TunSubnet)
         /\ \A k \in Bypassing(h) : Nested(n, k)
BY DEF IsHost

\* An address of the networks to leave outside, on no adapter's own network.
LEMMA DirectWay ==
  ASSUME NEW h, IsHost(h), NEW by, NEW m \in Nat, NEW t \in Nat,
         NEW direct \in SUBSET Bypassing(h), NEW mine \in SUBSET {TunSubnet},
         NEW address \in UNION direct, OnLink(h, address) = {}, address # h.server
  PROVE  Ways(TakenOver(h, by, m, direct, mine, t), address) = {by}
<1> DEFINE routes == TakenOver(h, by, m, direct, mine, t)
<1>1. PICK N \in direct : address \in N /\ \A n \in direct : address \in n => N \subseteq n
  BY OfBypassing, Narrowest
<1>2. Within(N)
  BY OfBypassing
<1>3. address \notin TunSubnet /\ \A a \in Up(h) : address \notin h.adapters[a].onLink
  BY TunnelAdapter DEF OnLink
<1>4. N \subseteq Everywhere /\ N # Everywhere
  BY <1>1, <1>2, WithinAll
<1>5. \A half \in Halves : address \in half => N \subseteq half /\ N # half
  BY <1>1, <1>2, InItsHalf
<1>6. ASSUME NEW r \in routes, address \in r.to
      PROVE  N \subseteq r.to /\ (r.to = N => r.by = by /\ r.metric = m)
  <2>1. \/ \E a \in Up(h) : r.to = h.adapters[a].onLink
        \/ r.to = Everywhere
        \/ r.to \in {{h.server}} \cup direct /\ r.by = by /\ r.metric = m
        \/ r.to \in mine \cup Halves
    BY RoutesTaken
  <2> QED BY <1>1, <1>3, <1>4, <1>5, <1>6, <2>1
<1>7. \E r \in routes : r.to = N
  BY DirectTaken
<1> HIDE DEF routes
<1>8. Leads(routes, address, N, by, m)
  BY <1>1, <1>6, <1>7 DEF Leads
<1> QED BY <1>8, OneWay DEF routes

\* An address of the tunnel's own network, and of no other adapter's.
LEMMA TunnelWay ==
  ASSUME NEW h, IsHost(h), NEW by, NEW m \in Nat, NEW t \in Nat,
         NEW direct \in SUBSET Bypassing(h), NEW mine \in SUBSET {TunSubnet},
         mine # {} => t = h.adapters["tun"].metric,
         NEW address, OnLink(h, address) = {"tun"}
  PROVE  Ways(TakenOver(h, by, m, direct, mine, t), address) = {"tun"}
<1> DEFINE routes == TakenOver(h, by, m, direct, mine, t)
           N == TunSubnet
           cost == h.adapters["tun"].metric
<1>1. address \in N /\ Within(N) /\ h.server \notin N /\ cost \in Nat
      /\ \A a \in Up(h) : address \in h.adapters[a].onLink => a = "tun"
  BY TunnelAdapter DEF OnLink, IsHost
<1>2. N \subseteq Everywhere /\ N # Everywhere
  BY <1>1, WithinAll
<1>3. \A half \in Halves : address \in half => N \subseteq half /\ N # half
  BY <1>1, InItsHalf
<1>4. \A n \in direct : address \in n => N \subseteq n /\ N # n
  BY <1>1, OfBypassing DEF Apart
<1>5. ASSUME NEW r \in routes, address \in r.to
      PROVE  N \subseteq r.to /\ (r.to = N => r.by = "tun" /\ r.metric = cost)
  <2>1. \/ \E a \in Up(h) : r.to = h.adapters[a].onLink /\ r.by = a /\ r.metric = h.adapters[a].metric
        \/ r.to = Everywhere
        \/ r.to \in {{h.server}} \cup direct
        \/ r.to \in mine \cup Halves /\ r.by = "tun" /\ r.metric = t
    BY RoutesTaken
  <2>2. CASE \E a \in Up(h) : r.to = h.adapters[a].onLink /\ r.by = a /\ r.metric = h.adapters[a].metric
    BY <1>1, <1>5, <2>2, TunnelAdapter
  <2>3. CASE r.to = Everywhere \/ r.to \in {{h.server}} \cup direct
    BY <1>1, <1>2, <1>4, <1>5, <2>3
  <2>4. CASE r.to \in mine \cup Halves /\ r.by = "tun" /\ r.metric = t
    BY <1>3, <1>5, <2>4
  <2> QED BY <2>1, <2>2, <2>3, <2>4
<1>6. \E r \in routes : r.to = N
  BY TunnelAdapter, AdaptersTaken
<1> HIDE DEF routes, N, cost
<1>7. Leads(routes, address, N, "tun", cost)
  BY <1>1, <1>5, <1>6 DEF Leads
<1> QED BY <1>7, OneWay DEF routes

\* An address of none of these.
LEMMA WorldWay ==
  ASSUME NEW h, IsHost(h), NEW by, NEW m \in Nat, NEW t \in Nat,
         NEW direct, NEW mine \in SUBSET {TunSubnet},
         NEW address \in Everywhere \ UNION direct, OnLink(h, address) = {}, address # h.server
  PROVE  Ways(TakenOver(h, by, m, direct, mine, t), address) = {"tun"}
<1> DEFINE routes == TakenOver(h, by, m, direct, mine, t)
<1>1. PICK N \in Halves : address \in N
  BY RoutesAssumption
<1>2. address \notin TunSubnet /\ \A a \in Up(h) : address \notin h.adapters[a].onLink
  BY TunnelAdapter DEF OnLink
<1>3. N \subseteq Everywhere /\ N # Everywhere /\ \A half \in Halves : address \in half => half = N
  BY <1>1, RoutesAssumption DEF Apart
<1>4. ASSUME NEW r \in routes, address \in r.to
      PROVE  N \subseteq r.to /\ (r.to = N => r.by = "tun" /\ r.metric = t)
  <2>1. \/ \E a \in Up(h) : r.to = h.adapters[a].onLink
        \/ r.to = Everywhere
        \/ r.to \in {{h.server}} \cup direct
        \/ r.to \in mine \cup Halves /\ r.by = "tun" /\ r.metric = t
    BY RoutesTaken
  <2> QED BY <1>2, <1>3, <1>4, <2>1
<1>5. \E r \in routes : r.to = N
  BY HalvesTaken
<1> HIDE DEF routes
<1>6. Leads(routes, address, N, "tun", t)
  BY <1>1, <1>4, <1>5 DEF Leads
<1> QED BY <1>6, OneWay DEF routes

-------------------------------------------------------------------------------
(* What is chosen, and what is left outside *)

ServerKept(h, by) ==
  ~(Ways(Before(h), h.server) \subseteq Tunnels(h)) => by \in Ways(Before(h), h.server)

DefaultKept(h, by) ==
  OnLink(h, h.server) = {} =>
    \A address \in Everywhere :
      OnLink(h, address) = {} /\ Ways(Before(h), address) \cap Tunnels(h) = {}
        => by \in Ways(Before(h), address)

LEMMA ServerSomewhere ==
  ASSUME NEW h, IsHost(h)
  PROVE  h.server \in Everywhere
<1>1. Within({h.server}) /\ h.server \in {h.server}
  BY DEF IsHost
<1> QED BY <1>1, WithinAll

LEMMA GatewayTypes ==
  ASSUME NEW h, IsHost(h)
  PROVE  \A a \in Up(h) : h.adapters[a].metric \in Nat
BY AdapterOf

\* The adapter choosePhysicalAdapter takes is nobody's tunnel, and the one the server
\* was reached by unless that was a tunnel.
LEMMA PhysicalKeeps ==
  ASSUME NEW h, IsHost(h), NEW by \in Physical(h)
  PROVE  by \in Usable(h) /\ ServerKept(h, by) /\ DefaultKept(h, by)
<1> DEFINE lan == OnLink(h, h.server) \cap Usable(h)
           out == {a \in Usable(h) : h.adapters[a].gateway}
<1>1. /\ lan # {} => by \in lan /\ \A a \in lan : h.adapters[by].metric <= h.adapters[a].metric
      /\ lan = {} => by \in out /\ \A a \in out : h.adapters[by].metric <= h.adapters[a].metric
  BY DEF Physical, Best
<1>2. by \in Usable(h) /\ Usable(h) \subseteq Up(h)
  BY <1>1 DEF Usable
<1>3. out \subseteq Gateways(h)
  BY DEF Usable, Gateways
<1>4. \A a \in Gateways(h) \ Tunnels(h) : a \in out
  BY TunnelAdapter DEF Gateways, Tunnels, Usable
<1>5. \A a \in OnLink(h, h.server) \ Tunnels(h) : a \in lan
  BY TunnelAdapter DEF OnLink, Tunnels, Usable
<1>6. OnLink(h, h.server) \subseteq Up(h) /\ Gateways(h) \subseteq Up(h)
  BY DEF OnLink, Gateways
<1> HIDE DEF lan, out
<1>7. ServerKept(h, by)
  <2> SUFFICES ASSUME NEW a \in Ways(Before(h), h.server), a \notin Tunnels(h)
               PROVE  by \in Ways(Before(h), h.server)
    BY DEF ServerKept
  <2>1. CASE OnLink(h, h.server) # {}
    <3>1. Ways(Before(h), h.server) = Best(h, OnLink(h, h.server))
      BY <2>1, LocalWay
    <3>2. a \in lan /\ \A b \in OnLink(h, h.server) : h.adapters[a].metric <= h.adapters[b].metric
      BY <1>5, <3>1 DEF Best
    <3>3. by \in OnLink(h, h.server) /\ h.adapters[by].metric <= h.adapters[a].metric
      BY <1>1, <3>2 DEF lan
    <3>4. \A b \in OnLink(h, h.server) : h.adapters[by].metric <= h.adapters[b].metric
      <4> SUFFICES ASSUME NEW b \in OnLink(h, h.server)
                   PROVE  h.adapters[by].metric <= h.adapters[b].metric
        OBVIOUS
      <4>1. h.adapters[by].metric \in Nat /\ h.adapters[a].metric \in Nat /\ h.adapters[b].metric \in Nat
        BY <1>2, <1>6, <3>1, GatewayTypes DEF Best
      <4> QED BY <3>2, <3>3, <4>1
    <3> QED BY <3>1, <3>3, <3>4 DEF Best
  <2>2. CASE OnLink(h, h.server) = {}
    <3>1. Ways(Before(h), h.server) = Best(h, Gateways(h))
      BY <2>2, DefaultWay, ServerSomewhere
    <3>2. a \in out /\ \A b \in Gateways(h) : h.adapters[a].metric <= h.adapters[b].metric
      BY <1>4, <3>1 DEF Best
    <3>3. by \in out /\ h.adapters[by].metric <= h.adapters[a].metric
      BY <1>1, <2>2, <3>2 DEF lan
    <3>4. \A b \in Gateways(h) : h.adapters[by].metric <= h.adapters[b].metric
      <4> SUFFICES ASSUME NEW b \in Gateways(h)
                   PROVE  h.adapters[by].metric <= h.adapters[b].metric
        OBVIOUS
      <4>1. h.adapters[by].metric \in Nat /\ h.adapters[a].metric \in Nat /\ h.adapters[b].metric \in Nat
        BY <1>2, <1>3, <1>6, <3>2, GatewayTypes
      <4> QED BY <3>2, <3>3, <4>1
    <3> QED BY <1>3, <3>1, <3>3, <3>4 DEF Best
  <2> QED BY <2>1, <2>2
<1>8. DefaultKept(h, by)
  <2> SUFFICES ASSUME NEW address \in Everywhere, OnLink(h, h.server) = {}, OnLink(h, address) = {},
                      Ways(Before(h), address) \cap Tunnels(h) = {}
               PROVE  by \in Ways(Before(h), address)
    BY DEF DefaultKept
  <2>1. Ways(Before(h), address) = Best(h, Gateways(h))
    BY DefaultWay
  <2>2. by \in out /\ by \in Gateways(h)
    BY <1>1, <1>3 DEF lan
  <2>3. PICK a \in Gateways(h) : \A b \in Gateways(h) : h.adapters[a].metric <= h.adapters[b].metric
    <3> DEFINE metrics == {h.adapters[b].metric : b \in Gateways(h)}
    <3>1. metrics \subseteq Nat /\ metrics # {}
      BY <1>6, <2>2, GatewayTypes
    <3>2. PICK k \in metrics : \A l \in metrics : k <= l
      <4> HIDE DEF metrics
      <4> QED BY <3>1, LeastOf
    <3> QED BY <3>2
  <2>4. a \in out
    BY <1>4, <2>1, <2>3 DEF Best
  <2>5. h.adapters[by].metric <= h.adapters[a].metric
    BY <1>1, <2>4 DEF lan
  <2>6. \A b \in Gateways(h) : h.adapters[by].metric <= h.adapters[b].metric
    <3> SUFFICES ASSUME NEW b \in Gateways(h)
                 PROVE  h.adapters[by].metric <= h.adapters[b].metric
      OBVIOUS
    <3>1. h.adapters[by].metric \in Nat /\ h.adapters[a].metric \in Nat /\ h.adapters[b].metric \in Nat
      BY <1>2, <1>6, GatewayTypes
    <3> QED BY <2>3, <2>5, <3>1
  <2> QED BY <2>1, <2>2, <2>6 DEF Best
<1> QED BY <1>2, <1>7, <1>8

\* On Linux it is the one the server was reached by, tunnel or not.
LEMMA UnderlayKeeps ==
  ASSUME NEW h, IsHost(h), NEW by \in Underlay(h)
  PROVE  by \in Up(h) \ {"tun"} /\ ServerKept(h, by) /\ DefaultKept(h, by)
<1>1. by \in Ways(Before(h), h.server)
  BY DEF Underlay
<1>2. CASE OnLink(h, h.server) # {}
  <2>1. by \in OnLink(h, h.server)
    BY <1>1, <1>2, LocalWay DEF Best
  <2> QED BY <1>1, <1>2, <2>1, TunnelAdapter DEF OnLink, ServerKept, DefaultKept
<1>3. CASE OnLink(h, h.server) = {}
  <2>1. by \in Best(h, Gateways(h))
    BY <1>1, <1>3, DefaultWay, ServerSomewhere
  <2>2. by \in Up(h) \ {"tun"}
    BY <2>1, TunnelAdapter DEF Best, Gateways
  <2> QED BY <1>1, <2>1, <2>2, DefaultWay DEF ServerKept, DefaultKept
<1> QED BY <1>2, <1>3

Chosen(h) == IF h.platform = "windows" THEN Physical(h) ELSE Underlay(h)

LEMMA InstalledTaken ==
  ASSUME NEW h, IsHost(h), NEW routes \in Installed(h)
  PROVE  \E by \in Chosen(h), m \in Nat, t \in Nat, mine \in SUBSET {TunSubnet} :
           /\ mine # {} => t = h.adapters["tun"].metric
           /\ routes = TakenOver(h, by, m, Direct(h), mine, t)
<1>1. CASE h.platform = "windows"
  <2>1. PICK by \in Physical(h) : routes = WindowsInstalled(h, by)
    BY <1>1 DEF Installed
  <2>2. by \in Up(h) /\ "tun" \in Up(h)
    BY PhysicalKeeps, TunnelAdapter DEF Usable
  <2>3. h.adapters[by].metric \in Nat /\ h.adapters["tun"].metric \in Nat
    BY <2>2, GatewayTypes
  <2>4. routes = TakenOver(h, by, h.adapters[by].metric, Direct(h), {TunSubnet}, h.adapters["tun"].metric)
    BY <2>1 DEF WindowsInstalled, TakenOver
  <2> QED BY <1>1, <2>1, <2>3, <2>4 DEF Chosen
<1>2. CASE h.platform # "windows"
  <2>1. PICK by \in Underlay(h) : routes = LinuxInstalled(h, by)
    BY <1>2 DEF Installed
  <2> DEFINE taken == Before(h) \cup Through(by, 0, {{h.server}}) \cup Through("tun", 0, Halves)
  <2>2. taken = TakenOver(h, by, 0, {}, {}, 0)
    BY DEF TakenOver, Through
  <2>3. Ways(taken, h.server) = {by}
    <3>1. {} \in SUBSET {TunSubnet} /\ 0 \in Nat
      OBVIOUS
    <3>2. Leads(TakenOver(h, by, 0, {}, {}, 0), h.server, {h.server}, by, 0)
      BY <3>1, ServerLed
    <3> HIDE DEF taken
    <3> QED BY <2>2, <3>2, OneWay
  <2>4. routes = taken \cup UNION {Through(again, 0, Direct(h)) : again \in Ways(taken, h.server)}
    BY <2>1 DEF LinuxInstalled
  <2>5. routes = taken \cup Through(by, 0, Direct(h))
    <3> HIDE DEF taken
    <3> QED BY <2>3, <2>4
  <2>6. routes = TakenOver(h, by, 0, Direct(h), {}, 0)
    BY <2>5 DEF TakenOver, Through
  <2> QED BY <1>2, <2>1, <2>6 DEF Chosen
<1> QED BY <1>1, <1>2

\* The networks the database says are the country's are all found, and of the others
\* only some it says nothing of (Reader.CountryPrefixes).
LEMMA CountryRead ==
  ASSUME NEW h, IsHost(h)
  PROVE  /\ Of(h, {"CN"}) \subseteq CountryNetworks(h.db)
         /\ CountryNetworks(h.db) \subseteq Of(h, {"CN", NoCountry})
         /\ CountryNetworks(h.db) \subseteq Bypassing(h)
<1> DEFINE networks == h.db.networks
<1>1. DOMAIN networks = 1 .. Len(networks) /\ Len(networks) \in Nat
  BY DEF IsHost
<1>2. ToSet(networks) = {networks[i] : i \in 1 .. Len(networks)}
  BY <1>1 DEF ToSet
<1> HIDE DEF networks
<1>3. CountryPrefixes(networks) \subseteq {n \in ToSet(networks) : n.country \in {"CN", NoCountry}}
  <2> SUFFICES ASSUME NEW k \in 1 .. Len(networks), NEW j \in 1 .. k, networks[j].country = "CN",
                      \A i \in j + 1 .. k : networks[i].country = NoCountry
               PROVE  networks[k].country \in {"CN", NoCountry}
    BY <1>2 DEF CountryPrefixes
  <2>1. k = j \/ k \in j + 1 .. k
    BY <1>1
  <2> QED BY <2>1
<1>4. {n \in ToSet(networks) : n.country \in {"CN"}} \subseteq CountryPrefixes(networks)
  <2> SUFFICES ASSUME NEW k \in 1 .. Len(networks), networks[k].country = "CN"
               PROVE  networks[k] \in CountryPrefixes(networks)
    BY <1>2
  <2>1. k \in 1 .. k /\ k + 1 .. k = {}
    BY <1>1
  <2> QED BY <2>1 DEF CountryPrefixes
<1> QED BY <1>3, <1>4 DEF CountryNetworks, Of, Bypassing, networks

LEMMA DirectAreBypassing ==
  ASSUME NEW h, IsHost(h)
  PROVE  Direct(h) \subseteq Bypassing(h)
BY CountryRead DEF Direct, LinuxCountry, WindowsCountry, Bypassing
\* One host, once its routes are installed.
LEMMA HostWaysKept ==
  ASSUME NEW h, IsHost(h), NEW by \in Chosen(h), NEW m \in Nat, NEW t \in Nat,
         NEW mine \in SUBSET {TunSubnet}, mine # {} => t = h.adapters["tun"].metric
  PROVE  WaysKept(h, TakenOver(h, by, m, Direct(h), mine, t))
<1> DEFINE routes == TakenOver(h, by, m, Direct(h), mine, t)
<1>1. Ways(routes, h.server) = {by}
  <2>1. Leads(TakenOver(h, by, m, Direct(h), mine, t), h.server, {h.server}, by, m)
    BY ServerLed
  <2> QED BY <2>1, OneWay
<1>2. /\ by \in Up(h) \ {"tun"} /\ ServerKept(h, by) /\ DefaultKept(h, by)
      /\ h.platform = "windows" => by \notin Tunnels(h)
  BY PhysicalKeeps, UnderlayKeeps DEF Chosen, Usable, Tunnels
<1>3. ASSUME NEW address \in Everywhere, OnLink(h, address) \ {"tun"} # {}
      PROVE  Ways(routes, address) \subseteq OnLink(h, address) \cup {by}
  BY <1>3, LocalTaken
<1>4. ASSUME NEW address \in Everywhere \ {h.server}, address \in UNION Direct(h), OnLink(h, address) = {}
      PROVE  Ways(routes, address) = {by}
  BY <1>4, DirectWay, DirectAreBypassing
<1>5. ASSUME NEW address, OnLink(h, address) = {"tun"}
      PROVE  Ways(routes, address) = {"tun"}
  BY <1>5, TunnelWay, DirectAreBypassing
<1>6. ASSUME NEW address \in Everywhere \ {h.server}, address \notin UNION Direct(h), OnLink(h, address) = {}
      PROVE  Ways(routes, address) = {"tun"}
  BY <1>6, WorldWay
<1>8. ASSUME NEW address \in Everywhere, OnLink(h, address) = {}, OnLink(h, h.server) = {},
             Ways(Before(h), address) \cap Tunnels(h) = {}
      PROVE  by \in Ways(Before(h), address)
  BY <1>2, <1>8 DEF DefaultKept
<1>9. ASSUME NEW address \in Everywhere \ (Loopback \cup {h.server})
      PROVE  CASE OnLink(h, address) \ {"tun"} # {} ->
                    Ways(routes, address) \subseteq OnLink(h, address) \cup {by}
               [] address \in UNION Direct(h) /\ OnLink(h, address) = {} ->
                    /\ Ways(routes, address) = {by}
                    /\ Ways(Before(h), address) \cap Tunnels(h) = {} /\ OnLink(h, h.server) = {}
                         => {by} \subseteq Ways(Before(h), address)
               [] OTHER -> Ways(routes, address) = {"tun"}
  <2>1. address \in Everywhere /\ address # h.server
    OBVIOUS
  <2>2. CASE OnLink(h, address) \ {"tun"} # {}
    <3>1. OnLink(h, address) # {}
      BY <2>2
    <3> QED BY <1>3, <2>1, <2>2, <3>1
  <2>3. CASE OnLink(h, address) = {"tun"}
    <3>1. OnLink(h, address) # {} /\ OnLink(h, address) \ {"tun"} = {}
      BY <2>3
    <3> QED BY <1>5, <2>3, <3>1
  <2>4. CASE OnLink(h, address) = {}
    <3>1. OnLink(h, address) \ {"tun"} = {}
      BY <2>4
    <3>2. CASE address \in UNION Direct(h)
      <4>1. Ways(routes, address) = {by}
        BY <1>4, <2>1, <2>4, <3>2
      <4>2. Ways(Before(h), address) \cap Tunnels(h) = {} /\ OnLink(h, h.server) = {}
              => {by} \subseteq Ways(Before(h), address)
        BY <1>8, <2>1, <2>4
      <4> QED BY <2>4, <3>1, <3>2, <4>1, <4>2
    <3>3. CASE address \notin UNION Direct(h)
      BY <1>6, <2>1, <2>4, <3>1, <3>3
    <3> QED BY <3>2, <3>3
  <2> QED BY <2>2, <2>3, <2>4
<1>10. ~(Ways(Before(h), h.server) \subseteq Tunnels(h)) => {by} \subseteq Ways(Before(h), h.server)
  BY <1>2 DEF ServerKept
<1>11. {by} \in {{a} : a \in Up(h) \ {"tun"}} /\ (h.platform = "windows" => {by} \cap Tunnels(h) = {})
  BY <1>2
<1> HIDE DEF routes
<1>12. WaysKept(h, routes)
  BY <1>1, <1>9, <1>10, <1>11 DEF WaysKept
<1> QED BY <1>12 DEF routes

LEMMA HostCountryKept ==
  ASSUME NEW h, IsHost(h), h.platform = "linux", h.db.readable
  PROVE  CountryKept(h)
<1>1. Direct(h) = LinuxCountry(h.db)
  <2>1. "linux" # "windows"
    OBVIOUS
  <2> QED BY <2>1 DEF Direct
<1> QED BY <1>1, CountryRead DEF CountryKept, LinuxCountry

LEMMA AllBypassKept == BypassKeepsItsWay
<1> SUFFICES ASSUME NEW h \in Hosts
             PROVE  /\ \A routes \in Installed(h) : WaysKept(h, routes)
                    /\ h.platform = "linux" /\ h.db.readable => CountryKept(h)
  BY DEF BypassKeepsItsWay
<1>1. IsHost(h)
  BY RoutesAssumption
<1>2. ASSUME NEW routes \in Installed(h) PROVE WaysKept(h, routes)
  <2>1. PICK by \in Chosen(h), m \in Nat, t \in Nat, mine \in SUBSET {TunSubnet} :
             /\ mine # {} => t = h.adapters["tun"].metric
             /\ routes = TakenOver(h, by, m, Direct(h), mine, t)
    BY <1>1, InstalledTaken
  <2>2. WaysKept(h, TakenOver(h, by, m, Direct(h), mine, t))
    BY <1>1, <2>1, HostWaysKept
  <2> QED BY <2>1, <2>2
<1> QED BY <1>1, <1>2, HostCountryKept

\* While the routes are taken over, on any host with any country database, the traffic to
\* the server and to the networks left outside goes where it should, and the rest through
\* the tunnel; on Linux those networks are those of a database that can be read (choosePhysicalAdapter, Install, installDefaultRoutes,
\* installCIDRDirectRoutes, CountryPrefixes).
THEOREM TakeoverKeepsTheBypass == Spec => []BypassedRight
<1>1. BypassedRight
  BY AllBypassKept DEF BypassedRight
<1> QED BY <1>1, PTL
===============================================================================
