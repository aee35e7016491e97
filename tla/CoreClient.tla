------------------------------ MODULE CoreClient ------------------------------
(***************************************************************************)
(* The client side of the protocol (Client in core/core.go) and the world   *)
(* it dials into: a server that rotates its generation and may restart, and *)
(* a network that is rough at first and calm from some moment on.  setup is *)
(* one deployment, sess the sessions of one client process.                 *)
(*                                                                         *)
(* A setup has the platform; the transports probed, in order; ports, the    *)
(* PortHopCount of both ends; named, whether the server is given by a host  *)
(* name; takes and split, the route options; holds, whether the server      *)
(* keeps a stream it cannot place open for a while (its probe mode);        *)
(* assigns, whether it assigns addresses; from, the generation it serves    *)
(* when the client is first seen, and upTo, a bound on those it moves to;   *)
(* restarts, whether it may restart, once; left, a bound on the sessions     *)
(* nobody holds.                                                           *)
(***************************************************************************)
EXTENDS PortSequence, Sequences, SequencesExt

CONSTANTS
  Setups,
  Ids,      \* the sessions of the process at one time
  Window,   \* GenerationWindow of both ends
  ServerFirst,  \* the generations whose handshakes the server begins
  CoverLen(_)   \* the length of a generation's covers

ASSUME CoreAssumption ==
  /\ Ids \subseteq Nat \ {0}  \* 0 stands for no session
  /\ Window \in Nat
  /\ Setups \subseteq
       [platform : {"linux", "windows", "android"},
        transports : Seq({"udp", "tcp", "ws", "http"}), ports : Nat, named : BOOLEAN, takes : BOOLEAN, split : BOOLEAN, holds : BOOLEAN,
        assigns : BOOLEAN, from : Nat, upTo : Nat, restarts : BOOLEAN, left : Nat]

VARIABLES setup, world, sess
coreVars == <<setup, world, sess>>

NoSlot == -1
ServerGen == 0  \* the generation both ends are configured with
Absent == [at |-> "none", base |-> 0, link |-> FALSE, wait |-> "done", via |-> "none"]

CoreInit ==
  /\ setup \in Setups
  /\ world = [calm |-> FALSE, base |-> setup.from, slot |-> NoSlot,
              restarted |-> FALSE]
  /\ sess = [i \in Ids |-> Absent]

Open == {i \in Ids : sess[i].at = "open"}

\* Guards the faults and the calls of the user that may leave a session behind.
FewLeft == Cardinality(Open) <= setup.left
Greater(a, b) == IF a > b THEN a ELSE b

-------------------------------------------------------------------------------
(* Dialing *)

\* The ports of every deployment and generation
PortTable ==
  [count \in {s.ports : s \in Setups}, gen \in 0 .. Max({s.upTo : s \in Setups}) |->
     Ports(count, gen)]

\* The server's compiled generations, and the previous one, last, while it is kept.
Compiled == (world.base .. world.base + Window) \cup ({world.slot} \ {NoSlot})
Place(gen) == (gen - world.base) % (Window + 2)

\* The generation a first message is taken for, if any.  That of a server-first one is a
\* knock, which names none and is looked for behind the base's cover: the mux takes it for
\* the base's, a stream listener for that of the first such generation.
Taken(transport, gen) ==
  LET knocked == Compiled \cap ServerFirst IN
  IF gen \notin ServerFirst THEN {gen} \cap Compiled
  ELSE IF CoverLen(gen) # CoverLen(world.base) THEN {}
  ELSE IF transport = "udp" THEN {world.base} \cap knocked
  ELSE {g \in knocked : \A h \in knocked : Place(g) <= Place(h)}

Accepts(transport, gen) == Taken(transport, gen) = {gen}

\* Several transports or ports shorten the wait for an answer to 3 s, less than
\* the 5 s for which the server holds a stream it cannot place, and the 8 s it gives a
\* handshake that it has begun for another generation.
Hurries == Len(setup.transports) > 1 \/ setup.ports > 1

\* dialSession: one port.  The URL path of a WebSocket is that of the
\* configured generation at both ends.
Answer(transport, port, configured, gen) ==
  LET serves == port \in PortTable[setup.ports, ServerGen]
                /\ (transport = "ws" => configured = ServerGen)
  IN IF serves /\ Accepts(transport, gen) THEN "up"
     ELSE IF \/ transport = "udp"
             \/ /\ serves /\ Hurries
                /\ setup.holds \/ Taken(transport, gen) # {}
     THEN "timeout" ELSE "error"

\* startSessionCtxWithTimeout: every port in turn, the error that of the last
Session(transport, configured, gen) ==
  LET ports == PortTable[setup.ports, configured]
      last == CHOOSE p \in ports : \A q \in ports : q <= p
  IN CASE ports = {} -> "error"
       [] \E p \in ports : Answer(transport, p, configured, gen) = "up" -> "up"
       [] OTHER -> Answer(transport, last, configured, gen)

\* StartContext: the generations of the window are tried while they time out.
Works(transport, configured) ==
  \E k \in 0 .. Window :
    /\ Session(transport, configured, configured + k) = "up"
    /\ \A j \in 0 .. k - 1 : Session(transport, configured, configured + j) = "timeout"

Reaches(configured) == \E t \in ToSet(setup.transports) : Works(t, configured)

MayFail(configured) == ~world.calm \/ ~Reaches(configured)

Unused(i, held) == LET free == (Ids \ Open) \ held IN i \in free /\ \A j \in free : i <= j

\* Where the first transport that works is listed.
FirstThatWorks(configured) ==
  CHOOSE t \in DOMAIN setup.transports :
    /\ Works(setup.transports[t], configured)
    /\ \A u \in 1 .. t - 1 : ~Works(setup.transports[u], configured)

\* A started client; its genBase counts for BaseGeneration.
Started(i, configured) ==
  [sess EXCEPT ![i] = [at |-> "open", base |-> configured, link |-> TRUE, wait |-> "nothing",
                       via |-> setup.transports[FirstThatWorks(configured)]]]

Closed(ids) == [i \in Ids |-> IF i \in ids THEN Absent ELSE sess[i]]

-------------------------------------------------------------------------------
(* Waiting for the address: WaitControl reads the socket only while no data is
   queued, and puts the data it takes back. *)

AddressComes(i) ==
  /\ setup.assigns /\ i \in Open /\ sess[i].link /\ sess[i].wait = "nothing"
  /\ sess' = [sess EXCEPT ![i].wait = "address"]
  /\ UNCHANGED <<setup, world>>

DataComesFirst(i) ==
  /\ ~world.calm /\ i \in Open /\ sess[i].link /\ sess[i].wait = "nothing"
  /\ sess' = [sess EXCEPT ![i].wait = "data"]
  /\ UNCHANGED <<setup, world>>

WaitMayEnd(i) ==
  /\ sess[i].wait # "address"
  /\ ~world.calm \/ sess[i].wait = "data" \/ ~setup.assigns \/ ~sess[i].link

\* The sessions after AssignedIP returned on session i.
Waited(i) == [sess EXCEPT ![i].wait = "done"]

-------------------------------------------------------------------------------
(* The world *)

\* The server moves to the next generation and pushes it: some of the sessions
\* that still work hear of it, which matters where BaseGeneration is read.
Rotates ==
  /\ ~world.calm /\ world.base < setup.upTo
  /\ world' = [world EXCEPT !.base = @ + 1, !.slot = world.base]
  /\ \E hear \in SUBSET {i \in Open : sess[i].link /\ setup.platform = "linux"} :
       sess' = [i \in Ids |-> IF i \in hear
                  THEN [sess[i] EXCEPT !.base = Greater(@, world.base + 1)] ELSE sess[i]]
  /\ UNCHANGED setup

GraceEnds ==
  /\ world.slot # NoSlot
  /\ world' = [world EXCEPT !.slot = NoSlot]
  /\ UNCHANGED <<setup, sess>>

\* A restarted server serves its configured generation and knows no session.
Restarts ==
  /\ ~world.calm /\ setup.restarts /\ ~world.restarted /\ FewLeft
  /\ world' = [world EXCEPT !.base = ServerGen, !.slot = NoSlot, !.restarted = TRUE]
  /\ sess' = [i \in Ids |-> [sess[i] EXCEPT !.link = FALSE]]
  /\ UNCHANGED setup

LinkFails(i) ==
  /\ ~world.calm /\ i \in Open /\ sess[i].link /\ FewLeft
  /\ sess' = [sess EXCEPT ![i].link = FALSE]
  /\ UNCHANGED <<setup, world>>

Calms ==
  /\ ~world.calm
  /\ world' = [world EXCEPT !.calm = TRUE]
  /\ UNCHANGED <<setup, sess>>

World(held) ==
  \/ Rotates \/ GraceEnds \/ Restarts \/ Calms
  \/ \E i \in held : LinkFails(i)
===============================================================================
