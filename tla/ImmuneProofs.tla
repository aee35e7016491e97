---------------------------- MODULE ImmuneProofs ----------------------------
(***************************************************************************)
(* Proofs about Immune and Openings.                                        *)
(*                                                                          *)
(* Immune, for every number of muxes and clients, window, pattern of        *)
(* probing and length of a run.  The inductive invariant IInv says that at  *)
(* most one caller is inside rotateGeneration, which generation it works    *)
(* on, and which listeners it has reached: all but those still to do are at *)
(* its generation, and before its first swap and after its last all         *)
(* listeners are alike.                                                     *)
(*                                                                          *)
(* Openings, for any seeds and generations, any number of connections to    *)
(* any ports, opened in any way, and any caps: how the stream listeners     *)
(* treat those that come, under every probe defence the immune system       *)
(* brings into force (StreamDoorsKept).  Doors follows the connections step *)
(* by step, so what is said of its states needs induction over the number   *)
(* of steps; CountedOn is that principle for a set of numbers.              *)
(***************************************************************************)
EXTENDS MCImmune, FiniteSetTheorems, WellFoundedInduction, TLAPS

------------------------------------------------------------------------------
(* Rotation and threat *)

Active(r) == rot[r].pc # "idle"

\* s.rotating is set while a caller is past it, and keeps the others out.
OneRotates ==
  /\ \A r \in Rotators : Active(r) => rotating
  /\ \A r, s \in Rotators : Active(r) /\ Active(s) => r = s

\* The locals of rotateGeneration against the base it stores.
GenSound(r) ==
  /\ rot[r].pc = "compile" => rot[r].old = baseGen /\ rot[r].gen = baseGen + 1
  /\ rot[r].pc \in {"count", "swap", "push"} =>
       rot[r].gen = baseGen /\ rot[r].old < baseGen

WorksOnNext == \A r \in Rotators : GenSound(r)

AllAlike == \A l, m \in Listeners : served[l] = served[m]
Target(r) == [base |-> rot[r].gen, slot |-> rot[r].old]

\* How far the swaps of a rotation have come.
SwapSound(r) ==
  /\ rot[r].pc \in {"compile", "count"} => AllAlike
  /\ rot[r].pc = "swap" => \A l \in Listeners \ rot[r].todo : served[l] = Target(r)
  /\ rot[r].pc = "push" => \A l \in Listeners : served[l] = Target(r)

SwapsSound ==
  /\ ~rotating => AllAlike
  /\ \A r \in Rotators : SwapSound(r)

IInv == TypeOK /\ OneRotates /\ WorksOnNext /\ SwapsSound /\ ClientsBehindServer

------------------------------------------------------------------------------
(* The initial states *)

Locals ==
  [pc : {"idle", "compile", "count", "swap", "push"}, gen : 0..MaxGen, old : 0..MaxGen,
   busy : BOOLEAN, todo : SUBSET Muxes, sessions : SUBSET Clients]

LEMMA IdleTyped == Idle \in Locals
BY ImmuneAssumption DEF Idle, Locals

LEMMA InitSound == Init => IInv
<1> SUFFICES ASSUME Init PROVE IInv
  OBVIOUS
<1>1. TypeOK
  <2>1. /\ transports \in TransportLists
        /\ tele \in [probes : Nat, replays : Nat] /\ threat \in Levels /\ probeMode \in Modes
        /\ calm \in 0..1
        /\ monitor \in [pc : {"wait", "call", "rotating", "compare"}, level : Levels]
    <3>1. Configured \in Modes
      BY ImmuneAssumption
    <3> QED BY <3>1 DEF Init, Calm, Levels
  <2>2. rot \in [Rotators -> Locals] /\ rotating \in BOOLEAN /\ baseGen \in 0..MaxGen
    <3>1. MaxGen \in Nat /\ Idle \in Locals
      BY IdleTyped, ImmuneAssumption
    <3>2. baseGen = 0 /\ rotating = FALSE /\ rot = [r \in Rotators |-> Idle]
      BY DEF Init
    <3>3. rot \in [Rotators -> Locals]
      BY <3>1, <3>2
    <3>4. rotating \in BOOLEAN
      BY <3>2
    <3>5. baseGen \in 0..MaxGen
      BY <3>1, <3>2
    <3> QED BY <3>3, <3>4, <3>5
  <2>3. /\ served \in [Listeners -> [base : 0..baseGen, slot : 0..baseGen]]
        /\ before \in [Listeners -> 0..MaxGen]
    <3>1. MaxGen \in Nat
      BY ImmuneAssumption
    <3> QED BY <3>1 DEF Init
  <2>4. client \in [Clients -> [state : {"down", "shaking", "up"}, at : Listeners,
                                gen : Nat, known : 0..baseGen]]
    BY DEF Init, Offline, Listeners
  <2>5. pushes \subseteq [to : Clients, gen : 1..baseGen] /\ stuck \subseteq Clients
    BY DEF Init
  <2> QED BY <2>1, <2>2, <2>3, <2>4, <2>5 DEF TypeOK, Locals
<1>2. OneRotates /\ WorksOnNext
  BY DEF Init, OneRotates, WorksOnNext, GenSound, Active, Idle
<1>3. SwapsSound
  BY DEF Init, SwapsSound, SwapSound, AllAlike, Idle
<1>4. ClientsBehindServer
  BY DEF Init, ClientsBehindServer, Offline
<1> QED BY <1>1, <1>2, <1>3, <1>4 DEF IInv

------------------------------------------------------------------------------
(* The threat monitor *)

\* What the monitor keeps to itself.
ThreatTypeOK ==
  /\ transports \in TransportLists
  /\ tele \in [probes : Nat, replays : Nat]
  /\ threat \in Levels
  /\ probeMode \in Modes
  /\ calm \in 0..1
  /\ monitor \in [pc : {"wait", "call", "rotating", "compare"}, level : Levels]

\* A step that leaves rotations, listeners and clients alone keeps the rest.
LEMMA RestKept ==
  ASSUME IInv, UNCHANGED <<rotationVars, clientVars>>, ThreatTypeOK'
  PROVE  IInv'
<1>1. /\ baseGen' = baseGen /\ rotating' = rotating /\ rot' = rot /\ served' = served
      /\ before' = before /\ client' = client /\ pushes' = pushes /\ stuck' = stuck
  BY DEF rotationVars, clientVars
<1>2. TypeOK'
  BY <1>1 DEF IInv, TypeOK, ThreatTypeOK
<1>3. OneRotates' /\ WorksOnNext' /\ SwapsSound' /\ ClientsBehindServer'
  BY <1>1 DEF IInv, OneRotates, WorksOnNext, GenSound, SwapsSound, SwapSound,
              AllAlike, Target, Active,
              ClientsBehindServer
<1> QED BY <1>2, <1>3 DEF IInv

\* Observe, Evaluate, StoreThreat and Compare are such steps.
LEMMA MonitorSound ==
  ASSUME IInv,
         (\E b \in Bursts : Observe(b)) \/ Evaluate \/ StoreThreat \/ Compare
  PROVE  IInv'
<1>0. /\ ThreatTypeOK /\ Configured \in Modes
      /\ \A s \in Nat : LevelOf(s) \in Levels
      /\ {"tls", "close"} \subseteq Modes
  BY ImmuneAssumption DEF IInv, TypeOK, ThreatTypeOK, LevelOf, Levels, Modes
<1>1. ASSUME NEW b \in Bursts, Observe(b)
      PROVE  IInv'
  <2>1. b \in [probes : Nat, replays : Nat]
    BY ImmuneAssumption
  <2>2. tele' \in [probes : Nat, replays : Nat]
    BY <1>0, <1>1, <2>1 DEF ThreatTypeOK, Observe
  <2>3. ThreatTypeOK'
    BY <1>0, <1>1, <2>2 DEF ThreatTypeOK, Observe
  <2> QED BY <2>3, <1>1, RestKept DEF Observe
<1>2. CASE Evaluate
  <2>1. Score(tele) \in Nat
    BY <1>0 DEF ThreatTypeOK, Score
  <2>2. LevelOf(Score(tele)) \in Levels
    BY <2>1, <1>0
  <2>3. Response(LevelOf(Score(tele))) \in Modes
    BY <1>0 DEF Response
  <2>4. ThreatTypeOK'
    BY <1>0, <1>2, <2>2, <2>3 DEF ThreatTypeOK, Evaluate, SetProbeMode, Calm
  <2> QED BY <2>4, <1>2, RestKept DEF Evaluate
<1>3. CASE StoreThreat
  <2>1. ThreatTypeOK'
    BY <1>0, <1>3 DEF ThreatTypeOK, StoreThreat
  <2> QED BY <2>1, <1>3, RestKept DEF StoreThreat
<1>4. CASE Compare
  <2>1. ThreatTypeOK'
    BY <1>0, <1>4 DEF ThreatTypeOK, Compare, SetProbeMode
  <2> QED BY <2>1, <1>4, RestKept DEF Compare
<1> QED BY <1>1, <1>2, <1>3, <1>4

------------------------------------------------------------------------------
(* The steps of a rotation *)

\* The listeners and the clients, apart from the rotations.
ListenTypeOK ==
  /\ baseGen \in 0..MaxGen
  /\ served \in [Listeners -> [base : 0..baseGen, slot : 0..baseGen]]
  /\ before \in [Listeners -> 0..MaxGen]
  /\ client \in [Clients -> [state : {"down", "shaking", "up"}, at : Listeners,
                             gen : Nat, known : 0..baseGen]]
  /\ pushes \subseteq [to : Clients, gen : 1..baseGen]
  /\ stuck \subseteq Clients

RotTypeOK == rotating \in BOOLEAN /\ rot \in [Rotators -> Locals]

LEMMA TypeParts == TypeOK <=> ThreatTypeOK /\ ListenTypeOK /\ RotTypeOK
BY DEF TypeOK, ThreatTypeOK, ListenTypeOK, RotTypeOK, Locals

\* While one caller rotates, or before the first one does, the others are idle.
LEMMA OthersIdle ==
  ASSUME IInv, NEW r \in Rotators, Active(r) \/ ~rotating
  PROVE  \A s \in Rotators \ {r} : rot[s].pc = "idle"
BY DEF IInv, OneRotates, Active

\* What a step of one caller has to show of it, the others being idle.
LEMMA OneMoves ==
  ASSUME NEW r \in Rotators,
         \A s \in Rotators \ {r} : rot[s].pc = "idle" /\ rot'[s] = rot[s],
         Active(r)' => rotating', GenSound(r)', SwapSound(r)',
         ~rotating' => AllAlike'
  PROVE  OneRotates' /\ WorksOnNext' /\ SwapsSound'
<1>1. \A s \in Rotators \ {r} : rot'[s].pc = "idle"
  OBVIOUS
<1>2. OneRotates'
  BY <1>1 DEF OneRotates, Active
<1>3. WorksOnNext'
  BY <1>1 DEF WorksOnNext, GenSound
<1>4. SwapsSound'
  BY <1>1 DEF SwapsSound, SwapSound
<1> QED BY <1>2, <1>3, <1>4

\* A caller's step that leaves the base, the listeners and the clients alone.
LEMMA QuietMove ==
  ASSUME IInv, NEW r \in Rotators, Active(r) \/ ~rotating,
         UNCHANGED <<baseGen, served, before, clientVars>>, ThreatTypeOK',
         rotating' \in BOOLEAN, rot' \in [Rotators -> Locals],
         \A s \in Rotators \ {r} : rot'[s] = rot[s],
         Active(r)' => rotating', GenSound(r)', SwapSound(r)',
         ~rotating' => AllAlike
  PROVE  IInv'
<1>1. /\ baseGen' = baseGen /\ served' = served /\ before' = before /\ client' = client
      /\ pushes' = pushes /\ stuck' = stuck
  BY DEF clientVars
<1>2. TypeOK'
  BY <1>1, TypeParts DEF IInv, ListenTypeOK, RotTypeOK, TypeOK, ThreatTypeOK, Locals
<1>3. AllAlike' <=> AllAlike
  BY <1>1 DEF AllAlike
<1>4. OneRotates' /\ WorksOnNext' /\ SwapsSound'
  BY <1>3, OthersIdle, OneMoves
<1>5. ClientsBehindServer'
  BY <1>1 DEF IInv, ClientsBehindServer
<1> QED BY <1>2, <1>4, <1>5 DEF IInv

\* A step whose caller only returns.
LEMMA Returned ==
  ASSUME IInv, NEW r \in Rotators, Active(r), AllAlike, Return(r),
         UNCHANGED <<threatVars, baseGen, served, before, clientVars>>
  PROVE  IInv'
<1>1. rot \in [Rotators -> Locals] /\ Idle \in Locals
  BY IdleTyped DEF IInv, TypeOK, Locals
<1>2. /\ rot' = [rot EXCEPT ![r] = Idle] /\ rotating' = FALSE
  BY DEF Return
<1>3. /\ rot' \in [Rotators -> Locals] /\ rot'[r].pc = "idle"
      /\ \A s \in Rotators \ {r} : rot'[s] = rot[s]
  BY <1>1, <1>2 DEF Idle
<1>4. ThreatTypeOK'
  BY DEF IInv, TypeOK, ThreatTypeOK, threatVars
<1>5. ~Active(r)' /\ GenSound(r)' /\ SwapSound(r)'
  BY <1>3 DEF Active, GenSound, SwapSound
<1> QED BY <1>2, <1>3, <1>4, <1>5, QuietMove

\* The facts every step of a caller starts from.
LEMMA RotFacts ==
  ASSUME IInv, NEW r \in Rotators
  PROVE  /\ rot \in [Rotators -> Locals] /\ rot[r] \in Locals
         /\ rot[r].pc \in {"idle", "compile", "count", "swap", "push"}
         /\ rot[r].gen \in 0..MaxGen /\ rot[r].old \in 0..MaxGen
         /\ rot[r].busy \in BOOLEAN /\ rot[r].todo \subseteq Muxes
         /\ rot[r].sessions \subseteq Clients
         /\ baseGen \in 0..MaxGen /\ rotating \in BOOLEAN /\ MaxGen \in Nat
         /\ GenSound(r) /\ SwapSound(r) /\ (Active(r) => rotating)
         /\ (~rotating => AllAlike) /\ ThreatTypeOK
<1>1. /\ rot \in [Rotators -> Locals] /\ baseGen \in 0..MaxGen /\ rotating \in BOOLEAN
      /\ ThreatTypeOK
  BY DEF IInv, TypeOK, ThreatTypeOK, Locals
<1>2. rot[r] \in Locals
  BY <1>1
<1>3. /\ GenSound(r) /\ SwapSound(r) /\ (Active(r) => rotating)
      /\ (~rotating => AllAlike)
  BY DEF IInv, OneRotates, WorksOnNext, SwapsSound
<1>4. MaxGen \in Nat
  BY ImmuneAssumption
<1> QED BY <1>1, <1>2, <1>3, <1>4 DEF Locals

\* rotateGeneration is entered by the scheduler or by the monitor.
LEMMA BeginSound ==
  ASSUME IInv, NEW r \in Rotators, Begin(r), ThreatTypeOK',
         UNCHANGED <<baseGen, served, before, clientVars>>
  PROVE  IInv'
<1> DEFINE x == [rot[r] EXCEPT !.pc = "compile", !.old = baseGen, !.gen = baseGen + 1]
<1>1. /\ rot' = [rot EXCEPT ![r] = x] /\ rotating' = TRUE /\ ~rotating
      /\ baseGen < MaxGen
  BY RotFacts DEF Begin, MayBegin
<1>2. x \in Locals /\ x.pc = "compile" /\ x.old = baseGen /\ x.gen = baseGen + 1
  <2>1. rot[r] \in Locals /\ baseGen \in 0..MaxGen /\ baseGen + 1 \in 0..MaxGen
    BY <1>1, RotFacts
  <2> QED BY <2>1 DEF Locals
<1> HIDE DEF x
<1>3. /\ rot' \in [Rotators -> Locals] /\ rot'[r] = x
      /\ \A s \in Rotators \ {r} : rot'[s] = rot[s]
  BY <1>1, <1>2, RotFacts
<1>4. AllAlike /\ AllAlike'
  BY <1>1, RotFacts DEF AllAlike
<1>5. GenSound(r)' /\ SwapSound(r)'
  BY <1>2, <1>3, <1>4 DEF GenSound, SwapSound
<1> QED BY <1>1, <1>3, <1>4, <1>5, QuietMove

\* CompileFails, Defer and EndRotation return.
LEMMA ReturnsSound ==
  ASSUME IInv, NEW r \in Rotators, CompileFails(r) \/ Defer(r) \/ EndRotation(r)
  PROVE  IInv'
<1>1. Active(r) /\ Return(r)
      /\ UNCHANGED <<threatVars, baseGen, served, before, clientVars>>
  BY DEF CompileFails, Defer, EndRotation, GiveUp, Active
<1>2. AllAlike
  <2>1. CASE rot[r].pc \in {"compile", "count"}
    BY <2>1, RotFacts DEF SwapSound
  <2>2. CASE rot[r].pc = "push"
    BY <2>2, RotFacts DEF SwapSound, AllAlike
  <2> QED BY <2>1, <2>2 DEF CompileFails, Defer, EndRotation
<1> QED BY <1>1, <1>2, Returned

\* Count and StartPush move their caller on and change nothing else.
LEMMA CountSound ==
  ASSUME IInv, NEW r \in Rotators, NEW m \in rot[r].todo, Count(r, m)
  PROVE  IInv'
<1> DEFINE x == [rot[r] EXCEPT !.todo = @ \ {m}, !.busy = @ \/ Shaking(m) # {}]
<1>1. rot' = [rot EXCEPT ![r] = x] /\ rotating' = rotating /\ rot[r].pc = "count"
  BY RotFacts DEF Count
<1>2. x \in Locals /\ x.pc = "count" /\ x.old = rot[r].old /\ x.gen = rot[r].gen
  BY <1>1, RotFacts DEF Locals
<1> HIDE DEF x
<1>3. /\ rot' \in [Rotators -> Locals] /\ rot'[r] = x
      /\ \A s \in Rotators \ {r} : rot'[s] = rot[s]
  BY <1>1, <1>2, RotFacts
<1>4. ThreatTypeOK' /\ UNCHANGED <<baseGen, served, before, clientVars>>
  BY RotFacts DEF Count, ThreatTypeOK, threatVars
<1>5. GenSound(r)' /\ SwapSound(r)' /\ Active(r)
  BY <1>1, <1>2, <1>3, <1>4, RotFacts DEF GenSound, SwapSound, AllAlike, Active
<1> QED BY <1>1, <1>3, <1>4, <1>5, RotFacts, QuietMove

LEMMA StartPushSound ==
  ASSUME IInv, NEW r \in Rotators, StartPush(r)
  PROVE  IInv'
<1> DEFINE x == [rot[r] EXCEPT !.pc = "push", !.todo = Muxes]
<1>1. rot' = [rot EXCEPT ![r] = x] /\ rotating' = rotating /\ rot[r].pc = "swap"
      /\ rot[r].todo = {}
  BY RotFacts DEF StartPush, SwapsDone
<1>2. x \in Locals /\ x.pc = "push" /\ x.old = rot[r].old /\ x.gen = rot[r].gen
  BY <1>1, RotFacts DEF Locals
<1> HIDE DEF x
<1>3. /\ rot' \in [Rotators -> Locals] /\ rot'[r] = x
      /\ \A s \in Rotators \ {r} : rot'[s] = rot[s]
  BY <1>1, <1>2, RotFacts
<1>4. ThreatTypeOK' /\ UNCHANGED <<baseGen, served, before, clientVars>>
  BY RotFacts DEF StartPush, ThreatTypeOK, threatVars
<1>5. GenSound(r)' /\ SwapSound(r)' /\ Active(r)
  BY <1>1, <1>2, <1>3, <1>4, RotFacts DEF GenSound, SwapSound, Target, Active
<1> QED BY <1>1, <1>3, <1>4, <1>5, RotFacts, QuietMove

\* The base advances before any listener does: what is typed stays typed.
LEMMA PublishSound ==
  ASSUME IInv, NEW r \in Rotators, Publish(r)
  PROVE  IInv'
<1> DEFINE x == [rot[r] EXCEPT !.pc = "count", !.todo = Muxes, !.sessions = Up("stream")]
<1>1. /\ rot' = [rot EXCEPT ![r] = x] /\ rotating' = rotating /\ rot[r].pc = "compile"
      /\ baseGen' = rot[r].gen
  BY RotFacts DEF Publish
<1>2. x \in Locals /\ x.pc = "count" /\ x.old = rot[r].old /\ x.gen = rot[r].gen
  BY <1>1, RotFacts DEF Locals, Up
<1> HIDE DEF x
<1>3. /\ rot' \in [Rotators -> Locals] /\ rot'[r] = x
      /\ \A s \in Rotators \ {r} : rot'[s] = rot[s]
  BY <1>1, <1>2, RotFacts
<1>4. /\ ThreatTypeOK' /\ served' = served /\ before' = before /\ client' = client
      /\ pushes' = pushes /\ stuck' = stuck
  BY RotFacts DEF Publish, ThreatTypeOK, threatVars, clientVars
<1>5. baseGen \in 0..MaxGen /\ baseGen' \in 0..MaxGen /\ baseGen' = baseGen + 1
  BY <1>1, RotFacts DEF GenSound
<1>6. 0..baseGen \subseteq 0..baseGen' /\ 1..baseGen \subseteq 1..baseGen'
  BY <1>5
<1>7. ListenTypeOK'
  <2>1. ListenTypeOK
    BY TypeParts DEF IInv
  <2>2. served \in [Listeners -> [base : 0..baseGen', slot : 0..baseGen']]
    BY <2>1, <1>6 DEF ListenTypeOK
  <2>3. client \in [Clients -> [state : {"down", "shaking", "up"}, at : Listeners,
                                gen : Nat, known : 0..baseGen']]
    BY <2>1, <1>6 DEF ListenTypeOK
  <2>4. pushes \subseteq [to : Clients, gen : 1..baseGen']
    BY <2>1, <1>6 DEF ListenTypeOK
  <2> QED BY <2>1, <2>2, <2>3, <2>4, <1>4, <1>5 DEF ListenTypeOK
<1>8. TypeOK'
  <2>1. RotTypeOK'
    BY <1>1, <1>3, RotFacts DEF RotTypeOK
  <2> QED BY <2>1, <1>4, <1>7 DEF TypeOK, ThreatTypeOK, ListenTypeOK, RotTypeOK, Locals
<1>9. OneRotates' /\ WorksOnNext' /\ SwapsSound'
  <2>1. GenSound(r)' /\ SwapSound(r)' /\ Active(r) /\ rotating'
    BY <1>1, <1>2, <1>3, <1>4, <1>5, RotFacts DEF GenSound, SwapSound, AllAlike, Active
  <2> QED BY <2>1, <1>3, OthersIdle, OneMoves
<1>10. ClientsBehindServer'
  BY <1>4 DEF IInv, ClientsBehindServer
<1> QED BY <1>8, <1>9, <1>10 DEF IInv

\* A swap brings one listener to the base, which no client is past.
LEMMA SwapForward ==
  ASSUME IInv, NEW r \in Rotators, NEW l \in Listeners, rot[r].pc \in {"count", "swap"},
         Swap(r, l), UNCHANGED <<baseGen, clientVars>>
  PROVE  /\ ListenTypeOK' /\ ClientsBehindServer'
         /\ served'[l] = Target(r)
         /\ \A k \in Listeners \ {l} : served'[k] = served[k]
         /\ \A k \in Listeners : served'[k].base >= served[k].base
<1>1. ListenTypeOK /\ baseGen \in Nat
  BY TypeParts, ImmuneAssumption DEF IInv, ListenTypeOK
<1>2. /\ Target(r) = [base |-> rot[r].gen, slot |-> rot[r].old]
      /\ rot[r].gen = baseGen /\ rot[r].old \in 0..baseGen
  BY RotFacts DEF Target, GenSound
<1>3. /\ Target(r) \in [base : 0..baseGen, slot : 0..baseGen] /\ Target(r).base = baseGen
  BY <1>1, <1>2
<1>4. /\ served' = [served EXCEPT ![l] = Target(r)]
      /\ before' = [before EXCEPT ![l] = served[l].base]
      /\ baseGen' = baseGen /\ client' = client /\ pushes' = pushes /\ stuck' = stuck
  BY <1>2 DEF Swap, clientVars
<1>5. /\ served'[l] = Target(r)
      /\ \A k \in Listeners \ {l} : served'[k] = served[k]
      /\ served' \in [Listeners -> [base : 0..baseGen, slot : 0..baseGen]]
  BY <1>1, <1>3, <1>4 DEF ListenTypeOK
<1>6. \A k \in Listeners : served[k].base \in 0..baseGen /\ served'[k].base \in 0..baseGen
  BY <1>1, <1>5 DEF ListenTypeOK
<1>7. \A k \in Listeners : served'[k].base >= served[k].base
  BY <1>1, <1>3, <1>5, <1>6
<1>8. before' \in [Listeners -> 0..MaxGen]
  <2>1. served[l].base \in 0..MaxGen
    BY <1>1, <1>6, ImmuneAssumption DEF ListenTypeOK
  <2> QED BY <2>1, <1>1, <1>4 DEF ListenTypeOK
<1>9. ListenTypeOK'
  BY <1>1, <1>4, <1>5, <1>8 DEF ListenTypeOK
<1>10. ClientsBehindServer'
  <2>1. \A c \in Clients : client[c].known \in Nat
    BY <1>1 DEF ListenTypeOK
  <2>2. \A p \in pushes : p.gen \in Nat
    BY <1>1 DEF ListenTypeOK
  <2>3. /\ \A k \in Listeners, c \in Clients : client[c].known <= served[k].base
        /\ \A k \in Listeners, p \in pushes : p.gen <= served[k].base
    BY DEF IInv, ClientsBehindServer
  <2> QED BY <2>1, <2>2, <2>3, <1>1, <1>4, <1>6, <1>7 DEF ClientsBehindServer
<1> QED BY <1>5, <1>7, <1>9, <1>10

LEMMA SwapStreamSound ==
  ASSUME IInv, NEW r \in Rotators, SwapStream(r)
  PROVE  IInv'
<1> DEFINE x == [rot[r] EXCEPT !.pc = "swap", !.todo = Muxes]
<1>1. /\ rot' = [rot EXCEPT ![r] = x] /\ rotating' = rotating /\ rot[r].pc = "count"
  BY RotFacts DEF SwapStream
<1>2. /\ x \in Locals /\ x.pc = "swap" /\ x.old = rot[r].old /\ x.gen = rot[r].gen
      /\ x.todo = Muxes
  BY <1>1, RotFacts DEF Locals
<1> HIDE DEF x
<1>3. /\ rot' \in [Rotators -> Locals] /\ rot'[r] = x
      /\ \A s \in Rotators \ {r} : rot'[s] = rot[s]
  BY <1>1, <1>2, RotFacts
<1>4. /\ ListenTypeOK' /\ ClientsBehindServer' /\ served'["stream"] = Target(r)
  BY <1>1, SwapForward DEF SwapStream, Listeners
<1>5. ThreatTypeOK' /\ baseGen' = baseGen
  BY RotFacts DEF SwapStream, ThreatTypeOK, threatVars
<1>6. TypeOK'
  <2>1. RotTypeOK'
    BY <1>1, <1>3, RotFacts DEF RotTypeOK
  <2> QED BY <2>1, <1>4, <1>5 DEF TypeOK, ThreatTypeOK, ListenTypeOK, RotTypeOK, Locals
<1>7. GenSound(r)' /\ Active(r) /\ rotating'
  BY <1>1, <1>2, <1>3, <1>5, RotFacts DEF GenSound, Active
<1>8. SwapSound(r)'
  BY <1>2, <1>3, <1>4 DEF SwapSound, Target, Listeners
<1>9. OneRotates' /\ WorksOnNext' /\ SwapsSound'
  BY <1>3, <1>7, <1>8, OthersIdle, OneMoves
<1> QED BY <1>4, <1>6, <1>9 DEF IInv

LEMMA SwapMuxSound ==
  ASSUME IInv, NEW r \in Rotators, NEW m \in rot[r].todo, SwapMux(r, m)
  PROVE  IInv'
<1> DEFINE x == [rot[r] EXCEPT !.todo = @ \ {m}]
<1>1. /\ rot' = [rot EXCEPT ![r] = x] /\ rotating' = rotating /\ rot[r].pc = "swap"
      /\ m \in Listeners
  BY RotFacts DEF SwapMux, Listeners
<1>2. /\ x \in Locals /\ x.pc = "swap" /\ x.old = rot[r].old /\ x.gen = rot[r].gen
      /\ x.todo = rot[r].todo \ {m}
  BY <1>1, RotFacts DEF Locals
<1> HIDE DEF x
<1>3. /\ rot' \in [Rotators -> Locals] /\ rot'[r] = x
      /\ \A s \in Rotators \ {r} : rot'[s] = rot[s]
  BY <1>1, <1>2, RotFacts
<1>4. /\ ListenTypeOK' /\ ClientsBehindServer' /\ served'[m] = Target(r)
      /\ \A k \in Listeners \ {m} : served'[k] = served[k]
  BY <1>1, SwapForward DEF SwapMux
<1>5. ThreatTypeOK' /\ baseGen' = baseGen
  BY RotFacts DEF SwapMux, ThreatTypeOK, threatVars
<1>6. TypeOK'
  <2>1. RotTypeOK'
    BY <1>1, <1>3, RotFacts DEF RotTypeOK
  <2> QED BY <2>1, <1>4, <1>5 DEF TypeOK, ThreatTypeOK, ListenTypeOK, RotTypeOK, Locals
<1>7. GenSound(r)' /\ Active(r) /\ rotating'
  BY <1>1, <1>2, <1>3, <1>5, RotFacts DEF GenSound, Active
<1>8. SwapSound(r)'
  <2>1. \A l \in Listeners \ rot[r].todo : served[l] = Target(r)
    BY <1>1, RotFacts DEF SwapSound
  <2> QED BY <2>1, <1>2, <1>3, <1>4 DEF SwapSound, Target
<1>9. OneRotates' /\ WorksOnNext' /\ SwapsSound'
  BY <1>3, <1>7, <1>8, OthersIdle, OneMoves
<1> QED BY <1>4, <1>6, <1>9 DEF IInv

------------------------------------------------------------------------------
(* The pushes and the clients *)

\* A step that moves no rotation on and brings no client past a listener.
LEMMA ClientMove ==
  ASSUME IInv, UNCHANGED <<threatVars, baseGen, rotating, served, before>>,
         rot' \in [Rotators -> Locals],
         \A r \in Rotators :
           /\ rot'[r].pc = rot[r].pc /\ rot'[r].gen = rot[r].gen /\ rot'[r].old = rot[r].old
           /\ rot'[r].todo = rot[r].todo \/ rot[r].pc = "push",
         ListenTypeOK', ClientsBehindServer'
  PROVE  IInv'
<1>1. ThreatTypeOK' /\ baseGen' = baseGen /\ served' = served /\ rotating' = rotating
  BY DEF IInv, TypeOK, ThreatTypeOK, threatVars
<1>2. RotTypeOK'
  BY <1>1 DEF IInv, TypeOK, RotTypeOK
<1>3. TypeOK'
  BY <1>1, <1>2 DEF TypeOK, ThreatTypeOK, ListenTypeOK, RotTypeOK, Locals
<1>4. OneRotates'
  BY <1>1 DEF IInv, OneRotates, Active
<1>5. WorksOnNext'
  BY <1>1 DEF IInv, WorksOnNext, GenSound
<1>6. SwapsSound'
  BY <1>1 DEF IInv, SwapsSound, SwapSound, AllAlike, Target
<1> QED BY <1>3, <1>4, <1>5, <1>6 DEF IInv

\* What is pushed is the base every listener has reached.
LEMMA PushForward ==
  ASSUME IInv, NEW r \in Rotators, rot[r].pc = "push", NEW cs \in SUBSET Clients,
         pushes' = pushes \cup Pushed(r, cs), client' = client, stuck' = stuck,
         UNCHANGED <<baseGen, served, before>>
  PROVE  ListenTypeOK' /\ ClientsBehindServer'
<1>1. ListenTypeOK /\ ClientsBehindServer
  BY TypeParts DEF IInv
<1>2. /\ rot[r].gen = baseGen /\ baseGen \in 1..baseGen
      /\ \A l \in Listeners : served[l].base = baseGen
  <2>1. /\ rot[r].gen = baseGen /\ rot[r].old < baseGen /\ rot[r].old \in Nat
        /\ baseGen \in Nat /\ \A l \in Listeners : served[l] = Target(r)
    BY RotFacts DEF GenSound, SwapSound
  <2> QED BY <2>1 DEF Target
<1>3. \A p \in Pushed(r, cs) : p \in [to : Clients, gen : 1..baseGen] /\ p.gen = baseGen
  BY <1>2 DEF Pushed
<1>4. pushes' \subseteq [to : Clients, gen : 1..baseGen]
  BY <1>1, <1>3 DEF ListenTypeOK
<1>5. ListenTypeOK'
  BY <1>1, <1>4 DEF ListenTypeOK
<1>6. \A l \in Listeners, p \in pushes' : p.gen <= served[l].base
  <2> SUFFICES ASSUME NEW l \in Listeners, NEW p \in pushes' PROVE p.gen <= served[l].base
    OBVIOUS
  <2>1. CASE p \in pushes
    BY <2>1, <1>1 DEF ClientsBehindServer
  <2>2. CASE p \in Pushed(r, cs)
    BY <2>2, <1>2, <1>3
  <2> QED BY <2>1, <2>2
<1> QED BY <1>1, <1>5, <1>6 DEF ClientsBehindServer

LEMMA PushSound ==
  ASSUME IInv, NEW r \in Rotators,
         \/ \E m \in rot[r].todo : PushMux(r, m)
         \/ \E c \in rot[r].sessions : PushStream(r, c)
  PROVE  IInv'
<1>1. ASSUME NEW m \in rot[r].todo, PushMux(r, m)
      PROVE  IInv'
  <2> DEFINE x == [rot[r] EXCEPT !.todo = @ \ {m}]
  <2>1. rot' = [rot EXCEPT ![r] = x] /\ rot[r].pc = "push"
    BY <1>1, RotFacts DEF PushMux
  <2>2. x \in Locals /\ x.pc = rot[r].pc /\ x.old = rot[r].old /\ x.gen = rot[r].gen
    BY <2>1, RotFacts DEF Locals
  <2> HIDE DEF x
  <2>3. /\ rot' \in [Rotators -> Locals] /\ rot'[r] = x
        /\ \A s \in Rotators \ {r} : rot'[s] = rot[s]
    BY <2>1, <2>2, RotFacts
  <2>4. Up(m) \in SUBSET Clients
    BY DEF Up
  <2>5. ListenTypeOK' /\ ClientsBehindServer'
    BY <1>1, <2>1, <2>4, PushForward DEF PushMux
  <2> QED BY <1>1, <2>1, <2>2, <2>3, <2>5, ClientMove DEF PushMux
<1>2. ASSUME NEW c \in rot[r].sessions, PushStream(r, c)
      PROVE  IInv'
  <2> DEFINE x == [rot[r] EXCEPT !.sessions = @ \ {c}]
  <2>1. rot' = [rot EXCEPT ![r] = x] /\ rot[r].pc = "push"
    BY <1>2, RotFacts DEF PushStream
  <2>2. x \in Locals /\ x.pc = rot[r].pc /\ x.old = rot[r].old /\ x.gen = rot[r].gen
    BY <2>1, RotFacts DEF Locals
  <2> HIDE DEF x
  <2>3. /\ rot' \in [Rotators -> Locals] /\ rot'[r] = x
        /\ \A s \in Rotators \ {r} : rot'[s] = rot[s]
    BY <2>1, <2>2, RotFacts
  <2>4. {c} \in SUBSET Clients
    BY RotFacts
  <2>5. ListenTypeOK' /\ ClientsBehindServer'
    BY <1>2, <2>1, <2>4, PushForward DEF PushStream
  <2> QED BY <1>2, <2>1, <2>2, <2>3, <2>5, ClientMove DEF PushStream
<1> QED BY <1>1, <1>2

\* A step of a client, or of a push, that leaves the rotations alone.
LEMMA ClientOnly ==
  ASSUME IInv, UNCHANGED <<threatVars, rotationVars>>,
         client' \in [Clients -> [state : {"down", "shaking", "up"}, at : Listeners,
                                 gen : Nat, known : 0..baseGen]],
         \A c \in Clients, l \in Listeners : client'[c].known <= served[l].base,
         pushes' \subseteq pushes, stuck' \subseteq Clients
  PROVE  IInv'
<1>1. /\ baseGen' = baseGen /\ rotating' = rotating /\ rot' = rot /\ served' = served
      /\ before' = before
  BY DEF rotationVars
<1>2. ListenTypeOK /\ rot \in [Rotators -> Locals]
  BY TypeParts DEF IInv, RotTypeOK
<1>3. ListenTypeOK'
  BY <1>1, <1>2 DEF ListenTypeOK
<1>4. ClientsBehindServer'
  BY <1>1 DEF IInv, ClientsBehindServer
<1> QED BY <1>1, <1>2, <1>3, <1>4, ClientMove

\* The clients, and what each knows of the generations.
ClientRecord == [state : {"down", "shaking", "up"}, at : Listeners, gen : Nat,
                 known : 0..baseGen]

LEMMA ClientFacts ==
  ASSUME IInv
  PROVE  /\ client \in [Clients -> ClientRecord] /\ stuck \subseteq Clients
         /\ pushes \subseteq [to : Clients, gen : 1..baseGen]
         /\ served \in [Listeners -> [base : 0..baseGen, slot : 0..baseGen]]
         /\ \A l \in Listeners : served[l].base \in Nat
         /\ \A l \in Listeners, c \in Clients : client[c].known <= served[l].base
         /\ \A l \in Listeners, p \in pushes : p.gen <= served[l].base
BY DEF IInv, TypeOK, ClientsBehindServer, ClientRecord

\* One client changes.
LEMMA OneClient ==
  ASSUME IInv, UNCHANGED <<threatVars, rotationVars>>, NEW c \in Clients,
         NEW x \in ClientRecord, client' = [client EXCEPT ![c] = x],
         \A l \in Listeners : x.known <= served[l].base,
         pushes' \subseteq pushes, stuck' \subseteq Clients
  PROVE  IInv'
<1>1. /\ client' \in [Clients -> ClientRecord] /\ client'[c] = x
      /\ \A d \in Clients \ {c} : client'[d] = client[d]
  BY ClientFacts
<1>2. \A d \in Clients, l \in Listeners : client'[d].known <= served[l].base
  BY <1>1, ClientFacts
<1> QED BY <1>1, <1>2, ClientOnly DEF ClientRecord

LEMMA DialSound ==
  ASSUME IInv, NEW c \in Clients, NEW l \in Listeners, NEW g \in Probes(c), Dial(c, l, g)
  PROVE  IInv'
<1> DEFINE x == [client[c] EXCEPT !.state = "shaking", !.at = l, !.gen = g]
<1>1. client[c] \in ClientRecord
  BY ClientFacts
<1>2. g \in Nat
  BY <1>1, ImmuneAssumption DEF Probes, ClientRecord
<1>3. x \in ClientRecord /\ x.known = client[c].known
  BY <1>1, <1>2 DEF ClientRecord
<1>4. client' = [client EXCEPT ![c] = x]
  BY <1>1, ClientFacts DEF Dial, ClientRecord
<1> HIDE DEF x
<1>5. /\ UNCHANGED <<threatVars, rotationVars>> /\ pushes' \subseteq pushes
      /\ stuck' \subseteq Clients
  BY ClientFacts DEF Dial
<1> QED BY <1>3, <1>4, <1>5, ClientFacts, OneClient

LEMMA HandshakeDoneSound ==
  ASSUME IInv, NEW c \in Clients, HandshakeDone(c)
  PROVE  IInv'
<1> DEFINE x == [client[c] EXCEPT !.state = "up"]
<1>1. client[c] \in ClientRecord
  BY ClientFacts
<1>2. x \in ClientRecord /\ x.known = client[c].known
  BY <1>1 DEF ClientRecord
<1>3. client' = [client EXCEPT ![c] = x]
  BY ClientFacts DEF HandshakeDone
<1> HIDE DEF x
<1>4. /\ UNCHANGED <<threatVars, rotationVars>> /\ pushes' \subseteq pushes
      /\ stuck' \subseteq Clients
  BY ClientFacts DEF HandshakeDone
<1> QED BY <1>2, <1>3, <1>4, ClientFacts, OneClient

\* A client that goes away leaves the list of the streams to push to.
LEMMA DropSound ==
  ASSUME IInv, NEW c \in Clients, Drop(c)
  PROVE  IInv'
<1> DEFINE x == Offline(client[c].known)
<1>1. /\ client' = [client EXCEPT ![c] = x]
      /\ rot' = [r \in Rotators |-> [rot[r] EXCEPT !.sessions = @ \ {c}]]
      /\ pushes' \subseteq pushes /\ stuck' \subseteq stuck
      /\ UNCHANGED <<threatVars, baseGen, rotating, served, before>>
  BY DEF Drop
<1>2. x \in ClientRecord /\ x.known = client[c].known
  <2>1. client[c] \in ClientRecord
    BY ClientFacts
  <2> QED BY <2>1 DEF Offline, ClientRecord, Listeners
<1> HIDE DEF x
<1>3. /\ client' \in [Clients -> ClientRecord]
      /\ \A d \in Clients : client'[d].known = client[d].known
  BY <1>1, <1>2, ClientFacts
<1>4. ListenTypeOK'
  <2>1. ListenTypeOK
    BY TypeParts DEF IInv
  <2> QED BY <2>1, <1>1, <1>3 DEF ListenTypeOK, ClientRecord
<1>5. ClientsBehindServer'
  BY <1>1, <1>3, ClientFacts DEF ClientsBehindServer
<1>6. \A r \in Rotators :
        /\ rot'[r] \in Locals
        /\ rot'[r].pc = rot[r].pc /\ rot'[r].gen = rot[r].gen /\ rot'[r].old = rot[r].old
        /\ rot'[r].todo = rot[r].todo
  <2> SUFFICES ASSUME NEW r \in Rotators
               PROVE  /\ rot'[r] \in Locals
                      /\ rot'[r].pc = rot[r].pc /\ rot'[r].gen = rot[r].gen
                      /\ rot'[r].old = rot[r].old /\ rot'[r].todo = rot[r].todo
    OBVIOUS
  <2>1. rot'[r] = [rot[r] EXCEPT !.sessions = @ \ {c}]
    BY <1>1
  <2>2. rot[r] \in Locals
    BY RotFacts
  <2> QED BY <2>1, <2>2 DEF Locals
<1>7. rot' \in [Rotators -> Locals]
  BY <1>1, <1>6
<1> QED BY <1>1, <1>4, <1>5, <1>6, <1>7, ClientMove

LEMMA LearnSound ==
  ASSUME IInv, NEW p \in pushes, Learn(p)
  PROVE  IInv'
<1> DEFINE c == p.to
           x == [client[c] EXCEPT !.known = IF p.gen > @ THEN p.gen ELSE @]
<1>1. /\ c \in Clients /\ client[c] \in ClientRecord /\ p.gen \in 0..baseGen
  BY ClientFacts
<1>2. /\ x \in ClientRecord
      /\ x.known = client[c].known \/ x.known = p.gen
  BY <1>1 DEF ClientRecord
<1>3. /\ client' = [client EXCEPT ![c] = x]
      /\ UNCHANGED <<threatVars, rotationVars>> /\ pushes' \subseteq pushes
      /\ stuck' \subseteq Clients
  BY <1>1, ClientFacts DEF Learn
<1> HIDE DEF x
<1>4. \A l \in Listeners : x.known <= served[l].base
  BY <1>1, <1>2, ClientFacts
<1> QED BY <1>1, <1>2, <1>3, <1>4, OneClient

\* StopReading and LosePush change no client.
LEMMA QuietClients ==
  ASSUME IInv, (\E c \in Clients : StopReading(c)) \/ (\E p \in pushes : LosePush(p))
  PROVE  IInv'
<1>1. /\ UNCHANGED <<threatVars, rotationVars>> /\ client' = client
      /\ pushes' \subseteq pushes /\ stuck' \subseteq Clients
  BY ClientFacts DEF StopReading, LosePush, Up
<1> QED BY <1>1, ClientFacts, ClientOnly DEF ClientRecord

------------------------------------------------------------------------------
(* The invariant *)

LEMMA BeginsSound ==
  ASSUME IInv, BeginScheduled \/ BeginResponse
  PROVE  IInv'
<1>1. CASE BeginScheduled
  <2>1. ThreatTypeOK'
    BY <1>1 DEF IInv, TypeOK, ThreatTypeOK, BeginScheduled, threatVars
  <2> QED BY <1>1, <2>1, BeginSound DEF BeginScheduled, Rotators
<1>2. CASE BeginResponse
  <2>1. ThreatTypeOK'
    BY <1>2 DEF IInv, TypeOK, ThreatTypeOK, BeginResponse
  <2> QED BY <1>2, <2>1, BeginSound DEF BeginResponse, Rotators
<1> QED BY <1>1, <1>2

LEMMA RotationSound ==
  ASSUME IInv, NEW r \in Rotators, RotationStep(r)
  PROVE  IInv'
BY ReturnsSound, PublishSound, SwapStreamSound, StartPushSound, CountSound, SwapMuxSound,
   PushSound DEF RotationStep

LEMMA ClientsSound ==
  ASSUME IInv,
         (\E c \in Clients : ClientStep(c)) \/ (\E p \in pushes : Learn(p) \/ LosePush(p))
  PROVE  IInv'
<1>1. ASSUME NEW c \in Clients, ClientStep(c)
      PROVE  IInv'
  BY <1>1, DialSound, HandshakeDoneSound, DropSound, QuietClients DEF ClientStep
<1>2. ASSUME NEW p \in pushes, Learn(p) \/ LosePush(p)
      PROVE  IInv'
  BY <1>2, LearnSound, QuietClients
<1> QED BY <1>1, <1>2

LEMMA StepSound == IInv /\ [Next]_vars => IInv'
<1> SUFFICES ASSUME IInv, [Next]_vars PROVE IInv'
  OBVIOUS
<1>1. CASE UNCHANGED vars
  <2>1. UNCHANGED <<rotationVars, clientVars>> /\ ThreatTypeOK'
    BY <1>1 DEF vars, rotationVars, clientVars, IInv, TypeOK, ThreatTypeOK
  <2> QED BY <2>1, RestKept
<1>2. CASE Next
  BY <1>2, BeginsSound, RotationSound, MonitorSound, ClientsSound DEF Next, Monitor
<1> QED BY <1>1, <1>2

\* Every run of the immune system keeps the inductive invariant.
THEOREM InvariantHolds == Spec => []IInv
<1>1. Init => IInv
  BY InitSound
<1>2. IInv /\ [Next]_vars => IInv'
  BY StepSound
<1> QED BY <1>1, <1>2, PTL DEF Spec

\* The state stays of its type, and between rotations every listener accepts
\* the same generations, however the last rotation ended.
THEOREM ListenersStaySound == Spec => []ListenersSound
<1>1. IInv => ListenersSound
  BY DEF IInv, SwapsSound, AllAlike, ListenersSound, ListenersAgree
<1> QED BY <1>1, InvariantHolds, PTL

\* No client gets ahead of a listener.
THEOREM ClientsStayBehind == Spec => []ClientsBehindServer
<1>1. IInv => ClientsBehindServer
  BY DEF IInv
<1> QED BY <1>1, InvariantHolds, PTL

------------------------------------------------------------------------------
(* No listener goes back *)

LEMMA StepForward ==
  IInv /\ [Next]_vars => \A l \in Listeners : served'[l].base >= served[l].base
<1> SUFFICES ASSUME IInv, [Next]_vars
             PROVE  \A l \in Listeners : served'[l].base >= served[l].base
  OBVIOUS
<1>1. ASSUME NEW r \in Rotators, SwapStream(r)
      PROVE  \A l \in Listeners : served'[l].base >= served[l].base
  BY <1>1, SwapForward DEF SwapStream, Listeners
<1>2. ASSUME NEW r \in Rotators, NEW m \in rot[r].todo, SwapMux(r, m)
      PROVE  \A l \in Listeners : served'[l].base >= served[l].base
  <2>1. m \in Listeners
    BY RotFacts DEF Listeners
  <2> QED BY <1>2, <2>1, SwapForward DEF SwapMux
<1>3. CASE served' = served
  BY <1>3, ClientFacts
<1>4. CASE UNCHANGED vars
  BY <1>3, <1>4 DEF vars
<1>5. CASE BeginScheduled \/ Monitor \/ \E b \in Bursts : Observe(b)
  BY <1>3, <1>5 DEF BeginScheduled, Monitor, Evaluate, BeginResponse, StoreThreat, Compare,
                    Observe, rotationVars
<1>6. CASE (\E c \in Clients : ClientStep(c)) \/ (\E p \in pushes : Learn(p) \/ LosePush(p))
  BY <1>3, <1>6 DEF ClientStep, Dial, HandshakeDone, Drop, StopReading, Learn, LosePush,
                    rotationVars
<1>7. ASSUME NEW r \in Rotators, RotationStep(r)
      PROVE  \A l \in Listeners : served'[l].base >= served[l].base
  BY <1>1, <1>2, <1>3, <1>7 DEF RotationStep, CompileFails, Publish, Defer, StartPush,
                                EndRotation, Count, PushMux, PushStream
<1> QED BY <1>4, <1>5, <1>6, <1>7 DEF Next

\* The scheduler's swaps and the monitor's never take a listener back.
THEOREM RotationsGoForward == Spec => NeverRotatesBack
<1>1. IInv /\ [Next]_vars => \A l \in Listeners : served'[l].base >= served[l].base
  BY StepForward
<1>2. IInv /\ [Next]_vars => [\A l \in Listeners : served'[l].base >= served[l].base]_vars
  BY <1>1
<1> QED BY <1>2, InvariantHolds, PTL DEF Spec, NeverRotatesBack

------------------------------------------------------------------------------
(* The defence matches the threat *)

\* evaluateThreat sets the defence before it calls for a rotation and stores
\* the level after it: what Compare is given is the threat already.
MonitorInStep ==
  /\ monitor.pc = "compare" => monitor.level = threat
  /\ monitor.pc \in {"call", "rotating"} =>
       /\ monitor.level > threat
       /\ Transport # "udp" => probeMode = Response(monitor.level)

LEMMA MonitorKeepsDefence ==
  ASSUME IInv, MonitorInStep, DefenceMatchesThreat, Monitor
  PROVE  MonitorInStep' /\ DefenceMatchesThreat'
<1>1. /\ monitor \in [pc : {"wait", "call", "rotating", "compare"}, level : Levels]
      /\ threat \in Levels /\ tele \in [probes : Nat, replays : Nat]
      /\ Transport' = Transport
  BY DEF IInv, TypeOK, Transport, Monitor, Evaluate, BeginResponse, StoreThreat, Compare
<1>2. CASE Evaluate
  <2> DEFINE level == LevelOf(Score(tele))
  <2>1. Score(tele) \in Nat
    BY <1>1 DEF Score
  <2>2. level \in Levels
    BY <2>1 DEF LevelOf, Levels
  <2>3. /\ probeMode' = IF level > threat /\ Transport # "udp" THEN Response(level) ELSE probeMode
        /\ \/ monitor' = [pc |-> "call", level |-> level] /\ threat' = threat /\ level > threat
           \/ monitor' = [pc |-> "compare", level |-> level] /\ threat' = level
    BY <1>2 DEF Evaluate, SetProbeMode
  <2> HIDE DEF level
  <2>4. MonitorInStep'
    BY <1>1, <2>2, <2>3 DEF MonitorInStep, Response
  <2>5. DefenceMatchesThreat'
    BY <1>1, <2>2, <2>3 DEF DefenceMatchesThreat, Response, Levels
  <2> QED BY <2>4, <2>5
<1>3. CASE BeginResponse
  <2>1. /\ monitor'.pc = "rotating" /\ monitor'.level = monitor.level
        /\ threat' = threat /\ probeMode' = probeMode /\ monitor.pc = "call"
    BY <1>1, <1>3 DEF BeginResponse
  <2> QED BY <1>1, <2>1 DEF MonitorInStep, DefenceMatchesThreat, Response
<1>4. CASE StoreThreat
  <2>1. /\ monitor'.pc = "compare" /\ monitor'.level = monitor.level
        /\ threat' = monitor.level /\ probeMode' = probeMode
        /\ monitor.pc \in {"call", "rotating"}
    BY <1>1, <1>4 DEF StoreThreat
  <2>2. MonitorInStep'
    BY <2>1 DEF MonitorInStep
  <2>3. DefenceMatchesThreat'
    BY <1>1, <2>1 DEF MonitorInStep, DefenceMatchesThreat, Response, Levels
  <2> QED BY <2>2, <2>3
<1>5. CASE Compare
  <2>1. /\ monitor'.pc = "wait" /\ threat' = monitor.level /\ monitor.level = threat
    BY <1>1, <1>5 DEF Compare, MonitorInStep
  <2>2. probeMode' = probeMode
    BY <1>1, <1>5, <2>1 DEF Compare, Levels
  <2> QED BY <1>1, <2>1, <2>2 DEF MonitorInStep, DefenceMatchesThreat
<1> QED BY <1>2, <1>3, <1>4, <1>5 DEF Monitor

LEMMA DefenceStep ==
  IInv /\ MonitorInStep /\ DefenceMatchesThreat /\ [Next]_vars
    => MonitorInStep' /\ DefenceMatchesThreat'
<1> SUFFICES ASSUME IInv, MonitorInStep, DefenceMatchesThreat, [Next]_vars
             PROVE  MonitorInStep' /\ DefenceMatchesThreat'
  OBVIOUS
<1>1. CASE UNCHANGED <<transports, threat, probeMode, monitor>>
  BY <1>1 DEF MonitorInStep, DefenceMatchesThreat, Response, Transport
<1>2. CASE UNCHANGED vars
  BY <1>1, <1>2 DEF vars
<1>3. CASE BeginScheduled \/ \E b \in Bursts : Observe(b)
  BY <1>1, <1>3 DEF BeginScheduled, Observe, threatVars
<1>4. CASE (\E c \in Clients : ClientStep(c)) \/ (\E p \in pushes : Learn(p) \/ LosePush(p))
  BY <1>1, <1>4 DEF ClientStep, Dial, HandshakeDone, Drop, StopReading, Learn, LosePush,
                    threatVars
<1>5. ASSUME NEW r \in Rotators, RotationStep(r)
      PROVE  UNCHANGED <<transports, threat, probeMode, monitor>>
  BY <1>5 DEF RotationStep, CompileFails, Publish, Defer, SwapStream, StartPush,
              EndRotation, Count, SwapMux, PushMux, PushStream, threatVars
<1>6. CASE Monitor
  BY <1>6, MonitorKeepsDefence
<1> QED BY <1>1, <1>2, <1>3, <1>4, <1>5, <1>6 DEF Next

\* A server whose first transport is a stream is never left on the silent defence
\* under a threat, nor on less than close under an attack; one that lists udp first
\* keeps the defence it is configured with, whatever else it listens on.
THEOREM DefenceHolds == Spec => []DefenceMatchesThreat
<1>1. Init => MonitorInStep /\ DefenceMatchesThreat
  BY DEF Init, MonitorInStep, DefenceMatchesThreat
<1>2. IInv /\ MonitorInStep /\ DefenceMatchesThreat /\ [Next]_vars
        => MonitorInStep' /\ DefenceMatchesThreat'
  BY DefenceStep
<1> QED BY <1>1, <1>2, InvariantHolds, PTL DEF Spec

------------------------------------------------------------------------------
(* Requests *)

\* A listener's streams are for those who know its seed and its generation.
LEMMA AnswersItsOwn ==
  ASSUME NEW site \in Sites, NEW profile \in Profiles, profile.transport = site.transport
  PROVE  (\A r \in Dialled(profile) : Answer(site, r) = "stream") <=>
           profile.seed = site.seed /\ profile.generation = site.generation
<1>1. Path(profile) = Path(site) <=>
        profile.seed = site.seed /\ profile.generation = site.generation
  BY DEF Path
<1>2. CASE Upgrades(site.transport)
  <2>1. Dialled(profile) = {Request(Path(profile), TRUE, 0, "none")}
    BY <1>2 DEF Dialled
  <2>2. Answer(site, Request(Path(profile), TRUE, 0, "none")) = "stream"
          <=> Path(profile) = Path(site)
    BY <1>2 DEF Answer, WsAnswer, Request
  <2> QED BY <1>1, <2>1, <2>2
<1>3. CASE ~Upgrades(site.transport)
  <2>1. Dialled(profile) = {Request(Path(profile), FALSE, 24, dir) : dir \in {"up", "down"}}
    BY <1>3 DEF Dialled
  <2>2. \A dir \in {"up", "down"} :
          Answer(site, Request(Path(profile), FALSE, 24, dir)) = "stream"
            <=> Path(profile) = Path(site)
    BY <1>3 DEF Answer, HttpAnswer, Request
  <2> QED BY <1>1, <2>1, <2>2
<1> QED BY <1>2, <1>3

\* Who does not know the path learns nothing from the answer.
LEMMA AnswersOthersAlike ==
  ASSUME NEW site \in Sites, NEW other \in Sites, other.transport = site.transport,
         NEW r \in Requests, r.path \notin {Path(site), Path(other)}
  PROVE  Answer(site, r) = Answer(other, r)
BY DEF Answer, WsAnswer, HttpAnswer

\* A client gets its stream from the listener of its own seed and first generation
\* only, and a listener tells nothing to those who know neither (OnlyItsOwn).
THEOREM ListenersKnowTheirOwn == OnlyItsOwn
<1>1. ASSUME NEW site \in Sites, NEW profile \in Profiles
      PROVE  LetIn(profile, site) <=>
               /\ profile.transport = site.transport
               /\ profile.seed = site.seed /\ profile.generation = site.generation
               /\ Secured(site.transport) => Trusts(profile, site)
  BY AnswersItsOwn DEF LetIn
<1> QED BY <1>1, AnswersOthersAlike DEF OnlyItsOwn

------------------------------------------------------------------------------
(* Connections: what every state of the doors keeps *)

Places ==
  {"coming", "admitted", "opening", "probing", "looked", "held",
   "away", "session", "closed", "alerted"}

DoorsRecord ==
  [at : [Conns -> Places], handled : SUBSET Conns, pending : Int, decoys : Int,
   raced : SUBSET Conns]

At(d, place) == {c \in Conns : d.at[c] = place}

Ports(calls) == {calls[c].port : c \in Conns}

\* The counters count the handlers and the decoys; who is being handled has one,
\* and who waits for one has not.
Counted(d) ==
  /\ d \in DoorsRecord
  /\ d.pending = Cardinality(d.handled) /\ d.decoys = Cardinality(At(d, "held"))
  /\ \A c \in Conns : d.at[c] \in {"opening", "probing", "looked", "held"} => c \in d.handled
  /\ \A c \in Conns : d.at[c] \in {"coming", "admitted", "away"} => c \notin d.handled
  /\ \A c \in d.raced : d.at[c] \in {"looked", "held"}

\* Each accept loop has one connection at a time, which it has let in below the cap.
Capped(d, calls) ==
  /\ \A c, o \in At(d, "admitted") : calls[c].port = calls[o].port => c = o
  /\ MaxPending > 0 =>
       d.pending + Cardinality(At(d, "admitted")) < MaxPending + Cardinality(Ports(calls))

AlertsTls(d, calls, mode) ==
  \A c \in Conns : d.at[c] = "alerted" => mode = "tls" /\ calls[c].opens = "hello"

\* Who has a decoy or is about to, and how many there may be.
Taken(d) == At(d, "looked") \cup At(d, "held")

Roomed(d) == Cardinality(Taken(d)) <= StreamDecoyMaxPending + Cardinality(d.raced)

DoorsInv(d, calls, mode) ==
  Counted(d) /\ Capped(d, calls) /\ AlertsTls(d, calls, mode) /\ Roomed(d)

------------------------------------------------------------------------------
(* Finite sets *)

LEMMA ConnsFinite ==
  ASSUME NEW S \in SUBSET Conns
  PROVE  IsFiniteSet(S) /\ Cardinality(S) \in Nat
BY OpeningsAssumption, FS_Subset, FS_CardinalityType

LEMMA OneMore ==
  ASSUME NEW S \in SUBSET Conns, NEW c \in Conns, c \notin S
  PROVE  Cardinality(S \cup {c}) = Cardinality(S) + 1
BY ConnsFinite, FS_AddElement

LEMMA OneLess ==
  ASSUME NEW S \in SUBSET Conns, NEW c \in S
  PROVE  Cardinality(S \ {c}) = Cardinality(S) - 1 /\ Cardinality(S) > 0
<1>1. Cardinality(S \ {c}) = Cardinality(S) - 1
  BY ConnsFinite, FS_RemoveElement
<1>2. Cardinality(S \ {c}) \in Nat /\ Cardinality(S) \in Nat
  BY ConnsFinite
<1> QED BY <1>1, <1>2

LEMMA PortsFinite ==
  ASSUME NEW calls
  PROVE  IsFiniteSet(Ports(calls)) /\ Cardinality(Ports(calls)) \in Nat
<1> DEFINE f == [c \in Conns |-> calls[c].port]
<1>1. f \in Surjection(Conns, Ports(calls))
  BY DEF Surjection, Ports
<1> HIDE DEF f
<1>2. IsFiniteSet(Ports(calls))
  BY <1>1, FS_Surjection, OpeningsAssumption
<1> QED BY <1>2, FS_CardinalityType

\* Connections of which no two came to the same port are no more than the ports.
LEMMA OneForEachPort ==
  ASSUME NEW calls, NEW S \in SUBSET Conns,
         \A c, o \in S : calls[c].port = calls[o].port => c = o
  PROVE  Cardinality(S) <= Cardinality(Ports(calls))
<1> DEFINE f == [c \in S |-> calls[c].port]
<1>1. f \in Injection(S, Ports(calls))
  BY DEF Injection, IsInjective, Ports
<1> HIDE DEF f
<1> QED BY <1>1, FS_Injection, PortsFinite

------------------------------------------------------------------------------
(* Connections: one step *)

LEMMA StepsByPlace ==
  ASSUME NEW d, NEW c, NEW calls, NEW mode
  PROVE  /\ d.at[c] = "coming" => Steps(d, c, calls, mode) = AcceptLoop(d, c, calls)
         /\ d.at[c] = "admitted" => Steps(d, c, calls, mode) = Begins(d, c)
         /\ d.at[c] = "opening" => Steps(d, c, calls, mode) = Opens(d, c, calls[c].opens)
         /\ d.at[c] = "probing" => Steps(d, c, calls, mode) = Looks(d, c)
         /\ d.at[c] = "looked" => Steps(d, c, calls, mode) = Holds(d, c)
         /\ d.at[c] = "held" => Steps(d, c, calls, mode) = LetsGo(d, c, calls[c].opens, mode)
         /\ d.at[c] \in Ended /\ c \in d.handled => Steps(d, c, calls, mode) = Returns(d, c)
         /\ d.at[c] \in Ended /\ c \notin d.handled => Steps(d, c, calls, mode) = {}
<1> USE DEF Ended
<1>1. d.at[c] = "coming" => Steps(d, c, calls, mode) = AcceptLoop(d, c, calls)
  BY Zenon DEF Steps
<1>2. d.at[c] = "admitted" => Steps(d, c, calls, mode) = Begins(d, c)
  BY Zenon DEF Steps
<1>3. d.at[c] = "opening" => Steps(d, c, calls, mode) = Opens(d, c, calls[c].opens)
  BY Zenon DEF Steps
<1>4. d.at[c] = "probing" => Steps(d, c, calls, mode) = Looks(d, c)
  BY Zenon DEF Steps
<1>5. d.at[c] = "looked" => Steps(d, c, calls, mode) = Holds(d, c)
  BY Zenon DEF Steps
<1>6. d.at[c] = "held" => Steps(d, c, calls, mode) = LetsGo(d, c, calls[c].opens, mode)
  BY Zenon DEF Steps
<1>7. d.at[c] \in Ended /\ c \in d.handled => Steps(d, c, calls, mode) = Returns(d, c)
  BY Zenon DEF Steps
<1>8. d.at[c] \in Ended /\ c \notin d.handled => Steps(d, c, calls, mode) = {}
  BY Zenon DEF Steps
<1> QED BY <1>1, <1>2, <1>3, <1>4, <1>5, <1>6, <1>7, <1>8

LEMMA PlacesAfter ==
  ASSUME NEW d \in DoorsRecord, NEW c \in Conns, NEW place \in Places
  PROVE  /\ To(d, c, place) \in DoorsRecord
         /\ To(d, c, place).at = [d.at EXCEPT ![c] = place]
         /\ To(d, c, place).handled = d.handled
         /\ To(d, c, place).pending = d.pending /\ To(d, c, place).decoys = d.decoys
         /\ To(d, c, place).raced = d.raced
BY DEF To, DoorsRecord

\* Who is where once c has moved.
LEMMA MovedOne ==
  ASSUME NEW d \in DoorsRecord, NEW e \in DoorsRecord, NEW c \in Conns, NEW place \in Places,
         e.at = [d.at EXCEPT ![c] = place]
  PROVE  /\ At(e, place) = At(d, place) \cup {c}
         /\ \A p \in Places \ {place} : At(e, p) = At(d, p) \ {c}
         /\ \A o \in Conns : e.at[o] = IF o = c THEN place ELSE d.at[o]
         /\ \A p : At(d, p) \in SUBSET Conns
BY DEF At, DoorsRecord
\* Any step but an accept: it moves one connection, and counts it right.
Moves(d, e, c, place) ==
  /\ e \in DoorsRecord
  /\ e.at = [d.at EXCEPT ![c] = place]
  /\ e.handled \ {c} = d.handled \ {c}
  /\ place \in {"opening", "probing", "looked", "held"} => c \in e.handled
  /\ place = "away" => c \notin e.handled
  /\ e.pending = Cardinality(e.handled)
  /\ e.decoys = Cardinality(At(e, "held"))
  /\ e.pending <= d.pending \/ (d.at[c] = "admitted" /\ e.pending <= d.pending + 1)
  /\ e.raced \subseteq d.raced \cup {c}
  /\ c \in e.raced => place \in {"looked", "held"}
  /\ Roomed(e)

\* A step of one that neither has a decoy nor gets one.
LEMMA RoomKept ==
  ASSUME NEW d \in DoorsRecord, NEW e \in DoorsRecord, NEW c \in Conns, NEW place \in Places,
         Roomed(d), e.at = [d.at EXCEPT ![c] = place], e.raced = d.raced,
         (place \in {"looked", "held"}) <=> (d.at[c] \in {"looked", "held"})
  PROVE  Roomed(e)
<1>1. Taken(e) = Taken(d)
  BY DEF Taken, At, DoorsRecord
<1> QED BY <1>1 DEF Roomed

LEMMA MovesOn ==
  ASSUME NEW calls, NEW mode, NEW d, DoorsInv(d, calls, mode),
         NEW c \in Conns, NEW place \in Places \ {"coming", "admitted"},
         NEW e, Moves(d, e, c, place),
         place = "alerted" => mode = "tls" /\ calls[c].opens = "hello"
  PROVE  DoorsInv(e, calls, mode)
<1> USE DEF Moves
<1>0. d \in DoorsRecord /\ Counted(d) /\ Capped(d, calls) /\ AlertsTls(d, calls, mode)
  BY DEF DoorsInv, Counted
<1>1. /\ \A o \in Conns : e.at[o] = IF o = c THEN place ELSE d.at[o]
      /\ At(e, "admitted") = At(d, "admitted") \ {c}
      /\ At(d, "admitted") \in SUBSET Conns
  BY <1>0 DEF At, DoorsRecord
<1>2. Counted(e)
  <2>1. \A o \in Conns \ {c} : e.at[o] = d.at[o] /\ (o \in e.handled <=> o \in d.handled)
    BY <1>1
  <2>2. e.at[c] = place /\ place \in Places \ {"coming", "admitted"}
    BY <1>1
  <2>3. \A o \in Conns :
          /\ e.at[o] \in {"opening", "probing", "looked", "held"} => o \in e.handled
          /\ e.at[o] \in {"coming", "admitted", "away"} => o \notin e.handled
    <3>1. TAKE o \in Conns
    <3>2. CASE o = c
      BY <2>2, <3>2 DEF Places
    <3>3. CASE o # c
      BY <1>0, <2>1, <3>3 DEF Counted
    <3> QED BY <3>2, <3>3
  <2>4. \A o \in e.raced : e.at[o] \in {"looked", "held"}
    <3>1. TAKE o \in e.raced
    <3>2. o \in Conns
      BY DEF DoorsRecord
    <3>3. CASE o = c
      BY <2>2, <3>3
    <3>4. CASE o # c
      BY <1>0, <2>1, <3>2, <3>4 DEF Counted
    <3> QED BY <3>3, <3>4
  <2> QED BY <2>3, <2>4 DEF Counted
<1>3. e.pending + Cardinality(At(e, "admitted")) <= d.pending + Cardinality(At(d, "admitted"))
  <2>1. /\ d.pending \in Int /\ e.pending \in Int
        /\ Cardinality(At(d, "admitted")) \in Nat
    BY <1>0, <1>1, ConnsFinite DEF DoorsRecord
  <2>2. CASE d.at[c] = "admitted"
    <3>1. c \in At(d, "admitted")
      BY <2>2 DEF At
    <3>2. Cardinality(At(e, "admitted")) = Cardinality(At(d, "admitted")) - 1
      BY <1>1, <3>1, OneLess
    <3> QED BY <2>1, <2>2, <3>2
  <2>3. CASE d.at[c] # "admitted"
    <3>1. At(e, "admitted") = At(d, "admitted")
      BY <1>1, <2>3 DEF At
    <3> QED BY <2>1, <2>3, <3>1
  <2> QED BY <2>2, <2>3
<1>4. Capped(e, calls)
  <2>1. \A x, o \in At(e, "admitted") : calls[x].port = calls[o].port => x = o
    BY <1>0, <1>1 DEF Capped
  <2>2. /\ d.pending \in Int /\ e.pending \in Int /\ MaxPending \in Nat
        /\ Cardinality(Ports(calls)) \in Nat
        /\ Cardinality(At(d, "admitted")) \in Nat /\ Cardinality(At(e, "admitted")) \in Nat
    BY <1>0, <1>1, ConnsFinite, PortsFinite, OpeningsAssumption DEF DoorsRecord
  <2>3. MaxPending > 0 =>
          e.pending + Cardinality(At(e, "admitted")) < MaxPending + Cardinality(Ports(calls))
    BY <1>0, <1>3, <2>2 DEF Capped
  <2> QED BY <2>1, <2>3 DEF Capped
<1>5. AlertsTls(e, calls, mode)
  BY <1>0, <1>1 DEF AlertsTls
<1> QED BY <1>2, <1>4, <1>5 DEF DoorsInv

\* runTCPAccept lets one in while there is room, and has nobody else then.
LEMMA AcceptKeeps ==
  ASSUME NEW calls, NEW mode, NEW d, DoorsInv(d, calls, mode),
         NEW c \in Conns, d.at[c] = "coming", NEW e \in AcceptLoop(d, c, calls)
  PROVE  DoorsInv(e, calls, mode)
<1>0. /\ d \in DoorsRecord /\ Counted(d) /\ Capped(d, calls) /\ AlertsTls(d, calls, mode)
      /\ Roomed(d)
  BY DEF DoorsInv, Counted
<1>a. /\ \A o \in Conns : calls[o].port = calls[c].port => d.at[o] # "admitted"
      /\ e = To(d, c, IF MaxPending > 0 /\ d.pending >= MaxPending
                       THEN "away" ELSE "admitted")
  BY DEF AcceptLoop
<1>b. c \notin d.handled /\ d.handled \in SUBSET Conns
  BY <1>0 DEF Counted, DoorsRecord
<1>1. CASE MaxPending > 0 /\ d.pending >= MaxPending
  <2>1. /\ e \in DoorsRecord /\ e.at = [d.at EXCEPT ![c] = "away"]
        /\ e.handled = d.handled /\ e.pending = d.pending /\ e.decoys = d.decoys
        /\ e.raced = d.raced
    BY <1>0, <1>a, <1>1, PlacesAfter DEF Places
  <2>2. At(e, "held") = At(d, "held")
    BY <2>1, <1>0 DEF At, DoorsRecord
  <2>4. Roomed(e)
    BY <1>0, <2>1, RoomKept DEF Places
  <2>3. Moves(d, e, c, "away")
    BY <1>0, <1>b, <2>1, <2>2, <2>4 DEF Moves, Counted, DoorsRecord
  <2> QED BY <2>3, MovesOn DEF Places
<1>2. CASE ~(MaxPending > 0 /\ d.pending >= MaxPending)
  <2>1. /\ e \in DoorsRecord /\ e.at = [d.at EXCEPT ![c] = "admitted"]
        /\ e.handled = d.handled /\ e.pending = d.pending /\ e.decoys = d.decoys
        /\ e.raced = d.raced
    BY <1>0, <1>a, <1>2, PlacesAfter DEF Places
  <2>2. /\ \A o \in Conns : e.at[o] = IF o = c THEN "admitted" ELSE d.at[o]
        /\ At(e, "held") = At(d, "held")
        /\ At(e, "admitted") = At(d, "admitted") \cup {c}
    BY <2>1, <1>0 DEF At, DoorsRecord
  <2>3. Counted(e)
    BY <1>0, <1>b, <2>1, <2>2 DEF Counted
  <2>4. \A x, o \in At(e, "admitted") : calls[x].port = calls[o].port => x = o
    BY <1>0, <1>a, <2>2 DEF Capped, At
  <2>5. MaxPending > 0 =>
          e.pending + Cardinality(At(e, "admitted")) < MaxPending + Cardinality(Ports(calls))
    <3>1. At(e, "admitted") \in SUBSET Conns
      BY DEF At
    <3>2. Cardinality(At(e, "admitted")) <= Cardinality(Ports(calls))
      BY <2>4, <3>1, OneForEachPort
    <3>3. /\ Cardinality(At(e, "admitted")) \in Nat /\ Cardinality(Ports(calls)) \in Nat
          /\ d.pending \in Int /\ MaxPending \in Nat
      BY <1>0, <3>1, ConnsFinite, PortsFinite, OpeningsAssumption DEF DoorsRecord
    <3> QED BY <1>2, <2>1, <3>2, <3>3
  <2>6. AlertsTls(e, calls, mode)
    BY <1>0, <2>2 DEF AlertsTls
  <2>7. Roomed(e)
    BY <1>0, <2>1, RoomKept DEF Places
  <2> QED BY <2>3, <2>4, <2>5, <2>6, <2>7 DEF DoorsInv, Capped
<1> QED BY <1>1, <1>2
\* The handlers: each counts itself in and out, and its decoy.
LEMMA BeginKeeps ==
  ASSUME NEW calls, NEW mode, NEW d, DoorsInv(d, calls, mode),
         NEW c \in Conns, d.at[c] = "admitted", NEW e \in Begins(d, c)
  PROVE  DoorsInv(e, calls, mode)
<1>0. d \in DoorsRecord /\ Counted(d) /\ Roomed(d)
  BY DEF DoorsInv, Counted
<1>1. /\ e \in DoorsRecord /\ e.at = [d.at EXCEPT ![c] = "opening"]
      /\ e.handled = d.handled \cup {c} /\ e.pending = d.pending + 1 /\ e.decoys = d.decoys
      /\ e.raced = d.raced
  <2>1. "opening" \in Places
    BY DEF Places
  <2> DEFINE m == To(d, c, "opening")
  <2>2. e = [m EXCEPT !.handled = @ \cup {c}, !.pending = @ + 1]
    BY DEF Begins
  <2>3. /\ m \in DoorsRecord /\ m.at = [d.at EXCEPT ![c] = "opening"]
        /\ m.handled = d.handled /\ m.pending = d.pending /\ m.decoys = d.decoys
        /\ m.raced = d.raced
    BY <1>0, <2>1, PlacesAfter
  <2> HIDE DEF m
  <2>4. e = [at |-> m.at, handled |-> m.handled \cup {c}, pending |-> m.pending + 1,
             decoys |-> m.decoys, raced |-> m.raced]
    BY <2>2, <2>3 DEF DoorsRecord
  <2>5. /\ m.at \in [Conns -> Places] /\ m.handled \cup {c} \in SUBSET Conns
        /\ m.pending + 1 \in Int /\ m.decoys \in Int /\ m.raced \in SUBSET Conns
    <3>1. /\ m.at \in [Conns -> Places] /\ m.handled \in SUBSET Conns
          /\ m.pending \in Int /\ m.decoys \in Int /\ m.raced \in SUBSET Conns
      BY <2>3 DEF DoorsRecord
    <3>2. m.handled \cup {c} \in SUBSET Conns
      BY <3>1
    <3> QED BY <3>1, <3>2
  <2>6. e \in DoorsRecord
    BY <2>4, <2>5 DEF DoorsRecord
  <2> QED BY <2>3, <2>4, <2>6
<1>2. c \notin d.handled /\ d.handled \in SUBSET Conns
  BY <1>0 DEF Counted, DoorsRecord
<1>3. e.pending = Cardinality(e.handled)
  BY <1>0, <1>1, <1>2, OneMore DEF Counted
<1>4. At(e, "held") = At(d, "held")
  BY <1>0, <1>1 DEF At, DoorsRecord
<1>5. e.pending <= d.pending + 1
  BY <1>0, <1>1 DEF DoorsRecord
<1>7. Roomed(e)
  BY <1>0, <1>1, RoomKept DEF Places
<1>6. Moves(d, e, c, "opening")
  BY <1>0, <1>1, <1>2, <1>3, <1>4, <1>5, <1>7 DEF Moves, Counted
<1> QED BY <1>6, MovesOn DEF Places

LEMMA OpenKeeps ==
  ASSUME NEW calls, NEW mode, NEW d, DoorsInv(d, calls, mode),
         NEW c \in Conns, d.at[c] = "opening", NEW e \in Opens(d, c, calls[c].opens)
  PROVE  DoorsInv(e, calls, mode)
<1>0. d \in DoorsRecord /\ Counted(d) /\ Roomed(d) /\ c \in d.handled
  BY DEF DoorsInv, Counted
<1>1. PICK place \in {"session", "closed", "probing"} : e = To(d, c, place)
  <2>1. \/ e = To(d, c, "session") \/ e = To(d, c, "closed") \/ e = To(d, c, "probing")
    BY Zenon DEF Opens
  <2> QED BY <2>1
<1>2. /\ e \in DoorsRecord /\ e.at = [d.at EXCEPT ![c] = place]
      /\ e.handled = d.handled /\ e.pending = d.pending /\ e.decoys = d.decoys
      /\ e.raced = d.raced
  <2>1. place \in Places
    BY DEF Places
  <2> QED BY <1>0, <1>1, <2>1, PlacesAfter
<1>3. At(e, "held") = At(d, "held")
  BY <1>0, <1>1, <1>2 DEF At, DoorsRecord
<1>4. e.pending <= d.pending
  BY <1>0, <1>2 DEF DoorsRecord
<1>5. place \in Places \ {"coming", "admitted", "away", "alerted"} /\ d.at[c] # "admitted"
  BY DEF Places
<1>6. e.pending = Cardinality(e.handled) /\ e.decoys = Cardinality(At(e, "held"))
  BY <1>0, <1>2, <1>3 DEF Counted
<1>8. Roomed(e)
  BY <1>0, <1>2, <1>5, RoomKept
<1>9. c \notin e.raced
  BY <1>0, <1>2 DEF Counted
<1>7. Moves(d, e, c, place)
  BY <1>0, <1>2, <1>4, <1>5, <1>6, <1>8, <1>9 DEF Moves
<1> QED BY <1>5, <1>7, MovesOn

\* Who goes on to be held beside nobody finds room; who goes on beside another has
\* raced, and is counted on both sides.
LEMMA LookRoomed ==
  ASSUME NEW d, Counted(d), Roomed(d), NEW c \in Conns, d.at[c] = "probing",
         d.decoys < StreamDecoyMaxPending,
         NEW e \in DoorsRecord, e.at = [d.at EXCEPT ![c] = "looked"],
         e.raced = d.raced \cup Beside(d, c)
  PROVE  Roomed(e)
<1>0. d \in DoorsRecord /\ d.decoys = Cardinality(At(d, "held"))
  BY DEF Counted
<1>1. /\ Taken(e) = Taken(d) \cup {c} /\ c \notin Taken(d)
      /\ Taken(d) \in SUBSET Conns /\ d.raced \in SUBSET Conns
  BY <1>0 DEF Taken, At, DoorsRecord
<1>2. Cardinality(Taken(e)) = Cardinality(Taken(d)) + 1
  BY <1>1, OneMore
<1>3. /\ Cardinality(Taken(d)) \in Nat /\ Cardinality(d.raced) \in Nat
      /\ Cardinality(At(d, "held")) \in Nat /\ Cardinality(e.raced) \in Nat
      /\ StreamDecoyMaxPending \in Nat
  <2>1. At(d, "held") \in SUBSET Conns /\ e.raced \in SUBSET Conns
    BY DEF At, DoorsRecord
  <2> QED BY <1>1, <2>1, ConnsFinite, OpeningsAssumption
<1>4. CASE \E o \in Conns : d.at[o] = "looked"
  <2>1. e.raced = d.raced \cup {c}
    BY <1>4 DEF Beside
  <2>2. c \notin d.raced
    BY DEF Counted
  <2>3. Cardinality(e.raced) = Cardinality(d.raced) + 1
    BY <1>1, <2>1, <2>2, OneMore
  <2> QED BY <1>2, <1>3, <2>3 DEF Roomed
<1>5. CASE ~\E o \in Conns : d.at[o] = "looked"
  <2>1. Taken(d) = At(d, "held")
    BY <1>5 DEF Taken, At
  <2> QED BY <1>0, <1>2, <1>3, <2>1 DEF Roomed
<1> QED BY <1>4, <1>5

LEMMA LookKeeps ==
  ASSUME NEW calls, NEW mode, NEW d, DoorsInv(d, calls, mode),
         NEW c \in Conns, d.at[c] = "probing", NEW e \in Looks(d, c)
  PROVE  DoorsInv(e, calls, mode)
<1>0. d \in DoorsRecord /\ Counted(d) /\ Roomed(d) /\ c \in d.handled
  BY DEF DoorsInv, Counted
<1>1. PICK place \in {"closed", "looked"} :
        /\ e \in DoorsRecord /\ e.at = [d.at EXCEPT ![c] = place]
        /\ e.handled = d.handled /\ e.pending = d.pending /\ e.decoys = d.decoys
        /\ e.raced \subseteq d.raced \cup {c} /\ (c \in e.raced => place = "looked")
        /\ Roomed(e)
  <2>1. "closed" \in Places /\ "looked" \in Places
    BY DEF Places
  <2>2. CASE d.decoys >= StreamDecoyMaxPending
    <3>1. e = To(d, c, "closed")
      BY <2>2 DEF Looks
    <3>2. /\ e \in DoorsRecord /\ e.at = [d.at EXCEPT ![c] = "closed"]
          /\ e.handled = d.handled /\ e.pending = d.pending /\ e.decoys = d.decoys
          /\ e.raced = d.raced
      BY <1>0, <2>1, <3>1, PlacesAfter
    <3>3. Roomed(e)
      BY <1>0, <2>1, <3>2, RoomKept
    <3>4. c \notin d.raced
      BY <1>0 DEF Counted
    <3> QED BY <3>2, <3>3, <3>4
  <2>3. CASE d.decoys < StreamDecoyMaxPending
    <3> DEFINE m == To(d, c, "looked")
    <3>1. /\ m \in DoorsRecord /\ m.at = [d.at EXCEPT ![c] = "looked"]
          /\ m.handled = d.handled /\ m.pending = d.pending /\ m.decoys = d.decoys
          /\ m.raced = d.raced
      BY <1>0, <2>1, PlacesAfter
    <3>2. e = [m EXCEPT !.raced = @ \cup Beside(d, c)]
      <4>1. d.decoys \in Int /\ StreamDecoyMaxPending \in Nat
        BY <1>0, OpeningsAssumption DEF DoorsRecord
      <4>2. ~(d.decoys >= StreamDecoyMaxPending)
        BY <2>3, <4>1
      <4> QED BY <4>2 DEF Looks, GoesOn
    <3> HIDE DEF m
    <3>3. Beside(d, c) \in SUBSET Conns
      BY DEF Beside
    <3>4. /\ e \in DoorsRecord /\ e.at = m.at /\ e.handled = m.handled
          /\ e.pending = m.pending /\ e.decoys = m.decoys
          /\ e.raced = m.raced \cup Beside(d, c)
      <4> DEFINE b == Beside(d, c)
      <4>1. e = [m EXCEPT !.raced = @ \cup b] /\ b \in SUBSET Conns
        BY <3>2, <3>3
      <4> HIDE DEF b
      <4>2. /\ e \in DoorsRecord /\ e.at = m.at /\ e.handled = m.handled
            /\ e.pending = m.pending /\ e.decoys = m.decoys /\ e.raced = m.raced \cup b
        BY <3>1, <4>1 DEF DoorsRecord
      <4> QED BY <4>2 DEF b
    <3>5. Roomed(e)
      BY <1>0, <2>3, <3>1, <3>4, LookRoomed
    <3>6. Beside(d, c) \subseteq {c}
      BY DEF Beside
    <3> QED BY <3>1, <3>4, <3>5, <3>6
  <2>4. d.decoys \in Int /\ StreamDecoyMaxPending \in Nat
    BY <1>0, OpeningsAssumption DEF DoorsRecord
  <2>5. d.decoys >= StreamDecoyMaxPending \/ d.decoys < StreamDecoyMaxPending
    BY <2>4
  <2> QED BY <2>2, <2>3, <2>5
<1>3. At(e, "held") = At(d, "held")
  BY <1>0, <1>1 DEF At, DoorsRecord
<1>4. e.pending <= d.pending
  BY <1>0, <1>1 DEF DoorsRecord
<1>5. place \in Places \ {"coming", "admitted", "away", "alerted"} /\ d.at[c] # "admitted"
  BY DEF Places
<1>6. e.pending = Cardinality(e.handled) /\ e.decoys = Cardinality(At(e, "held"))
  BY <1>0, <1>1, <1>3 DEF Counted
<1>7. Moves(d, e, c, place)
  BY <1>0, <1>1, <1>4, <1>5, <1>6 DEF Moves
<1> QED BY <1>5, <1>7, MovesOn

LEMMA HoldKeeps ==
  ASSUME NEW calls, NEW mode, NEW d, DoorsInv(d, calls, mode),
         NEW c \in Conns, d.at[c] = "looked", NEW e \in Holds(d, c)
  PROVE  DoorsInv(e, calls, mode)
<1>0. d \in DoorsRecord /\ Counted(d) /\ Roomed(d) /\ c \in d.handled
  BY DEF DoorsInv, Counted
<1>1. /\ e \in DoorsRecord /\ e.at = [d.at EXCEPT ![c] = "held"]
      /\ e.handled = d.handled /\ e.pending = d.pending /\ e.decoys = d.decoys + 1
      /\ e.raced = d.raced
  <2>1. "held" \in Places
    BY DEF Places
  <2>2. e = [To(d, c, "held") EXCEPT !.decoys = @ + 1]
    BY DEF Holds
  <2> DEFINE m == To(d, c, "held")
  <2>3. /\ m \in DoorsRecord /\ m.at = [d.at EXCEPT ![c] = "held"]
        /\ m.handled = d.handled /\ m.pending = d.pending /\ m.decoys = d.decoys
        /\ m.raced = d.raced
    BY <1>0, <2>1, PlacesAfter
  <2> HIDE DEF m
  <2>4. e = [m EXCEPT !.decoys = @ + 1]
    BY <2>2 DEF m
  <2>5. e.at = m.at /\ e.handled = m.handled /\ e.pending = m.pending /\ e.decoys = m.decoys + 1
        /\ e.raced = m.raced
    BY <2>3, <2>4 DEF DoorsRecord
  <2>6. e \in DoorsRecord
    BY <2>3, <2>4 DEF DoorsRecord
  <2> QED BY <2>3, <2>5, <2>6
<1>2. /\ At(e, "held") = At(d, "held") \cup {c}
      /\ At(d, "held") \in SUBSET Conns /\ c \notin At(d, "held")
  BY <1>0, <1>1 DEF At, DoorsRecord
<1>3. e.decoys = Cardinality(At(e, "held"))
  BY <1>0, <1>1, <1>2, OneMore DEF Counted
<1>4. e.pending <= d.pending
  BY <1>0, <1>1 DEF DoorsRecord
<1>6. Roomed(e)
  BY <1>0, <1>1, RoomKept DEF Places
<1>5. Moves(d, e, c, "held")
  BY <1>0, <1>1, <1>3, <1>4, <1>6 DEF Moves, Counted
<1> QED BY <1>5, MovesOn DEF Places

LEMMA LetGoKeeps ==
  ASSUME NEW calls, NEW mode, NEW d, DoorsInv(d, calls, mode),
         NEW c \in Conns, d.at[c] = "held", NEW e \in LetsGo(d, c, calls[c].opens, mode)
  PROVE  DoorsInv(e, calls, mode)
<1>0. d \in DoorsRecord /\ Counted(d) /\ Roomed(d) /\ c \in d.handled
  BY DEF DoorsInv, Counted
<1> DEFINE end == IF mode = "tls" /\ calls[c].opens = "hello" THEN "alerted" ELSE "closed"
<1>1. /\ e \in DoorsRecord /\ e.at = [d.at EXCEPT ![c] = end]
      /\ e.handled = d.handled /\ e.pending = d.pending /\ e.decoys = d.decoys - 1
      /\ e.raced = d.raced \ {c}
  <2>1. end \in Places
    BY DEF Places
  <2>2. e = [To(d, c, end) EXCEPT !.decoys = @ - 1, !.raced = @ \ {c}]
    BY DEF LetsGo
  <2> HIDE DEF end
  <2> DEFINE m == To(d, c, end)
  <2>3. /\ m \in DoorsRecord /\ m.at = [d.at EXCEPT ![c] = end]
        /\ m.handled = d.handled /\ m.pending = d.pending /\ m.decoys = d.decoys
        /\ m.raced = d.raced
    BY <1>0, <2>1, PlacesAfter
  <2> HIDE DEF m
  <2>4. e = [m EXCEPT !.decoys = @ - 1, !.raced = @ \ {c}]
    BY <2>2 DEF m
  <2>5. e.at = m.at /\ e.handled = m.handled /\ e.pending = m.pending /\ e.decoys = m.decoys - 1
        /\ e.raced = m.raced \ {c}
    BY <2>3, <2>4 DEF DoorsRecord
  <2>6. e \in DoorsRecord
    <3>1. e = [at |-> m.at, handled |-> m.handled, pending |-> m.pending,
               decoys |-> m.decoys - 1, raced |-> m.raced \ {c}]
      BY <2>3, <2>4 DEF DoorsRecord
    <3>2. m.decoys - 1 \in Int /\ m.raced \ {c} \in SUBSET Conns
      BY <2>3 DEF DoorsRecord
    <3> QED BY <2>3, <3>1, <3>2 DEF DoorsRecord
  <2> QED BY <2>3, <2>5, <2>6
<1>2. /\ At(e, "held") = At(d, "held") \ {c}
      /\ At(d, "held") \in SUBSET Conns /\ c \in At(d, "held")
  BY <1>0, <1>1 DEF At, DoorsRecord
<1>3. e.decoys = Cardinality(At(e, "held"))
  BY <1>0, <1>1, <1>2, OneLess DEF Counted
<1>4. e.pending <= d.pending
  BY <1>0, <1>1 DEF DoorsRecord
<1>6. Roomed(e)
  <2>1. /\ Taken(e) = Taken(d) \ {c} /\ c \in Taken(d)
        /\ Taken(d) \in SUBSET Conns /\ d.raced \in SUBSET Conns
    BY <1>0, <1>1 DEF Taken, At, DoorsRecord
  <2>2. Cardinality(Taken(e)) = Cardinality(Taken(d)) - 1
    BY <2>1, OneLess
  <2>3. Cardinality(e.raced) >= Cardinality(d.raced) - 1
    <3>1. CASE c \in d.raced
      BY <1>1, <2>1, <3>1, OneLess, ConnsFinite
    <3>2. CASE c \notin d.raced
      <4>1. e.raced = d.raced
        BY <1>1, <3>2
      <4> QED BY <2>1, <4>1, ConnsFinite
    <3> QED BY <3>1, <3>2
  <2>4. /\ Cardinality(Taken(d)) \in Nat /\ Cardinality(d.raced) \in Nat
        /\ Cardinality(e.raced) \in Nat /\ StreamDecoyMaxPending \in Nat
    <3>1. e.raced \in SUBSET Conns
      BY <1>1, <2>1
    <3> QED BY <2>1, <3>1, ConnsFinite, OpeningsAssumption
  <2> QED BY <1>0, <2>2, <2>3, <2>4 DEF Roomed
<1>5. Moves(d, e, c, end)
  BY <1>0, <1>1, <1>3, <1>4, <1>6 DEF Moves, Counted
<1> QED BY <1>5, MovesOn DEF Places

LEMMA ReturnKeeps ==
  ASSUME NEW calls, NEW mode, NEW d, DoorsInv(d, calls, mode),
         NEW c \in Conns, d.at[c] \in Ended, c \in d.handled, NEW e \in Returns(d, c)
  PROVE  DoorsInv(e, calls, mode)
<1>0. /\ d \in DoorsRecord /\ Counted(d) /\ AlertsTls(d, calls, mode) /\ Roomed(d)
      /\ d.at[c] \in {"session", "closed", "alerted"}
  BY DEF DoorsInv, Counted, Ended
<1>1. /\ e \in DoorsRecord /\ e.at = [d.at EXCEPT ![c] = d.at[c]]
      /\ e.handled = d.handled \ {c} /\ e.pending = d.pending - 1 /\ e.decoys = d.decoys
      /\ e.raced = d.raced
  <2>1. e = [d EXCEPT !.handled = @ \ {c}, !.pending = @ - 1]
    BY DEF Returns
  <2>2. d.at = [d.at EXCEPT ![c] = d.at[c]]
    BY <1>0 DEF DoorsRecord
  <2>3. /\ e \in DoorsRecord /\ e.at = d.at
        /\ e.handled = d.handled \ {c} /\ e.pending = d.pending - 1 /\ e.decoys = d.decoys
        /\ e.raced = d.raced
    <3>1. e = [at |-> d.at, handled |-> d.handled \ {c}, pending |-> d.pending - 1,
               decoys |-> d.decoys, raced |-> d.raced]
      BY <1>0, <2>1 DEF DoorsRecord
    <3> QED BY <1>0, <3>1 DEF DoorsRecord
  <2> QED BY <2>2, <2>3
<1>2. d.handled \in SUBSET Conns
  BY <1>0 DEF DoorsRecord
<1>3. e.pending = Cardinality(e.handled)
  BY <1>0, <1>1, <1>2, OneLess DEF Counted
<1>4. At(e, "held") = At(d, "held")
  BY <1>0, <1>1 DEF At, DoorsRecord
<1>5. e.pending <= d.pending
  BY <1>0, <1>1 DEF DoorsRecord
<1>8. Roomed(e)
  <2>1. d.at[c] \in Places
    BY <1>0 DEF Places
  <2> QED BY <1>0, <1>1, <2>1, RoomKept
<1>6. Moves(d, e, c, d.at[c])
  BY <1>0, <1>1, <1>3, <1>4, <1>5, <1>8 DEF Moves, Counted
<1>7. d.at[c] = "alerted" => mode = "tls" /\ calls[c].opens = "hello"
  BY <1>0 DEF AlertsTls
<1> QED BY <1>0, <1>6, <1>7, MovesOn DEF Places

LEMMA StepKeeps ==
  ASSUME NEW calls, NEW mode, NEW d, DoorsInv(d, calls, mode),
         NEW e \in AfterDoors(d, calls, mode)
  PROVE  DoorsInv(e, calls, mode)
<1>1. PICK c \in Conns : e \in Steps(d, c, calls, mode)
  BY DEF AfterDoors
<1>2. d.at[c] \in Places
  BY DEF DoorsInv, Counted, DoorsRecord
<1>3. CASE d.at[c] = "coming"
  BY <1>1, <1>3, StepsByPlace, AcceptKeeps
<1>4. CASE d.at[c] = "admitted"
  BY <1>1, <1>4, StepsByPlace, BeginKeeps
<1>5. CASE d.at[c] = "opening"
  BY <1>1, <1>5, StepsByPlace, OpenKeeps
<1>6. CASE d.at[c] = "probing"
  BY <1>1, <1>6, StepsByPlace, LookKeeps
<1>7. CASE d.at[c] = "looked"
  BY <1>1, <1>7, StepsByPlace, HoldKeeps
<1>8. CASE d.at[c] = "held"
  BY <1>1, <1>8, StepsByPlace, LetGoKeeps
<1>9. CASE d.at[c] \in Ended
  <2>1. c \in d.handled
    BY <1>1, <1>9, StepsByPlace
  <2> QED BY <1>1, <1>9, <2>1, StepsByPlace, ReturnKeeps
<1> QED BY <1>2, <1>3, <1>4, <1>5, <1>6, <1>7, <1>8, <1>9 DEF Places, Ended
------------------------------------------------------------------------------
(* Connections: any number of steps *)

\* Numbers counted on from 0 are all of them.
LEMMA CountedOn ==
  ASSUME NEW S, 0 \in S, \A n \in Nat : n \in S => n + 1 \in S
  PROVE  Nat \subseteq S
<1> SUFFICES ASSUME Nat \ S # {} PROVE FALSE
  OBVIOUS
<1> DEFINE T == Nat \ S
           R == OpToRel(<, Nat)
<1>1. PICK n \in T : \A k \in T : <<k, n>> \notin R
  <2>1. T \subseteq Nat /\ T # {}
    OBVIOUS
  <2> HIDE DEF T, R
  <2>2. IsWellFoundedOn(R, Nat)
    BY NatLessThanWellFounded DEF R
  <2> QED BY <2>1, <2>2, WFMin
<1>2. n \in Nat /\ n # 0 /\ n - 1 \in Nat /\ n - 1 < n
  <2>1. n \in Nat /\ n \notin S
    OBVIOUS
  <2>2. n # 0
    BY <2>1
  <2> QED BY <2>1, <2>2
<1>3. n - 1 \in S
  <2>1. <<n - 1, n>> \in R
    BY <1>2 DEF OpToRel
  <2> QED BY <1>1, <1>2, <2>1
<1>4. (n - 1) + 1 = n
  BY <1>2
<1> QED BY <1>1, <1>2, <1>3, <1>4

FirstDoors == [all |-> {NewDoors}, last |-> {NewDoors}]

\* f is what the doors can come to in 0 to n steps.
Course(f, n, calls, mode) ==
  f = [k \in 0 .. n |-> IF k = 0 THEN FirstDoors ELSE FurtherDoors(f[k - 1], calls, mode)]

LEMMA CourseExists ==
  ASSUME NEW calls, NEW mode, NEW n \in Nat
  PROVE  \E f : Course(f, n, calls, mode)
<1> DEFINE S == {k \in Nat : \E f : Course(f, k, calls, mode)}
<1>1. 0 \in S
  <2> DEFINE f == [k \in 0 .. 0 |-> FirstDoors]
  <2>1. Course(f, 0, calls, mode)
    BY DEF Course
  <2> QED BY <2>1
<1>2. ASSUME NEW k \in Nat, k \in S PROVE k + 1 \in S
  <2>1. PICK f : Course(f, k, calls, mode)
    BY <1>2
  <2> DEFINE g == [i \in 0 .. k + 1 |-> IF i <= k THEN f[i] ELSE FurtherDoors(f[k], calls, mode)]
  <2>2. \A i \in 0 .. k + 1 :
          g[i] = IF i = 0 THEN FirstDoors ELSE FurtherDoors(g[i - 1], calls, mode)
    <3> TAKE i \in 0 .. k + 1
    <3>1. CASE i = 0
      BY <2>1, <3>1 DEF Course
    <3>2. CASE i # 0 /\ i <= k
      <4>1. i \in 0 .. k /\ i - 1 \in 0 .. k /\ i - 1 \in 0 .. k + 1 /\ i - 1 <= k
        BY <3>2
      <4>2. f[i] = FurtherDoors(f[i - 1], calls, mode)
        BY <2>1, <3>2, <4>1 DEF Course
      <4> QED BY <3>2, <4>1, <4>2
    <3>3. CASE i # 0 /\ ~(i <= k)
      <4>1. i - 1 = k /\ k \in 0 .. k + 1 /\ k <= k
        BY <3>3
      <4>2. g[i] = FurtherDoors(f[k], calls, mode) /\ g[k] = f[k]
        BY <3>3, <4>1
      <4> QED BY <3>3, <4>1, <4>2
    <3> QED BY <3>1, <3>2, <3>3
  <2>3. Course(g, k + 1, calls, mode)
    <3>1. g = [i \in 0 .. k + 1 |-> g[i]]
      OBVIOUS
    <3> HIDE DEF g
    <3> QED BY <2>2, <3>1 DEF Course
  <2>4. \E h : Course(h, k + 1, calls, mode)
    BY <2>3
  <2> QED BY <2>4
<1>3. Nat \subseteq S
  <2> HIDE DEF S
  <2> QED BY <1>1, <1>2, CountedOn
<1> QED BY <1>3

LEMMA DoorsAreACourse ==
  ASSUME NEW calls, NEW mode
  PROVE  \E f : /\ Course(f, 8 * Cardinality(Conns), calls, mode)
                /\ Doors(calls, mode) = f[8 * Cardinality(Conns)].all
<1> DEFINE n == 8 * Cardinality(Conns)
           f == CHOOSE g : Course(g, n, calls, mode)
<1>1. n \in Nat
  BY OpeningsAssumption, FS_CardinalityType
<1>2. Course(f, n, calls, mode)
  <2> HIDE DEF n
  <2> QED BY <1>1, CourseExists
<1>3. Doors(calls, mode) = f[n].all
  BY DEF Doors, Course, FirstDoors
<1> QED BY <1>2, <1>3

LEMMA NewDoorsSound ==
  ASSUME NEW calls, NEW mode
  PROVE  DoorsInv(NewDoors, calls, mode)
<1>1. /\ NewDoors \in DoorsRecord /\ NewDoors.handled = {}
      /\ NewDoors.pending = 0 /\ NewDoors.decoys = 0 /\ NewDoors.raced = {}
      /\ \A c \in Conns : NewDoors.at[c] = "coming"
  BY DEF NewDoors, DoorsRecord, Places
<1>2. /\ At(NewDoors, "held") = {} /\ At(NewDoors, "admitted") = {} /\ Taken(NewDoors) = {}
      /\ Cardinality({}) = 0
  BY <1>1, FS_EmptySet DEF At, Taken
<1>3. MaxPending > 0 => 0 < MaxPending + Cardinality(Ports(calls))
  BY PortsFinite, OpeningsAssumption
<1> HIDE DEF NewDoors
<1>4. Counted(NewDoors)
  BY <1>1, <1>2 DEF Counted
<1>5. Capped(NewDoors, calls)
  BY <1>1, <1>2, <1>3 DEF Capped
<1>6. AlertsTls(NewDoors, calls, mode)
  BY <1>1 DEF AlertsTls
<1>7. Roomed(NewDoors)
  BY <1>1, <1>2, OpeningsAssumption DEF Roomed
<1> QED BY <1>4, <1>5, <1>6, <1>7 DEF DoorsInv

LEMMA DoorsSound ==
  ASSUME NEW calls, NEW mode, NEW d \in Doors(calls, mode)
  PROVE  DoorsInv(d, calls, mode)
<1> DEFINE n == 8 * Cardinality(Conns)
<1>0. n \in Nat
  BY OpeningsAssumption, FS_CardinalityType
<1>1. PICK f : Course(f, n, calls, mode) /\ Doors(calls, mode) = f[n].all
  BY DoorsAreACourse
<1> HIDE DEF n
<1> DEFINE Sound(k) == \A e \in f[k].all \cup f[k].last : DoorsInv(e, calls, mode)
           S == {k \in Nat : k <= n => Sound(k)}
<1>2. f[0] = FirstDoors /\ \A k \in 1 .. n : f[k] = FurtherDoors(f[k - 1], calls, mode)
  BY <1>0, <1>1 DEF Course
<1>3. 0 \in S
  BY <1>2, NewDoorsSound DEF FirstDoors
<1>4. ASSUME NEW k \in Nat, k \in S PROVE k + 1 \in S
  <2> SUFFICES ASSUME k + 1 <= n PROVE Sound(k + 1)
    OBVIOUS
  <2>1. Sound(k)
    BY <1>0, <1>4
  <2>2. f[k + 1] = FurtherDoors(f[k], calls, mode)
    <3>1. k + 1 \in 1 .. n /\ (k + 1) - 1 = k
      BY <1>0
    <3> QED BY <1>2, <3>1
  <2>3. \A e \in f[k + 1].all \cup f[k + 1].last :
          e \in f[k].all \/ \E b \in f[k].last : e \in AfterDoors(b, calls, mode)
    BY <2>2 DEF FurtherDoors
  <2> QED BY <2>1, <2>3, StepKeeps
<1>5. Nat \subseteq S
  <2> HIDE DEF S
  <2> QED BY <1>3, <1>4, CountedOn
<1>6. Sound(n)
  BY <1>0, <1>5
<1> QED BY <1>1, <1>6
------------------------------------------------------------------------------
(* The theorems *)

\* Where nobody can go on, everyone has gone.
LEMMA NobodyIsStuck ==
  ASSUME NEW calls, NEW mode, NEW d, DoorsInv(d, calls, mode),
         AfterDoors(d, calls, mode) = {}
  PROVE  /\ d.pending = 0 /\ d.decoys = 0
         /\ \A c \in Conns : d.at[c] \in Ended
<1>0. d \in DoorsRecord /\ Counted(d)
  BY DEF DoorsInv, Counted
<1>1. \A c \in Conns : Steps(d, c, calls, mode) = {}
  BY DEF AfterDoors
<1>a. \A c \in Conns :
        /\ Begins(d, c) # {} /\ Opens(d, c, calls[c].opens) # {} /\ Looks(d, c) # {}
        /\ Holds(d, c) # {} /\ LetsGo(d, c, calls[c].opens, mode) # {} /\ Returns(d, c) # {}
  <2>1. \A x : {x} # {}
    OBVIOUS
  <2>2. TAKE c \in Conns
  <2>3. Begins(d, c) # {}
    BY Zenon, <2>1 DEF Begins
  <2>4. Opens(d, c, calls[c].opens) # {}
    BY Zenon, <2>1 DEF Opens
  <2>5. Looks(d, c) # {}
    BY Zenon, <2>1 DEF Looks
  <2>6. Holds(d, c) # {}
    BY Zenon, <2>1 DEF Holds
  <2>7. LetsGo(d, c, calls[c].opens, mode) # {}
    BY Zenon, <2>1 DEF LetsGo
  <2>8. Returns(d, c) # {}
    BY Zenon, <2>1 DEF Returns
  <2> QED BY <2>3, <2>4, <2>5, <2>6, <2>7, <2>8
<1>2. \A c \in Conns : d.at[c] \notin {"admitted", "opening", "probing", "looked", "held"}
  <2> SUFFICES ASSUME NEW c \in Conns,
                      d.at[c] \in {"admitted", "opening", "probing", "looked", "held"}
               PROVE  Steps(d, c, calls, mode) # {}
    BY <1>1
  <2>1. CASE d.at[c] = "admitted"
    BY <2>1, <1>a, StepsByPlace
  <2>2. CASE d.at[c] = "opening"
    BY <2>2, <1>a, StepsByPlace
  <2>3. CASE d.at[c] = "probing"
    BY <2>3, <1>a, StepsByPlace
  <2>4. CASE d.at[c] = "looked"
    BY <2>4, <1>a, StepsByPlace
  <2>5. CASE d.at[c] = "held"
    BY <2>5, <1>a, StepsByPlace
  <2> QED BY <2>1, <2>2, <2>3, <2>4, <2>5
<1>3. \A c \in Conns : d.at[c] # "coming"
  <2> SUFFICES ASSUME NEW c \in Conns, d.at[c] = "coming"
               PROVE  Steps(d, c, calls, mode) # {}
    BY <1>1
  <2> QED BY <1>2, StepsByPlace DEF AcceptLoop
<1>4. \A c \in Conns : d.at[c] \in Ended
  BY <1>0, <1>2, <1>3 DEF DoorsRecord, Places, Ended
<1>5. d.handled = {}
  <2>1. \A c \in Conns : c \notin d.handled
    BY <1>1, <1>4, <1>a, StepsByPlace
  <2> QED BY <1>0, <2>1 DEF DoorsRecord
<1>6. At(d, "held") = {}
  BY <1>2 DEF At
<1> QED BY <1>0, <1>4, <1>5, <1>6, FS_EmptySet DEF Counted

LEMMA DecoysAreHandled ==
  ASSUME NEW d, Counted(d)
  PROVE  d.decoys <= d.pending
<1>1. At(d, "held") \in SUBSET d.handled /\ d.handled \in SUBSET Conns
  BY DEF Counted, At, DoorsRecord
<1>2. IsFiniteSet(d.handled)
  BY <1>1, ConnsFinite
<1>3. Cardinality(At(d, "held")) <= Cardinality(d.handled)
  BY <1>1, <1>2, FS_Subset
<1> QED BY <1>3 DEF Counted

\* However many connections come to however many ports, and under any probe
\* defence: the handlers of a TCP server stay within the cap and one for each
\* further port, the decoys pass their own cap by no more than raced past it, only
\* TLS clients are sent an alert, and nobody stays for ever (handleStreamConn,
\* handleStreamProbe).
THEOREM DoorsAreKept == \A mode : DoorsKept(mode)
<1> SUFFICES ASSUME NEW mode, NEW calls \in Calls, NEW d \in Doors(calls, mode)
             PROVE  /\ MaxPending > 0 => d.pending < MaxPending + Cardinality(Ports(calls))
                    /\ Roomed(d) /\ d.decoys <= d.pending
                    /\ AfterDoors(d, calls, mode) = {} =>
                         /\ d.pending = 0 /\ d.decoys = 0
                         /\ \A c \in Conns : d.at[c] \in Ended
                    /\ AlertsTls(d, calls, mode)
  <2>1. \A d : Taken(d) = {c \in Conns : d.at[c] \in {"looked", "held"}}
    BY DEF Taken, At
  <2> QED BY <2>1 DEF DoorsKept, Ports, AlertsTls, Roomed
<1>1. DoorsInv(d, calls, mode)
  BY DoorsSound
<1>2. MaxPending > 0 => d.pending < MaxPending + Cardinality(Ports(calls))
  <2>1. /\ d.pending \in Int /\ MaxPending \in Nat /\ Cardinality(Ports(calls)) \in Nat
        /\ Cardinality(At(d, "admitted")) \in Nat
    <3>1. At(d, "admitted") \in SUBSET Conns
      BY DEF At
    <3> QED BY <1>1, <3>1, ConnsFinite, PortsFinite, OpeningsAssumption
            DEF DoorsInv, Counted, DoorsRecord
  <2> QED BY <1>1, <2>1 DEF DoorsInv, Capped
<1>3. d.decoys <= d.pending
  BY <1>1, DecoysAreHandled DEF DoorsInv
<1> QED BY <1>1, <1>2, <1>3, NobodyIsStuck DEF DoorsInv

\* Whatever the immune system makes of the probe defence, all of this holds.
THEOREM DoorsStayKept == Spec => []StreamDoorsKept
<1>1. IInv => StreamDoorsKept
  BY ListenersKnowTheirOwn, DoorsAreKept DEF IInv, TypeOK, ThreatTypeOK, StreamDoorsKept, ModesKept
<1> QED BY <1>1, InvariantHolds, PTL
=============================================================================
