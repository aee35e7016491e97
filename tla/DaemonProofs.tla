---------------------------- MODULE DaemonProofs ----------------------------
(***************************************************************************)
(* Proofs about Daemon, for every set of sessions, setups, hosts, size of    *)
(* the pool, capacity of the accept queue and cap on handshakes.            *)
(*                                                                         *)
(* The inductive invariant IInv follows a session from its first request to *)
(* its pump: who is in the accept queue, whose pump runs, which sessions    *)
(* the routing table may know, and whose address the pool has marked.        *)
(***************************************************************************)
EXTENDS Daemon, FiniteSetTheorems, NaturalsInduction, WellFoundedInduction, TLAPS

------------------------------------------------------------------------------
(* The address pool *)

\* Of some addresses one is nearest to the hint.
LEMMA NearestOfSet ==
  ASSUME NEW p, p.nextHint \in Int, p.count \in Nat \ {0},
         NEW F, F \subseteq 0 .. p.count - 1, F # {}
  PROVE  \E i \in F : \A j \in F : Distance(p, i) <= Distance(p, j)
<1>1. ASSUME NEW i \in F PROVE Distance(p, i) \in Nat
  <2>1. i \in Int
    OBVIOUS
  <2> DEFINE d == i - p.nextHint
             n == p.count
  <2>2. d \in Int /\ n \in Nat /\ n > 0
    BY <2>1
  <2>3. d % n \in Nat
    <3> HIDE DEF d, n
    <3> QED BY <2>2
  <2> QED BY <2>3 DEF Distance
<1> DEFINE D == {Distance(p, i) : i \in F}
<1>2. D \subseteq Nat /\ D # {}
  BY <1>1
<1>3. PICK d \in D : \A e \in D : <<e, d>> \notin OpToRel(<, Nat)
  <2> HIDE DEF OpToRel, D
  <2> QED BY <1>2, NatLessThanWellFounded, WFMin
<1>4. \A e \in D : ~ (e < d)
  <2> HIDE DEF D
  <2> QED BY <1>2, <1>3 DEF OpToRel
<1>5. PICK i \in F : d = Distance(p, i)
  OBVIOUS
<1>6. ASSUME NEW j \in F PROVE Distance(p, i) <= Distance(p, j)
  <2>1. ~ (Distance(p, j) < Distance(p, i))
    BY <1>4, <1>5
  <2> QED BY <2>1, <1>1
<1> QED BY <1>6

\* Pool records, and what Allocate and Release do to them.
PoolFields == [count : 1 .. PoolSize, bits : SUBSET Addresses, nextHint : Addresses]
InBounds(p) == p.bits \subseteq 0 .. p.count - 1 /\ p.nextHint \in 0 .. p.count - 1
PoolRecord == {p \in PoolFields : InBounds(p)}

\* The addresses of a pool are addresses.
LEMMA PoolFacts ==
  ASSUME NEW p \in PoolRecord
  PROVE  /\ p.count \in Nat \ {0} /\ p.nextHint \in Int
         /\ p.nextHint \in 0 .. p.count - 1 /\ p.bits \subseteq 0 .. p.count - 1
         /\ 0 .. p.count - 1 \subseteq Addresses
BY PoolAssumption DEF PoolRecord, PoolFields, InBounds, Addresses

LEMMA NewRecord ==
  ASSUME NEW n \in 1 .. PoolSize, NEW b \in SUBSET (0 .. n - 1), NEW h \in 0 .. n - 1
  PROVE  [count |-> n, bits |-> b, nextHint |-> h] \in PoolRecord
<1> DEFINE p == [count |-> n, bits |-> b, nextHint |-> h]
<1>1. n \in Nat /\ 0 .. n - 1 \subseteq Addresses
  BY PoolAssumption DEF Addresses
<1>2. p \in PoolFields
  BY <1>1 DEF PoolFields
<1>3. InBounds(p)
  BY DEF InBounds
<1> QED BY <1>2, <1>3, Zenon DEF PoolRecord

LEMMA AllocatedSpec ==
  ASSUME NEW p \in PoolRecord, ~Exhausted(p)
  PROVE  /\ NextFree(p) \in Free(p) /\ NextFree(p) \in Addresses \ p.bits
         /\ Allocated(p) \in PoolRecord
         /\ Allocated(p).bits = p.bits \cup {NextFree(p)}
         /\ Allocated(p).count = p.count
<1> DEFINE n == p.count
           a == NextFree(p)
<1>1. /\ n \in Nat \ {0} /\ p.nextHint \in Int
      /\ p.bits \subseteq 0 .. n - 1 /\ 0 .. n - 1 \subseteq Addresses
  BY PoolFacts
<1>2. Free(p) # {} /\ Free(p) \subseteq 0 .. n - 1
  BY DEF Exhausted, Free
<1>3. \E i \in Free(p) : \A j \in Free(p) : Distance(p, i) <= Distance(p, j)
  BY <1>1, <1>2, NearestOfSet
<1>4. a \in Free(p)
  BY <1>3 DEF NextFree
<1>5. a \in 0 .. n - 1 /\ a \notin p.bits
  BY <1>4 DEF Free
<1> DEFINE m == a + 1
<1>6. m \in Int
  BY <1>1, <1>5
<1>7. m % n \in 0 .. n - 1
  <2> HIDE DEF m, n
  <2> QED BY <1>1, <1>6
<1>8. n \in 1 .. PoolSize
  BY DEF PoolRecord, PoolFields
<1>9. Allocated(p) = [count |-> n, bits |-> p.bits \cup {a}, nextHint |-> m % n]
  BY DEF Allocated
<1> HIDE DEF m, n, a
<1>10. p.bits \cup {a} \in SUBSET (0 .. n - 1)
  BY <1>1, <1>5
<1>11. Allocated(p) \in PoolRecord
  BY <1>7, <1>8, <1>9, <1>10, NewRecord
<1>12. Allocated(p).bits = p.bits \cup {a} /\ Allocated(p).count = n
  BY <1>9
<1> QED BY <1>1, <1>4, <1>5, <1>11, <1>12 DEF a, n

LEMMA ReleasedSpec ==
  ASSUME NEW p \in PoolRecord, NEW i \in Addresses
  PROVE  /\ Released(p, i) \in PoolRecord
         /\ Released(p, i).bits = p.bits \ {i}
         /\ Released(p, i).count = p.count
<1> DEFINE n == p.count
           b == p.bits \ {i}
           h == IF i < p.nextHint THEN i ELSE p.nextHint
<1>1. Released(p, i) = [count |-> n, bits |-> b, nextHint |-> h]
  BY DEF Released
<1>2. n \in 1 .. PoolSize
  BY DEF PoolRecord, PoolFields
<1>3. b \in SUBSET (0 .. n - 1)
  BY PoolFacts
<1>4. h \in 0 .. n - 1
  BY PoolFacts, PoolAssumption DEF Addresses
<1> HIDE DEF n, b, h
<1>5. Released(p, i) \in PoolRecord
  BY <1>1, <1>2, <1>3, <1>4, NewRecord
<1>6. Released(p, i).bits = b /\ Released(p, i).count = n
  BY <1>1
<1> QED BY <1>5, <1>6 DEF b, n

------------------------------------------------------------------------------
(* The routing table *)

RouteRecord ==
  [byIP : [Places -> Sessions \cup {NoSession}],
   byConn : [Sessions -> Places \cup {NoLease}],
   byHost : [Routes!Hosts -> SUBSET Sessions]]

\* RoutesAgree, of any table.
Agrees(r) ==
  /\ \A a \in Places : \A s \in Sessions : (r.byIP[a] = s) = (r.byConn[s] = a)
  /\ \A h \in Routes!Hosts :
       r.byHost[h] = {s \in Sessions : RemoteHost[s] = h /\ Routes!Routed(r, s)}

LEMMA NewRoutesSound ==
  Routes!NewRoutes \in RouteRecord /\ Agrees(Routes!NewRoutes)
  /\ \A s \in Sessions : ~Routes!Routed(Routes!NewRoutes, s)
BY DaemonAssumption DEF Routes!NewRoutes, RouteRecord, Agrees, Routes!Routed

LEMMA RegisterSound ==
  ASSUME NEW r \in RouteRecord, Agrees(r), NEW s \in Sessions, NEW a \in Places
  PROVE  LET q == Routes!Register(r, s, a) IN
         /\ q \in RouteRecord
         /\ Agrees(q)
         /\ \A t \in Sessions : Routes!Routed(q, t) => t = s \/ Routes!Routed(r, t)
         /\ q.byIP[a] = s
         /\ \A b \in Places : q.byIP[b] \in {s, NoSession, r.byIP[b]}
         /\ \A b \in Places : b # a => q.byIP[b] \in {NoSession, r.byIP[b]}
<1> DEFINE q == Routes!Register(r, s, a)
           o == Routes!Displaced(r, s, a)
<1>1. /\ r.byIP \in [Places -> Sessions \cup {NoSession}]
      /\ r.byConn \in [Sessions -> Places \cup {NoLease}]
      /\ r.byHost \in [Routes!Hosts -> SUBSET Sessions]
  BY DEF RouteRecord
<1>2. o = IF r.byIP[a] # s THEN r.byIP[a] ELSE NoSession
  BY DEF Routes!Displaced
<1>3. q = [byIP |-> [b \in Places |->
             IF b = a THEN s
             ELSE IF b = r.byConn[s] THEN NoSession ELSE r.byIP[b]],
           byConn |-> [t \in Sessions |->
             IF t = s THEN a ELSE IF t = o THEN NoLease ELSE r.byConn[t]],
           byHost |-> [h \in Routes!Hosts |->
             (r.byHost[h] \ {o}) \cup (IF h = RemoteHost[s] THEN {s} ELSE {})]]
  BY DEF Routes!Register, Routes!Displaced
<1> HIDE DEF q, o
<1>4. q \in RouteRecord
  BY <1>1, <1>3 DEF RouteRecord
<1>5. NoSession \notin Sessions /\ NoLease \notin Places
  BY DaemonAssumption
<1>6. ASSUME NEW b \in Places, NEW t \in Sessions
      PROVE  (q.byIP[b] = t) = (q.byConn[t] = b)
  <2>1. (r.byIP[b] = t) = (r.byConn[t] = b) /\ (r.byIP[a] = t) = (r.byConn[t] = a)
        /\ (r.byIP[b] = s) = (r.byConn[s] = b)
    BY DEF Agrees
  <2>2. q.byIP[b] = IF b = a THEN s
                    ELSE IF b = r.byConn[s] THEN NoSession ELSE r.byIP[b]
    BY <1>3
  <2>3. q.byConn[t] = IF t = s THEN a ELSE IF t = o THEN NoLease ELSE r.byConn[t]
    BY <1>3
  <2> QED BY <2>1, <2>2, <2>3, <1>2, <1>5
<1>7. ASSUME NEW h \in Routes!Hosts
      PROVE  q.byHost[h] = {t \in Sessions : RemoteHost[t] = h /\ Routes!Routed(q, t)}
  <2>1. q.byHost[h] = (r.byHost[h] \ {o}) \cup (IF h = RemoteHost[s] THEN {s} ELSE {})
    BY <1>3
  <2>2. r.byHost[h] = {t \in Sessions : RemoteHost[t] = h /\ r.byConn[t] # NoLease}
    BY DEF Agrees, Routes!Routed
  <2>3. \A t \in Sessions :
          q.byConn[t] = IF t = s THEN a ELSE IF t = o THEN NoLease ELSE r.byConn[t]
    BY <1>3
  <2>4. \A t \in Sessions : t \in q.byHost[h] <=> RemoteHost[t] = h /\ q.byConn[t] # NoLease
    <3>1. o # s
      BY <1>2, <1>5
    <3> HIDE DEF RemoteHost
    <3> QED BY <2>1, <2>2, <2>3, <1>5, <3>1
  <2>5. q.byHost[h] \subseteq Sessions
    BY <1>4 DEF RouteRecord
  <2>6. q.byHost[h] = {t \in Sessions : RemoteHost[t] = h /\ q.byConn[t] # NoLease}
    BY <2>4, <2>5, Zenon
  <2> QED BY <2>6 DEF Routes!Routed
<1>8. Agrees(q)
  BY <1>6, <1>7 DEF Agrees
<1>9. \A t \in Sessions : Routes!Routed(q, t) => t = s \/ Routes!Routed(r, t)
  BY <1>3 DEF Routes!Routed
<1>10. /\ q.byIP[a] = s
       /\ \A b \in Places : q.byIP[b] \in {s, NoSession, r.byIP[b]}
       /\ \A b \in Places : b # a => q.byIP[b] \in {NoSession, r.byIP[b]}
  BY <1>3
<1> QED BY <1>4, <1>8, <1>9, <1>10 DEF q

LEMMA RemoveSound ==
  ASSUME NEW r \in RouteRecord, Agrees(r), NEW s \in Sessions
  PROVE  LET q == Routes!Remove(r, s) IN
         /\ q \in RouteRecord
         /\ Agrees(q)
         /\ \A t \in Sessions : Routes!Routed(q, t) => Routes!Routed(r, t)
         /\ ~Routes!Routed(q, s)
         /\ \A b \in Places : q.byIP[b] \in {NoSession, r.byIP[b]}
<1> DEFINE q == Routes!Remove(r, s)
<1>1. /\ r.byIP \in [Places -> Sessions \cup {NoSession}]
      /\ r.byConn \in [Sessions -> Places \cup {NoLease}]
      /\ r.byHost \in [Routes!Hosts -> SUBSET Sessions]
  BY DEF RouteRecord
<1>2. q = [byIP |-> [b \in Places |-> IF b = r.byConn[s] THEN NoSession ELSE r.byIP[b]],
           byConn |-> [r.byConn EXCEPT ![s] = NoLease],
           byHost |-> [r.byHost EXCEPT ![RemoteHost[s]] = @ \ {s}]]
  BY DEF Routes!Remove
<1> HIDE DEF q
<1>3. q \in RouteRecord
  BY <1>1, <1>2 DEF RouteRecord
<1>4. NoSession \notin Sessions /\ NoLease \notin Places
  BY DaemonAssumption
<1>5. ASSUME NEW b \in Places, NEW t \in Sessions
      PROVE  (q.byIP[b] = t) = (q.byConn[t] = b)
  <2>1. (r.byIP[b] = t) = (r.byConn[t] = b)
    BY DEF Agrees
  <2>2. q.byIP[b] = IF b = r.byConn[s] THEN NoSession ELSE r.byIP[b]
    BY <1>2
  <2>3. q.byConn[t] = IF t = s THEN NoLease ELSE r.byConn[t]
    BY <1>1, <1>2
  <2>4. (r.byIP[b] = s) = (r.byConn[s] = b)
    BY DEF Agrees
  <2> QED BY <2>1, <2>2, <2>3, <2>4, <1>4
<1>6. ASSUME NEW h \in Routes!Hosts
      PROVE  q.byHost[h] = {t \in Sessions : RemoteHost[t] = h /\ Routes!Routed(q, t)}
  <2>1. q.byHost[h] = IF h = RemoteHost[s] THEN r.byHost[h] \ {s} ELSE r.byHost[h]
    BY <1>1, <1>2
  <2>2. r.byHost[h] = {t \in Sessions : RemoteHost[t] = h /\ r.byConn[t] # NoLease}
    BY DEF Agrees, Routes!Routed
  <2>3. \A t \in Sessions : q.byConn[t] = IF t = s THEN NoLease ELSE r.byConn[t]
    BY <1>1, <1>2
  <2>4. \A t \in Sessions : t \in q.byHost[h] <=> RemoteHost[t] = h /\ q.byConn[t] # NoLease
    <3> HIDE DEF RemoteHost
    <3> QED BY <2>1, <2>2, <2>3
  <2>5. q.byHost[h] \subseteq Sessions
    BY <1>3 DEF RouteRecord
  <2>6. q.byHost[h] = {t \in Sessions : RemoteHost[t] = h /\ q.byConn[t] # NoLease}
    BY <2>4, <2>5, Zenon
  <2> QED BY <2>6 DEF Routes!Routed
<1>7. Agrees(q)
  BY <1>5, <1>6 DEF Agrees
<1>8. \A t \in Sessions : Routes!Routed(q, t) => Routes!Routed(r, t)
  BY <1>1, <1>2 DEF Routes!Routed
<1>9. ~Routes!Routed(q, s)
  BY <1>1, <1>2 DEF Routes!Routed
<1>10. \A b \in Places : q.byIP[b] \in {NoSession, r.byIP[b]}
  BY <1>2
<1> QED BY <1>3, <1>7, <1>8, <1>9, <1>10 DEF q

LEMMA ReapSound ==
  ASSUME NEW r \in RouteRecord, Agrees(r), NEW s \in Sessions, NEW Q
  PROVE  LET q == Routes!Reap(r, s, Q) IN
         /\ q \in RouteRecord
         /\ Agrees(q)
         /\ \A t \in Sessions : Routes!Routed(q, t) => Routes!Routed(r, t)
         /\ \A b \in Places : q.byIP[b] \in {NoSession, r.byIP[b]}
         /\ \A t \in Routes!Roamed(r, s, Q) : t \in Sessions /\ Routes!Routed(r, t)
<1> DEFINE q == Routes!Reap(r, s, Q)
           old == Routes!Roamed(r, s, Q)
<1>1. /\ r.byIP \in [Places -> Sessions \cup {NoSession}]
      /\ r.byConn \in [Sessions -> Places \cup {NoLease}]
      /\ r.byHost \in [Routes!Hosts -> SUBSET Sessions]
  BY DEF RouteRecord
<1>2. q = [byIP |-> [a \in Places |->
             IF \E t \in old : r.byConn[t] = a THEN NoSession ELSE r.byIP[a]],
           byConn |-> [t \in Sessions |-> IF t \in old THEN NoLease ELSE r.byConn[t]],
           byHost |-> [r.byHost EXCEPT ![RemoteHost[s]] = @ \ old]]
  BY DEF Routes!Reap
<1>3. RemoteHost[s] \in Routes!Hosts
  BY DEF Routes!Hosts
<1>4. old \subseteq r.byHost[RemoteHost[s]]
  BY DEF Routes!Roamed
<1> HIDE DEF q, old
<1>5. \A t \in old : t \in Sessions /\ RemoteHost[t] = RemoteHost[s] /\ r.byConn[t] # NoLease
  <2>1. r.byHost[RemoteHost[s]]
          = {t \in Sessions : RemoteHost[t] = RemoteHost[s] /\ r.byConn[t] # NoLease}
    BY <1>3 DEF Agrees, Routes!Routed
  <2> HIDE DEF RemoteHost
  <2> QED BY <1>4, <2>1
<1>6. q \in RouteRecord
  BY <1>1, <1>2 DEF RouteRecord
<1>7. NoSession \notin Sessions /\ NoLease \notin Places
  BY DaemonAssumption
<1>8. ASSUME NEW b \in Places, NEW t \in Sessions
      PROVE  (q.byIP[b] = t) = (q.byConn[t] = b)
  <2>1. \A u \in Sessions : (r.byIP[b] = u) = (r.byConn[u] = b)
    BY DEF Agrees
  <2>2. q.byIP[b] = IF \E u \in old : r.byConn[u] = b THEN NoSession ELSE r.byIP[b]
    BY <1>2
  <2>3. q.byConn[t] = IF t \in old THEN NoLease ELSE r.byConn[t]
    BY <1>2
  <2>4. \A u \in old : u \in Sessions
    BY <1>5
  <2> QED BY <2>1, <2>2, <2>3, <2>4, <1>7
<1>9. ASSUME NEW h \in Routes!Hosts
      PROVE  q.byHost[h] = {t \in Sessions : RemoteHost[t] = h /\ Routes!Routed(q, t)}
  <2>1. q.byHost[h] = IF h = RemoteHost[s] THEN r.byHost[h] \ old ELSE r.byHost[h]
    BY <1>1, <1>2
  <2>2. r.byHost[h] = {t \in Sessions : RemoteHost[t] = h /\ r.byConn[t] # NoLease}
    BY DEF Agrees, Routes!Routed
  <2>3. \A t \in Sessions : q.byConn[t] = IF t \in old THEN NoLease ELSE r.byConn[t]
    BY <1>2
  <2>4. \A t \in Sessions : t \in q.byHost[h] <=> RemoteHost[t] = h /\ q.byConn[t] # NoLease
    <3> HIDE DEF RemoteHost
    <3> QED BY <2>1, <2>2, <2>3, <1>5
  <2>5. q.byHost[h] \subseteq Sessions
    BY <1>6 DEF RouteRecord
  <2>6. q.byHost[h] = {t \in Sessions : RemoteHost[t] = h /\ q.byConn[t] # NoLease}
    BY <2>4, <2>5, Zenon
  <2> QED BY <2>6 DEF Routes!Routed
<1>10. Agrees(q)
  BY <1>8, <1>9 DEF Agrees
<1>11. \A t \in Sessions : Routes!Routed(q, t) => Routes!Routed(r, t)
  BY <1>2 DEF Routes!Routed
<1>12. \A b \in Places : q.byIP[b] \in {NoSession, r.byIP[b]}
  BY <1>2
<1>13. \A t \in old : t \in Sessions /\ Routes!Routed(r, t)
  BY <1>5 DEF Routes!Routed
<1> QED BY <1>6, <1>10, <1>11, <1>12, <1>13 DEF q, old

------------------------------------------------------------------------------
(* The inductive invariant *)

SessionTypes ==
  /\ setup \in Setups
  /\ stage \in [Sessions -> {"idle", "pairing", "shaking", "offered", "leaving", "queued",
                             "running", "refused", "unsent", "gone"}]
  /\ open \subseteq Sessions /\ hungUp \subseteq Streams /\ pumping \subseteq Streams
  /\ registered \subseteq Streams /\ left \subseteq Streams

QueueTypes ==
  /\ queue \in Seq(Sessions) /\ Len(queue) <= Backlog
  /\ loop \in [at : {"accept", "assign", "failed", "over"}, of : Sessions \cup {NoSession}]

PoolTypes ==
  /\ pool \in PoolRecord /\ pool.count = setup.clients
  /\ lease \in [Sessions -> Addresses \cup {NoLease}]

PumpTypes ==
  /\ routes \in RouteRecord
  /\ inbox \in [Sessions -> Places \cup {NoLease}]
  /\ pump \in [Sessions -> [at : {"none", "start", "receive", "register", "roam", "write", "over"},
                            src : Places \cup {NoLease}]]
  /\ todo \in [Sessions -> SUBSET Sessions]

JobTypes ==
  /\ job \in [Goroutines -> [of : Sessions \cup {NoSession}, at : {"none", "cancel", "shut"}]]
  /\ \A g \in Goroutines : Idle(g) = (job[g].of = NoSession)

Waiting(q, s) == \E i \in DOMAIN q : q[i] = s
NoRepeats(q) == \A i, j \in DOMAIN q : q[i] = q[j] => i = j

\* The session the accept loop sends an address.
Assigning(s) == loop.at = "assign" /\ loop.of = s

\* A session is queued once, and then in the hands of the accept loop.
QueueSound ==
  /\ NoRepeats(queue)
  /\ \A s \in Sessions : (stage[s] = "queued") = (Waiting(queue, s) \/ Assigning(s))
  /\ loop.at = "assign" => loop.of \in Sessions /\ ~Waiting(queue, loop.of)

PairRecord == [listed : BOOLEAN, started : BOOLEAN,
               up : {"none", "waits", "holds", "over"},
               down : {"none", "waits", "holds", "over"}]

\* An HTTP session has one request waiting, or two that have found each other.
PairSound ==
  /\ pair \in [Sessions -> PairRecord]
  /\ \A s \in Sessions :
       /\ pair[s].started => s \in HttpLegs
       /\ stage[s] = "idle" => ~pair[s].started /\ pair[s].up = "none" /\ pair[s].down = "none"
       /\ stage[s] = "pairing" =>
            /\ ~pair[s].started /\ pair[s].listed
            /\ <<pair[s].up, pair[s].down>> \in {<<"waits", "none">>, <<"none", "waits">>}
       /\ stage[s] \notin {"idle", "pairing"} /\ ~pair[s].started =>
            pair[s].up # "waits" /\ pair[s].down # "waits"

\* Pumps run for accepted sessions only, the routing table knows no others, and
\* no others are closed.
PumpSound ==
  /\ ended \subseteq Sessions
  /\ \A s \in Sessions :
       /\ (pump[s].at # "none") = (stage[s] = "running")
       /\ Routes!Routed(routes, s) => stage[s] = "running"
       /\ inbox[s] # NoLease => stage[s] = "running"
       /\ s \in ended => stage[s] = "running"
       /\ \A t \in todo[s] : stage[t] = "running"

\* A pump registers the address of a packet.
SourcesSound == \A s \in Sessions : pump[s].at = "register" => pump[s].src \in Places

\* An address granted to a session that is not closed is marked and nobody else's.
LeaseSound ==
  /\ \A s \in Sessions : lease[s] # NoLease => stage[s] = "running" \/ Assigning(s)
  /\ loop.at = "assign" => lease[loop.of] # NoLease
  /\ \A s \in Sessions \ ended : lease[s] # NoLease => lease[s] \in pool.bits
  /\ \A s, t \in Sessions \ ended : lease[s] # NoLease /\ lease[s] = lease[t] => s = t

IInv ==
  /\ SessionTypes /\ QueueTypes /\ PoolTypes /\ PumpTypes /\ JobTypes
  /\ QueueSound /\ PairSound /\ PumpSound /\ SourcesSound /\ LeaseSound
  /\ Agrees(routes)

\* The invariant says what the runs check.
LEMMA InvariantSays == IInv => RoutesSound
<1> SUFFICES ASSUME IInv PROVE RoutesSound
  OBVIOUS
<1>1. \A s \in Sessions : (stage[s] = "queued") = (\E i \in DOMAIN queue : queue[i] = s) \/ loop.of = s
  BY DEF IInv, QueueSound, Waiting, Assigning
<1>2. \A s \in Sessions : pair[s].started => s \in HttpLegs
  BY DEF IInv, PairSound
<1>3. ended \subseteq {s \in Sessions : stage[s] = "running"}
  BY DEF IInv, PumpSound
<1>4. /\ pool.count = setup.clients
      /\ pool.bits \subseteq 0 .. pool.count - 1 /\ pool.nextHint \in 0 .. pool.count - 1
      /\ lease \in [Sessions -> Addresses \cup {NoLease}]
  BY PoolFacts DEF IInv, PoolTypes
<1>5. \A g \in Goroutines : Idle(g) = (job[g].of = NoSession)
  BY DEF IInv, JobTypes
<1>6. DaemonTypeOK
  BY <1>1, <1>2, <1>3, <1>4, <1>5 DEF IInv, SessionTypes, QueueTypes, DaemonTypeOK
<1>7. RoutesAgree
  BY DEF IInv, Agrees, RoutesAgree
<1> QED BY <1>6, <1>7 DEF RoutesSound

------------------------------------------------------------------------------
(* The initial states *)

LEMMA InitSound == Init => IInv
<1> SUFFICES ASSUME Init PROVE IInv
  OBVIOUS
<1>1. SessionTypes
  BY DEF Init, SessionTypes
<1>2. QueueTypes
  BY DaemonAssumption DEF Init, QueueTypes
<1>3. PoolTypes
  <2>1. setup.clients \in 1 .. PoolSize
    BY DaemonAssumption DEF Init
  <2>2. NewPool(setup.clients) \in PoolRecord /\ NewPool(setup.clients).count = setup.clients
    <3>1. {} \in SUBSET (0 .. setup.clients - 1) /\ 0 \in 0 .. setup.clients - 1
      BY <2>1, PoolAssumption
    <3> QED BY <2>1, <3>1, NewRecord DEF NewPool
  <2> QED BY <2>2 DEF Init, PoolTypes
<1>4. routes \in RouteRecord /\ Agrees(routes)
      /\ \A s \in Sessions : ~Routes!Routed(routes, s)
  <2>1. routes = Routes!NewRoutes
    BY DEF Init
  <2> QED BY <2>1, NewRoutesSound
<1>5. PumpTypes
  BY <1>4 DEF Init, PumpTypes
<1>6. JobTypes
  BY DEF Init, JobTypes, NoJob, Idle
<1>7. QueueSound
  BY DEF Init, QueueSound, NoRepeats, Waiting, Assigning
<1>8. PairSound
  BY DEF Init, PairSound, PairRecord, Pairing!NewPair
<1>9. PumpSound
  BY <1>4 DEF Init, PumpSound
<1>10. SourcesSound
  BY DEF Init, SourcesSound
<1>11. LeaseSound
  BY DEF Init, LeaseSound, Assigning
<1> QED BY <1>1, <1>2, <1>3, <1>4, <1>5, <1>6, <1>7, <1>8, <1>9, <1>10, <1>11 DEF IInv

------------------------------------------------------------------------------
(* Steps that leave the queue, the pool, the pumps and the routes alone *)

handedOn == <<queue, loop, pool, lease, routes, inbox, pump, todo, ended>>

\* The conjuncts such a step cannot disturb, if it leaves alone who is queued
\* and who runs.
LEMMA HandedOnKept ==
  ASSUME IInv, UNCHANGED <<setup, handedOn>>, SessionTypes', JobTypes', PairSound',
         \A s \in Sessions : /\ (stage'[s] = "queued") = (stage[s] = "queued")
                             /\ (stage'[s] = "running") = (stage[s] = "running")
  PROVE  IInv'
<1>1. /\ setup' = setup /\ queue' = queue /\ loop' = loop /\ pool' = pool /\ lease' = lease
      /\ routes' = routes /\ inbox' = inbox /\ pump' = pump /\ todo' = todo /\ ended' = ended
  BY DEF handedOn
<1>2. QueueTypes' /\ PoolTypes'
  BY <1>1 DEF IInv, QueueTypes, PoolTypes
<1>3. PumpTypes' /\ Agrees(routes)'
  <2>1. Routes!Hosts' = Routes!Hosts /\ RemoteHost' = RemoteHost
    BY <1>1 DEF Routes!Hosts, RemoteHost
  <2>2. RouteRecord' = RouteRecord
    BY <2>1 DEF RouteRecord
  <2>3. PumpTypes'
    BY <1>1, <2>2 DEF IInv, PumpTypes
  <2>4. Agrees(routes)'
    BY <1>1, <2>1 DEF IInv, Agrees, Routes!Routed
  <2> QED BY <2>3, <2>4
<1>4. QueueSound'
  BY <1>1 DEF IInv, QueueSound, Waiting, Assigning, NoRepeats
<1>5. PumpSound' /\ SourcesSound'
  <2>1. PumpSound'
    <3>1. \A s \in Sessions : todo[s] \subseteq Sessions
      BY DEF IInv, PumpTypes
    <3> QED BY <1>1, <3>1 DEF IInv, PumpSound, Routes!Routed
  <2> QED BY <1>1, <2>1 DEF IInv, SourcesSound
<1>6. LeaseSound'
  BY <1>1 DEF IInv, LeaseSound, Assigning
<1> QED BY <1>2, <1>3, <1>4, <1>5, <1>6 DEF IInv

LEMMA Subsets ==
  IInv => /\ open \subseteq Sessions /\ hungUp \subseteq Streams /\ pumping \subseteq Streams
          /\ registered \subseteq Streams /\ left \subseteq Streams
BY DEF IInv, SessionTypes

\* Steps of the process, of the network and of a Close that is under way.
LEMMA SameStages ==
  ASSUME IInv, UNCHANGED <<setup, stage, pair, handedOn>>, JobTypes',
         open' \subseteq Sessions, hungUp' \subseteq Streams, pumping' \subseteq Streams,
         registered' \subseteq Streams, left' \subseteq Streams
  PROVE  IInv'
<1>1. setup' = setup /\ stage' = stage /\ pair' = pair
  OBVIOUS
<1>2. Streams' = Streams /\ HttpLegs' = HttpLegs
  BY <1>1 DEF Streams, HttpLegs
<1>3. SessionTypes'
  BY <1>1, <1>2 DEF IInv, SessionTypes
<1>4. PairSound'
  BY <1>1, <1>2 DEF IInv, PairSound
<1> QED BY <1>1, <1>3, <1>4, HandedOnKept

\* A session that is not yet queued goes from one stage to another.
Entry == {"idle", "pairing", "shaking", "offered", "leaving", "gone"}

LEMMA EntryStep ==
  ASSUME IInv, UNCHANGED <<setup, left, handedOn>>,
         NEW s \in Sessions, stage[s] \in Entry, NEW v \in Entry,
         stage' = [stage EXCEPT ![s] = v],
         JobTypes', PairSound',
         open' \subseteq Sessions, hungUp' \subseteq Streams, pumping' \subseteq Streams,
         registered' \subseteq Streams
  PROVE  IInv'
<1>1. setup' = setup /\ left' = left
  OBVIOUS
<1>2. Streams' = Streams
  BY <1>1 DEF Streams
<1>3. SessionTypes'
  BY <1>1, <1>2 DEF IInv, SessionTypes, Entry
<1>4. \A t \in Sessions : /\ (stage'[t] = "queued") = (stage[t] = "queued")
                          /\ (stage'[t] = "running") = (stage[t] = "running")
  BY DEF Entry, IInv, SessionTypes
<1> QED BY <1>3, <1>4, HandedOnKept

\* The pair of a session that has come past its requests.
LEMMA PairKept ==
  ASSUME IInv, UNCHANGED <<setup, pair>>, NEW s \in Sessions,
         stage[s] # "pairing", stage'[s] \notin {"idle", "pairing"},
         \A t \in Sessions \ {s} : stage'[t] = stage[t]
  PROVE  PairSound'
<1>1. setup' = setup /\ pair' = pair
  OBVIOUS
<1>2. HttpLegs' = HttpLegs
  BY <1>1 DEF HttpLegs
<1>3. PairSound
  BY DEF IInv
<1> QED BY <1>1, <1>2, <1>3 DEF PairSound

LEMMA StageOf ==
  ASSUME IInv, NEW s \in Sessions, NEW v, stage' = [stage EXCEPT ![s] = v]
  PROVE  stage'[s] = v /\ \A t \in Sessions \ {s} : stage'[t] = stage[t]
BY DEF IInv, SessionTypes

\* A call of Close is under way.
LEMMA TunnelClosing ==
  ASSUME IInv, NEW g \in Goroutines, NEW s \in Sessions, CloseTunnel(g, s)
  PROVE  JobTypes'
<1>1. job' = [job EXCEPT ![g] = [of |-> s, at |-> IF s \in pumping THEN "cancel" ELSE "shut"]]
  BY DEF CloseTunnel
<1>2. NoSession \notin Sessions
  BY DaemonAssumption
<1> QED BY <1>1, <1>2 DEF IInv, JobTypes, Idle

LEMMA GoroutineNames ==
  /\ Acceptor \in Goroutines /\ Server \in Goroutines
  /\ \A s \in Sessions : Pump(s) \in Goroutines /\ Reaper(s) \in Goroutines /\ Handler(s) \in Goroutines
BY DEF Acceptor, Server, Pump, Reaper, Handler, Goroutines

------------------------------------------------------------------------------
(* Handlers and the process *)

LEMMA DialSound ==
  ASSUME IInv, NEW s \in Sessions, Dial(s)
  PROVE  IInv'
<1>1. UNCHANGED <<setup, left, handedOn, pair>> /\ UNCHANGED <<open, hungUp, pumping, registered, job>>
  BY DEF Dial, handlerFrame, handedOn, poolVars, pumpVars
<1>2. stage[s] = "idle" /\ s \notin HttpLegs
  BY DEF Dial
<1>3. PICK v \in {"gone", "shaking"} : stage' = [stage EXCEPT ![s] = v]
  BY DEF Dial
<1>4. JobTypes'
  BY <1>1 DEF IInv, JobTypes, Idle
<1>5. PairSound'
  BY <1>1, <1>2, <1>3, StageOf, PairKept
<1> QED BY <1>1, <1>2, <1>3, <1>4, <1>5, Subsets, EntryStep DEF Entry

\* What the coming and going of a request does to a pair.
LEMMA UploadComes ==
  ASSUME NEW p \in PairRecord
  PROVE  LET q == Pairing!UploadCome(p) IN
         /\ q \in PairRecord /\ q.listed
         /\ q.started <=> p.listed /\ p.down = "waits"
         /\ IF q.started THEN q.up = "holds" ELSE q.up = "waits" /\ q.down = p.down
BY DEF PairRecord, Pairing!UploadCome, Pairing!Found

LEMMA DownloadComes ==
  ASSUME NEW p \in PairRecord
  PROVE  LET q == Pairing!DownloadCome(p) IN
         /\ q \in PairRecord /\ q.listed
         /\ q.started <=> p.listed /\ p.up = "waits"
         /\ IF q.started THEN q.up = "holds" ELSE q.down = "waits" /\ q.up = p.up
BY DEF PairRecord, Pairing!DownloadCome, Pairing!Found

LEMMA RequestGone ==
  ASSUME NEW p \in PairRecord
  PROVE  /\ LET q == Pairing!UploadGivesUp(p) IN
            /\ q \in PairRecord /\ (q.started <=> p.started)
            /\ q.up = "over" /\ q.down = p.down
         /\ LET q == Pairing!DownloadGivesUp(p) IN
            /\ q \in PairRecord /\ (q.started <=> p.started)
            /\ q.up = p.up /\ q.down = "over"
BY DEF PairRecord, Pairing!UploadGivesUp, Pairing!DownloadGivesUp, Pairing!Dropped

LEMMA RequestComesSound ==
  ASSUME IInv, NEW s \in Sessions, RequestComes(s)
  PROVE  IInv'
<1>1. UNCHANGED <<setup, left, handedOn>> /\ UNCHANGED <<open, hungUp, pumping, registered, job>>
  BY DEF RequestComes, pairFrame, handedOn, poolVars, pumpVars
<1>2. stage[s] \in {"idle", "pairing"} /\ s \in HttpLegs
  BY DEF RequestComes
<1>3. stage' = [stage EXCEPT ![s] = IF pair'[s].started THEN "shaking" ELSE "pairing"]
  BY DEF RequestComes
<1>4. \/ pair[s].up = "none" /\ pair' = [pair EXCEPT ![s] = Pairing!UploadCome(pair[s])]
      \/ pair[s].down = "none" /\ pair' = [pair EXCEPT ![s] = Pairing!DownloadCome(pair[s])]
  BY DEF RequestComes
<1>5. JobTypes'
  BY <1>1 DEF IInv, JobTypes, Idle
<1>6. pair \in [Sessions -> PairRecord] /\ pair[s] \in PairRecord
  BY DEF IInv, PairSound
<1>7. pair' \in [Sessions -> PairRecord] /\ \A t \in Sessions \ {s} : pair'[t] = pair[t]
  BY <1>4, <1>6, UploadComes, DownloadComes
<1>8. ~pair'[s].started =>
         /\ pair'[s].listed
         /\ <<pair'[s].up, pair'[s].down>> \in {<<"waits", "none">>, <<"none", "waits">>}
  <2>1. \/ pair[s].up = "none" /\ pair[s].down = "none"
        \/ pair[s].listed /\ pair[s].up = "waits" /\ pair[s].down = "none"
        \/ pair[s].listed /\ pair[s].up = "none" /\ pair[s].down = "waits"
    BY <1>2 DEF IInv, PairSound
  <2>2. CASE pair[s].up = "none" /\ pair'[s] = Pairing!UploadCome(pair[s])
    <3>1. /\ pair'[s].listed /\ (pair'[s].started <=> pair[s].listed /\ pair[s].down = "waits")
          /\ ~pair'[s].started => pair'[s].up = "waits" /\ pair'[s].down = pair[s].down
      BY <1>6, <2>2, UploadComes
    <3> QED BY <2>1, <2>2, <3>1
  <2>3. CASE pair[s].down = "none" /\ pair'[s] = Pairing!DownloadCome(pair[s])
    <3>1. /\ pair'[s].listed /\ (pair'[s].started <=> pair[s].listed /\ pair[s].up = "waits")
          /\ ~pair'[s].started => pair'[s].down = "waits" /\ pair'[s].up = pair[s].up
      BY <1>6, <2>3, DownloadComes
    <3> QED BY <2>1, <2>3, <3>1
  <2> QED BY <1>4, <1>6, <2>2, <2>3
<1>9. PICK v \in {"shaking", "pairing"} :
        stage' = [stage EXCEPT ![s] = v] /\ (v = "shaking" <=> pair'[s].started)
  BY <1>3
<1>10. PairSound'
  <2>1. HttpLegs' = HttpLegs
    BY <1>1 DEF HttpLegs
  <2>2. stage'[s] = v /\ \A t \in Sessions \ {s} : stage'[t] = stage[t]
    BY <1>9, StageOf
  <2> QED BY <1>2, <1>7, <1>8, <1>9, <2>1, <2>2 DEF IInv, PairSound
<1> QED BY <1>1, <1>2, <1>5, <1>9, <1>10, Subsets, EntryStep DEF Entry

LEMMA RequestGivesUpSound ==
  ASSUME IInv, NEW s \in Sessions, RequestGivesUp(s)
  PROVE  IInv'
<1>1. UNCHANGED <<setup, left, handedOn>> /\ UNCHANGED <<open, pumping, registered, job>>
  BY DEF RequestGivesUp, pairFrame, handedOn, poolVars, pumpVars
<1>2. \/ pair[s].up = "waits" /\ pair' = [pair EXCEPT ![s] = Pairing!UploadGivesUp(pair[s])]
      \/ pair[s].down = "waits" /\ pair' = [pair EXCEPT ![s] = Pairing!DownloadGivesUp(pair[s])]
  BY DEF RequestGivesUp
<1>3. JobTypes'
  BY <1>1 DEF IInv, JobTypes, Idle
<1>4. HttpLegs' = HttpLegs /\ Streams' = Streams
  BY <1>1 DEF HttpLegs, Streams
<1>5. pair \in [Sessions -> PairRecord] /\ pair[s] \in PairRecord
  BY DEF IInv, PairSound
<1>6. /\ pair' \in [Sessions -> PairRecord]
      /\ \A t \in Sessions \ {s} : pair'[t] = pair[t]
      /\ pair'[s].started <=> pair[s].started
      /\ \/ pair[s].up = "waits" /\ pair'[s].up = "over" /\ pair'[s].down = pair[s].down
         \/ pair[s].down = "waits" /\ pair'[s].up = pair[s].up /\ pair'[s].down = "over"
  BY <1>2, <1>5, RequestGone
<1>7. CASE pair[s].started
  <2>1. stage' = stage /\ hungUp' = hungUp \cup {s}
    BY <1>7 DEF RequestGivesUp
  <2>2. s \in HttpLegs /\ stage[s] \notin {"idle", "pairing"}
    BY <1>7 DEF IInv, PairSound
  <2>3. hungUp' \subseteq Streams
    BY <2>1, <2>2 DEF IInv, SessionTypes, Streams, HttpLegs
  <2>4. PairSound'
    BY <1>4, <1>6, <1>7, <2>1, <2>2 DEF IInv, PairSound
  <2>5. SessionTypes'
    BY <1>1, <1>4, <2>1, <2>3 DEF IInv, SessionTypes
  <2> QED BY <1>1, <1>3, <2>1, <2>4, <2>5, HandedOnKept
<1>8. CASE ~pair[s].started
  <2>1. stage' = [stage EXCEPT ![s] = "gone"] /\ hungUp' = hungUp
    BY <1>8 DEF RequestGivesUp
  <2>2. stage[s] = "pairing"
    BY <1>6, <1>8 DEF IInv, PairSound
  <2>3. PairSound'
    <3>1. stage'[s] = "gone" /\ \A t \in Sessions \ {s} : stage'[t] = stage[t]
      BY <2>1, StageOf
    <3>2. pair'[s].up # "waits" /\ pair'[s].down # "waits"
      BY <1>6, <1>8, <2>2 DEF IInv, PairSound
    <3> QED BY <1>4, <1>6, <1>8, <3>1, <3>2 DEF IInv, PairSound
  <2> QED BY <1>1, <1>3, <2>1, <2>2, <2>3, Subsets, EntryStep DEF Entry
<1> QED BY <1>7, <1>8

LEMMA PairEndsSound ==
  ASSUME IInv, NEW s \in Sessions, PairEnds(s)
  PROVE  IInv'
<1>1. UNCHANGED <<setup, stage, left, handedOn>> /\ UNCHANGED <<open, hungUp, pumping, registered, job>>
  BY DEF PairEnds, pairFrame, handedOn, poolVars, pumpVars
<1>2. pair[s].started /\ pair' = [pair EXCEPT ![s] = Pairing!Dropped(pair[s])]
  BY DEF PairEnds
<1>3. HttpLegs' = HttpLegs /\ Streams' = Streams /\ stage' = stage
  BY <1>1 DEF HttpLegs, Streams
<1>4. pair \in [Sessions -> PairRecord] /\ pair[s] \in PairRecord
  BY DEF IInv, PairSound
<1>5. LET q == Pairing!Dropped(pair[s]) IN q \in PairRecord /\ (q.started <=> pair[s].started)
  BY <1>4 DEF PairRecord, Pairing!Dropped
<1>6. /\ pair' \in [Sessions -> PairRecord] /\ pair'[s].started
      /\ \A t \in Sessions \ {s} : pair'[t] = pair[t]
  BY <1>2, <1>4, <1>5
<1>7. PairSound'
  <2>1. s \in HttpLegs /\ stage[s] \notin {"idle", "pairing"}
    BY <1>2 DEF IInv, PairSound
  <2> QED BY <1>3, <1>6, <2>1 DEF IInv, PairSound
<1>8. JobTypes' /\ SessionTypes'
  BY <1>1, <1>3 DEF IInv, JobTypes, Idle, SessionTypes
<1> QED BY <1>1, <1>7, <1>8, HandedOnKept

LEMMA HandshakeDoneSound ==
  ASSUME IInv, NEW s \in Sessions, HandshakeDone(s)
  PROVE  IInv'
<1>1. UNCHANGED <<setup, left, handedOn, pair>> /\ UNCHANGED <<hungUp, job>>
  BY DEF HandshakeDone, handlerFrame, handedOn, poolVars, pumpVars
<1>2. stage[s] = "shaking" /\ stage' = [stage EXCEPT ![s] = "offered"]
  BY DEF HandshakeDone
<1>3. /\ open' \subseteq Sessions /\ registered' \subseteq Streams /\ pumping' \subseteq Streams
  BY DEF HandshakeDone, IInv, SessionTypes
<1>4. JobTypes'
  BY <1>1 DEF IInv, JobTypes, Idle
<1>5. PairSound'
  BY <1>1, <1>2, StageOf, PairKept
<1> QED BY <1>1, <1>2, <1>3, <1>4, <1>5, Subsets, EntryStep DEF Entry

LEMMA HandlerEndsSound ==
  ASSUME IInv, NEW s \in Sessions, HandshakeFails(s) \/ Leave(s)
  PROVE  IInv'
<1>1. UNCHANGED <<setup, left, handedOn, pair>> /\ UNCHANGED <<open, hungUp, pumping, registered, job>>
  BY DEF HandshakeFails, Leave, handlerFrame, handedOn, poolVars, pumpVars
<1>2. stage[s] \in {"shaking", "leaving"} /\ stage' = [stage EXCEPT ![s] = "gone"]
  BY DEF HandshakeFails, Leave
<1>3. JobTypes'
  BY <1>1 DEF IInv, JobTypes, Idle
<1>4. PairSound'
  BY <1>1, <1>2, StageOf, PairKept
<1> QED BY <1>1, <1>2, <1>3, <1>4, Subsets, EntryStep DEF Entry

LEMMA OfferCancelledSound ==
  ASSUME IInv, NEW s \in Sessions, OfferCancelled(s)
  PROVE  IInv'
<1>1. UNCHANGED <<setup, left, handedOn, pair>> /\ UNCHANGED <<open, hungUp, pumping>>
  BY DEF OfferCancelled, handlerFrame, handedOn, poolVars, pumpVars
<1>2. stage[s] = "offered" /\ stage' = [stage EXCEPT ![s] = "leaving"]
      /\ registered' = registered \ {s}
  BY DEF OfferCancelled
<1>3. JobTypes'
  BY TunnelClosing, GoroutineNames DEF OfferCancelled
<1>4. PairSound'
  BY <1>1, <1>2, StageOf, PairKept
<1> QED BY <1>1, <1>2, <1>3, <1>4, Subsets, EntryStep DEF Entry

LEMMA ClosingSound ==
  ASSUME IInv, NEW g \in Goroutines, Closing(g)
  PROVE  IInv'
<1>1. CASE CloseReturns(g)
  <2>1. UNCHANGED <<setup, stage, pair, handedOn>> /\ UNCHANGED <<hungUp, registered, left>>
    BY <1>1 DEF CloseReturns, handedOn, poolVars, pumpVars
  <2>2. open' \subseteq Sessions /\ pumping' \subseteq Streams
    BY <1>1 DEF CloseReturns, IInv, SessionTypes
  <2>3. JobTypes'
    BY <1>1 DEF CloseReturns, IInv, JobTypes, Idle, NoJob
  <2> QED BY <2>1, <2>2, <2>3, Subsets, SameStages
<1>2. CASE ClosePanics(g)
  <2>1. UNCHANGED <<setup, stage, pair, handedOn>>
        /\ UNCHANGED <<open, hungUp, pumping, registered, left, job>>
    BY <1>2 DEF ClosePanics, handedOn, poolVars, pumpVars, sessionVars
  <2>2. JobTypes'
    BY <2>1 DEF IInv, JobTypes, Idle
  <2> QED BY <2>1, <2>2, Subsets, SameStages
<1> QED BY <1>1, <1>2 DEF Closing

LEMMA MainSound ==
  ASSUME IInv, MainStep \/ Interrupt
  PROVE  IInv'
<1>1. UNCHANGED <<setup, stage, pair, handedOn>> /\ UNCHANGED <<hungUp, pumping, registered>>
  BY DEF MainStep, Interrupt, StartStep, FatalStops, BeginClose, CloseStream, Exit,
         mainFrame, handedOn, poolVars, pumpVars
<1>2. open' \subseteq Sessions
  BY DEF MainStep, Interrupt, StartStep, FatalStops, BeginClose, CloseStream, Exit, IInv, SessionTypes
<1>3. left' \subseteq Streams
  BY DEF MainStep, Interrupt, StartStep, FatalStops, BeginClose, CloseStream, Exit, IInv, SessionTypes
<1>4. JobTypes'
  <2>1. CASE CloseStream
    <3>1. PICK s \in left : CloseTunnel(Server, s)
      BY <2>1 DEF CloseStream
    <3>2. s \in Sessions
      BY DEF IInv, SessionTypes, Streams
    <3> QED BY <3>1, <3>2, GoroutineNames, TunnelClosing
  <2>2. CASE ~CloseStream
    <3>1. job' = job
      BY <2>2 DEF MainStep, Interrupt, StartStep, FatalStops, BeginClose, Exit
    <3> QED BY <3>1 DEF IInv, JobTypes, Idle
  <2> QED BY <2>1, <2>2
<1> QED BY <1>1, <1>2, <1>3, <1>4, Subsets, SameStages

LEMMA QuietEndsSound ==
  ASSUME IInv, NEW s \in Sessions, Sweep(s) \/ HangUp(s)
  PROVE  IInv'
<1>1. UNCHANGED <<setup, stage, pair, handedOn>> /\ UNCHANGED <<pumping, registered, left, job>>
  BY DEF Sweep, HangUp, handedOn, poolVars, pumpVars
<1>2. open' \subseteq Sessions /\ hungUp' \subseteq Streams
  BY DEF Sweep, HangUp, IInv, SessionTypes
<1>3. JobTypes'
  BY <1>1 DEF IInv, JobTypes, Idle
<1> QED BY <1>1, <1>2, <1>3, Subsets, SameStages

------------------------------------------------------------------------------
(* The accept queue *)

LEMMA AppendSpec ==
  ASSUME NEW q \in Seq(Sessions), NoRepeats(q), NEW s \in Sessions, ~Waiting(q, s)
  PROVE  /\ Append(q, s) \in Seq(Sessions) /\ Len(Append(q, s)) = Len(q) + 1
         /\ NoRepeats(Append(q, s))
         /\ \A t \in Sessions : Waiting(Append(q, s), t) <=> Waiting(q, t) \/ t = s
<1> DEFINE r == Append(q, s)
<1>1. r \in Seq(Sessions) /\ Len(r) = Len(q) + 1 /\ Len(q) \in Nat
  OBVIOUS
<1>2. DOMAIN q = 1..Len(q) /\ DOMAIN r = 1..(Len(q) + 1)
  OBVIOUS
<1>3. \A i \in 1..Len(q) : r[i] = q[i]
  OBVIOUS
<1>4. r[Len(q) + 1] = s
  OBVIOUS
<1> HIDE DEF r
<1>5. NoRepeats(r)
  BY <1>1, <1>2, <1>3, <1>4 DEF NoRepeats, Waiting
<1>6. ASSUME NEW t \in Sessions PROVE Waiting(r, t) <=> Waiting(q, t) \/ t = s
  BY <1>1, <1>2, <1>3, <1>4 DEF Waiting
<1> QED BY <1>1, <1>5, <1>6 DEF r

LEMMA TailSpec ==
  ASSUME NEW q \in Seq(Sessions), NoRepeats(q), q # <<>>
  PROVE  /\ Head(q) \in Sessions /\ Waiting(q, Head(q))
         /\ Tail(q) \in Seq(Sessions) /\ Len(Tail(q)) <= Len(q)
         /\ NoRepeats(Tail(q))
         /\ \A t \in Sessions : Waiting(Tail(q), t) <=> Waiting(q, t) /\ t # Head(q)
<1> DEFINE r == Tail(q)
<1>1. r \in Seq(Sessions) /\ Len(r) = Len(q) - 1 /\ Len(q) \in Nat /\ Len(q) >= 1
  OBVIOUS
<1>2. DOMAIN q = 1..Len(q) /\ DOMAIN r = 1..(Len(q) - 1)
  BY <1>1
<1>3. \A i \in 1..(Len(q) - 1) : r[i] = q[i + 1]
  BY <1>1
<1>4. Head(q) = q[1] /\ Head(q) \in Sessions
  BY <1>1
<1> HIDE DEF r
<1>5. NoRepeats(r)
  <2> SUFFICES ASSUME NEW i \in 1..(Len(q) - 1), NEW j \in 1..(Len(q) - 1), r[i] = r[j]
               PROVE  i = j
    BY <1>2 DEF NoRepeats
  <2>1. q[i + 1] = q[j + 1] /\ i + 1 \in 1..Len(q) /\ j + 1 \in 1..Len(q)
    BY <1>1, <1>3
  <2>2. i + 1 = j + 1
    BY <2>1, <1>2 DEF NoRepeats
  <2> QED BY <2>2
<1>6. Waiting(q, Head(q))
  BY <1>1, <1>2, <1>4 DEF Waiting
<1>7. ASSUME NEW t \in Sessions PROVE Waiting(r, t) <=> Waiting(q, t) /\ t # Head(q)
  <2>1. ASSUME Waiting(r, t) PROVE Waiting(q, t) /\ t # Head(q)
    <3>1. PICK i \in 1..(Len(q) - 1) : r[i] = t
      BY <2>1, <1>2 DEF Waiting
    <3>2. q[i + 1] = t /\ i + 1 \in 1..Len(q) /\ i + 1 # 1 /\ 1 \in 1..Len(q)
      BY <3>1, <1>1, <1>3
    <3> QED BY <3>2, <1>2, <1>4 DEF Waiting, NoRepeats
  <2>2. ASSUME Waiting(q, t), t # Head(q) PROVE Waiting(r, t)
    <3>1. PICK i \in 1..Len(q) : q[i] = t
      BY <2>2, <1>2 DEF Waiting
    <3>2. i # 1
      BY <3>1, <2>2, <1>4
    <3>3. i - 1 \in 1..(Len(q) - 1) /\ r[i - 1] = t
      <4>1. i - 1 \in 1..(Len(q) - 1) /\ (i - 1) + 1 = i
        BY <3>2, <1>1
      <4> QED BY <4>1, <3>1, <1>3
    <3> QED BY <3>3, <1>2 DEF Waiting
  <2> QED BY <2>1, <2>2
<1> QED BY <1>1, <1>4, <1>5, <1>6, <1>7 DEF r

\* The conjuncts a step of the accept loop cannot disturb.
LEMMA RoutesKept ==
  ASSUME IInv, UNCHANGED <<setup, routes>>
  PROVE  (routes \in RouteRecord)' /\ Agrees(routes)'
<1>1. setup' = setup /\ routes' = routes
  OBVIOUS
<1>2. Routes!Hosts' = Routes!Hosts /\ RemoteHost' = RemoteHost
  BY <1>1 DEF Routes!Hosts, RemoteHost
<1>3. RouteRecord' = RouteRecord
  BY <1>2 DEF RouteRecord
<1>4. (routes \in RouteRecord)'
  BY <1>1, <1>3 DEF IInv, PumpTypes
<1>5. Agrees(routes)'
  BY <1>1, <1>2 DEF IInv, Agrees, Routes!Routed
<1> QED BY <1>4, <1>5

LEMMA OfferSound ==
  ASSUME IInv, NEW s \in Sessions, Offer(s)
  PROVE  IInv'
<1>1. /\ setup' = setup /\ loop' = loop /\ pool' = pool /\ lease' = lease /\ routes' = routes
      /\ inbox' = inbox /\ pump' = pump /\ todo' = todo /\ ended' = ended /\ pair' = pair
      /\ open' = open /\ hungUp' = hungUp /\ registered' = registered /\ pumping' = pumping
      /\ left' = left /\ job' = job
  BY DEF Offer, handlerFrame, poolVars, pumpVars
<1>2. /\ stage[s] = "offered" /\ stage' = [stage EXCEPT ![s] = "queued"]
      /\ Len(queue) < Backlog /\ queue' = Append(queue, s)
  BY DEF Offer
<1>3. stage'[s] = "queued" /\ \A t \in Sessions \ {s} : stage'[t] = stage[t]
  BY <1>2, StageOf
<1>4. SessionTypes'
  <2>1. Streams' = Streams
    BY <1>1 DEF Streams
  <2> QED BY <1>1, <1>2, <2>1 DEF IInv, SessionTypes
<1>5. ~Waiting(queue, s) /\ ~Assigning(s)
  BY <1>2 DEF IInv, QueueSound
<1>6. queue \in Seq(Sessions) /\ NoRepeats(queue)
  BY DEF IInv, QueueTypes, QueueSound
<1>7. /\ queue' \in Seq(Sessions) /\ Len(queue') = Len(queue) + 1 /\ NoRepeats(queue')
      /\ \A t \in Sessions : Waiting(queue', t) <=> Waiting(queue, t) \/ t = s
  BY <1>2, <1>5, <1>6, AppendSpec
<1>8. QueueTypes'
  <2>1. Len(queue') <= Backlog
    BY <1>2, <1>6, <1>7, DaemonAssumption
  <2> QED BY <1>1, <1>7, <2>1 DEF IInv, QueueTypes
<1>9. QueueSound'
  <2>1. \A t \in Sessions : Assigning(t)' <=> Assigning(t)
    BY <1>1 DEF Assigning
  <2>2. \A t \in Sessions : (stage'[t] = "queued") <=> (Waiting(queue', t) \/ Assigning(t)')
    BY <1>3, <1>7, <2>1 DEF IInv, QueueSound
  <2>3. loop'.at = "assign" => loop'.of \in Sessions /\ ~Waiting(queue', loop'.of)
    BY <1>1, <1>5, <1>7 DEF IInv, QueueSound, Assigning
  <2> QED BY <1>7, <2>2, <2>3 DEF QueueSound
<1>10. PoolTypes' /\ JobTypes' /\ SourcesSound'
  BY <1>1 DEF IInv, PoolTypes, JobTypes, Idle, SourcesSound
<1>11. PumpTypes' /\ Agrees(routes)'
  BY <1>1, RoutesKept DEF IInv, PumpTypes
<1>12. PairSound'
  BY <1>1, <1>2, StageOf, PairKept
<1>13. PumpSound'
  BY <1>1, <1>2, <1>3 DEF IInv, PumpSound, PumpTypes, Routes!Routed
<1>14. LeaseSound'
  BY <1>1, <1>2, <1>3 DEF IInv, LeaseSound, Assigning
<1> QED BY <1>4, <1>8, <1>9, <1>10, <1>11, <1>12, <1>13, <1>14 DEF IInv

------------------------------------------------------------------------------
(* The accept loop *)

\* The session in the loop's hands has not run: it is not closed.
LEMMA NotYetRunning ==
  ASSUME IInv, NEW s \in Sessions, stage[s] = "queued"
  PROVE  /\ s \notin ended /\ ~Routes!Routed(routes, s) /\ inbox[s] = NoLease
         /\ pump[s].at = "none"
         /\ \A t \in Sessions : s \notin todo[t]
BY DEF IInv, PumpSound, PumpTypes

\* A session leaves the loop's hands, to run or to be turned away.
LEMMA AcceptFrame ==
  ASSUME IInv, NEW s \in Sessions, stage[s] = "queued", NEW v \in {"running", "refused", "unsent"},
         stage' = [stage EXCEPT ![s] = v],
         UNCHANGED acceptFrame
  PROVE  SessionTypes' /\ PairSound' /\ (routes \in RouteRecord)' /\ Agrees(routes)'
<1>1. /\ setup' = setup /\ routes' = routes /\ pair' = pair /\ open' = open /\ hungUp' = hungUp
      /\ registered' = registered /\ pumping' = pumping /\ left' = left
  BY DEF acceptFrame
<1>2. SessionTypes'
  <2>1. Streams' = Streams
    BY <1>1 DEF Streams
  <2> QED BY <1>1, <2>1 DEF IInv, SessionTypes
<1>3. PairSound'
  BY <1>1, StageOf, PairKept
<1> QED BY <1>1, <1>2, <1>3, RoutesKept

\* Its pump starts.
LEMMA StartPumpSound ==
  ASSUME IInv, NEW s \in Sessions, stage[s] = "queued", lease' = lease, StartPump(s),
         UNCHANGED acceptFrame
  PROVE  SessionTypes' /\ PairSound' /\ PumpTypes' /\ PumpSound' /\ SourcesSound' /\ Agrees(routes)'
<1>1. /\ inbox' = inbox /\ todo' = todo /\ ended' = ended /\ routes' = routes
  BY DEF acceptFrame
<1>2. /\ pump' = [pump EXCEPT ![s] = [at |-> "start", src |-> lease[s]]]
      /\ stage' = [stage EXCEPT ![s] = "running"]
  BY DEF StartPump
<1>3. SessionTypes' /\ PairSound' /\ (routes \in RouteRecord)' /\ Agrees(routes)'
  BY <1>2, AcceptFrame
<1>4. stage'[s] = "running" /\ \A t \in Sessions \ {s} : stage'[t] = stage[t]
  BY <1>2, StageOf
<1>5. lease[s] \in Places \cup {NoLease}
  BY DEF IInv, PoolTypes, Places
<1>6. PumpTypes'
  BY <1>1, <1>2, <1>3, <1>5 DEF IInv, PumpTypes
<1>7. pump'[s].at = "start" /\ \A t \in Sessions \ {s} : pump'[t] = pump[t]
  BY <1>2 DEF IInv, PumpTypes
<1>8. PumpSound'
  BY <1>1, <1>4, <1>7 DEF IInv, PumpSound, PumpTypes, Routes!Routed
<1>9. SourcesSound'
  BY <1>1, <1>7 DEF IInv, SourcesSound
<1> QED BY <1>3, <1>6, <1>8, <1>9

\* It is turned away.
LEMMA GiveUpSound ==
  ASSUME IInv, NEW s \in Sessions, stage[s] = "queued", NEW v \in {"refused", "unsent"},
         GiveUp(s, v), UNCHANGED acceptFrame,
         lease' \in [Sessions -> Addresses \cup {NoLease}],
         \A t \in Sessions \ {s} : lease'[t] = lease[t]
  PROVE  /\ SessionTypes' /\ PairSound' /\ PumpTypes' /\ PumpSound' /\ SourcesSound' /\ Agrees(routes)'
         /\ JobTypes' /\ stage'[s] = v /\ (\A t \in Sessions \ {s} : stage'[t] = stage[t])
         /\ loop' = [at |-> "failed", of |-> s]
<1>1. /\ inbox' = inbox /\ todo' = todo /\ ended' = ended /\ routes' = routes /\ pump' = pump
  BY DEF acceptFrame, GiveUp
<1>2. stage' = [stage EXCEPT ![s] = v] /\ loop' = [at |-> "failed", of |-> s]
  BY DEF GiveUp
<1>3. SessionTypes' /\ PairSound' /\ (routes \in RouteRecord)' /\ Agrees(routes)'
  BY <1>2, AcceptFrame
<1>4. stage'[s] = v /\ \A t \in Sessions \ {s} : stage'[t] = stage[t]
  BY <1>2, StageOf
<1>5. PumpTypes'
  BY <1>1, <1>3 DEF IInv, PumpTypes
<1>6. /\ s \notin ended /\ ~Routes!Routed(routes, s) /\ inbox[s] = NoLease
      /\ pump[s].at = "none"
      /\ \A t \in Sessions : s \notin todo[t]
  BY NotYetRunning
<1>7. PumpSound'
  BY <1>1, <1>4, <1>6 DEF IInv, PumpSound, PumpTypes, Routes!Routed
<1>8. SourcesSound'
  BY <1>1, <1>6 DEF IInv, SourcesSound
<1>9. JobTypes'
  BY TunnelClosing, GoroutineNames DEF GiveUp
<1> QED BY <1>2, <1>3, <1>4, <1>5, <1>7, <1>8, <1>9

\* The head of the queue is taken.
LEMMA HeadTaken ==
  ASSUME IInv, queue # <<>>, queue' = Tail(queue), loop.at = "accept"
  PROVE  LET s == Head(queue) IN
         /\ s \in Sessions /\ stage[s] = "queued" /\ lease[s] = NoLease
         /\ queue' \in Seq(Sessions) /\ Len(queue') <= Backlog /\ NoRepeats(queue')
         /\ \A t \in Sessions : Waiting(queue', t) <=> (stage[t] = "queued" /\ t # s)
<1>1. queue \in Seq(Sessions) /\ Len(queue) <= Backlog /\ Backlog \in Nat /\ NoRepeats(queue)
  BY DaemonAssumption DEF IInv, QueueTypes, QueueSound
<1>2. /\ Head(queue) \in Sessions /\ Waiting(queue, Head(queue))
      /\ queue' \in Seq(Sessions) /\ Len(queue') <= Len(queue)
      /\ NoRepeats(queue')
      /\ \A t \in Sessions : Waiting(queue', t) <=> Waiting(queue, t) /\ t # Head(queue)
  BY <1>1, TailSpec
<1>3. Len(queue') <= Backlog
  <2>1. Len(queue') \in Nat /\ Len(queue) \in Nat
    BY <1>1, <1>2
  <2> QED BY <1>1, <1>2, <2>1
<1>4. \A t \in Sessions : (stage[t] = "queued") <=> Waiting(queue, t)
  BY DEF IInv, QueueSound, Assigning
<1>5. lease[Head(queue)] = NoLease
  BY <1>2, <1>4 DEF IInv, LeaseSound, Assigning
<1> QED BY <1>2, <1>3, <1>4, <1>5

LEMMA AcceptSound ==
  ASSUME IInv, Accept
  PROVE  IInv'
<1> DEFINE s == Head(queue)
<1>1. loop.at = "accept" /\ queue # <<>> /\ queue' = Tail(queue) /\ UNCHANGED acceptFrame
  BY DEF Accept
<1>2. ended' = ended /\ setup' = setup
  BY <1>1 DEF acceptFrame
<1>3. /\ s \in Sessions /\ stage[s] = "queued" /\ lease[s] = NoLease
      /\ queue' \in Seq(Sessions) /\ Len(queue') <= Backlog /\ NoRepeats(queue')
      /\ \A t \in Sessions : Waiting(queue', t) <=> (stage[t] = "queued" /\ t # s)
  BY <1>1, HeadTaken
<1>4. s \notin ended
  BY <1>3, NotYetRunning
<1>5. NoSession \notin Sessions
  BY DaemonAssumption
<1>6. CASE ~setup.assigns
  <2>1. pool' = pool /\ lease' = lease /\ job' = job /\ StartPump(s)
    BY <1>6 DEF Accept, poolVars
  <2> HIDE DEF s
  <2>2. SessionTypes' /\ PairSound' /\ PumpTypes' /\ PumpSound' /\ SourcesSound' /\ Agrees(routes)'
    BY <1>1, <1>3, <2>1, StartPumpSound
  <2>3. stage' = [stage EXCEPT ![s] = "running"] /\ loop' = [at |-> "accept", of |-> NoSession]
    BY <2>1 DEF StartPump
  <2>4. stage'[s] = "running" /\ \A t \in Sessions \ {s} : stage'[t] = stage[t]
    BY <1>3, <2>3, StageOf
  <2>5. QueueTypes' /\ QueueSound'
    BY <1>3, <2>3, <2>4 DEF QueueTypes, QueueSound, Assigning
  <2>6. PoolTypes' /\ JobTypes'
    BY <1>2, <2>1 DEF IInv, PoolTypes, JobTypes, Idle
  <2>7. LeaseSound'
    BY <1>1, <1>2, <1>3, <2>1, <2>3, <2>4 DEF IInv, LeaseSound, Assigning
  <2> QED BY <2>2, <2>5, <2>6, <2>7 DEF IInv
<1>7. CASE setup.assigns /\ Exhausted(pool)
  <2>1. pool' = pool /\ lease' = lease /\ GiveUp(s, "refused")
    BY <1>7 DEF Accept, poolVars
  <2> HIDE DEF s
  <2>2. lease' \in [Sessions -> Addresses \cup {NoLease}]
    BY <2>1 DEF IInv, PoolTypes
  <2>3. /\ SessionTypes' /\ PairSound' /\ PumpTypes' /\ PumpSound' /\ SourcesSound' /\ Agrees(routes)'
        /\ JobTypes' /\ stage'[s] = "refused" /\ (\A t \in Sessions \ {s} : stage'[t] = stage[t])
        /\ loop' = [at |-> "failed", of |-> s]
    BY <1>1, <1>3, <2>1, <2>2, GiveUpSound
  <2>4. QueueTypes' /\ QueueSound'
    BY <1>3, <2>3 DEF QueueTypes, QueueSound, Assigning
  <2>5. PoolTypes'
    BY <1>2, <2>1 DEF IInv, PoolTypes
  <2>6. LeaseSound'
    BY <1>1, <1>2, <1>3, <2>1, <2>3 DEF IInv, LeaseSound, Assigning
  <2> QED BY <2>3, <2>4, <2>5, <2>6 DEF IInv
<1>8. CASE setup.assigns /\ ~Exhausted(pool)
  <2> DEFINE a == NextFree(pool)
  <2>1. /\ lease' = [lease EXCEPT ![s] = a] /\ pool' = Allocated(pool)
        /\ loop' = [at |-> "assign", of |-> s]
        /\ stage' = stage /\ pump' = pump /\ job' = job
    BY <1>8 DEF Accept
  <2>2. /\ a \in Addresses \ pool.bits
        /\ pool' \in PoolRecord /\ pool'.bits = pool.bits \cup {a} /\ pool'.count = pool.count
    BY <1>8, <2>1, AllocatedSpec DEF IInv, PoolTypes
  <2> HIDE DEF s, a
  <2>3. /\ setup' = setup /\ open' = open /\ hungUp' = hungUp /\ registered' = registered
        /\ pumping' = pumping /\ routes' = routes /\ inbox' = inbox /\ todo' = todo
        /\ left' = left /\ pair' = pair
    BY <1>1 DEF acceptFrame
  <2>4. lease \in [Sessions -> Addresses \cup {NoLease}]
    BY DEF IInv, PoolTypes
  <2>5. lease'[s] = a /\ \A t \in Sessions \ {s} : lease'[t] = lease[t]
    BY <1>3, <2>1, <2>4
  <2>6. a # NoLease
    BY <2>2, DaemonAssumption DEF Places
  <2>7. SessionTypes' /\ PairSound' /\ JobTypes'
    <3>1. Streams' = Streams /\ HttpLegs' = HttpLegs
      BY <2>3 DEF Streams, HttpLegs
    <3>2. SessionTypes'
      BY <2>1, <2>3, <3>1 DEF IInv, SessionTypes
    <3>3. PairSound'
      BY <2>1, <2>3, <3>1 DEF IInv, PairSound
    <3> QED BY <2>1, <3>2, <3>3 DEF IInv, JobTypes, Idle
  <2>8. PumpTypes' /\ Agrees(routes)'
    BY <2>1, <2>3, RoutesKept DEF IInv, PumpTypes
  <2>9. PumpSound'
    BY <1>2, <2>1, <2>3 DEF IInv, PumpSound, PumpTypes, Routes!Routed
  <2>10. SourcesSound'
    BY <2>1 DEF IInv, SourcesSound
  <2>11. QueueTypes' /\ QueueSound'
    BY <1>3, <2>1 DEF QueueTypes, QueueSound, Assigning
  <2>12. PoolTypes'
    BY <2>1, <2>2, <2>3, <2>4 DEF IInv, PoolTypes
  <2>13. LeaseSound'
    <3>1. \A t \in Sessions : lease'[t] # NoLease => stage'[t] = "running" \/ Assigning(t)'
      BY <1>1, <2>1, <2>5 DEF IInv, LeaseSound, Assigning
    <3>2. lease'[s] # NoLease /\ loop'.of = s
      BY <2>1, <2>5, <2>6
    <3>3. \A t \in Sessions \ ended : lease'[t] # NoLease => lease'[t] \in pool'.bits
      BY <2>2, <2>5 DEF IInv, LeaseSound
    <3>4. \A t, u \in Sessions \ ended : lease'[t] # NoLease /\ lease'[t] = lease'[u] => t = u
      BY <2>2, <2>5 DEF IInv, LeaseSound
    <3> QED BY <1>2, <3>1, <3>2, <3>3, <3>4 DEF LeaseSound
  <2> QED BY <2>7, <2>8, <2>9, <2>10, <2>11, <2>12, <2>13 DEF IInv
<1> QED BY <1>6, <1>7, <1>8

LEMMA AssignedSound ==
  ASSUME IInv, Assigned
  PROVE  IInv'
<1> DEFINE s == loop.of
<1>1. /\ loop.at = "assign" /\ pool' = pool /\ lease' = lease /\ StartPump(s)
      /\ queue' = queue /\ job' = job /\ UNCHANGED acceptFrame
  BY DEF Assigned, poolVars
<1>2. s \in Sessions /\ Assigning(s) /\ stage[s] = "queued" /\ ~Waiting(queue, s)
  BY <1>1 DEF IInv, QueueSound, Assigning
<1> HIDE DEF s
<1>3. SessionTypes' /\ PairSound' /\ PumpTypes' /\ PumpSound' /\ SourcesSound' /\ Agrees(routes)'
  BY <1>1, <1>2, StartPumpSound
<1>4. stage' = [stage EXCEPT ![s] = "running"] /\ loop' = [at |-> "accept", of |-> NoSession]
      /\ ended' = ended /\ setup' = setup
  BY <1>1 DEF StartPump, acceptFrame
<1>5. stage'[s] = "running" /\ \A t \in Sessions \ {s} : stage'[t] = stage[t]
  BY <1>2, <1>4, StageOf
<1>6. \A t \in Sessions \ {s} : ~Assigning(t)
  BY <1>1, <1>2 DEF Assigning
<1>7. QueueTypes' /\ QueueSound'
  BY <1>1, <1>2, <1>4, <1>5, <1>6 DEF IInv, QueueTypes, QueueSound, Assigning
<1>8. PoolTypes' /\ JobTypes'
  BY <1>1, <1>4 DEF IInv, PoolTypes, JobTypes, Idle
<1>9. LeaseSound'
  BY <1>1, <1>4, <1>5, <1>6 DEF IInv, LeaseSound, Assigning
<1> QED BY <1>3, <1>7, <1>8, <1>9 DEF IInv

LEMMA AssignFailsSound ==
  ASSUME IInv, AssignFails
  PROVE  IInv'
<1> DEFINE s == loop.of
<1>1. /\ loop.at = "assign" /\ lease' = [lease EXCEPT ![s] = NoLease]
      /\ pool' = Released(pool, lease[s]) /\ GiveUp(s, "unsent")
      /\ queue' = queue /\ UNCHANGED acceptFrame
  BY DEF AssignFails
<1>2. s \in Sessions /\ Assigning(s) /\ stage[s] = "queued" /\ ~Waiting(queue, s)
      /\ lease[s] # NoLease
  BY <1>1 DEF IInv, QueueSound, LeaseSound, Assigning
<1> HIDE DEF s
<1>3. lease \in [Sessions -> Addresses \cup {NoLease}] /\ pool \in PoolRecord
  BY DEF IInv, PoolTypes
<1>4. /\ lease' \in [Sessions -> Addresses \cup {NoLease}]
      /\ lease'[s] = NoLease /\ \A t \in Sessions \ {s} : lease'[t] = lease[t]
  BY <1>1, <1>2, <1>3
<1>5. pool' \in PoolRecord /\ pool'.bits = pool.bits \ {lease[s]} /\ pool'.count = pool.count
  <2>1. lease[s] \in Addresses
    BY <1>2, <1>3
  <2> QED BY <1>1, <1>3, <2>1, ReleasedSpec
<1>6. /\ SessionTypes' /\ PairSound' /\ PumpTypes' /\ PumpSound' /\ SourcesSound' /\ Agrees(routes)'
      /\ JobTypes' /\ stage'[s] = "unsent" /\ (\A t \in Sessions \ {s} : stage'[t] = stage[t])
      /\ loop' = [at |-> "failed", of |-> s]
  BY <1>1, <1>2, <1>4, GiveUpSound
<1>7. \A t \in Sessions \ {s} : ~Assigning(t)
  BY <1>1, <1>2 DEF Assigning
<1>8. QueueTypes' /\ QueueSound'
  BY <1>1, <1>2, <1>6, <1>7 DEF IInv, QueueTypes, QueueSound, Assigning
<1>9. ended' = ended /\ setup' = setup /\ s \notin ended
  BY <1>1, <1>2, NotYetRunning DEF acceptFrame
<1>10. LeaseSound'
  <2>1. \A t \in Sessions : lease'[t] # NoLease => stage'[t] = "running" \/ Assigning(t)'
    BY <1>4, <1>6, <1>7 DEF IInv, LeaseSound
  <2>2. \A t \in Sessions \ ended : lease'[t] # NoLease => lease'[t] \in pool'.bits
    BY <1>2, <1>4, <1>5, <1>9 DEF IInv, LeaseSound
  <2>3. \A t, u \in Sessions \ ended : lease'[t] # NoLease /\ lease'[t] = lease'[u] => t = u
    BY <1>4 DEF IInv, LeaseSound
  <2> QED BY <1>6, <1>9, <2>1, <2>2, <2>3 DEF LeaseSound
<1>11. PoolTypes'
  BY <1>4, <1>5, <1>9 DEF IInv, PoolTypes
<1> QED BY <1>6, <1>8, <1>10, <1>11 DEF IInv

LEMMA LoopEndsSound ==
  ASSUME IInv, LoopEnds
  PROVE  IInv'
<1>1. /\ loop.at \in {"failed", "accept"} /\ loop' = [loop EXCEPT !.at = "over"]
      /\ stage' = stage /\ pool' = pool /\ lease' = lease /\ queue' = queue /\ pump' = pump
      /\ job' = job /\ setup' = setup /\ open' = open /\ hungUp' = hungUp
      /\ registered' = registered /\ ended' = ended /\ pumping' = pumping /\ routes' = routes
      /\ inbox' = inbox /\ todo' = todo /\ left' = left /\ pair' = pair
  BY DEF LoopEnds, acceptFrame, poolVars
<1>2. loop' \in [at : {"accept", "assign", "failed", "over"}, of : Sessions \cup {NoSession}]
      /\ loop'.at = "over"
  BY <1>1 DEF IInv, QueueTypes
<1>3. Streams' = Streams /\ HttpLegs' = HttpLegs
  BY <1>1 DEF Streams, HttpLegs
<1>4. SessionTypes' /\ PairSound'
  BY <1>1, <1>3 DEF IInv, SessionTypes, PairSound
<1>5. QueueTypes' /\ QueueSound'
  BY <1>1, <1>2 DEF IInv, QueueTypes, QueueSound, Assigning, Waiting, NoRepeats
<1>6. PoolTypes' /\ JobTypes' /\ SourcesSound'
  BY <1>1 DEF IInv, PoolTypes, JobTypes, Idle, SourcesSound
<1>7. PumpTypes' /\ Agrees(routes)'
  BY <1>1, RoutesKept DEF IInv, PumpTypes
<1>8. PumpSound' /\ LeaseSound'
  BY <1>1, <1>2 DEF IInv, PumpSound, PumpTypes, LeaseSound, Assigning, Routes!Routed
<1> QED BY <1>4, <1>5, <1>6, <1>7, <1>8 DEF IInv

------------------------------------------------------------------------------
(* Closing a session *)

\* A session that runs and is closed gives its address back, once.
LEMMA CloseConnSound ==
  ASSUME IInv, NEW g \in Goroutines, NEW x \in Sessions, stage[x] = "running",
         CloseConn(g, x), UNCHANGED <<setup, stage, lease, loop>>
  PROVE  /\ JobTypes' /\ PoolTypes' /\ LeaseSound'
         /\ registered' \subseteq Streams
         /\ ended' = ended \cup {x}
<1>1. /\ CloseTunnel(g, x) /\ ended' = ended \cup {x} /\ registered' = registered \ {x}
      /\ pool' = IF x \in ended \/ lease[x] = NoLease THEN pool ELSE Released(pool, lease[x])
      /\ setup' = setup /\ stage' = stage /\ lease' = lease /\ loop' = loop
  BY DEF CloseConn
<1>2. JobTypes'
  BY <1>1, TunnelClosing
<1>3. registered' \subseteq Streams
  BY <1>1, Subsets
<1>4. pool \in PoolRecord /\ lease \in [Sessions -> Addresses \cup {NoLease}]
  BY DEF IInv, PoolTypes
<1>5. /\ pool' \in PoolRecord /\ pool'.count = pool.count
      /\ \/ pool'.bits = pool.bits
         \/ x \notin ended /\ lease[x] # NoLease /\ pool'.bits = pool.bits \ {lease[x]}
  <2>1. CASE x \in ended \/ lease[x] = NoLease
    BY <1>1, <1>4, <2>1
  <2>2. CASE x \notin ended /\ lease[x] # NoLease
    <3>1. lease[x] \in Addresses
      BY <1>4, <2>2
    <3> QED BY <1>1, <1>4, <2>2, <3>1, ReleasedSpec
  <2> QED BY <2>1, <2>2
<1>6. LeaseSound'
  <2>1. \A s \in Sessions : lease'[s] # NoLease => stage'[s] = "running" \/ Assigning(s)'
    BY <1>1 DEF IInv, LeaseSound, Assigning
  <2>2. loop'.at = "assign" => lease'[loop'.of] # NoLease
    BY <1>1 DEF IInv, LeaseSound
  <2>3. \A s \in Sessions \ ended' : lease'[s] # NoLease => lease'[s] \in pool'.bits
    BY <1>1, <1>5 DEF IInv, LeaseSound
  <2>4. \A s, t \in Sessions \ ended' : lease'[s] # NoLease /\ lease'[s] = lease'[t] => s = t
    BY <1>1 DEF IInv, LeaseSound
  <2> QED BY <2>1, <2>2, <2>3, <2>4 DEF LeaseSound
<1>7. PoolTypes'
  BY <1>1, <1>4, <1>5 DEF IInv, PoolTypes
<1> QED BY <1>1, <1>2, <1>3, <1>6, <1>7

\* Nobody is closed.
LEMMA CloseVarsKept ==
  ASSUME IInv, UNCHANGED <<closeVars, setup, stage, lease, loop>>
  PROVE  /\ JobTypes' /\ PoolTypes' /\ LeaseSound'
         /\ registered' \subseteq Streams
         /\ ended' = ended
<1>1. /\ job' = job /\ ended' = ended /\ registered' = registered /\ pool' = pool
      /\ setup' = setup /\ stage' = stage /\ lease' = lease /\ loop' = loop
  BY DEF closeVars
<1> QED BY <1>1 DEF IInv, JobTypes, Idle, PoolTypes, LeaseSound, Assigning, SessionTypes

------------------------------------------------------------------------------
(* The pumps *)

\* What a step of a pump leaves alone.
LEMMA PumpFrameKept ==
  ASSUME IInv, UNCHANGED pumpFrame, registered' \subseteq Streams
  PROVE  SessionTypes' /\ QueueTypes' /\ QueueSound' /\ PairSound'
<1>1. /\ setup' = setup /\ stage' = stage /\ hungUp' = hungUp /\ open' = open
      /\ pumping' = pumping /\ queue' = queue /\ loop' = loop /\ left' = left /\ pair' = pair
  BY DEF pumpFrame
<1>2. Streams' = Streams /\ HttpLegs' = HttpLegs
  BY <1>1 DEF Streams, HttpLegs
<1>3. SessionTypes' /\ PairSound'
  BY <1>1, <1>2 DEF IInv, SessionTypes, PairSound
<1>4. QueueTypes' /\ QueueSound'
  BY <1>1 DEF IInv, QueueTypes, QueueSound, Assigning, Waiting, NoRepeats
<1> QED BY <1>3, <1>4

\* The routing table is as it should be, over the same hosts.
LEMMA NewTable ==
  ASSUME IInv, UNCHANGED pumpFrame, routes' \in RouteRecord, Agrees(routes')
  PROVE  (routes \in RouteRecord)' /\ Agrees(routes)'
<1>1. setup' = setup
  BY DEF pumpFrame
<1>2. Routes!Hosts' = Routes!Hosts /\ RemoteHost' = RemoteHost
  BY <1>1 DEF Routes!Hosts, RemoteHost
<1>3. (routes \in RouteRecord)'
  BY <1>2 DEF RouteRecord
<1>4. Agrees(routes)'
  BY <1>2 DEF Agrees, Routes!Routed
<1> QED BY <1>3, <1>4

\* A pump's step: it is enough that what it does to its own state and to the
\* table is sound.
LEMMA PumpFrameStep ==
  ASSUME IInv, UNCHANGED pumpFrame, NEW s \in Sessions, stage[s] = "running",
         registered' \subseteq Streams, JobTypes', PoolTypes', LeaseSound',
         routes' \in RouteRecord, Agrees(routes'),
         \A t \in Sessions : Routes!Routed(routes', t) => t = s \/ Routes!Routed(routes, t),
         inbox' \in [Sessions -> Places \cup {NoLease}],
         \A t \in Sessions : inbox'[t] # NoLease => stage[t] = "running",
         NEW at \in {"start", "receive", "register", "roam", "write", "over"},
         NEW src \in Places \cup {NoLease},
         pump' = [pump EXCEPT ![s] = [at |-> at, src |-> src]],
         at = "register" => src \in Places,
         todo' \in [Sessions -> SUBSET Sessions],
         \A t \in Sessions : \A u \in todo'[t] : stage[u] = "running",
         ended' \subseteq Sessions, \A t \in ended' : stage[t] = "running"
  PROVE  IInv'
<1>1. stage' = stage /\ lease' = lease
  BY DEF pumpFrame
<1>2. SessionTypes' /\ QueueTypes' /\ QueueSound' /\ PairSound'
  BY PumpFrameKept
<1>3. (routes \in RouteRecord)' /\ Agrees(routes)'
  BY NewTable
<1>4. pump \in [Sessions -> [at : {"none", "start", "receive", "register", "roam", "write", "over"},
                             src : Places \cup {NoLease}]]
  BY DEF IInv, PumpTypes
<1>5. pump'[s].at = at /\ pump'[s].src = src /\ \A t \in Sessions \ {s} : pump'[t] = pump[t]
  BY <1>4
<1>6. PumpTypes'
  BY <1>3, <1>4 DEF PumpTypes
<1>7. PumpSound'
  <2>1. \A t \in Sessions : Routes!Routed(routes', t) => stage[t] = "running"
    BY DEF IInv, PumpSound
  <2>2. \A t \in Sessions : (pump'[t].at # "none") = (stage[t] = "running")
    BY <1>5 DEF IInv, PumpSound
  <2>3. \A t \in Sessions : Routes!Routed(routes, t)' <=> Routes!Routed(routes', t)
    BY DEF Routes!Routed
  <2> QED BY <1>1, <2>1, <2>2, <2>3 DEF PumpSound
<1>8. SourcesSound'
  BY <1>1, <1>5 DEF IInv, SourcesSound
<1> QED BY <1>2, <1>3, <1>6, <1>7, <1>8 DEF IInv

\* What a pump that takes a step has: a session that runs.
LEMMA PumpFacts ==
  ASSUME IInv, NEW s \in Sessions, pump[s].at # "none"
  PROVE  /\ stage[s] = "running"
         /\ routes \in RouteRecord /\ Agrees(routes)
         /\ inbox \in [Sessions -> Places \cup {NoLease}]
         /\ pump[s].at \in {"none", "start", "receive", "register", "roam", "write", "over"}
         /\ pump[s].src \in Places \cup {NoLease}
         /\ pump = [pump EXCEPT ![s] = [at |-> pump[s].at, src |-> pump[s].src]]
         /\ todo \in [Sessions -> SUBSET Sessions]
         /\ \A t \in Sessions : \A u \in todo[t] : stage[u] = "running"
         /\ ended \subseteq Sessions /\ \A t \in ended : stage[t] = "running"
         /\ \A t \in Sessions : inbox[t] # NoLease => stage[t] = "running"
<1>1. PumpTypes /\ PumpSound /\ SourcesSound /\ Agrees(routes)
  BY DEF IInv
<1>2. pump \in [Sessions -> [at : {"none", "start", "receive", "register", "roam", "write", "over"},
                             src : Places \cup {NoLease}]]
  BY <1>1 DEF PumpTypes
<1>3. pump = [pump EXCEPT ![s] = [at |-> pump[s].at, src |-> pump[s].src]]
  BY <1>2
<1>4. ended \subseteq Sessions /\ \A t \in ended : stage[t] = "running"
  BY <1>1 DEF PumpSound
<1> QED BY <1>1, <1>2, <1>3, <1>4 DEF PumpTypes, PumpSound, SourcesSound

LEMMA GoesSpec ==
  ASSUME IInv, NEW s \in Sessions, NEW at, Goes(s, at)
  PROVE  pump' = [pump EXCEPT ![s] = [at |-> at, src |-> pump[s].src]]
<1>1. pump[s] \in [at : {"none", "start", "receive", "register", "roam", "write", "over"},
                   src : Places \cup {NoLease}]
  BY DEF IInv, PumpTypes
<1>2. [pump[s] EXCEPT !.at = at] = [at |-> at, src |-> pump[s].src]
  BY <1>1
<1> QED BY <1>2 DEF Goes

LEMMA PumpStartsSound ==
  ASSUME IInv, NEW s \in Sessions, PumpStarts(s)
  PROVE  IInv'
<1>1. /\ pump[s].at = "start" /\ UNCHANGED pumpFrame
      /\ inbox' = inbox /\ todo' = todo /\ UNCHANGED closeVars
      /\ pump' = [pump EXCEPT ![s] = [at |-> "receive", src |-> pump[s].src]]
  BY GoesSpec DEF PumpStarts
<1>2. setup' = setup /\ stage' = stage /\ lease' = lease /\ loop' = loop
  BY <1>1 DEF pumpFrame
<1>3. JobTypes' /\ PoolTypes' /\ LeaseSound' /\ registered' \subseteq Streams /\ ended' = ended
  BY <1>1, <1>2, CloseVarsKept
<1>4. /\ routes' \in RouteRecord /\ Agrees(routes')
      /\ \A t \in Sessions : Routes!Routed(routes', t) => t = s \/ Routes!Routed(routes, t)
  <2>1. routes \in RouteRecord /\ Agrees(routes)
    BY <1>1, PumpFacts
  <2>2. CASE lease[s] = NoLease
    BY <2>1, <2>2 DEF PumpStarts
  <2>3. CASE lease[s] # NoLease
    <3>1. lease[s] \in Places
      BY <2>3 DEF IInv, PoolTypes, Places
    <3>2. routes' = Routes!Register(routes, s, lease[s])
      BY <2>3 DEF PumpStarts
    <3> QED BY <2>1, <3>1, <3>2, RegisterSound
  <2> QED BY <2>2, <2>3
<1> QED
  <2>1. stage[s] = "running" /\ pump[s].src \in Places \cup {NoLease}
    BY <1>1, PumpFacts
  <2>2. /\ inbox' \in [Sessions -> Places \cup {NoLease}]
        /\ \A t \in Sessions : inbox'[t] # NoLease => stage[t] = "running"
    BY <1>1, PumpFacts
  <2>3. ended' \subseteq Sessions /\ \A t \in ended' : stage[t] = "running"
    BY <1>1, <1>3, PumpFacts
  <2>4. todo' \in [Sessions -> SUBSET Sessions]
        /\ \A t \in Sessions : \A u \in todo'[t] : stage[u] = "running"
    BY <1>1, PumpFacts
  <2> QED BY <1>1, <1>3, <1>4, <2>1, <2>2, <2>3, <2>4, PumpFrameStep

LEMMA ReceivedSound ==
  ASSUME IInv, NEW s \in Sessions, Received(s)
  PROVE  IInv'
<1>1. /\ pump[s].at = "receive" /\ UNCHANGED pumpFrame /\ inbox[s] # NoLease
      /\ inbox' = [inbox EXCEPT ![s] = NoLease] /\ todo' = todo /\ UNCHANGED closeVars
      /\ pump' = [pump EXCEPT ![s] = [at |-> "register", src |-> inbox[s]]]
      /\ routes' = routes
  BY DEF Received
<1>2. setup' = setup /\ stage' = stage /\ lease' = lease /\ loop' = loop
  BY <1>1 DEF pumpFrame
<1>3. JobTypes' /\ PoolTypes' /\ LeaseSound' /\ registered' \subseteq Streams /\ ended' = ended
  BY <1>1, <1>2, CloseVarsKept
<1>4. inbox \in [Sessions -> Places \cup {NoLease}]
      /\ inbox[s] \in Places
  BY <1>1, PumpFacts
<1>5. /\ inbox' \in [Sessions -> Places \cup {NoLease}]
      /\ \A t \in Sessions : inbox'[t] = NoLease \/ inbox'[t] = inbox[t]
  BY <1>1, <1>4
<1>6. /\ \A t \in Sessions : inbox'[t] # NoLease => stage[t] = "running"
  BY <1>1, <1>5, PumpFacts
<1>7. inbox[s] \in Places \cup {NoLease}
  BY <1>4
<1> QED BY <1>1, <1>3, <1>4, <1>5, <1>6, <1>7, PumpFacts, PumpFrameStep

\* Whom a source address is taken from is in the routing table.
LEMMA DisplacedRuns ==
  ASSUME IInv, NEW s \in Sessions, NEW a \in Places, Routes!Displaced(routes, s, a) # NoSession
  PROVE  LET x == Routes!Displaced(routes, s, a) IN
         /\ x \in Sessions /\ stage[x] = "running" /\ x # s /\ routes.byIP[a] = x
<1> DEFINE x == Routes!Displaced(routes, s, a)
<1>1. x = routes.byIP[a] /\ x # s
  BY DEF Routes!Displaced
<1>2. x \in Sessions
  BY <1>1 DEF IInv, PumpTypes, RouteRecord
<1>3. routes.byConn[x] = a
  BY <1>1, <1>2 DEF IInv, Agrees
<1>4. Routes!Routed(routes, x)
  BY <1>3, DaemonAssumption DEF Routes!Routed
<1> QED BY <1>1, <1>2, <1>4 DEF IInv, PumpSound

LEMMA RegisterSourceSound ==
  ASSUME IInv, NEW s \in Sessions, RegisterSource(s)
  PROVE  IInv'
<1> DEFINE a == pump[s].src
           x == Routes!Displaced(routes, s, a)
<1>1. /\ pump[s].at = "register" /\ UNCHANGED pumpFrame
      /\ inbox' = inbox /\ todo' = todo
      /\ pump' = [pump EXCEPT ![s] = [at |-> "roam", src |-> a]]
      /\ routes' = Routes!Register(routes, s, a)
      /\ IF x = NoSession THEN UNCHANGED closeVars ELSE CloseConn(Pump(s), x)
  BY GoesSpec DEF RegisterSource
<1>2. setup' = setup /\ stage' = stage /\ lease' = lease /\ loop' = loop
  BY <1>1 DEF pumpFrame
<1>3. a \in Places
  BY <1>1, PumpFacts DEF IInv, SourcesSound
<1>4. /\ JobTypes' /\ PoolTypes' /\ LeaseSound' /\ registered' \subseteq Streams
      /\ ended' \subseteq Sessions /\ \A t \in ended' : stage[t] = "running"
  <2>1. ended \subseteq Sessions /\ \A t \in ended : stage[t] = "running"
    BY <1>1, PumpFacts
  <2>2. CASE x = NoSession
    <3>1. UNCHANGED closeVars
      BY <1>1, <2>2
    <3> HIDE DEF x, a
    <3> QED BY <1>2, <2>1, <3>1, CloseVarsKept
  <2>3. CASE x # NoSession
    <3>1. x \in Sessions /\ stage[x] = "running"
      BY <1>3, <2>3, DisplacedRuns
    <3>2. CloseConn(Pump(s), x)
      BY <1>1, <2>3
    <3> HIDE DEF x, a
    <3> QED BY <1>2, <2>1, <3>1, <3>2, GoroutineNames, CloseConnSound
  <2> QED BY <2>2, <2>3
<1> HIDE DEF x, a
<1>5. routes \in RouteRecord /\ Agrees(routes)
  BY <1>1, PumpFacts
<1>6. /\ routes' \in RouteRecord /\ Agrees(routes')
      /\ \A t \in Sessions : Routes!Routed(routes', t) => t = s \/ Routes!Routed(routes, t)
  BY <1>1, <1>3, <1>5, RegisterSound
<1> QED BY <1>1, <1>3, <1>4, <1>6, PumpFacts, PumpFrameStep

LEMMA ReapRoamedSound ==
  ASSUME IInv, NEW s \in Sessions, ReapRoamed(s)
  PROVE  IInv'
<1> DEFINE old == Routes!Roamed(routes, s, quiet)
<1>1. /\ pump[s].at = "roam" /\ UNCHANGED pumpFrame
      /\ inbox' = inbox /\ todo' = [todo EXCEPT ![s] = old] /\ UNCHANGED closeVars
      /\ pump' = [pump EXCEPT ![s] = [at |-> "write", src |-> pump[s].src]]
      /\ routes' = Routes!Reap(routes, s, quiet)
  BY GoesSpec DEF ReapRoamed
<1>2. setup' = setup /\ stage' = stage /\ lease' = lease /\ loop' = loop
  BY <1>1 DEF pumpFrame
<1>3. JobTypes' /\ PoolTypes' /\ LeaseSound' /\ registered' \subseteq Streams /\ ended' = ended
  BY <1>1, <1>2, CloseVarsKept
<1>4. routes \in RouteRecord /\ Agrees(routes)
  BY <1>1, PumpFacts
<1>5. /\ routes' \in RouteRecord /\ Agrees(routes')
      /\ \A t \in Sessions : Routes!Routed(routes', t) => Routes!Routed(routes, t)
      /\ \A t \in old : t \in Sessions /\ Routes!Routed(routes, t)
  BY <1>1, <1>4, ReapSound
<1> HIDE DEF old
<1>6. \A t \in old : t \in Sessions /\ stage[t] = "running"
  BY <1>5 DEF IInv, PumpSound
<1>7. todo' \in [Sessions -> SUBSET Sessions]
      /\ \A t \in Sessions : \A u \in todo'[t] : stage[u] = "running"
  <2>1. todo \in [Sessions -> SUBSET Sessions] /\ old \in SUBSET Sessions
        /\ \A t \in Sessions : \A u \in todo[t] : stage[u] = "running"
    BY <1>1, <1>6, PumpFacts
  <2> QED BY <1>1, <1>6, <2>1
<1> QED
  <2>1. stage[s] = "running" /\ pump[s].src \in Places \cup {NoLease}
    BY <1>1, PumpFacts
  <2>2. /\ inbox' \in [Sessions -> Places \cup {NoLease}]
        /\ \A t \in Sessions : inbox'[t] # NoLease => stage[t] = "running"
    BY <1>1, PumpFacts
  <2>3. ended' \subseteq Sessions /\ \A t \in ended' : stage[t] = "running"
    BY <1>1, <1>3, PumpFacts
  <2> QED BY <1>1, <1>3, <1>5, <1>7, <2>1, <2>2, <2>3, PumpFrameStep

LEMMA CloseRoamedSound ==
  ASSUME IInv, NEW s \in Sessions, CloseRoamed(s)
  PROVE  IInv'
<1>1. PICK x \in todo[s] : CloseConn(Pump(s), x) /\ todo' = [todo EXCEPT ![s] = todo[s] \ {x}]
  BY DEF CloseRoamed
<1>2. /\ pump[s].at = "write" /\ UNCHANGED pumpFrame
      /\ inbox' = inbox /\ pump' = pump /\ routes' = routes
  BY DEF CloseRoamed
<1>3. setup' = setup /\ stage' = stage /\ lease' = lease /\ loop' = loop
  BY <1>2 DEF pumpFrame
<1>4. todo \in [Sessions -> SUBSET Sessions]
      /\ \A t \in Sessions : \A u \in todo[t] : stage[u] = "running"
  BY <1>2, PumpFacts
<1>5. x \in Sessions /\ stage[x] = "running"
  BY <1>4
<1>6. JobTypes' /\ PoolTypes' /\ LeaseSound' /\ registered' \subseteq Streams /\ ended' = ended \cup {x}
  BY <1>1, <1>3, <1>5, GoroutineNames, CloseConnSound
<1>7. ended' \subseteq Sessions /\ \A t \in ended' : stage[t] = "running"
  BY <1>2, <1>5, <1>6, PumpFacts
<1>8. todo' \in [Sessions -> SUBSET Sessions]
      /\ \A t \in Sessions : \A u \in todo'[t] : stage[u] = "running"
  BY <1>1, <1>4
<1>9. pump' = [pump EXCEPT ![s] = [at |-> "write", src |-> pump[s].src]]
  BY <1>2, PumpFacts
<1>10. /\ stage[s] = "running" /\ routes' \in RouteRecord /\ Agrees(routes')
       /\ pump[s].src \in Places \cup {NoLease}
       /\ inbox' \in [Sessions -> Places \cup {NoLease}]
       /\ \A t \in Sessions : inbox'[t] # NoLease => stage[t] = "running"
  BY <1>2, PumpFacts
<1> QED BY <1>2, <1>6, <1>7, <1>8, <1>9, <1>10, PumpFrameStep

LEMMA WrittenSound ==
  ASSUME IInv, NEW s \in Sessions, Written(s)
  PROVE  IInv'
<1>1. /\ pump[s].at = "write" /\ UNCHANGED pumpFrame
      /\ inbox' = inbox /\ todo' = todo /\ UNCHANGED closeVars
      /\ pump' = [pump EXCEPT ![s] = [at |-> "receive", src |-> NoLease]]
      /\ routes' = routes
  BY DEF Written
<1>2. setup' = setup /\ stage' = stage /\ lease' = lease /\ loop' = loop
  BY <1>1 DEF pumpFrame
<1>3. JobTypes' /\ PoolTypes' /\ LeaseSound' /\ registered' \subseteq Streams /\ ended' = ended
  BY <1>1, <1>2, CloseVarsKept
<1> QED BY <1>1, <1>3, PumpFacts, PumpFrameStep

LEMMA PumpEndsSound ==
  ASSUME IInv, NEW s \in Sessions, PumpEnds(s)
  PROVE  IInv'
<1>1. /\ pump[s].at \in {"receive", "write"} /\ UNCHANGED pumpFrame
      /\ inbox' = inbox /\ todo' = todo /\ CloseConn(Pump(s), s)
      /\ pump' = [pump EXCEPT ![s] = [at |-> "over", src |-> NoLease]]
      /\ routes' = Routes!Remove(routes, s)
  BY DEF PumpEnds, Fails
<1>2. setup' = setup /\ stage' = stage /\ lease' = lease /\ loop' = loop
  BY <1>1 DEF pumpFrame
<1>3. stage[s] = "running" /\ routes \in RouteRecord /\ Agrees(routes)
  BY <1>1, PumpFacts
<1>4. JobTypes' /\ PoolTypes' /\ LeaseSound' /\ registered' \subseteq Streams /\ ended' = ended \cup {s}
  BY <1>1, <1>2, <1>3, GoroutineNames, CloseConnSound
<1>5. ended' \subseteq Sessions /\ \A t \in ended' : stage[t] = "running"
  BY <1>1, <1>3, <1>4, PumpFacts
<1>6. /\ routes' \in RouteRecord /\ Agrees(routes')
      /\ \A t \in Sessions : Routes!Routed(routes', t) => Routes!Routed(routes, t)
  BY <1>1, <1>3, RemoveSound
<1> QED BY <1>1, <1>4, <1>5, <1>6, PumpFacts, PumpFrameStep

\* A client, or a reaper, does something to a session that runs.
LEMMA ReapIdleSound ==
  ASSUME IInv, NEW s \in Sessions, ReapIdle(s)
  PROVE  IInv'
<1>1. /\ stage[s] = "running" /\ UNCHANGED pumpFrame /\ UNCHANGED pumpVars
      /\ CloseConn(Reaper(s), s)
  BY DEF ReapIdle
<1>2. /\ setup' = setup /\ stage' = stage /\ lease' = lease /\ loop' = loop /\ routes' = routes
      /\ inbox' = inbox /\ pump' = pump /\ todo' = todo
  BY <1>1 DEF pumpFrame, pumpVars
<1>3. JobTypes' /\ PoolTypes' /\ LeaseSound' /\ registered' \subseteq Streams /\ ended' = ended \cup {s}
  BY <1>1, <1>2, GoroutineNames, CloseConnSound
<1>4. pump[s].at # "none"
  BY <1>1 DEF IInv, PumpSound
<1>5. ended' \subseteq Sessions /\ \A t \in ended' : stage[t] = "running"
  BY <1>1, <1>3, <1>4, PumpFacts
<1>6. pump' = [pump EXCEPT ![s] = [at |-> pump[s].at, src |-> pump[s].src]]
      /\ pump[s].at \in {"start", "receive", "register", "roam", "write", "over"}
      /\ (pump[s].at = "register" => pump[s].src \in Places)
  BY <1>2, <1>4, PumpFacts DEF IInv, SourcesSound
<1>7. /\ routes' \in RouteRecord /\ Agrees(routes')
      /\ pump[s].src \in Places \cup {NoLease}
      /\ inbox' \in [Sessions -> Places \cup {NoLease}]
      /\ todo' \in [Sessions -> SUBSET Sessions]
      /\ \A t \in Sessions : \A u \in todo'[t] : stage[u] = "running"
      /\ \A t \in Sessions : inbox'[t] # NoLease => stage[t] = "running"
  BY <1>2, <1>4, PumpFacts
<1>8. \A t \in Sessions : Routes!Routed(routes', t) => t = s \/ Routes!Routed(routes, t)
  BY <1>2
<1> DEFINE at == pump[s].at
           src == pump[s].src
<1>9. /\ pump' = [pump EXCEPT ![s] = [at |-> at, src |-> src]]
      /\ at \in {"start", "receive", "register", "roam", "write", "over"}
      /\ src \in Places \cup {NoLease}
      /\ at = "register" => src \in Places
  BY <1>6, <1>7
<1> HIDE DEF at, src
<1> QED BY <1>1, <1>3, <1>5, <1>7, <1>8, <1>9, PumpFrameStep

LEMMA ClientSound ==
  ASSUME IInv, NEW s \in Sessions, Arrive(s) \/ FallSilent(s)
  PROVE  IInv'
<1>1. /\ stage[s] = "running" /\ UNCHANGED pumpFrame /\ UNCHANGED closeVars
      /\ routes' = routes /\ pump' = pump /\ todo' = todo
      /\ \E a \in Sources(s) \cup {inbox[s]} : inbox' = [inbox EXCEPT ![s] = a]
  <2>1. CASE Arrive(s)
    BY <2>1 DEF Arrive
  <2>2. CASE FallSilent(s)
    <3>1. stage[s] = "running" /\ inbox \in [Sessions -> Places \cup {NoLease}]
      BY <2>2, PumpFacts DEF FallSilent
    <3>2. inbox' = inbox
      BY <2>2 DEF FallSilent
    <3>3. inbox' = [inbox EXCEPT ![s] = inbox[s]]
      BY <3>1, <3>2
    <3> QED BY <2>2, <3>1, <3>3 DEF FallSilent
  <2> QED BY <2>1, <2>2
<1>2. setup' = setup /\ stage' = stage /\ lease' = lease /\ loop' = loop
  BY <1>1 DEF pumpFrame
<1>3. JobTypes' /\ PoolTypes' /\ LeaseSound' /\ registered' \subseteq Streams /\ ended' = ended
  BY <1>1, <1>2, CloseVarsKept
<1>4. pump[s].at # "none"
  BY <1>1 DEF IInv, PumpSound
<1>5. PICK a \in Sources(s) \cup {inbox[s]} : inbox' = [inbox EXCEPT ![s] = a]
  BY <1>1
<1>6. a \in Places \cup {NoLease}
  <2>1. setup.local[s] \in Places
    BY DaemonAssumption DEF IInv, SessionTypes
  <2>2. lease[s] \in Places \cup {NoLease} /\ inbox[s] \in Places \cup {NoLease}
    BY <1>4, PumpFacts DEF IInv, PoolTypes, Places
  <2> QED BY <2>1, <2>2 DEF Sources
<1>7. /\ inbox' \in [Sessions -> Places \cup {NoLease}]
      /\ inbox'[s] = a /\ \A t \in Sessions \ {s} : inbox'[t] = inbox[t]
  BY <1>4, <1>5, <1>6, PumpFacts
<1>8. /\ \A t \in Sessions : inbox'[t] # NoLease => stage[t] = "running"
  BY <1>1, <1>4, <1>6, <1>7, PumpFacts
<1>9. pump' = [pump EXCEPT ![s] = [at |-> pump[s].at, src |-> pump[s].src]]
      /\ pump[s].at \in {"start", "receive", "register", "roam", "write", "over"}
      /\ (pump[s].at = "register" => pump[s].src \in Places)
  BY <1>1, <1>4, PumpFacts DEF IInv, SourcesSound
<1>10. /\ routes' \in RouteRecord /\ Agrees(routes')
       /\ todo' \in [Sessions -> SUBSET Sessions]
       /\ \A t \in Sessions : \A u \in todo'[t] : stage[u] = "running"
       /\ ended' \subseteq Sessions /\ \A t \in ended' : stage[t] = "running"
       /\ pump[s].src \in Places \cup {NoLease}
  BY <1>1, <1>3, <1>4, PumpFacts
<1>11. \A t \in Sessions : Routes!Routed(routes', t) => t = s \/ Routes!Routed(routes, t)
  BY <1>1
<1> DEFINE at == pump[s].at
           src == pump[s].src
<1>12. /\ pump' = [pump EXCEPT ![s] = [at |-> at, src |-> src]]
       /\ at \in {"start", "receive", "register", "roam", "write", "over"}
       /\ src \in Places \cup {NoLease}
       /\ at = "register" => src \in Places
  BY <1>9, <1>10
<1> HIDE DEF at, src
<1>13. stage[s] = "running" /\ UNCHANGED pumpFrame
  BY <1>1
<1>14. inbox' \in [Sessions -> Places \cup {NoLease}]
  BY <1>7
<1> QED BY <1>3, <1>8, <1>10, <1>11, <1>12, <1>13, <1>14, PumpFrameStep

------------------------------------------------------------------------------
(* The invariant *)

LEMMA StepSound == IInv /\ [Next]_vars => IInv'
<1> SUFFICES ASSUME IInv, [Next]_vars PROVE IInv'
  OBVIOUS
<1>1. CASE UNCHANGED vars
  <2>1. UNCHANGED <<setup, stage, pair, handedOn>>
        /\ UNCHANGED <<open, hungUp, pumping, registered, left, job>>
    BY <1>1 DEF vars, sessionVars, poolVars, pumpVars, handedOn
  <2>2. JobTypes'
    BY <2>1 DEF IInv, JobTypes, Idle
  <2> QED BY <2>1, <2>2, Subsets, SameStages
<1>2. CASE Next
  <2>1. ASSUME NEW s \in Sessions, Dial(s) \/ RequestComes(s) \/ HandlerStep(s)
        PROVE  IInv'
    BY <2>1, DialSound, RequestComesSound, RequestGivesUpSound, PairEndsSound,
       HandshakeDoneSound, HandlerEndsSound, OfferSound, OfferCancelledSound DEF HandlerStep
  <2>2. ASSUME NEW s \in Sessions, PumpStep(s)
        PROVE  IInv'
    BY <2>2, PumpStartsSound, ReceivedSound, RegisterSourceSound, ReapRoamedSound,
       CloseRoamedSound, WrittenSound, PumpEndsSound DEF PumpStep
  <2>3. ASSUME NEW s \in Sessions, ReapIdle(s) \/ Sweep(s) \/ Arrive(s) \/ HangUp(s) \/ FallSilent(s)
        PROVE  IInv'
    BY <2>3, ReapIdleSound, QuietEndsSound, ClientSound
  <2>4. ASSUME NEW g \in Goroutines, Closing(g)
        PROVE  IInv'
    BY <2>4, ClosingSound
  <2>5. CASE AcceptStep
    BY <2>5, AcceptSound, AssignedSound, AssignFailsSound, LoopEndsSound DEF AcceptStep
  <2>6. CASE MainStep \/ Interrupt
    BY <2>6, MainSound
  <2> QED BY <1>2, <2>1, <2>2, <2>3, <2>4, <2>5, <2>6 DEF Next, OtherStep
<1> QED BY <1>1, <1>2

\* The inductive invariant holds in every state of every run.
THEOREM InvariantHolds == Spec => []IInv
<1>1. Init => IInv
  BY InitSound
<1>2. IInv /\ [Next]_vars => IInv'
  BY StepSound
<1> QED BY <1>1, <1>2, PTL DEF Spec

\* The queue, the accept loop, the pool and the stages of the sessions fit
\* together, and the three maps of the routing table say the same, whoever
\* registers, displaces, reaps and removes sessions (cmd/chimerad/route.go).
THEOREM RoutesStaySound == Spec => []RoutesSound
<1>1. IInv => RoutesSound
  BY InvariantSays
<1> QED BY <1>1, InvariantHolds, PTL

------------------------------------------------------------------------------
(* The pool implements Leases *)

Held == [s \in Sessions |-> IF s \in ended THEN NoLease ELSE lease[s]]
Before == {s \in Sessions : stage[s] = "unsent" \/ (s \in ended /\ lease[s] # NoLease)}
Turned == {s \in Sessions : stage[s] = "refused"}
Unheld == Free(pool)

\* A step that changes neither the pool nor who has what.
LEMMA LeasesSame ==
  ASSUME UNCHANGED <<pool, lease, ended>>,
         \A s \in Sessions : /\ (stage'[s] = "unsent") = (stage[s] = "unsent")
                             /\ (stage'[s] = "refused") = (stage[s] = "refused")
  PROVE  UNCHANGED Leased!vars
<1>1. pool' = pool /\ lease' = lease /\ ended' = ended
  OBVIOUS
<1>2. Unheld' = Unheld /\ Held' = Held
  BY <1>1 DEF Unheld, Held
<1>3. Before' = Before
  BY <1>1 DEF Before
<1>4. Turned' = Turned
  BY DEF Turned
<1> QED BY <1>2, <1>3, <1>4 DEF Leased!vars, Unheld, Held, Before, Turned

\* A Close gives the address back if it is the first, and is a stutter if not.
LEMMA LeaseReturned ==
  ASSUME IInv, NEW x \in Sessions, stage[x] = "running",
         ended' = ended \cup {x}, stage' = stage, lease' = lease,
         pool' = IF x \in ended \/ lease[x] = NoLease THEN pool ELSE Released(pool, lease[x])
  PROVE  [Leased!Next]_(Leased!vars)
<1>1. CASE x \in ended \/ lease[x] = NoLease
  <2>1. pool' = pool
    BY <1>1
  <2>2. Unheld' = Unheld
    BY <2>1 DEF Unheld
  <2>3. Held' = Held
    BY <1>1 DEF Held
  <2>4. Before' = Before /\ Turned' = Turned
    BY <1>1 DEF Before, Turned
  <2> QED BY <2>2, <2>3, <2>4 DEF Leased!vars, Unheld, Held, Before, Turned
<1>2. CASE x \notin ended /\ lease[x] # NoLease
  <2>1. pool \in PoolRecord /\ lease[x] \in Addresses /\ lease[x] \in 0 .. pool.count - 1
    BY <1>2, PoolFacts DEF IInv, PoolTypes, LeaseSound
  <2>2. pool'.bits = pool.bits \ {lease[x]} /\ pool'.count = pool.count
    BY <1>2, <2>1, ReleasedSpec
  <2>3. Held[x] = lease[x] /\ Held[x] # NoLease
    BY <1>2 DEF Held
  <2>4. Held' = [Held EXCEPT ![x] = NoLease]
    BY DEF Held
  <2>5. Unheld' = Unheld \cup {Held[x]}
    BY <2>1, <2>2, <2>3 DEF Unheld, Free
  <2>6. Before' = Before \cup {x}
    BY <1>2 DEF Before
  <2>7. Turned' = Turned
    BY DEF Turned
  <2>8. Leased!Return(x)
    BY <2>3, <2>4, <2>5, <2>6, <2>7 DEF Leased!Return, Unheld, Held, Before, Turned
  <2> QED BY <2>8 DEF Leased!Next
<1> QED BY <1>1, <1>2

LEMMA AcceptLeases ==
  ASSUME IInv, Accept
  PROVE  [Leased!Next]_(Leased!vars)
<1>1. loop.at = "accept" /\ queue # <<>> /\ queue' = Tail(queue) /\ ended' = ended
  BY DEF Accept, acceptFrame
<1>2. PICK s \in Sessions : s = Head(queue) /\ stage[s] = "queued" /\ lease[s] = NoLease
  BY <1>1, HeadTaken
<1>3. s \notin ended
  BY <1>2, NotYetRunning
<1>4. CASE ~setup.assigns
  <2>1. pool' = pool /\ lease' = lease /\ stage' = [stage EXCEPT ![s] = "running"]
    BY <1>2, <1>4 DEF Accept, poolVars, StartPump
  <2>2. stage'[s] = "running" /\ \A t \in Sessions \ {s} : stage'[t] = stage[t]
    BY <1>2, <2>1, StageOf
  <2> QED BY <1>1, <1>2, <2>1, <2>2, LeasesSame
<1>5. CASE setup.assigns /\ Exhausted(pool)
  <2>1. pool' = pool /\ lease' = lease /\ stage' = [stage EXCEPT ![s] = "refused"]
    BY <1>2, <1>5 DEF Accept, poolVars, GiveUp
  <2>2. stage'[s] = "refused" /\ \A t \in Sessions \ {s} : stage'[t] = stage[t]
    BY <1>2, <2>1, StageOf
  <2>3. Unheld = {} /\ Unheld' = Unheld
    BY <1>5, <2>1 DEF Unheld, Exhausted
  <2>4. Held' = Held /\ Held[s] = NoLease
    BY <1>1, <1>2, <2>1 DEF Held
  <2>5. Before' = Before /\ s \notin Before
    BY <1>1, <1>2, <1>3, <2>1, <2>2 DEF Before
  <2>6. Turned' = Turned \cup {s} /\ s \notin Turned
    BY <1>2, <2>2 DEF Turned
  <2>7. Leased!Refuse(s)
    BY <2>3, <2>4, <2>5, <2>6 DEF Leased!Refuse, Leased!New, Unheld, Held, Before, Turned
  <2> QED BY <1>2, <2>7 DEF Leased!Next
<1>6. CASE setup.assigns /\ ~Exhausted(pool)
  <2> DEFINE a == NextFree(pool)
  <2>1. lease' = [lease EXCEPT ![s] = a] /\ pool' = Allocated(pool) /\ stage' = stage
    BY <1>2, <1>6 DEF Accept
  <2>2. a \in Free(pool) /\ pool'.bits = pool.bits \cup {a} /\ pool'.count = pool.count
    BY <1>6, <2>1, AllocatedSpec DEF IInv, PoolTypes
  <2> HIDE DEF a
  <2>3. lease \in [Sessions -> Addresses \cup {NoLease}]
    BY DEF IInv, PoolTypes
  <2>4. a \in Unheld /\ Unheld' = Unheld \ {a}
    BY <2>2 DEF Unheld, Free
  <2>5. Held' = [Held EXCEPT ![s] = a] /\ Held[s] = NoLease
    BY <1>1, <1>2, <1>3, <2>1, <2>3 DEF Held
  <2>6. Before' = Before /\ s \notin Before
    <3>1. \A t \in Sessions \ {s} : lease'[t] = lease[t]
      BY <1>2, <2>1, <2>3
    <3> QED BY <1>1, <1>2, <1>3, <2>1, <3>1 DEF Before
  <2>7. Turned' = Turned /\ s \notin Turned
    BY <1>2, <2>1 DEF Turned
  <2>8. Leased!Grant(s)
    BY <2>4, <2>5, <2>6, <2>7 DEF Leased!Grant, Leased!New, Unheld, Held, Before, Turned
  <2> QED BY <1>2, <2>8 DEF Leased!Next
<1> QED BY <1>4, <1>5, <1>6

LEMMA AssignedLeases ==
  ASSUME IInv, Assigned
  PROVE  [Leased!Next]_(Leased!vars)
<1> DEFINE s == loop.of
<1>1. /\ loop.at = "assign" /\ pool' = pool /\ lease' = lease /\ ended' = ended
      /\ stage' = [stage EXCEPT ![s] = "running"]
  BY DEF Assigned, poolVars, StartPump, acceptFrame
<1>2. s \in Sessions /\ stage[s] = "queued"
  BY <1>1 DEF IInv, QueueSound, Assigning
<1> HIDE DEF s
<1>3. stage'[s] = "running" /\ \A t \in Sessions \ {s} : stage'[t] = stage[t]
  BY <1>1, <1>2, StageOf
<1> QED BY <1>1, <1>2, <1>3, LeasesSame

LEMMA AssignFailsLeases ==
  ASSUME IInv, AssignFails
  PROVE  [Leased!Next]_(Leased!vars)
<1>1. loop.at = "assign"
  BY DEF AssignFails
<1>2. PICK s \in Sessions : s = loop.of /\ stage[s] = "queued" /\ lease[s] # NoLease
  BY <1>1 DEF IInv, QueueSound, LeaseSound, Assigning
<1>3. /\ lease' = [lease EXCEPT ![s] = NoLease]
      /\ pool' = Released(pool, lease[s]) /\ ended' = ended
      /\ stage' = [stage EXCEPT ![s] = "unsent"]
  BY <1>2 DEF AssignFails, GiveUp, acceptFrame
<1>4. s \notin ended
  BY <1>2, NotYetRunning
<1>5. /\ pool \in PoolRecord /\ lease \in [Sessions -> Addresses \cup {NoLease}]
      /\ lease[s] \in Addresses /\ lease[s] \in 0 .. pool.count - 1
  BY <1>2, <1>4, PoolFacts DEF IInv, PoolTypes, LeaseSound
<1>6. pool'.bits = pool.bits \ {lease[s]} /\ pool'.count = pool.count
  BY <1>3, <1>5, ReleasedSpec
<1>7. stage'[s] = "unsent" /\ \A t \in Sessions \ {s} : stage'[t] = stage[t]
  BY <1>3, <1>2, StageOf
<1>8. Held[s] = lease[s] /\ Held[s] # NoLease
  BY <1>2, <1>4 DEF Held
<1>9. Held' = [Held EXCEPT ![s] = NoLease]
  BY <1>3, <1>2, <1>5 DEF Held
<1>10. Unheld' = Unheld \cup {Held[s]}
  BY <1>5, <1>6, <1>8 DEF Unheld, Free
<1>11. Before' = Before \cup {s}
  <2>1. \A t \in Sessions \ {s} : lease'[t] = lease[t]
    BY <1>3, <1>2, <1>5
  <2> QED BY <1>3, <1>2, <1>4, <1>7, <2>1 DEF Before
<1>12. Turned' = Turned
  BY <1>2, <1>7 DEF Turned
<1>13. Leased!Return(s)
  BY <1>8, <1>9, <1>10, <1>11, <1>12 DEF Leased!Return, Unheld, Held, Before, Turned
<1> QED BY <1>2, <1>13 DEF Leased!Next

\* A session that has not been accepted is neither refused nor left unsent.
LEMMA HandlerLeases ==
  ASSUME IInv, NEW s \in Sessions, Dial(s) \/ RequestComes(s) \/ HandlerStep(s)
  PROVE  [Leased!Next]_(Leased!vars)
<1>1. pool' = pool /\ lease' = lease /\ ended' = ended
  BY DEF Dial, RequestComes, HandlerStep, RequestGivesUp, PairEnds, HandshakeDone, HandshakeFails,
         Offer, OfferCancelled, Leave, handlerFrame, pairFrame, poolVars
<1>2. \/ stage' = stage
      \/ /\ stage[s] \in Entry
         /\ \E v \in Entry \cup {"queued"} : stage' = [stage EXCEPT ![s] = v]
  <2>1. CASE Dial(s) \/ RequestComes(s)
    <3>1. stage[s] \in Entry
      BY <2>1 DEF Dial, RequestComes, Entry
    <3>2. \E v \in Entry : stage' = [stage EXCEPT ![s] = v]
      BY <2>1 DEF Dial, RequestComes, Entry
    <3> QED BY <3>1, <3>2
  <2>2. CASE RequestGivesUp(s)
    <3>1. CASE pair[s].started
      BY <2>2, <3>1 DEF RequestGivesUp
    <3>2. CASE ~pair[s].started
      <4>1. stage[s] = "pairing"
        <5>1. pair[s].up = "waits" \/ pair[s].down = "waits"
          BY <2>2 DEF RequestGivesUp
        <5> QED BY <3>2, <5>1 DEF IInv, PairSound
      <4> QED BY <2>2, <3>2, <4>1 DEF RequestGivesUp, Entry
    <3> QED BY <3>1, <3>2
  <2>3. CASE PairEnds(s)
    BY <2>3 DEF PairEnds
  <2>4. CASE HandshakeDone(s) \/ HandshakeFails(s) \/ Offer(s) \/ OfferCancelled(s) \/ Leave(s)
    BY <2>4 DEF HandshakeDone, HandshakeFails, Offer, OfferCancelled, Leave, Entry
  <2> QED BY <2>1, <2>2, <2>3, <2>4 DEF HandlerStep
<1>3. \A t \in Sessions : /\ (stage'[t] = "unsent") = (stage[t] = "unsent")
                          /\ (stage'[t] = "refused") = (stage[t] = "refused")
  <2>1. stage \in [Sessions -> {"idle", "pairing", "shaking", "offered", "leaving", "queued",
                                "running", "refused", "unsent", "gone"}]
    BY DEF IInv, SessionTypes
  <2> QED BY <1>2, <2>1 DEF Entry
<1> QED BY <1>1, <1>3, LeasesSame

LEMMA PumpLeases ==
  ASSUME IInv, NEW s \in Sessions, PumpStep(s) \/ ReapIdle(s)
  PROVE  [Leased!Next]_(Leased!vars)
<1>1. stage' = stage /\ lease' = lease
  BY DEF PumpStep, PumpStarts, Received, RegisterSource, ReapRoamed, CloseRoamed, Written,
         PumpEnds, ReapIdle, pumpFrame
<1>2. \/ UNCHANGED closeVars
      \/ \E g \in Goroutines, x \in Sessions : stage[x] = "running" /\ CloseConn(g, x)
  <2>1. CASE PumpStarts(s) \/ Received(s) \/ ReapRoamed(s) \/ Written(s)
    BY <2>1 DEF PumpStarts, Received, ReapRoamed, Written
  <2>2. CASE RegisterSource(s)
    <3> DEFINE x == Routes!Displaced(routes, s, pump[s].src)
    <3>1. pump[s].at = "register" /\ IF x = NoSession THEN UNCHANGED closeVars ELSE CloseConn(Pump(s), x)
      BY <2>2 DEF RegisterSource
    <3>2. pump[s].src \in Places
      BY <3>1, PumpFacts DEF IInv, SourcesSound
    <3>3. x # NoSession => x \in Sessions /\ stage[x] = "running"
      BY <3>2, DisplacedRuns
    <3> HIDE DEF x
    <3> QED BY <3>1, <3>3, GoroutineNames
  <2>3. CASE CloseRoamed(s)
    <3>1. PICK x \in todo[s] : CloseConn(Pump(s), x)
      BY <2>3 DEF CloseRoamed
    <3>2. x \in Sessions /\ stage[x] = "running"
      BY DEF IInv, PumpTypes, PumpSound
    <3> QED BY <3>1, <3>2, GoroutineNames
  <2>4. CASE PumpEnds(s)
    <3>1. CloseConn(Pump(s), s) /\ pump[s].at \in {"receive", "write"}
      BY <2>4 DEF PumpEnds, Fails
    <3>2. stage[s] = "running"
      BY <3>1, PumpFacts
    <3> QED BY <3>1, <3>2, GoroutineNames
  <2>5. CASE ReapIdle(s)
    BY <2>5, GoroutineNames DEF ReapIdle
  <2> QED BY <2>1, <2>2, <2>3, <2>4, <2>5 DEF PumpStep
<1>3. CASE UNCHANGED closeVars
  BY <1>1, <1>3, LeasesSame DEF closeVars
<1>4. ASSUME NEW g \in Goroutines, NEW x \in Sessions, stage[x] = "running", CloseConn(g, x)
      PROVE  [Leased!Next]_(Leased!vars)
  BY <1>1, <1>4, LeaseReturned DEF CloseConn
<1> QED BY <1>2, <1>3, <1>4

LEMMA OtherLeases ==
  ASSUME UNCHANGED vars \/ (\E g \in Goroutines : Closing(g)) \/ LoopEnds \/ MainStep \/ Interrupt
         \/ \E s \in Sessions : Sweep(s) \/ Arrive(s) \/ HangUp(s) \/ FallSilent(s)
  PROVE  [Leased!Next]_(Leased!vars)
<1>1. stage' = stage /\ pool' = pool /\ lease' = lease /\ ended' = ended
  <2>1. CASE UNCHANGED vars
    BY <2>1 DEF vars, sessionVars, poolVars
  <2>2. ASSUME NEW g \in Goroutines, Closing(g)
        PROVE  stage' = stage /\ pool' = pool /\ lease' = lease /\ ended' = ended
    BY <2>2 DEF Closing, CloseReturns, ClosePanics, sessionVars, poolVars
  <2>3. CASE LoopEnds
    BY <2>3 DEF LoopEnds, acceptFrame, poolVars
  <2>4. CASE MainStep \/ Interrupt
    BY <2>4 DEF MainStep, Interrupt, StartStep, FatalStops, BeginClose, CloseStream, Exit,
                mainFrame, poolVars
  <2>5. ASSUME NEW s \in Sessions, Sweep(s) \/ Arrive(s) \/ HangUp(s) \/ FallSilent(s)
        PROVE  stage' = stage /\ pool' = pool /\ lease' = lease /\ ended' = ended
    BY <2>5 DEF Sweep, Arrive, HangUp, FallSilent, pumpFrame, closeVars, poolVars
  <2> QED BY <2>1, <2>2, <2>3, <2>4, <2>5
<1> QED BY <1>1, LeasesSame

LEMMA LeasesStep == IInv /\ [Next]_vars => [Leased!Next]_(Leased!vars)
<1> SUFFICES ASSUME IInv, [Next]_vars PROVE [Leased!Next]_(Leased!vars)
  OBVIOUS
<1>1. ASSUME NEW s \in Sessions, Dial(s) \/ RequestComes(s) \/ HandlerStep(s)
      PROVE  [Leased!Next]_(Leased!vars)
  BY <1>1, HandlerLeases
<1>2. ASSUME NEW s \in Sessions, PumpStep(s) \/ ReapIdle(s)
      PROVE  [Leased!Next]_(Leased!vars)
  BY <1>2, PumpLeases
<1>3. CASE AcceptStep
  BY <1>3, AcceptLeases, AssignedLeases, AssignFailsLeases, OtherLeases DEF AcceptStep
<1>4. CASE UNCHANGED vars \/ (\E g \in Goroutines : Closing(g)) \/ MainStep \/ Interrupt
           \/ \E s \in Sessions : Sweep(s) \/ Arrive(s) \/ HangUp(s) \/ FallSilent(s)
  BY <1>4, OtherLeases
<1> QED BY <1>1, <1>2, <1>3, <1>4 DEF Next, OtherStep

\* makeConn, Conn.Close and everyone who closes sessions use the pool as Leases
\* says: an address has one holder, and a session is refused only when all are
\* held (core/assign.go).
THEOREM PoolImplementsLeases == Spec => ImplementsLeases
<1>1. Init => Leased!Init
  <2> SUFFICES ASSUME Init PROVE Leased!Init
    OBVIOUS
  <2>1. Unheld \in SUBSET Addresses
    <3>1. setup.clients \in 1 .. PoolSize /\ Unheld = 0 .. setup.clients - 1
      BY DaemonAssumption DEF Init, NewPool, Unheld, Free
    <3> QED BY <3>1, PoolAssumption DEF Addresses
  <2>2. Held = [s \in Sessions |-> NoLease] /\ Before = {} /\ Turned = {}
    BY DEF Init, Held, Before, Turned
  <2> QED BY <2>1, <2>2 DEF Leased!Init, Unheld, Held, Before, Turned
<1>2. IInv /\ [Next]_vars => [Leased!Next]_(Leased!vars)
  BY LeasesStep
<1> QED BY <1>1, <1>2, InvariantHolds, PTL DEF Spec, ImplementsLeases, Leased!Spec

------------------------------------------------------------------------------
(* Who takes an address from its holder *)

\* What the registration of a grant does to the place of a session that is not closed.
LEMMA GrantRegistered ==
  ASSUME IInv, NEW s \in Sessions \ ended, lease[s] # NoLease, routes.byIP[lease[s]] = s,
         NEW t \in Sessions, lease[t] # NoLease,
         routes' = Routes!Register(routes, t, lease[t])
  PROVE  routes'.byIP[lease[s]] \in {s, NoSession} \cup ended
<1>1. lease[s] \in Places /\ lease[t] \in Places
  BY DEF IInv, PoolTypes, Places
<1>2. routes \in RouteRecord /\ Agrees(routes)
  BY DEF IInv, PumpTypes
<1>3. /\ routes'.byIP[lease[t]] = t
      /\ lease[s] # lease[t] => routes'.byIP[lease[s]] \in {NoSession, routes.byIP[lease[s]]}
  BY <1>1, <1>2, RegisterSound
<1>4. CASE lease[s] # lease[t]
  BY <1>3, <1>4
<1>5. CASE lease[s] = lease[t]
  <2>1. t \in ended \/ t = s
    BY <1>5 DEF IInv, LeaseSound
  <2> QED BY <1>3, <1>5, <2>1
<1> QED BY <1>4, <1>5

\* What the registration of a source does: whom it displaces is closed.
LEMMA SourceRegistered ==
  ASSUME IInv, NEW s \in Sessions \ ended', lease[s] # NoLease, routes.byIP[lease[s]] = s,
         NEW t \in Sessions, RegisterSource(t)
  PROVE  routes'.byIP[lease[s]] \in {s, NoSession}
<1> DEFINE a == pump[t].src
           x == Routes!Displaced(routes, t, a)
<1>1. /\ pump[t].at = "register" /\ routes' = Routes!Register(routes, t, a)
      /\ IF x = NoSession THEN UNCHANGED closeVars ELSE CloseConn(Pump(t), x)
  BY DEF RegisterSource
<1>2. lease[s] \in Places /\ a \in Places
  BY <1>1 DEF IInv, PoolTypes, Places, SourcesSound
<1>3. routes \in RouteRecord /\ Agrees(routes)
  BY DEF IInv, PumpTypes
<1>4. /\ routes'.byIP[a] = t
      /\ lease[s] # a => routes'.byIP[lease[s]] \in {NoSession, routes.byIP[lease[s]]}
  BY <1>1, <1>2, <1>3, RegisterSound
<1>5. CASE lease[s] # a
  BY <1>4, <1>5
<1>6. CASE lease[s] = a
  <2>1. t = s
    <3> SUFFICES ASSUME t # s PROVE FALSE
      OBVIOUS
    <3>1. x = s
      BY <1>6 DEF Routes!Displaced
    <3>2. CloseConn(Pump(t), s)
      BY <1>1, <3>1, DaemonAssumption
    <3> QED BY <3>2 DEF CloseConn
  <2> QED BY <1>4, <1>6, <2>1
<1> QED BY <1>5, <1>6

LEMMA FormerHolderStep ==
  ASSUME IInv, [Next]_vars, NEW s \in Sessions \ ended, s \notin ended',
         lease[s] # NoLease, routes.byIP[lease[s]] = s
  PROVE  routes'.byIP[lease[s]] \in {s, NoSession} \cup ended
<1>1. lease[s] \in Places
  BY DEF IInv, PoolTypes, Places
<1>2. CASE routes' = routes
  BY <1>2
<1>3. ASSUME NEW t \in Sessions, PumpStep(t)
      PROVE  routes'.byIP[lease[s]] \in {s, NoSession} \cup ended
  <2>1. CASE Received(t) \/ CloseRoamed(t) \/ Written(t)
    BY <1>2, <2>1 DEF Received, CloseRoamed, Written
  <2>2. CASE PumpStarts(t)
    <3>1. CASE lease[t] = NoLease
      BY <1>2, <2>2, <3>1 DEF PumpStarts
    <3>2. CASE lease[t] # NoLease
      <4>1. routes' = Routes!Register(routes, t, lease[t])
        BY <2>2, <3>2 DEF PumpStarts
      <4> QED BY <3>2, <4>1, GrantRegistered
    <3> QED BY <3>1, <3>2
  <2>3. CASE RegisterSource(t)
    <3>1. s \in Sessions \ ended'
      OBVIOUS
    <3>2. routes'.byIP[lease[s]] \in {s, NoSession}
      BY <2>3, <3>1, SourceRegistered
    <3> QED BY <3>2
  <2>4. CASE ReapRoamed(t)
    <3>1. routes' = Routes!Reap(routes, t, quiet) /\ routes \in RouteRecord /\ Agrees(routes)
      BY <2>4 DEF ReapRoamed, IInv, PumpTypes
    <3>2. \A b \in Places : routes'.byIP[b] \in {NoSession, routes.byIP[b]}
      BY <3>1, ReapSound
    <3> QED BY <1>1, <3>2
  <2>5. CASE PumpEnds(t)
    <3>1. routes' = Routes!Remove(routes, t) /\ routes \in RouteRecord /\ Agrees(routes)
      BY <2>5 DEF PumpEnds, IInv, PumpTypes
    <3>2. \A b \in Places : routes'.byIP[b] \in {NoSession, routes.byIP[b]}
      BY <3>1, RemoveSound
    <3> QED BY <1>1, <3>2
  <2> QED BY <1>3, <2>1, <2>2, <2>3, <2>4, <2>5 DEF PumpStep
<1>4. ASSUME NEW t \in Sessions, Dial(t) \/ RequestComes(t) \/ HandlerStep(t)
      PROVE  routes' = routes
  BY <1>4 DEF Dial, RequestComes, HandlerStep, RequestGivesUp, PairEnds, HandshakeDone,
              HandshakeFails, Offer, OfferCancelled, Leave, handlerFrame, pairFrame, pumpVars
<1>5. ASSUME NEW t \in Sessions, ReapIdle(t) \/ Sweep(t) \/ Arrive(t) \/ HangUp(t) \/ FallSilent(t)
      PROVE  routes' = routes
  BY <1>5 DEF ReapIdle, Sweep, Arrive, HangUp, FallSilent, pumpVars
<1>6. ASSUME NEW g \in Goroutines, Closing(g)
      PROVE  routes' = routes
  BY <1>6 DEF Closing, CloseReturns, ClosePanics, pumpVars
<1>7. CASE AcceptStep
  <2>1. routes' = routes
    BY <1>7 DEF AcceptStep, Accept, Assigned, AssignFails, LoopEnds, acceptFrame
  <2> QED BY <1>2, <2>1
<1>8. CASE MainStep \/ Interrupt
  <2>1. routes' = routes
    BY <1>8 DEF MainStep, Interrupt, StartStep, FatalStops, BeginClose, CloseStream, Exit,
                mainFrame, pumpVars
  <2> QED BY <1>2, <2>1
<1>9. CASE UNCHANGED vars
  BY <1>2, <1>9 DEF vars, pumpVars
<1> QED BY <1>2, <1>3, <1>4, <1>5, <1>6, <1>7, <1>8, <1>9 DEF Next, OtherStep

\* Conn.Close runs once: a session that is closed stays closed.
LEMMA EndedForGood == [Next]_vars => ended \subseteq ended'
<1> SUFFICES ASSUME [Next]_vars PROVE ended \subseteq ended'
  OBVIOUS
<1>1. ASSUME NEW t \in Sessions, PumpStep(t) \/ ReapIdle(t)
      PROVE  ended \subseteq ended'
  BY <1>1 DEF PumpStep, PumpStarts, Received, RegisterSource, ReapRoamed, CloseRoamed, Written,
              PumpEnds, ReapIdle, CloseConn, closeVars
<1>2. ASSUME NEW t \in Sessions, Dial(t) \/ RequestComes(t) \/ HandlerStep(t)
      PROVE  ended' = ended
  BY <1>2 DEF Dial, RequestComes, HandlerStep, RequestGivesUp, PairEnds, HandshakeDone,
              HandshakeFails, Offer, OfferCancelled, Leave, handlerFrame, pairFrame
<1>3. ASSUME NEW t \in Sessions, Sweep(t) \/ Arrive(t) \/ HangUp(t) \/ FallSilent(t)
      PROVE  ended' = ended
  BY <1>3 DEF Sweep, Arrive, HangUp, FallSilent, closeVars
<1>4. ASSUME NEW g \in Goroutines, Closing(g)
      PROVE  ended' = ended
  BY <1>4 DEF Closing, CloseReturns, ClosePanics, sessionVars
<1>5. CASE AcceptStep
  BY <1>5 DEF AcceptStep, Accept, Assigned, AssignFails, LoopEnds, acceptFrame
<1>6. CASE MainStep \/ Interrupt
  BY <1>6 DEF MainStep, Interrupt, StartStep, FatalStops, BeginClose, CloseStream, Exit, mainFrame
<1>7. CASE UNCHANGED vars
  BY <1>7 DEF vars, sessionVars
<1> QED BY <1>1, <1>2, <1>3, <1>4, <1>5, <1>6, <1>7 DEF Next, OtherStep

\* A session that is not closed loses the address it was granted in the routing table
\* only to a session that is: whoever else sends from that address closes the one it
\* displaces, and no two grants meet (register, pumpClientToTun).
THEOREM LeasesLostOnlyByClosing == Spec => LeaseLostOnlyClosed
<1> DEFINE Kept == \A s \in Sessions \ ended' :
                     lease[s] # NoLease /\ routes.byIP[lease[s]] = s
                       => routes'.byIP[lease[s]] \in {s, NoSession} \cup ended
<1>1. IInv /\ [Next]_vars => [Kept]_vars
  <2> SUFFICES ASSUME IInv, [Next]_vars, NEW s \in Sessions \ ended',
                      lease[s] # NoLease, routes.byIP[lease[s]] = s
               PROVE  routes'.byIP[lease[s]] \in {s, NoSession} \cup ended
    OBVIOUS
  <2>1. s \in Sessions \ ended
    BY EndedForGood
  <2> QED BY <2>1, FormerHolderStep
<1> QED BY <1>1, InvariantHolds, PTL DEF Spec, LeaseLostOnlyClosed

------------------------------------------------------------------------------
(* The two requests of a session that has started *)

\* Neither waits for the other any more, except a download that came first.
MetSound ==
  \A s \in Sessions :
    /\ pair[s].started => pair[s].up \in {"holds", "over"}
    /\ s \in open => stage[s] \notin {"idle", "pairing"}

\* Steps that are none of a request's.
LEMMA MetKept ==
  ASSUME IInv, MetSound, UNCHANGED pair, open' \subseteq open,
         \A s \in Sessions : stage'[s] = stage[s] \/ stage'[s] \notin {"idle", "pairing"}
  PROVE  MetSound'
BY DEF MetSound

LEMMA MetByHandler ==
  ASSUME IInv, MetSound, NEW s \in Sessions, Dial(s) \/ RequestComes(s) \/ HandlerStep(s)
  PROVE  MetSound'
<1>1. stage \in [Sessions -> {"idle", "pairing", "shaking", "offered", "leaving", "queued",
                              "running", "refused", "unsent", "gone"}]
  BY DEF IInv, SessionTypes
<1>2. pair \in [Sessions -> PairRecord] /\ pair[s] \in PairRecord
  BY DEF IInv, PairSound
<1>3. CASE RequestComes(s)
  <2>1. stage[s] \in {"idle", "pairing"} /\ open' = open
    BY <1>3 DEF RequestComes, pairFrame
  <2>2. \/ pair' = [pair EXCEPT ![s] = Pairing!UploadCome(pair[s])]
        \/ pair' = [pair EXCEPT ![s] = Pairing!DownloadCome(pair[s])]
    BY <1>3 DEF RequestComes
  <2>3. \A t \in Sessions \ {s} : pair'[t] = pair[t] /\ stage'[t] = stage[t]
    BY <1>1, <1>2, <1>3, <2>2 DEF RequestComes
  <2>4. pair'[s].started => pair'[s].up = "holds"
    BY <1>2, <2>2, UploadComes, DownloadComes
  <2>5. s \notin open
    BY <2>1 DEF MetSound
  <2> QED BY <2>1, <2>3, <2>4, <2>5 DEF MetSound
<1>4. CASE RequestGivesUp(s)
  <2>1. \/ pair' = [pair EXCEPT ![s] = Pairing!UploadGivesUp(pair[s])]
        \/ pair' = [pair EXCEPT ![s] = Pairing!DownloadGivesUp(pair[s])]
    BY <1>4 DEF RequestGivesUp
  <2>2. /\ \A t \in Sessions \ {s} : pair'[t] = pair[t]
        /\ pair'[s].started <=> pair[s].started
        /\ pair'[s].up \in {"over", pair[s].up}
    BY <1>2, <2>1, RequestGone
  <2>3. open' = open /\ \A t \in Sessions : stage'[t] = stage[t] \/ stage'[t] = "gone"
    BY <1>1, <1>4 DEF RequestGivesUp, pairFrame
  <2> QED BY <2>2, <2>3 DEF MetSound
<1>5. CASE PairEnds(s)
  <2>1. pair' = [pair EXCEPT ![s] = Pairing!Dropped(pair[s])] /\ stage' = stage /\ open' = open
    BY <1>5 DEF PairEnds, pairFrame
  <2>2. LET q == Pairing!Dropped(pair[s]) IN (q.started <=> pair[s].started) /\ q.up = pair[s].up
    BY <1>2 DEF PairRecord, Pairing!Dropped
  <2>3. /\ \A t \in Sessions \ {s} : pair'[t] = pair[t]
        /\ pair'[s].started <=> pair[s].started
        /\ pair'[s].up = pair[s].up
    BY <1>2, <2>1, <2>2
  <2> QED BY <2>1, <2>3 DEF MetSound
<1>6. CASE HandshakeDone(s)
  <2>1. pair' = pair /\ open' = open \cup {s} /\ stage' = [stage EXCEPT ![s] = "offered"]
    BY <1>6 DEF HandshakeDone, handlerFrame
  <2>2. stage'[s] = "offered" /\ \A t \in Sessions \ {s} : stage'[t] = stage[t]
    BY <2>1, StageOf
  <2> QED BY <2>1, <2>2 DEF MetSound
<1>7. CASE Dial(s) \/ HandshakeFails(s) \/ Offer(s) \/ OfferCancelled(s) \/ Leave(s)
  <2>1. /\ pair' = pair /\ open' = open
        /\ \E v \in {"gone", "shaking", "queued", "leaving"} : stage' = [stage EXCEPT ![s] = v]
    BY <1>7 DEF Dial, HandshakeFails, Offer, OfferCancelled, Leave, handlerFrame
  <2>2. \A t \in Sessions : stage'[t] = stage[t] \/ stage'[t] \notin {"idle", "pairing"}
    BY <1>1, <2>1
  <2> QED BY <2>1, <2>2, MetKept
<1> QED BY <1>3, <1>4, <1>5, <1>6, <1>7 DEF HandlerStep

LEMMA MetStep == IInv /\ MetSound /\ [Next]_vars => MetSound'
<1> SUFFICES ASSUME IInv, MetSound, [Next]_vars PROVE MetSound'
  OBVIOUS
<1>1. ASSUME NEW s \in Sessions, Dial(s) \/ RequestComes(s) \/ HandlerStep(s)
      PROVE  MetSound'
  BY <1>1, MetByHandler
<1>2. ASSUME NEW s \in Sessions,
             PumpStep(s) \/ ReapIdle(s) \/ Sweep(s) \/ Arrive(s) \/ HangUp(s) \/ FallSilent(s)
      PROVE  MetSound'
  <2>1. stage' = stage /\ pair' = pair /\ open' \subseteq open
    BY <1>2 DEF PumpStep, PumpStarts, Received, RegisterSource, ReapRoamed, CloseRoamed, Written,
                PumpEnds, ReapIdle, Sweep, Arrive, HangUp, FallSilent, pumpFrame
  <2> QED BY <2>1, MetKept
<1>3. ASSUME NEW g \in Goroutines, Closing(g)
      PROVE  MetSound'
  <2>1. stage' = stage /\ pair' = pair /\ open' \subseteq open
    BY <1>3 DEF Closing, CloseReturns, ClosePanics, sessionVars
  <2> QED BY <2>1, MetKept
<1>4. CASE AcceptStep
  <2>1. pair' = pair /\ open' = open
    BY <1>4 DEF AcceptStep, Accept, Assigned, AssignFails, LoopEnds, acceptFrame
  <2>2. \/ stage' = stage
        \/ \E s, v : v \in {"running", "refused", "unsent"} /\ stage' = [stage EXCEPT ![s] = v]
    BY <1>4 DEF AcceptStep, Accept, Assigned, AssignFails, LoopEnds, StartPump, GiveUp
  <2>3. \A t \in Sessions : stage'[t] = stage[t] \/ stage'[t] \notin {"idle", "pairing"}
    BY <2>2 DEF IInv, SessionTypes
  <2> QED BY <2>1, <2>3, MetKept
<1>5. CASE MainStep \/ Interrupt
  <2>1. stage' = stage /\ pair' = pair /\ open' \subseteq open
    BY <1>5 DEF MainStep, Interrupt, StartStep, FatalStops, BeginClose, CloseStream, Exit, mainFrame
  <2> QED BY <2>1, MetKept
<1>6. CASE UNCHANGED vars
  <2>1. stage' = stage /\ pair' = pair /\ open' \subseteq open
    BY <1>6 DEF vars, sessionVars
  <2> QED BY <2>1, MetKept
<1> QED BY <1>1, <1>2, <1>3, <1>4, <1>5, <1>6 DEF Next, OtherStep

\* The pair of an open session is dropped only when its download, which came
\* first, gives up (handleHTTPDownload of core/httpstream.go).
LEMMA SparedStep ==
  ASSUME IInv, MetSound, [Next]_vars, NEW s \in Sessions, s \in open,
         pair[s].listed, ~pair'[s].listed
  PROVE  pair[s].down = "waits"
<1>1. pair \in [Sessions -> PairRecord]
  BY DEF IInv, PairSound
<1>2. pair' # pair
  OBVIOUS
<1>3. PICK t \in Sessions : RequestComes(t) \/ RequestGivesUp(t) \/ PairEnds(t)
  <2>1. ASSUME NEW t \in Sessions,
               Dial(t) \/ HandshakeDone(t) \/ HandshakeFails(t) \/ Offer(t) \/ OfferCancelled(t) \/ Leave(t)
        PROVE  pair' = pair
    BY <2>1 DEF Dial, HandshakeDone, HandshakeFails, Offer, OfferCancelled, Leave, handlerFrame
  <2>2. ASSUME NEW t \in Sessions,
               PumpStep(t) \/ ReapIdle(t) \/ Sweep(t) \/ Arrive(t) \/ HangUp(t) \/ FallSilent(t)
        PROVE  pair' = pair
    BY <2>2 DEF PumpStep, PumpStarts, Received, RegisterSource, ReapRoamed, CloseRoamed, Written,
                PumpEnds, ReapIdle, Sweep, Arrive, HangUp, FallSilent, pumpFrame
  <2>3. ASSUME NEW g \in Goroutines, Closing(g)
        PROVE  pair' = pair
    BY <2>3 DEF Closing, CloseReturns, ClosePanics
  <2>4. CASE AcceptStep \/ MainStep \/ Interrupt \/ UNCHANGED vars
    BY <2>4 DEF AcceptStep, Accept, Assigned, AssignFails, LoopEnds, acceptFrame, MainStep, Interrupt,
                StartStep, FatalStops, BeginClose, CloseStream, Exit, mainFrame, vars
  <2> QED BY <1>2, <2>1, <2>2, <2>3, <2>4 DEF Next, OtherStep, HandlerStep
<1>4. CASE RequestComes(t)
  <2>1. \/ pair' = [pair EXCEPT ![t] = Pairing!UploadCome(pair[t])]
        \/ pair' = [pair EXCEPT ![t] = Pairing!DownloadCome(pair[t])]
    BY <1>4 DEF RequestComes
  <2>2. pair[t] \in PairRecord
    BY <1>1
  <2>3. pair'[s].listed
    BY <1>1, <2>1, <2>2, UploadComes, DownloadComes
  <2> QED BY <2>3
<1>5. CASE RequestGivesUp(t)
  <2>1. s = t
    BY <1>1, <1>5 DEF RequestGivesUp
  <2>2. pair[s].up = "waits" \/ pair[s].down = "waits"
    BY <1>5, <2>1 DEF RequestGivesUp
  <2>3. stage[s] \notin {"idle", "pairing"}
    BY DEF MetSound
  <2>4. pair[s].started
    BY <2>2, <2>3 DEF IInv, PairSound
  <2> QED BY <2>2, <2>4 DEF MetSound
<1>6. CASE PairEnds(t)
  <2>1. s = t /\ t \notin open
    BY <1>1, <1>6 DEF PairEnds
  <2> QED BY <2>1
<1> QED BY <1>3, <1>4, <1>5, <1>6

\* The time the two requests have to find each other does not cut short a
\* session that has started, unless its download came first.
THEOREM TimeoutsSpareSessions == Spec => TimeoutSparesSession
<1> DEFINE Spared == \A s \in open : pair[s].listed /\ ~pair'[s].listed => pair[s].down = "waits"
<1>1. Init => MetSound
  BY DEF Init, MetSound, Pairing!NewPair
<1>2. IInv /\ MetSound /\ [Next]_vars => MetSound'
  BY MetStep
<1>3. IInv /\ MetSound /\ [Next]_vars => [Spared]_vars
  <2> SUFFICES ASSUME IInv, MetSound, [Next]_vars, NEW s \in open, pair[s].listed, ~pair'[s].listed
               PROVE  pair[s].down = "waits"
    OBVIOUS
  <2>1. s \in Sessions
    BY Subsets
  <2> QED BY <2>1, SparedStep
<1> QED BY <1>1, <1>2, <1>3, InvariantHolds, PTL DEF Spec, TimeoutSparesSession

------------------------------------------------------------------------------
(* What a server that runs listens on *)

TransportNames == {"udp", "tcp", "websocket", "wss", "http", "https"}

BootRecord == [at : Nat, port : Nat, bound : SUBSET ({"udp", "tcp"} \X Nat),
               made : SUBSET TransportNames, watched : SUBSET TransportNames,
               failed : TransportNames \cup {"none"}]

\* What is bound when the next port is `port' of transport `at'.
BoundBefore(T, n, at, port) ==
  {x \in {"udp", "tcp"} \X Nat : \E i \in 1 .. Len(T), p \in 1 .. n :
     x = Socket(T[i], p) /\ (i < at \/ (i = at /\ p < port))}

\* What is bound, and how much, fits how far the start has come.
BoundSoFar(T, n, b) ==
  /\ b.bound = BoundBefore(T, n, b.at, b.port)
  /\ IsFiniteSet(b.bound)
  /\ Cardinality(b.bound) = (b.at - 1) * n + (b.port - 1)

PortLeft(T, n, b) == b.at \in 1 .. Len(T) /\ b.port \in 1 .. n
NoPortLeft(T, b) == b.at = Len(T) + 1 /\ b.port = 1

BootSound ==
  /\ setup \in Setups
  /\ boot \in BootRecord
  /\ main = "starting" => boot.failed = "none" /\ PortLeft(setup.transports, setup.ports, boot)
  /\ main = "run" => NoPortLeft(setup.transports, boot)
  /\ main \in {"starting", "run"} => BoundSoFar(setup.transports, setup.ports, boot)

LEMMA SetupFacts ==
  ASSUME setup \in Setups
  PROVE  /\ setup.ports \in Nat /\ setup.ports >= 1
         /\ setup.transports \in Seq(TransportNames)
         /\ Len(setup.transports) \in Nat /\ Len(setup.transports) >= 1
<1>1. setup.ports \in Nat \ {0} /\ setup.transports \in Seq(TransportNames)
      /\ setup.transports # <<>>
  BY DaemonAssumption DEF TransportNames
<1>2. Len(setup.transports) \in Nat /\ Len(setup.transports) # 0
  BY <1>1
<1> QED BY <1>1, <1>2

\* The next port is bound.
LEMMA BoundNext ==
  ASSUME NEW T \in Seq(TransportNames), NEW n \in Nat, n >= 1,
         NEW at \in 1 .. Len(T), NEW port \in 1 .. n
  PROVE  BoundBefore(T, n, at, port) \cup {Socket(T[at], port)}
           = IF port = n THEN BoundBefore(T, n, at + 1, 1) ELSE BoundBefore(T, n, at, port + 1)
<1> DEFINE now == BoundBefore(T, n, at, port)
           new == Socket(T[at], port)
<1>1. Len(T) \in Nat /\ at \in Nat /\ port \in Nat
  OBVIOUS
<1>2. new \in {"udp", "tcp"} \X Nat
  BY <1>1 DEF Socket
<1>3. CASE port = n
  <2>1. ASSUME NEW i \in 1 .. Len(T), NEW p \in 1 .. n
        PROVE  i < at + 1 \/ (i = at + 1 /\ p < 1)
                 <=> i < at \/ (i = at /\ p < port) \/ (i = at /\ p = port)
    BY <1>1, <1>3
  <2>2. BoundBefore(T, n, at + 1, 1) = now \cup {new}
    BY <1>2, <2>1 DEF BoundBefore
  <2> QED BY <1>3, <2>2
<1>4. CASE port # n
  <2>1. ASSUME NEW i \in 1 .. Len(T), NEW p \in 1 .. n
        PROVE  i < at \/ (i = at /\ p < port + 1)
                 <=> i < at \/ (i = at /\ p < port) \/ (i = at /\ p = port)
    BY <1>1
  <2>2. BoundBefore(T, n, at, port + 1) = now \cup {new}
    BY <1>2, <2>1 DEF BoundBefore
  <2> QED BY <1>4, <2>2
<1> QED BY <1>3, <1>4

BootAfter(b, bound, made, watched, at, port) ==
  [b EXCEPT !.bound = bound, !.made = made, !.watched = watched, !.at = at, !.port = port]

LEMMA BootAfterFields ==
  ASSUME NEW b \in BootRecord, NEW bound \in SUBSET ({"udp", "tcp"} \X Nat),
         NEW made \in SUBSET TransportNames, NEW watched \in SUBSET TransportNames,
         NEW at \in Nat, NEW port \in Nat,
         NEW c, c = BootAfter(b, bound, made, watched, at, port)
  PROVE  /\ c \in BootRecord
         /\ c.bound = bound /\ c.failed = b.failed /\ c.at = at /\ c.port = port
BY DEF BootAfter, BootRecord

\* A port bound: the fields of the record.
LEMMA BoundFields ==
  ASSUME NEW b \in BootRecord, NEW t \in TransportNames, NEW n \in Nat
  PROVE  LET c == Bound(b, t, n) IN
         /\ c \in BootRecord
         /\ c.bound = b.bound \cup {Socket(t, b.port)} /\ c.failed = b.failed
         /\ b.port = n => c.at = b.at + 1 /\ c.port = 1
         /\ b.port # n => c.at = b.at /\ c.port = b.port + 1
<1> SUFFICES ASSUME NEW c, c = Bound(b, t, n)
             PROVE  /\ c \in BootRecord
                    /\ c.bound = b.bound \cup {Socket(t, b.port)} /\ c.failed = b.failed
                    /\ b.port = n => c.at = b.at + 1 /\ c.port = 1
                    /\ b.port # n => c.at = b.at /\ c.port = b.port + 1
  OBVIOUS
<1> DEFINE bound == b.bound \cup {Socket(t, b.port)}
           made == b.made \cup MadeAt(t, b.port = 1, b.port = n)
           watched == b.watched \cup IF b.port = n THEN {t} ELSE {}
           nextAt == IF b.port = n THEN b.at + 1 ELSE b.at
           nextPort == IF b.port = n THEN 1 ELSE b.port + 1
<1>1. bound \in SUBSET ({"udp", "tcp"} \X Nat)
  BY DEF Socket, BootRecord
<1>2. made \in SUBSET TransportNames
  <2>1. MadeAt(t, b.port = 1, b.port = n) \in SUBSET TransportNames
    BY DEF MadeAt
  <2> QED BY <2>1 DEF BootRecord
<1>3. watched \in SUBSET TransportNames /\ nextAt \in Nat /\ nextPort \in Nat
  BY DEF BootRecord
<1>4. c = BootAfter(b, bound, made, watched, nextAt, nextPort)
  BY DEF Bound, BootAfter
<1> HIDE DEF bound, made, watched, nextAt, nextPort
<1>5. c \in BootRecord /\ c.bound = bound /\ c.failed = b.failed /\ c.at = nextAt /\ c.port = nextPort
  BY <1>1, <1>2, <1>3, <1>4, BootAfterFields
<1> QED BY <1>5 DEF bound, nextAt, nextPort

LEMMA FailedFields ==
  ASSUME NEW b \in BootRecord, NEW t \in TransportNames, NEW c, c = Failed(b, t)
  PROVE  c \in BootRecord /\ c.failed = t
<1>1. ASSUME NEW m \in SUBSET TransportNames,
             c = [b EXCEPT !.bound = {}, !.made = m, !.failed = t]
      PROVE  c \in BootRecord /\ c.failed = t
  <2>1. c = [at |-> b.at, port |-> b.port, bound |-> {}, made |-> m, watched |-> b.watched,
             failed |-> t]
    BY <1>1 DEF BootRecord
  <2> QED BY <2>1 DEF BootRecord
<1> DEFINE m == b.made \cup MadeAt(t, b.port = 1, FALSE)
<1>2. m \in SUBSET TransportNames
  <2>1. MadeAt(t, b.port = 1, FALSE) \in SUBSET TransportNames
    BY DEF MadeAt
  <2> QED BY <2>1 DEF BootRecord
<1>3. c = [b EXCEPT !.bound = {}, !.made = m, !.failed = t]
  BY DEF Failed
<1> HIDE DEF m
<1> QED BY <1>1, <1>2, <1>3

\* The set of sockets bound and their number, over one port more.
LEMMA BoundStep ==
  ASSUME NEW T \in Seq(TransportNames), NEW n \in Nat, n >= 1, NEW b \in BootRecord,
         PortLeft(T, n, b), BoundSoFar(T, n, b), NEW t, t = T[b.at],
         Socket(t, b.port) \notin b.bound, NEW c, c = Bound(b, t, n)
  PROVE  /\ c \in BootRecord /\ c.failed = b.failed /\ BoundSoFar(T, n, c)
         /\ c.at > Len(T) => NoPortLeft(T, c)
         /\ ~(c.at > Len(T)) => PortLeft(T, n, c)
<1>1. PICK at \in 1 .. Len(T), port \in 1 .. n : at = b.at /\ port = b.port
  BY DEF PortLeft
<1>2. Len(T) \in Nat /\ t \in TransportNames /\ at \in Nat /\ port \in Nat
  BY <1>1
<1>3. /\ c \in BootRecord /\ c.failed = b.failed
      /\ c.bound = b.bound \cup {Socket(t, port)}
      /\ port = n => c.at = at + 1 /\ c.port = 1
      /\ port # n => c.at = at /\ c.port = port + 1
  <2>1. /\ c \in BootRecord /\ c.failed = b.failed
        /\ c.bound = b.bound \cup {Socket(t, b.port)}
        /\ b.port = n => c.at = b.at + 1 /\ c.port = 1
        /\ b.port # n => c.at = b.at /\ c.port = b.port + 1
    <3>1. b \in BootRecord /\ t \in TransportNames /\ n \in Nat
      BY <1>2
    <3>2. c \in BootRecord
      BY <3>1, BoundFields
    <3>3. c.failed = b.failed /\ c.bound = b.bound \cup {Socket(t, b.port)}
      BY <3>1, BoundFields
    <3>4. b.port = n => c.at = b.at + 1 /\ c.port = 1
      BY <3>1, BoundFields
    <3>5. b.port # n => c.at = b.at /\ c.port = b.port + 1
      BY <3>1, BoundFields
    <3> QED BY <3>2, <3>3, <3>4, <3>5
  <2> QED BY <1>1, <2>1
<1>4. IsFiniteSet(c.bound) /\ Cardinality(c.bound) = Cardinality(b.bound) + 1
  <2> DEFINE x == Socket(t, port)
             B == b.bound
  <2>1. x \notin B /\ IsFiniteSet(B) /\ c.bound = B \cup {x}
    BY <1>1, <1>3 DEF BoundSoFar
  <2> HIDE DEF x, B
  <2>2. IsFiniteSet(B \cup {x}) /\ Cardinality(B \cup {x}) = Cardinality(B) + 1
    BY <2>1, FS_AddElement
  <2> QED BY <2>1, <2>2 DEF B
<1>5. c.bound = IF port = n THEN BoundBefore(T, n, at + 1, 1)
                ELSE BoundBefore(T, n, at, port + 1)
  <2>1. c.bound = BoundBefore(T, n, at, port) \cup {Socket(T[at], port)}
    BY <1>1, <1>3 DEF BoundSoFar
  <2> QED BY <2>1, BoundNext
<1>6. Cardinality(b.bound) = (at - 1) * n + (port - 1)
  BY <1>1 DEF BoundSoFar
<1> DEFINE k == (at - 1) * n
<1>7. k \in Nat
  <2>1. at - 1 \in Nat
    BY <1>2
  <2> QED BY <2>1
<1>8. CASE port = n
  <2>1. c.at = at + 1 /\ c.port = 1
    BY <1>1, <1>3, <1>8
  <2>2. (c.at - 1) * n = k + n
    <3>1. \A m \in Nat : (m + 1) * n = m * n + n
      OBVIOUS
    <3>2. c.at - 1 = (at - 1) + 1 /\ at - 1 \in Nat
      BY <1>2, <2>1
    <3> QED BY <3>1, <3>2
  <2>3. Cardinality(c.bound) = (c.at - 1) * n + (c.port - 1)
    <3> HIDE DEF k
    <3>1. Cardinality(c.bound) = k + (port - 1) + 1
      BY <1>4, <1>6 DEF k
    <3> QED BY <1>2, <1>7, <1>8, <2>1, <2>2, <3>1
  <2>4. BoundSoFar(T, n, c)
    BY <1>4, <1>5, <1>8, <2>1, <2>3 DEF BoundSoFar
  <2>5. /\ c.at > Len(T) => NoPortLeft(T, c)
        /\ ~(c.at > Len(T)) => PortLeft(T, n, c)
    BY <1>2, <2>1 DEF NoPortLeft, PortLeft
  <2> QED BY <1>3, <2>4, <2>5
<1>9. CASE port # n
  <2>1. c.at = at /\ c.port = port + 1
    BY <1>1, <1>3, <1>9
  <2>2. Cardinality(c.bound) = (c.at - 1) * n + (c.port - 1)
    <3> HIDE DEF k
    <3>1. Cardinality(c.bound) = k + (port - 1) + 1 /\ (c.at - 1) * n = k
      BY <1>4, <1>6, <2>1 DEF k
    <3> QED BY <1>2, <1>7, <2>1, <3>1
  <2>3. BoundSoFar(T, n, c)
    BY <1>4, <1>5, <1>9, <2>1, <2>2 DEF BoundSoFar
  <2>4. PortLeft(T, n, c) /\ ~(c.at > Len(T))
    BY <1>2, <1>9, <2>1 DEF PortLeft
  <2> QED BY <1>3, <2>3, <2>4
<1> QED BY <1>8, <1>9

\* Nothing is left to bind after the last.
LEMMA AllBound ==
  ASSUME NEW T \in Seq(TransportNames), NEW n \in Nat, NEW x
  PROVE  x \in BoundBefore(T, n, Len(T) + 1, 1)
           <=> \E i \in DOMAIN T, p \in 1 .. n : x = Socket(T[i], p)
<1>1. Len(T) \in Nat /\ DOMAIN T = 1 .. Len(T)
  OBVIOUS
<1>2. ASSUME NEW i \in 1 .. Len(T), NEW p \in 1 .. n
      PROVE  Socket(T[i], p) \in {"udp", "tcp"} \X Nat /\ i < Len(T) + 1
  BY <1>1 DEF Socket
<1> QED BY <1>1, <1>2 DEF BoundBefore

LEMMA StartStepSound ==
  ASSUME BootSound, StartStep
  PROVE  BootSound'
<1>1. /\ main = "starting" /\ setup' = setup
      /\ boot' \in Started(boot, setup.transports, setup.ports)
      /\ main' = IF boot'.failed # "none" THEN "stop"
                 ELSE IF boot'.at > Len(setup.transports) THEN "run" ELSE main
  BY DEF StartStep, mainFrame
<1>2. PICK T \in Seq(TransportNames), n \in Nat, b \in BootRecord, c \in {boot'} :
        /\ n >= 1 /\ T = setup.transports /\ n = setup.ports /\ b = boot /\ c = boot'
  BY SetupFacts DEF BootSound
<1>3. b.failed = "none" /\ PortLeft(T, n, b) /\ BoundSoFar(T, n, b) /\ setup \in Setups
  BY <1>1, <1>2 DEF BootSound
<1>4. /\ c \in Started(b, T, n)
      /\ main' = IF c.failed # "none" THEN "stop"
                 ELSE IF c.at > Len(T) THEN "run" ELSE "starting"
      /\ setup'.transports = T /\ setup'.ports = n /\ setup' \in Setups
  BY <1>1, <1>2, <1>3
<1>5. PICK t \in TransportNames : t = T[b.at]
  BY <1>3 DEF PortLeft
<1>6. CASE c = Failed(b, t)
  <2>1. c \in BootRecord /\ c.failed = t
    BY <1>6, FailedFields
  <2>2. main' = "stop"
    BY <1>4, <2>1 DEF TransportNames
  <2> QED BY <1>2, <1>4, <2>1, <2>2 DEF BootSound
<1>7. CASE c = Bound(b, t, n) /\ Socket(t, b.port) \notin b.bound
  <2>1. /\ c \in BootRecord /\ c.failed = b.failed /\ BoundSoFar(T, n, c)
        /\ c.at > Len(T) => NoPortLeft(T, c)
        /\ ~(c.at > Len(T)) => PortLeft(T, n, c)
    BY <1>2, <1>3, <1>5, <1>7, BoundStep
  <2>2. main' = IF c.at > Len(T) THEN "run" ELSE "starting"
    BY <1>3, <1>4, <2>1
  <2> QED BY <1>2, <1>3, <1>4, <2>1, <2>2 DEF BootSound
<1> QED BY <1>4, <1>5, <1>6, <1>7 DEF Started

LEMMA BootStep == BootSound /\ [Next]_vars => BootSound'
<1> SUFFICES ASSUME BootSound, [Next]_vars PROVE BootSound'
  OBVIOUS
<1>1. CASE StartStep
  BY <1>1, StartStepSound
<1>2. CASE setup' = setup /\ boot' = boot /\ (main' = main \/ main' \notin {"starting", "run"})
  BY <1>2 DEF BootSound
<1>3. ASSUME NEW s \in Sessions,
             Dial(s) \/ RequestComes(s) \/ HandlerStep(s) \/ PumpStep(s) \/ ReapIdle(s)
             \/ Sweep(s) \/ Arrive(s) \/ HangUp(s) \/ FallSilent(s)
      PROVE  setup' = setup /\ boot' = boot /\ main' = main
  <2>1. CASE Dial(s) \/ RequestComes(s) \/ HandlerStep(s)
    BY <2>1 DEF Dial, RequestComes, HandlerStep, RequestGivesUp, PairEnds, HandshakeDone,
                HandshakeFails, Offer, OfferCancelled, Leave, handlerFrame, pairFrame
  <2>2. CASE PumpStep(s) \/ ReapIdle(s)
    BY <2>2 DEF PumpStep, PumpStarts, Received, RegisterSource, ReapRoamed, CloseRoamed, Written,
                PumpEnds, ReapIdle, pumpFrame
  <2>3. CASE Sweep(s) \/ Arrive(s) \/ HangUp(s) \/ FallSilent(s)
    BY <2>3 DEF Sweep, Arrive, HangUp, FallSilent, pumpFrame
  <2> QED BY <1>3, <2>1, <2>2, <2>3
<1>4. ASSUME NEW g \in Goroutines, Closing(g)
      PROVE  setup' = setup /\ boot' = boot /\ (main' = main \/ main' = "panicked")
  BY <1>4 DEF Closing, CloseReturns, ClosePanics
<1>5. CASE AcceptStep
  <2>1. setup' = setup /\ boot' = boot /\ main' = main
    BY <1>5 DEF AcceptStep, Accept, Assigned, AssignFails, LoopEnds, acceptFrame
  <2> QED BY <1>2, <2>1
<1>6. CASE FatalStops \/ BeginClose \/ CloseStream \/ Exit \/ Interrupt
  <2>1. setup' = setup /\ boot' = boot /\ (main' = main \/ main' \notin {"starting", "run"})
    BY <1>6 DEF FatalStops, BeginClose, CloseStream, Exit, Interrupt, mainFrame
  <2> QED BY <1>2, <2>1
<1>7. CASE UNCHANGED vars
  BY <1>2, <1>7 DEF vars
<1> QED BY <1>1, <1>2, <1>3, <1>4, <1>5, <1>6, <1>7 DEF Next, OtherStep, MainStep

\* A server that runs listens for each of its transports on each of its ports,
\* with a socket of its own for each (Start of core/core.go).
THEOREM RunningListensOnAll == Spec => []ListensOnAll
<1>1. Init => BootSound
  <2> SUFFICES ASSUME Init PROVE BootSound
    OBVIOUS
  <2>1. setup \in Setups /\ boot = NewBoot /\ main = "starting"
    BY DEF Init
  <2>2. /\ setup.ports \in Nat /\ setup.ports >= 1
        /\ Len(setup.transports) \in Nat /\ Len(setup.transports) >= 1
    BY <2>1, SetupFacts
  <2>3. boot \in BootRecord
    BY <2>1 DEF NewBoot, BootRecord
  <2>4. /\ boot.at = 1 /\ boot.port = 1 /\ boot.bound = {} /\ boot.failed = "none"
    BY <2>1 DEF NewBoot
  <2>5. BoundBefore(setup.transports, setup.ports, 1, 1) = {}
    BY <2>2 DEF BoundBefore
  <2>6. IsFiniteSet({}) /\ Cardinality({}) = 0
    BY FS_EmptySet
  <2>7. (1 - 1) * setup.ports + (1 - 1) = 0
    BY <2>2
  <2>8. BoundSoFar(setup.transports, setup.ports, boot)
    BY <2>4, <2>5, <2>6, <2>7 DEF BoundSoFar
  <2>9. PortLeft(setup.transports, setup.ports, boot)
    BY <2>2, <2>4 DEF PortLeft
  <2> QED BY <2>1, <2>3, <2>4, <2>8, <2>9 DEF BootSound
<1>2. BootSound /\ [Next]_vars => BootSound'
  BY BootStep
<1>3. BootSound => ListensOnAll
  <2> SUFFICES ASSUME BootSound PROVE ListensOnAll
    OBVIOUS
  <2>1. ASSUME main = "run"
        PROVE  /\ \A x : x \in boot.bound <=>
                           \E i \in DOMAIN setup.transports, p \in 1 .. setup.ports :
                             x = Socket(setup.transports[i], p)
               /\ Cardinality(boot.bound) = Len(setup.transports) * setup.ports
    <3>1. PICK T \in Seq(TransportNames), n \in Nat, b \in {boot} :
            T = setup.transports /\ n = setup.ports /\ b = boot
      BY SetupFacts DEF BootSound
    <3>2. b.at = Len(T) + 1 /\ b.port = 1 /\ BoundSoFar(T, n, b)
      BY <2>1, <3>1 DEF BootSound, NoPortLeft
    <3>3. b.bound = BoundBefore(T, n, Len(T) + 1, 1)
      BY <3>2 DEF BoundSoFar
    <3>4. \A x : x \in b.bound <=> \E i \in DOMAIN T, p \in 1 .. n : x = Socket(T[i], p)
      BY <3>3, AllBound
    <3>5. Cardinality(b.bound) = Len(T) * n
      <4>1. b.at - 1 = Len(T) /\ b.port - 1 = 0 /\ Len(T) \in Nat
        BY <3>2
      <4>2. Len(T) * n \in Nat
        BY <4>1
      <4> QED BY <3>2, <4>1, <4>2 DEF BoundSoFar
    <3> QED BY <3>1, <3>4, <3>5
  <2> QED BY <2>1 DEF ListensOnAll
<1> QED BY <1>1, <1>2, <1>3, PTL DEF Spec
===============================================================================
