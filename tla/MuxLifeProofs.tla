---------------------------- MODULE MuxLifeProofs ----------------------------
(***************************************************************************)
(* What holds of a session of the multiplexer for all values of Keepalive   *)
(* and Decoys.                                                              *)
(*                                                                          *)
(* That keepalives keep an idle session, for any intervals and timeouts and *)
(* however far one looks ahead (IdleSessionKept): Reached follows the two   *)
(* ends sweep by sweep, and what it reaches is sound by induction over the  *)
(* sweeps.                                                                  *)
(*                                                                          *)
(* That frames which carry nothing stay few, whenever they are asked for    *)
(* (ChaffBounded): the windows of the decoy replies do not overlap and the  *)
(* noise keeps its gap, by induction over the requests; so the frames of a  *)
(* second can be numbered by no more than the bound.                        *)
(***************************************************************************)
EXTENDS MCServerMuxLife, FiniteSetTheorems, WellFoundedInduction, TLAPS

------------------------------------------------------------------------------
(* What the two ends keep.  Within a sweep it is said of the moments before  *)
(* and after each of them has acted.                                         *)

\* Clocks after n sweeps.
Ends(n) == [recv : 0 .. n, send : 0 .. n, wakes : Nat]

Pairs(n) == [open : BOOLEAN, client : Ends(n), server : Ends(n)]

\* A pump comes before its silence is too long, if it comes at all within the horizon.
Paced(e, interval) ==
  /\ interval = Never => e.wakes = Never
  /\ Latest(interval) < Never => Quiet(e) + e.wakes <= Latest(interval)

\* The multiplexer waits for longer than the client's pump can be late.
Patient(conf) ==
  ~conf.stream /\ Latest(conf.client) < conf.server /\ Latest(conf.client) < conf.timeout

\* The client has acted in this sweep, the server has.
Linked(s, conf, n, client, server) ==
  /\ s \in Pairs(n) /\ s.open
  /\ Paced(s.client, conf.client) /\ (client => s.client.wakes > 0)
  /\ s.server.recv = s.client.send
  /\ conf.stream => /\ s.server.send = s.client.recv
                    /\ Paced(s.server, conf.server) /\ (server => s.server.wakes > 0)
  /\ ~conf.stream => s.server.wakes = Never
  /\ ~conf.stream /\ server => s.server.recv < conf.server \/ s.client.recv = 0
  /\ ~conf.stream /\ conf.server < conf.client =>
       /\ s.client.recv <= s.server.recv /\ s.client.recv <= conf.server
       /\ server => s.client.recv < conf.server
  /\ Patient(conf) => s.client.send <= s.client.recv

\* After n sweeps.
KeptSoFar(s, conf, n) ==
  /\ s.open \in BOOLEAN
  /\ s.open => Linked(s, conf, n, TRUE, TRUE)
  /\ Patient(conf) => s.open

------------------------------------------------------------------------------
(* Intervals and clocks *)

LEMMA MinOfTwo ==
  ASSUME NEW a \in Int, NEW b \in Int
  PROVE  Min({a, b}) = IF a <= b THEN a ELSE b
<1> DEFINE m == IF a <= b THEN a ELSE b
<1>1. m \in {a, b} /\ \A y \in {a, b} : m <= y
  OBVIOUS
<1>2. \A x \in {a, b} : (\A y \in {a, b} : x <= y) => x = m
  OBVIOUS
<1> HIDE DEF m
<1>3. (CHOOSE x \in {a, b} : \A y \in {a, b} : x =< y) = m
  BY <1>1, <1>2
<1> QED BY <1>3 DEF Min, m

\* An interval is never, or some sweeps that four divides.
Spans(interval) ==
  interval \in Nat /\ interval > 0 /\ (interval = Never \/ interval >= 4)

LEMMA IntervalSpans ==
  ASSUME NEW d \in Configured
  PROVE  Spans(Interval(d))
<1>1. d \in Int /\ d % 4 = 0 /\ DefaultKeepalive \in Nat \ {0} /\ DefaultKeepalive % 4 = 0
      /\ Never \in Nat /\ Never > 0
  BY KeepaliveAssumption DEF Never
<1>2. CASE d < 0
  <2>1. d # 0
    BY <1>1, <1>2
  <2>2. Interval(d) = Never
    BY <1>2, <2>1, Zenon DEF Interval
  <2> QED BY <1>1, <2>2 DEF Spans
<1>3. CASE d = 0
  <2>1. ~ (d < 0)
    BY <1>1, <1>3
  <2>2. Interval(d) = DefaultKeepalive
    BY <1>3, <2>1, Zenon DEF Interval
  <2> QED BY <1>1, <2>2 DEF Spans
<1>4. CASE d > 0
  <2>1. ~ (d < 0) /\ d # 0
    BY <1>1, <1>4
  <2>2. Interval(d) = d
    BY <2>1, Zenon DEF Interval
  <2> QED BY <1>1, <1>4, <2>2 DEF Spans
<1> QED BY <1>1, <1>2, <1>3, <1>4

LEMMA ConfSpans ==
  ASSUME NEW conf \in Sessions
  PROVE  /\ Spans(conf.client) /\ Spans(conf.server) /\ conf.stream \in BOOLEAN
         /\ conf.timeout \in Nat /\ conf.timeout > 0
<1>1. PICK c \in Configured, s \in Configured, t \in IdleTimeouts, k \in BOOLEAN :
        conf = [client |-> Interval(c), server |-> Interval(s), timeout |-> IdleTimeout(t),
                stream |-> k]
  BY DEF Sessions
<1>2. IdleTimeout(t) \in Nat /\ IdleTimeout(t) > 0
  <2>1. t \in Int /\ Never \in Nat /\ Never > 0
    BY KeepaliveAssumption DEF Never
  <2> QED BY <2>1 DEF IdleTimeout
<1> QED BY <1>1, <1>2, IntervalSpans

LEMMA LatestSpans ==
  ASSUME NEW interval, Spans(interval)
  PROVE  /\ Latest(interval) \in Nat /\ Latest(interval) >= interval
         /\ interval = Never => ~ (Latest(interval) < Never)
         /\ interval \div 4 \in Nat /\ Latest(interval) = interval + interval \div 4
         /\ interval # Never => interval \div 4 > 0
BY KeepaliveAssumption DEF Spans, Latest, Never

LEMMA DelaysSpan ==
  ASSUME NEW interval, Spans(interval), NEW w \in NextDelays(interval)
  PROVE  /\ w \in Nat /\ w > 0
         /\ interval = Never => w = Never
         /\ interval # Never => w <= Latest(interval)
<1>1. Never \in Nat /\ Never > 0
  BY KeepaliveAssumption DEF Never
<1>2. CASE interval = Never
  BY <1>1, <1>2 DEF NextDelays
<1>3. CASE interval # Never
  <2>1. interval \in Nat /\ interval >= 4 /\ w \in (3 * interval) \div 4 .. (5 * interval) \div 4
    BY <1>3 DEF NextDelays, Spans
  <2>2. (3 * interval) \div 4 >= 1 /\ (5 * interval) \div 4 = interval + interval \div 4
    BY <2>1
  <2> QED BY <1>3, <2>1, <2>2 DEF Latest
<1> QED BY <1>2, <1>3

LEMMA QuietIs ==
  ASSUME NEW n \in Nat, NEW e \in Ends(n)
  PROVE  /\ Quiet(e) \in 0 .. n
         /\ Quiet(e) = IF e.recv <= e.send THEN e.recv ELSE e.send
BY MinOfTwo DEF Quiet, Ends
------------------------------------------------------------------------------
(* One end *)

LEMMA LaterIs ==
  ASSUME NEW n \in Nat, NEW interval, Spans(interval), NEW e \in Ends(n), e.wakes > 0,
         Paced(e, interval)
  PROVE  /\ Later(e) \in Ends(n + 1) /\ Paced(Later(e), interval)
         /\ Later(e).recv = e.recv + 1 /\ Later(e).send = e.send + 1
<1> DEFINE l == Later(e)
<1>0. Never \in Nat /\ Never > 0
  BY KeepaliveAssumption DEF Never
<1>1. e.recv \in 0 .. n /\ e.send \in 0 .. n /\ e.wakes \in Nat
  BY DEF Ends
<1>2. /\ l.recv = e.recv + 1 /\ l.send = e.send + 1
      /\ l.wakes = IF e.wakes = Never THEN Never ELSE e.wakes - 1
  BY DEF Later
<1>3. l \in Ends(n + 1)
  BY <1>0, <1>1, <1>2 DEF Later, Ends
<1> HIDE DEF l
<1>4. Quiet(l) = Quiet(e) + 1 /\ Quiet(e) \in Nat
  BY <1>1, <1>2, <1>3, QuietIs
<1>5. Paced(l, interval)
  <2>1. interval = Never => l.wakes = Never
    BY <1>2 DEF Paced
  <2>2. ASSUME Latest(interval) < Never
        PROVE  Quiet(l) + l.wakes <= Latest(interval)
    <3>1. Quiet(e) + e.wakes <= Latest(interval) /\ Latest(interval) \in Nat
      BY <2>2, LatestSpans DEF Paced
    <3>2. e.wakes # Never
      BY <1>0, <1>1, <1>4, <2>2, <3>1
    <3> QED BY <1>1, <1>2, <1>4, <3>1, <3>2
  <2> QED BY <2>1, <2>2 DEF Paced
<1> QED BY <1>2, <1>3, <1>5 DEF l

LEMMA PumpedIs ==
  ASSUME NEW e, NEW interval, e.wakes \in Nat
  PROVE  /\ e.wakes > 0 => Pumped(e, interval) = {e} /\ ~Silent(e, interval)
         /\ Silent(e, interval) => Pumped(e, interval) = Sends(e, interval)
         /\ e.wakes = 0 /\ ~Silent(e, interval) => Pumped(e, interval) = Waits(e, interval)
<1>1. ASSUME e.wakes > 0
      PROVE  Pumped(e, interval) = {e} /\ ~Silent(e, interval)
  <2>1. ~Silent(e, interval)
    BY <1>1 DEF Silent
  <2> QED BY <1>1, <2>1, Zenon DEF Pumped
<1>2. ASSUME Silent(e, interval)
      PROVE  Pumped(e, interval) = Sends(e, interval)
  <2>1. ~ (e.wakes > 0)
    BY <1>2 DEF Silent
  <2> QED BY <1>2, <2>1, Zenon DEF Pumped
<1>3. ASSUME e.wakes = 0, ~Silent(e, interval)
      PROVE  Pumped(e, interval) = Waits(e, interval)
  <2>1. ~ (e.wakes > 0)
    BY <1>3
  <2> QED BY <1>3, <2>1, Zenon DEF Pumped
<1> QED BY <1>1, <1>2, <1>3

\* The pump has acted: it sleeps again, and its silence will not be too long.
LEMMA PumpPaces ==
  ASSUME NEW n \in Nat, NEW interval, Spans(interval), NEW e \in Ends(n),
         Paced(e, interval), NEW p \in Pumped(e, interval)
  PROVE  /\ p \in Ends(n) /\ Paced(p, interval) /\ p.wakes > 0
         /\ p.recv = e.recv /\ p.send = IF Silent(e, interval) THEN 0 ELSE e.send
<1>0. Never \in Nat /\ Never > 0
  BY KeepaliveAssumption DEF Never
<1>1. /\ e.recv \in 0 .. n /\ e.send \in 0 .. n /\ e.wakes \in Nat
      /\ Latest(interval) \in Nat
  BY LatestSpans DEF Ends
<1>2. CASE e.wakes > 0
  BY <1>1, <1>2, PumpedIs
<1>3. CASE Silent(e, interval)
  <2>1. PICK w \in NextDelays(interval) : p = [e EXCEPT !.send = 0, !.wakes = w]
    <3>1. p \in Sends(e, interval)
      BY <1>1, <1>3, PumpedIs
    <3> QED BY <3>1 DEF Sends
  <2>2. interval # Never
    BY <1>0, <1>3 DEF Silent, Paced
  <2>3. w \in Nat /\ w > 0 /\ w <= Latest(interval)
    BY <2>2, DelaysSpan
  <2>4. p = [recv |-> e.recv, send |-> 0, wakes |-> w]
    BY <2>1 DEF Ends
  <2>5. p \in Ends(n)
    BY <1>1, <2>3, <2>4 DEF Ends
  <2>6. Quiet(p) = 0
    BY <1>1, <2>4, <2>5, QuietIs
  <2>7. Paced(p, interval)
    BY <1>1, <2>2, <2>3, <2>4, <2>6 DEF Paced
  <2> QED BY <1>3, <2>3, <2>4, <2>5, <2>7
<1>4. CASE e.wakes = 0 /\ ~Silent(e, interval)
  <2>1. p = [e EXCEPT !.wakes = interval \div 4]
    BY <1>1, <1>4, PumpedIs DEF Waits
  <2>2. interval # Never
    BY <1>0, <1>4 DEF Paced
  <2>3. /\ interval \div 4 \in Nat /\ interval \div 4 > 0 /\ interval \in Nat
        /\ Latest(interval) = interval + interval \div 4
    BY <2>2, LatestSpans DEF Spans
  <2>4. p = [recv |-> e.recv, send |-> e.send, wakes |-> interval \div 4]
    BY <2>1 DEF Ends
  <2> DEFINE q == interval \div 4
  <2> HIDE DEF q
  <2>5. p \in Ends(n)
    BY <1>1, <2>3, <2>4 DEF Ends
  <2>6. Quiet(p) = Quiet(e) /\ Quiet(e) \in Nat /\ Quiet(e) < interval
    BY <1>1, <1>4, <2>3, <2>4, <2>5, QuietIs DEF Silent
  <2>7. Paced(p, interval)
    BY <2>2, <2>3, <2>4, <2>6 DEF Paced
  <2> QED BY <1>4, <2>3, <2>4, <2>5, <2>7
<1> QED BY <1>1, <1>2, <1>3, <1>4

LEMMA HeardPaces ==
  ASSUME NEW n \in Nat, NEW interval, Spans(interval), NEW e \in Ends(n), NEW sent \in BOOLEAN
  PROVE  /\ Heard(e, sent) \in Ends(n)
         /\ Paced(e, interval) => Paced(Heard(e, sent), interval)
         /\ Heard(e, sent).recv = IF sent THEN 0 ELSE e.recv
         /\ Heard(e, sent).send = e.send /\ Heard(e, sent).wakes = e.wakes
<1> DEFINE h == Heard(e, sent)
<1>1. e.recv \in 0 .. n /\ e.send \in 0 .. n /\ e.wakes \in Nat /\ Latest(interval) \in Nat
  BY LatestSpans DEF Ends
<1>2. h = [recv |-> IF sent THEN 0 ELSE e.recv, send |-> e.send, wakes |-> e.wakes]
  BY DEF Heard, Ends
<1>3. h \in Ends(n)
  BY <1>1, <1>2 DEF Ends
<1> HIDE DEF h
<1>4. Quiet(h) \in Nat /\ Quiet(h) <= Quiet(e) /\ Quiet(e) \in Nat
  BY <1>1, <1>2, <1>3, QuietIs
<1>5. Paced(e, interval) => Paced(h, interval)
  BY <1>1, <1>2, <1>4 DEF Paced
<1> QED BY <1>2, <1>3, <1>5 DEF h
\* The multiplexer's end has no pump: its clocks go on all the same.
LEMMA LaterSleeps ==
  ASSUME NEW n \in Nat, NEW e \in Ends(n), e.wakes > 0
  PROVE  Later(e) \in Ends(n + 1) /\ (e.wakes = Never => Later(e).wakes = Never)
BY KeepaliveAssumption DEF Later, Ends, Never
------------------------------------------------------------------------------
(* Both ends, within a sweep *)

LEMMA SweepBegins ==
  ASSUME NEW n \in Nat, NEW conf \in Sessions, NEW s, Linked(s, conf, n, TRUE, TRUE)
  PROVE  Linked(Older(s), conf, n + 1, FALSE, FALSE)
<1> DEFINE t == Older(s)
           c == Later(s.client)
           v == Later(s.server)
<1>1. s \in Pairs(n) /\ s.open /\ s.client \in Ends(n) /\ s.server \in Ends(n)
  BY DEF Linked, Pairs
<1>2. /\ c \in Ends(n + 1) /\ Paced(c, conf.client)
      /\ c.recv = s.client.recv + 1 /\ c.send = s.client.send + 1
  BY <1>1, LaterIs, ConfSpans DEF Linked
<1>3. /\ v \in Ends(n + 1)
      /\ v.recv = s.server.recv + 1 /\ v.send = s.server.send + 1
      /\ conf.stream => Paced(v, conf.server)
      /\ ~conf.stream => v.wakes = Never
  <2>1. v.recv = s.server.recv + 1 /\ v.send = s.server.send + 1
    BY DEF Later
  <2>2. ASSUME conf.stream
        PROVE  v \in Ends(n + 1) /\ Paced(v, conf.server)
    BY <1>1, <2>2, LaterIs, ConfSpans DEF Linked
  <2>3. ASSUME ~conf.stream
        PROVE  v \in Ends(n + 1) /\ v.wakes = Never
    <3>1. s.server.wakes = Never /\ s.server.wakes > 0
      BY <2>3, KeepaliveAssumption DEF Linked, Never
    <3> QED BY <1>1, <3>1, LaterSleeps
  <2> HIDE DEF v
  <2> QED BY <2>1, <2>2, <2>3
<1>4. t = [open |-> s.open, client |-> c, server |-> v]
  <2>1. t = [s EXCEPT !.client = c, !.server = v]
    BY DEF Older
  <2> HIDE DEF c, v, t
  <2> QED BY <1>1, <2>1 DEF Pairs
<1> HIDE DEF c, v, t
<1>5. t \in Pairs(n + 1) /\ t.open /\ t.client = c /\ t.server = v
  BY <1>1, <1>2, <1>3, <1>4 DEF Pairs
<1>6. /\ s.client.recv \in Nat /\ s.client.send \in Nat /\ s.server.recv \in Nat
      /\ s.server.send \in Nat
  BY <1>1 DEF Ends
<1>7. conf.client \in Nat /\ conf.server \in Nat
  BY ConfSpans DEF Spans
<1>8. Linked(t, conf, n + 1, FALSE, FALSE)
  BY <1>2, <1>3, <1>5, <1>6, <1>7 DEF Linked, Pairs
<1> QED BY <1>8 DEF t

LEMMA ClientKeepsLink ==
  ASSUME NEW n \in Nat, NEW conf \in Sessions, NEW server \in BOOLEAN,
         NEW s, Linked(s, conf, n, FALSE, server), NEW r \in ClientActs(s, conf)
  PROVE  Linked(r, conf, n, TRUE, server)
<1> DEFINE sent == Silent(s.client, conf.client)
           v == Heard(s.server, sent)
<1>1. s \in Pairs(n) /\ s.open /\ s.client \in Ends(n) /\ s.server \in Ends(n)
  BY DEF Linked, Pairs
<1>2. PICK p \in Pumped(s.client, conf.client) :
        r = [s EXCEPT !.client = p, !.server = Heard(@, sent)]
  BY DEF ClientActs
<1>3. /\ p \in Ends(n) /\ Paced(p, conf.client) /\ p.wakes > 0
      /\ p.recv = s.client.recv /\ p.send = IF sent THEN 0 ELSE s.client.send
  BY <1>1, PumpPaces, ConfSpans DEF Linked
<1>4. sent \in BOOLEAN
  BY DEF Silent
<1>5. /\ v \in Ends(n) /\ v.recv = IF sent THEN 0 ELSE s.server.recv
      /\ v.send = s.server.send /\ v.wakes = s.server.wakes
      /\ Paced(s.server, conf.server) => Paced(v, conf.server)
  BY <1>1, <1>4, HeardPaces, ConfSpans
<1>6. sent => Quiet(s.client) >= conf.client
  BY DEF Silent
<1>7. r = [open |-> s.open, client |-> p, server |-> v]
  BY <1>1, <1>2 DEF Pairs
<1> HIDE DEF sent, v
<1>8. r \in Pairs(n) /\ r.open /\ r.client = p /\ r.server = v
  BY <1>1, <1>3, <1>5, <1>7 DEF Pairs
<1>9. /\ s.client.recv \in Nat /\ s.client.send \in Nat /\ s.server.recv \in Nat
      /\ Quiet(s.client) <= s.client.recv /\ Quiet(s.client) \in Nat
      /\ conf.client \in Nat /\ conf.server \in Nat /\ conf.server > 0
  BY <1>1, QuietIs, ConfSpans DEF Ends, Spans
<1>10. ~conf.stream /\ conf.server < conf.client => ~sent
  BY <1>6, <1>9 DEF Linked
<1> QED BY <1>3, <1>5, <1>8, <1>9, <1>10 DEF Linked, Pairs

LEMMA ServerKeepsLink ==
  ASSUME NEW n \in 0 .. Horizon, NEW conf \in Sessions, NEW client \in BOOLEAN,
         NEW s, Linked(s, conf, n, client, FALSE), NEW r \in ServerActs(s, conf)
  PROVE  /\ r.open \in BOOLEAN
         /\ r.open => Linked(r, conf, n, client, TRUE)
         /\ Patient(conf) => r.open
<1>0. n \in Nat /\ n < Never /\ Never \in Nat
  BY KeepaliveAssumption DEF Never
<1>1. s \in Pairs(n) /\ s.open /\ s.client \in Ends(n) /\ s.server \in Ends(n)
  BY DEF Linked, Pairs
<1>2. /\ s.client.recv \in 0 .. n /\ s.client.send \in 0 .. n /\ s.server.recv \in 0 .. n
      /\ s.client.wakes \in Nat
      /\ conf.client \in Nat /\ conf.server \in Nat /\ conf.server > 0 /\ conf.timeout \in Nat
  BY <1>1, ConfSpans DEF Ends, Spans
<1>3. Patient(conf) => s.server.recv < conf.server /\ s.server.recv < conf.timeout
  <2> SUFFICES ASSUME Patient(conf) PROVE s.server.recv <= Latest(conf.client)
    BY <1>2, LatestSpans, ConfSpans DEF Patient
  <2>1. Quiet(s.client) = s.client.send /\ s.server.recv = s.client.send
    BY <1>0, <1>1, <1>2, QuietIs DEF Linked
  <2>2. Latest(conf.client) \in Nat
    BY LatestSpans, ConfSpans
  <2>3. CASE Latest(conf.client) < Never
    BY <1>2, <2>1, <2>2, <2>3 DEF Linked, Paced
  <2>4. CASE ~(Latest(conf.client) < Never)
    BY <1>0, <1>2, <2>1, <2>2, <2>4
  <2> QED BY <2>3, <2>4
<1>4. CASE Idle(s, conf) /\ r = [s EXCEPT !.open = FALSE]
  <2>1. r.open = FALSE
    BY <1>1, <1>4 DEF Pairs
  <2>2. ~Patient(conf)
    BY <1>2, <1>3, <1>4 DEF Idle
  <2> QED BY <2>1, <2>2
<1>5. CASE conf.stream /\ r \notin Reaped(s, conf)
  <2> DEFINE sent == Silent(s.server, conf.server)
             c == Heard(s.client, sent)
  <2>1. PICK p \in Pumped(s.server, conf.server) :
          r = [s EXCEPT !.server = p, !.client = Heard(@, sent)]
    BY <1>5 DEF ServerActs, StreamActs
  <2>2. /\ p \in Ends(n) /\ Paced(p, conf.server) /\ p.wakes > 0
        /\ p.recv = s.server.recv /\ p.send = IF sent THEN 0 ELSE s.server.send
    BY <1>0, <1>1, <1>5, PumpPaces, ConfSpans DEF Linked
  <2>3. sent \in BOOLEAN
    BY DEF Silent
  <2>4. /\ c \in Ends(n) /\ c.recv = IF sent THEN 0 ELSE s.client.recv
        /\ c.send = s.client.send /\ c.wakes = s.client.wakes /\ Paced(c, conf.client)
    BY <1>0, <1>1, <2>3, HeardPaces, ConfSpans DEF Linked
  <2>5. r = [open |-> s.open, client |-> c, server |-> p]
    BY <1>1, <2>1 DEF Pairs
  <2> HIDE DEF sent, c
  <2>6. r \in Pairs(n) /\ r.open /\ r.client = c /\ r.server = p
    BY <1>1, <2>2, <2>4, <2>5 DEF Pairs
  <2>7. ~Patient(conf)
    BY <1>5 DEF Patient
  <2> QED BY <1>5, <2>2, <2>4, <2>6, <2>7 DEF Linked, Pairs
<1>6. CASE ~conf.stream /\ ~Idle(s, conf)
  <2> DEFINE sent == s.server.recv >= conf.server
             c == Heard(s.client, sent)
  <2>1. r = [s EXCEPT !.client = Heard(@, sent)]
    BY <1>6 DEF ServerActs, Sweep
  <2>2. sent \in BOOLEAN
    OBVIOUS
  <2>s. sent <=> s.server.recv >= conf.server
    OBVIOUS
  <2> HIDE DEF sent
  <2>3. /\ c \in Ends(n) /\ c.recv = IF sent THEN 0 ELSE s.client.recv
        /\ c.send = s.client.send /\ c.wakes = s.client.wakes /\ Paced(c, conf.client)
    BY <1>0, <1>1, <2>2, HeardPaces, ConfSpans DEF Linked
  <2>4. r = [open |-> s.open, client |-> c, server |-> s.server]
    BY <1>1, <2>1 DEF Pairs
  <2> HIDE DEF c
  <2>5. r \in Pairs(n) /\ r.open /\ r.client = c /\ r.server = s.server
    BY <1>1, <2>3, <2>4 DEF Pairs
  <2>6. Linked(r, conf, n, client, TRUE)
    BY <1>2, <1>3, <1>6, <2>s, <2>3, <2>5 DEF Linked, Pairs
  <2> QED BY <2>5, <2>6
<1>7. \/ Idle(s, conf) /\ r = [s EXCEPT !.open = FALSE]
      \/ conf.stream /\ r \notin Reaped(s, conf)
      \/ ~conf.stream /\ ~Idle(s, conf)
  BY DEF ServerActs, Sweep, Reaped
<1> QED BY <1>4, <1>5, <1>6, <1>7
------------------------------------------------------------------------------
(* Sweep by sweep *)

LEMMA FreshIs ==
  ASSUME NEW interval, Spans(interval), NEW e \in Fresh(interval)
  PROVE  /\ e \in Ends(0) /\ Paced(e, interval) /\ e.wakes > 0
         /\ e.recv = 0 /\ e.send = 0 /\ (interval = Never => e.wakes = Never)
<1>1. PICK w \in NextDelays(interval) : e = [recv |-> 0, send |-> 0, wakes |-> w]
  BY DEF Fresh
<1>2. /\ w \in Nat /\ w > 0 /\ Latest(interval) \in Nat /\ Never \in Nat
      /\ interval = Never => w = Never /\ ~ (Latest(interval) < Never)
      /\ interval # Never => w <= Latest(interval)
  BY DelaysSpan, LatestSpans, KeepaliveAssumption DEF Never
<1>3. e \in Ends(0)
  BY <1>1, <1>2 DEF Ends
<1>4. Quiet(e) = 0
  BY <1>1, <1>3, QuietIs
<1> QED BY <1>1, <1>2, <1>3, <1>4 DEF Paced

LEMMA OpenedKept ==
  ASSUME NEW conf \in Sessions, NEW s \in Opened(conf)
  PROVE  KeptSoFar(s, conf, 0)
<1> DEFINE interval == IF conf.stream THEN conf.server ELSE Never
<1>1. Spans(interval) /\ Spans(conf.client)
  BY ConfSpans, KeepaliveAssumption DEF Spans, Never
<1>2. PICK c \in Fresh(conf.client), v \in Fresh(interval) :
        s = [open |-> TRUE, client |-> c, server |-> v]
  BY DEF Opened
<1>3. /\ c \in Ends(0) /\ Paced(c, conf.client) /\ c.wakes > 0 /\ c.recv = 0 /\ c.send = 0
      /\ v \in Ends(0) /\ Paced(v, interval) /\ v.wakes > 0 /\ v.recv = 0 /\ v.send = 0
      /\ interval = Never => v.wakes = Never
  BY <1>1, <1>2, FreshIs
<1>4. s \in Pairs(0) /\ s.open /\ s.client = c /\ s.server = v
  BY <1>2, <1>3 DEF Pairs
<1>5. conf.server \in Nat /\ conf.server > 0 /\ conf.stream \in BOOLEAN
  BY ConfSpans DEF Spans
<1>6. Linked(s, conf, 0, TRUE, TRUE)
  BY <1>3, <1>4, <1>5 DEF Linked
<1> QED BY <1>4, <1>6 DEF KeptSoFar, Pairs

LEMMA SweepKeeps ==
  ASSUME NEW n \in Nat, n + 1 <= Horizon, NEW conf \in Sessions,
         NEW s, KeptSoFar(s, conf, n), s.open, NEW r \in After(s, conf)
  PROVE  KeptSoFar(r, conf, n + 1)
<1> DEFINE t == Older(s)
<1>0. n + 1 \in Nat /\ n + 1 \in 0 .. Horizon
  BY KeepaliveAssumption
<1>1. Linked(t, conf, n + 1, FALSE, FALSE)
  BY SweepBegins DEF KeptSoFar
<1>2. \/ \E u \in ClientActs(t, conf) : r \in ServerActs(u, conf)
      \/ \E v \in ServerActs(t, conf) : v.open /\ r \in ClientActs(v, conf)
      \/ r \in ServerActs(t, conf) /\ ~r.open
  <2>1. r \in ClientBefore(t, conf) \/ r \in ServerBefore(t, conf)
    BY DEF After
  <2>2. CASE r \in ClientBefore(t, conf)
    BY <2>2 DEF ClientBefore
  <2>3. CASE r \in ServerBefore(t, conf)
    BY <2>3 DEF ServerBefore
  <2> QED BY <2>1, <2>2, <2>3
<1> HIDE DEF t
<1>3. CASE \E u \in ClientActs(t, conf) : r \in ServerActs(u, conf)
  <2>1. PICK u \in ClientActs(t, conf) : r \in ServerActs(u, conf)
    BY <1>3
  <2>2. Linked(u, conf, n + 1, TRUE, FALSE)
    BY <1>0, <1>1, ClientKeepsLink
  <2> QED BY <1>0, <2>1, <2>2, ServerKeepsLink DEF KeptSoFar
<1>4. CASE \E v \in ServerActs(t, conf) : v.open /\ r \in ClientActs(v, conf)
  <2>1. PICK v \in ServerActs(t, conf) : v.open /\ r \in ClientActs(v, conf)
    BY <1>4
  <2>2. Linked(v, conf, n + 1, FALSE, TRUE)
    BY <1>0, <1>1, <2>1, ServerKeepsLink
  <2>3. Linked(r, conf, n + 1, TRUE, TRUE)
    BY <1>0, <2>1, <2>2, ClientKeepsLink
  <2> QED BY <2>3 DEF KeptSoFar, Linked, Pairs
<1>5. CASE r \in ServerActs(t, conf) /\ ~r.open
  BY <1>0, <1>1, <1>5, ServerKeepsLink DEF KeptSoFar
<1> QED BY <1>2, <1>3, <1>4, <1>5

------------------------------------------------------------------------------
(* Any number of sweeps *)

\* Numbers counted on from 0 are all of them.
LEMMA CountedOn ==
  ASSUME NEW S, 0 \in S, \A n \in Nat : n \in S => n + 1 \in S
  PROVE  Nat \subseteq S
<1> SUFFICES ASSUME Nat \ S # {} PROVE FALSE
  OBVIOUS
<1> DEFINE T == Nat \ S
           R == OpToRel(<, Nat)
<1>1. PICK n \in T : \A k \in T : <<k, n>> \notin R
  <2>1. T \subseteq Nat /\ T # {}
    OBVIOUS
  <2> HIDE DEF T, R
  <2>2. IsWellFoundedOn(R, Nat)
    BY NatLessThanWellFounded DEF R
  <2> QED BY <2>1, <2>2, WFMin
<1>2. n \in Nat /\ n # 0 /\ n - 1 \in Nat /\ n - 1 < n
  <2>1. n \in Nat /\ n \notin S
    OBVIOUS
  <2>2. n # 0
    BY <2>1
  <2> QED BY <2>1, <2>2
<1>3. n - 1 \in S
  <2>1. <<n - 1, n>> \in R
    BY <1>2 DEF OpToRel
  <2> QED BY <1>1, <1>2, <2>1
<1>4. (n - 1) + 1 = n
  BY <1>2
<1> QED BY <1>1, <1>2, <1>3, <1>4

FirstSweep(conf) == [all |-> Opened(conf), last |-> Opened(conf)]

\* f is what an idle session can come to in 0 to n sweeps.
Course(f, n, conf) ==
  f = [k \in 0 .. n |-> IF k = 0 THEN FirstSweep(conf) ELSE Onward(f[k - 1], conf)]

LEMMA CourseExists ==
  ASSUME NEW conf, NEW n \in Nat
  PROVE  \E f : Course(f, n, conf)
<1> DEFINE S == {k \in Nat : \E f : Course(f, k, conf)}
<1>1. 0 \in S
  <2> DEFINE f == [k \in 0 .. 0 |-> FirstSweep(conf)]
  <2>1. Course(f, 0, conf)
    BY DEF Course
  <2> QED BY <2>1
<1>2. ASSUME NEW k \in Nat, k \in S PROVE k + 1 \in S
  <2>1. PICK f : Course(f, k, conf)
    BY <1>2
  <2> DEFINE g == [i \in 0 .. k + 1 |-> IF i <= k THEN f[i] ELSE Onward(f[k], conf)]
  <2>2. \A i \in 0 .. k + 1 :
          g[i] = IF i = 0 THEN FirstSweep(conf) ELSE Onward(g[i - 1], conf)
    <3> TAKE i \in 0 .. k + 1
    <3>1. CASE i = 0
      BY <2>1, <3>1 DEF Course
    <3>2. CASE i # 0 /\ i <= k
      <4>1. i \in 0 .. k /\ i - 1 \in 0 .. k /\ i - 1 \in 0 .. k + 1 /\ i - 1 <= k
        BY <3>2
      <4>2. f[i] = Onward(f[i - 1], conf)
        BY <2>1, <3>2, <4>1 DEF Course
      <4> QED BY <3>2, <4>1, <4>2
    <3>3. CASE i # 0 /\ ~(i <= k)
      <4>1. i - 1 = k /\ k \in 0 .. k + 1 /\ k <= k
        BY <3>3
      <4>2. g[i] = Onward(f[k], conf) /\ g[k] = f[k]
        BY <3>3, <4>1
      <4> QED BY <3>3, <4>1, <4>2
    <3> QED BY <3>1, <3>2, <3>3
  <2>3. Course(g, k + 1, conf)
    <3>1. g = [i \in 0 .. k + 1 |-> g[i]]
      OBVIOUS
    <3> HIDE DEF g
    <3> QED BY <2>2, <3>1 DEF Course
  <2>4. \E h : Course(h, k + 1, conf)
    BY <2>3
  <2> QED BY <2>4
<1>3. Nat \subseteq S
  <2> HIDE DEF S
  <2> QED BY <1>1, <1>2, CountedOn
<1> QED BY <1>3

LEMMA ReachedKept ==
  ASSUME NEW conf \in Sessions, NEW s \in Reached(conf)
  PROVE  \E n \in 0 .. Horizon : KeptSoFar(s, conf, n)
<1> DEFINE f == CHOOSE g : Course(g, Horizon, conf)
           Sound(k) == /\ \A e \in f[k].all : \E n \in 0 .. k : KeptSoFar(e, conf, n)
                       /\ \A e \in f[k].last : KeptSoFar(e, conf, k)
           S == {k \in Nat : k <= Horizon => Sound(k)}
<1>0. Horizon \in Nat
  BY KeepaliveAssumption
<1>1. Course(f, Horizon, conf)
  BY <1>0, CourseExists
<1>2. Reached(conf) = f[Horizon].all
  BY DEF Reached, Course, FirstSweep
<1> HIDE DEF f
<1>3. /\ f[0] = FirstSweep(conf)
      /\ \A k \in 1 .. Horizon : f[k] = Onward(f[k - 1], conf)
  BY <1>0, <1>1 DEF Course
<1>4. 0 \in S
  <2>1. Sound(0)
    BY <1>3, OpenedKept DEF FirstSweep
  <2> QED BY <2>1
<1>5. ASSUME NEW k \in Nat, k \in S PROVE k + 1 \in S
  <2> SUFFICES ASSUME k + 1 <= Horizon PROVE Sound(k + 1)
    OBVIOUS
  <2>1. Sound(k)
    BY <1>0, <1>5
  <2>2. f[k + 1] = Onward(f[k], conf)
    <3>1. k + 1 \in 1 .. Horizon /\ (k + 1) - 1 = k
      BY <1>0
    <3> QED BY <1>3, <3>1
  <2>3. /\ \A e \in f[k + 1].all : e \in f[k].all \/ e \in f[k + 1].last
        /\ \A e \in f[k + 1].last : \E b \in f[k].last : b.open /\ e \in After(b, conf)
    BY <2>2 DEF Onward
  <2>4. \A e \in f[k + 1].last : KeptSoFar(e, conf, k + 1)
    BY <2>1, <2>3, SweepKeeps
  <2>5. \A e \in f[k + 1].all : \E n \in 0 .. k + 1 : KeptSoFar(e, conf, n)
    <3>1. TAKE e \in f[k + 1].all
    <3>2. CASE e \in f[k].all
      <4>1. PICK n \in 0 .. k : KeptSoFar(e, conf, n)
        BY <2>1, <3>2
      <4>2. n \in 0 .. k + 1
        OBVIOUS
      <4> QED BY <4>1, <4>2
    <3>3. CASE e \in f[k + 1].last
      <4>1. k + 1 \in 0 .. k + 1
        OBVIOUS
      <4> QED BY <2>4, <3>3, <4>1
    <3> QED BY <2>3, <3>2, <3>3
  <2> QED BY <2>4, <2>5
<1>6. Nat \subseteq S
  <2> HIDE DEF S
  <2> QED BY <1>4, <1>5, CountedOn
<1>7. Sound(Horizon)
  BY <1>0, <1>6
<1> QED BY <1>2, <1>7

------------------------------------------------------------------------------
(* The theorems *)

\* An open session's path is used in time.
LEMMA PathIsKept ==
  ASSUME NEW conf \in Sessions, NEW n \in 0 .. Horizon, NEW s, KeptSoFar(s, conf, n), s.open
  PROVE  PathKept(s, conf)
<1>1. n \in Nat /\ n < Never /\ Never \in Nat
  BY KeepaliveAssumption DEF Never
<1>2. /\ Linked(s, conf, n, TRUE, TRUE) /\ s.client \in Ends(n) /\ s.server \in Ends(n)
      /\ Paced(s.client, conf.client)
  BY DEF KeptSoFar, Linked, Pairs
<1>3. /\ s.client.recv \in 0 .. n /\ s.client.send \in 0 .. n
      /\ s.server.recv \in 0 .. n /\ s.server.send \in 0 .. n
      /\ s.client.wakes \in Nat /\ s.server.wakes \in Nat
  BY <1>2 DEF Ends
<1>4. /\ conf.server \in Nat /\ conf.stream \in BOOLEAN
      /\ Latest(conf.client) \in Nat /\ Latest(conf.server) \in Nat
  BY ConfSpans, LatestSpans DEF Spans
<1>5. /\ Quiet(s.client) \in 0 .. n /\ Quiet(s.server) \in 0 .. n
      /\ Quiet(s.client) <= s.client.recv /\ Quiet(s.client) <= s.client.send
  BY <1>1, <1>2, <1>3, QuietIs
<1>6. Quiet(s.client) <= Latest(conf.client)
  BY <1>1, <1>2, <1>3, <1>4, <1>5 DEF Paced
<1>7. CASE conf.stream
  <2>1. Quiet(s.server) = Quiet(s.client)
    BY <1>1, <1>2, <1>3, <1>7, QuietIs DEF Linked
  <2>2. Quiet(s.client) <= Latest(conf.server)
    BY <1>1, <1>2, <1>3, <1>4, <1>5, <1>7, <2>1 DEF Linked, Paced
  <2> QED BY <1>4, <1>6, <1>7, <2>2, MinOfTwo DEF PathKept
<1>8. CASE ~conf.stream
  <2>1. Quiet(s.client) <= conf.server
    BY <1>2, <1>3, <1>4, <1>5, <1>8 DEF Linked
  <2> QED BY <1>4, <1>6, <1>8, <2>1, MinOfTwo DEF PathKept
<1> QED BY <1>4, <1>7, <1>8

LEMMA OtherSideIsHeard ==
  ASSUME NEW conf \in Sessions, NEW n \in 0 .. Horizon, NEW s, KeptSoFar(s, conf, n),
         ~conf.stream, s.open \/ conf.server > conf.client
  PROVE  OtherSideHeard(s, conf)
<1>1. /\ conf.server \in Nat /\ conf.client \in Nat /\ conf.timeout \in Nat
      /\ Latest(conf.client) \in Nat
  BY ConfSpans, LatestSpans DEF Spans
<1>2. conf.server < conf.client => s.client.recv <= conf.server
  BY <1>1 DEF KeptSoFar, Linked
<1>3. Latest(conf.client) < Min({conf.server, conf.timeout}) => s.open
  BY <1>1, MinOfTwo DEF KeptSoFar, Patient
<1> QED BY <1>2, <1>3 DEF OtherSideHeard

\* However the two keepalive intervals and the idle timeout are configured, the path
\* of an open session is used within the shorter interval and what a pump may be late,
\* a multiplexer with the shorter interval is heard by the client, and one with the
\* longer does not close the session of a client that is alive (SetKeepalive,
\* sendKeepalive).
THEOREM KeepalivesKeep == IdleLinkKept
BY ReachedKept, PathIsKept, OtherSideIsHeard DEF IdleLinkKept

\* So it is of every session that is open in the multiplexer.
THEOREM IdleSessionsStay == Spec => []IdleSessionKept
<1>1. IdleSessionKept
  BY KeepalivesKeep DEF IdleSessionKept
<1> QED BY <1>1, PTL

------------------------------------------------------------------------------
(* Frames that carry nothing: the windows of the decoy replies *)

\* A value that is carried along by one function has a course of any length.
Carries(f, n, W, a, G) ==
  /\ f \in [0 .. n -> W] /\ f[0] = a
  /\ \A i \in 1 .. n : f[i] = G[<<i, f[i - 1]>>]

LEMMA CarriedAlong ==
  ASSUME NEW W, NEW a \in W, NEW G \in [Nat \X W -> W], NEW n \in Nat
  PROVE  \E f : Carries(f, n, W, a, G)
<1> DEFINE P(m, f) == f[0] = a /\ \A i \in 1 .. m : f[i] = G[<<i, f[i - 1]>>]
           S == {m \in Nat : \E f \in [0 .. m -> W] : P(m, f)}
<1>1. 0 \in S
  <2> DEFINE f == [k \in 0 .. 0 |-> a]
  <2>1. f \in [0 .. 0 -> W] /\ P(0, f)
    OBVIOUS
  <2> QED BY <2>1
<1>2. ASSUME NEW m \in Nat, m \in S PROVE m + 1 \in S
  <2>1. PICK f \in [0 .. m -> W] : P(m, f)
    BY <1>2
  <2> DEFINE g == [i \in 0 .. m + 1 |-> IF i <= m THEN f[i] ELSE G[<<m + 1, f[m]>>]]
  <2>2. G[<<m + 1, f[m]>>] \in W
    <3>1. <<m + 1, f[m]>> \in Nat \X W
      OBVIOUS
    <3> QED BY <3>1
  <2>3. g \in [0 .. m + 1 -> W]
    BY <2>2
  <2>4. \A i \in 0 .. m : g[i] = f[i]
    OBVIOUS
  <2>5. g[m + 1] = G[<<m + 1, f[m]>>]
    OBVIOUS
  <2> HIDE DEF g
  <2>6. \A i \in 1 .. m + 1 : g[i] = G[<<i, g[i - 1]>>]
    <3> TAKE i \in 1 .. m + 1
    <3>1. CASE i <= m
      <4>1. i \in 1 .. m /\ i \in 0 .. m /\ i - 1 \in 0 .. m
        BY <3>1
      <4> QED BY <2>1, <2>4, <4>1
    <3>2. CASE i = m + 1
      <4>1. i - 1 = m /\ m \in 0 .. m
        BY <3>2
      <4> QED BY <2>4, <2>5, <3>2, <4>1
    <3> QED BY <3>1, <3>2
  <2>7. g[0] = a
    <3>1. 0 \in 0 .. m
      OBVIOUS
    <3> QED BY <2>1, <2>4, <3>1
  <2> QED BY <2>3, <2>6, <2>7
<1>3. Nat \subseteq S
  <2> HIDE DEF S
  <2> QED BY <1>1, <1>2, CountedOn
<1> QED BY <1>3 DEF Carries

LEMMA AskedTimes ==
  ASSUME NEW q \in Asked
  PROVE  /\ Len(q) \in Nat /\ DOMAIN q = 1 .. Len(q)
         /\ \A i \in 1 .. Len(q) : q[i] \in Nat
         /\ \A i \in 2 .. Len(q) : q[i - 1] <= q[i]
BY DecoyAssumption

Tokens == [start : Int, count : Nat]

\* What the multiplexer has in hand after each request.
Handed(f, q) ==
  f = [i \in 0 .. Len(q) |-> IF i = 0 THEN NoTokens ELSE TakeDecoyToken(f[i - 1], q[i])]

LEMMA WindowIs ==
  ASSUME NEW w \in Tokens, NEW now \in Int
  PROVE  /\ Window(w, now) \in Tokens
         /\ now - Window(w, now).start < Second
         /\ \/ Window(w, now) = w
            \/ /\ Window(w, now).start = now /\ Window(w, now).count = 0
               /\ now >= w.start + Second
         /\ Window(w, now) = w \/ Window(w, now).start >= w.start + Second
BY DecoyAssumption DEF Window, Tokens

LEMMA TokenIs ==
  ASSUME NEW w \in Tokens, NEW now \in Int
  PROVE  /\ TakeDecoyToken(w, now) \in Tokens
         /\ TakeDecoyToken(w, now).start = Window(w, now).start
         /\ TakeDecoyToken(w, now).count =
              Window(w, now).count + (IF Granted(w, now) THEN 1 ELSE 0)
<1> DEFINE v == Window(w, now)
<1>1. v \in Tokens
  BY WindowIs
<1>2. TakeDecoyToken(w, now) = IF Granted(w, now) THEN [v EXCEPT !.count = @ + 1] ELSE v
  BY DEF TakeDecoyToken
<1> HIDE DEF v
<1>3. [v EXCEPT !.count = @ + 1] = [start |-> v.start, count |-> v.count + 1]
  BY <1>1 DEF Tokens
<1>4. v.start \in Int /\ v.count \in Nat
  BY <1>1 DEF Tokens
<1>5. /\ TakeDecoyToken(w, now) \in Tokens
      /\ TakeDecoyToken(w, now).start = v.start
      /\ TakeDecoyToken(w, now).count = v.count + (IF Granted(w, now) THEN 1 ELSE 0)
  BY <1>1, <1>2, <1>3, <1>4 DEF Tokens
<1> QED BY <1>5 DEF v

LEMMA HandedExists ==
  ASSUME NEW q \in Asked
  PROVE  \E f : Handed(f, q)
<1> DEFINE G == [x \in Nat \X Tokens |->
                   IF x[1] \in 1 .. Len(q) THEN TakeDecoyToken(x[2], q[x[1]]) ELSE x[2]]
<1>1. G \in [Nat \X Tokens -> Tokens]
  <2> SUFFICES ASSUME NEW i \in Nat, NEW w \in Tokens PROVE G[<<i, w>>] \in Tokens
    OBVIOUS
  <2>1. CASE i \in 1 .. Len(q)
    <3>1. q[i] \in Int
      BY <2>1, AskedTimes
    <3>2. TakeDecoyToken(w, q[i]) \in Tokens
      BY <3>1, TokenIs
    <3> QED BY <2>1, <3>2
  <2>2. CASE i \notin 1 .. Len(q)
    BY <2>2
  <2> QED BY <2>1, <2>2
<1>2. NoTokens \in Tokens
  BY DecoyAssumption DEF NoTokens, Tokens
<1>3. \A i \in 1 .. Len(q) : \A w \in Tokens : G[<<i, w>>] = TakeDecoyToken(w, q[i])
  OBVIOUS
<1> HIDE DEF G
<1>4. PICK f : Carries(f, Len(q), Tokens, NoTokens, G)
  BY <1>1, <1>2, AskedTimes, CarriedAlong
<1>5. \A i \in 1 .. Len(q) : f[i] = TakeDecoyToken(f[i - 1], q[i])
  <2> TAKE i \in 1 .. Len(q)
  <2>1. f[i - 1] \in Tokens
    BY <1>4, AskedTimes DEF Carries
  <2> QED BY <1>3, <1>4, <2>1 DEF Carries
<1>6. \A i \in 0 .. Len(q) :
        f[i] = IF i = 0 THEN NoTokens ELSE TakeDecoyToken(f[i - 1], q[i])
  BY <1>4, <1>5, AskedTimes DEF Carries
<1>7. f = [i \in 0 .. Len(q) |-> f[i]]
  BY <1>4 DEF Carries
<1>8. Handed(f, q)
  BY <1>6, <1>7 DEF Handed
<1> QED BY <1>8

LEMMA HandedIs ==
  ASSUME NEW q \in Asked, NEW f, Handed(f, q)
  PROVE  /\ \A i \in 0 .. Len(q) : f[i] \in Tokens
         /\ \A i \in 1 .. Len(q) : f[i] = TakeDecoyToken(f[i - 1], q[i])
         /\ \A i \in 1 .. Len(q) : f[i].start <= q[i]
<1> DEFINE n == Len(q)
           Good(i) == f[i] \in Tokens /\ (i > 0 => f[i].start <= q[i])
           S == {i \in Nat : i <= n => Good(i)}
<1>1. n \in Nat /\ \A i \in 1 .. n : q[i] \in Nat
  BY AskedTimes
<1>2. f[0] = NoTokens /\ \A i \in 1 .. n : f[i] = TakeDecoyToken(f[i - 1], q[i])
  BY <1>1 DEF Handed
<1> HIDE DEF n
<1>3. 0 \in S
  <2>1. Good(0)
    BY <1>2, DecoyAssumption DEF NoTokens, Tokens
  <2> QED BY <2>1
<1>4. ASSUME NEW k \in Nat, k \in S PROVE k + 1 \in S
  <2> SUFFICES ASSUME k + 1 <= n PROVE Good(k + 1)
    OBVIOUS
  <2>1. f[k] \in Tokens /\ (k > 0 => f[k].start <= q[k])
    BY <1>1, <1>4
  <2>2. k + 1 \in 1 .. n /\ (k + 1) - 1 = k
    BY <1>1
  <2>3. f[k + 1] = TakeDecoyToken(f[k], q[k + 1]) /\ q[k + 1] \in Nat /\ q[k + 1] \in Int
    BY <1>1, <1>2, <2>2
  <2>4. f[k + 1] \in Tokens /\ f[k + 1].start = Window(f[k], q[k + 1]).start
    <3>1. \A w \in Tokens, at \in Int : /\ TakeDecoyToken(w, at) \in Tokens
                                       /\ TakeDecoyToken(w, at).start = Window(w, at).start
      BY TokenIs
    <3> QED BY <2>1, <2>3, <3>1
  <2>5. \/ Window(f[k], q[k + 1]) = f[k]
        \/ Window(f[k], q[k + 1]).start = q[k + 1]
    <3>1. \A w \in Tokens, at \in Int : Window(w, at) = w \/ Window(w, at).start = at
      BY WindowIs
    <3> QED BY <2>1, <2>3, <3>1
  <2>6. f[k].start <= q[k + 1] /\ f[k].start \in Int
    <3>1. CASE k = 0
      BY <1>2, <2>3, <3>1, DecoyAssumption DEF NoTokens
    <3>2. CASE k > 0
      <4>1. k + 1 \in 2 .. n /\ k \in 1 .. n
        BY <1>1, <3>2
      <4>2. q[k] <= q[k + 1] /\ q[k] \in Nat
        BY <1>1, <2>2, <4>1, AskedTimes DEF n
      <4>3. f[k].start \in Int
        BY <2>1 DEF Tokens
      <4> QED BY <2>1, <2>3, <3>2, <4>2, <4>3
    <3> QED BY <3>1, <3>2
  <2> QED BY <2>3, <2>4, <2>5, <2>6
<1>5. Nat \subseteq S
  <2> HIDE DEF S
  <2> QED BY <1>3, <1>4, CountedOn
<1>6. \A i \in 0 .. n : Good(i)
  BY <1>1, <1>5
<1> QED BY <1>1, <1>2, <1>6 DEF n

\* The window a request falls into, and its place there.
Seen(f, q, i) == Window(f[i - 1], q[i])

LEMMA SeenIs ==
  ASSUME NEW q \in Asked, NEW f, Handed(f, q), NEW i \in 1 .. Len(q)
  PROVE  /\ Seen(f, q, i) \in Tokens /\ q[i] \in Nat
         /\ f[i] \in Tokens /\ f[i].start = Seen(f, q, i).start
         /\ f[i].count = Seen(f, q, i).count + (IF Granted(f[i - 1], q[i]) THEN 1 ELSE 0)
         /\ Seen(f, q, i).start <= q[i] /\ q[i] - Seen(f, q, i).start < Second
         /\ \/ Seen(f, q, i) = f[i - 1]
            \/ Seen(f, q, i).start >= f[i - 1].start + Second
<1>1. i \in 0 .. Len(q) /\ i - 1 \in 0 .. Len(q) /\ q[i] \in Nat /\ q[i] \in Int
  BY AskedTimes
<1>2. /\ f[i - 1] \in Tokens /\ f[i] \in Tokens /\ f[i].start <= q[i]
      /\ f[i] = TakeDecoyToken(f[i - 1], q[i])
  <2>1. \A k \in 0 .. Len(q) : f[k] \in Tokens
    BY HandedIs
  <2>2. \A k \in 1 .. Len(q) : f[k] = TakeDecoyToken(f[k - 1], q[k]) /\ f[k].start <= q[k]
    BY HandedIs
  <2> QED BY <1>1, <2>1, <2>2
<1>3. /\ Window(f[i - 1], q[i]) \in Tokens
      /\ q[i] - Window(f[i - 1], q[i]).start < Second
      /\ \/ Window(f[i - 1], q[i]) = f[i - 1]
         \/ Window(f[i - 1], q[i]).start >= f[i - 1].start + Second
  <2>1. \A w \in Tokens, now \in Int :
          /\ Window(w, now) \in Tokens /\ now - Window(w, now).start < Second
          /\ Window(w, now) = w \/ Window(w, now).start >= w.start + Second
    BY WindowIs
  <2> QED BY <1>1, <1>2, <2>1
<1>4. /\ f[i].start = Window(f[i - 1], q[i]).start
      /\ f[i].count = Window(f[i - 1], q[i]).count
                       + (IF Granted(f[i - 1], q[i]) THEN 1 ELSE 0)
  <2>1. \A w \in Tokens, now \in Int :
          /\ TakeDecoyToken(w, now).start = Window(w, now).start
          /\ TakeDecoyToken(w, now).count =
               Window(w, now).count + (IF Granted(w, now) THEN 1 ELSE 0)
    BY TokenIs
  <2> QED BY <1>1, <1>2, <2>1
<1> HIDE DEF Window
<1> QED BY <1>1, <1>2, <1>3, <1>4 DEF Seen

\* Two replies have different places, or windows that do not overlap.
LEMMA WindowsApart ==
  ASSUME NEW q \in Asked, NEW f, Handed(f, q), NEW i \in 1 .. Len(q), NEW j \in 1 .. Len(q),
         i < j, Granted(f[i - 1], q[i])
  PROVE  \/ /\ Seen(f, q, j).start = Seen(f, q, i).start
            /\ Seen(f, q, j).count > Seen(f, q, i).count
         \/ Seen(f, q, j).start >= Seen(f, q, i).start + Second
<1> DEFINE n == Len(q)
           w == Seen(f, q, i)
           Apart(v) == (v.start = w.start /\ v.count > w.count) \/ v.start >= w.start + Second
           S == {k \in Nat : i + k <= n => Apart(f[i + k])}
<1>0. n \in Nat /\ w \in Tokens /\ Second \in Nat
  BY AskedTimes, SeenIs, DecoyAssumption
<1>1. 0 \in S
  <2>1. f[i].start = w.start /\ f[i].count = w.count + 1
    BY SeenIs
  <2>2. i + 0 = i
    OBVIOUS
  <2> QED BY <1>0, <2>1, <2>2 DEF Tokens
<1>2. ASSUME NEW k \in Nat, i + k + 1 <= n, Apart(f[i + k])
      PROVE  Apart(Seen(f, q, i + k + 1)) /\ Apart(f[i + k + 1])
  <2> DEFINE m == i + k + 1
             v == Seen(f, q, m)
  <2>1. m \in 1 .. n /\ m - 1 = i + k /\ i + k \in 0 .. n
    BY <1>0, <1>2
  <2>2. /\ v \in Tokens /\ f[m] \in Tokens /\ f[m].start = v.start
        /\ f[m].count >= v.count
        /\ v = f[i + k] \/ v.start >= f[i + k].start + Second
        /\ f[i + k] \in Tokens
    <3>1. f[i + k] \in Tokens
      BY <2>1, HandedIs
    <3>2. /\ v \in Tokens /\ f[m] \in Tokens /\ f[m].start = v.start
          /\ f[m].count = v.count + (IF Granted(f[m - 1], q[m]) THEN 1 ELSE 0)
          /\ v = f[m - 1] \/ v.start >= f[m - 1].start + Second
      <4> HIDE DEF m
      <4> QED BY <2>1, SeenIs
    <3> HIDE DEF m, v
    <3>3. v.count \in Nat /\ f[m].count \in Nat /\ f[m].count >= v.count
      <4>1. v.count \in Nat /\ f[m].count \in Nat
        BY <3>2 DEF Tokens
      <4>2. f[m].count = v.count + 1 \/ f[m].count = v.count + 0
        BY <3>2
      <4> QED BY <4>1, <4>2
    <3> QED BY <2>1, <3>1, <3>2, <3>3
  <2> HIDE DEF v, m, w
  <2>3. Apart(v)
    <3>1. /\ w.start \in Int /\ f[i + k].start \in Int /\ v.start \in Int /\ Second \in Nat
      BY <1>0, <2>2 DEF Tokens
    <3>2. CASE v = f[i + k]
      BY <1>2, <3>2
    <3>3. CASE v.start >= f[i + k].start + Second
      <4>1. f[i + k].start >= w.start
        BY <1>2, <3>1
      <4>2. v.start >= w.start + Second
        BY <3>1, <3>3, <4>1
      <4> QED BY <4>2
    <3> QED BY <2>2, <3>2, <3>3
  <2>4. Apart(f[m])
    <3>1. w.count \in Int /\ v.count \in Int /\ f[m].count \in Int
      BY <1>0, <2>2 DEF Tokens
    <3> QED BY <2>2, <2>3, <3>1
  <2> QED BY <2>3, <2>4 DEF v, m
<1>3. ASSUME NEW k \in Nat, k \in S PROVE k + 1 \in S
  <2> SUFFICES ASSUME i + (k + 1) <= n PROVE Apart(f[i + (k + 1)])
    OBVIOUS
  <2>1. i + (k + 1) = i + k + 1 /\ i + k <= n
    BY <1>0
  <2>2. Apart(f[i + k])
    BY <1>3, <2>1
  <2> HIDE DEF Apart, n
  <2> QED BY <1>2, <2>1, <2>2
<1>4. Nat \subseteq S
  <2> HIDE DEF S
  <2> QED BY <1>1, <1>3, CountedOn
<1>5. PICK k \in Nat : j = i + k + 1
  <2>1. j - i - 1 \in Nat /\ j = i + (j - i - 1) + 1
    BY <1>0
  <2> QED BY <2>1
<1>6. Apart(f[i + k])
  <2>1. i + k <= n
    BY <1>0, <1>5
  <2> QED BY <1>4, <2>1
<1>7. i + k + 1 <= n
  BY <1>0, <1>5
<1>8. Apart(Seen(f, q, i + k + 1))
  <2> HIDE DEF Apart, n
  <2> QED BY <1>2, <1>6, <1>7
<1> QED BY <1>5, <1>8
\* A window begins within the second that is looked at, within the one before, or
\* before that.
Era(start, t) == IF start >= t THEN 2 ELSE IF start >= t - Second THEN 1 ELSE 0

LEMMA EraIs ==
  ASSUME NEW t \in Int, NEW a \in Int, NEW b \in Int, t - 2 * Second < a, a < t + Second,
         t - 2 * Second < b, b < t + Second
  PROVE  /\ Era(a, t) \in 0 .. 2
         /\ t - Second < a => Era(a, t) \in 1 .. 2
         /\ Era(a, t) = Era(b, t) => b < a + Second
BY DecoyAssumption DEF Era

\* A set that is numbered by pairs is no larger than the pairs are many.
LEMMA PairsCount ==
  ASSUME NEW T, NEW a \in Int, NEW b \in Int, a <= b, NEW m \in Nat, NEW g \in [T -> Int \X Int],
         \A i \in T : g[i] \in (a .. b) \X (0 .. m - 1),
         \A i \in T : \A j \in T : g[i] = g[j] => i = j
  PROVE  IsFiniteSet(T) /\ Cardinality(T) <= (b - a + 1) * m
<1> DEFINE U == (a .. b) \X (0 .. m - 1)
<1>1. /\ IsFiniteSet(a .. b) /\ Cardinality(a .. b) = b - a + 1
      /\ IsFiniteSet(0 .. m - 1) /\ Cardinality(0 .. m - 1) = m
  <2>1. /\ IsFiniteSet(a .. b) /\ Cardinality(a .. b) = IF a > b THEN 0 ELSE b - a + 1
    BY FS_Interval
  <2>2. /\ IsFiniteSet(0 .. m - 1)
        /\ Cardinality(0 .. m - 1) = IF 0 > m - 1 THEN 0 ELSE (m - 1) - 0 + 1
    <3>1. 0 \in Int /\ m - 1 \in Int
      OBVIOUS
    <3> QED BY <3>1, FS_Interval
  <2> QED BY <2>1, <2>2
<1>2. IsFiniteSet(U) /\ Cardinality(U) = (b - a + 1) * m
  <2> DEFINE A == a .. b
             B == 0 .. m - 1
  <2>1. IsFiniteSet(A) /\ IsFiniteSet(B) /\ Cardinality(A) = b - a + 1 /\ Cardinality(B) = m
    BY <1>1
  <2>2. U = A \X B
    OBVIOUS
  <2> HIDE DEF A, B, U
  <2>3. IsFiniteSet(A \X B) /\ Cardinality(A \X B) = Cardinality(A) * Cardinality(B)
    BY <2>1, FS_Product
  <2> QED BY <2>1, <2>2, <2>3
<1>3. g \in Injection(T, U)
  <2>1. g \in [T -> U]
    OBVIOUS
  <2>2. IsInjective(g)
    BY DEF IsInjective
  <2> QED BY <2>1, <2>2 DEF Injection
<1> HIDE DEF U
<1> QED BY <1>2, <1>3, FS_Injection

\* Requests that are granted within as many seconds, less one, as there are eras.
LEMMA FewGranted ==
  ASSUME NEW q \in Asked, NEW f, Handed(f, q), NEW t \in Int, NEW a \in {0, 1},
         NEW T \in SUBSET (1 .. Len(q)),
         \A i \in T : /\ Granted(f[i - 1], q[i])
                      /\ t - (1 - a) * Second <= q[i] /\ q[i] < t + Second
  PROVE  IsFiniteSet(T) /\ Cardinality(T) <= (3 - a) * MaxDecoyPerSec
<1> DEFINE g == [i \in T |-> <<Era(Seen(f, q, i).start, t), Seen(f, q, i).count>>]
<1>0. Second \in Nat \ {0} /\ MaxDecoyPerSec \in Nat /\ Len(q) \in Nat
  BY DecoyAssumption
<1>1. ASSUME NEW i \in T
      PROVE  /\ i \in 1 .. Len(q) /\ Granted(f[i - 1], q[i])
             /\ Seen(f, q, i).start \in Int /\ Seen(f, q, i).count \in 0 .. MaxDecoyPerSec - 1
             /\ t - 2 * Second < Seen(f, q, i).start /\ Seen(f, q, i).start < t + Second
             /\ a = 1 => t - Second < Seen(f, q, i).start
  <2>1. /\ Seen(f, q, i) \in Tokens /\ q[i] \in Nat
        /\ Seen(f, q, i).start <= q[i] /\ q[i] - Seen(f, q, i).start < Second
    BY SeenIs
  <2>2. Seen(f, q, i).start \in Int /\ Seen(f, q, i).count \in Nat
    BY <2>1 DEF Tokens
  <2>3. Seen(f, q, i).count < MaxDecoyPerSec
    BY DEF Granted, Seen
  <2>4. t - Second <= q[i] /\ q[i] < t + Second /\ (a = 1 => t <= q[i])
    <3>1. CASE a = 0
      <4>1. (1 - a) * Second = Second
        BY <1>0, <3>1
      <4>2. t - Second <= q[i] /\ q[i] < t + Second
        BY <4>1
      <4> QED BY <3>1, <4>2
    <3>2. CASE a = 1
      <4>1. (1 - a) * Second = 0
        BY <1>0, <3>2
      <4>2. t - 0 <= q[i] /\ q[i] < t + Second
        BY <4>1
      <4>3. t - 0 = t /\ t - Second <= t
        BY <1>0
      <4>4. t <= q[i] /\ q[i] < t + Second
        BY <4>2, <4>3
      <4>5. t - Second <= q[i]
        BY <1>0, <2>1, <4>4
      <4> QED BY <4>4, <4>5
    <3> QED BY <3>1, <3>2
  <2>5. /\ t - 2 * Second < Seen(f, q, i).start /\ Seen(f, q, i).start < t + Second
        /\ a = 1 => t - Second < Seen(f, q, i).start
    BY <1>0, <2>1, <2>2, <2>4
  <2>6. Seen(f, q, i).count \in 0 .. MaxDecoyPerSec - 1
    BY <1>0, <2>2, <2>3
  <2> QED BY <2>2, <2>5, <2>6
<1>2. \A i \in T : g[i] \in (a .. 2) \X (0 .. MaxDecoyPerSec - 1)
  <2> TAKE i \in T
  <2>1. Era(Seen(f, q, i).start, t) \in a .. 2
    BY <1>1, EraIs
  <2> QED BY <1>1, <2>1
<1>3. ASSUME NEW i \in T, NEW j \in T, i < j PROVE g[i] # g[j]
  <2>1. \/ Seen(f, q, j).count > Seen(f, q, i).count
        \/ Seen(f, q, j).start >= Seen(f, q, i).start + Second
    BY <1>1, <1>3, WindowsApart
  <2>2. Era(Seen(f, q, i).start, t) = Era(Seen(f, q, j).start, t) =>
          Seen(f, q, j).start < Seen(f, q, i).start + Second
    BY <1>1, EraIs
  <2>3. /\ Seen(f, q, i).count \in Int /\ Seen(f, q, j).count \in Int
        /\ Seen(f, q, i).start \in Int /\ Seen(f, q, j).start \in Int
    BY <1>1
  <2>4. \/ Era(Seen(f, q, i).start, t) # Era(Seen(f, q, j).start, t)
        \/ Seen(f, q, i).count # Seen(f, q, j).count
    BY <1>0, <2>1, <2>2, <2>3
  <2> QED BY <2>4
<1>4. \A i \in T : \A j \in T : g[i] = g[j] => i = j
  <2> SUFFICES ASSUME NEW i \in T, NEW j \in T, g[i] = g[j] PROVE i = j
    OBVIOUS
  <2>1. i \in Int /\ j \in Int
    BY <1>1
  <2> HIDE DEF g
  <2> QED BY <1>3, <2>1
<1>5. g \in [T -> Int \X Int]
  <2>1. \A i \in T : g[i] \in Int \X Int
    BY <1>0, <1>2
  <2> QED BY <2>1
<1> HIDE DEF g
<1>6. IsFiniteSet(T) /\ Cardinality(T) <= (2 - a + 1) * MaxDecoyPerSec
  <2>1. a \in Int /\ 2 \in Int /\ a <= 2
    OBVIOUS
  <2> QED BY <1>0, <1>2, <1>4, <1>5, <2>1, PairsCount
<1>7. 2 - a + 1 = 3 - a
  OBVIOUS
<1> QED BY <1>6, <1>7
LEMMA RepliesAre ==
  ASSUME NEW q \in Asked
  PROVE  \E f : Handed(f, q) /\ Replies(q) = {i \in 1 .. Len(q) : Granted(f[i - 1], q[i])}
<1> DEFINE f == CHOOSE g : Handed(g, q)
<1>1. Handed(f, q)
  BY HandedExists
<1>2. Replies(q) = {i \in DOMAIN q : Granted(f[i - 1], q[i])}
  BY DEF Replies, Handed
<1> QED BY <1>1, <1>2, AskedTimes

LEMMA FewReplies ==
  ASSUME NEW q \in Asked, NEW t \in Int
  PROVE  /\ Cardinality(Within(Replies(q), q, t, 0)) <= 2 * MaxDecoyPerSec
         /\ Cardinality(Within(Replies(q), q, t, Second)) <= 3 * MaxDecoyPerSec
<1>0. Second \in Nat \ {0}
  BY DecoyAssumption
<1>1. PICK f : Handed(f, q) /\ Replies(q) = {i \in 1 .. Len(q) : Granted(f[i - 1], q[i])}
  BY RepliesAre
<1>2. \A i \in Replies(q) :
        i \in 1 .. Len(q) /\ q[i] \in Nat /\ Granted(f[i - 1], q[i])
  BY <1>1, AskedTimes
<1>3. Cardinality(Within(Replies(q), q, t, 0)) <= 2 * MaxDecoyPerSec
  <2> DEFINE T == Within(Replies(q), q, t, 0)
  <2>1. \A i \in T : i \in Replies(q) /\ t <= q[i] /\ q[i] < t + Second
    BY <1>2 DEF Within, Delays
  <2> HIDE DEF T
  <2>2. T \in SUBSET (1 .. Len(q))
    BY <1>2, <2>1
  <2>3. \A i \in T : /\ Granted(f[i - 1], q[i])
                     /\ t - (1 - 1) * Second <= q[i] /\ q[i] < t + Second
    BY <1>0, <1>2, <2>1
  <2>4. Cardinality(T) <= (3 - 1) * MaxDecoyPerSec
    <3>1. 1 \in {0, 1}
      OBVIOUS
    <3> QED BY <1>1, <2>2, <2>3, <3>1, FewGranted
  <2>5. 3 - 1 = 2
    OBVIOUS
  <2> QED BY <2>4, <2>5 DEF T
<1>4. Cardinality(Within(Replies(q), q, t, Second)) <= 3 * MaxDecoyPerSec
  <2> DEFINE T == Within(Replies(q), q, t, Second)
  <2>1. \A i \in T : i \in Replies(q) /\ t - Second <= q[i] /\ q[i] < t + Second
    BY <1>0, <1>2 DEF Within, Delays
  <2> HIDE DEF T
  <2>2. T \in SUBSET (1 .. Len(q))
    BY <1>2, <2>1
  <2>3. \A i \in T : /\ Granted(f[i - 1], q[i])
                     /\ t - (1 - 0) * Second <= q[i] /\ q[i] < t + Second
    BY <1>0, <1>2, <2>1
  <2>4. Cardinality(T) <= (3 - 0) * MaxDecoyPerSec
    <3>1. 0 \in {0, 1}
      OBVIOUS
    <3> QED BY <1>1, <2>2, <2>3, <3>1, FewGranted
  <2>5. 3 - 0 = 3
    OBVIOUS
  <2> QED BY <2>4, <2>5 DEF T
<1> QED BY <1>3, <1>4

LEMMA BurstIs ==
  ASSUME NEW b \in Int
  PROVE  Burst(b) \in 1 .. MaxDecoyBurst
<1>1. CASE b < 1
  <2>1. ~(b > MaxDecoyBurst)
    BY <1>1 DEF MaxDecoyBurst
  <2>2. Burst(b) = 1
    BY <1>1, <2>1, Zenon DEF Burst
  <2> QED BY <2>2 DEF MaxDecoyBurst
<1>2. CASE b > MaxDecoyBurst
  <2>1. ~(b < 1)
    BY <1>2 DEF MaxDecoyBurst
  <2>2. Burst(b) = MaxDecoyBurst
    BY <1>2, <2>1, Zenon DEF Burst
  <2> QED BY <2>2 DEF MaxDecoyBurst
<1>3. CASE ~(b < 1) /\ ~(b > MaxDecoyBurst)
  <2>1. Burst(b) = b
    BY <1>3, Zenon DEF Burst
  <2> QED BY <1>3, <2>1 DEF MaxDecoyBurst
<1> QED BY <1>1, <1>2, <1>3

LEMMA ProbesGetLittle == ProbesAnsweredLittle
<1>1. ASSUME NEW probe \in Sizes, NEW decoy \in Sizes, NEW burst \in -1 .. (MaxDecoyBurst + 1),
             AllowDecoySize(probe, decoy)
      PROVE  decoy * Burst(burst)
               <= MaxDecoyBurst * Min({MaxDecoyBytes, DecoyAmpRatio * probe})
  <2> DEFINE b == Burst(burst)
             m == Min({MaxDecoyBytes, DecoyAmpRatio * probe})
  <2>1. probe \in Nat /\ decoy \in Nat
    BY DecoyAssumption
  <2>2. b \in 1 .. 8
    BY BurstIs DEF MaxDecoyBurst
  <2>3. m \in Nat /\ decoy <= m
    <3>1. MaxDecoyBytes \in Int /\ DecoyAmpRatio * probe \in Int
      BY <2>1 DEF MaxDecoyBytes, DecoyAmpRatio
    <3>2. m = IF MaxDecoyBytes <= DecoyAmpRatio * probe THEN MaxDecoyBytes
                                                         ELSE DecoyAmpRatio * probe
      BY <3>1, MinOfTwo
    <3> HIDE DEF m
    <3> QED BY <1>1, <2>1, <3>2 DEF AllowDecoySize, MaxDecoyBytes, DecoyAmpRatio
  <2> HIDE DEF b, m
  <2>4. decoy * b <= 8 * m
    <3>1. \/ b = 1 \/ b = 2 \/ b = 3 \/ b = 4 \/ b = 5 \/ b = 6 \/ b = 7 \/ b = 8
      BY <2>2
    <3> QED BY <2>1, <2>3, <3>1
  <2> QED BY <2>4 DEF b, m, MaxDecoyBurst
<1>2. ASSUME NEW q \in Asked, NEW t \in Moments(q)
      PROVE  /\ Cardinality(Within(Replies(q), q, t, 0)) <= 2 * MaxDecoyPerSec
             /\ Cardinality(Within(Replies(q), q, t, Second)) <= 3 * MaxDecoyPerSec
  <2>1. t \in Int
    BY AskedTimes DEF Moments
  <2> QED BY <2>1, FewReplies
<1> QED BY <1>1, <1>2 DEF ProbesAnsweredLittle
------------------------------------------------------------------------------
(* Frames that carry nothing: the gaps between the noise *)

Notes == [written : Nat, last : Int, noisy : BOOLEAN]

NoWrites == [written |-> 0, last |-> -Second, noisy |-> FALSE]

\* What the mask has noted after each write.
Noted(c, q, noise) ==
  c = [i \in 0 .. Len(q) |-> IF i = 0 THEN NoWrites ELSE WriteTo(c[i - 1], q[i], noise)]

Gap(noise) == Second \div noise.maxPerSec

LEMMA QuotientIs ==
  ASSUME NEW a \in Nat, NEW b \in Nat \ {0}
  PROVE  /\ a \div b \in Nat /\ (a \div b) * b <= a /\ a < (a \div b) * b + b
         /\ a % b = 0 => a = (a \div b) * b
<1>1. a \div b \in Nat /\ b * (a \div b) <= a /\ a < b * (a \div b) + b
  OBVIOUS
<1>2. a % b = 0 => a = b * (a \div b)
  OBVIOUS
<1>3. b * (a \div b) = (a \div b) * b
  BY <1>1
<1> QED BY <1>1, <1>2, <1>3

LEMMA MoreTimes ==
  ASSUME NEW k \in Int, NEW m \in Int, NEW b \in Nat, k <= m
  PROVE  k * b <= m * b
OBVIOUS

LEMMA MaskIs ==
  ASSUME NEW noise \in {n \in Noises : Masks(n)}
  PROVE  /\ noise.every \in Nat \ {0} /\ Gap(noise) \in Nat \ {0}
         /\ Second \in Nat \ {0}
<1>1. /\ noise.every \in Nat \ {0} /\ noise.maxPerSec \in Nat \ {0}
      /\ noise.maxPerSec <= Second /\ Second \in Nat \ {0}
  BY DecoyAssumption DEF Masks
<1>2. /\ Gap(noise) \in Nat /\ Gap(noise) * noise.maxPerSec <= Second
      /\ Second < Gap(noise) * noise.maxPerSec + noise.maxPerSec
  BY <1>1, QuotientIs DEF Gap
<1>3. Gap(noise) # 0
  <2>1. Gap(noise) = 0 => Gap(noise) * noise.maxPerSec = 0
    BY <1>1
  <2> QED BY <1>1, <1>2, <2>1
<1> QED BY <1>1, <1>2, <1>3

LEMMA WriteIs ==
  ASSUME NEW noise \in {n \in Noises : Masks(n)}, NEW c \in Notes, NEW now \in Int
  PROVE  /\ WriteTo(c, now, noise) \in Notes
         /\ WriteTo(c, now, noise).written = c.written + 1
         /\ WriteTo(c, now, noise).noisy =>
              /\ WriteTo(c, now, noise).written % noise.every = 0
              /\ now - c.last >= Gap(noise) /\ WriteTo(c, now, noise).last = now
         /\ ~WriteTo(c, now, noise).noisy => WriteTo(c, now, noise).last = c.last
<1> DEFINE heard == (c.written + 1) % noise.every = 0 /\ now - c.last >= Gap(noise)
           d == [written |-> c.written + 1, last |-> IF heard THEN now ELSE c.last,
                 noisy |-> heard]
<1>1. WriteTo(c, now, noise) = d
  BY DEF WriteTo, Gap
<1>2. c.written \in Nat /\ c.last \in Int
  BY DEF Notes
<1>3. d.written = c.written + 1 /\ d.noisy = heard /\ d.last = IF heard THEN now ELSE c.last
  OBVIOUS
<1>4. d \in Notes
  <2>1. heard \in BOOLEAN
    OBVIOUS
  <2> HIDE DEF heard
  <2> QED BY <1>2, <2>1 DEF Notes
<1>5. d.noisy <=> heard
  BY <1>3
<1> HIDE DEF d
<1>6. d.noisy => d.written % noise.every = 0 /\ now - c.last >= Gap(noise) /\ d.last = now
  BY <1>3, <1>5
<1>7. ~d.noisy => d.last = c.last
  BY <1>3, <1>5
<1> QED BY <1>1, <1>3, <1>4, <1>6, <1>7

LEMMA NotedExists ==
  ASSUME NEW q \in Asked, NEW noise \in {n \in Noises : Masks(n)}
  PROVE  \E c : Noted(c, q, noise)
<1> DEFINE G == [x \in Nat \X Notes |->
                   IF x[1] \in 1 .. Len(q) THEN WriteTo(x[2], q[x[1]], noise) ELSE x[2]]
<1>1. G \in [Nat \X Notes -> Notes]
  <2> SUFFICES ASSUME NEW i \in Nat, NEW w \in Notes PROVE G[<<i, w>>] \in Notes
    OBVIOUS
  <2>1. CASE i \in 1 .. Len(q)
    <3>1. q[i] \in Int
      BY <2>1, AskedTimes
    <3>2. WriteTo(w, q[i], noise) \in Notes
      BY <3>1, WriteIs
    <3> QED BY <2>1, <3>2
  <2>2. CASE i \notin 1 .. Len(q)
    BY <2>2
  <2> QED BY <2>1, <2>2
<1>2. NoWrites \in Notes
  BY DecoyAssumption DEF NoWrites, Notes
<1>3. \A i \in 1 .. Len(q) : \A w \in Notes : G[<<i, w>>] = WriteTo(w, q[i], noise)
  OBVIOUS
<1> HIDE DEF G
<1>4. PICK c : Carries(c, Len(q), Notes, NoWrites, G)
  BY <1>1, <1>2, AskedTimes, CarriedAlong
<1>5. \A i \in 1 .. Len(q) : c[i] = WriteTo(c[i - 1], q[i], noise)
  <2> TAKE i \in 1 .. Len(q)
  <2>1. c[i - 1] \in Notes
    BY <1>4, AskedTimes DEF Carries
  <2>2. c[i] = G[<<i, c[i - 1]>>]
    BY <1>4 DEF Carries
  <2> QED BY <1>3, <2>1, <2>2
<1>6. \A i \in 0 .. Len(q) :
        c[i] = IF i = 0 THEN NoWrites ELSE WriteTo(c[i - 1], q[i], noise)
  BY <1>4, <1>5, AskedTimes DEF Carries
<1>7. c = [i \in 0 .. Len(q) |-> c[i]]
  BY <1>4 DEF Carries
<1>8. Noted(c, q, noise)
  BY <1>6, <1>7 DEF Noted
<1> QED BY <1>8

LEMMA NotedIs ==
  ASSUME NEW q \in Asked, NEW noise \in {n \in Noises : Masks(n)}, NEW c, Noted(c, q, noise)
  PROVE  /\ \A i \in 0 .. Len(q) : c[i] \in Notes /\ c[i].written = i
         /\ \A i \in 1 .. Len(q) : c[i] = WriteTo(c[i - 1], q[i], noise)
<1> DEFINE n == Len(q)
           Good(i) == c[i] \in Notes /\ c[i].written = i
           S == {i \in Nat : i <= n => Good(i)}
<1>1. n \in Nat /\ \A i \in 1 .. n : q[i] \in Nat
  BY AskedTimes
<1>2. c[0] = NoWrites /\ \A i \in 1 .. n : c[i] = WriteTo(c[i - 1], q[i], noise)
  BY <1>1 DEF Noted
<1> HIDE DEF n
<1>3. 0 \in S
  <2>1. Good(0)
    BY <1>2, DecoyAssumption DEF NoWrites, Notes
  <2> QED BY <2>1
<1>4. ASSUME NEW k \in Nat, k \in S PROVE k + 1 \in S
  <2> SUFFICES ASSUME k + 1 <= n PROVE Good(k + 1)
    OBVIOUS
  <2>1. c[k] \in Notes /\ c[k].written = k
    BY <1>1, <1>4
  <2>2. k + 1 \in 1 .. n /\ (k + 1) - 1 = k
    BY <1>1
  <2>3. c[k + 1] = WriteTo(c[k], q[k + 1], noise) /\ q[k + 1] \in Int
    BY <1>1, <1>2, <2>2
  <2>4. /\ WriteTo(c[k], q[k + 1], noise) \in Notes
        /\ WriteTo(c[k], q[k + 1], noise).written = c[k].written + 1
    <3>1. \A d \in Notes, now \in Int : /\ WriteTo(d, now, noise) \in Notes
                                        /\ WriteTo(d, now, noise).written = d.written + 1
      BY WriteIs
    <3> QED BY <2>1, <2>3, <3>1
  <2> QED BY <2>1, <2>3, <2>4
<1>5. Nat \subseteq S
  <2> HIDE DEF S
  <2> QED BY <1>3, <1>4, CountedOn
<1>6. \A i \in 0 .. n : Good(i)
  BY <1>1, <1>5
<1> QED BY <1>1, <1>2, <1>6 DEF n

\* Noise keeps its gap to the noise before.
LEMMA NoiseApart ==
  ASSUME NEW q \in Asked, NEW noise \in {n \in Noises : Masks(n)}, NEW c, Noted(c, q, noise),
         NEW i \in 1 .. Len(q), NEW j \in 1 .. Len(q), i < j, c[i].noisy, c[j].noisy
  PROVE  q[j] - q[i] >= Gap(noise)
<1> DEFINE n == Len(q)
           Since(k) == c[i + k].last >= q[i]
           S == {k \in Nat : i + k <= n => Since(k)}
<1>0. /\ n \in Nat /\ q[i] \in Int /\ q[j] \in Int /\ Gap(noise) \in Nat
      /\ \A m \in 1 .. n : q[m] \in Int
  BY AskedTimes, MaskIs
<1>1. ASSUME NEW m \in 1 .. n
      PROVE  /\ c[m] \in Notes /\ c[m - 1] \in Notes
             /\ c[m].noisy => q[m] - c[m - 1].last >= Gap(noise) /\ c[m].last = q[m]
             /\ ~c[m].noisy => c[m].last = c[m - 1].last
  <2>1. m - 1 \in 0 .. n /\ m \in 0 .. n
    BY <1>0
  <2>2. c[m - 1] \in Notes /\ c[m] = WriteTo(c[m - 1], q[m], noise)
    BY <2>1, NotedIs
  <2>3. q[m] \in Int
    BY <1>0
  <2> DEFINE v == WriteTo(c[m - 1], q[m], noise)
  <2>4. /\ v \in Notes
        /\ v.noisy => q[m] - c[m - 1].last >= Gap(noise) /\ v.last = q[m]
        /\ ~v.noisy => v.last = c[m - 1].last
    <3>1. \A d \in Notes, now \in Int :
            /\ WriteTo(d, now, noise) \in Notes
            /\ WriteTo(d, now, noise).noisy =>
                 now - d.last >= Gap(noise) /\ WriteTo(d, now, noise).last = now
            /\ ~WriteTo(d, now, noise).noisy => WriteTo(d, now, noise).last = d.last
      BY WriteIs
    <3> QED BY <2>2, <2>3, <3>1
  <2>5. v = c[m]
    BY <2>2
  <2> HIDE DEF v
  <2> QED BY <2>2, <2>4, <2>5
<1> HIDE DEF n
<1>2. 0 \in S
  <2>1. i \in 1 .. n /\ i + 0 = i
    BY DEF n
  <2>2. c[i].last = q[i]
    BY <1>1, <2>1
  <2> QED BY <1>0, <2>1, <2>2
<1>3. ASSUME NEW k \in Nat, k \in S PROVE k + 1 \in S
  <2> SUFFICES ASSUME i + (k + 1) <= n PROVE Since(k + 1)
    OBVIOUS
  <2> DEFINE m == i + (k + 1)
  <2>1. m \in 1 .. n /\ m - 1 = i + k /\ i + k <= n
    BY <1>0
  <2>2. c[m - 1].last >= q[i]
    BY <1>3, <2>1
  <2> HIDE DEF m
  <2>3. c[m].last >= c[m - 1].last /\ c[m].last \in Int /\ c[m - 1].last \in Int
    <3>1. c[m].last \in Int /\ c[m - 1].last \in Int
      BY <1>1, <2>1 DEF Notes
    <3>2. \/ q[m] - c[m - 1].last >= Gap(noise) /\ c[m].last = q[m]
          \/ c[m].last = c[m - 1].last
      BY <1>1, <2>1
    <3>3. q[m] \in Int
      BY <1>0, <2>1
    <3> QED BY <1>0, <3>1, <3>2, <3>3
  <2>4. c[m].last >= q[i]
    BY <1>0, <2>2, <2>3
  <2> QED BY <2>4 DEF m
<1>4. Nat \subseteq S
  <2> HIDE DEF S
  <2> QED BY <1>2, <1>3, CountedOn
<1>5. c[j - 1].last >= q[i]
  <2>1. j - i - 1 \in Nat /\ i + (j - i - 1) = j - 1 /\ j - 1 <= n
    BY <1>0 DEF n
  <2>2. Since(j - i - 1)
    BY <1>4, <2>1
  <2> QED BY <2>1, <2>2
<1>6. q[j] - c[j - 1].last >= Gap(noise) /\ c[j - 1].last \in Int
  <2>1. j \in 1 .. n
    BY DEF n
  <2> QED BY <1>1, <2>1 DEF Notes
<1> QED BY <1>0, <1>5, <1>6
\* A set that is numbered is no larger than the numbers are many.
LEMMA NumbersCount ==
  ASSUME NEW T, NEW a \in Int, NEW b \in Int, a <= b + 1, NEW g \in [T -> Int],
         \A i \in T : g[i] \in a .. b, \A i \in T : \A j \in T : g[i] = g[j] => i = j
  PROVE  IsFiniteSet(T) /\ Cardinality(T) \in Nat /\ Cardinality(T) <= b - a + 1
<1>1. IsFiniteSet(a .. b) /\ Cardinality(a .. b) = b - a + 1
  <2>1. /\ IsFiniteSet(a .. b) /\ Cardinality(a .. b) = IF a > b THEN 0 ELSE b - a + 1
    BY FS_Interval
  <2> QED BY <2>1
<1>2. g \in Injection(T, a .. b)
  <2>1. g \in [T -> a .. b]
    OBVIOUS
  <2>2. IsInjective(g)
    BY DEF IsInjective
  <2> QED BY <2>1, <2>2 DEF Injection
<1>3. IsFiniteSet(T) /\ Cardinality(T) <= Cardinality(a .. b)
  BY <1>1, <1>2, FS_Injection
<1> QED BY <1>1, <1>3, FS_CardinalityType

LEMMA NoisyAre ==
  ASSUME NEW q \in Asked, NEW noise \in {n \in Noises : Masks(n)}
  PROVE  \E c : Noted(c, q, noise) /\ NoisyWrites(q, noise) = {i \in 1 .. Len(q) : c[i].noisy}
<1> DEFINE c == CHOOSE d : Noted(d, q, noise)
<1>1. Noted(c, q, noise)
  BY NotedExists
<1>2. NoisyWrites(q, noise) = {i \in DOMAIN q : c[i].noisy}
  BY DEF NoisyWrites, Noted, NoWrites
<1> QED BY <1>1, <1>2, AskedTimes

\* One write in so many.
LEMMA NoiseIsRare ==
  ASSUME NEW q \in Asked, NEW noise \in {n \in Noises : Masks(n)}
  PROVE  Cardinality(NoisyWrites(q, noise)) * noise.every <= Len(q)
<1> DEFINE T == NoisyWrites(q, noise)
           e == noise.every
           g == [i \in T |-> i \div e]
<1>0. Len(q) \in Nat /\ e \in Nat \ {0}
  BY AskedTimes, MaskIs
<1>1. PICK c : Noted(c, q, noise) /\ T = {i \in 1 .. Len(q) : c[i].noisy}
  BY NoisyAre
<1>2. ASSUME NEW i \in T
      PROVE  i \in 1 .. Len(q) /\ i % e = 0
  <2>1. i \in 1 .. Len(q) /\ c[i].noisy
    BY <1>1
  <2>2. /\ i - 1 \in 0 .. Len(q) /\ i \in 0 .. Len(q) /\ q[i] \in Int
    BY <2>1, AskedTimes
  <2>3. c[i - 1] \in Notes /\ c[i] = WriteTo(c[i - 1], q[i], noise) /\ c[i].written = i
    BY <1>1, <2>1, <2>2, NotedIs
  <2>4. \A d \in Notes, now \in Int :
          WriteTo(d, now, noise).noisy => WriteTo(d, now, noise).written % noise.every = 0
    BY WriteIs
  <2> QED BY <2>1, <2>2, <2>3, <2>4
<1> HIDE DEF T, e
<1>3. ASSUME NEW i \in T
      PROVE  i \div e \in Nat /\ i = (i \div e) * e
  <2>1. i \in Nat /\ i % e = 0
    BY <1>2
  <2> QED BY <1>0, <2>1, QuotientIs
<1>4. /\ Len(q) \div e \in Nat /\ (Len(q) \div e) * e <= Len(q)
      /\ Len(q) < (Len(q) \div e) * e + e
  BY <1>0, QuotientIs
<1>5. ASSUME NEW i \in T
      PROVE  i \div e \in 1 .. (Len(q) \div e)
  <2> DEFINE k == i \div e
             m == Len(q) \div e
  <2>1. i \in 1 .. Len(q) /\ k \in Nat /\ i = k * e
    BY <1>2, <1>3
  <2>2. m \in Nat /\ Len(q) < m * e + e
    BY <1>4
  <2> HIDE DEF k, m
  <2>3. k # 0
    <3>1. k = 0 => k * e = 0
      BY <1>0
    <3> QED BY <2>1, <3>1
  <2>4. k <= m
    <3>1. m + 1 <= k => (m + 1) * e <= k * e
      BY <1>0, <2>1, <2>2, MoreTimes
    <3>2. (m + 1) * e = m * e + e
      BY <1>0, <2>2
    <3> QED BY <1>0, <2>1, <2>2, <3>1, <3>2
  <2>5. k \in 1 .. m
    BY <2>1, <2>2, <2>3, <2>4
  <2> QED BY <2>5 DEF k, m
<1>6. \A i \in T : \A j \in T : g[i] = g[j] => i = j
  BY <1>3
<1>7. /\ g \in [T -> Int] /\ \A i \in T : g[i] \in 1 .. (Len(q) \div e)
  BY <1>3, <1>5
<1> HIDE DEF g
<1>8. Cardinality(T) \in Nat /\ Cardinality(T) <= Len(q) \div e
  <2>1. 1 <= (Len(q) \div e) + 1 /\ 1 \in Int /\ Len(q) \div e \in Int
    BY <1>4
  <2>2. /\ Cardinality(T) \in Nat /\ Cardinality(T) <= (Len(q) \div e) - 1 + 1
    <3> HIDE <1>4
    <3> QED BY <1>6, <1>7, <2>1, NumbersCount
  <2> QED BY <1>4, <2>2
<1>9. Cardinality(T) * e <= (Len(q) \div e) * e
  BY <1>0, <1>4, <1>8, MoreTimes
<1>10. Cardinality(T) * e <= Len(q)
  <2>1. Cardinality(T) * e \in Int /\ (Len(q) \div e) * e \in Int
    BY <1>0, <1>4, <1>8
  <2> QED BY <1>0, <1>4, <1>9, <2>1
<1> QED BY <1>10 DEF T, e

\* And a gap between two.
LEMMA NoiseIsSpread ==
  ASSUME NEW q \in Asked, NEW noise \in {n \in Noises : Masks(n)}, NEW t \in Int
  PROVE  (Cardinality(Within(NoisyWrites(q, noise), q, t, 0)) - 1) * Gap(noise) < Second
<1> DEFINE T == Within(NoisyWrites(q, noise), q, t, 0)
           p == Gap(noise)
           g == [i \in T |-> (q[i] - t) \div p]
           m == (Second - 1) \div p
<1>0. /\ Len(q) \in Nat /\ p \in Nat \ {0} /\ Second \in Nat \ {0}
      /\ \A i \in 1 .. Len(q) : q[i] \in Int
  BY AskedTimes, MaskIs
<1>1. PICK c : Noted(c, q, noise) /\ NoisyWrites(q, noise) = {i \in 1 .. Len(q) : c[i].noisy}
  BY NoisyAre
<1>2. ASSUME NEW i \in T
      PROVE  /\ i \in 1 .. Len(q) /\ c[i].noisy
             /\ q[i] \in Int /\ q[i] - t \in 0 .. Second - 1
  <2>1. i \in NoisyWrites(q, noise) /\ \E d \in {0} : t <= q[i] + d /\ q[i] + d < t + Second
    BY DEF Within, Delays
  <2>2. i \in 1 .. Len(q) /\ c[i].noisy
    BY <1>1, <2>1
  <2> QED BY <1>0, <2>1, <2>2
<1>3. ASSUME NEW i \in T, NEW j \in T, i < j
      PROVE  q[j] - q[i] >= p
  BY <1>1, <1>2, <1>3, NoiseApart
<1> HIDE DEF T, p
<1>4. m \in Nat /\ m * p <= Second - 1 /\ Second - 1 < m * p + p
  <2>1. Second - 1 \in Nat
    BY <1>0
  <2> QED BY <1>0, <2>1, QuotientIs
<1> HIDE DEF m
<1>5. ASSUME NEW i \in T
      PROVE  /\ (q[i] - t) \div p \in 0 .. m
             /\ ((q[i] - t) \div p) * p <= q[i] - t
             /\ q[i] - t < ((q[i] - t) \div p) * p + p
  <2> DEFINE k == (q[i] - t) \div p
  <2>1. q[i] - t \in Nat /\ q[i] - t <= Second - 1
    BY <1>0, <1>2
  <2>2. k \in Nat /\ k * p <= q[i] - t /\ q[i] - t < k * p + p
    BY <1>0, <2>1, QuotientIs
  <2> HIDE DEF k
  <2>3. k <= m
    <3>1. m + 1 <= k => (m + 1) * p <= k * p
      BY <1>0, <1>4, <2>2, MoreTimes
    <3>2. (m + 1) * p = m * p + p
      BY <1>0, <1>4
    <3>3. k * p \in Int /\ m * p \in Int
      BY <1>0, <1>4, <2>2
    <3>4. k * p < m * p + p
      <4> DEFINE x == k * p
                 y == m * p
      <4>1. x <= q[i] - t /\ Second - 1 < y + p /\ x \in Int /\ y \in Int
        BY <1>4, <2>2, <3>3
      <4> HIDE DEF x, y
      <4>2. x < y + p
        BY <1>0, <2>1, <4>1
      <4> QED BY <4>2 DEF x, y
    <3>5. ~(m + 1 <= k)
      BY <1>0, <3>1, <3>2, <3>3, <3>4
    <3> QED BY <1>4, <2>2, <3>5
  <2>4. k \in 0 .. m
    BY <1>4, <2>2, <2>3
  <2> QED BY <2>2, <2>4 DEF k
<1>6. ASSUME NEW i \in T, NEW j \in T, i < j PROVE g[i] # g[j]
  <2> DEFINE k == (q[i] - t) \div p
             l == (q[j] - t) \div p
  <2>1. /\ k \in Int /\ k * p <= q[i] - t /\ l \in Int /\ q[j] - t < l * p + p
    BY <1>5
  <2>2. q[j] - q[i] >= p /\ q[i] \in Int /\ q[j] \in Int
    BY <1>2, <1>3, <1>6
  <2> HIDE DEF k, l
  <2>3. k # l
    <3>1. k * p \in Int
      BY <1>0, <2>1
    <3> QED BY <1>0, <2>1, <2>2, <3>1
  <2> QED BY <2>3 DEF k, l
<1>7. \A i \in T : \A j \in T : g[i] = g[j] => i = j
  <2> SUFFICES ASSUME NEW i \in T, NEW j \in T, g[i] = g[j] PROVE i = j
    OBVIOUS
  <2>1. i \in Int /\ j \in Int
    BY <1>2
  <2> HIDE DEF g
  <2> QED BY <1>6, <2>1
<1>8. g \in [T -> Int] /\ \A i \in T : g[i] \in 0 .. m
  BY <1>4, <1>5
<1> HIDE DEF g
<1>9. Cardinality(T) \in Nat /\ Cardinality(T) <= m + 1
  <2>1. 0 <= m + 1 /\ 0 \in Int /\ m \in Int /\ m - 0 + 1 = m + 1
    BY <1>4
  <2>2. Cardinality(T) \in Nat /\ Cardinality(T) <= m - 0 + 1
    BY <1>7, <1>8, <2>1, NumbersCount
  <2> QED BY <2>1, <2>2
<1>10. (Cardinality(T) - 1) * p <= m * p
  <2>1. Cardinality(T) - 1 \in Int /\ Cardinality(T) - 1 <= m
    BY <1>4, <1>9
  <2> QED BY <1>0, <1>4, <2>1, MoreTimes
<1>11. (Cardinality(T) - 1) * p < Second
  <2>1. (Cardinality(T) - 1) * p \in Int /\ m * p \in Int
    BY <1>0, <1>4, <1>9
  <2> QED BY <1>0, <1>4, <1>10, <2>1
<1> QED BY <1>11 DEF T, p

LEMMA NoiseKeepsBounds == NoiseBounded
<1> SUFFICES ASSUME NEW noise \in {n \in Noises : Masks(n)}, NEW q \in Asked
             PROVE  /\ Cardinality(NoisyWrites(q, noise)) * noise.every <= Len(q)
                    /\ \A t \in Moments(q) :
                         (Cardinality(Within(NoisyWrites(q, noise), q, t, 0)) - 1)
                           * (Second \div noise.maxPerSec) < Second
  BY DEF NoiseBounded
<1>1. \A t \in Moments(q) : t \in Int
  BY AskedTimes DEF Moments
<1>2. \A t \in Int :
        (Cardinality(Within(NoisyWrites(q, noise), q, t, 0)) - 1) * Gap(noise) < Second
  BY NoiseIsSpread
<1> QED BY <1>1, <1>2, NoiseIsRare DEF Gap

------------------------------------------------------------------------------

\* Whoever probes a multiplexer, and whenever, no exchange gets more than a burst of
\* three times its size and no second more than the windows it overlaps allow; and
\* however often a session writes, noise keeps to one write in so many and to the gap
\* between two (maybeDecoy, takeDecoyTokenLocked; WriteTo of the noise mask).
THEOREM ChaffStaysBounded == Spec => []ChaffBounded
<1>1. ProbesAnsweredLittle /\ NoiseBounded
  BY ProbesGetLittle, NoiseKeepsBounds
<1>2. ChaffBounded
  BY <1>1 DEF ChaffBounded
<1> QED BY <1>2, PTL
===============================================================================
