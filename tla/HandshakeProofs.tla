---------------------------- MODULE HandshakeProofs ----------------------------
(***************************************************************************)
(* What holds of handshakes over datagrams and streams for any patterns,    *)
(* clients and replay tables: a first datagram is admitted once until it is *)
(* forgotten, the keys of two ends that finish agree, a restart forgets     *)
(* nothing that is on disk, and who is stranded fails.                      *)
(***************************************************************************)
EXTENDS StreamHandshake, NaturalsInduction, WellFoundedInduction, TLAPS

------------------------------------------------------------------------------
(* Operators *)

\* A nonempty set of naturals has a least element.
LEMMA LeastOf ==
  ASSUME NEW T, T \subseteq Nat, T # {}
  PROVE  \E n \in T : \A m \in T : n <= m
<1>1. PICK n \in T : \A m \in T : <<m, n>> \notin OpToRel(<, Nat)
  <2> HIDE DEF OpToRel
  <2> QED BY NatLessThanWellFounded, WFMin
<1>2. \A m \in T : ~ (m < n)
  BY <1>1 DEF OpToRel
<1> QED BY <1>2

\* A nonempty set of numbers up to n has a greatest element.
LEMMA GreatestOf ==
  ASSUME NEW n \in Nat, NEW T \in SUBSET (1 .. n), T # {}
  PROVE  \E i \in T : \A j \in T : j <= i
<1> DEFINE B == {k \in Nat : \A j \in T : j <= k}
<1>1. B \subseteq Nat /\ n \in B
  OBVIOUS
<1>2. PICK k \in B : \A m \in B : k <= m
  <2> HIDE DEF B
  <2> QED BY <1>1, LeastOf
<1>3. CASE k \in T
  BY <1>2, <1>3
<1>4. CASE k \notin T
  <2>1. ASSUME NEW j \in T
        PROVE  j <= k - 1
    <3>1. j \in Nat /\ k \in Nat /\ j <= k /\ j # k
      BY <1>2, <1>4
    <3> QED BY <3>1
  <2>2. k - 1 \in Nat
    <3>1. PICK j \in T : j \in 1 .. n
      OBVIOUS
    <3> QED BY <1>2, <2>1, <3>1
  <2>3. k - 1 \in B
    BY <2>1, <2>2
  <2> QED BY <1>2, <2>3
<1> QED BY <1>3, <1>4

LEMMA PatternFacts ==
  ASSUME pattern \in Patterns
  PROVE  /\ pattern \in Seq({"c", "s"}) /\ Len(pattern) \in Nat
         /\ DOMAIN pattern = 1 .. Len(pattern)
         /\ \E i, j \in DOMAIN pattern : pattern[i] = "c" /\ pattern[j] = "s"
<1>1. pattern \in Seq({"c", "s"})
  BY HandshakeAssumption
<1> QED BY <1>1, HandshakeAssumption

\* The last message of a transcript added.
LEMMA Appended ==
  ASSUME NEW S, NEW s \in Seq(S), NEW x \in S
  PROVE  /\ Append(s, x) \in Seq(S) /\ Len(s) \in Nat /\ Len(Append(s, x)) = Len(s) + 1
         /\ DOMAIN s = 1 .. Len(s) /\ DOMAIN Append(s, x) = 1 .. Len(s) + 1
         /\ \A i \in 1 .. Len(s) : Append(s, x)[i] = s[i]
         /\ Append(s, x)[Len(s) + 1] = x
  OBVIOUS

------------------------------------------------------------------------------
(* The replay table *)

TableTypes == now \in Nat /\ table \in [Muxes -> [Keys -> Nat]] /\ file \in [Keys -> Nat]

\* What is fresh stays so when another first datagram is recorded, and that one
\* is fresh if there was room.
LEMMA RecordedKeeps ==
  ASSUME NEW t \in [Keys -> Nat], NEW k \in Keys, now \in Nat
  PROVE  /\ Recorded(t, k) \in [Keys -> Nat]
         /\ \A j \in Keys : Fresh(t, j) => Fresh(Recorded(t, k), j)
         /\ \A j \in Keys \ {k} : Fresh(Recorded(t, k), j) => Recorded(t, k)[j] = t[j]
<1> DEFINE r == WithRoom(t)
<1>1. Swept(t) \in [Keys -> Nat] /\ \A j \in Keys : Fresh(t, j) => Swept(t)[j] = t[j]
  BY DEF Swept
<1>2. \A j \in Keys : Swept(t)[j] > now => Swept(t)[j] = t[j]
  BY DEF Swept, Fresh
<1>3. r \in [Keys -> Nat] /\ \A j \in Keys : (Fresh(t, j) => r[j] = t[j]) /\ (r[j] > now => r[j] = t[j])
  BY <1>1, <1>2 DEF WithRoom
<1>4. TTL \in Nat /\ TTL > 0
  BY TableAssumption
<1> HIDE DEF r
<1>5. Recorded(t, k) = r \/ Recorded(t, k) = [r EXCEPT ![k] = now + TTL]
  BY DEF Recorded, r
<1>6. CASE Recorded(t, k) = r
  BY <1>3, <1>6 DEF Fresh
<1>7. CASE Recorded(t, k) = [r EXCEPT ![k] = now + TTL]
  BY <1>3, <1>4, <1>7 DEF Fresh
<1> QED BY <1>5, <1>6, <1>7
------------------------------------------------------------------------------
(* The invariant *)

Message == [to : {"s", "c"}, client : Clients, step : Nat, h : Nat]
LinkRecord == [frames : Seq(Message), at : {"header", "body", "lost"}]

HandshakeTypes ==
  /\ pattern \in Patterns /\ home \in [Clients -> Muxes]
  /\ state \in [Clients -> {"running", "done", "failed"}]
  /\ heard \in [Clients -> Seq(Clients \cup Ids)]
  /\ made \in 0 .. MaxHandshakes
  /\ peer \in [Ids -> Clients \cup {None}]
  /\ script \in [Ids -> Seq(Clients \cup Ids)]
  /\ pending \in [Clients -> 0 .. MaxHandshakes]
  /\ net \subseteq Message /\ forgotten \subseteq Clients

\* The streams, and that a handshake which runs on one is in flight.
StreamTypes ==
  /\ up \in [Clients -> LinkRecord] /\ down \in [Clients -> LinkRecord]
  /\ serving \in [Clients -> {"first", "runs", "over"}]
  /\ transport # "udp" => \A c \in Clients : serving[c] = "runs" => pending[c] # None

\* The transcript of a handshake is the pattern's: what the client said and what
\* the handshake itself said.
Transcript(s, c, h) ==
  /\ s \in Seq(Clients \cup Ids)
  /\ Len(s) <= Len(pattern)
  /\ \A i \in DOMAIN s : s[i] = IF pattern[i] = "c" THEN c ELSE h

ScriptSound ==
  /\ \A h \in 1 .. made : peer[h] \in Clients /\ Transcript(script[h], peer[h], h)
  /\ \A h \in Ids : h > made => peer[h] = None
  /\ \A c \in Clients : pending[c] # None => pending[c] \in 1 .. made /\ peer[pending[c]] = c

\* A message says who sent it: the client at a turn of its own, or to be
\* answered at all, a handshake of its client at one of the server's.
SoundMessage(d) ==
  /\ d \in Message
  /\ d.to = "s" => d.step = KnockStep \/ (d.step \in DOMAIN pattern /\ pattern[d.step] = "c")
  /\ d.to = "c" => /\ d.step \in DOMAIN pattern /\ pattern[d.step] = "s"
                   /\ d.h \in 1 .. made /\ peer[d.h] = d.client

SoundLink(k) ==
  /\ k.at = "body" => k.frames # <<>>
  /\ \A i \in DOMAIN k.frames : SoundMessage(k.frames[i])

MessagesSound ==
  /\ \A d \in net : SoundMessage(d)
  /\ \A c \in Clients : SoundLink(up[c]) /\ SoundLink(down[c])

\* What a client has heard is its own, or from a handshake started for it.
HeardSound ==
  \A c \in Clients :
    /\ Len(heard[c]) <= Len(pattern)
    /\ \A i \in DOMAIN heard[c] :
         IF pattern[i] = "c" THEN heard[c][i] = c
         ELSE heard[c][i] \in 1 .. made /\ peer[heard[c][i]] = c

\* What keeps the first datagram of a client from starting another handshake:
\* the replay table, or that a stream has only one.
Guarded(c) == IF transport = "udp" THEN Fresh(table[home[c]], c) ELSE serving[c] # "first"

FirstsGuarded == \A h \in 1 .. made : Guarded(peer[h]) \/ peer[h] \in forgotten

IInv ==
  /\ TableTypes /\ HandshakeTypes /\ StreamTypes
  /\ ScriptSound /\ MessagesSound /\ HeardSound /\ FirstsGuarded /\ AdmittedOnce
------------------------------------------------------------------------------
(* Messages *)

\* What grows as handshakes are started.
Grows ==
  /\ pattern' = pattern /\ made' \in Nat /\ made <= made'
  /\ \A h \in 1 .. made : peer'[h] = peer[h]

LEMMA MessageStaysSound ==
  ASSUME HandshakeTypes, Grows, NEW d, SoundMessage(d)
  PROVE  SoundMessage(d)'
<1>1. \A h \in 1 .. made : h \in 1 .. made'
  BY DEF Grows, HandshakeTypes
<1> QED BY <1>1 DEF SoundMessage, Grows

\* A message put on a stream comes after those it has.
LEMMA PutFields ==
  ASSUME NEW k \in LinkRecord, NEW d \in Message
  PROVE  /\ Put(k, d) \in LinkRecord /\ Put(k, d).frames # <<>>
         /\ \A i \in DOMAIN Put(k, d).frames :
              \/ Put(k, d).frames[i] = d
              \/ i \in DOMAIN k.frames /\ Put(k, d).frames[i] = k.frames[i]
<1> DEFINE f == Append(k.frames, d)
<1>1. k.frames \in Seq(Message)
  BY DEF LinkRecord
<1>2. /\ f \in Seq(Message) /\ DOMAIN f = 1 .. Len(k.frames) + 1 /\ Len(k.frames) \in Nat
      /\ \A i \in 1 .. Len(k.frames) : f[i] = k.frames[i]
      /\ f[Len(k.frames) + 1] = d /\ DOMAIN k.frames = 1 .. Len(k.frames)
  BY <1>1, Appended
<1>3. Put(k, d) = [k EXCEPT !.frames = f]
  BY DEF Put
<1> HIDE DEF f
<1>4. Put(k, d) \in LinkRecord /\ Put(k, d).frames = f
  BY <1>2, <1>3 DEF LinkRecord
<1>5. f # <<>> /\ \A i \in DOMAIN f : i \in DOMAIN k.frames \/ i = Len(k.frames) + 1
  BY <1>2
<1> QED BY <1>2, <1>4, <1>5

LEMMA LinkOperations ==
  ASSUME NEW k \in LinkRecord, SoundLink(k)
  PROVE  /\ \A d : SoundMessage(d) => Put(k, d) \in LinkRecord /\ SoundLink(Put(k, d))
         /\ AtHeader(k) => HeaderRead(k) \in LinkRecord /\ SoundLink(HeaderRead(k))
         /\ AtBody(k) => /\ BodyRead(k) \in LinkRecord /\ SoundLink(BodyRead(k))
                         /\ SoundMessage(k.frames[1])
         /\ Struck(k) \in LinkRecord /\ SoundLink(Struck(k))
<1>1. k.frames \in Seq(Message) /\ Len(k.frames) \in Nat /\ DOMAIN k.frames = 1 .. Len(k.frames)
      /\ k.at \in {"header", "body", "lost"}
  BY DEF LinkRecord
<1>2. ASSUME NEW d, SoundMessage(d)
      PROVE  Put(k, d) \in LinkRecord /\ SoundLink(Put(k, d))
  <2>1. d \in Message
    BY <1>2 DEF SoundMessage
  <2> QED BY <1>2, <2>1, PutFields DEF SoundLink
<1>3. ASSUME AtHeader(k)
      PROVE  HeaderRead(k) \in LinkRecord /\ SoundLink(HeaderRead(k))
  BY <1>3 DEF AtHeader, HeaderRead, LinkRecord, SoundLink
<1>4. ASSUME AtBody(k)
      PROVE  /\ BodyRead(k) \in LinkRecord /\ SoundLink(BodyRead(k))
             /\ SoundMessage(k.frames[1])
  <2> DEFINE f == Tail(k.frames)
  <2>1. k.frames # <<>> /\ Len(k.frames) >= 1 /\ 1 \in DOMAIN k.frames
    BY <1>1, <1>4 DEF AtBody, SoundLink
  <2>2. /\ f \in Seq(Message) /\ DOMAIN f = 1 .. Len(k.frames) - 1
        /\ \A i \in 1 .. Len(k.frames) - 1 : f[i] = k.frames[i + 1]
    BY <1>1, <2>1
  <2>3. BodyRead(k) = [k EXCEPT !.frames = f, !.at = "header"]
    BY DEF BodyRead
  <2> HIDE DEF f
  <2>4. BodyRead(k) \in LinkRecord /\ BodyRead(k).frames = f /\ BodyRead(k).at = "header"
    BY <2>2, <2>3 DEF LinkRecord
  <2>5. ASSUME NEW i \in DOMAIN f
        PROVE  SoundMessage(f[i])
    <3>1. i + 1 \in DOMAIN k.frames /\ f[i] = k.frames[i + 1]
      BY <1>1, <2>1, <2>2
    <3> QED BY <3>1 DEF SoundLink
  <2> QED BY <2>1, <2>4, <2>5 DEF SoundLink
<1>5. Struck(k) \in LinkRecord /\ SoundLink(Struck(k))
  BY DEF Struck, LinkRecord, SoundLink
<1> QED BY <1>2, <1>3, <1>4, <1>5

\* One connection's streams change, or one message more is under way.
LEMMA StreamsChange ==
  ASSUME HandshakeTypes, StreamTypes, MessagesSound, Grows, net' = net, NEW c \in Clients,
         NEW u \in LinkRecord, SoundLink(u)', NEW v \in LinkRecord, SoundLink(v)',
         up' = [up EXCEPT ![c] = u], down' = [down EXCEPT ![c] = v]
  PROVE  /\ up' \in [Clients -> LinkRecord] /\ down' \in [Clients -> LinkRecord]
         /\ MessagesSound'
<1>1. \A d : SoundMessage(d) => SoundMessage(d)'
  BY MessageStaysSound
<1>2. up' \in [Clients -> LinkRecord] /\ down' \in [Clients -> LinkRecord]
  BY DEF StreamTypes
<1>3. ASSUME NEW e \in Clients
      PROVE  SoundLink(up[e])' /\ SoundLink(down[e])'
  <2>1. CASE e = c
    <3>1. up'[e] = u /\ down'[e] = v
      BY <2>1 DEF StreamTypes
    <3> QED BY <3>1 DEF SoundLink
  <2>2. CASE e # c
    <3>1. up'[e] = up[e] /\ down'[e] = down[e]
      BY <2>2 DEF StreamTypes
    <3>2. SoundLink(up[e]) /\ SoundLink(down[e])
      BY DEF MessagesSound
    <3> QED BY <1>1, <3>1, <3>2 DEF SoundLink
  <2> QED BY <2>1, <2>2
<1>4. \A d \in net' : SoundMessage(d)'
  BY <1>1 DEF MessagesSound
<1> QED BY <1>2, <1>3, <1>4 DEF MessagesSound

LEMMA NetChanges ==
  ASSUME HandshakeTypes, MessagesSound, Grows, up' = up, down' = down,
         \A d \in net' : d \in net \/ SoundMessage(d)'
  PROVE  net' \subseteq Message /\ MessagesSound'
<1>1. \A d : SoundMessage(d) => SoundMessage(d)'
  BY MessageStaysSound
<1>2. \A d \in net' : SoundMessage(d)'
  BY <1>1 DEF MessagesSound
<1>3. \A e \in Clients : SoundLink(up[e])' /\ SoundLink(down[e])'
  BY <1>1 DEF MessagesSound, SoundLink
<1> QED BY <1>2, <1>3 DEF MessagesSound, SoundMessage
------------------------------------------------------------------------------
(* The client *)

HeardTypes == heard \in [Clients -> Seq(Clients \cup Ids)]

LEMMA HeardStays ==
  ASSUME HandshakeTypes, HeardSound, Grows, heard' = heard
  PROVE  HeardTypes' /\ HeardSound'
<1>1. heard \in [Clients -> Seq(Clients \cup Ids)] /\ made \in Nat
  BY HandshakeAssumption DEF HandshakeTypes
<1>2. ASSUME NEW c \in Clients, NEW i \in DOMAIN heard[c], pattern[i] # "c"
      PROVE  heard[c][i] \in 1 .. made' /\ peer'[heard[c][i]] = c
  <2>1. PICK h \in 1 .. made : h = heard[c][i] /\ peer[h] = c
    BY <1>2 DEF HeardSound
  <2>2. h \in 1 .. made' /\ peer'[h] = c
    BY <1>1, <2>1 DEF Grows
  <2> QED BY <2>1, <2>2
<1>3. ASSUME NEW c \in Clients
      PROVE  Len(heard[c]) <= Len(pattern) /\ \A i \in DOMAIN heard[c] : pattern[i] = "c" => heard[c][i] = c
  BY DEF HeardSound
<1> QED BY <1>1, <1>2, <1>3 DEF HeardTypes, HeardSound, Grows

\* A message is added to what a client has heard.
LEMMA HeardAdvances ==
  ASSUME HandshakeTypes, HeardSound, pattern' = pattern, made' = made, peer' = peer,
         NEW c \in Clients, NEW o \in Clients \cup Ids, Advance(c, o), ~Over(heard[c]),
         IF pattern[Len(heard[c]) + 1] = "c" THEN o = c ELSE o \in 1 .. made /\ peer[o] = c
  PROVE  /\ HeardTypes' /\ HeardSound'
         /\ state' \in [Clients -> {"running", "done", "failed"}]
         /\ Len(heard'[c]) = Len(heard[c]) + 1
         /\ Len(heard[c]) + 1 \in DOMAIN pattern
<1> DEFINE s == heard[c]
           r == Append(s, o)
<1>1. s \in Seq(Clients \cup Ids) /\ Len(s) \in Nat /\ Len(s) <= Len(pattern)
  BY DEF HandshakeTypes, HeardSound
<1>2. Len(pattern) \in Nat /\ DOMAIN pattern = 1 .. Len(pattern)
  BY PatternFacts DEF HandshakeTypes
<1>3. Len(s) < Len(pattern)
  BY <1>1, <1>2 DEF Over
<1>4. /\ r \in Seq(Clients \cup Ids) /\ Len(r) = Len(s) + 1
      /\ DOMAIN s = 1 .. Len(s) /\ DOMAIN r = 1 .. Len(s) + 1
      /\ \A i \in 1 .. Len(s) : r[i] = s[i]
      /\ r[Len(s) + 1] = o
  BY <1>1, Appended
<1>5. heard' = [heard EXCEPT ![c] = r]
  BY DEF Advance
<1> HIDE DEF r
<1>6. heard'[c] = r /\ \A e \in Clients : e # c => heard'[e] = heard[e]
  BY <1>5 DEF HandshakeTypes
<1>7. ASSUME NEW i \in DOMAIN r
      PROVE  IF pattern[i] = "c" THEN r[i] = c ELSE r[i] \in 1 .. made /\ peer[r[i]] = c
  <2>1. CASE i \in 1 .. Len(s)
    BY <1>4, <2>1 DEF HeardSound
  <2>2. CASE i = Len(s) + 1
    BY <1>4, <2>2
  <2> QED BY <1>1, <1>4, <2>1, <2>2
<1>8. HeardTypes'
  BY <1>4, <1>5 DEF HandshakeTypes, HeardTypes
<1>9. HeardSound'
  <2>1. ASSUME NEW e \in Clients
        PROVE  /\ Len(heard'[e]) <= Len(pattern)
               /\ \A i \in DOMAIN heard'[e] :
                    IF pattern[i] = "c" THEN heard'[e][i] = e
                    ELSE heard'[e][i] \in 1 .. made /\ peer[heard'[e][i]] = e
    <3>1. CASE e = c
      BY <1>1, <1>2, <1>3, <1>4, <1>6, <1>7, <3>1
    <3>2. CASE e # c
      BY <1>6, <3>2 DEF HeardSound
    <3> QED BY <3>1, <3>2
  <2> QED BY <2>1 DEF HeardSound
<1>10. state' \in [Clients -> {"running", "done", "failed"}]
  BY DEF HandshakeTypes, Advance
<1> QED BY <1>1, <1>2, <1>3, <1>4, <1>6, <1>8, <1>9, <1>10

LEMMA LatestIn ==
  ASSUME NEW n \in Nat, NEW T \in SUBSET (1 .. n), T # {}
  PROVE  Latest(T) \in T
BY GreatestOf DEF Latest

\* The last message a client has sent is one of its turns, or its knock.
LEMMA LastSent ==
  ASSUME HandshakeTypes, HeardSound, NEW c \in Clients
  PROVE  \/ LastSentStep(c) = KnockStep
         \/ LastSentStep(c) \in DOMAIN pattern /\ pattern[LastSentStep(c)] = "c"
<1> DEFINE mine == {i \in DOMAIN heard[c] : pattern[i] = "c"}
<1>1. /\ Len(heard[c]) \in Nat /\ DOMAIN heard[c] = 1 .. Len(heard[c])
      /\ Len(heard[c]) <= Len(pattern)
  BY DEF HandshakeTypes, HeardSound
<1>2. Len(pattern) \in Nat /\ DOMAIN pattern = 1 .. Len(pattern)
  BY PatternFacts DEF HandshakeTypes
<1>3. mine # {} => Latest(mine) \in mine
  <2>1. mine \in SUBSET (1 .. Len(heard[c]))
    BY <1>1
  <2> HIDE DEF mine
  <2> QED BY <1>1, <2>1, LatestIn
<1>4. LastSentStep(c) = IF mine = {} THEN KnockStep ELSE Latest(mine)
  BY DEF LastSentStep
<1> QED BY <1>1, <1>2, <1>3, <1>4

\* The message a client sends at a turn of its own is sound, and so is one it
\* repeats.
LEMMA SendsSound ==
  ASSUME HandshakeTypes, NEW c \in Clients, NEW i,
         i = KnockStep \/ (i \in DOMAIN pattern /\ pattern[i] = "c")
  PROVE  SoundMessage(ToServer(c, i))
<1>1. i \in Nat
  BY PatternFacts DEF HandshakeTypes, KnockStep
<1> QED BY <1>1 DEF SoundMessage, ToServer, Message, None
------------------------------------------------------------------------------
(* The server *)

ScriptTypes ==
  /\ made \in 0 .. MaxHandshakes
  /\ peer \in [Ids -> Clients \cup {None}]
  /\ script \in [Ids -> Seq(Clients \cup Ids)]
  /\ pending \in [Clients -> 0 .. MaxHandshakes]

\* A message of the client, then the answer if it is the server's turn.
LEMMA ClientsTurn ==
  ASSUME pattern \in Patterns, NEW c \in Clients, NEW h \in Ids, NEW s, Transcript(s, c, h),
         ~Over(s), pattern[Len(s) + 1] = "c"
  PROVE  Transcript(Append(s, c), c, h)
<1>1. s \in Seq(Clients \cup Ids) /\ Len(s) \in Nat /\ Len(s) <= Len(pattern)
  BY DEF Transcript
<1>2. Len(pattern) \in Nat /\ Len(s) < Len(pattern)
  BY <1>1, PatternFacts DEF Over
<1>3. /\ Append(s, c) \in Seq(Clients \cup Ids) /\ Len(Append(s, c)) = Len(s) + 1
      /\ DOMAIN s = 1 .. Len(s) /\ DOMAIN Append(s, c) = 1 .. Len(s) + 1
      /\ \A i \in 1 .. Len(s) : Append(s, c)[i] = s[i]
      /\ Append(s, c)[Len(s) + 1] = c
  BY <1>1, Appended
<1>4. ASSUME NEW i \in DOMAIN Append(s, c)
      PROVE  Append(s, c)[i] = IF pattern[i] = "c" THEN c ELSE h
  <2>1. CASE i \in 1 .. Len(s)
    BY <1>3, <2>1 DEF Transcript
  <2>2. CASE i = Len(s) + 1
    BY <1>3, <2>2
  <2> QED BY <1>1, <1>3, <2>1, <2>2
<1> QED BY <1>1, <1>2, <1>3, <1>4 DEF Transcript

LEMMA AnsweredSound ==
  ASSUME pattern \in Patterns, NEW c \in Clients, NEW h \in Ids, NEW s, Transcript(s, c, h)
  PROVE  /\ Transcript(Answered(h, s), c, h)
         /\ Turn(s, "s") => Len(s) + 1 \in DOMAIN pattern /\ pattern[Len(s) + 1] = "s"
<1>1. s \in Seq(Clients \cup Ids) /\ Len(s) \in Nat /\ Len(s) <= Len(pattern)
  BY DEF Transcript
<1>2. CASE ~Turn(s, "s")
  BY <1>2 DEF Answered
<1>3. CASE Turn(s, "s")
  <2>1. Len(pattern) \in Nat /\ Len(s) < Len(pattern) /\ pattern[Len(s) + 1] = "s"
        /\ DOMAIN pattern = 1 .. Len(pattern)
    BY <1>1, <1>3, PatternFacts DEF Turn, Over
  <2>2. /\ Append(s, h) \in Seq(Clients \cup Ids) /\ Len(Append(s, h)) = Len(s) + 1
        /\ DOMAIN s = 1 .. Len(s) /\ DOMAIN Append(s, h) = 1 .. Len(s) + 1
        /\ \A i \in 1 .. Len(s) : Append(s, h)[i] = s[i]
        /\ Append(s, h)[Len(s) + 1] = h
    BY <1>1, Appended
  <2>3. ASSUME NEW i \in DOMAIN Append(s, h)
        PROVE  Append(s, h)[i] = IF pattern[i] = "c" THEN c ELSE h
    <3>1. CASE i \in 1 .. Len(s)
      BY <2>2, <3>1 DEF Transcript
    <3>2. CASE i = Len(s) + 1
      BY <2>1, <2>2, <3>2
    <3> QED BY <1>1, <2>2, <3>1, <3>2
  <2>4. Transcript(Append(s, h), c, h)
    BY <1>1, <2>1, <2>2, <2>3 DEF Transcript
  <2> QED BY <1>1, <1>3, <2>1, <2>4 DEF Answered
<1> QED BY <1>2, <1>3

\* A handshake's transcript is set and it stays in flight or is over.
LEMMA SettleSound ==
  ASSUME HandshakeTypes, ScriptSound, pattern' = pattern,
         made' \in made .. MaxHandshakes, peer' \in [Ids -> Clients \cup {None}],
         NEW c \in Clients, NEW h \in 1 .. made', NEW s, Transcript(s, c, h), Settle(c, h, s),
         peer'[h] = c,
         \A g \in 1 .. made : peer'[g] = peer[g],
         \A g \in 1 .. made' : g = h \/ g \in 1 .. made,
         \A g \in Ids : g > made' => peer'[g] = None
  PROVE  ScriptTypes' /\ ScriptSound' /\ Grows
<1>1. /\ MaxHandshakes \in Nat /\ made \in 0 .. MaxHandshakes /\ made' \in 0 .. MaxHandshakes
      /\ \A g \in 1 .. made : g \in 1 .. made'
      /\ \A g \in 1 .. made' : g \in Ids
      /\ h \in Ids /\ h # None /\ made <= made' /\ made' \in Nat
  BY HandshakeAssumption DEF HandshakeTypes, Ids, None
<1>2. /\ script' = [script EXCEPT ![h] = s]
      /\ pending' = [pending EXCEPT ![c] = IF Over(s) THEN None ELSE h]
  BY DEF Settle
<1>3. s \in Seq(Clients \cup Ids)
  BY DEF Transcript
<1>4. ScriptTypes'
  <2>1. script' \in [Ids -> Seq(Clients \cup Ids)]
    BY <1>1, <1>2, <1>3 DEF HandshakeTypes
  <2>2. pending' \in [Clients -> 0 .. MaxHandshakes]
    BY <1>1, <1>2 DEF HandshakeTypes, None, Ids
  <2> QED BY <1>1, <2>1, <2>2 DEF ScriptTypes
<1>5. ASSUME NEW g \in 1 .. made'
      PROVE  peer'[g] \in Clients /\ Transcript(script'[g], peer'[g], g)
  <2>1. CASE g = h
    <3>1. script'[g] = s
      BY <1>1, <1>2, <2>1 DEF HandshakeTypes
    <3> QED BY <2>1, <3>1
  <2>2. CASE g # h
    <3>1. g \in 1 .. made /\ script'[g] = script[g] /\ peer'[g] = peer[g]
      BY <1>1, <1>2, <2>2 DEF HandshakeTypes
    <3> QED BY <3>1 DEF ScriptSound
  <2> QED BY <2>1, <2>2
<1>6. ASSUME NEW e \in Clients, pending'[e] # None
      PROVE  pending'[e] \in 1 .. made' /\ peer'[pending'[e]] = e
  <2>1. CASE e = c
    <3>1. pending'[e] = h
      BY <1>2, <1>6, <2>1 DEF HandshakeTypes
    <3> QED BY <2>1, <3>1
  <2>2. CASE e # c
    <3>1. pending'[e] = pending[e]
      BY <1>2, <2>2 DEF HandshakeTypes
    <3>2. pending[e] \in 1 .. made /\ peer[pending[e]] = e
      BY <1>6, <3>1 DEF ScriptSound
    <3> QED BY <1>1, <3>1, <3>2
  <2> QED BY <2>1, <2>2
<1>7. ScriptSound'
  <2>1. (\A g \in 1 .. made : Transcript(script[g], peer[g], g))'
    BY <1>5 DEF Transcript
  <2> QED BY <1>5, <1>6, <2>1 DEF ScriptSound
<1> QED BY <1>1, <1>4, <1>7 DEF Grows

\* The first datagram or frame of a client starts a handshake.
LEMMA OpensSound ==
  ASSUME HandshakeTypes, ScriptSound, pattern' = pattern, NEW c \in Clients,
         NEW h, h = made + 1, Begin(c, h), Settle(c, h, Answered(h, Opening(c)))
  PROVE  /\ ScriptTypes' /\ ScriptSound' /\ Grows
         /\ made' = h /\ h \in 1 .. made' /\ peer'[h] = c /\ h \in Ids
         /\ Transcript(Opening(c), c, h)
<1>1. /\ MaxHandshakes \in Nat /\ made \in 0 .. MaxHandshakes /\ made < MaxHandshakes
      /\ made' = h /\ peer' = [peer EXCEPT ![h] = c]
  BY HandshakeAssumption DEF HandshakeTypes, Begin
<1>2. h \in Ids /\ h \in 1 .. made' /\ made' \in made .. MaxHandshakes
  BY <1>1 DEF Ids
<1>3. peer' \in [Ids -> Clients \cup {None}] /\ peer'[h] = c /\ \A g \in Ids : g # h => peer'[g] = peer[g]
  BY <1>1, <1>2 DEF HandshakeTypes
<1>4. \A g \in 1 .. made : g \in Ids /\ g # h
  BY <1>1 DEF Ids
<1>5. \A g \in 1 .. made' : g = h \/ g \in 1 .. made
  BY <1>1
<1>6. \A g \in Ids : g > made' => g > made /\ g # h
  BY <1>1 DEF Ids
<1>7. \A g \in Ids : g > made' => peer'[g] = None
  BY <1>3, <1>6 DEF ScriptSound
<1>8. Transcript(Opening(c), c, h)
  <2>1. Len(pattern) \in Nat /\ Len(pattern) >= 1
    BY PatternFacts DEF HandshakeTypes
  <2>2. CASE ClientFirst
    BY <2>1, <2>2 DEF Opening, Transcript, ClientFirst
  <2>3. CASE ~ClientFirst
    BY <2>1, <2>3 DEF Opening, Transcript
  <2> QED BY <2>2, <2>3
<1>9. Transcript(Answered(h, Opening(c)), c, h)
  BY <1>2, <1>8, AnsweredSound DEF HandshakeTypes
<1>10. ScriptTypes' /\ ScriptSound' /\ Grows
  BY <1>2, <1>3, <1>4, <1>5, <1>7, <1>9, SettleSound
<1> QED BY <1>1, <1>2, <1>3, <1>8, <1>10

\* The client's next message carries a handshake on.
LEMMA GoesOnSound ==
  ASSUME HandshakeTypes, ScriptSound, pattern' = pattern, made' = made, peer' = peer,
         NEW c \in Clients, NEW h, h = pending[c], h # None,
         Len(script[h]) + 1 \in DOMAIN pattern, pattern[Len(script[h]) + 1] = "c",
         Settle(c, h, Answered(h, Append(script[h], c)))
  PROVE  /\ ScriptTypes' /\ ScriptSound' /\ Grows
         /\ h \in 1 .. made /\ h \in Ids /\ peer[h] = c
         /\ Transcript(Append(script[h], c), c, h)
<1>1. h \in 1 .. made /\ peer[h] = c /\ Transcript(script[h], c, h)
  BY DEF ScriptSound
<1>2. MaxHandshakes \in Nat /\ made \in 0 .. MaxHandshakes /\ h \in Ids /\ made \in made .. MaxHandshakes
  BY <1>1, HandshakeAssumption DEF HandshakeTypes, Ids
<1>3. ~Over(script[h])
  <2>1. Len(pattern) \in Nat /\ DOMAIN pattern = 1 .. Len(pattern)
    BY PatternFacts DEF HandshakeTypes
  <2>2. Len(script[h]) \in Nat
    BY <1>1 DEF Transcript
  <2> QED BY <2>1, <2>2 DEF Over
<1>4. Transcript(Append(script[h], c), c, h)
  BY <1>1, <1>2, <1>3, ClientsTurn DEF HandshakeTypes
<1>5. Transcript(Answered(h, Append(script[h], c)), c, h)
  BY <1>2, <1>4, AnsweredSound DEF HandshakeTypes
<1>6. peer' \in [Ids -> Clients \cup {None}] /\ \A g \in Ids : g > made' => peer'[g] = None
  BY DEF HandshakeTypes, ScriptSound
<1>7. ScriptTypes' /\ ScriptSound' /\ Grows
  BY <1>1, <1>2, <1>5, <1>6, SettleSound
<1> QED BY <1>1, <1>2, <1>4, <1>7

\* A handshake is dropped, or nothing of the server changes.
LEMMA DropSound ==
  ASSUME HandshakeTypes, ScriptSound, pattern' = pattern, made' = made, peer' = peer,
         script' = script, pending' \in [Clients -> 0 .. MaxHandshakes],
         \A c \in Clients : pending'[c] \in {pending[c], None}
  PROVE  ScriptTypes' /\ ScriptSound' /\ Grows
<1>1. MaxHandshakes \in Nat /\ made \in Nat /\ made <= made
  BY HandshakeAssumption DEF HandshakeTypes
<1>2. (\A g \in 1 .. made : peer[g] \in Clients /\ Transcript(script[g], peer[g], g))'
  BY DEF ScriptSound, Transcript
<1>3. \A c \in Clients : pending'[c] # None => pending'[c] \in 1 .. made' /\ peer'[pending'[c]] = c
  BY DEF ScriptSound
<1>4. \A g \in Ids : g > made' => peer'[g] = None
  BY DEF ScriptSound
<1> QED BY <1>1, <1>2, <1>3, <1>4 DEF ScriptTypes, ScriptSound, Grows, HandshakeTypes

\* The message a handshake sends is sound.
LEMMA AnswersSound ==
  ASSUME HandshakeTypes, NEW c \in Clients, NEW h \in 1 .. made', NEW i \in DOMAIN pattern,
         pattern' = pattern, made' \in Nat, peer'[h] = c, pattern[i] = "s"
  PROVE  SoundMessage(ToClient(c, i, h))'
<1>1. i \in Nat /\ h \in Nat
  BY PatternFacts DEF HandshakeTypes
<1> QED BY <1>1 DEF SoundMessage, ToClient, Message
------------------------------------------------------------------------------
(* First datagrams and frames *)

LEMMA GuardsKept ==
  ASSUME HandshakeTypes, ScriptSound, FirstsGuarded, AdmittedOnce, made' = made, peer' = peer,
         forgotten \subseteq forgotten',
         \A c \in Clients : Guarded(c) => Guarded(c)' \/ c \in forgotten'
  PROVE  FirstsGuarded' /\ AdmittedOnce'
<1>1. \A h \in 1 .. made : peer[h] \in Clients
  BY DEF ScriptSound
<1>2. ASSUME NEW h \in 1 .. made
      PROVE  Guarded(peer[h])' \/ peer[h] \in forgotten'
  <2>1. PICK c \in Clients : c = peer[h]
    BY <1>1
  <2>2. Guarded(c) \/ c \in forgotten
    BY <2>1 DEF FirstsGuarded, Guarded
  <2>3. Guarded(c)' \/ c \in forgotten'
    BY <2>2
  <2> QED BY <2>1, <2>3 DEF Guarded
<1> QED BY <1>2 DEF FirstsGuarded, AdmittedOnce

LEMMA GuardsTake ==
  ASSUME HandshakeTypes, ScriptSound, FirstsGuarded, AdmittedOnce, NEW c \in Clients,
         made' = made + 1, peer'[made + 1] = c, \A h \in 1 .. made : peer'[h] = peer[h],
         forgotten \subseteq forgotten', ~Guarded(c), Guarded(c)' \/ c \in forgotten',
         \A e \in Clients : Guarded(e) => Guarded(e)' \/ e \in forgotten'
  PROVE  FirstsGuarded' /\ AdmittedOnce'
<1>1. made \in Nat /\ \A h \in 1 .. made' : h = made + 1 \/ h \in 1 .. made
  BY HandshakeAssumption DEF HandshakeTypes
<1>2. \A h \in 1 .. made : peer[h] \in Clients
  BY DEF ScriptSound
<1>3. ASSUME NEW h \in 1 .. made
      PROVE  /\ Guarded(peer[h])' \/ peer[h] \in forgotten'
             /\ peer[h] = c => c \in forgotten
  <2>1. PICK e \in Clients : e = peer[h]
    BY <1>2
  <2>2. Guarded(e) \/ e \in forgotten
    BY <2>1 DEF FirstsGuarded, Guarded
  <2>3. Guarded(e)' \/ e \in forgotten'
    BY <2>2
  <2> QED BY <2>1, <2>2, <2>3 DEF Guarded
<1>4. FirstsGuarded'
  <2>1. ASSUME NEW h \in 1 .. made'
        PROVE  (Guarded(peer[h]))' \/ peer'[h] \in forgotten'
    <3>1. CASE h = made + 1
      BY <3>1 DEF Guarded
    <3>2. CASE h \in 1 .. made
      BY <1>3, <3>2 DEF Guarded
    <3> QED BY <1>1, <3>1, <3>2
  <2> QED BY <2>1 DEF FirstsGuarded
<1>5. AdmittedOnce'
  <2>1. ASSUME NEW g \in 1 .. made', NEW h \in 1 .. made', peer'[g] = peer'[h], g # h
        PROVE  peer'[g] \in forgotten'
    <3>1. CASE g \in 1 .. made /\ h \in 1 .. made
      BY <2>1, <3>1 DEF AdmittedOnce
    <3>2. CASE g = made + 1 /\ h \in 1 .. made
      BY <1>3, <2>1, <3>2
    <3>3. CASE g \in 1 .. made /\ h = made + 1
      BY <1>3, <2>1, <3>3
    <3> QED BY <1>1, <2>1, <3>1, <3>2, <3>3
  <2> QED BY <2>1 DEF AdmittedOnce
<1> QED BY <1>4, <1>5

------------------------------------------------------------------------------
(* Every step keeps the invariant *)

\* The parts that a step of either side changes.
LEMMA Together ==
  ASSUME IInv, pattern' = pattern, home' = home, TableTypes', ScriptTypes', HeardTypes',
         state' \in [Clients -> {"running", "done", "failed"}], net' \subseteq Message,
         forgotten' \subseteq Clients, StreamTypes',
         ScriptSound', MessagesSound', HeardSound', FirstsGuarded', AdmittedOnce'
  PROVE  IInv'
BY DEF IInv, HandshakeTypes, ScriptTypes, HeardTypes

\* A client's step leaves the server, its tables and its streams' goroutine alone.
LEMMA ClientStepSound ==
  ASSUME IInv, pattern' = pattern, home' = home,
         made' = made, peer' = peer, script' = script, pending' = pending,
         now' = now, table' = table, file' = file, forgotten' = forgotten,
         transport' = transport, serving' = serving,
         HeardTypes', HeardSound', state' \in [Clients -> {"running", "done", "failed"}],
         up' \in [Clients -> LinkRecord], down' \in [Clients -> LinkRecord],
         net' \subseteq Message, MessagesSound'
  PROVE  IInv'
<1>1. TableTypes' /\ StreamTypes'
  BY DEF IInv, TableTypes, StreamTypes
<1>2. ScriptTypes' /\ ScriptSound' /\ Grows
  <2>1. HandshakeTypes /\ ScriptSound
    BY DEF IInv
  <2>2. pending' \in [Clients -> 0 .. MaxHandshakes]
    BY <2>1 DEF HandshakeTypes
  <2> QED BY <2>1, <2>2, DropSound
<1>3. FirstsGuarded' /\ AdmittedOnce'
  BY DEF IInv, FirstsGuarded, AdmittedOnce, Guarded, Fresh
<1>4. forgotten' \subseteq Clients
  BY DEF IInv, HandshakeTypes
<1> QED BY <1>1, <1>2, <1>3, <1>4, Together

LEMMA GrowsNot ==
  ASSUME IInv, pattern' = pattern, made' = made, peer' = peer
  PROVE  Grows
BY HandshakeAssumption DEF IInv, HandshakeTypes, Grows

LEMMA ClientDatagrams ==
  ASSUME IInv, UNCHANGED streamVars, NEW c \in Clients,
         ClientSend(c) \/ ClientKnock(c) \/ ClientRetransmit(c) \/ ClientGiveUp(c)
         \/ \E d \in net : c = d.client /\ ClientReceive(c, d)
  PROVE  IInv'
<1>1. /\ HandshakeTypes /\ MessagesSound /\ HeardSound /\ StreamTypes
      /\ up' = up /\ down' = down /\ serving' = serving /\ transport' = transport
  BY DEF IInv, streamVars
<1>2. up' \in [Clients -> LinkRecord] /\ down' \in [Clients -> LinkRecord]
  BY <1>1 DEF StreamTypes
<1>3. CASE ClientSend(c)
  <2>1. /\ pattern' = pattern /\ home' = home /\ made' = made /\ peer' = peer /\ script' = script
        /\ pending' = pending /\ now' = now /\ table' = table /\ file' = file
        /\ forgotten' = forgotten /\ ~Over(heard[c]) /\ pattern[Len(heard[c]) + 1] = "c"
        /\ Advance(c, c) /\ net' = net \cup {ToServer(c, Len(heard'[c]))}
    BY <1>3 DEF ClientSend, clientFrame, serverVars, tableVars, Turn
  <2>2. /\ HeardTypes' /\ HeardSound' /\ state' \in [Clients -> {"running", "done", "failed"}]
        /\ Len(heard'[c]) = Len(heard[c]) + 1 /\ Len(heard[c]) + 1 \in DOMAIN pattern
    BY <1>1, <2>1, HeardAdvances
  <2>3. SoundMessage(ToServer(c, Len(heard'[c])))
    BY <1>1, <2>1, <2>2, SendsSound
  <2>4. net' \subseteq Message /\ MessagesSound'
    <3>1. Grows
      BY <2>1, GrowsNot
    <3>2. \A d \in {ToServer(c, Len(heard'[c]))} : SoundMessage(d)'
      BY <1>1, <2>3, <3>1, MessageStaysSound
    <3> QED BY <1>1, <2>1, <3>1, <3>2, NetChanges
  <2> QED BY <1>1, <1>2, <2>1, <2>2, <2>4, ClientStepSound
<1>4. CASE ClientKnock(c) \/ ClientRetransmit(c)
  <2>1. PICK i \in {KnockStep, LastSentStep(c)} : net' = net \cup {ToServer(c, i)}
    BY <1>4 DEF ClientKnock, ClientRetransmit
  <2>2. /\ pattern' = pattern /\ home' = home /\ made' = made /\ peer' = peer /\ script' = script
        /\ pending' = pending /\ now' = now /\ table' = table /\ file' = file
        /\ forgotten' = forgotten /\ heard' = heard /\ state' = state
    BY <1>4 DEF ClientKnock, ClientRetransmit, clientFrame, serverVars, tableVars
  <2>3. SoundMessage(ToServer(c, i))
    BY <1>1, LastSent, SendsSound
  <2>4. Grows
    BY <2>2, GrowsNot
  <2>5. net' \subseteq Message /\ MessagesSound'
    <3>1. \A d \in {ToServer(c, i)} : SoundMessage(d)'
      BY <1>1, <2>3, <2>4, MessageStaysSound
    <3> QED BY <1>1, <2>1, <2>4, <3>1, NetChanges
  <2>6. HeardTypes' /\ HeardSound' /\ state' \in [Clients -> {"running", "done", "failed"}]
    BY <1>1, <2>2, <2>4, HeardStays DEF HandshakeTypes
  <2> QED BY <1>1, <1>2, <2>2, <2>5, <2>6, ClientStepSound
<1>5. CASE ClientGiveUp(c)
  <2>1. /\ pattern' = pattern /\ home' = home /\ made' = made /\ peer' = peer /\ script' = script
        /\ pending' = pending /\ now' = now /\ table' = table /\ file' = file
        /\ forgotten' = forgotten /\ heard' = heard /\ net' = net
        /\ state' = [state EXCEPT ![c] = "failed"]
    BY <1>5 DEF ClientGiveUp, clientFrame, serverVars, tableVars
  <2>2. Grows
    BY <2>1, GrowsNot
  <2>3. HeardTypes' /\ HeardSound' /\ state' \in [Clients -> {"running", "done", "failed"}]
    BY <1>1, <2>1, <2>2, HeardStays DEF HandshakeTypes
  <2>4. net' \subseteq Message /\ MessagesSound'
    BY <1>1, <2>1, <2>2, NetChanges
  <2> QED BY <1>1, <1>2, <2>1, <2>3, <2>4, ClientStepSound
<1>6. CASE \E d \in net : c = d.client /\ ClientReceive(c, d)
  <2>1. PICK d \in net : c = d.client /\ ClientReceive(c, d)
    BY <1>6
  <2>2. /\ pattern' = pattern /\ home' = home /\ made' = made /\ peer' = peer /\ script' = script
        /\ pending' = pending /\ now' = now /\ table' = table /\ file' = file
        /\ forgotten' = forgotten /\ net' = net
        /\ ~Over(heard[c]) /\ Advance(c, d.h) /\ d.to = "c" /\ d.step = Len(heard[c]) + 1
    BY <2>1 DEF ClientReceive, clientFrame, serverVars, tableVars, Turn, Waiting, Due
  <2>3. /\ pattern[Len(heard[c]) + 1] = "s" /\ d.h \in 1 .. made /\ peer[d.h] = c
        /\ d.h \in Clients \cup Ids
    <3>1. SoundMessage(d)
      BY <1>1 DEF MessagesSound
    <3>2. d.h \in 1 .. made /\ peer[d.h] = c /\ pattern[d.step] = "s"
      BY <2>1, <2>2, <3>1 DEF SoundMessage
    <3>3. d.h \in Ids
      BY <1>1, <3>2, HandshakeAssumption DEF HandshakeTypes, Ids
    <3> QED BY <2>2, <3>2, <3>3
  <2>4. HeardTypes' /\ HeardSound' /\ state' \in [Clients -> {"running", "done", "failed"}]
    BY <1>1, <2>2, <2>3, HeardAdvances
  <2>5. net' \subseteq Message /\ MessagesSound'
    BY <1>1, <2>2, GrowsNot, NetChanges
  <2> QED BY <1>1, <1>2, <2>2, <2>4, <2>5, ClientStepSound
<1> QED BY <1>3, <1>4, <1>5, <1>6
\* A step of the server, the network or the clock leaves the clients alone.
LEMMA ServerStepSound ==
  ASSUME IInv, pattern' = pattern, home' = home, heard' = heard, state' = state,
         TableTypes', StreamTypes', ScriptTypes', ScriptSound', Grows,
         net' \subseteq Message, MessagesSound', forgotten' \subseteq Clients,
         FirstsGuarded', AdmittedOnce'
  PROVE  IInv'
<1>1. HandshakeTypes /\ HeardSound
  BY DEF IInv
<1>2. HeardTypes' /\ HeardSound'
  BY <1>1, HeardStays
<1>3. state' \in [Clients -> {"running", "done", "failed"}]
  BY <1>1 DEF HandshakeTypes
<1> QED BY <1>2, <1>3, Together

\* An answer joins the datagrams under way.
LEMMA AnswerJoins ==
  ASSUME HandshakeTypes, MessagesSound, Grows, up' = up, down' = down,
         NEW c \in Clients, NEW h \in Ids, NEW s, Transcript(s, c, h),
         h \in 1 .. made', peer'[h] = c,
         net' = IF Turn(s, "s") THEN net \cup {ToClient(c, Len(s) + 1, h)} ELSE net
  PROVE  net' \subseteq Message /\ MessagesSound'
<1>1. CASE Turn(s, "s")
  <2>1. Len(s) + 1 \in DOMAIN pattern /\ pattern[Len(s) + 1] = "s"
    BY <1>1, AnsweredSound DEF HandshakeTypes
  <2>2. SoundMessage(ToClient(c, Len(s) + 1, h))'
    BY <2>1, AnswersSound DEF Grows
  <2>3. \A d \in net' : d \in net \/ d = ToClient(c, Len(s) + 1, h)
    BY <1>1
  <2>4. ASSUME NEW d \in net'
        PROVE  d \in net \/ SoundMessage(d)'
    <3>1. CASE d = ToClient(c, Len(s) + 1, h)
      BY <2>2, <3>1 DEF SoundMessage
    <3> QED BY <2>3, <3>1
  <2> QED BY <2>4, NetChanges
<1>2. CASE ~Turn(s, "s")
  BY <1>2, NetChanges
<1> QED BY <1>1, <1>2

\* A first datagram is recorded, and what was on record stays fresh.
LEMMA RememberKeeps ==
  ASSUME TableTypes, home \in [Clients -> Muxes], home' = home, now' = now,
         NEW c \in Clients, Remember(home[c], c)
  PROVE  /\ TableTypes'
         /\ \A e \in Clients : Fresh(table[home[e]], e) => Fresh(table[home[e]], e)'
<1> DEFINE t == table[home[c]]
<1>1. home[c] \in Muxes /\ t \in [Keys -> Nat] /\ now \in Nat /\ c \in Keys
  BY DEF TableTypes, Clients
<1>2. table' = [table EXCEPT ![home[c]] = Recorded(t, c)]
      /\ (file' = table'[home[c]] \/ file' = file)
  BY DEF Remember
<1> HIDE DEF t
<1>3. /\ Recorded(t, c) \in [Keys -> Nat]
      /\ \A j \in Keys : Fresh(t, j) => Fresh(Recorded(t, c), j)
  BY <1>1, RecordedKeeps
<1>4. TableTypes'
  BY <1>1, <1>2, <1>3 DEF TableTypes
<1>5. ASSUME NEW e \in Clients, Fresh(table[home[e]], e)
      PROVE  Fresh(table[home[e]], e)'
  <2>1. CASE home[e] = home[c]
    <3>1. table'[home[e]] = Recorded(t, c)
      BY <1>1, <1>2, <2>1 DEF TableTypes
    <3>2. Fresh(t, e)
      BY <1>5, <2>1 DEF t
    <3>3. Fresh(Recorded(t, c), e)
      BY <1>3, <3>2 DEF Clients
    <3> QED BY <3>1, <3>3 DEF Fresh
  <2>2. CASE home[e] # home[c]
    <3>1. table'[home[e]] = table[home[e]]
      BY <1>2, <2>2 DEF TableTypes
    <3> QED BY <1>5, <3>1 DEF Fresh
  <2> QED BY <2>1, <2>2
<1> QED BY <1>4, <1>5

LEMMA ServerDatagrams ==
  ASSUME IInv, UNCHANGED streamVars, transport = "udp", NEW d \in net, ServerReceive(d)
  PROVE  IInv'
<1> DEFINE c == d.client
<1>1. /\ HandshakeTypes /\ MessagesSound /\ ScriptSound /\ StreamTypes /\ TableTypes
      /\ FirstsGuarded /\ AdmittedOnce
      /\ up' = up /\ down' = down /\ serving' = serving /\ transport' = transport
  BY DEF IInv, streamVars
<1>2. StreamTypes' /\ c \in Clients /\ SoundMessage(d)
  BY <1>1 DEF StreamTypes, MessagesSound, SoundMessage, Message
<1>3. CASE ServerFirst(c, d)
  <2> DEFINE h == made + 1
  <2>1. /\ ~Fresh(table[home[c]], c) /\ Begin(c, h) /\ Answer(c, h, Opening(c))
        /\ Remember(home[c], c)
        /\ forgotten' = IF Fresh(table'[home[c]], c) THEN forgotten ELSE forgotten \cup {c}
        /\ pattern' = pattern /\ home' = home /\ heard' = heard /\ state' = state /\ now' = now
    BY <1>3 DEF ServerFirst, NotSeen, serverFrame, clientVars
  <2>2. /\ Settle(c, h, Answered(h, Opening(c)))
        /\ net' = IF Turn(Opening(c), "s") THEN net \cup {ToClient(c, Len(Opening(c)) + 1, h)} ELSE net
    BY <2>1 DEF Answer
  <2> HIDE DEF c, h
  <2>3. /\ ScriptTypes' /\ ScriptSound' /\ Grows
        /\ made' = h /\ h \in 1 .. made' /\ peer'[h] = c /\ h \in Ids
        /\ Transcript(Opening(c), c, h)
    BY <1>1, <1>2, <2>1, <2>2, OpensSound DEF h
  <2>4. net' \subseteq Message /\ MessagesSound'
    BY <1>1, <1>2, <2>2, <2>3, AnswerJoins
  <2>5. /\ TableTypes'
        /\ \A e \in Clients : Fresh(table[home[e]], e) => Fresh(table[home[e]], e)'
    BY <1>1, <1>2, <2>1, RememberKeeps DEF HandshakeTypes
  <2>6. forgotten' \subseteq Clients /\ forgotten \subseteq forgotten'
    BY <1>1, <1>2, <2>1 DEF HandshakeTypes
  <2>7. FirstsGuarded' /\ AdmittedOnce'
    <3>1. ~Guarded(c)
      BY <2>1 DEF Guarded
    <3>2. Guarded(c)' \/ c \in forgotten'
      BY <1>1, <1>2, <2>1 DEF Guarded, Fresh
    <3>3. \A e \in Clients : Guarded(e) => Guarded(e)' \/ e \in forgotten'
      BY <1>1, <2>5 DEF Guarded
    <3>4. made' = made + 1 /\ peer'[made + 1] = c /\ \A g \in 1 .. made : peer'[g] = peer[g]
      BY <2>3 DEF h, Grows
    <3> QED BY <1>1, <1>2, <2>6, <3>1, <3>2, <3>3, <3>4, GuardsTake
  <2> QED BY <1>2, <2>1, <2>3, <2>4, <2>5, <2>6, <2>7, ServerStepSound
<1>4. CASE ServerNext(c, d)
  <2> DEFINE h == pending[c]
             s == Append(script[h], c)
  <2>1. /\ h # None /\ d = ToServer(c, Len(script[h]) + 1) /\ Answer(c, h, s)
        /\ made' = made /\ peer' = peer /\ table' = table /\ file' = file /\ now' = now
        /\ forgotten' = forgotten
        /\ pattern' = pattern /\ home' = home /\ heard' = heard /\ state' = state
    BY <1>4 DEF ServerNext, serverFrame, clientVars
  <2>2. /\ Settle(c, h, Answered(h, s))
        /\ net' = IF Turn(s, "s") THEN net \cup {ToClient(c, Len(s) + 1, h)} ELSE net
    BY <2>1 DEF Answer
  <2>3. Len(script[h]) + 1 \in DOMAIN pattern /\ pattern[Len(script[h]) + 1] = "c"
    <3>1. h \in 1 .. made
      BY <1>1, <1>2, <2>1 DEF ScriptSound
    <3>2. Len(script[h]) \in Nat
      BY <1>1, <3>1 DEF ScriptSound, Transcript
    <3>3. d.to = "s" /\ d.step = Len(script[h]) + 1 /\ d.step # KnockStep
      BY <2>1, <3>2 DEF ToServer, KnockStep
    <3> QED BY <1>2, <3>3 DEF SoundMessage
  <2> HIDE DEF c, h
  <2>4. /\ ScriptTypes' /\ ScriptSound' /\ Grows
        /\ h \in 1 .. made /\ h \in Ids /\ peer[h] = c
        /\ Transcript(s, c, h)
    BY <1>1, <1>2, <2>1, <2>2, <2>3, GoesOnSound DEF h
  <2> HIDE DEF s
  <2>5. net' \subseteq Message /\ MessagesSound'
    BY <1>1, <1>2, <2>1, <2>2, <2>4, AnswerJoins
  <2>6. FirstsGuarded' /\ AdmittedOnce' /\ TableTypes' /\ forgotten' \subseteq Clients
    BY <1>1, <2>1 DEF FirstsGuarded, AdmittedOnce, Guarded, Fresh, TableTypes, HandshakeTypes
  <2> QED BY <1>2, <2>1, <2>4, <2>5, <2>6, ServerStepSound
<1> QED BY <1>3, <1>4 DEF ServerReceive
\* A handshake is dropped or nothing of it changes, and time may pass.
LEMMA OtherDatagrams ==
  ASSUME IInv, UNCHANGED streamVars, transport = "udp",
         \/ \E c \in Clients : ServerRetransmit(c) \/ ServerDrop(c) \/ SessionEnds(c)
         \/ \E d \in net : Lose(d)
         \/ Restart \/ HourPasses
  PROVE  IInv'
<1>1. /\ HandshakeTypes /\ MessagesSound /\ ScriptSound /\ StreamTypes /\ TableTypes
      /\ FirstsGuarded /\ AdmittedOnce
      /\ up' = up /\ down' = down /\ serving' = serving /\ transport' = transport
  BY DEF IInv, streamVars
<1>2. StreamTypes' /\ MaxHandshakes \in Nat /\ made \in 0 .. MaxHandshakes
  BY <1>1, HandshakeAssumption DEF StreamTypes, HandshakeTypes
<1>3. /\ pattern' = pattern /\ home' = home /\ heard' = heard /\ state' = state
      /\ made' = made /\ peer' = peer /\ script' = script
  BY DEF ServerRetransmit, ServerDrop, SessionEnds, Lose, Restart, HourPasses,
         serverFrame, clientVars, serverVars
<1>4. pending' \in [Clients -> 0 .. MaxHandshakes] /\ \A c \in Clients : pending'[c] \in {pending[c], None}
  <2>1. CASE pending' = pending
    BY <1>1, <2>1 DEF HandshakeTypes
  <2>2. CASE Restart
    <3>1. pending' = [c \in Clients |-> None] /\ None \in 0 .. MaxHandshakes
      BY <1>2, <2>2 DEF Restart, None
    <3> QED BY <3>1
  <2>3. ASSUME NEW c \in Clients, pending' = [pending EXCEPT ![c] = None]
        PROVE  pending' \in [Clients -> 0 .. MaxHandshakes] /\ \A e \in Clients : pending'[e] \in {pending[e], None}
    <3>1. None \in 0 .. MaxHandshakes /\ pending \in [Clients -> 0 .. MaxHandshakes]
      BY <1>1, <1>2 DEF HandshakeTypes, None
    <3> QED BY <2>3, <3>1
  <2> QED BY <2>1, <2>2, <2>3 DEF ServerRetransmit, ServerDrop, SessionEnds, Lose, HourPasses, serverVars
<1>5. ScriptTypes' /\ ScriptSound' /\ Grows
  BY <1>1, <1>3, <1>4, DropSound
<1>6. net' \subseteq Message /\ MessagesSound'
  <2>1. CASE net' \subseteq net
    BY <1>1, <1>5, <2>1, NetChanges
  <2>2. ASSUME NEW c \in Clients, ServerRetransmit(c)
        PROVE  net' \subseteq Message /\ MessagesSound'
    <3>0. PICK h, i : h = pending[c] /\ i = Len(script[pending[c]])
      OBVIOUS
    <3>1. h # None /\ script[h] # <<>> /\ script[h][i] = h /\ net' = net \cup {ToClient(c, i, h)}
      BY <2>2, <3>0 DEF ServerRetransmit
    <3>2. h \in 1 .. made /\ peer[h] = c /\ Transcript(script[h], c, h)
      BY <1>1, <3>0, <3>1 DEF ScriptSound
    <3>3. i \in DOMAIN script[h] /\ i \in DOMAIN pattern
      <4>1. Len(pattern) \in Nat /\ DOMAIN pattern = 1 .. Len(pattern)
        BY <1>1, PatternFacts DEF HandshakeTypes
      <4>2. script[h] \in Seq(Clients \cup Ids) /\ i \in Nat /\ i <= Len(pattern)
        BY <3>0, <3>2 DEF Transcript
      <4>3. Len(script[h]) # 0
        BY <3>1, <4>2
      <4> QED BY <3>0, <4>1, <4>2, <4>3
    <3>4. CASE pattern[i] = "s"
      <4>1. SoundMessage(ToClient(c, i, h))'
        BY <1>1, <1>2, <1>3, <3>2, <3>3, <3>4, AnswersSound
      <4>2. \A d \in net' : d \in net \/ d = ToClient(c, i, h)
        BY <3>1
      <4>3. ASSUME NEW d \in net'
            PROVE  d \in net \/ SoundMessage(d)'
        <5>1. CASE d = ToClient(c, i, h)
          BY <4>1, <5>1 DEF SoundMessage
        <5> QED BY <4>2, <5>1
      <4> QED BY <1>1, <1>5, <4>3, NetChanges
    <3>5. CASE pattern[i] # "s"
      <4>1. pattern[i] = "c"
        BY <1>1, <3>3, <3>5, PatternFacts DEF HandshakeTypes
      <4>2. script[h][i] = c
        BY <3>2, <3>3, <4>1 DEF Transcript
      <4>3. h \in Ids /\ h = c
        BY <1>2, <3>1, <3>2, <4>2 DEF Ids
      <4> QED BY <4>3, HandshakeAssumption
    <3> QED BY <3>4, <3>5
  <2> QED BY <2>1, <2>2 DEF ServerDrop, SessionEnds, Lose, Restart, HourPasses
<1>7. now' \in Nat /\ forgotten' \subseteq Clients /\ forgotten \subseteq forgotten'
  BY <1>1 DEF ServerRetransmit, ServerDrop, SessionEnds, Lose, Restart, HourPasses, serverFrame,
              tableVars, Load, TableTypes, HandshakeTypes
<1>8. CASE UNCHANGED <<now, table, file>>
  <2>1. TableTypes'
    BY <1>1, <1>8 DEF TableTypes
  <2>2. \A c \in Clients : Guarded(c) => Guarded(c)'
    BY <1>1, <1>3, <1>8 DEF Guarded, Fresh
  <2>3. FirstsGuarded' /\ AdmittedOnce'
    BY <1>1, <1>3, <1>7, <2>2, GuardsKept
  <2> QED BY <1>2, <1>3, <1>5, <1>6, <1>7, <2>1, <2>3, ServerStepSound
<1>9. CASE Restart
  <2>1. /\ table' = [m \in Muxes |-> Swept(file)] /\ file' = file /\ now' = now
        /\ forgotten' = forgotten \cup
             {c \in Clients : Fresh(table[home[c]], c) /\ ~Fresh(table'[home[c]], c)}
    BY <1>9 DEF Restart, Load
  <2>2. TableTypes'
    BY <1>1, <2>1 DEF TableTypes, Swept
  <2>3. \A c \in Clients : Guarded(c) => Guarded(c)' \/ c \in forgotten'
    BY <1>1, <1>3, <2>1 DEF Guarded, Fresh
  <2>4. FirstsGuarded' /\ AdmittedOnce'
    BY <1>1, <1>3, <1>7, <2>3, GuardsKept
  <2> QED BY <1>2, <1>3, <1>5, <1>6, <1>7, <2>2, <2>4, ServerStepSound
<1>10. CASE HourPasses
  <2>1. /\ table' = table /\ file' = file /\ now' = now + 1
        /\ forgotten' = forgotten \cup
             {c \in Clients : table[home[c]][c] > 0 /\ now' >= table[home[c]][c]}
    BY <1>10 DEF HourPasses
  <2>2. TableTypes'
    BY <1>1, <2>1 DEF TableTypes
  <2>3. ASSUME NEW c \in Clients, Guarded(c)
        PROVE  Guarded(c)' \/ c \in forgotten'
    <3>1. home[c] \in Muxes /\ table[home[c]][c] \in Nat /\ now \in Nat
      BY <1>1 DEF HandshakeTypes, TableTypes, Clients
    <3>2. now < table[home[c]][c]
      BY <1>1, <2>3 DEF Guarded, Fresh
    <3>3. CASE now' < table[home[c]][c]
      BY <1>1, <1>3, <2>1, <3>3 DEF Guarded, Fresh
    <3>4. CASE now' >= table[home[c]][c] /\ table[home[c]][c] > 0
      BY <2>1, <3>4
    <3> QED BY <2>1, <3>1, <3>2, <3>3, <3>4
  <2>4. FirstsGuarded' /\ AdmittedOnce'
    BY <1>1, <1>3, <1>7, <2>3, GuardsKept
  <2> QED BY <1>2, <1>3, <1>5, <1>6, <1>7, <2>2, <2>4, ServerStepSound
<1> QED BY <1>8, <1>9, <1>10 DEF ServerRetransmit, ServerDrop, SessionEnds, Lose, serverFrame, tableVars
------------------------------------------------------------------------------
(* Streams *)

\* A stream's client: one message more on its way, or one read.
LEMMA ClientStreams ==
  ASSUME IInv, NEW c \in Clients,
         StreamSend(c) \/ StreamKnock(c) \/ ClientTimer(c) \/ ClientDeadline(c)
         \/ ClientReadsHeader(c) \/ ClientReadsBody(c)
  PROVE  IInv'
<1>1. /\ HandshakeTypes /\ MessagesSound /\ HeardSound /\ StreamTypes
      /\ up[c] \in LinkRecord /\ down[c] \in LinkRecord
      /\ SoundLink(up[c]) /\ SoundLink(down[c])
  BY DEF IInv, StreamTypes, MessagesSound
<1>2. /\ pattern' = pattern /\ home' = home /\ made' = made /\ peer' = peer /\ script' = script
      /\ pending' = pending /\ now' = now /\ table' = table /\ file' = file
      /\ forgotten' = forgotten /\ net' = net /\ transport' = transport /\ serving' = serving
  BY DEF StreamSend, StreamKnock, ClientTimer, ClientDeadline, ClientReadsHeader, ClientReadsBody,
         ClientGiveUp, clientFrame, streamFrame, streamVars, serverSide, serverVars, tableVars
<1>3. Grows
  BY <1>2, GrowsNot
<1>4. \A k : SoundLink(k) => SoundLink(k)'
  BY <1>1, <1>3, MessageStaysSound DEF SoundLink
<1>5. ASSUME NEW u \in LinkRecord, SoundLink(u), NEW v \in LinkRecord, SoundLink(v),
             up' = [up EXCEPT ![c] = u], down' = [down EXCEPT ![c] = v],
             HeardTypes', HeardSound', state' \in [Clients -> {"running", "done", "failed"}]
      PROVE  IInv'
  <2>1. up' \in [Clients -> LinkRecord] /\ down' \in [Clients -> LinkRecord] /\ MessagesSound'
    BY <1>1, <1>2, <1>3, <1>4, <1>5, StreamsChange
  <2>2. net' \subseteq Message
    BY <1>1, <1>2 DEF HandshakeTypes
  <2> QED BY <1>2, <1>5, <2>1, <2>2, ClientStepSound
<1>6. /\ up' = up => up' = [up EXCEPT ![c] = up[c]]
      /\ down' = down => down' = [down EXCEPT ![c] = down[c]]
  BY <1>1 DEF StreamTypes
<1>7. heard' = heard /\ state' \in {state, [state EXCEPT ![c] = "failed"]} =>
        HeardTypes' /\ HeardSound' /\ state' \in [Clients -> {"running", "done", "failed"}]
  BY <1>1, <1>3, HeardStays DEF HandshakeTypes
<1>8. CASE StreamSend(c)
  <2>1. /\ ~Over(heard[c]) /\ pattern[Len(heard[c]) + 1] = "c" /\ Advance(c, c) /\ down' = down
        /\ up' = [up EXCEPT ![c] = Put(up[c], ToServer(c, Len(heard'[c])))]
    BY <1>8 DEF StreamSend, Turn
  <2>2. /\ HeardTypes' /\ HeardSound' /\ state' \in [Clients -> {"running", "done", "failed"}]
        /\ Len(heard'[c]) = Len(heard[c]) + 1 /\ Len(heard[c]) + 1 \in DOMAIN pattern
    BY <1>1, <1>2, <2>1, HeardAdvances
  <2>3. PICK d : d = ToServer(c, Len(heard'[c])) /\ SoundMessage(d)
    BY <1>1, <2>1, <2>2, SendsSound
  <2>4. Put(up[c], d) \in LinkRecord /\ SoundLink(Put(up[c], d))
    BY <1>1, <2>3, LinkOperations
  <2>5. PICK u \in LinkRecord : u = Put(up[c], d) /\ SoundLink(u)
    BY <2>4
  <2>6. PICK v \in LinkRecord : v = down[c] /\ SoundLink(v)
    BY <1>1
  <2> QED BY <1>5, <1>6, <2>1, <2>2, <2>3, <2>5, <2>6
<1>9. CASE StreamKnock(c)
  <2>1. /\ heard' = heard /\ state' = state /\ down' = down
        /\ up' = [up EXCEPT ![c] = Put(up[c], ToServer(c, KnockStep))]
    BY <1>9 DEF StreamKnock
  <2>2. PICK d : d = ToServer(c, KnockStep) /\ SoundMessage(d)
    BY <1>1, SendsSound
  <2>3. PICK u \in LinkRecord : u = Put(up[c], d) /\ SoundLink(u)
    BY <1>1, <2>2, LinkOperations
  <2>4. PICK v \in LinkRecord : v = down[c] /\ SoundLink(v)
    BY <1>1
  <2> QED BY <1>5, <1>6, <1>7, <2>1, <2>2, <2>3, <2>4
<1>10. CASE ClientTimer(c)
  <2>1. heard' = heard /\ state' \in {state, [state EXCEPT ![c] = "failed"]}
    BY <1>10 DEF ClientTimer
  <2>2. CASE transport = "http"
    <3>1. up' = up /\ down' = down
      BY <1>10, <2>2 DEF ClientTimer
    <3>2. PICK u \in LinkRecord, v \in LinkRecord : u = up[c] /\ SoundLink(u) /\ v = down[c] /\ SoundLink(v)
      BY <1>1
    <3> QED BY <1>5, <1>6, <1>7, <2>1, <3>1, <3>2
  <2>3. CASE transport # "http"
    <3>1. /\ up' = [up EXCEPT ![c] = Put(up[c], ToServer(c, LastSentStep(c)))]
          /\ down' = [down EXCEPT ![c] = Struck(down[c])]
      BY <1>10, <2>3 DEF ClientTimer
    <3>2. PICK d : d = ToServer(c, LastSentStep(c)) /\ SoundMessage(d)
      BY <1>1, LastSent, SendsSound
    <3>3. PICK u \in LinkRecord : u = Put(up[c], d) /\ SoundLink(u)
      BY <1>1, <3>2, LinkOperations
    <3>4. PICK v \in LinkRecord : v = Struck(down[c]) /\ SoundLink(v)
      BY <1>1, LinkOperations
    <3> QED BY <1>5, <1>7, <2>1, <3>1, <3>2, <3>3, <3>4
  <2> QED BY <2>2, <2>3
<1>11. CASE ClientDeadline(c)
  <2>1. /\ heard' = heard /\ state' = [state EXCEPT ![c] = "failed"]
        /\ up' = up /\ down' = down
    BY <1>11 DEF ClientDeadline, ClientGiveUp, streamVars
  <2>2. PICK u \in LinkRecord, v \in LinkRecord : u = up[c] /\ SoundLink(u) /\ v = down[c] /\ SoundLink(v)
    BY <1>1
  <2> QED BY <1>5, <1>6, <1>7, <2>1, <2>2
<1>12. CASE ClientReadsHeader(c)
  <2>1. /\ heard' = heard /\ state' = state /\ up' = up /\ AtHeader(down[c])
        /\ down' = [down EXCEPT ![c] = HeaderRead(down[c])]
    BY <1>12 DEF ClientReadsHeader
  <2>2. PICK u \in LinkRecord : u = up[c] /\ SoundLink(u)
    BY <1>1
  <2>3. PICK v \in LinkRecord : v = HeaderRead(down[c]) /\ SoundLink(v)
    BY <1>1, <2>1, LinkOperations
  <2> QED BY <1>5, <1>6, <1>7, <2>1, <2>2, <2>3
<1>13. CASE ClientReadsBody(c)
  <2>1. PICK d : d = down[c].frames[1]
    OBVIOUS
  <2>2. /\ up' = up /\ AtBody(down[c]) /\ down' = [down EXCEPT ![c] = BodyRead(down[c])]
        /\ ~Over(heard[c]) /\ pattern[Len(heard[c]) + 1] = "s"
        /\ IF Due(c, d) THEN Advance(c, d.h) ELSE UNCHANGED <<state, heard>>
    BY <1>13, <2>1 DEF ClientReadsBody, Waiting, Turn
  <2>3. SoundMessage(d)
    BY <1>1, <2>1, <2>2, LinkOperations
  <2>4. PICK u \in LinkRecord : u = up[c] /\ SoundLink(u)
    BY <1>1
  <2>5. PICK v \in LinkRecord : v = BodyRead(down[c]) /\ SoundLink(v)
    BY <1>1, <2>2, LinkOperations
  <2>6. HeardTypes' /\ HeardSound' /\ state' \in [Clients -> {"running", "done", "failed"}]
    <3>1. CASE ~Due(c, d)
      BY <1>7, <2>2, <3>1
    <3>2. CASE Due(c, d)
      <4>1. d.to = "c" /\ d.client = c /\ Advance(c, d.h)
        BY <2>2, <3>2 DEF Due
      <4>2. d.h \in 1 .. made /\ peer[d.h] = c
        BY <2>3, <4>1 DEF SoundMessage
      <4>3. d.h \in Clients \cup Ids
        BY <1>1, <4>2, HandshakeAssumption DEF HandshakeTypes, Ids
      <4> QED BY <1>1, <1>2, <2>2, <4>1, <4>2, <4>3, HeardAdvances
    <3> QED BY <3>1, <3>2
  <2> QED BY <1>5, <1>6, <2>2, <2>4, <2>5, <2>6
<1> QED BY <1>8, <1>9, <1>10, <1>11, <1>12, <1>13
\* An answer goes down the stream, and the goroutine goes on or is over.
LEMMA StreamAnswers ==
  ASSUME IInv, transport # "udp", transport' = transport, Grows, net' = net,
         NEW c \in Clients, NEW h \in Ids, NEW s, Transcript(s, c, h),
         h \in 1 .. made', peer'[h] = c,
         NEW u \in LinkRecord, SoundLink(u), up' = [up EXCEPT ![c] = u], StreamAnswer(c, h, s)
  PROVE  /\ StreamTypes' /\ MessagesSound' /\ serving'[c] # "first"
         /\ \A e \in Clients : e # c => serving'[e] = serving[e]
<1>1. /\ HandshakeTypes /\ MessagesSound /\ StreamTypes
      /\ down[c] \in LinkRecord /\ SoundLink(down[c])
  BY DEF IInv, StreamTypes, MessagesSound
<1>2. \A k : SoundLink(k) => SoundLink(k)'
  BY <1>1, MessageStaysSound DEF SoundLink
<1>3. PICK v \in LinkRecord : SoundLink(v)' /\ down' = [down EXCEPT ![c] = v]
  <2>1. CASE ~Turn(s, "s")
    BY <1>1, <1>2, <2>1 DEF StreamAnswer
  <2>2. CASE Turn(s, "s")
    <3>1. Len(s) + 1 \in DOMAIN pattern /\ pattern[Len(s) + 1] = "s"
      BY <1>1, <2>2, AnsweredSound DEF HandshakeTypes
    <3>2. SoundMessage(ToClient(c, Len(s) + 1, h))'
      BY <1>1, <3>1, AnswersSound DEF Grows
    <3>3. PICK d \in Message, k \in LinkRecord :
            /\ d = ToClient(c, Len(s) + 1, h) /\ k = down[c]
            /\ SoundMessage(d)' /\ SoundLink(k)'
      BY <1>1, <1>2, <3>2 DEF SoundMessage
    <3>4. Put(k, d) \in LinkRecord /\ SoundLink(Put(k, d))'
      BY <3>3, PutFields DEF SoundLink
    <3>5. down' = [down EXCEPT ![c] = Put(k, d)]
      BY <2>2, <3>3 DEF StreamAnswer
    <3> QED BY <3>4, <3>5
  <2> QED BY <2>1, <2>2
<1>4. up' \in [Clients -> LinkRecord] /\ down' \in [Clients -> LinkRecord] /\ MessagesSound'
  BY <1>1, <1>2, <1>3, StreamsChange
<1>5. /\ serving' = [serving EXCEPT ![c] = IF Over(Answered(h, s)) THEN "over" ELSE "runs"]
      /\ pending' = [pending EXCEPT ![c] = IF Over(Answered(h, s)) THEN None ELSE h]
      /\ h # None
  BY DEF StreamAnswer, Settle, Ids, None
<1>6. /\ serving' \in [Clients -> {"first", "runs", "over"}] /\ serving'[c] # "first"
      /\ \A e \in Clients : e # c => serving'[e] = serving[e]
  BY <1>1, <1>5 DEF StreamTypes
<1>7. ASSUME NEW e \in Clients, serving'[e] = "runs"
      PROVE  pending'[e] # None
  <2>1. CASE e = c
    BY <1>1, <1>5, <1>7, <2>1 DEF StreamTypes, HandshakeTypes
  <2>2. CASE e # c
    <3>1. serving[e] = "runs" /\ pending'[e] = pending[e]
      BY <1>1, <1>5, <1>6, <1>7, <2>2 DEF HandshakeTypes
    <3> QED BY <1>1, <3>1 DEF StreamTypes
  <2> QED BY <2>1, <2>2
<1> QED BY <1>4, <1>6, <1>7 DEF StreamTypes

\* A frame is read, or the goroutine ends or repeats itself: the transcripts stay.
LEMMA StreamGoesOn ==
  ASSUME IInv, transport # "udp", transport' = transport, NEW c \in Clients,
         pattern' = pattern, home' = home, heard' = heard, state' = state, net' = net,
         now' = now, table' = table, file' = file, forgotten' = forgotten,
         made' = made, peer' = peer, script' = script,
         \/ pending' = pending /\ serving' = serving
         \/ /\ pending' = [pending EXCEPT ![c] = None]
            /\ serving' = [serving EXCEPT ![c] = "over"],
         NEW u \in LinkRecord, SoundLink(u), NEW v \in LinkRecord, SoundLink(v),
         up' = [up EXCEPT ![c] = u], down' = [down EXCEPT ![c] = v]
  PROVE  IInv'
<1>1. /\ HandshakeTypes /\ MessagesSound /\ StreamTypes /\ ScriptSound /\ TableTypes
      /\ FirstsGuarded /\ AdmittedOnce /\ MaxHandshakes \in Nat
  BY HandshakeAssumption DEF IInv
<1>2. pending' \in [Clients -> 0 .. MaxHandshakes] /\ \A e \in Clients : pending'[e] \in {pending[e], None}
  BY <1>1 DEF HandshakeTypes, None
<1>3. ScriptTypes' /\ ScriptSound' /\ Grows
  BY <1>1, <1>2, DropSound
<1>4. \A k : SoundLink(k) => SoundLink(k)'
  BY <1>1, <1>3, MessageStaysSound DEF SoundLink
<1>5. up' \in [Clients -> LinkRecord] /\ down' \in [Clients -> LinkRecord] /\ MessagesSound'
  BY <1>1, <1>3, <1>4, StreamsChange
<1>6. StreamTypes'
  <2>1. CASE pending' = pending /\ serving' = serving
    BY <1>1, <1>5, <2>1 DEF StreamTypes
  <2>2. CASE /\ pending' = [pending EXCEPT ![c] = None]
             /\ serving' = [serving EXCEPT ![c] = "over"]
    <3>1. serving' \in [Clients -> {"first", "runs", "over"}]
      BY <1>1, <2>2 DEF StreamTypes
    <3>2. ASSUME NEW e \in Clients, serving'[e] = "runs"
          PROVE  pending'[e] # None
      <4>1. e # c /\ serving[e] = "runs" /\ pending'[e] = pending[e]
        BY <1>1, <2>2, <3>2 DEF StreamTypes, HandshakeTypes
      <4> QED BY <1>1, <4>1 DEF StreamTypes
    <3> QED BY <1>5, <3>1, <3>2 DEF StreamTypes
  <2> QED BY <2>1, <2>2
<1>7. FirstsGuarded' /\ AdmittedOnce'
  <2>1. \A e \in Clients : serving[e] # "first" => serving'[e] # "first"
    BY <1>1 DEF StreamTypes
  <2>2. \A e \in Clients : Guarded(e) => Guarded(e)'
    BY <2>1 DEF Guarded
  <2> QED BY <1>1, <2>2, GuardsKept
<1>8. TableTypes' /\ net' \subseteq Message /\ forgotten' \subseteq Clients
  BY <1>1 DEF TableTypes, HandshakeTypes
<1> QED BY <1>3, <1>5, <1>6, <1>7, <1>8, ServerStepSound

LEMMA ServerStreams ==
  ASSUME IInv, transport # "udp", NEW c \in Clients,
         ServerReadsHeader(c) \/ ServerReadsFirst(c) \/ ServerReadsNext(c)
         \/ ServerTimer(c) \/ ServerDeadline(c)
  PROVE  IInv'
<1>1. /\ HandshakeTypes /\ MessagesSound /\ StreamTypes /\ ScriptSound /\ TableTypes
      /\ FirstsGuarded /\ AdmittedOnce
      /\ up[c] \in LinkRecord /\ down[c] \in LinkRecord
      /\ SoundLink(up[c]) /\ SoundLink(down[c])
  BY DEF IInv, StreamTypes, MessagesSound
<1>2. /\ pattern' = pattern /\ home' = home /\ heard' = heard /\ state' = state /\ net' = net
      /\ now' = now /\ table' = table /\ file' = file /\ forgotten' = forgotten
      /\ transport' = transport
  BY DEF ServerReadsHeader, ServerReadsFirst, ServerReadsNext, ServerTimer, ServerDeadline,
         clientSide, streamFrame, tableVars
<1>3. TableTypes' /\ net' \subseteq Message /\ forgotten' \subseteq Clients
  BY <1>1, <1>2 DEF TableTypes, HandshakeTypes
<1>4. /\ up' = up => up' = [up EXCEPT ![c] = up[c]]
      /\ down' = down => down' = [down EXCEPT ![c] = down[c]]
  BY <1>1 DEF StreamTypes
<1>5. PICK u \in LinkRecord, v \in LinkRecord :
        u = up[c] /\ SoundLink(u) /\ v = down[c] /\ SoundLink(v)
  BY <1>1
<1>6. CASE ServerReadsHeader(c)
  <2>1. /\ AtHeader(u) /\ up' = [up EXCEPT ![c] = HeaderRead(u)] /\ down' = down
        /\ made' = made /\ peer' = peer /\ script' = script /\ pending' = pending
        /\ serving' = serving
    BY <1>5, <1>6 DEF ServerReadsHeader, serverSide, serverVars
  <2>2. HeaderRead(u) \in LinkRecord /\ SoundLink(HeaderRead(u))
    BY <1>5, <2>1, LinkOperations
  <2> QED BY <1>2, <1>4, <1>5, <2>1, <2>2, StreamGoesOn
<1>7. CASE ServerReadsFirst(c)
  <2>1. PICK h : h = made + 1
    OBVIOUS
  <2>2. /\ serving[c] = "first" /\ AtBody(u) /\ up' = [up EXCEPT ![c] = BodyRead(u)]
        /\ Begin(c, h) /\ StreamAnswer(c, h, Opening(c))
        /\ Settle(c, h, Answered(h, Opening(c)))
    BY <1>5, <1>7, <2>1 DEF ServerReadsFirst, StreamAnswer
  <2>3. BodyRead(u) \in LinkRecord /\ SoundLink(BodyRead(u))
    BY <1>5, <2>2, LinkOperations
  <2>4. /\ ScriptTypes' /\ ScriptSound' /\ Grows
        /\ made' = h /\ h \in 1 .. made' /\ peer'[h] = c /\ h \in Ids
        /\ Transcript(Opening(c), c, h)
    BY <1>1, <1>2, <2>1, <2>2, OpensSound
  <2>5. /\ StreamTypes' /\ MessagesSound' /\ serving'[c] # "first"
        /\ \A e \in Clients : e # c => serving'[e] = serving[e]
    BY <1>2, <2>2, <2>3, <2>4, StreamAnswers
  <2>6. FirstsGuarded' /\ AdmittedOnce'
    <3>1. ~Guarded(c) /\ Guarded(c)'
      BY <1>2, <2>2, <2>5 DEF Guarded
    <3>2. \A e \in Clients : Guarded(e) => Guarded(e)'
      BY <1>2, <2>2, <2>5 DEF Guarded
    <3>3. made' = made + 1 /\ peer'[made + 1] = c /\ \A g \in 1 .. made : peer'[g] = peer[g]
      BY <2>1, <2>4 DEF Grows
    <3> QED BY <1>1, <1>2, <3>1, <3>2, <3>3, GuardsTake
  <2> QED BY <1>2, <1>3, <2>4, <2>5, <2>6, ServerStepSound
<1>8. CASE ServerReadsNext(c)
  <2>1. PICK h, s : h = pending[c] /\ s = Append(script[h], c)
    OBVIOUS
  <2>2. /\ serving[c] = "runs" /\ AtBody(u) /\ up' = [up EXCEPT ![c] = BodyRead(u)]
        /\ made' = made /\ peer' = peer
        /\ IF u.frames[1] = ToServer(c, Len(script[h]) + 1) THEN StreamAnswer(c, h, s)
           ELSE UNCHANGED <<script, pending, session, down, serving>>
    BY <1>5, <1>8, <2>1 DEF ServerReadsNext
  <2>3. BodyRead(u) \in LinkRecord /\ SoundLink(BodyRead(u)) /\ SoundMessage(u.frames[1])
    BY <1>5, <2>2, LinkOperations
  <2>4. CASE u.frames[1] # ToServer(c, Len(script[h]) + 1)
    <3>1. script' = script /\ pending' = pending /\ down' = down /\ serving' = serving
      BY <2>2, <2>4
    <3> QED BY <1>2, <1>4, <1>5, <2>2, <2>3, <3>1, StreamGoesOn
  <2>5. CASE u.frames[1] = ToServer(c, Len(script[h]) + 1)
    <3>1. StreamAnswer(c, h, s) /\ Settle(c, h, Answered(h, s)) /\ h # None
      BY <1>1, <2>1, <2>2, <2>5 DEF StreamAnswer, StreamTypes
    <3>2. Len(script[h]) + 1 \in DOMAIN pattern /\ pattern[Len(script[h]) + 1] = "c"
      <4>1. h \in 1 .. made
        BY <1>1, <2>1, <3>1 DEF ScriptSound
      <4>2. Len(script[h]) \in Nat
        BY <1>1, <4>1 DEF ScriptSound, Transcript
      <4>3. u.frames[1].to = "s" /\ u.frames[1].step = Len(script[h]) + 1
            /\ u.frames[1].step # KnockStep
        BY <2>5, <4>2 DEF ToServer, KnockStep
      <4> QED BY <2>3, <4>3 DEF SoundMessage
    <3>3. /\ ScriptTypes' /\ ScriptSound' /\ Grows
          /\ h \in 1 .. made /\ h \in Ids /\ peer[h] = c
          /\ Transcript(s, c, h)
      BY <1>1, <1>2, <2>1, <2>2, <3>1, <3>2, GoesOnSound
    <3>4. /\ StreamTypes' /\ MessagesSound' /\ serving'[c] # "first"
          /\ \A e \in Clients : e # c => serving'[e] = serving[e]
      BY <1>2, <2>2, <2>3, <3>1, <3>3, StreamAnswers
    <3>5. FirstsGuarded' /\ AdmittedOnce'
      <4>1. \A e \in Clients : Guarded(e) => Guarded(e)'
        BY <1>2, <3>4 DEF Guarded
      <4> QED BY <1>1, <1>2, <2>2, <4>1, GuardsKept
    <3> QED BY <1>2, <1>3, <3>3, <3>4, <3>5, ServerStepSound
  <2> QED BY <2>4, <2>5
<1>9. CASE ServerTimer(c)
  <2>1. CASE transport = "http"
    <3>1. /\ up' = up /\ down' = down /\ made' = made /\ peer' = peer /\ script' = script
          /\ pending' = [pending EXCEPT ![c] = None]
          /\ serving' = [serving EXCEPT ![c] = "over"]
      BY <1>9, <2>1 DEF ServerTimer, ServerEnds
    <3> QED BY <1>2, <1>4, <1>5, <3>1, StreamGoesOn
  <2>2. CASE transport # "http"
    <3>1. PICK h, s, mine : h = pending[c] /\ s = script[h] /\ mine = {i \in DOMAIN s : s[i] = h}
      OBVIOUS
    <3>2. /\ up' = [up EXCEPT ![c] = Struck(u)]
          /\ down' = IF mine = {} THEN down
                     ELSE [down EXCEPT ![c] = Put(v, ToClient(c, Latest(mine), h))]
          /\ made' = made /\ peer' = peer /\ script' = script /\ pending' = pending
          /\ serving' = serving /\ serving[c] = "runs"
      BY <1>5, <1>9, <2>2, <3>1 DEF ServerTimer, serverSide, serverVars
    <3>3. Struck(u) \in LinkRecord /\ SoundLink(Struck(u))
      BY <1>5, LinkOperations
    <3>4. CASE mine = {}
      BY <1>2, <1>4, <1>5, <3>2, <3>3, <3>4, StreamGoesOn
    <3>5. CASE mine # {}
      <4>1. h \in 1 .. made /\ peer[h] = c /\ Transcript(s, c, h)
        BY <1>1, <3>1, <3>2 DEF ScriptSound, StreamTypes
      <4>2. Len(s) \in Nat /\ mine \in SUBSET (1 .. Len(s)) /\ DOMAIN s = 1 .. Len(s)
        BY <3>1, <4>1 DEF Transcript
      <4>3. PICK i \in DOMAIN s : i = Latest(mine) /\ s[i] = h
        <5>1. Latest(mine) \in mine
          <6>1. \A n \in Nat : \A T \in SUBSET (1 .. n) : T # {} => Latest(T) \in T
            BY LatestIn
          <6>2. \A T \in SUBSET (1 .. Len(s)) : T # {} => Latest(T) \in T
            BY <4>2, <6>1
          <6> QED BY <3>5, <4>2, <6>2, Zenon
        <5>2. Latest(mine) \in DOMAIN s /\ s[Latest(mine)] = h
          BY <3>1, <5>1
        <5> QED BY <5>2
      <4>4. h \notin Clients /\ made \in Nat
        <5>1. made \in 0 .. MaxHandshakes /\ MaxHandshakes \in Nat
          BY <1>1, HandshakeAssumption DEF HandshakeTypes
        <5>2. h \in Ids
          BY <4>1, <5>1 DEF Ids
        <5>3. Ids \cap Clients = {}
          BY HandshakeAssumption
        <5> QED BY <5>1, <5>2, <5>3
      <4>5. i \in DOMAIN pattern /\ pattern[i] = "s"
        <5>1. DOMAIN pattern = 1 .. Len(pattern) /\ Len(pattern) \in Nat
              /\ \A j \in DOMAIN pattern : pattern[j] \in {"c", "s"}
          BY <1>1, PatternFacts DEF HandshakeTypes
        <5>2. i \in DOMAIN pattern
          BY <4>1, <4>2, <5>1 DEF Transcript
        <5>3. pattern[i] # "c"
          BY <4>1, <4>3, <4>4 DEF Transcript
        <5> QED BY <5>1, <5>2, <5>3
      <4>6. PICK d : d = ToClient(c, i, h) /\ SoundMessage(d)
        <5>1. i \in Nat /\ h \in Nat /\ h \in Ids
          BY <1>1, <4>1, <4>2, HandshakeAssumption DEF HandshakeTypes, Ids
        <5>2. ToClient(c, i, h) \in Message
          BY <5>1 DEF ToClient, Message
        <5>3. /\ ToClient(c, i, h).to = "c" /\ ToClient(c, i, h).step = i
              /\ ToClient(c, i, h).client = c /\ ToClient(c, i, h).h = h
          BY DEF ToClient
        <5> QED BY <4>1, <4>5, <5>2, <5>3 DEF SoundMessage
      <4>7. Put(v, d) \in LinkRecord /\ SoundLink(Put(v, d))
        BY <1>5, <4>6, LinkOperations
      <4>8. down' = [down EXCEPT ![c] = Put(v, d)]
        BY <3>2, <3>5, <4>3, <4>6
      <4> QED BY <1>2, <1>5, <3>2, <3>3, <4>7, <4>8, StreamGoesOn
    <3> QED BY <3>4, <3>5
  <2> QED BY <2>1, <2>2
<1>10. CASE ServerDeadline(c)
  <2>1. /\ up' = up /\ down' = down /\ made' = made /\ peer' = peer /\ script' = script
        /\ pending' = [pending EXCEPT ![c] = None]
        /\ serving' = [serving EXCEPT ![c] = "over"]
    BY <1>10 DEF ServerDeadline, ServerEnds
  <2> QED BY <1>2, <1>4, <1>5, <2>1, StreamGoesOn
<1> QED BY <1>6, <1>7, <1>8, <1>9, <1>10
LEMMA InitSound == Init => IInv
<1> SUFFICES ASSUME Init PROVE IInv
  OBVIOUS
<1>1. DatagramInit /\ MaxHandshakes \in Nat
  BY HandshakeAssumption DEF Init
<1>2. TableTypes
  BY <1>1 DEF DatagramInit, TableInit, Empty, TableTypes
<1>3. HandshakeTypes
  BY <1>1 DEF DatagramInit, HandshakeTypes, None
<1>4. StreamTypes /\ \A c \in Clients : SoundLink(up[c]) /\ SoundLink(down[c])
  BY DEF Init, StreamTypes, LinkRecord, Link, SoundLink
<1>5. made = 0 /\ net = {} /\ \A c \in Clients : heard[c] = <<>> /\ pending[c] = None
  BY <1>1 DEF DatagramInit
<1>6. 1 .. made = {}
  BY <1>5
<1>7. ScriptSound
  BY <1>1, <1>5, <1>6 DEF ScriptSound, DatagramInit
<1>8. MessagesSound
  BY <1>4, <1>5 DEF MessagesSound
<1>9. HeardSound
  <2>1. Len(pattern) \in Nat
    BY <1>3, PatternFacts DEF HandshakeTypes
  <2> QED BY <1>5, <2>1 DEF HeardSound
<1>10. FirstsGuarded /\ AdmittedOnce
  BY <1>6 DEF FirstsGuarded, AdmittedOnce
<1> QED BY <1>2, <1>3, <1>4, <1>7, <1>8, <1>9, <1>10 DEF IInv

LEMMA StepSound == IInv /\ [Next]_allVars => IInv'
<1> SUFFICES ASSUME IInv, [Next]_allVars PROVE IInv'
  OBVIOUS
<1>1. CASE transport = "udp" /\ DatagramNext /\ UNCHANGED streamVars
  <2>1. ASSUME NEW c \in Clients,
               ClientSend(c) \/ ClientKnock(c) \/ ClientRetransmit(c) \/ ClientGiveUp(c)
        PROVE  IInv'
    BY <1>1, <2>1, ClientDatagrams
  <2>2. ASSUME NEW c \in Clients, ServerRetransmit(c) \/ ServerDrop(c) \/ SessionEnds(c)
        PROVE  IInv'
    BY <1>1, <2>2, OtherDatagrams
  <2>3. ASSUME NEW d \in net, ClientReceive(d.client, d)
        PROVE  IInv'
    <3>1. PICK c \in Clients : c = d.client
      BY DEF IInv, HandshakeTypes, Message
    <3> QED BY <1>1, <2>3, <3>1, ClientDatagrams
  <2>4. ASSUME NEW d \in net, ServerReceive(d)
        PROVE  IInv'
    BY <1>1, <2>4, ServerDatagrams
  <2>5. ASSUME (\E d \in net : Lose(d)) \/ Restart \/ HourPasses
        PROVE  IInv'
    BY <1>1, <2>5, OtherDatagrams
  <2> QED BY <1>1, <2>1, <2>2, <2>3, <2>4, <2>5 DEF DatagramNext
<1>2. CASE transport # "udp" /\ StreamNext
  <2>1. PICK c \in Clients :
          \/ StreamSend(c) \/ StreamKnock(c) \/ ClientTimer(c) \/ ClientDeadline(c)
          \/ ClientReadsHeader(c) \/ ClientReadsBody(c)
          \/ ServerReadsHeader(c) \/ ServerReadsFirst(c) \/ ServerReadsNext(c)
          \/ ServerTimer(c) \/ ServerDeadline(c)
    BY <1>2 DEF StreamNext
  <2>2. CASE \/ StreamSend(c) \/ StreamKnock(c) \/ ClientTimer(c) \/ ClientDeadline(c)
             \/ ClientReadsHeader(c) \/ ClientReadsBody(c)
    BY <2>2, ClientStreams
  <2>3. CASE \/ ServerReadsHeader(c) \/ ServerReadsFirst(c) \/ ServerReadsNext(c)
             \/ ServerTimer(c) \/ ServerDeadline(c)
    BY <1>2, <2>3, ServerStreams
  <2> QED BY <2>1, <2>2, <2>3
<1>3. CASE UNCHANGED allVars
  <2>1. /\ pattern' = pattern /\ home' = home /\ made' = made /\ peer' = peer /\ script' = script
        /\ pending' = pending /\ now' = now /\ table' = table /\ file' = file
        /\ forgotten' = forgotten /\ net' = net /\ transport' = transport /\ serving' = serving
        /\ heard' = heard /\ state' = state /\ up' = up /\ down' = down
    BY <1>3 DEF allVars, vars, streamVars, clientVars, serverVars, tableVars
  <2>2. HandshakeTypes /\ HeardSound /\ MessagesSound /\ StreamTypes
    BY DEF IInv
  <2>3. HeardTypes' /\ HeardSound'
    BY <2>1, <2>2, GrowsNot, HeardStays
  <2>4. net' \subseteq Message /\ MessagesSound'
    BY <2>1, <2>2, GrowsNot, NetChanges
  <2>5. /\ state' \in [Clients -> {"running", "done", "failed"}]
        /\ up' \in [Clients -> LinkRecord] /\ down' \in [Clients -> LinkRecord]
    BY <2>1, <2>2 DEF HandshakeTypes, StreamTypes
  <2> QED BY <2>1, <2>3, <2>4, <2>5, ClientStepSound
<1> QED BY <1>1, <1>2, <1>3 DEF Next

\* The inductive invariant holds in every state of every run.
THEOREM InvariantHolds == Spec => []IInv
<1>1. Init => IInv
  BY InitSound
<1>2. IInv /\ [Next]_allVars => IInv'
  BY StepSound
<1> QED BY <1>1, <1>2, PTL DEF Spec

\* A first datagram or frame starts one handshake, however often it arrives and
\* whatever becomes of that handshake, until the server has forgotten it
\* (handleDatagram of internal/tunnel/mux.go with replay.go).
THEOREM FirstsAdmittedOnce == Spec => []AdmittedOnce
<1>1. IInv => AdmittedOnce
  BY DEF IInv
<1> QED BY <1>1, InvariantHolds, PTL
------------------------------------------------------------------------------
(* The keys of two ends that finish *)

\* A client is done when it has heard the whole pattern.
DoneSound == \A c \in Clients : state[c] = "done" => Over(heard[c])

\* In a step no client hears anything, or one hears a message.
HeardKept == heard' = heard /\ \A c \in Clients : state'[c] = "done" => state[c] = "done"

HeardOne(c) == state[c] = "running" /\ \E o : Advance(c, o)

LEMMA DatagramsHeard ==
  ASSUME HandshakeTypes, DatagramNext
  PROVE  HeardKept \/ \E c \in Clients : HeardOne(c)
<1>1. ASSUME NEW c \in Clients, ClientSend(c)
      PROVE  HeardOne(c)
  BY <1>1 DEF ClientSend, HeardOne
<1>2. ASSUME NEW d \in net, ClientReceive(d.client, d)
      PROVE  d.client \in Clients /\ HeardOne(d.client)
  BY <1>2 DEF ClientReceive, Waiting, HeardOne, HandshakeTypes, Message
<1>3. ASSUME NEW c \in Clients, ClientGiveUp(c)
      PROVE  HeardKept
  <2>1. heard' = heard /\ state' = [state EXCEPT ![c] = "failed"]
    BY <1>3 DEF ClientGiveUp
  <2> QED BY <2>1 DEF HeardKept, HandshakeTypes
<1>4. ASSUME NEW c \in Clients, ClientKnock(c) \/ ClientRetransmit(c) \/ ServerRetransmit(c)
                                \/ ServerDrop(c) \/ SessionEnds(c)
      PROVE  heard' = heard /\ state' = state
  BY <1>4 DEF ClientKnock, ClientRetransmit, ServerRetransmit, ServerDrop, SessionEnds,
              serverFrame, clientVars
<1>5. ASSUME (\E d \in net : ServerReceive(d) \/ Lose(d)) \/ Restart \/ HourPasses
      PROVE  heard' = heard /\ state' = state
  BY <1>5 DEF ServerReceive, ServerFirst, ServerNext, Lose, Restart, HourPasses,
              serverFrame, clientVars
<1> QED BY <1>1, <1>2, <1>3, <1>4, <1>5 DEF DatagramNext, HeardKept

LEMMA StreamsHeard ==
  ASSUME HandshakeTypes, StreamNext
  PROVE  HeardKept \/ \E c \in Clients : HeardOne(c)
<1>1. PICK c \in Clients :
        \/ StreamSend(c) \/ StreamKnock(c) \/ ClientTimer(c) \/ ClientDeadline(c)
        \/ ClientReadsHeader(c) \/ ClientReadsBody(c)
        \/ ServerReadsHeader(c) \/ ServerReadsFirst(c) \/ ServerReadsNext(c)
        \/ ServerTimer(c) \/ ServerDeadline(c)
  BY DEF StreamNext
<1>2. CASE StreamSend(c)
  BY <1>2 DEF StreamSend, HeardOne
<1>3. CASE ClientReadsBody(c)
  BY <1>3 DEF ClientReadsBody, Waiting, HeardOne, HeardKept
<1>4. CASE ClientTimer(c) \/ ClientDeadline(c)
  <2>1. heard' = heard /\ (state' = state \/ state' = [state EXCEPT ![c] = "failed"])
    BY <1>4 DEF ClientTimer, ClientDeadline, ClientGiveUp
  <2> QED BY <2>1 DEF HeardKept, HandshakeTypes
<1>5. CASE StreamKnock(c) \/ ClientReadsHeader(c) \/ ServerReadsHeader(c) \/ ServerReadsFirst(c)
           \/ ServerReadsNext(c) \/ ServerTimer(c) \/ ServerDeadline(c)
  BY <1>5 DEF StreamKnock, ClientReadsHeader, ServerReadsHeader, ServerReadsFirst,
              ServerReadsNext, ServerTimer, ServerDeadline, clientSide, HeardKept
<1> QED BY <1>1, <1>2, <1>3, <1>4, <1>5

LEMMA DoneStays ==
  ASSUME IInv, DoneSound, [Next]_allVars
  PROVE  DoneSound'
<1>1. HandshakeTypes /\ pattern' = pattern
  <2>1. HandshakeTypes
    BY DEF IInv
  <2>2. ASSUME DatagramNext
        PROVE  pattern' = pattern
    <3>1. ASSUME NEW c \in Clients,
                 \/ ClientSend(c) \/ ClientKnock(c) \/ ClientRetransmit(c) \/ ClientGiveUp(c)
                 \/ ServerRetransmit(c) \/ ServerDrop(c) \/ SessionEnds(c)
          PROVE  pattern' = pattern
      BY <3>1 DEF ClientSend, ClientKnock, ClientRetransmit, ClientGiveUp, ServerRetransmit,
                  ServerDrop, SessionEnds, clientFrame, serverFrame, clientVars
    <3>2. ASSUME NEW d \in net, ClientReceive(d.client, d) \/ ServerReceive(d) \/ Lose(d)
          PROVE  pattern' = pattern
      BY <3>2 DEF ClientReceive, ServerReceive, ServerFirst, ServerNext, Lose,
                  clientFrame, serverFrame, clientVars
    <3>3. ASSUME Restart \/ HourPasses
          PROVE  pattern' = pattern
      BY <3>3 DEF Restart, HourPasses, clientVars
    <3> QED BY <2>2, <3>1, <3>2, <3>3 DEF DatagramNext
  <2>3. ASSUME StreamNext
        PROVE  pattern' = pattern
    BY <2>3 DEF StreamNext, StreamSend, StreamKnock, ClientTimer, ClientDeadline, ClientGiveUp,
                ClientReadsHeader, ClientReadsBody, ServerReadsHeader, ServerReadsFirst,
                ServerReadsNext, ServerTimer, ServerDeadline, streamFrame, clientFrame
  <2>4. ASSUME UNCHANGED allVars
        PROVE  pattern' = pattern
    BY <2>4 DEF allVars, vars, clientVars
  <2> QED BY <2>1, <2>2, <2>3, <2>4 DEF Next
<1>2. HeardKept \/ \E c \in Clients : HeardOne(c)
  <2>1. CASE UNCHANGED allVars
    BY <2>1 DEF allVars, vars, clientVars, HeardKept
  <2> QED BY <1>1, <2>1, DatagramsHeard, StreamsHeard DEF Next
<1>3. CASE HeardKept
  BY <1>1, <1>3 DEF HeardKept, DoneSound, Over
<1>4. ASSUME NEW c \in Clients, HeardOne(c)
      PROVE  DoneSound'
  <2>1. state[c] = "running"
        /\ state' = [state EXCEPT ![c] = IF Over(heard'[c]) THEN "done" ELSE state[c]]
    BY <1>4 DEF HeardOne, Advance
  <2>2. \A e \in Clients : e # c => heard'[e] = heard[e] /\ state'[e] = state[e]
    BY <1>1, <1>4 DEF HeardOne, Advance, HandshakeTypes
  <2>3. state'[c] = "done" => Over(heard'[c])
    BY <1>1, <2>1 DEF HandshakeTypes
  <2>4. ASSUME NEW e \in Clients, state'[e] = "done"
        PROVE  Len(heard'[e]) = Len(pattern)
    BY <2>2, <2>3, <2>4 DEF DoneSound, Over
  <2> QED BY <1>1, <2>4 DEF DoneSound, Over
<1> QED BY <1>2, <1>3, <1>4

\* The messages that carry the keys are one of each side.
LEMMA KeySteps ==
  ASSUME pattern \in Patterns, NEW side \in {"c", "s"}
  PROVE  KeyStep(side) \in DOMAIN pattern /\ pattern[KeyStep(side)] = side
<1> DEFINE T == {i \in DOMAIN pattern : pattern[i] = side}
<1>1. Len(pattern) \in Nat /\ DOMAIN pattern = 1 .. Len(pattern) /\ T # {}
  BY PatternFacts
<1>2. T \in SUBSET (1 .. Len(pattern)) /\ T \subseteq Nat
  BY <1>1
<1>3. (\E i \in T : \A j \in T : j <= i) /\ (\E i \in T : \A j \in T : i <= j)
  <2> HIDE DEF T
  <2> QED BY <1>1, <1>2, GreatestOf, LeastOf
<1>4. \E i \in DOMAIN pattern :
        /\ pattern[i] = side
        /\ \A j \in DOMAIN pattern :
             pattern[j] = side => IF side = "c" THEN j <= i ELSE i <= j
  BY <1>3
<1> QED BY <1>4 DEF KeyStep

LEMMA Agreement == IInv /\ DoneSound => KeysAgree
<1> SUFFICES ASSUME IInv, DoneSound, NEW c \in Clients, NEW h \in Ids,
                    state[c] = "done", peer[h] = c, Over(script[h]), c \notin forgotten
             PROVE  LET client == Ends("c", SessionKeys("c", c, heard[c]))
                        server == Ends("s", SessionKeys("s", h, script[h]))
                    IN client.send = server.recv /\ client.recv = server.send
  BY DEF KeysAgree
<1>1. HandshakeTypes /\ ScriptSound /\ HeardSound /\ AdmittedOnce
  BY DEF IInv
<1>2. h \in 1 .. made
  <2>1. h \in Nat /\ h > 0 /\ made \in Nat
    BY <1>1, HandshakeAssumption DEF HandshakeTypes, Ids
  <2>2. None \notin Clients
    BY HandshakeAssumption
  <2> QED BY <1>1, <2>1, <2>2 DEF ScriptSound
<1>3. /\ heard[c] \in Seq(Clients \cup Ids) /\ Len(heard[c]) = Len(pattern)
      /\ script[h] \in Seq(Clients \cup Ids) /\ Len(script[h]) = Len(pattern)
  BY <1>1 DEF HandshakeTypes, DoneSound, Over
<1>4. DOMAIN heard[c] = DOMAIN pattern /\ DOMAIN script[h] = DOMAIN pattern
  BY <1>1, <1>3, PatternFacts DEF HandshakeTypes
<1>5. \A i \in DOMAIN pattern : script[h][i] = IF pattern[i] = "c" THEN c ELSE h
  BY <1>1, <1>2, <1>4 DEF ScriptSound, Transcript
<1>6. \A i \in DOMAIN pattern : heard[c][i] = IF pattern[i] = "c" THEN c ELSE h
  <2>1. ASSUME NEW i \in DOMAIN pattern, pattern[i] # "c"
        PROVE  heard[c][i] = h
    <3>1. PICK g \in 1 .. made : g = heard[c][i] /\ peer[g] = c
      BY <1>1, <1>4, <2>1 DEF HeardSound
    <3> QED BY <1>1, <1>2, <3>1 DEF AdmittedOnce
  <2> QED BY <1>1, <1>4, <2>1 DEF HeardSound
<1>7. heard[c] = script[h]
  BY <1>3, <1>4, <1>5, <1>6
<1> DEFINE t == script[h]
<1>8. t[KeyStep("c")] = c /\ t[KeyStep("s")] = h
  BY <1>1, <1>5, KeySteps DEF HandshakeTypes
<1>9. Remote("c", t) = h /\ Remote("s", t) = c
  BY <1>8 DEF Remote, OtherSide
<1>10. SessionKeys("c", c, t) = SessionKeys("s", h, t)
  <2>1. {c, Remote("c", t)} = {h, Remote("s", t)}
    BY <1>9
  <2> QED BY <2>1 DEF SessionKeys
<1> QED BY <1>7, <1>10 DEF Ends

\* When a client and a handshake the server started for its address both come to
\* their end, each side's key to send is the other's key to receive, unless the
\* server has forgotten the client's first datagram (sessionKeys of
\* internal/compiler/handshake.go with the admission of internal/tunnel/mux.go).
THEOREM KeysOfBothEndsAgree == Spec => []KeysAgree
<1>1. Init => DoneSound
  <2>1. Init => \A c \in Clients : state[c] = "running"
    BY DEF Init, DatagramInit
  <2> QED BY <2>1 DEF DoneSound
<1>2. IInv /\ DoneSound /\ [Next]_allVars => DoneSound'
  BY DoneStays
<1>3. IInv /\ DoneSound => KeysAgree
  BY Agreement
<1> QED BY <1>1, <1>2, <1>3, InvariantHolds, PTL DEF Spec
------------------------------------------------------------------------------
(* Restarts *)

OneHome == \A c, d \in Clients : home[c] = home[d]

\* With one port and a disk that works the file has what the table has.
FileSound ==
  disk /\ OneHome =>
    \A c \in Clients : Fresh(table[home[c]], c) => file[c] = table[home[c]][c]

\* What the table, the file and the record of restarts are made from.
TableKept == UNCHANGED <<home, tableVars, restarts>>

LEMMA TableSteps ==
  ASSUME HandshakeTypes, [Next]_allVars
  PROVE  \/ TableKept
         \/ \E d \in net : d.client \in Clients /\ ServerFirst(d.client, d)
         \/ Restart
         \/ HourPasses
<1>1. CASE DatagramNext
  <2>1. ASSUME NEW c \in Clients,
               \/ ClientSend(c) \/ ClientKnock(c) \/ ClientRetransmit(c) \/ ClientGiveUp(c)
               \/ ServerRetransmit(c) \/ ServerDrop(c) \/ SessionEnds(c)
        PROVE  TableKept
    BY <2>1 DEF ClientSend, ClientKnock, ClientRetransmit, ClientGiveUp, ServerRetransmit,
                ServerDrop, SessionEnds, clientFrame, serverFrame, clientVars, tableVars,
                TableKept
  <2>2. ASSUME NEW d \in net, ClientReceive(d.client, d) \/ ServerNext(d.client, d) \/ Lose(d)
        PROVE  TableKept
    BY <2>2 DEF ClientReceive, ServerNext, Lose, clientFrame, serverFrame, clientVars,
                tableVars, TableKept
  <2>3. ASSUME NEW d \in net
        PROVE  d.client \in Clients
    BY DEF HandshakeTypes, Message
  <2> QED BY <1>1, <2>1, <2>2, <2>3 DEF DatagramNext, ServerReceive
<1>2. CASE StreamNext
  BY <1>2 DEF StreamNext, StreamSend, StreamKnock, ClientTimer, ClientDeadline, ClientGiveUp,
              ClientReadsHeader, ClientReadsBody, ServerReadsHeader, ServerReadsFirst,
              ServerReadsNext, ServerTimer, ServerDeadline, streamFrame, clientFrame,
              TableKept
<1>3. CASE UNCHANGED allVars
  BY <1>3 DEF allVars, vars, clientVars, tableVars, TableKept
<1> QED BY <1>1, <1>2, <1>3 DEF Next

LEMMA FileStays ==
  ASSUME IInv, FileSound, [Next]_allVars
  PROVE  FileSound'
<1>1. TableTypes /\ HandshakeTypes
  BY DEF IInv
<1>2. CASE TableKept
  BY <1>2 DEF TableKept, tableVars, FileSound, OneHome, Fresh
<1>3. ASSUME NEW d \in net, NEW c \in Clients, c = d.client, ServerFirst(c, d)
      PROVE  FileSound'
  <2>1. /\ home' = home /\ now' = now /\ disk' = disk
        /\ Remember(home[c], c) /\ NotSeen(c)
    BY <1>3 DEF ServerFirst, serverFrame, clientVars
  <2>2. SUFFICES ASSUME disk, OneHome, NEW e \in Clients, Fresh(table'[home[e]], e)
                 PROVE  file'[e] = table'[home[e]][e]
    BY <2>1 DEF FileSound, OneHome, Fresh
  <2> DEFINE m == home[c]
             r == Recorded(table[m], c)
  <2>3. m \in Muxes /\ home[e] = m /\ table[m] \in [Keys -> Nat] /\ now \in Nat
    BY <1>1, <2>2 DEF TableTypes, HandshakeTypes, OneHome
  <2>4. table'[m] = r
    BY <1>1, <2>1, <2>3 DEF Remember, TableTypes
  <2>5. CASE Fresh(r, c)
    BY <2>1, <2>2, <2>3, <2>4, <2>5 DEF Remember
  <2>6. CASE ~Fresh(r, c)
    <3>1. file' = file
      BY <2>1, <2>4, <2>6 DEF Remember
    <3>2. e # c /\ Fresh(r, e)
      BY <2>2, <2>3, <2>4, <2>6
    <3>3. r[e] = table[m][e]
      BY <2>3, <3>2, RecordedKeeps DEF Clients
    <3>4. file[e] = table[m][e]
      BY <2>2, <2>3, <3>2, <3>3 DEF FileSound, Fresh
    <3> QED BY <2>3, <2>4, <3>1, <3>3, <3>4
  <2> QED BY <2>5, <2>6
<1>4. CASE Restart
  <2>1. /\ home' = home /\ now' = now /\ file' = file
        /\ table' = [m \in Muxes |-> Swept(file)]
    BY <1>4 DEF Restart, Load, clientVars
  <2>2. ASSUME NEW c \in Clients, Fresh(table'[home[c]], c)
        PROVE  file[c] = table'[home[c]][c]
    <3>1. home[c] \in Muxes /\ c \in Keys /\ now \in Nat /\ file \in [Keys -> Nat]
      BY <1>1 DEF TableTypes, HandshakeTypes, Clients
    <3> QED BY <2>1, <2>2, <3>1 DEF Swept, Fresh
  <2> QED BY <2>1, <2>2 DEF FileSound, Fresh
<1>5. CASE HourPasses
  <2>1. /\ home' = home /\ disk' = disk /\ table' = table /\ file' = file /\ now' = now + 1
    BY <1>5 DEF HourPasses, clientVars
  <2>2. ASSUME NEW c \in Clients, now' < table[home[c]][c]
        PROVE  now < table[home[c]][c]
    <3>1. now \in Nat /\ table[home[c]][c] \in Nat
      BY <1>1 DEF TableTypes, HandshakeTypes, Clients
    <3> QED BY <2>1, <2>2, <3>1
  <2> QED BY <2>1, <2>2 DEF FileSound, OneHome, Fresh
<1> QED BY <1>1, <1>2, <1>3, <1>4, <1>5, TableSteps

\* A restart forgets no first datagram that has not expired, if the server has
\* one port and its replay file can be written (loadReplayCache and persistLocked
\* of internal/tunnel/replay.go).
THEOREM RestartsRemember == Spec => RestartRemembers
<1>1. Init => FileSound
  <2>1. Init => \A c \in Clients : home[c] \in Muxes /\ table[home[c]][c] = 0 /\ file[c] = 0
    BY DEF Init, DatagramInit, TableInit, Empty, Clients
  <2> QED BY <2>1 DEF FileSound
<1>2. IInv /\ FileSound /\ [Next]_allVars => FileSound'
  BY FileStays
<1>3. ASSUME IInv, FileSound, [Next]_allVars, restarts' # restarts, disk, OneHome
      PROVE  forgotten' = forgotten
  <2>1. TableTypes /\ HandshakeTypes
    BY <1>3 DEF IInv
  <2>2. Restart
    <3>1. ASSUME NEW d, ServerFirst(d.client, d)
          PROVE  restarts' = restarts
      BY <3>1 DEF ServerFirst, serverFrame
    <3>2. ASSUME HourPasses \/ TableKept
          PROVE  restarts' = restarts
      BY <3>2 DEF HourPasses, TableKept
    <3> QED BY <1>3, <2>1, <3>1, <3>2, TableSteps
  <2>3. ASSUME NEW c \in Clients, Fresh(table[home[c]], c)
        PROVE  Fresh(table'[home[c]], c)
    <3>1. table' = [m \in Muxes |-> Swept(file)]
      BY <2>2 DEF Restart, Load
    <3>2. home[c] \in Muxes /\ c \in Keys
      BY <2>1 DEF HandshakeTypes, Clients
    <3>3. file[c] = table[home[c]][c]
      BY <1>3, <2>3 DEF FileSound
    <3> QED BY <2>3, <3>1, <3>2, <3>3 DEF Swept, Fresh
  <2>4. forgotten' = forgotten \cup
          {c \in Clients : Fresh(table[home[c]], c) /\ ~Fresh(table'[home[c]], c)}
    BY <2>2 DEF Restart
  <2> QED BY <2>3, <2>4
<1>4. IInv /\ FileSound /\ [Next]_allVars =>
        [restarts' # restarts /\ disk /\ (\A c, d \in Clients : home[c] = home[d])
           => forgotten' = forgotten]_allVars
  BY <1>3 DEF OneHome
<1> QED BY <1>1, <1>2, <1>4, InvariantHolds, PTL DEF Spec, RestartRemembers
------------------------------------------------------------------------------
(* Who is stranded *)

\* Nothing happens to a client.
Untouched(c) ==
  /\ heard'[c] = heard[c] /\ state'[c] = state[c]
  /\ c \in knocked => c \in knocked'

LEMMA WaitsOn ==
  ASSUME NEW c \in Clients, Waiting(c), Untouched(c), pattern' = pattern
  PROVE  /\ Waiting(c)'
         /\ LastSentStep(c)' = LastSentStep(c)
         /\ FirstStep' = FirstStep
  BY DEF Waiting, Untouched, Turn, Over, LastSentStep, FirstStep, ClientFirst

\* A client that hears something does not touch the others, and it is not one
\* that waits unless a message is due.
LEMMA OthersUntouched ==
  ASSUME HandshakeTypes, NEW c \in Clients, NEW e \in Clients, e # c,
         \/ \E o : Advance(e, o)
         \/ heard' = heard /\ state' = [state EXCEPT ![e] = "failed"],
         knocked' = knocked
  PROVE  Untouched(c)
  BY DEF HandshakeTypes, Advance, Untouched

LEMMA AdriftStays ==
  ASSUME HandshakeTypes, StreamTypes, NEW c \in Clients, Adrift(c), StreamNext
  PROVE  Adrift(c)' \/ state'[c] = "failed"
<1>1. /\ Waiting(c) /\ down[c] \in LinkRecord /\ down[c].at = "lost" /\ transport # "udp"
      /\ down \in [Clients -> LinkRecord]
  BY DEF Adrift, StreamTypes
<1>2. PICK e \in Clients :
        \/ StreamSend(e) \/ StreamKnock(e) \/ ClientTimer(e) \/ ClientDeadline(e)
        \/ ClientReadsHeader(e) \/ ClientReadsBody(e)
        \/ ServerReadsHeader(e) \/ ServerReadsFirst(e) \/ ServerReadsNext(e)
        \/ ServerTimer(e) \/ ServerDeadline(e)
  BY DEF StreamNext
<1>3. pattern' = pattern /\ transport' = transport
  BY <1>2 DEF StreamSend, StreamKnock, ClientTimer, ClientDeadline, ClientGiveUp,
              ClientReadsHeader, ClientReadsBody, ServerReadsHeader, ServerReadsFirst,
              ServerReadsNext, ServerTimer, ServerDeadline, streamFrame, clientFrame,
              streamVars
<1>4. ASSUME Untouched(c), down'[c].at = "lost"
      PROVE  Adrift(c)'
  BY <1>1, <1>3, <1>4, WaitsOn DEF Adrift
<1>5. CASE StreamSend(e)
  <2>1. e # c
    BY <1>1, <1>5 DEF StreamSend, Waiting, Turn
  <2>2. Advance(e, e) /\ knocked' = knocked /\ down' = down
    BY <1>5 DEF StreamSend
  <2> QED BY <1>1, <1>4, <2>1, <2>2, OthersUntouched
<1>6. CASE StreamKnock(e)
  BY <1>1, <1>4, <1>6 DEF StreamKnock, Untouched
<1>7. CASE ClientTimer(e) \/ ClientDeadline(e)
  <2>1. knocked' = knocked /\ heard' = heard
    BY <1>7 DEF ClientTimer, ClientDeadline, ClientGiveUp
  <2>2. CASE state' = [state EXCEPT ![e] = "failed"] /\ down' = down
    <3>1. e = c => state'[c] = "failed"
      BY <2>2 DEF HandshakeTypes
    <3> QED BY <1>1, <1>4, <2>1, <2>2, <3>1, OthersUntouched
  <2>3. CASE state' = state /\ down' = [down EXCEPT ![e] = Struck(down[e])]
    <3>1. down'[c].at = "lost"
      BY <1>1, <2>3 DEF Struck
    <3> QED BY <1>4, <2>1, <2>3, <3>1 DEF Untouched
  <2> QED BY <1>7, <2>2, <2>3 DEF ClientTimer, ClientDeadline, ClientGiveUp, streamVars
<1>8. CASE ClientReadsHeader(e) \/ ClientReadsBody(e)
  <2>1. e # c
    BY <1>1, <1>8 DEF ClientReadsHeader, ClientReadsBody, AtHeader, AtBody
  <2>2. knocked' = knocked /\ down'[c] = down[c]
    BY <1>1, <1>8, <2>1 DEF ClientReadsHeader, ClientReadsBody
  <2>3. (\E o : Advance(e, o)) \/ (heard' = heard /\ state' = state)
    BY <1>8 DEF ClientReadsHeader, ClientReadsBody
  <2> QED BY <1>1, <1>4, <2>1, <2>2, <2>3, OthersUntouched DEF Untouched
<1>9. CASE ServerReadsHeader(e) \/ ServerReadsFirst(e) \/ ServerReadsNext(e)
           \/ ServerTimer(e) \/ ServerDeadline(e)
  <2>1. knocked' = knocked /\ heard' = heard /\ state' = state
    BY <1>9 DEF ServerReadsHeader, ServerReadsFirst, ServerReadsNext, ServerTimer,
                ServerDeadline, clientSide
  <2>2. down' = down \/ \E d : down' = [down EXCEPT ![e] = Put(down[e], d)]
    <3>1. CASE ServerReadsHeader(e) \/ ServerDeadline(e)
      BY <3>1 DEF ServerReadsHeader, ServerDeadline
    <3>2. ASSUME NEW h, NEW s, StreamAnswer(e, h, s)
          PROVE  down' = down \/ \E d : down' = [down EXCEPT ![e] = Put(down[e], d)]
      BY <1>1, <3>2 DEF StreamAnswer
    <3>3. CASE ServerReadsFirst(e) \/ ServerReadsNext(e)
      BY <3>2, <3>3 DEF ServerReadsFirst, ServerReadsNext
    <3>4. CASE ServerTimer(e)
      BY <3>4 DEF ServerTimer
    <3> QED BY <1>9, <3>1, <3>3, <3>4
  <2>3. down'[c].at = "lost"
    <3>1. ASSUME NEW d
          PROVE  Put(down[c], d).at = "lost"
      BY <1>1 DEF Put, LinkRecord
    <3> QED BY <1>1, <2>2, <3>1
  <2> QED BY <1>4, <2>1, <2>3 DEF Untouched
<1> QED BY <1>2, <1>5, <1>6, <1>7, <1>8, <1>9
\* A stranded client stays so: no answer comes to be under way, no first datagram
\* that the server would take.
LEMMA StrandedAgain ==
  ASSUME HandshakeTypes, NEW c \in Clients, Stranded(c), Untouched(c),
         pattern' = pattern, home' = home, pending'[c] = None,
         \A d \in net' :
           \/ d \in net
           \/ d.client # c
           \/ d = ToServer(c, LastSentStep(c)),
         Fresh(table[home[c]], c) => Fresh(table[home[c]], c)'
  PROVE  Stranded(c)'
<1>1. Waiting(c)' /\ LastSentStep(c)' = LastSentStep(c) /\ FirstStep' = FirstStep
  BY WaitsOn DEF Stranded
<1>2. \A d \in net' : d.to = "c" => d.client # c
  BY DEF Stranded, ToServer
<1>3. ASSUME LastSentStep(c) # FirstStep, ToServer(c, FirstStep) \notin net
      PROVE  ToServer(c, FirstStep) \notin net'
  <2>1. ToServer(c, FirstStep).client = c /\ ToServer(c, FirstStep).step = FirstStep
        /\ ToServer(c, LastSentStep(c)).step = LastSentStep(c)
    BY DEF ToServer
  <2> QED BY <1>3, <2>1
<1>4. \/ Fresh(table[home[c]], c)'
      \/ LastSentStep(c)' # FirstStep' /\ ToServer(c, FirstStep') \notin net'
  BY <1>1, <1>3 DEF Stranded
<1> QED BY <1>1, <1>2, <1>4 DEF Stranded

LEMMA StrandedStays ==
  ASSUME IInv, NEW c \in Clients, Stranded(c), DatagramNext
  PROVE  Stranded(c)' \/ state'[c] = "failed" \/ c \in forgotten'
<1>1. /\ HandshakeTypes /\ TableTypes /\ home[c] \in Muxes /\ Waiting(c) /\ pending[c] = None
      /\ pending \in [Clients -> 0 .. MaxHandshakes]
  BY DEF IInv, HandshakeTypes, Stranded
<1>2. ASSUME NEW e \in Clients, ClientSend(e) \/ ClientKnock(e)
      PROVE  Stranded(c)'
  <2>1. e # c
    BY <1>1, <1>2 DEF ClientSend, ClientKnock, Waiting, Turn
  <2>2. /\ pattern' = pattern /\ home' = home /\ pending' = pending
        /\ table' = table /\ now' = now
        /\ \E i : net' = net \cup {ToServer(e, i)}
    BY <1>2 DEF ClientSend, ClientKnock, clientFrame, serverVars, tableVars
  <2>3. Untouched(c)
    <3>1. CASE ClientSend(e)
      BY <1>1, <2>1, <3>1, OthersUntouched DEF ClientSend
    <3>2. CASE ClientKnock(e)
      BY <3>2 DEF ClientKnock, Untouched
    <3> QED BY <1>2, <3>1, <3>2
  <2>4. \A i : ToServer(e, i).client # c
    BY <2>1 DEF ToServer
  <2> QED BY <1>1, <2>2, <2>3, <2>4, StrandedAgain DEF Fresh
<1>3. ASSUME NEW e \in Clients, ClientRetransmit(e)
      PROVE  Stranded(c)'
  <2>1. /\ pattern' = pattern /\ home' = home /\ pending' = pending /\ Untouched(c)
        /\ table' = table /\ now' = now
        /\ net' = net \cup {ToServer(e, LastSentStep(e))}
    BY <1>3 DEF ClientRetransmit, clientFrame, serverVars, tableVars, Untouched
  <2>2. ToServer(e, LastSentStep(e)).client = e
    BY DEF ToServer
  <2> QED BY <1>1, <2>1, <2>2, StrandedAgain DEF Fresh
<1>4. ASSUME NEW d \in net, ClientReceive(d.client, d)
      PROVE  Stranded(c)'
  <2>1. d.client # c /\ d.client \in Clients
    BY <1>1, <1>4 DEF ClientReceive, Due, Stranded, HandshakeTypes, Message
  <2>2. /\ pattern' = pattern /\ home' = home /\ pending' = pending /\ net' = net
        /\ table' = table /\ now' = now /\ knocked' = knocked
        /\ \E o : Advance(d.client, o)
    BY <1>4 DEF ClientReceive, clientFrame, serverVars, tableVars
  <2>3. Untouched(c)
    BY <1>1, <2>1, <2>2, OthersUntouched
  <2> QED BY <1>1, <2>2, <2>3, StrandedAgain DEF Fresh
<1>5. ASSUME NEW e \in Clients, ClientGiveUp(e)
      PROVE  Stranded(c)' \/ state'[c] = "failed"
  <2>1. /\ pattern' = pattern /\ home' = home /\ pending' = pending /\ net' = net
        /\ table' = table /\ now' = now /\ knocked' = knocked /\ heard' = heard
        /\ state' = [state EXCEPT ![e] = "failed"]
    BY <1>5 DEF ClientGiveUp, clientFrame, serverVars, tableVars
  <2>2. CASE e = c
    BY <1>1, <2>1, <2>2 DEF HandshakeTypes
  <2>3. CASE e # c
    <3>1. Untouched(c)
      BY <1>1, <2>1, <2>3, OthersUntouched
    <3> QED BY <1>1, <2>1, <3>1, StrandedAgain DEF Fresh
  <2> QED BY <2>2, <2>3
<1>6. ASSUME NEW e \in Clients, ServerRetransmit(e) \/ ServerDrop(e) \/ SessionEnds(e)
      PROVE  Stranded(c)'
  <2>1. /\ pattern' = pattern /\ home' = home /\ Untouched(c) /\ table' = table /\ now' = now
    BY <1>6 DEF ServerRetransmit, ServerDrop, SessionEnds, serverVars, serverFrame,
                clientVars, Untouched
  <2>2. pending'[c] = None
    BY <1>1, <1>6 DEF ServerRetransmit, ServerDrop, SessionEnds, serverVars
  <2>3. \A d \in net' : d \in net \/ d.client # c
    <3>1. CASE ServerRetransmit(e)
      <4>1. e # c /\ \E i, h : net' = net \cup {ToClient(e, i, h)}
        BY <1>1, <3>1 DEF ServerRetransmit
      <4>2. \A i, h : ToClient(e, i, h).client = e
        BY DEF ToClient
      <4> QED BY <4>1, <4>2
    <3>2. CASE ServerDrop(e) \/ SessionEnds(e)
      BY <3>2 DEF ServerDrop, SessionEnds
    <3> QED BY <1>6, <3>1, <3>2
  <2> QED BY <1>1, <2>1, <2>2, <2>3, StrandedAgain DEF Fresh
<1>7. ASSUME NEW d \in net, ServerReceive(d)
      PROVE  Stranded(c)'
  <2>1. PICK e \in Clients : e = d.client
    BY <1>1 DEF HandshakeTypes, Message
  <2>2. e # c
    <3>1. ASSUME ServerFirst(c, d)
          PROVE  FALSE
      BY <3>1 DEF ServerFirst, Stranded, NotSeen
    <3>2. ASSUME ServerNext(c, d)
          PROVE  FALSE
      BY <1>1, <3>2 DEF ServerNext
    <3> QED BY <1>7, <2>1, <3>1, <3>2 DEF ServerReceive
  <2>3. /\ pattern' = pattern /\ home' = home /\ Untouched(c) /\ now' = now
        /\ \E h, s : Answer(e, h, s)
        /\ \/ table' = table
           \/ Remember(home[e], e)
    BY <1>7, <2>1 DEF ServerReceive, ServerFirst, ServerNext, serverFrame, clientVars, Untouched
  <2>4. pending'[c] = None
    BY <1>1, <2>2, <2>3 DEF Answer, Settle
  <2>5. \A m \in net' : m \in net \/ m.client # c
    <3>1. \A i, h : ToClient(e, i, h).client = e
      BY DEF ToClient
    <3> QED BY <2>2, <2>3, <3>1 DEF Answer
  <2>6. Fresh(table[home[c]], c) => Fresh(table[home[c]], c)'
    <3>1. CASE table' = table
      BY <2>3, <3>1 DEF Fresh
    <3>2. CASE Remember(home[e], e)
      <4> DEFINE m == home[e]
      <4>1. /\ m \in Muxes /\ table[m] \in [Keys -> Nat] /\ now \in Nat /\ e \in Keys /\ c \in Keys
            /\ table' = [table EXCEPT ![m] = Recorded(table[m], e)]
            /\ table \in [Muxes -> [Keys -> Nat]]
        BY <1>1, <3>2 DEF Remember, TableTypes, HandshakeTypes, Clients
      <4>2. Fresh(table[m], c) => Fresh(Recorded(table[m], e), c)
        BY <4>1, RecordedKeeps
      <4> HIDE DEF m
      <4>3. CASE home[c] = m
        BY <2>3, <4>1, <4>2, <4>3 DEF Fresh
      <4>4. CASE home[c] # m
        BY <1>1, <2>3, <4>1, <4>4 DEF Fresh
      <4> QED BY <4>3, <4>4
    <3> QED BY <2>3, <3>1, <3>2
  <2> QED BY <1>1, <2>3, <2>4, <2>5, <2>6, StrandedAgain
<1>8. ASSUME NEW d \in net, Lose(d)
      PROVE  Stranded(c)'
  <2>1. /\ pattern' = pattern /\ home' = home /\ Untouched(c) /\ pending' = pending
        /\ table' = table /\ now' = now /\ net' \subseteq net
    BY <1>8 DEF Lose, clientVars, serverVars, tableVars, Untouched
  <2> QED BY <1>1, <2>1, StrandedAgain DEF Fresh
<1>9. ASSUME Restart
      PROVE  Stranded(c)' \/ c \in forgotten'
  <2>1. /\ pattern' = pattern /\ home' = home /\ Untouched(c) /\ now' = now /\ net' = net
        /\ pending'[c] = None
    BY <1>9 DEF Restart, Load, clientVars, Untouched
  <2>2. CASE Fresh(table[home[c]], c) /\ ~Fresh(table'[home[c]], c)
    BY <1>9, <2>2 DEF Restart
  <2>3. CASE Fresh(table[home[c]], c) => Fresh(table'[home[c]], c)
    <3>1. Fresh(table[home[c]], c) => Fresh(table[home[c]], c)'
      BY <2>1, <2>3 DEF Fresh
    <3> QED BY <1>1, <2>1, <3>1, StrandedAgain
  <2> QED BY <2>2, <2>3
<1>10. ~HourPasses
  BY <1>1 DEF HourPasses
<1> QED BY <1>2, <1>3, <1>4, <1>5, <1>6, <1>7, <1>8, <1>9, <1>10 DEF DatagramNext

\* An attempt whose client waits at a stream whose place it has lost, or for an
\* answer the server will not repeat, ends in failure, or its first datagram is
\* forgotten by a restart (runHandshake of internal/tunnel/tunnel.go with
\* handleDatagram of mux.go and the framing of stream.go).
THEOREM WhoIsStrandedFails == Spec => StrandedFails
<1>1. ASSUME IInv, [Next]_allVars, allVars' # allVars, NEW c \in Clients
      PROVE  /\ Adrift(c) => Adrift(c)' \/ state'[c] = "failed"
             /\ transport = "udp" /\ Stranded(c) =>
                  Stranded(c)' \/ state'[c] = "failed" \/ c \in forgotten'
  <2>1. Next /\ HandshakeTypes /\ StreamTypes
    BY <1>1 DEF IInv
  <2>2. CASE transport = "udp" /\ DatagramNext
    BY <1>1, <2>2, StrandedStays DEF Adrift
  <2>3. CASE transport # "udp" /\ StreamNext
    BY <2>1, <2>3, AdriftStays
  <2> QED BY <2>1, <2>2, <2>3 DEF Next
<1>2. IInv /\ [Next]_allVars =>
        [\A c \in Clients :
           /\ Adrift(c) => Adrift(c)' \/ state'[c] = "failed"
           /\ transport = "udp" /\ Stranded(c) =>
                Stranded(c)' \/ state'[c] = "failed" \/ c \in forgotten']_allVars
  BY <1>1
<1> QED BY <1>2, InvariantHolds, PTL DEF Spec, StrandedFails
===============================================================================
