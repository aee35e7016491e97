------------------------------ MODULE StreamProofs ------------------------------
(***************************************************************************)
(* What holds of the streams a handshake runs on, for any patterns, clients *)
(* and lengths of queues: nothing the server waits for is overtaken or      *)
(* skipped, no stream holds more than one frame over its bound, and every   *)
(* variable of StreamHandshake keeps its type.  Then, for any sizes, masks,  *)
(* policies and ladders, how long what is sent is and how it begins          *)
(* (TrafficShaped): a cover keeps its shape under the mark, the padding goes *)
(* round the band, and a record fits its length field.  At last, for any     *)
(* layouts, what the codec writes it reads back (RoundTrip), and for any      *)
(* words and blocks both ends draw the same layouts, fairly (Draws).         *)
(***************************************************************************)
EXTENDS HandshakeProofs, MCHandshake, FiniteSetTheorems, SequenceTheorems

------------------------------------------------------------------------------
(* The invariant *)

\* A table within its bound.
Small(t) == IsFiniteSet({k \in Keys : t[k] > 0}) /\ Size(t) <= CacheMax

TableBounds ==
  /\ now \in 0 .. MaxTime /\ disk \in BOOLEAN
  /\ table \in [Muxes -> [Keys -> 0 .. (MaxTime + TTL)]]
  /\ file \in [Keys -> 0 .. (MaxTime + TTL)]
  /\ \A m \in Muxes : \A k \in Keys : table[m][k] <= now + TTL
  /\ \A k \in Keys : file[k] <= now + TTL
  /\ (\A m \in Muxes : Small(table[m])) /\ Small(file)

\* No stream is used over datagrams.
CountTypes ==
  /\ knocked \subseteq Clients
  /\ session \in [Clients -> 0 .. made] /\ pending \in [Clients -> 0 .. made]
  /\ restarts \in 0 .. MaxRestarts
  /\ transport \in Transports
  /\ transport = "udp" => \A c \in Clients : /\ up[c].frames = <<>> /\ down[c].frames = <<>>
                                             /\ serving[c] = "first"

\* How much of the pattern the server has behind it.
Cursor(c) == IF serving[c] = "first" THEN 0 ELSE Len(script[pending[c]])

\* A client's messages are on its stream in the order of their steps, the first
\* time each of them comes ...
Ordered(F, c, n) ==
  \A i \in DOMAIN F : \A k \in DOMAIN pattern :
    pattern[k] = "c" /\ n < k /\ k < F[i].step
      => \E j \in DOMAIN F : j < i /\ F[j] = ToServer(c, k)

\* ... and none is missing that it has sent and the server has not taken.
Covered(F, c, n, upTo) ==
  \A k \in DOMAIN pattern :
    pattern[k] = "c" /\ n < k /\ k <= upTo => \E j \in DOMAIN F : F[j] = ToServer(c, k)

\* The server can still find what it waits for.
Follows(c) ==
  \/ serving[c] = "first"
  \/ serving[c] = "runs" /\ up[c].at # "lost" /\ pattern[Cursor(c) + 1] = "c"

UpSound(c) ==
  /\ \A i \in DOMAIN up[c].frames :
       /\ up[c].frames[i] = ToServer(c, up[c].frames[i].step)
       /\ up[c].frames[i].step <= Len(heard[c])
  /\ heard[c] = <<>> /\ c \notin knocked => up[c].frames = <<>>
  /\ Len(up[c].frames) <= MaxQueue + 1
  /\ Follows(c) => /\ Ordered(up[c].frames, c, Cursor(c))
                   /\ Covered(up[c].frames, c, Cursor(c), Len(heard[c]))

\* The client is not ahead of the server, and the stream to it is only over its
\* bound while the answer sent last is among what it holds.
DownSound(c) ==
  /\ Len(down[c].frames) <= MaxQueue + 1
  /\ serving[c] = "first" => down[c].frames = <<>>
  /\ serving[c] = "runs" => Cursor(c) < Len(pattern)
  /\ serving[c] # "over" =>
       /\ \A i \in DOMAIN down[c].frames : down[c].frames[i].step <= Cursor(c)
       /\ \A k \in DOMAIN pattern : pattern[k] = "s" /\ k <= Len(heard[c]) => k <= Cursor(c)
       /\ \/ Len(down[c].frames) <= MaxQueue
          \/ Len(heard[c]) < Cursor(c) /\ pattern[Cursor(c)] = "s"

LinksSound == transport # "udp" => \A c \in Clients : UpSound(c) /\ DownSound(c)

SInv == TableBounds /\ CountTypes /\ LinksSound
------------------------------------------------------------------------------
(* The replay tables *)

LEMMA SmallerTable ==
  ASSUME NEW t, Small(t), NEW r, \A k \in Keys : r[k] > 0 => t[k] > 0
  PROVE  Small(r) /\ Size(r) \in Nat
<1>1. {k \in Keys : r[k] > 0} \in SUBSET {k \in Keys : t[k] > 0}
  OBVIOUS
<1>2. /\ IsFiniteSet({k \in Keys : r[k] > 0})
      /\ Cardinality({k \in Keys : r[k] > 0}) <= Cardinality({k \in Keys : t[k] > 0})
  BY <1>1, FS_Subset DEF Small
<1>3. Size(r) \in Nat /\ Size(t) \in Nat
  BY <1>2, FS_CardinalityType DEF Size, Small
<1> QED BY <1>2, <1>3, TableAssumption DEF Small, Size

\* A first datagram is recorded where there is room for it.
LEMMA RecordedBounds ==
  ASSUME now \in 0 .. MaxTime, NEW t \in [Keys -> 0 .. (MaxTime + TTL)], NEW k \in Keys,
         \A j \in Keys : t[j] <= now + TTL, Small(t)
  PROVE  /\ Recorded(t, k) \in [Keys -> 0 .. (MaxTime + TTL)] /\ Small(Recorded(t, k))
         /\ \A j \in Keys : Recorded(t, k)[j] <= now + TTL
<1> DEFINE r == WithRoom(t)
<1>1. TTL \in Nat /\ MaxTime \in Nat /\ CacheMax \in Nat
  BY TableAssumption
<1>2. /\ r \in [Keys -> 0 .. (MaxTime + TTL)]
      /\ \A j \in Keys : r[j] = t[j] \/ r[j] = 0
  BY <1>1 DEF WithRoom, Swept
<1>3. Small(r) /\ Size(r) \in Nat
  BY <1>2, SmallerTable
<1> HIDE DEF r
<1>4. \A j \in Keys : r[j] <= now + TTL
  BY <1>1, <1>2
<1>5. CASE Size(r) >= CacheMax
  <2>1. Recorded(t, k) = r
    BY <1>1, <1>3, <1>5 DEF Recorded, r
  <2> QED BY <1>2, <1>3, <1>4, <2>1
<1>6. CASE Size(r) < CacheMax
  <2>1. PICK q : q = [r EXCEPT ![k] = now + TTL]
    OBVIOUS
  <2>2. Recorded(t, k) = q
    BY <1>6, <2>1 DEF Recorded, r
  <2>3. q \in [Keys -> 0 .. (MaxTime + TTL)] /\ \A j \in Keys : q[j] <= now + TTL
    BY <1>1, <1>2, <1>4, <2>1
  <2>4. {j \in Keys : q[j] > 0} \in SUBSET ({j \in Keys : r[j] > 0} \cup {k})
    BY <1>2, <2>1
  <2>5. /\ IsFiniteSet({j \in Keys : r[j] > 0} \cup {k})
        /\ Cardinality({j \in Keys : r[j] > 0} \cup {k}) <= Size(r) + 1
        /\ Cardinality({j \in Keys : r[j] > 0} \cup {k}) \in Nat
    <3>1. PICK S : S = {j \in Keys : r[j] > 0}
      OBVIOUS
    <3>2. IsFiniteSet(S) /\ Cardinality(S) = Size(r) /\ Cardinality(S) \in Nat
      BY <1>3, <3>1 DEF Small, Size
    <3>3. /\ IsFiniteSet(S \cup {k})
          /\ Cardinality(S \cup {k}) = IF k \in S THEN Cardinality(S) ELSE Cardinality(S) + 1
      BY <3>2, FS_AddElement
    <3> QED BY <3>1, <3>2, <3>3
  <2>6. /\ IsFiniteSet({j \in Keys : q[j] > 0})
        /\ Size(q) <= Cardinality({j \in Keys : r[j] > 0} \cup {k})
        /\ Size(q) \in Nat
    BY <2>4, <2>5, FS_Subset, FS_CardinalityType DEF Size
  <2>7. Small(q)
    BY <1>1, <1>3, <1>6, <2>5, <2>6 DEF Small
  <2> QED BY <2>2, <2>3, <2>7
<1> QED BY <1>1, <1>3, <1>5, <1>6

LEMMA TablesStayBounded ==
  ASSUME IInv, TableBounds, [Next]_allVars
  PROVE  TableBounds'
<1>1. HandshakeTypes /\ TTL \in Nat /\ MaxTime \in Nat
  BY TableAssumption DEF IInv
<1>2. CASE TableKept
  BY <1>2 DEF TableKept, tableVars, TableBounds, Small, Size
<1>3. ASSUME NEW c \in Clients, NEW d \in net, ServerFirst(c, d)
      PROVE  TableBounds'
  <2>1. PICK m \in Muxes : m = home[c]
    BY <1>1 DEF HandshakeTypes
  <2>2. PICK t \in [Keys -> 0 .. (MaxTime + TTL)] : t = table[m]
    BY DEF TableBounds
  <2>3. /\ now' = now /\ disk' = disk
        /\ table' = [table EXCEPT ![m] = Recorded(t, c)]
        /\ file' = table'[m] \/ file' = file
    BY <1>3, <2>1, <2>2 DEF ServerFirst, Remember, serverFrame
  <2>4. PICK r : r = Recorded(t, c)
    OBVIOUS
  <2>5. /\ r \in [Keys -> 0 .. (MaxTime + TTL)] /\ Small(r)
        /\ \A j \in Keys : r[j] <= now + TTL
    BY <2>2, <2>4, RecordedBounds DEF TableBounds, Clients
  <2>6. /\ table' \in [Muxes -> [Keys -> 0 .. (MaxTime + TTL)]] /\ table'[m] = r
        /\ \A l \in Muxes : l # m => table'[l] = table[l]
    BY <2>3, <2>4, <2>5 DEF TableBounds
  <2>7. \A l \in Muxes : Small(table'[l]) /\ \A k \in Keys : table'[l][k] <= now' + TTL
    BY <2>3, <2>5, <2>6 DEF TableBounds
  <2>8. /\ file' \in [Keys -> 0 .. (MaxTime + TTL)] /\ Small(file')
        /\ \A k \in Keys : file'[k] <= now' + TTL
    BY <2>3, <2>5, <2>6 DEF TableBounds
  <2>9. (\A l \in Muxes : Small(table[l]))' /\ Small(file)'
    BY <2>7, <2>8 DEF Small, Size
  <2> QED BY <2>3, <2>6, <2>7, <2>8, <2>9 DEF TableBounds
<1>4. CASE Restart
  <2>1. /\ now' = now /\ disk' = disk /\ file' = file /\ table' = [m \in Muxes |-> Swept(file)]
    BY <1>4 DEF Restart, Load
  <2>2. PICK r : r = Swept(file)
    OBVIOUS
  <2>3. /\ r \in [Keys -> 0 .. (MaxTime + TTL)] /\ now \in Nat
        /\ \A k \in Keys : r[k] = file[k] \/ r[k] = 0
    BY <1>1, <2>2 DEF TableBounds, Swept
  <2>4. Small(r)
    BY <2>3, SmallerTable DEF TableBounds
  <2>5. \A k \in Keys : r[k] <= now + TTL
    BY <1>1, <2>3 DEF TableBounds
  <2>6. (\A m \in Muxes : Small(table[m]))' /\ Small(file)'
    BY <2>1, <2>2, <2>4 DEF Small, Size, TableBounds
  <2> QED BY <2>1, <2>2, <2>3, <2>5, <2>6 DEF TableBounds
<1>5. CASE HourPasses
  <2>1. now' = now + 1 /\ now < MaxTime /\ disk' = disk /\ table' = table /\ file' = file
    BY <1>5 DEF HourPasses
  <2>2. /\ \A m \in Muxes : \A k \in Keys : table[m][k] <= now + 1 + TTL
        /\ \A k \in Keys : file[k] <= now + 1 + TTL
    BY <1>1 DEF TableBounds
  <2>3. now' \in 0 .. MaxTime
    BY <1>1, <2>1 DEF TableBounds
  <2> QED BY <2>1, <2>2, <2>3 DEF TableBounds, Small, Size
<1> QED BY <1>1, <1>2, <1>3, <1>4, <1>5, TableSteps
------------------------------------------------------------------------------
(* What a sequence of frames keeps *)

LEMMA FramesLonger ==
  ASSUME NEW F \in Seq(Message), NEW c \in Clients, NEW n \in Nat, NEW m \in Nat,
         NEW upTo \in Nat, NEW later \in Nat, m <= upTo + 1,
         later \in {upTo, m}, upTo <= later,
         DOMAIN pattern \subseteq Nat,
         Ordered(F, c, n), Covered(F, c, n, upTo), ToServer(c, m) \in Message
  PROVE  LET E == Append(F, ToServer(c, m))
         IN Ordered(E, c, n) /\ Covered(E, c, n, later)
<1> DEFINE d == ToServer(c, m)
           E == Append(F, d)
<1>1. d.step = m
  BY DEF ToServer
<1>2. /\ Len(F) \in Nat /\ DOMAIN F = 1 .. Len(F) /\ DOMAIN E = 1 .. Len(F) + 1
      /\ \A i \in 1 .. Len(F) : E[i] = F[i]
      /\ E[Len(F) + 1] = d
  BY Appended
<1> HIDE DEF E
<1>3. ASSUME NEW k \in DOMAIN pattern, pattern[k] = "c", n < k, k <= upTo
      PROVE  \E j \in 1 .. Len(F) : E[j] = ToServer(c, k)
  BY <1>2, <1>3 DEF Covered
<1>4. ASSUME NEW i \in DOMAIN E, NEW k \in DOMAIN pattern, pattern[k] = "c", n < k, k < E[i].step
      PROVE  \E j \in DOMAIN E : j < i /\ E[j] = ToServer(c, k)
  <2>1. CASE i \in 1 .. Len(F)
    <3>1. PICK j \in DOMAIN F : j < i /\ F[j] = ToServer(c, k)
      BY <1>2, <1>4, <2>1 DEF Ordered
    <3> QED BY <1>2, <3>1
  <2>2. CASE i = Len(F) + 1
    <3>1. k \in Nat /\ k < m
      BY <1>1, <1>2, <1>4, <2>2
    <3>2. PICK j \in 1 .. Len(F) : E[j] = ToServer(c, k)
      BY <1>3, <1>4, <3>1
    <3> QED BY <1>2, <2>2, <3>2
  <2> QED BY <1>2, <2>1, <2>2
<1>5. ASSUME NEW k \in DOMAIN pattern, pattern[k] = "c", n < k, k <= later
      PROVE  \E j \in DOMAIN E : E[j] = ToServer(c, k)
  <2>1. k \in Nat
    OBVIOUS
  <2>2. CASE k <= upTo
    BY <1>2, <1>3, <1>5, <2>2
  <2>3. CASE k = m
    BY <1>2, <2>3
  <2> QED BY <1>5, <2>1, <2>2, <2>3
<1> QED BY <1>4, <1>5 DEF Ordered, Covered, E

LEMMA FramesShorter ==
  ASSUME NEW F \in Seq(Message), F # <<>>, NEW c \in Clients, NEW n \in Nat, NEW n2 \in Nat,
         n <= n2, F[1].step <= n2, NEW upTo \in Nat,
         DOMAIN pattern \subseteq Nat,
         Ordered(F, c, n), Covered(F, c, n, upTo)
  PROVE  Ordered(Tail(F), c, n2) /\ Covered(Tail(F), c, n2, upTo)
<1> DEFINE E == Tail(F)
<1>1. /\ Len(F) \in Nat /\ Len(F) >= 1 /\ DOMAIN F = 1 .. Len(F)
      /\ DOMAIN E = 1 .. Len(F) - 1 /\ \A i \in 1 .. Len(F) - 1 : E[i] = F[i + 1]
      /\ \A i \in DOMAIN F : F[i].step \in Nat
  <2>1. Len(F) \in Nat /\ DOMAIN F = 1 .. Len(F)
    OBVIOUS
  <2>2. Len(F) >= 1
    OBVIOUS
  <2>3. DOMAIN E = 1 .. Len(F) - 1 /\ \A i \in 1 .. Len(F) - 1 : E[i] = F[i + 1]
    BY <2>2
  <2>4. ASSUME NEW i \in DOMAIN F
        PROVE  F[i].step \in Nat
    <3>1. F[i] \in Message
      BY <2>1
    <3> QED BY <3>1 DEF Message
  <2> QED BY <2>1, <2>2, <2>3, <2>4
<1> HIDE DEF E
<1>2. ASSUME NEW k \in DOMAIN pattern, n2 < k, NEW j \in DOMAIN F, F[j] = ToServer(c, k)
      PROVE  j - 1 \in DOMAIN E /\ E[j - 1] = ToServer(c, k)
  <2>1. ToServer(c, k).step = k /\ k \in Nat
    BY DEF ToServer
  <2>2. j # 1
    BY <1>1, <1>2, <2>1
  <2>3. j - 1 \in 1 .. Len(F) - 1 /\ (j - 1) + 1 = j
    BY <1>1, <2>2
  <2> QED BY <1>1, <1>2, <2>3
<1>3. ASSUME NEW i \in DOMAIN E, NEW k \in DOMAIN pattern, pattern[k] = "c", n2 < k, k < E[i].step
      PROVE  \E j \in DOMAIN E : j < i /\ E[j] = ToServer(c, k)
  <2>1. i \in Nat /\ i + 1 \in DOMAIN F /\ E[i] = F[i + 1] /\ n < k
    BY <1>1, <1>3
  <2>2. PICK j \in DOMAIN F : j < i + 1 /\ F[j] = ToServer(c, k)
    BY <1>3, <2>1 DEF Ordered
  <2>3. j - 1 \in DOMAIN E /\ E[j - 1] = ToServer(c, k) /\ j \in Nat
    BY <1>1, <1>2, <1>3, <2>2
  <2>4. j - 1 < i
    BY <2>1, <2>2, <2>3
  <2> QED BY <2>3, <2>4
<1>4. ASSUME NEW k \in DOMAIN pattern, pattern[k] = "c", n2 < k, k <= upTo
      PROVE  \E j \in DOMAIN E : E[j] = ToServer(c, k)
  <2>1. n < k
    BY <1>4
  <2>2. PICK j \in DOMAIN F : F[j] = ToServer(c, k)
    BY <1>4, <2>1 DEF Covered
  <2> QED BY <1>2, <1>4, <2>2
<1> QED BY <1>3, <1>4 DEF Ordered, Covered, E
------------------------------------------------------------------------------
(* A client's streams *)

\* Nothing happens to the two streams of a client or to who serves it.
Undisturbed(e) ==
  /\ up'[e] = up[e] /\ down'[e] = down[e]
  /\ heard'[e] = heard[e] /\ serving'[e] = serving[e]
  /\ e \in knocked => e \in knocked'
  /\ serving[e] = "runs" => script'[pending'[e]] = script[pending[e]]

LEMMA UndisturbedSound ==
  ASSUME HandshakeTypes, StreamTypes, NEW e \in Clients, Undisturbed(e), pattern' = pattern,
         UpSound(e), DownSound(e)
  PROVE  UpSound(e)' /\ DownSound(e)'
<1>1. serving[e] # "over" => Cursor(e)' = Cursor(e)
  BY DEF Undisturbed, Cursor, StreamTypes
<1>2. Follows(e)' => Follows(e) /\ Cursor(e)' = Cursor(e)
  BY <1>1 DEF Undisturbed, Follows, StreamTypes
<1>3. UpSound(e)'
  BY <1>2 DEF UpSound, Undisturbed, Ordered, Covered
<1>4. DownSound(e)'
  BY <1>1 DEF DownSound, Undisturbed, StreamTypes
<1> QED BY <1>3, <1>4

LEMMA LinksStay ==
  ASSUME HandshakeTypes, StreamTypes, LinksSound, transport # "udp", pattern' = pattern,
         NEW c \in Clients, UpSound(c)', DownSound(c)',
         \A e \in Clients \ {c} : Undisturbed(e)
  PROVE  LinksSound'
<1>1. ASSUME NEW e \in Clients, e # c
      PROVE  UpSound(e)' /\ DownSound(e)'
  BY <1>1, UndisturbedSound DEF LinksSound
<1>2. ASSUME NEW e \in Clients
      PROVE  UpSound(e)' /\ DownSound(e)'
  <2>1. CASE e = c
    BY <2>1 DEF UpSound, DownSound, Cursor, Follows, Ordered, Covered
  <2> QED BY <1>1, <2>1
<1> QED BY <1>2 DEF LinksSound

\* What the streams of a client hold.
LEMMA LinkFacts ==
  ASSUME IInv, NEW c \in Clients
  PROVE  /\ up \in [Clients -> LinkRecord] /\ down \in [Clients -> LinkRecord]
         /\ up[c].frames \in Seq(Message) /\ down[c].frames \in Seq(Message)
         /\ up[c].at \in {"header", "body", "lost"}
         /\ heard \in [Clients -> Seq(Clients \cup Ids)] /\ Len(heard[c]) \in Nat
         /\ DOMAIN pattern = 1 .. Len(pattern) /\ Len(pattern) \in Nat
         /\ DOMAIN pattern \subseteq Nat
         /\ Len(heard[c]) <= Len(pattern)
         /\ serving \in [Clients -> {"first", "runs", "over"}]
<1>1. HandshakeTypes /\ StreamTypes /\ HeardSound
  BY DEF IInv
<1>2. up[c] \in LinkRecord /\ down[c] \in LinkRecord
  BY <1>1 DEF StreamTypes
<1>3. DOMAIN pattern = 1 .. Len(pattern) /\ Len(pattern) \in Nat
  BY <1>1, PatternFacts DEF HandshakeTypes
<1>4. heard[c] \in Seq(Clients \cup Ids)
  BY <1>1 DEF HandshakeTypes
<1> QED BY <1>1, <1>2, <1>3, <1>4 DEF StreamTypes, HandshakeTypes, HeardSound, LinkRecord

\* The server has as many messages of a handshake that runs behind it as its
\* transcript has.
LEMMA CursorFacts ==
  ASSUME IInv, transport # "udp", NEW c \in Clients, serving[c] # "over"
  PROVE  /\ Cursor(c) \in Nat
         /\ serving[c] = "runs" => /\ pending[c] \in 1 .. made /\ peer[pending[c]] = c
                                   /\ pending[c] \in Ids
                                   /\ Cursor(c) = Len(script[pending[c]])
<1>1. HandshakeTypes /\ StreamTypes /\ ScriptSound
  BY DEF IInv
<1>2. CASE serving[c] = "first"
  BY <1>2 DEF Cursor
<1>3. CASE serving[c] = "runs"
  <2>1. pending[c] \in 1 .. made /\ peer[pending[c]] = c
    BY <1>1, <1>3 DEF StreamTypes, ScriptSound
  <2>2. pending[c] \in Ids
    BY <1>1, <2>1, HandshakeAssumption DEF HandshakeTypes, Ids
  <2>3. script[pending[c]] \in Seq(Clients \cup Ids)
    BY <1>1, <2>2 DEF HandshakeTypes
  <2> QED BY <1>3, <2>1, <2>2, <2>3 DEF Cursor
<1> QED BY <1>1, <1>2, <1>3 DEF StreamTypes

\* Whatever is appended, a sequence is longer by one.
LEMMA OneMore ==
  ASSUME NEW S, NEW q \in Seq(S), NEW x
  PROVE  Len(Append(q, x)) = Len(q) + 1 /\ Len(q) \in Nat /\ Append(q, x) # <<>>
<1> DEFINE T == S \cup {x}
<1>1. q \in Seq(T) /\ x \in T
  OBVIOUS
<1> HIDE DEF T
<1> QED BY <1>1, Appended

\* A frame more, or one less, in a link.
LEMMA Putting ==
  ASSUME NEW k \in LinkRecord, NEW d \in Message
  PROVE  /\ Put(k, d).frames = Append(k.frames, d) /\ Put(k, d).at = k.at
         /\ Len(Put(k, d).frames) = Len(k.frames) + 1
<1>1. k.frames \in Seq(Message)
  BY DEF LinkRecord
<1> QED BY <1>1 DEF Put, LinkRecord

LEMMA BodyTaken ==
  ASSUME NEW k \in LinkRecord, k.frames # <<>>
  PROVE  /\ BodyRead(k).frames = Tail(k.frames) /\ BodyRead(k).at = "header"
         /\ Len(k.frames) \in Nat /\ Len(BodyRead(k).frames) = Len(k.frames) - 1
         /\ 1 \in DOMAIN k.frames
         /\ \A i \in DOMAIN BodyRead(k).frames :
              i + 1 \in DOMAIN k.frames /\ BodyRead(k).frames[i] = k.frames[i + 1]
<1>1. k.frames \in Seq(Message)
  BY DEF LinkRecord
<1>2. BodyRead(k).frames = Tail(k.frames) /\ BodyRead(k).at = "header"
  BY DEF BodyRead, LinkRecord
<1>3. /\ Len(k.frames) \in Nat /\ Len(k.frames) >= 1 /\ DOMAIN k.frames = 1 .. Len(k.frames)
  BY <1>1
<1>4. /\ Len(Tail(k.frames)) = Len(k.frames) - 1
      /\ DOMAIN Tail(k.frames) = 1 .. Len(k.frames) - 1
      /\ \A i \in 1 .. Len(k.frames) - 1 : Tail(k.frames)[i] = k.frames[i + 1]
  BY <1>1, <1>3
<1>5. \A i \in 1 .. Len(k.frames) - 1 : i + 1 \in DOMAIN k.frames
  BY <1>3
<1> QED BY <1>2, <1>3, <1>4, <1>5
------------------------------------------------------------------------------
(* The client's steps *)

\* A client's step leaves the others' streams alone, and the server.
LEMMA ClientAlone ==
  ASSUME HandshakeTypes, StreamTypes, NEW c \in Clients, NEW u, NEW v,
         up' = [up EXCEPT ![c] = u], down' = [down EXCEPT ![c] = v],
         heard' = heard \/ \E o : Advance(c, o),
         serving' = serving, script' = script, pending' = pending,
         knocked \subseteq knocked'
  PROVE  /\ \A e \in Clients \ {c} : Undisturbed(e)
         /\ up'[c] = u /\ down'[c] = v /\ serving'[c] = serving[c]
<1>1. \A e \in Clients \ {c} : heard'[e] = heard[e]
  BY DEF HandshakeTypes, Advance
<1> QED BY <1>1 DEF Undisturbed, StreamTypes

\* The client sends: at most the message after those it has heard.
LEMMA ClientSends ==
  ASSUME IInv, LinksSound, transport # "udp", pattern' = pattern, NEW c \in Clients,
         NEW m \in Nat, m = KnockStep \/ (m \in DOMAIN pattern /\ pattern[m] = "c"),
         m <= Len(heard'[c]),
         \/ heard' = heard
         \/ m = Len(heard[c]) + 1 /\ Len(heard'[c]) = m /\ \E o : Advance(c, o),
         Sends(c) \/ (up[c].frames = <<>> /\ heard' = heard),
         heard'[c] # <<>> \/ c \in knocked',
         knocked \subseteq knocked',
         up' = [up EXCEPT ![c] = Put(up[c], ToServer(c, m))],
         NEW v \in LinkRecord, v.frames = down[c].frames, down' = [down EXCEPT ![c] = v],
         serving' = serving, script' = script, pending' = pending
  PROVE  LinksSound'
<1> DEFINE F == up[c].frames
           G == down[c].frames
           H == Len(heard[c])
           d == ToServer(c, m)
           E == Append(F, d)
<1>1. /\ up[c] \in LinkRecord /\ F \in Seq(Message) /\ G \in Seq(Message) /\ H \in Nat
      /\ DOMAIN pattern \subseteq Nat /\ HandshakeTypes /\ StreamTypes
      /\ serving[c] \in {"first", "runs", "over"}
  BY LinkFacts DEF IInv, StreamTypes
<1>2. /\ UpSound(c) /\ DownSound(c) /\ MaxQueue \in Nat
  BY StreamAssumption DEF LinksSound
<1>3. d \in Message /\ d.step = m
  BY DEF ToServer, Message, None
<1>4. /\ \A e \in Clients \ {c} : Undisturbed(e)
      /\ up'[c] = Put(up[c], d) /\ down'[c] = v /\ serving'[c] = serving[c]
  BY <1>1, ClientAlone, ZenonT(60)
<1>5. up'[c].frames = E /\ up'[c].at = up[c].at /\ down'[c].frames = G
  BY <1>1, <1>3, <1>4, Putting
<1>6. PICK later \in Nat : later = Len(heard'[c]) /\ later \in {H, m} /\ H <= later /\ m <= later
                           /\ m <= H + 1 /\ (later # H => later = H + 1 /\ pattern[later] = "c")
  BY <1>1 DEF KnockStep
<1>7. /\ Len(F) \in Nat /\ DOMAIN F = 1 .. Len(F) /\ Len(E) = Len(F) + 1
      /\ DOMAIN E = 1 .. Len(F) + 1
      /\ \A i \in 1 .. Len(F) : E[i] = F[i]
      /\ E[Len(F) + 1] = d
  BY <1>1, <1>3, Appended
<1> HIDE DEF F, G, H, d, E
<1>8. Follows(c)' = Follows(c)
  BY <1>4, <1>5 DEF Follows, Cursor
<1>9. UpSound(c)'
  <2>1. ASSUME NEW i \in DOMAIN E
        PROVE  E[i] = ToServer(c, E[i].step) /\ E[i].step <= later
    <3>1. CASE i \in 1 .. Len(F)
      <4>1. F[i] = ToServer(c, F[i].step) /\ F[i].step <= H
        BY <1>2, <1>7, <3>1 DEF UpSound, F, H
      <4>2. F[i].step \in Nat
        <5>1. F[i] \in Message
          BY <1>1, <1>7, <3>1
        <5> QED BY <5>1 DEF Message
      <4> QED BY <1>1, <1>6, <1>7, <3>1, <4>1, <4>2
    <3>2. CASE i = Len(F) + 1
      BY <1>3, <1>6, <1>7, <3>2 DEF d
    <3> QED BY <1>7, <3>1, <3>2
  <2>2. Len(E) <= MaxQueue + 1
    <3>1. F = <<>> => Len(F) = 0
      BY <1>7
    <3>2. Len(F) < MaxQueue \/ F = <<>>
      BY DEF Sends, F
    <3> QED BY <1>2, <1>7, <3>1, <3>2
  <2>3. ASSUME Follows(c)
        PROVE  /\ Ordered(E, c, Cursor(c)) /\ Covered(E, c, Cursor(c), later)
               /\ Cursor(c)' = Cursor(c)
    <3>1. Cursor(c) \in Nat
      BY <2>3, CursorFacts DEF Follows
    <3>2. Ordered(F, c, Cursor(c)) /\ Covered(F, c, Cursor(c), H)
      BY <1>2, <2>3 DEF UpSound, F, H
    <3>3. Ordered(E, c, Cursor(c)) /\ Covered(E, c, Cursor(c), later)
      BY <1>1, <1>3, <1>6, <3>1, <3>2, FramesLonger DEF E, d
    <3> QED BY <1>4, <3>3 DEF Cursor
  <2>4. heard'[c] = <<>> /\ c \notin knocked' => E = <<>>
    OBVIOUS
  <2> QED BY <1>5, <1>6, <1>8, <2>1, <2>2, <2>3, <2>4 DEF UpSound, Ordered, Covered
<1>10. DownSound(c)'
  <2>1. Cursor(c)' = Cursor(c)
    BY <1>4 DEF Cursor
  <2>2. ASSUME serving[c] # "over"
        PROVE  /\ \A k \in DOMAIN pattern : pattern[k] = "s" /\ k <= later => k <= Cursor(c)
               /\ \/ Len(G) <= MaxQueue
                  \/ later < Cursor(c) /\ pattern[Cursor(c)] = "s"
    <3>1. Cursor(c) \in Nat
      BY <2>2, CursorFacts
    <3>2. \A k \in DOMAIN pattern : pattern[k] = "s" /\ k <= later => k <= H
      BY <1>1, <1>6
    <3>3. H < Cursor(c) /\ pattern[Cursor(c)] = "s" => later < Cursor(c)
      BY <1>1, <1>6, <3>1
    <3> QED BY <1>2, <2>2, <3>1, <3>2, <3>3 DEF DownSound, G, H
  <2> QED BY <1>2, <1>4, <1>5, <1>6, <2>1, <2>2 DEF DownSound, G
<1> QED BY <1>1, <1>4, <1>9, <1>10, LinksStay
\* The client reads: at most the message the server has sent last.
LEMMA ClientReads ==
  ASSUME IInv, LinksSound, transport # "udp", NEW c \in Clients, ClientReadsBody(c)
  PROVE  LinksSound'
<1> DEFINE F == up[c].frames
           G == down[c].frames
           E == BodyRead(down[c]).frames
           H == Len(heard[c])
           d == G[1]
<1>1. /\ down[c] \in LinkRecord /\ F \in Seq(Message) /\ G \in Seq(Message) /\ H \in Nat
      /\ DOMAIN pattern \subseteq Nat /\ HandshakeTypes /\ StreamTypes
      /\ heard[c] \in Seq(Clients \cup Ids)
      /\ serving[c] \in {"first", "runs", "over"} /\ SoundLink(down[c])
  BY LinkFacts DEF IInv, StreamTypes, MessagesSound
<1>2. UpSound(c) /\ DownSound(c) /\ MaxQueue \in Nat
  BY StreamAssumption DEF LinksSound
<1>3. /\ pattern' = pattern /\ Turn(heard[c], "s") /\ AtBody(down[c])
      /\ up' = up /\ down' = [down EXCEPT ![c] = BodyRead(down[c])]
      /\ IF Due(c, d) THEN Advance(c, d.h) ELSE UNCHANGED <<state, heard>>
      /\ serving' = serving /\ script' = script /\ pending' = pending /\ knocked' = knocked
  BY DEF ClientReadsBody, Waiting, streamFrame, serverSide, serverVars
<1>4. G # <<>>
  BY <1>1, <1>3 DEF AtBody, SoundLink
<1>5. /\ Len(G) \in Nat /\ Len(E) = Len(G) - 1 /\ 1 \in DOMAIN G
      /\ \A i \in DOMAIN E : i + 1 \in DOMAIN G /\ E[i] = G[i + 1]
  BY <1>1, <1>4, BodyTaken
<1>6. /\ \A e \in Clients \ {c} : Undisturbed(e)
      /\ up'[c] = up[c] /\ down'[c] = BodyRead(down[c]) /\ serving'[c] = serving[c]
  <2>1. up' = [up EXCEPT ![c] = up[c]]
    BY <1>1, <1>3 DEF StreamTypes
  <2>2. heard' = heard \/ \E o : Advance(c, o)
    BY <1>3
  <2> QED BY <1>1, <1>3, <2>1, <2>2, ClientAlone
<1>7. PICK later \in Nat : /\ later = Len(heard'[c])
                           /\ \/ later = H /\ heard'[c] = heard[c]
                              \/ /\ later = H + 1 /\ pattern[later] = "s" /\ d.step = later
                                 /\ heard'[c] # <<>>
  <2>1. CASE ~Due(c, d)
    BY <1>1, <1>3, <2>1
  <2>2. CASE Due(c, d)
    <3>1. heard'[c] = Append(heard[c], d.h) /\ d.step = H + 1
      BY <1>1, <1>3, <2>2 DEF Advance, Due, HandshakeTypes
    <3>2. pattern[H + 1] = "s"
      BY <1>3 DEF Turn
    <3>3. Len(heard'[c]) = H + 1 /\ H + 1 \in Nat /\ heard'[c] # <<>>
      <4>1. heard[c] \in Seq(Clients \cup Ids)
        BY <1>1
      <4> HIDE DEF d, F, G, E
      <4> QED BY <3>1, <4>1, OneMore
    <3> QED BY <3>1, <3>2, <3>3
  <2> QED BY <2>1, <2>2
<1> HIDE DEF F, G, E, H, d
<1>8. Follows(c)' = Follows(c) /\ Cursor(c)' = Cursor(c)
  BY <1>3, <1>6 DEF Follows, Cursor
<1>9. UpSound(c)'
  <2>1. ASSUME NEW i \in DOMAIN F
        PROVE  F[i] = ToServer(c, F[i].step) /\ F[i].step <= later
    <3>1. F[i] = ToServer(c, F[i].step) /\ F[i].step <= H
      BY <1>2 DEF UpSound, F, H
    <3>2. F[i].step \in Nat
      <4>1. F[i] \in Message
        BY <1>1
      <4> QED BY <4>1 DEF Message
    <3> QED BY <1>1, <1>7, <3>1, <3>2
  <2>2. heard'[c] = <<>> => heard[c] = <<>>
    BY <1>7
  <2>3. ASSUME Follows(c)
        PROVE  Ordered(F, c, Cursor(c)) /\ Covered(F, c, Cursor(c), later)
    <3>1. Ordered(F, c, Cursor(c)) /\ Covered(F, c, Cursor(c), H)
      BY <1>2, <2>3 DEF UpSound, F, H
    <3>2. \A k \in DOMAIN pattern : pattern[k] = "c" /\ k <= later => k <= H
      BY <1>1, <1>7
    <3> QED BY <3>1, <3>2 DEF Covered
  <2> QED BY <1>2, <1>3, <1>6, <1>7, <1>8, <2>1, <2>2, <2>3 DEF UpSound, F, Ordered, Covered
<1>10. DownSound(c)'
  <2>1. down'[c].frames = E /\ Len(E) <= MaxQueue /\ Len(E) <= MaxQueue + 1
    BY <1>2, <1>5, <1>6 DEF DownSound, E, G
  <2>2. serving[c] # "first"
    BY <1>2, <1>4 DEF DownSound, G
  <2>3. ASSUME serving[c] # "over"
        PROVE  /\ \A i \in DOMAIN E : E[i].step <= Cursor(c)
               /\ \A k \in DOMAIN pattern : pattern[k] = "s" /\ k <= later => k <= Cursor(c)
    <3>1. \A i \in DOMAIN G : G[i].step <= Cursor(c)
      BY <1>2, <2>3 DEF DownSound, G
    <3>2. \A k \in DOMAIN pattern : pattern[k] = "s" /\ k <= H => k <= Cursor(c)
      BY <1>2, <2>3 DEF DownSound, H
    <3>3. d.step <= Cursor(c)
      BY <1>5, <3>1 DEF d
    <3>4. \A k \in DOMAIN pattern : k <= later => k <= H \/ k = later
      BY <1>1, <1>7
    <3> QED BY <1>5, <1>7, <3>1, <3>2, <3>3, <3>4
  <2> QED BY <1>2, <1>3, <1>6, <1>7, <1>8, <2>1, <2>2, <2>3 DEF DownSound
<1> QED BY <1>1, <1>3, <1>6, <1>9, <1>10, LinksStay

\* The step a client has sent last is one it has heard itself say.
LEMMA LastSentHeard ==
  ASSUME IInv, NEW c \in Clients
  PROVE  LastSentStep(c) \in Nat /\ LastSentStep(c) <= Len(heard[c])
<1> DEFINE mine == {i \in DOMAIN heard[c] : pattern[i] = "c"}
<1>1. Len(heard[c]) \in Nat /\ DOMAIN heard[c] = 1 .. Len(heard[c])
  BY DEF IInv, HandshakeTypes
<1>2. mine \in SUBSET (1 .. Len(heard[c]))
  BY <1>1
<1>3. LastSentStep(c) = IF mine = {} THEN KnockStep ELSE Latest(mine)
  BY DEF LastSentStep
<1> HIDE DEF mine
<1>4. mine # {} => Latest(mine) \in mine
  BY <1>1, <1>2, LatestIn
<1>5. CASE mine = {}
  BY <1>1, <1>3, <1>5 DEF KnockStep
<1>6. CASE mine # {}
  <2>1. PICK i \in 1 .. Len(heard[c]) : i = Latest(mine)
    BY <1>2, <1>4, <1>6
  <2> QED BY <1>1, <1>3, <1>6, <2>1
<1> QED BY <1>5, <1>6

LEMMA ClientLinks ==
  ASSUME IInv, LinksSound, transport # "udp", NEW c \in Clients,
         StreamSend(c) \/ StreamKnock(c) \/ ClientTimer(c) \/ ClientDeadline(c)
         \/ ClientReadsHeader(c) \/ ClientReadsBody(c)
  PROVE  LinksSound'
<1>1. /\ HandshakeTypes /\ StreamTypes /\ HeardSound /\ Len(heard[c]) \in Nat
      /\ up \in [Clients -> LinkRecord] /\ down \in [Clients -> LinkRecord]
      /\ heard \in [Clients -> Seq(Clients \cup Ids)]
  BY LinkFacts DEF IInv
<1>2. PICK v \in LinkRecord : v = down[c]
  BY <1>1
<1>3. down' = down => down' = [down EXCEPT ![c] = v]
  BY <1>1, <1>2
<1>4. /\ pattern' = pattern
      /\ serving' = serving /\ script' = script /\ pending' = pending
      /\ knocked \subseteq knocked'
  BY DEF StreamSend, StreamKnock, ClientTimer, ClientDeadline, ClientReadsHeader, ClientReadsBody,
         ClientGiveUp, clientFrame, streamFrame, streamVars, serverSide, serverVars
<1>5. CASE StreamSend(c)
  <2>1. /\ ~Over(heard[c]) /\ pattern[Len(heard[c]) + 1] = "c" /\ Advance(c, c) /\ Sends(c)
        /\ down' = down
        /\ up' = [up EXCEPT ![c] = Put(up[c], ToServer(c, Len(heard'[c])))]
    BY <1>5 DEF StreamSend, Turn
  <2>2. /\ Len(heard'[c]) = Len(heard[c]) + 1 /\ Len(heard[c]) + 1 \in DOMAIN pattern
        /\ heard' \in [Clients -> Seq(Clients \cup Ids)]
    <3>1. made' = made /\ peer' = peer
      BY <1>5 DEF StreamSend, serverSide, serverVars
    <3> QED BY <1>1, <1>4, <2>1, <3>1, HeardAdvances DEF HeardTypes
  <2>3. PICK m \in Nat : m = Len(heard[c]) + 1
    BY <1>1
  <2>4. heard'[c] # <<>>
    BY <1>1, <2>2
  <2>5. /\ m \in DOMAIN pattern /\ pattern[m] = "c" /\ Len(heard'[c]) = m /\ m <= Len(heard'[c])
        /\ up' = [up EXCEPT ![c] = Put(up[c], ToServer(c, m))]
        /\ v.frames = down[c].frames /\ down' = [down EXCEPT ![c] = v]
        /\ \E o : Advance(c, o)
    BY <1>2, <1>3, <2>1, <2>2, <2>3
  <2> QED BY <1>4, <2>1, <2>3, <2>4, <2>5, ClientSends
<1>6. CASE StreamKnock(c)
  <2>1. /\ heard' = heard /\ down' = down /\ heard[c] = <<>> /\ c \notin knocked /\ c \in knocked'
        /\ up' = [up EXCEPT ![c] = Put(up[c], ToServer(c, KnockStep))]
    BY <1>6 DEF StreamKnock
  <2>2. up[c].frames = <<>>
    BY <2>1 DEF LinksSound, UpSound
  <2>3. PICK m \in Nat : m = KnockStep
    BY DEF KnockStep
  <2>4. m <= Len(heard'[c])
    BY <1>1, <2>1, <2>3 DEF KnockStep
  <2> QED BY <1>2, <1>3, <1>4, <2>1, <2>2, <2>3, <2>4, ClientSends
<1>7. CASE (ClientTimer(c) /\ transport # "http")
  <2>1. /\ Waiting(c) /\ heard' = heard /\ knocked' = knocked /\ Sends(c)
        /\ up' = [up EXCEPT ![c] = Put(up[c], ToServer(c, LastSentStep(c)))]
        /\ down' = [down EXCEPT ![c] = Struck(down[c])]
    BY <1>7 DEF ClientTimer
  <2>2. PICK m \in Nat : m = LastSentStep(c) /\ m <= Len(heard[c])
    BY LastSentHeard
  <2>3. m = KnockStep \/ (m \in DOMAIN pattern /\ pattern[m] = "c")
    BY <1>1, <2>2, LastSent
  <2>4. Struck(down[c]) \in LinkRecord /\ Struck(down[c]).frames = down[c].frames
    BY <1>1 DEF Struck, LinkRecord
  <2>5. heard'[c] # <<>> \/ c \in knocked'
    BY <2>1 DEF Waiting
  <2> QED BY <1>4, <2>1, <2>2, <2>3, <2>4, <2>5, ClientSends
<1>8. CASE (ClientTimer(c) /\ transport = "http") \/ ClientDeadline(c) \/ ClientReadsHeader(c)
  <2>1. /\ heard' = heard /\ up' = up /\ knocked' = knocked
        /\ down' = down \/ down' = [down EXCEPT ![c] = HeaderRead(down[c])]
    BY <1>8 DEF ClientTimer, ClientDeadline, ClientReadsHeader, ClientGiveUp, streamVars
  <2>2. HeaderRead(down[c]).frames = down[c].frames
    BY <1>1 DEF HeaderRead, LinkRecord
  <2>3. /\ up'[c] = up[c] /\ down'[c].frames = down[c].frames
        /\ heard'[c] = heard[c] /\ serving'[c] = serving[c]
    BY <1>1, <1>4, <2>1, <2>2
  <2>4. \A e \in Clients \ {c} : Undisturbed(e)
    BY <1>1, <1>4, <2>1 DEF Undisturbed
  <2>5. UpSound(c)' /\ DownSound(c)'
    <3>1. UpSound(c) /\ DownSound(c)
      BY DEF LinksSound
    <3>2. Follows(c)' = Follows(c) /\ Cursor(c)' = Cursor(c)
      BY <1>4, <2>3 DEF Follows, Cursor
    <3> QED BY <1>4, <2>1, <2>3, <3>1, <3>2 DEF UpSound, DownSound, Ordered, Covered
  <2> QED BY <1>1, <1>4, <2>4, <2>5, LinksStay
<1>9. CASE ClientReadsBody(c)
  BY <1>9, ClientReads
<1> QED BY <1>5, <1>6, <1>7, <1>8, <1>9
------------------------------------------------------------------------------
(* The server's steps *)

\* The server takes a frame that is due and answers it: what the client has sent
\* and the server has not taken is still there, and the answer has room.
LEMMA AnswerKeepsLinks ==
  ASSUME IInv, LinksSound, transport # "udp", pattern' = pattern,
         heard' = heard, knocked' = knocked, NEW c \in Clients,
         NEW h \in Ids, NEW s, Transcript(s, c, h), StreamAnswer(c, h, s),
         AtBody(up[c]), up' = [up EXCEPT ![c] = BodyRead(up[c])],
         serving[c] # "over", Follows(c),
         Cursor(c) <= Len(s), up[c].frames[1].step = Len(s),
         \A e \in Clients \ {c} : serving[e] = "runs" => pending[e] # h
  PROVE  LinksSound'
<1> DEFINE F == up[c].frames
           G == down[c].frames
           E == BodyRead(up[c]).frames
           H == Len(heard[c])
           a == Answered(h, s)
           d == ToClient(c, Len(s) + 1, h)
<1>1. /\ up[c] \in LinkRecord /\ down[c] \in LinkRecord
      /\ F \in Seq(Message) /\ G \in Seq(Message) /\ H \in Nat /\ Len(G) \in Nat
      /\ DOMAIN pattern = 1 .. Len(pattern) /\ Len(pattern) \in Nat
      /\ DOMAIN pattern \subseteq Nat /\ HandshakeTypes /\ StreamTypes
      /\ serving[c] \in {"first", "runs"} /\ SoundLink(up[c])
  BY LinkFacts DEF IInv, StreamTypes, MessagesSound
<1>2. UpSound(c) /\ DownSound(c) /\ MaxQueue \in Nat
  BY StreamAssumption DEF LinksSound
<1>3. s \in Seq(Clients \cup Ids) /\ Len(s) \in Nat /\ Len(s) <= Len(pattern)
  BY DEF Transcript
<1>4. PICK n \in Nat, n2 \in Nat :
        /\ n = Cursor(c) /\ n2 = Len(a) /\ n <= Len(s) /\ Len(s) <= n2 /\ n2 <= Len(pattern)
        /\ IF Turn(s, "s") THEN n2 = Len(s) + 1 /\ pattern[n2] = "s" /\ n2 \in DOMAIN pattern
                           ELSE n2 = Len(s)
  <2>1. Cursor(c) \in Nat
    BY CursorFacts
  <2>2. CASE Turn(s, "s")
    <3>1. a = Append(s, h) /\ Len(s) + 1 \in DOMAIN pattern /\ pattern[Len(s) + 1] = "s"
      BY <1>1, <2>2, AnsweredSound DEF Answered, HandshakeTypes
    <3>2. Len(a) = Len(s) + 1
      BY <1>3, <3>1, Appended
    <3> QED BY <1>1, <1>3, <2>1, <2>2, <3>1, <3>2
  <2>3. CASE ~Turn(s, "s")
    BY <1>3, <2>1, <2>3 DEF Answered
  <2> QED BY <2>2, <2>3
<1>5. F # <<>> /\ 1 \in DOMAIN F
  BY <1>1 DEF AtBody, SoundLink
<1>6. Len(s) <= H
  BY <1>2, <1>5 DEF UpSound
<1>7. /\ script' = [script EXCEPT ![h] = a]
      /\ pending' = [pending EXCEPT ![c] = IF Over(a) THEN None ELSE h]
      /\ serving' = [serving EXCEPT ![c] = IF Over(a) THEN "over" ELSE "runs"]
      /\ down' = [down EXCEPT ![c] = IF Turn(s, "s") THEN Put(down[c], d) ELSE down[c]]
  BY DEF StreamAnswer, Settle
<1>8. /\ up'[c] = BodyRead(up[c])
      /\ down'[c] = IF Turn(s, "s") THEN Put(down[c], d) ELSE down[c]
      /\ serving'[c] = IF Over(a) THEN "over" ELSE "runs"
      /\ ~Over(a) => pending'[c] = h /\ script'[h] = a
  BY <1>1, <1>7 DEF StreamTypes, HandshakeTypes
<1>9. \A e \in Clients \ {c} : Undisturbed(e)
  <2>1. ASSUME NEW e \in Clients \ {c}
        PROVE  serving[e] = "runs" => script'[pending'[e]] = script[pending[e]]
    BY <1>1, <1>7 DEF HandshakeTypes
  <2> QED BY <1>1, <1>7, <2>1 DEF Undisturbed, StreamTypes
<1>10. ASSUME serving'[c] # "over"
       PROVE  Cursor(c)' = n2 /\ n2 < Len(pattern)
  <2>1. ~Over(a) /\ serving'[c] = "runs"
    BY <1>8, <1>10
  <2>2. n2 < Len(pattern)
    <3>1. Len(a) # Len(pattern)
      BY <2>1 DEF Over
    <3>2. n2 \in Nat /\ n2 = Len(a) /\ n2 <= Len(pattern) /\ Len(pattern) \in Nat
      BY <1>1, <1>4, Zenon
    <3> HIDE DEF a
    <3> QED BY <3>1, <3>2
  <2> QED BY <1>4, <1>8, <2>1, <2>2 DEF Cursor
<1>11. /\ E = Tail(F) /\ Len(F) \in Nat /\ Len(E) = Len(F) - 1
       /\ \A i \in DOMAIN E : i + 1 \in DOMAIN F /\ E[i] = F[i + 1]
  BY <1>1, <1>5, BodyTaken
<1>12. F[1].step <= n2
  BY <1>1, <1>3, <1>4
<1> HIDE DEF F, G, E, H, a, d
<1>13. UpSound(c)'
  <2>1. Ordered(F, c, n) /\ Covered(F, c, n, H)
    BY <1>2, <1>4 DEF UpSound, F, H
  <2>2. Ordered(E, c, n2) /\ Covered(E, c, n2, H)
    <3>1. n <= n2
      BY <1>3, <1>4
    <3> QED BY <1>1, <1>5, <1>11, <1>12, <2>1, <3>1, FramesShorter
  <2>3. \A i \in DOMAIN E : E[i] = ToServer(c, E[i].step) /\ E[i].step <= H
    BY <1>2, <1>11 DEF UpSound, F, H
  <2>4. Len(E) <= MaxQueue + 1
    BY <1>2, <1>11 DEF UpSound, F
  <2>5. ~(heard[c] = <<>> /\ c \notin knocked)
    BY <1>2, <1>5 DEF UpSound, F
  <2>6. Follows(c)' => Cursor(c)' = n2
    BY <1>8, <1>10 DEF Follows
  <2>7. up'[c].frames = E /\ heard'[c] = heard[c] /\ knocked' = knocked
    BY <1>8 DEF E
  <2> QED BY <2>2, <2>3, <2>4, <2>5, <2>6, <2>7 DEF UpSound, Ordered, Covered, H
<1>14. DownSound(c)'
  <2>1. /\ \A i \in DOMAIN G : G[i].step <= n
        /\ \A k \in DOMAIN pattern : pattern[k] = "s" /\ k <= H => k <= n
        /\ Len(G) <= MaxQueue
    <3>1. /\ \A i \in DOMAIN G : G[i].step <= n
          /\ \A k \in DOMAIN pattern : pattern[k] = "s" /\ k <= H => k <= n
          /\ Len(G) <= MaxQueue \/ H < n
      BY <1>2, <1>4 DEF DownSound, G, H
    <3> QED BY <1>1, <1>3, <1>4, <1>6, <3>1
  <2>2. PICK g : g = down'[c].frames
    OBVIOUS
  <2>3. /\ \A i \in DOMAIN g : g[i].step <= n2
        /\ Len(g) <= MaxQueue + 1
        /\ Len(g) <= MaxQueue \/ (H < n2 /\ pattern[n2] = "s")
    <3>1. ASSUME NEW i \in DOMAIN G
          PROVE  G[i].step <= n2
      <4>1. G[i] \in Message
        BY <1>1
      <4>2. G[i].step \in Nat
        BY <4>1 DEF Message
      <4> QED BY <1>3, <1>4, <2>1, <4>2
    <3>2. CASE ~Turn(s, "s")
      <4>1. g = G
        BY <1>8, <2>2, <3>2 DEF G
      <4>2. Len(G) <= MaxQueue /\ Len(G) <= MaxQueue + 1
        BY <1>1, <1>2, <2>1
      <4>3. \A i \in DOMAIN G : G[i].step <= n2
        BY <3>1
      <4> QED BY <4>1, <4>2, <4>3
    <3>3. CASE Turn(s, "s")
      <4>1. h \in Nat /\ Len(s) + 1 \in Nat
        BY <1>3 DEF Ids
      <4>2. d \in Message /\ d.step = Len(s) + 1
        BY <4>1 DEF d, ToClient, Message
      <4>3. g = Append(G, d) /\ Len(g) = Len(G) + 1
        <5>1. G \in Seq(Message) /\ g = Append(G, d)
          BY <1>1, <1>8, <2>2, <3>3, <4>2, Putting DEF G
        <5> HIDE DEF G, d
        <5> QED BY <4>2, <5>1, OneMore
      <4>4. /\ DOMAIN g = 1 .. Len(G) + 1 /\ DOMAIN G = 1 .. Len(G)
            /\ \A i \in 1 .. Len(G) : g[i] = G[i]
            /\ g[Len(G) + 1] = d
        BY <1>1, <4>2, <4>3, Appended
      <4>5. n2 = Len(s) + 1 /\ pattern[n2] = "s" /\ n2 \in DOMAIN pattern
        BY <1>4, <3>3
      <4>6. H < n2
        <5>1. ~(n2 <= n)
          BY <1>3, <1>4, <4>5
        <5>2. ~(n2 <= H)
          BY <2>1, <4>5, <5>1
        <5> QED BY <1>1, <5>2
      <4>7. ASSUME NEW i \in DOMAIN g
            PROVE  g[i].step <= n2
        <5>1. CASE i \in 1 .. Len(G)
          BY <3>1, <4>4, <5>1
        <5>2. CASE i = Len(G) + 1
          BY <4>2, <4>4, <4>5, <5>2
        <5> QED BY <1>1, <4>4, <5>1, <5>2
      <4>8. Len(g) <= MaxQueue + 1
        BY <1>1, <1>2, <2>1, <4>3
      <4> QED BY <4>5, <4>6, <4>7, <4>8
    <3> QED BY <3>2, <3>3
  <2>4. \A k \in DOMAIN pattern : pattern[k] = "s" /\ k <= H => k <= n2
    BY <1>1, <1>3, <1>4, <2>1
  <2>5. serving'[c] # "first"
    BY <1>8
  <2> QED BY <1>10, <2>2, <2>3, <2>4, <2>5 DEF DownSound, H
<1> QED BY <1>1, <1>9, <1>13, <1>14, LinksStay
\* A frame that is not due is one the server has behind it.
LEMMA StaleFrame ==
  ASSUME IInv, LinksSound, transport # "udp", NEW c \in Clients, serving[c] = "runs", Follows(c),
         up[c].frames # <<>>, up[c].frames[1] # ToServer(c, Cursor(c) + 1)
  PROVE  up[c].frames[1].step <= Cursor(c)
<1> DEFINE F == up[c].frames
           m == F[1].step
           n == Cursor(c)
<1>1. /\ F \in Seq(Message) /\ UpSound(c) /\ DownSound(c)
      /\ DOMAIN pattern = 1 .. Len(pattern) /\ Len(pattern) \in Nat
  BY LinkFacts DEF LinksSound
<1>2. 1 \in DOMAIN F /\ F[1] \in Message
  BY <1>1
<1>3. m \in Nat /\ n \in Nat
  BY <1>2, CursorFacts DEF Message
<1>4. F[1] = ToServer(c, m)
  BY <1>1, <1>2 DEF UpSound
<1>5. m # n + 1
  BY <1>4
<1>6. n + 1 \in DOMAIN pattern /\ pattern[n + 1] = "c"
  BY <1>1, <1>3 DEF DownSound, Follows
<1>7. ASSUME n + 1 < m
      PROVE  FALSE
  <2>1. Ordered(F, c, n)
    BY <1>1 DEF UpSound
  <2>2. n < n + 1
    BY <1>3
  <2>3. PICK j \in DOMAIN F : j < 1
    BY <1>2, <1>6, <1>7, <2>1, <2>2 DEF Ordered
  <2> QED BY <1>1, <2>3
<1> QED BY <1>3, <1>5, <1>7

\* The server drops a frame, loses its place or ends, or the stream is at a body.
LEMMA ServerGoesOn ==
  ASSUME IInv, LinksSound, transport # "udp", pattern' = pattern,
         heard' = heard, knocked' = knocked, script' = script, NEW c \in Clients,
         \/ pending' = pending /\ serving' = serving
         \/ /\ pending' = [pending EXCEPT ![c] = None]
            /\ serving' = [serving EXCEPT ![c] = "over"],
         NEW u \in LinkRecord, up' = [up EXCEPT ![c] = u], u.at # "lost" => up[c].at # "lost",
         \/ u.frames = up[c].frames
         \/ /\ up[c].frames # <<>> /\ u.frames = Tail(up[c].frames)
            /\ Follows(c) => serving[c] = "runs" /\ up[c].frames[1].step <= Cursor(c),
         NEW v \in LinkRecord, down' = [down EXCEPT ![c] = v],
         \/ v.frames = down[c].frames
         \/ /\ serving[c] = "runs" /\ Len(down[c].frames) < MaxQueue
            /\ \E d \in Message : v.frames = Append(down[c].frames, d) /\ d.step <= Cursor(c)
  PROVE  LinksSound'
<1> DEFINE F == up[c].frames
           G == down[c].frames
           E == u.frames
           g == v.frames
           H == Len(heard[c])
<1>1. /\ F \in Seq(Message) /\ G \in Seq(Message) /\ H \in Nat /\ Len(G) \in Nat
      /\ DOMAIN pattern \subseteq Nat /\ HandshakeTypes /\ StreamTypes
      /\ up[c] \in LinkRecord
  BY LinkFacts DEF IInv, StreamTypes
<1>2. UpSound(c) /\ DownSound(c) /\ MaxQueue \in Nat
  BY StreamAssumption DEF LinksSound
<1>3. /\ up'[c] = u /\ down'[c] = v /\ serving'[c] \in {serving[c], "over"}
      /\ serving'[c] # "over" => pending'[c] = pending[c]
  BY <1>1 DEF StreamTypes, HandshakeTypes
<1>4. \A e \in Clients \ {c} : Undisturbed(e)
  BY <1>1 DEF Undisturbed, StreamTypes, HandshakeTypes
<1>5. serving'[c] # "over" => serving'[c] = serving[c] /\ Cursor(c)' = Cursor(c)
  BY <1>3 DEF Cursor
<1>6. Follows(c)' => Follows(c) /\ Cursor(c)' = Cursor(c)
  BY <1>3, <1>5 DEF Follows
<1>7. UpSound(c)'
  <2>1. /\ \A i \in DOMAIN E : \E j \in DOMAIN F : E[i] = F[j]
        /\ Len(E) <= MaxQueue + 1 /\ (F = <<>> => E = <<>>)
    <3>1. CASE E = F
      BY <1>2, <3>1 DEF UpSound
    <3>2. CASE F # <<>> /\ E = Tail(F)
      <4>1. /\ Len(F) \in Nat /\ Len(E) = Len(F) - 1
            /\ \A i \in DOMAIN E : i + 1 \in DOMAIN F /\ E[i] = F[i + 1]
        BY <1>1, <3>2, BodyTaken
      <4> QED BY <1>2, <3>2, <4>1 DEF UpSound
    <3> QED BY <3>1, <3>2
  <2>2. \A i \in DOMAIN E : E[i] = ToServer(c, E[i].step) /\ E[i].step <= H
    BY <1>2, <2>1 DEF UpSound
  <2>3. ASSUME Follows(c)
        PROVE  Ordered(E, c, Cursor(c)) /\ Covered(E, c, Cursor(c), H)
    <3>1. Ordered(F, c, Cursor(c)) /\ Covered(F, c, Cursor(c), H)
      BY <1>2, <2>3 DEF UpSound
    <3>2. CASE E = F
      BY <3>1, <3>2
    <3>3. CASE F # <<>> /\ E = Tail(F) /\ E # F
      <4>1. F[1].step <= Cursor(c) /\ Cursor(c) \in Nat /\ Cursor(c) <= Cursor(c)
        BY <2>3, <3>3, CursorFacts DEF Follows
      <4>2. Ordered(Tail(F), c, Cursor(c)) /\ Covered(Tail(F), c, Cursor(c), H)
        BY <1>1, <3>1, <3>3, <4>1, FramesShorter
      <4> QED BY <3>3, <4>2
    <3> QED BY <3>2, <3>3
  <2>4. heard'[c] = heard[c] /\ knocked' = knocked /\ up'[c].frames = E
    BY <1>3
  <2>5. heard[c] = <<>> /\ c \notin knocked => E = <<>>
    BY <1>2, <2>1 DEF UpSound
  <2>6. Len(E) <= MaxQueue + 1
    BY <2>1
  <2> HIDE DEF E
  <2> QED BY <1>6, <2>2, <2>3, <2>4, <2>5, <2>6 DEF UpSound, Ordered, Covered
<1>8. DownSound(c)'
  <2>1. g = G \/ (Len(g) <= MaxQueue /\ serving[c] = "runs" /\
                  (serving'[c] = "runs" => \A i \in DOMAIN g : g[i].step <= Cursor(c)))
    <3>1. ASSUME serving[c] = "runs", Len(G) < MaxQueue,
                 NEW d \in Message, g = Append(G, d), d.step <= Cursor(c)
          PROVE  Len(g) <= MaxQueue /\ \A i \in DOMAIN g : g[i].step <= Cursor(c)
      <4>1. /\ Len(g) = Len(G) + 1 /\ DOMAIN g = 1 .. Len(G) + 1 /\ DOMAIN G = 1 .. Len(G)
            /\ \A i \in 1 .. Len(G) : g[i] = G[i]
            /\ g[Len(G) + 1] = d
        BY <1>1, <3>1, Appended
      <4>2. \A i \in DOMAIN G : G[i].step <= Cursor(c)
        BY <1>2, <3>1 DEF DownSound
      <4>3. Len(g) <= MaxQueue
        BY <1>1, <1>2, <3>1, <4>1
      <4>4. ASSUME NEW i \in DOMAIN g
            PROVE  g[i].step <= Cursor(c)
        <5>1. CASE i \in 1 .. Len(G)
          BY <4>1, <4>2, <5>1
        <5>2. CASE i = Len(G) + 1
          BY <3>1, <4>1, <5>2
        <5> QED BY <1>1, <4>1, <5>1, <5>2
      <4> QED BY <4>3, <4>4
    <3> QED BY <3>1
  <2>2. Len(g) <= MaxQueue => Len(g) <= MaxQueue + 1
    <3>1. Len(g) \in Nat
      BY DEF LinkRecord
    <3> QED BY <1>2, <3>1
  <2>3. down'[c].frames = g /\ heard'[c] = heard[c]
    BY <1>3
  <2> HIDE DEF g
  <2>4. CASE g = G
    BY <1>2, <1>3, <1>5, <2>3, <2>4 DEF DownSound
  <2>5. CASE g # G
    BY <1>2, <1>3, <1>5, <2>1, <2>2, <2>3, <2>5 DEF DownSound
  <2> QED BY <2>4, <2>5
<1> QED BY <1>1, <1>4, <1>7, <1>8, LinksStay
LEMMA ServerLinks ==
  ASSUME IInv, LinksSound, transport # "udp", NEW c \in Clients,
         ServerReadsHeader(c) \/ ServerReadsFirst(c) \/ ServerReadsNext(c)
         \/ ServerTimer(c) \/ ServerDeadline(c)
  PROVE  LinksSound'
<1>1. /\ HandshakeTypes /\ StreamTypes /\ ScriptSound
      /\ up \in [Clients -> LinkRecord] /\ down \in [Clients -> LinkRecord]
      /\ up[c] \in LinkRecord /\ down[c] \in LinkRecord
      /\ SoundLink(up[c]) /\ UpSound(c) /\ DownSound(c)
      /\ DOMAIN pattern = 1 .. Len(pattern) /\ Len(pattern) \in Nat
  BY LinkFacts DEF IInv, MessagesSound, StreamTypes, LinksSound
<1>2. pattern' = pattern /\ heard' = heard /\ knocked' = knocked
  BY DEF ServerReadsHeader, ServerReadsFirst, ServerReadsNext, ServerTimer, ServerDeadline,
         clientSide, streamFrame
<1>3. PICK u \in LinkRecord, v \in LinkRecord : u = up[c] /\ v = down[c]
  BY <1>1
<1>4. /\ up' = up => up' = [up EXCEPT ![c] = u]
      /\ down' = down => down' = [down EXCEPT ![c] = v]
  BY <1>1, <1>3
<1>5. CASE ServerReadsHeader(c)
  <2>1. /\ up' = [up EXCEPT ![c] = HeaderRead(u)] /\ AtHeader(u) /\ down' = down
        /\ script' = script /\ pending' = pending /\ serving' = serving
    BY <1>3, <1>5 DEF ServerReadsHeader, serverSide, serverVars
  <2>2. PICK w \in LinkRecord : w = HeaderRead(u)
    BY DEF HeaderRead, LinkRecord
  <2>3. w.frames = up[c].frames /\ up[c].at # "lost" /\ v.frames = down[c].frames
    BY <1>3, <2>1, <2>2 DEF HeaderRead, AtHeader, LinkRecord
  <2> QED BY <1>2, <1>4, <2>1, <2>2, <2>3, ServerGoesOn
<1>6. CASE ServerReadsFirst(c)
  <2>1. PICK h, s : h = made + 1 /\ s = Opening(c)
    OBVIOUS
  <2>2. /\ serving[c] = "first" /\ AtBody(up[c]) /\ up[c].frames[1] = ToServer(c, FirstStep)
        /\ up' = [up EXCEPT ![c] = BodyRead(up[c])]
        /\ Begin(c, h) /\ StreamAnswer(c, h, s) /\ Settle(c, h, Answered(h, s))
    BY <1>6, <2>1 DEF ServerReadsFirst, StreamAnswer
  <2>3. h \in Ids /\ Transcript(s, c, h)
    BY <1>1, <1>2, <2>1, <2>2, OpensSound
  <2>4. Follows(c) /\ Cursor(c) = 0 /\ serving[c] # "over"
    BY <2>2 DEF Follows, Cursor
  <2>5. Len(s) \in Nat /\ up[c].frames[1].step = Len(s)
    BY <2>1, <2>2 DEF Opening, FirstStep, ToServer, KnockStep
  <2>6. \A e \in Clients \ {c} : serving[e] = "runs" => pending[e] # h
    <3>1. made \in Nat
      BY <1>1, HandshakeAssumption DEF HandshakeTypes
    <3> QED BY <1>1, <2>1, <3>1 DEF ScriptSound, StreamTypes
  <2>7. Cursor(c) <= Len(s)
    BY <2>4, <2>5
  <2> QED BY <1>2, <2>2, <2>3, <2>4, <2>5, <2>6, <2>7, AnswerKeepsLinks
<1>7. CASE ServerReadsNext(c)
  <2>1. PICK h, s : h = pending[c] /\ s = Append(script[h], c)
    OBVIOUS
  <2>2. /\ serving[c] = "runs" /\ AtBody(up[c])
        /\ up' = [up EXCEPT ![c] = BodyRead(up[c])]
        /\ made' = made /\ peer' = peer
        /\ IF up[c].frames[1] = ToServer(c, Len(script[h]) + 1) THEN StreamAnswer(c, h, s)
           ELSE UNCHANGED <<script, pending, session, down, serving>>
    BY <1>7, <2>1 DEF ServerReadsNext
  <2>3. /\ h \in 1 .. made /\ peer[h] = c /\ h \in Ids
        /\ Cursor(c) = Len(script[h]) /\ Cursor(c) \in Nat
    BY <2>1, <2>2, CursorFacts
  <2>4. up[c].frames # <<>> /\ up[c].at # "lost"
    BY <1>1, <2>2 DEF AtBody, SoundLink
  <2>5. CASE up[c].frames[1] # ToServer(c, Len(script[h]) + 1)
    <3>1. PICK w \in LinkRecord : w = BodyRead(up[c]) /\ w.frames = Tail(up[c].frames)
      <4>1. BodyRead(up[c]) \in LinkRecord
        BY <1>1, <2>2, LinkOperations
      <4> QED BY <1>1, <2>4, <4>1, BodyTaken
    <3>2. Follows(c) => up[c].frames[1].step <= Cursor(c)
      BY <2>2, <2>3, <2>4, <2>5, StaleFrame
    <3>3. /\ script' = script /\ pending' = pending /\ serving' = serving
          /\ down' = [down EXCEPT ![c] = v] /\ v.frames = down[c].frames
          /\ up' = [up EXCEPT ![c] = w]
      BY <1>3, <1>4, <2>2, <2>5, <3>1
    <3> QED BY <1>2, <2>2, <2>4, <3>1, <3>2, <3>3, ServerGoesOn
  <2>6. CASE up[c].frames[1] = ToServer(c, Len(script[h]) + 1)
    <3>1. StreamAnswer(c, h, s) /\ Settle(c, h, Answered(h, s)) /\ h # None
      BY <2>2, <2>3, <2>6 DEF StreamAnswer, Ids, None
    <3>2. Len(script[h]) + 1 \in DOMAIN pattern /\ pattern[Len(script[h]) + 1] = "c"
      <4>1. SoundMessage(up[c].frames[1])
        BY <1>1, <2>2, LinkOperations
      <4>2. up[c].frames[1].to = "s" /\ up[c].frames[1].step = Len(script[h]) + 1
            /\ up[c].frames[1].step # KnockStep
        BY <2>3, <2>6 DEF ToServer, KnockStep
      <4> QED BY <4>1, <4>2 DEF SoundMessage
    <3>3. Transcript(s, c, h)
      BY <1>1, <1>2, <2>1, <2>2, <3>1, <3>2, GoesOnSound
    <3>4. Follows(c) /\ serving[c] # "over"
      BY <2>2, <2>3, <2>4, <3>2 DEF Follows
    <3>5. Len(s) = Len(script[h]) + 1
      <4>1. script[h] \in Seq(Clients \cup Ids)
        BY <1>1, <2>3 DEF HandshakeTypes
      <4> QED BY <2>1, <4>1
    <3>6. Cursor(c) <= Len(s) /\ up[c].frames[1].step = Len(s)
      BY <2>3, <2>6, <3>5 DEF ToServer
    <3>7. \A e \in Clients \ {c} : serving[e] = "runs" => pending[e] # h
      BY <1>1, <2>3 DEF ScriptSound, StreamTypes
    <3> QED BY <1>2, <2>2, <2>3, <3>1, <3>3, <3>4, <3>6, <3>7, AnswerKeepsLinks
  <2> QED BY <2>5, <2>6
<1>8. CASE ServerDeadline(c) \/ (ServerTimer(c) /\ transport = "http")
  <2>1. /\ up' = [up EXCEPT ![c] = u] /\ down' = [down EXCEPT ![c] = v] /\ script' = script
        /\ pending' = [pending EXCEPT ![c] = None]
        /\ serving' = [serving EXCEPT ![c] = "over"]
    BY <1>4, <1>8 DEF ServerDeadline, ServerTimer, ServerEnds
  <2> QED BY <1>2, <1>3, <2>1, ServerGoesOn
<1>9. CASE ServerTimer(c) /\ transport # "http"
  <2>1. PICK h, s, mine : h = pending[c] /\ s = script[h] /\ mine = {i \in DOMAIN s : s[i] = h}
    OBVIOUS
  <2>2. /\ serving[c] = "runs" /\ Len(down[c].frames) < MaxQueue
        /\ up' = [up EXCEPT ![c] = Struck(up[c])]
        /\ down' = IF mine = {} THEN down
                   ELSE [down EXCEPT ![c] = Put(v, ToClient(c, Latest(mine), h))]
        /\ script' = script /\ pending' = pending /\ serving' = serving
    BY <1>3, <1>9, <2>1 DEF ServerTimer, serverSide, serverVars
  <2>3. PICK w \in LinkRecord : /\ w = Struck(up[c]) /\ w.frames = up[c].frames
                                /\ w.at # "lost" => up[c].at # "lost"
    <3>1. Struck(up[c]) \in LinkRecord /\ Struck(up[c]).frames = up[c].frames
      BY <1>1 DEF Struck, LinkRecord
    <3>2. up[c].at = "lost" => Struck(up[c]).at = "lost"
      BY DEF Struck
    <3> QED BY <3>1, <3>2
  <2>4. CASE mine = {}
    BY <1>2, <1>3, <1>4, <2>2, <2>3, <2>4, ServerGoesOn
  <2>5. CASE mine # {}
    <3>1. /\ h \in Ids /\ Cursor(c) = Len(s) /\ Cursor(c) \in Nat
      BY <2>1, <2>2, CursorFacts
    <3>2. DOMAIN s = 1 .. Len(s)
      BY <1>1, <2>1, <3>1 DEF HandshakeTypes
    <3>3. PICK i \in 1 .. Len(s) : i = Latest(mine)
      <4>1. mine \in SUBSET (1 .. Len(s))
        BY <2>1, <3>2
      <4> QED BY <2>5, <3>1, <4>1, LatestIn
    <3>4. PICK d \in Message : d = ToClient(c, i, h) /\ d.step = i
      <4>1. i \in Nat /\ h \in Nat
        BY <3>1, <3>3 DEF Ids
      <4>2. ToClient(c, i, h) \in Message
        BY <4>1 DEF ToClient, Message
      <4>3. ToClient(c, i, h).step = i
        BY DEF ToClient
      <4> QED BY <4>2, <4>3
    <3>5. i <= Cursor(c)
      BY <3>1, <3>3
    <3>6. PICK x \in LinkRecord : x = Put(v, d) /\ x.frames = Append(down[c].frames, d)
      BY <1>3, <3>4, Putting, PutFields
    <3>7. down' = [down EXCEPT ![c] = x] /\ up' = [up EXCEPT ![c] = w]
      BY <2>2, <2>3, <2>5, <3>3, <3>4, <3>6
    <3>8. /\ pending' = pending /\ serving' = serving /\ script' = script
          /\ serving[c] = "runs" /\ Len(down[c].frames) < MaxQueue
          /\ \E e \in Message : x.frames = Append(down[c].frames, e) /\ e.step <= Cursor(c)
      BY <2>2, <3>4, <3>5, <3>6
    <3> QED BY <1>2, <2>3, <3>7, <3>8, ServerGoesOn
  <2> QED BY <2>4, <2>5
<1> QED BY <1>5, <1>6, <1>7, <1>8, <1>9
------------------------------------------------------------------------------
(* The invariant of the streams *)

\* A handshake is settled, the newest or one in flight.
LEMMA SettleCounts ==
  ASSUME HandshakeTypes, CountTypes, made' \in Nat, made <= made', NEW c \in Clients,
         NEW h \in 1 .. made', NEW s, Settle(c, h, s)
  PROVE  session' \in [Clients -> 0 .. made'] /\ pending' \in [Clients -> 0 .. made']
<1>1. /\ session' = [session EXCEPT ![c] = IF Over(s) THEN h ELSE session[c]]
      /\ pending' = [pending EXCEPT ![c] = IF Over(s) THEN None ELSE h]
  BY DEF Settle
<1>2. made \in Nat
  BY HandshakeAssumption DEF HandshakeTypes
<1>3. 0 .. made \subseteq 0 .. made' /\ h \in 0 .. made' /\ None \in 0 .. made'
  BY <1>2 DEF None
<1>4. session \in [Clients -> 0 .. made'] /\ pending \in [Clients -> 0 .. made']
  BY <1>3 DEF CountTypes
<1> QED BY <1>1, <1>3, <1>4

\* Nothing is settled: what is in flight, or a session, may end.
LEMMA EndsCount ==
  ASSUME HandshakeTypes, CountTypes, made' = made,
         session' \in {session, [e \in Clients |-> None]}
           \/ \E c \in Clients : session' = [session EXCEPT ![c] = None],
         pending' \in {pending, [e \in Clients |-> None]}
           \/ \E c \in Clients : pending' = [pending EXCEPT ![c] = None]
  PROVE  session' \in [Clients -> 0 .. made'] /\ pending' \in [Clients -> 0 .. made']
<1>1. None \in 0 .. made
  BY HandshakeAssumption DEF HandshakeTypes, None
<1> QED BY <1>1 DEF CountTypes

LEMMA CountsStay ==
  ASSUME IInv, CountTypes, [Next]_allVars
  PROVE  CountTypes'
<1>1. /\ HandshakeTypes /\ ScriptSound /\ MaxHandshakes \in Nat /\ made \in 0 .. MaxHandshakes
      /\ MaxRestarts \in Nat /\ net \subseteq Message
  BY HandshakeAssumption DEF IInv, HandshakeTypes
<1>2. transport' = transport
      /\ (transport = "udp" => up' = up /\ down' = down /\ serving' = serving)
  BY DEF Next, StreamNext, StreamSend, StreamKnock, ClientTimer, ClientDeadline, ClientReadsHeader,
         ClientReadsBody, ServerReadsHeader, ServerReadsFirst, ServerReadsNext, ServerTimer,
         ServerDeadline, streamFrame, streamVars, allVars
<1>3. ASSUME knocked' \subseteq Clients, restarts' \in 0 .. MaxRestarts,
             session' \in [Clients -> 0 .. made'], pending' \in [Clients -> 0 .. made']
      PROVE  CountTypes'
  BY <1>2, <1>3 DEF CountTypes
<1>4. CASE UNCHANGED <<made, session, pending, restarts>> /\ knocked' \subseteq Clients
  BY <1>3, <1>4 DEF CountTypes
<1>5. ASSUME NEW c \in Clients, NEW h \in Ids, NEW s, Settle(c, h, s),
             (h = made + 1 /\ made' = h) \/ (h = pending[c] /\ made' = made),
             knocked' = knocked, restarts' = restarts
      PROVE  CountTypes'
  <2>1. made' \in Nat /\ made <= made' /\ h \in 1 .. made'
    <3>1. h \in Nat /\ h >= 1
      BY <1>1, <1>5 DEF Ids
    <3>2. CASE h = made + 1 /\ made' = h
      BY <1>1, <3>1, <3>2
    <3>3. CASE h = pending[c] /\ made' = made
      BY <1>1, <3>1, <3>3 DEF CountTypes
    <3> QED BY <1>5, <3>2, <3>3
  <2>2. session' \in [Clients -> 0 .. made'] /\ pending' \in [Clients -> 0 .. made']
    BY <1>1, <1>5, <2>1, SettleCounts
  <2> QED BY <1>3, <1>5, <2>2 DEF CountTypes
<1>6. CASE DatagramNext
  <2>1. ASSUME NEW c \in Clients, ClientSend(c) \/ ClientKnock(c) \/ ClientRetransmit(c)
                                  \/ ClientGiveUp(c) \/ ServerRetransmit(c)
        PROVE  CountTypes'
    BY <1>4, <2>1 DEF ClientSend, ClientKnock, ClientRetransmit, ClientGiveUp, ServerRetransmit,
                      clientFrame, serverFrame, serverVars, clientVars, CountTypes
  <2>2. ASSUME NEW c \in Clients, ServerDrop(c) \/ SessionEnds(c)
        PROVE  CountTypes'
    <3>1. made' = made /\ knocked' = knocked /\ restarts' = restarts
      BY <2>2 DEF ServerDrop, SessionEnds, serverFrame, clientVars
    <3>2. session' \in [Clients -> 0 .. made'] /\ pending' \in [Clients -> 0 .. made']
      BY <1>1, <2>2, <3>1, EndsCount DEF ServerDrop, SessionEnds
    <3> QED BY <1>3, <3>1, <3>2 DEF CountTypes
  <2>3. ASSUME NEW d \in net, ClientReceive(d.client, d) \/ Lose(d)
        PROVE  CountTypes'
    BY <1>4, <2>3 DEF ClientReceive, Lose, clientFrame, serverVars, clientVars, CountTypes
  <2>4. ASSUME NEW d \in net, NEW c \in Clients, c = d.client, ServerFirst(c, d)
        PROVE  CountTypes'
    <3>1. PICK h : h = made + 1
      OBVIOUS
    <3>2. /\ made < MaxHandshakes /\ made' = h
          /\ Settle(c, h, Answered(h, Opening(c))) /\ knocked' = knocked /\ restarts' = restarts
      BY <2>4, <3>1 DEF ServerFirst, Begin, Answer, serverFrame, clientVars
    <3>3. h \in Ids
      BY <1>1, <3>1, <3>2 DEF Ids
    <3> QED BY <1>5, <3>1, <3>2, <3>3
  <2>5. ASSUME NEW d \in net, NEW c \in Clients, c = d.client, ServerNext(c, d)
        PROVE  CountTypes'
    <3>1. PICK h : h = pending[c]
      OBVIOUS
    <3>2. /\ h # None /\ made' = made /\ knocked' = knocked /\ restarts' = restarts
          /\ Settle(c, h, Answered(h, Append(script[h], c)))
      BY <2>5, <3>1 DEF ServerNext, Answer, serverFrame, clientVars
    <3>3. h \in Ids
      BY <1>1, <3>1, <3>2 DEF HandshakeTypes, Ids, None
    <3> QED BY <1>5, <3>1, <3>2, <3>3
  <2>6. ASSUME Restart
        PROVE  CountTypes'
    <3>1. /\ restarts' = restarts + 1 /\ restarts < MaxRestarts
          /\ knocked' = knocked /\ made' = made
          /\ pending' = [e \in Clients |-> None] /\ session' = [e \in Clients |-> None]
      BY <2>6 DEF Restart, clientVars
    <3>2. session' \in [Clients -> 0 .. made'] /\ pending' \in [Clients -> 0 .. made']
      BY <1>1, <3>1, EndsCount
    <3>3. restarts' \in 0 .. MaxRestarts
      BY <1>1, <3>1 DEF CountTypes
    <3> QED BY <1>3, <3>1, <3>2, <3>3 DEF CountTypes
  <2>7. ASSUME HourPasses
        PROVE  CountTypes'
    BY <1>4, <2>7 DEF HourPasses, serverVars, clientVars, CountTypes
  <2>8. \A d \in net : d.client \in Clients
    BY <1>1 DEF Message
  <2> QED BY <1>6, <2>1, <2>2, <2>3, <2>4, <2>5, <2>6, <2>7, <2>8 DEF DatagramNext, ServerReceive
<1>7. CASE StreamNext
  <2>1. PICK c \in Clients :
          \/ StreamSend(c) \/ StreamKnock(c) \/ ClientTimer(c) \/ ClientDeadline(c)
          \/ ClientReadsHeader(c) \/ ClientReadsBody(c)
          \/ ServerReadsHeader(c) \/ ServerReadsFirst(c) \/ ServerReadsNext(c)
          \/ ServerTimer(c) \/ ServerDeadline(c)
    BY <1>7 DEF StreamNext
  <2>2. CASE \/ StreamSend(c) \/ StreamKnock(c) \/ ClientTimer(c) \/ ClientDeadline(c)
             \/ ClientReadsHeader(c) \/ ClientReadsBody(c) \/ ServerReadsHeader(c)
    BY <1>4, <2>2 DEF StreamSend, StreamKnock, ClientTimer, ClientDeadline, ClientGiveUp,
       ClientReadsHeader, ClientReadsBody, ServerReadsHeader, streamFrame, serverSide, serverVars,
       clientSide, clientFrame, CountTypes
  <2>3. CASE ServerReadsFirst(c)
    <3>1. PICK h : h = made + 1
      OBVIOUS
    <3>2. /\ made < MaxHandshakes /\ made' = h
          /\ Settle(c, h, Answered(h, Opening(c))) /\ knocked' = knocked /\ restarts' = restarts
      BY <2>3, <3>1 DEF ServerReadsFirst, Begin, StreamAnswer, clientSide, streamFrame
    <3>3. h \in Ids
      BY <1>1, <3>1, <3>2 DEF Ids
    <3> QED BY <1>5, <3>1, <3>2, <3>3
  <2>4. CASE ServerReadsNext(c)
    <3>1. PICK h : h = pending[c]
      OBVIOUS
    <3>2. /\ made' = made /\ knocked' = knocked /\ restarts' = restarts /\ serving[c] = "runs"
          /\ \/ Settle(c, h, Answered(h, Append(script[h], c)))
             \/ session' = session /\ pending' = pending
      BY <2>4, <3>1 DEF ServerReadsNext, StreamAnswer, clientSide, streamFrame
    <3>3. transport # "udp"
      BY <3>2 DEF CountTypes
    <3>4. h \in Ids
      BY <1>1, <3>1, <3>2, <3>3 DEF IInv, StreamTypes, HandshakeTypes, Ids, None
    <3>5. CASE Settle(c, h, Answered(h, Append(script[h], c)))
      BY <1>5, <3>1, <3>2, <3>4, <3>5
    <3>6. CASE session' = session /\ pending' = pending
      BY <1>4, <3>2, <3>6 DEF CountTypes
    <3> QED BY <3>2, <3>5, <3>6
  <2>5. CASE ServerTimer(c) \/ ServerDeadline(c)
    <3>1. /\ made' = made /\ session' = session /\ knocked' = knocked /\ restarts' = restarts
          /\ pending' = pending \/ pending' = [pending EXCEPT ![c] = None]
      BY <2>5 DEF ServerTimer, ServerDeadline, ServerEnds, serverSide, serverVars, clientSide,
                  streamFrame
    <3>2. session' \in [Clients -> 0 .. made'] /\ pending' \in [Clients -> 0 .. made']
      BY <1>1, <3>1, EndsCount
    <3> QED BY <1>3, <3>1, <3>2 DEF CountTypes
  <2> QED BY <2>1, <2>2, <2>3, <2>4, <2>5
<1>8. CASE UNCHANGED allVars
  BY <1>4, <1>8 DEF allVars, vars, clientVars, serverVars, CountTypes
<1> QED BY <1>6, <1>7, <1>8 DEF Next
LEMMA LinksStaySound ==
  ASSUME IInv, CountTypes, LinksSound, [Next]_allVars
  PROVE  LinksSound'
<1>1. transport' = transport
  BY DEF Next, StreamNext, StreamSend, StreamKnock, ClientTimer, ClientDeadline, ClientReadsHeader,
         ClientReadsBody, ServerReadsHeader, ServerReadsFirst, ServerReadsNext, ServerTimer,
         ServerDeadline, streamFrame, streamVars, allVars
<1>2. CASE transport = "udp"
  BY <1>1, <1>2 DEF LinksSound
<1>3. CASE transport # "udp" /\ StreamNext
  <2>1. PICK c \in Clients :
          \/ StreamSend(c) \/ StreamKnock(c) \/ ClientTimer(c) \/ ClientDeadline(c)
          \/ ClientReadsHeader(c) \/ ClientReadsBody(c)
          \/ ServerReadsHeader(c) \/ ServerReadsFirst(c) \/ ServerReadsNext(c)
          \/ ServerTimer(c) \/ ServerDeadline(c)
    BY <1>3 DEF StreamNext
  <2>2. CASE \/ StreamSend(c) \/ StreamKnock(c) \/ ClientTimer(c) \/ ClientDeadline(c)
             \/ ClientReadsHeader(c) \/ ClientReadsBody(c)
    BY <1>3, <2>2, ClientLinks
  <2>3. CASE \/ ServerReadsHeader(c) \/ ServerReadsFirst(c) \/ ServerReadsNext(c)
             \/ ServerTimer(c) \/ ServerDeadline(c)
    BY <1>3, <2>3, ServerLinks
  <2> QED BY <2>1, <2>2, <2>3
<1>4. CASE transport # "udp" /\ UNCHANGED allVars
  <2>1. /\ HandshakeTypes /\ StreamTypes
        /\ pattern' = pattern /\ \A e \in Clients : Undisturbed(e)
    BY <1>4 DEF IInv, allVars, vars, streamVars, clientVars, serverVars, Undisturbed
  <2>2. \A e \in Clients : UpSound(e)' /\ DownSound(e)'
    BY <1>4, <2>1, UndisturbedSound DEF LinksSound
  <2> QED BY <2>2 DEF LinksSound
<1> QED BY <1>2, <1>3, <1>4 DEF Next

LEMMA InitStreams == Init => SInv
<1> SUFFICES ASSUME Init PROVE SInv
  OBVIOUS
<1>1. /\ IInv /\ DatagramInit /\ MaxTime \in Nat /\ TTL \in Nat /\ TTL > 0
      /\ CacheMax \in Nat /\ MaxRestarts \in Nat /\ MaxQueue \in Nat
  BY InitSound, TableAssumption, HandshakeAssumption, StreamAssumption DEF Init
<1>2. TableBounds
  <2>1. now = 0 /\ disk \in BOOLEAN /\ table = [m \in Muxes |-> Empty] /\ file = Empty
    BY <1>1 DEF DatagramInit, TableInit
  <2>2. Empty \in [Keys -> 0 .. (MaxTime + TTL)] /\ \A k \in Keys : Empty[k] = 0
    BY <1>1 DEF Empty
  <2>3. Small(Empty)
    <3>1. {k \in Keys : Empty[k] > 0} = {}
      BY <2>2
    <3> QED BY <1>1, <3>1, FS_EmptySet DEF Small, Size
  <2>4. \A m \in Muxes : table[m] = Empty
    BY <2>1
  <2> QED BY <1>1, <2>1, <2>2, <2>3, <2>4 DEF TableBounds
<1>3. CountTypes
  <2>1. /\ knocked = {} /\ session = [c \in Clients |-> None] /\ made = 0 /\ restarts = 0
        /\ pending = [c \in Clients |-> None]
    BY <1>1 DEF DatagramInit
  <2>2. /\ transport \in Transports
        /\ \A c \in Clients : /\ up[c].frames = <<>> /\ down[c].frames = <<>>
                              /\ serving[c] = "first"
    BY DEF Init, Link
  <2> QED BY <1>1, <2>1, <2>2 DEF CountTypes, None
<1>4. ASSUME NEW c \in Clients
      PROVE  UpSound(c) /\ DownSound(c)
  <2>1. /\ up[c].frames = <<>> /\ down[c].frames = <<>> /\ serving[c] = "first"
        /\ heard[c] = <<>>
    BY <1>1 DEF Init, Link, DatagramInit
  <2>2. \A k \in DOMAIN pattern : k \in Nat /\ k >= 1
    BY <1>1, LinkFacts
  <2>3. Cursor(c) = 0 /\ Len(heard[c]) = 0
    BY <2>1 DEF Cursor
  <2>4. Len(up[c].frames) = 0 /\ Len(down[c].frames) = 0
    BY <2>1
  <2>5. UpSound(c)
    BY <1>1, <2>1, <2>2, <2>3, <2>4 DEF UpSound, Ordered, Covered
  <2>6. DownSound(c)
    BY <1>1, <2>1, <2>2, <2>3, <2>4 DEF DownSound
  <2> QED BY <2>5, <2>6
<1> QED BY <1>2, <1>3, <1>4 DEF SInv, LinksSound

LEMMA StreamsSoundFollows == IInv /\ SInv => StreamsSound
<1> SUFFICES ASSUME IInv, SInv PROVE StreamsSound
  OBVIOUS
<1>1. /\ HandshakeTypes /\ StreamTypes /\ HeardSound /\ MessagesSound
      /\ TableBounds /\ CountTypes /\ LinksSound
      /\ MaxHandshakes \in Nat /\ MaxQueue \in Nat
  BY HandshakeAssumption, StreamAssumption DEF IInv, SInv
<1>2. TypeOK
  <2>1. TableTypeOK
    BY <1>1 DEF TableBounds, TableTypeOK, Small
  <2>2. ASSUME NEW c \in Clients
        PROVE  /\ Len(heard[c]) <= Len(pattern)
               /\ \A i \in DOMAIN heard[c] : heard[c][i] \in Clients \cup Ids
    <3>1. heard[c] \in Seq(Clients \cup Ids)
      BY <1>1 DEF HandshakeTypes
    <3> QED BY <1>1, <3>1 DEF HeardSound
  <2>3. ASSUME NEW h \in Ids, NEW i \in DOMAIN script[h]
        PROVE  script[h][i] \in Clients \cup Ids
    <3>1. script[h] \in Seq(Clients \cup Ids)
      BY <1>1 DEF HandshakeTypes
    <3> QED BY <3>1
  <2> QED BY <1>1, <2>1, <2>2, <2>3 DEF TypeOK, HandshakeTypes, CountTypes
<1>3. ASSUME NEW c \in Clients
      PROVE  \A link \in {up[c], down[c]} :
               /\ Len(link.frames) <= MaxQueue + 1
               /\ link.at \in {"header", "body", "lost"}
               /\ link.at = "body" => link.frames # <<>>
  <2>1. /\ up[c] \in LinkRecord /\ down[c] \in LinkRecord /\ SoundLink(up[c]) /\ SoundLink(down[c])
    BY <1>1 DEF StreamTypes, MessagesSound
  <2>2. Len(up[c].frames) <= MaxQueue + 1 /\ Len(down[c].frames) <= MaxQueue + 1
    <3>1. CASE transport = "udp"
      <4>1. up[c].frames = <<>> /\ down[c].frames = <<>>
        BY <1>1, <3>1 DEF CountTypes
      <4>2. Len(up[c].frames) = 0 /\ Len(down[c].frames) = 0
        BY <4>1
      <4> QED BY <1>1, <4>2
    <3>2. CASE transport # "udp"
      BY <1>1, <3>2 DEF LinksSound, UpSound, DownSound
    <3> QED BY <3>1, <3>2
  <2> QED BY <2>1, <2>2 DEF LinkRecord, SoundLink
<1>4. NothingSkipped
  <2> SUFFICES ASSUME NEW c \in Clients, NEW due, due = Len(script[pending[c]]) + 1,
                      serving[c] = "runs", up[c].at # "lost", pattern[due] = "c",
                      due <= Len(heard[c])
               PROVE  \E i \in DOMAIN up[c].frames : up[c].frames[i] = ToServer(c, due)
    BY DEF NothingSkipped
  <2>1. transport # "udp"
    BY <1>1 DEF CountTypes
  <2>2. Cursor(c) \in Nat /\ due = Cursor(c) + 1
    BY <2>1, CursorFacts
  <2>3. Follows(c)
    BY <2>2 DEF Follows
  <2>4. due \in DOMAIN pattern
    BY <2>2, LinkFacts
  <2>5. Covered(up[c].frames, c, Cursor(c), Len(heard[c]))
    BY <1>1, <2>1, <2>3 DEF LinksSound, UpSound
  <2> QED BY <2>2, <2>4, <2>5 DEF Covered
<1> QED BY <1>1, <1>2, <1>3, <1>4 DEF StreamsSound, StreamTypeOK, StreamTypes, CountTypes

\* On a stream nothing is skipped or overtaken, however often either side
\* repeats itself: whatever the server waits for and the client has sent is
\* still ahead of it unless it lost its place; a reader at a body has one to
\* read, and no stream holds more than one frame over its bound, for every
\* pattern the grammar may have, any number of clients and any bound
\* (runHandshake and ServerHandshakeStream of internal/tunnel with the framing of
\* stream.go and httpstream.go).
THEOREM StreamsStaySound == Spec => []StreamsSound
<1>1. Init => SInv
  BY InitStreams
<1>2. IInv /\ SInv /\ [Next]_allVars => SInv'
  <2> SUFFICES ASSUME IInv, SInv, [Next]_allVars PROVE SInv'
    OBVIOUS
  <2> QED BY TablesStayBounded, CountsStay, LinksStaySound DEF SInv
<1>3. IInv /\ SInv => StreamsSound
  BY StreamsSoundFollows
<1> QED BY <1>1, <1>2, <1>3, InvariantHolds, PTL DEF Spec

------------------------------------------------------------------------------
(* Sizes: for any MTU that packets can have, and any sample of payloads *)

\* The longest padding of the policies, and what a record adds to the longest packet.
MostPadding == 464
LargestFrame == LargestPacket + 1052

LEMMA Limits ==
  /\ MostPadding \in Nat /\ LargestPacket \in Nat /\ LargestFrame \in Nat
  /\ LargestFrame > 1452 /\ LargestFrame <= 65535 /\ LargestFrame = LargestPacket + 1052
  /\ MostPadding = 464
BY SMT DEF MostPadding, LargestFrame, LargestPacket

LEMMA PolicyFacts ==
  ASSUME NEW policy \in Policies
  PROVE  /\ policy.mode \in {"none", "uniform", "burst"}
         /\ policy.max \in Nat /\ policy.max <= MostPadding
         /\ \A w \in PadLenWidths(policy) :
              w \in 0 .. 2 /\ (w > 0 => policy.max <= PadFieldMax(w))
         /\ PadLens(policy) \subseteq 0 .. policy.max
<1>1. /\ policy.mode \in {"none", "uniform", "burst"}
      /\ policy.max \in Nat /\ policy.max <= MostPadding
  BY DEF Policies, MostPadding
<1>2. PadFieldMax(1) = 255 /\ PadFieldMax(2) = 65535
  BY DEF PadFieldMax
<1>3. policy.mode = "none" => PadLenWidths(policy) = {0}
  BY ZenonT(30) DEF PadLenWidths
<1>4. policy.mode # "none" /\ policy.max > 255 => PadLenWidths(policy) = {2}
  BY ZenonT(30) DEF PadLenWidths
<1>5. policy.mode # "none" /\ ~(policy.max > 255) => PadLenWidths(policy) = {1, 2}
  BY ZenonT(30) DEF PadLenWidths
<1>6. PadLens(policy) \subseteq 0 .. policy.max
  <2>1. policy.min \in Nat /\ policy.min <= policy.max
    BY DEF Policies
  <2> QED BY <1>1, <2>1 DEF PadLens
<1>7. ASSUME NEW w \in PadLenWidths(policy)
      PROVE  w \in 0 .. 2 /\ (w > 0 => policy.max <= PadFieldMax(w))
  <2>1. CASE policy.mode = "none"
    BY <1>3, <1>7, <2>1
  <2>2. CASE policy.mode # "none" /\ policy.max > 255
    <3>1. w = 2
      BY <1>4, <1>7, <2>2
    <3> QED BY <1>1, <1>2, <3>1, Limits
  <2>3. CASE policy.mode # "none" /\ ~(policy.max > 255)
    <3>1. w = 1 \/ w = 2
      BY <1>5, <1>7, <2>3
    <3> QED BY <1>1, <1>2, <2>3, <3>1
  <2> QED BY <2>1, <2>2, <2>3
<1> QED BY <1>1, <1>6, <1>7

LEMMA HandshakeNumbers ==
  ASSUME NEW m \in HandshakeMessages
  PROVE  /\ m.plain \in Nat /\ m.plain <= 52 /\ m.fields \in Nat /\ m.fields <= 1061
         /\ m.padLen \in 0 .. 2
<1> DEFINE fields == {k + c + e : k \in KeySizes, c \in CertSizes, e \in ExtraSizes}
<1>1. \A f \in fields : f \in Nat /\ f <= 1061
  BY DEF KeySizes, CertSizes, ExtraSizes
<1>2. m \in Messages({0, 1, 5, 52}, fields)
  BY DEF HandshakeMessages
<1> HIDE DEF fields
<1>3. m \in [plain : {0, 1, 5, 52}, fields : fields, padLen : 0 .. 2, policy : Policies,
             payload : BOOLEAN, app : {FALSE}]
  BY <1>2 DEF Messages
<1> QED BY <1>1, <1>3

LEMMA HandshakeShape ==
  ASSUME NEW m \in HandshakeMessages
  PROVE  m.policy \in Policies /\ m.payload \in BOOLEAN /\ ~ m.app
<1> DEFINE fields == {k + c + e : k \in KeySizes, c \in CertSizes, e \in ExtraSizes}
<1>1. m \in Messages({0, 1, 5, 52}, fields)
  BY DEF HandshakeMessages
<1> HIDE DEF fields
<1>2. m \in [plain : {0, 1, 5, 52}, fields : fields, padLen : 0 .. 2, policy : Policies,
             payload : BOOLEAN, app : {FALSE}]
  BY <1>1 DEF Messages
<1> QED BY <1>2

LEMMA RecordNumbers ==
  ASSUME NEW m \in AppRecords
  PROVE  /\ m.plain \in Nat /\ m.plain <= 52 /\ m.fields \in Nat /\ m.fields <= 514
         /\ m.padLen \in 0 .. 2
<1>1. PICK n \in Messages({0, 52}, {0, 4, 65, 514}) :
        m = [n EXCEPT !.app = TRUE, !.payload = TRUE]
  BY DEF AppRecords
<1>2. n \in [plain : {0, 52}, fields : {0, 4, 65, 514}, padLen : 0 .. 2, policy : Policies,
             payload : BOOLEAN, app : {FALSE}]
  BY DEF Messages
<1>3. m.plain = n.plain /\ m.fields = n.fields /\ m.padLen = n.padLen
  BY <1>1, <1>2
<1> QED BY <1>2, <1>3

LEMMA RecordShape ==
  ASSUME NEW m \in AppRecords
  PROVE  /\ m.policy \in Policies /\ m.padLen \in PadLenWidths(m.policy)
         /\ LengthWidths(m) = {2, 3, 4}
<1>1. PICK n \in Messages({0, 52}, {0, 4, 65, 514}) :
        m = [n EXCEPT !.app = TRUE, !.payload = TRUE]
  BY DEF AppRecords
<1>2. /\ n \in [plain : {0, 52}, fields : {0, 4, 65, 514}, padLen : 0 .. 2, policy : Policies,
                payload : BOOLEAN, app : {FALSE}]
      /\ n.padLen \in PadLenWidths(n.policy)
  BY DEF Messages
<1>3. m.policy = n.policy /\ m.padLen = n.padLen /\ m.app
  BY <1>1, <1>2
<1>4. LengthWidths(m) = {2, 3, 4}
  BY <1>3, ZenonT(30) DEF LengthWidths
<1> QED BY <1>2, <1>3, <1>4

LEMMA WidthHolds ==
  \A w \in 1 .. 4 : /\ MaxIntValue(w) \in Nat
                    /\ w = 2 => MaxIntValue(w) = 65535
                    /\ w > 2 => MaxIntValue(w) > 70000
<1>1. /\ MaxIntValue(1) = 255 /\ MaxIntValue(2) = 65535 /\ MaxIntValue(3) = 16777215
      /\ MaxIntValue(4) = 2147483647
  BY SMT DEF MaxIntValue
<1>2. \A w \in 1 .. 4 : w = 1 \/ w = 2 \/ w = 3 \/ w = 4
  OBVIOUS
<1> QED BY <1>1, <1>2, SMT

LEMMA HandshakeFits ==
  ASSUME NEW m \in HandshakeMessages, NEW w \in LengthWidths(m)
  PROVE  FrameLen(m, w, IF m.payload THEN EarlyData ELSE 0, m.policy.max)
           <= Least(MaxIntValue(w), MaxFirstStreamFrameLen - 32)
<1> DEFINE early == IF m.payload THEN EarlyData ELSE 0
           fit == {v \in 1 .. 4 : MaxIntValue(v) >= MinBytes(m)}
<1>1. m.policy \in Policies /\ m.payload \in BOOLEAN /\ ~ m.app
  BY HandshakeShape
<1>2. PICK p \in Nat, f \in Nat, l \in 0 .. 2 :
        p = m.plain /\ f = m.fields /\ l = m.padLen /\ p <= 52 /\ f <= 1061
  BY HandshakeNumbers
<1>3. PICK top \in Nat : top = m.policy.max /\ top <= MostPadding
  BY <1>1, PolicyFacts
<1>B. p <= 52 /\ f <= 1061 /\ top <= MostPadding
  BY <1>2, <1>3, Zenon
<1>4. early \in Nat /\ early <= 1400
  BY DEF EarlyData
<1>5. MinBytes(m) = p + 4 + (Tag + f + l + top + early)
  <2>1. (IF m.payload /\ ~m.app THEN EarlyData ELSE 0) = early
    BY <1>1
  <2> QED BY <1>2, <1>3, <2>1, Zenon DEF MinBytes, MaxCipher
<1>6. FrameLen(m, w, early, m.policy.max) = p + w + f + l + early + top + Tag
  BY <1>2, <1>3, Zenon DEF FrameLen
<1> HIDE DEF early
<1>8. MinBytes(m) \in Int /\ MinBytes(m) <= 2999
  BY <1>B, <1>4, <1>5, Limits DEF Tag
<1>9. 4 \in fit
  BY <1>8, WidthHolds
<1>10. fit # {} => LengthWidths(m) = fit
  BY <1>1, ZenonT(30) DEF LengthWidths
<1>11. w \in 1 .. 4 /\ MinBytes(m) <= MaxIntValue(w) /\ MaxIntValue(w) \in Int
  <2>1. w \in fit
    BY <1>9, <1>10
  <2>2. w \in 1 .. 4
    BY <2>1
  <2> QED BY <1>8, <2>1, <2>2, WidthHolds
<1> HIDE DEF fit
<1>12. PICK n \in Int : n = FrameLen(m, w, early, m.policy.max) /\ n <= MinBytes(m)
  <2>1. p + w + f + l + early + top + Tag \in Int
    BY <1>B, <1>4, <1>11, Limits DEF Tag
  <2>2. p + w + f + l + early + top + Tag <= p + 4 + (Tag + f + l + top + early)
    BY <1>B, <1>4, <1>11, Limits DEF Tag
  <2> QED BY <1>5, <1>6, <2>1, <2>2
<1>13. n <= MaxIntValue(w) /\ n <= MaxFirstStreamFrameLen - 32
  BY <1>8, <1>11, <1>12 DEF MaxFirstStreamFrameLen
<1>14. n <= Least(MaxIntValue(w), MaxFirstStreamFrameLen - 32)
  BY <1>13 DEF Least
<1> QED BY <1>12, <1>14, Zenon DEF early

LEMMA NextRung ==
  ASSUME NEW n \in Int, NEW ladder \in Ladders
  PROVE  /\ Rungs(n, ladder) = {} => NextShapeSize(n, ladder) = n
         /\ Rungs(n, ladder) # {} =>
              /\ NextShapeSize(n, ladder) \in ladder
              /\ NextShapeSize(n, ladder) >= n /\ n <= 1452
         /\ NextShapeSize(n, ladder) \in Int
         /\ NextShapeSize(n, ladder) <= IF n <= 1452 THEN 1452 ELSE n
<1>1. \A b \in ladder : b \in Nat /\ b <= 1452
  BY DEF Ladders
<1>2. Rungs(n, ladder) = {} => NextShapeSize(n, ladder) = n
  BY DEF NextShapeSize
<1>3. ASSUME Rungs(n, ladder) # {} PROVE NextShapeSize(n, ladder) \in Rungs(n, ladder)
  <2>1. \E b \in Rungs(n, ladder) : \A d \in Rungs(n, ladder) : b <= d
    BY <1>3 DEF Rungs, Ladders
  <2> QED BY <1>3, <2>1 DEF NextShapeSize
<1> QED
  <2>1. CASE Rungs(n, ladder) = {}
    BY <1>2, <2>1
  <2>2. CASE Rungs(n, ladder) # {}
    <3>1. NextShapeSize(n, ladder) \in ladder /\ n <= NextShapeSize(n, ladder)
      BY <1>3, <2>2 DEF Rungs
    <3>2. NextShapeSize(n, ladder) \in Nat /\ NextShapeSize(n, ladder) <= 1452
      BY <1>1, <3>1
    <3> QED BY <2>2, <3>1, <3>2
  <2> QED BY <2>1, <2>2

LEMMA ShapedFacts ==
  ASSUME NEW m \in AppRecords, NEW w \in 1 .. 4, NEW payload \in 0 .. LargestPacket,
         NEW pad \in Nat, pad <= MostPadding,
         NEW ladder \in Ladders
  PROVE  LET n == FrameLen(m, w, payload, pad)
             out == ShapedPad(m, w, payload, pad, ladder)
             next == NextShapeSize(n, ladder)
         IN /\ n \in Nat /\ n <= LargestFrame /\ next \in Int
            /\ \/ /\ out = pad /\ FrameLen(m, w, payload, out) = n
                  /\ m.padLen = 0 \/ ~(pad + (next - n) <= PadFieldMax(m.padLen))
               \/ /\ out = pad + (next - n) /\ FrameLen(m, w, payload, out) = next
                  /\ out <= PadFieldMax(m.padLen)
<1>2. PICK p \in Nat, f \in Nat, l \in 0 .. 2 :
        p = m.plain /\ f = m.fields /\ l = m.padLen /\ p <= 52 /\ f <= 514
  BY RecordNumbers
<1>B. p <= 52 /\ f <= 514
  BY <1>2, Zenon
<1> DEFINE n == FrameLen(m, w, payload, pad)
           out == ShapedPad(m, w, payload, pad, ladder)
           next == NextShapeSize(n, ladder)
<1>3. \A x : FrameLen(m, w, payload, x) = p + w + f + l + payload + x + Tag
  <2>1. p = m.plain /\ f = m.fields /\ l = m.padLen
    BY <1>2, Zenon
  <2> QED BY <2>1, Zenon DEF FrameLen
<1>4. n = p + w + f + l + payload + pad + Tag
  BY <1>3
<1>5. out = IF l > 0 /\ pad + (next - n) <= PadFieldMax(l) THEN pad + (next - n) ELSE pad
  BY <1>2, Zenon DEF ShapedPad
<1> HIDE DEF n, out
<1>6. n \in Nat /\ n <= LargestFrame
  BY <1>B, <1>4, Limits DEF Tag
<1>7. next \in Int
  BY <1>6, NextRung
<1> HIDE DEF next
<1>8. FrameLen(m, w, payload, pad + (next - n)) = next
  <2>1. p + w + f + l + payload + (pad + (next - n)) + Tag = next
    BY <1>4, <1>6, <1>7 DEF Tag
  <2> QED BY <1>3, <2>1
<1>9. FrameLen(m, w, payload, pad) = n
  BY DEF n
<1>10. CASE l > 0 /\ pad + (next - n) <= PadFieldMax(l)
  <2>1. out = pad + (next - n)
    BY <1>5, <1>10
  <2> QED BY <1>2, <1>6, <1>7, <1>8, <1>10, <2>1, Zenon DEF n, out, next
<1>11. CASE ~(l > 0 /\ pad + (next - n) <= PadFieldMax(l))
  <2>1. out = pad
    BY <1>5, <1>11
  <2>2. l = 0 \/ ~(pad + (next - n) <= PadFieldMax(l))
    BY <1>11
  <2> QED BY <1>2, <1>6, <1>7, <1>9, <2>1, <2>2, Zenon DEF n, out, next
<1> QED BY <1>10, <1>11

LEMMA RecordFits ==
  ASSUME NEW m \in AppRecords, NEW w \in LengthWidths(m), NEW ladder \in Ladders
  PROVE  FrameLen(m, w, MTU, ShapedPad(m, w, MTU, m.policy.max, ladder)) <= MaxIntValue(w)
<1>3. m.policy \in Policies /\ LengthWidths(m) = {2, 3, 4}
  BY RecordShape
<1>4. w \in 1 .. 4 /\ w >= 2
  BY <1>3
<1>5. MaxIntValue(w) \in Int /\ MaxIntValue(w) >= 65535
  BY <1>4, WidthHolds
<1>6. PICK top \in Nat : top = m.policy.max /\ top <= MostPadding
  BY <1>3, PolicyFacts
<1> DEFINE n == FrameLen(m, w, MTU, top)
           out == ShapedPad(m, w, MTU, top, ladder)
           next == NextShapeSize(n, ladder)
<1>7. MTU \in 0 .. LargestPacket
  BY GrammarAssumption
<1>8. n \in Nat /\ n <= LargestFrame /\ FrameLen(m, w, MTU, out) \in {n, next}
  BY <1>4, <1>6, <1>7, ShapedFacts, ZenonT(60)
<1>9. next \in Int /\ next <= LargestFrame
  <2>1. \A x \in Int : x <= LargestFrame => NextShapeSize(x, ladder) \in Int /\ NextShapeSize(x, ladder) <= LargestFrame
    <3> SUFFICES ASSUME NEW x \in Int, x <= LargestFrame
                 PROVE  NextShapeSize(x, ladder) \in Int /\ NextShapeSize(x, ladder) <= LargestFrame
      OBVIOUS
    <3>1. /\ NextShapeSize(x, ladder) \in Int
          /\ NextShapeSize(x, ladder) <= IF x <= 1452 THEN 1452 ELSE x
      BY NextRung
    <3> QED BY <3>1, Limits
  <2> QED BY <1>8, <2>1, Limits
<1> HIDE DEF n, out, next
<1>10. FrameLen(m, w, MTU, out) <= MaxIntValue(w)
  BY <1>5, <1>8, <1>9, Limits
<1> QED BY <1>6, <1>10, Zenon DEF out

\* Encode never fails on a message the generator drew, whatever the MTU up to
\* what a datagram holds.
LEMMA LengthAlwaysFits == LengthFits
BY HandshakeFits, RecordFits DEF LengthFits

LEMMA RecordOnARung ==
  ASSUME NEW m \in AppRecords, NEW payload \in 0 .. LargestPacket, NEW ladder \in Ladders,
         NEW w \in LengthWidths(m), NEW p \in PadLens(m.policy)
  PROVE  LET pad == ShapedPad(m, w, payload, p, ladder)
             n == FrameLen(m, w, payload, p)
             shaped == FrameLen(m, w, payload, pad)
         IN /\ m.padLen > 0 => pad <= PadFieldMax(m.padLen)
            /\ \/ shaped \in ladder /\ n <= shaped
               \/ Rungs(n, ladder) = {}
               \/ m.padLen = 0
               \/ m.padLen = 1 /\ NextShapeSize(n, ladder) - n + p > 255
<1>1. /\ m.policy \in Policies /\ m.padLen \in PadLenWidths(m.policy)
      /\ LengthWidths(m) = {2, 3, 4}
  BY RecordShape
<1>4. w \in 1 .. 4
  BY <1>1
<1>5. PICK l \in 0 .. 2, policy \in Policies : l = m.padLen /\ policy = m.policy
  BY <1>1, RecordNumbers
<1>6. PICK top \in Nat : top = policy.max /\ top <= MostPadding
  <2>1. policy.max \in Nat /\ policy.max <= MostPadding
    BY PolicyFacts
  <2> QED BY <2>1
<1>7. l > 0 => top <= PadFieldMax(l)
  <2>1. l \in PadLenWidths(policy)
    BY <1>1, <1>5
  <2> QED BY <1>6, <2>1, PolicyFacts, Zenon
<1>8. p \in 0 .. top
  <2>1. PadLens(policy) \subseteq 0 .. policy.max
    BY PolicyFacts
  <2>2. PadLens(policy) \subseteq 0 .. top
    BY <1>6, <2>1, Zenon
  <2> QED BY <1>5, <2>2, Zenon
<1>9. p \in Nat /\ p <= MostPadding
  BY <1>6, <1>8, Limits
<1>10. PadFieldMax(1) = 255 /\ PadFieldMax(2) = 65535
  BY DEF PadFieldMax
<1>11. l > 0 => PadFieldMax(l) \in Int /\ p <= PadFieldMax(l)
  <2>1. l = 0 \/ l = 1 \/ l = 2
    OBVIOUS
  <2> QED BY <1>7, <1>8, <1>10, <2>1
<1> DEFINE n == FrameLen(m, w, payload, p)
           pad == ShapedPad(m, w, payload, p, ladder)
           next == NextShapeSize(n, ladder)
           shaped == FrameLen(m, w, payload, pad)
<1>12. /\ n \in Nat /\ next \in Int
       /\ \/ pad = p /\ shaped = n /\ (l = 0 \/ ~(p + (next - n) <= PadFieldMax(l)))
          \/ pad = p + (next - n) /\ shaped = next /\ pad <= PadFieldMax(l)
  BY <1>4, <1>5, <1>9, ShapedFacts, Zenon
<1>13. Rungs(n, ladder) # {} => next \in ladder /\ next >= n /\ next <= 1452
  <2> HIDE DEF n
  <2>1. n \in Int
    BY <1>12
  <2> QED BY <2>1, NextRung
<1> HIDE DEF n, pad, next, shaped
<1>14. l > 0 => pad <= PadFieldMax(l)
  BY <1>11, <1>12
<1>15. \/ shaped \in ladder /\ n <= shaped
       \/ Rungs(n, ladder) = {}
       \/ l = 0
       \/ l = 1 /\ next - n + p > 255
  <2> SUFFICES ASSUME Rungs(n, ladder) # {}, l # 0, ~(shaped \in ladder /\ n <= shaped)
               PROVE  l = 1 /\ next - n + p > 255
    OBVIOUS
  <2>1. ~(p + (next - n) <= PadFieldMax(l))
    BY <1>12, <1>13
  <2>2. ASSUME l = 2 PROVE FALSE
    <3>1. p + (next - n) <= 65535
      BY <1>9, <1>12, <1>13, Limits
    <3> QED BY <1>10, <2>1, <2>2, <3>1
  <2>3. l = 1
    BY <2>2
  <2>4. ~(p + (next - n) <= 255)
    BY <1>10, <2>1, <2>3
  <2> QED BY <1>9, <1>12, <2>3, <2>4
<1> QED BY <1>5, <1>14, <1>15, Zenon DEF n, pad, next, shaped

LEMMA ShapedOnARung == OnARung
<1> SUFFICES ASSUME NEW s \in Shapings
             PROVE  \A w \in LengthWidths(s.m), p \in PadLens(s.m.policy) :
                      LET pad == ShapedPad(s.m, w, s.payload, p, s.ladder)
                          n == FrameLen(s.m, w, s.payload, p)
                          shaped == FrameLen(s.m, w, s.payload, pad)
                      IN /\ s.m.padLen > 0 => pad <= PadFieldMax(s.m.padLen)
                         /\ \/ shaped \in s.ladder /\ n <= shaped
                            \/ Rungs(n, s.ladder) = {}
                            \/ s.m.padLen = 0
                            \/ s.m.padLen = 1 /\ NextShapeSize(n, s.ladder) - n + p > 255
  BY Zenon DEF OnARung
<1>1. s.m \in AppRecords /\ s.payload \in Samples /\ s.ladder \in Ladders
  BY DEF Shapings
<1>2. \A x \in Samples : x \in 0 .. LargestPacket
  BY GrammarAssumption, Limits
<1> QED BY <1>1, <1>2, RecordOnARung, Zenon

LEMMA NeverInBand == OutsideBand
<1> SUFFICES ASSUME NEW c \in CoverLens, NEW n \in 0 .. 1300, NEW t \in PadTargets
             PROVE  /\ WireLen(c, n, t) \notin 160 .. 700
                    /\ WireLen(c, n, t) >= c + n
                    /\ WireLen(c, n, t) <= 1200 \/ WireLen(c, n, t) = c + n
  BY DEF OutsideBand
<1>1. c \in 24 .. 32 /\ t \in {701, 702, 956}
  BY DEF CoverLens, PadTargets
<1>2. WireLen(c, n, t) = IF c + n < 160 \/ c + n > 700 THEN c + n ELSE t
  BY DEF WireLen
<1> QED BY <1>1, <1>2

------------------------------------------------------------------------------
(* Covers: of any lengths they are drawn with, with any mark, before any frame *)

LEMMA PrintableIs == \A b : Printable(b) <=> b \in Int /\ 32 <= b /\ b <= 126
BY DEF Printable

\* A cover, before a mark is written over it.
IsCover(q, n) == q \in Seq(Int) /\ Len(q) = n /\ \A i \in 1 .. n : Printable(q[i])

LEMMA CoverDrawn ==
  ASSUME NEW n \in Nat, n >= 24, NEW q \in RandomPrintable(n)
  PROVE  IsCover(q, n) /\ ~ LooksLikeHTTP(q)
<1>1. CASE q = Letters(n)
  <2>1. Len(q) = n /\ DOMAIN q = 1 .. n /\ \A i \in 1 .. n : q[i] = 97 + ((i - 1) % 26)
    BY <1>1 DEF Letters
  <2>2. \A i \in 1 .. n : q[i] \in Int /\ 32 <= q[i] /\ q[i] <= 126
    BY <2>1
  <2>3. q \in Seq(Int)
    BY <1>1 DEF Letters
  <2>4. q[1] = 97
    BY <2>1
  <2>5. ~ LooksLikeHTTP(q)
    <3> SUFFICES ASSUME NEW m \in Methods, Begins(q, m) PROVE FALSE
      BY DEF LooksLikeHTTP
    <3>1. Len(m) = 4 /\ m[1] # 97
      BY DEF Methods, Get, Post
    <3>2. SubSeq(q, 1, 4) = m
      BY <3>1 DEF Begins
    <3>3. SubSeq(q, 1, 4)[1] = q[1]
      BY <2>1, <2>3
    <3> QED BY <2>4, <3>1, <3>2, <3>3
  <2> QED BY <2>1, <2>2, <2>3, <2>5, PrintableIs DEF IsCover
<1>2. CASE q \in Drawn(n) /\ ~ LooksLikeHTTP(q)
  <2>1. PICK start \in {71, 80, 97} \X {69, 79, 97} \X {84, 83, 97} \X {32, 84, 97} :
          q = [i \in 1 .. n |-> IF i <= 4 THEN start[i] ELSE 97]
    BY <1>2 DEF Drawn
  <2>2. \A i \in 1 .. 4 : start[i] \in Int /\ 32 <= start[i] /\ start[i] <= 126
    <3>1. /\ start[1] \in {71, 80, 97} /\ start[2] \in {69, 79, 97}
          /\ start[3] \in {84, 83, 97} /\ start[4] \in {32, 84, 97}
      OBVIOUS
    <3> QED BY <3>1
  <2>3. Len(q) = n /\ \A i \in 1 .. n : q[i] = IF i <= 4 THEN start[i] ELSE 97
    BY <2>1
  <2>4. \A i \in 1 .. n : q[i] \in Int /\ 32 <= q[i] /\ q[i] <= 126
    <3> SUFFICES ASSUME NEW i \in 1 .. n PROVE q[i] \in Int /\ 32 <= q[i] /\ q[i] <= 126
      OBVIOUS
    <3>1. CASE i <= 4
      BY <2>2, <2>3, <3>1
    <3>2. CASE ~(i <= 4)
      BY <2>3, <3>2
    <3> QED BY <3>1, <3>2
  <2>5. q \in Seq(Int)
    <3>1. q \in [1 .. n -> Int]
      BY <2>1, <2>3, <2>4
    <3> QED BY <3>1
  <2> QED BY <1>2, <2>3, <2>4, <2>5, PrintableIs DEF IsCover
<1> QED BY <1>1, <1>2 DEF RandomPrintable

\* A datagram, byte by byte: the mark, what it leaves of the cover, the frame.
IsWire(w, n, cover, mark, frame) ==
  /\ w \in Seq(Int) /\ Len(w) = n + Len(frame)
  /\ \A i \in 1 .. n : i <= Len(mark) => w[i] = mark[i]
  /\ \A i \in 1 .. n : i > Len(mark) => w[i] = cover[i]
  /\ \A i \in 1 .. Len(frame) : w[n + i] = frame[i]

LEMMA JoinedAt ==
  ASSUME NEW a \in Seq(Int), NEW b \in Seq(Int)
  PROVE  /\ a \o b \in Seq(Int) /\ Len(a \o b) = Len(a) + Len(b)
         /\ \A i \in 1 .. Len(a) : (a \o b)[i] = a[i]
         /\ \A i \in 1 .. Len(b) : (a \o b)[Len(a) + i] = b[i]
OBVIOUS

LEMMA RestAt ==
  ASSUME NEW a \in Seq(Int), NEW k \in Nat, k <= Len(a)
  PROVE  /\ SubSeq(a, k + 1, Len(a)) \in Seq(Int)
         /\ Len(SubSeq(a, k + 1, Len(a))) = Len(a) - k
         /\ \A i \in 1 .. (Len(a) - k) : SubSeq(a, k + 1, Len(a))[i] = a[k + i]
OBVIOUS

LEMMA MarkOver ==
  ASSUME NEW n \in Nat, NEW cover \in Seq(Int), Len(cover) = n,
         NEW mark \in Seq(Int), Len(mark) <= n, NEW frame \in Seq(Int)
  PROVE  IsWire(Marked(cover, mark) \o frame, n, cover, mark, frame)
<1> DEFINE left == SubSeq(cover, Len(mark) + 1, Len(cover))
           over == mark \o left
           w == over \o frame
<1>0. Len(mark) \in Nat /\ Len(frame) \in Nat
  OBVIOUS
<1>1. Marked(cover, mark) = over
  BY <1>0 DEF Marked
<1>2. /\ left \in Seq(Int) /\ Len(left) = n - Len(mark)
      /\ \A i \in 1 .. (n - Len(mark)) : left[i] = cover[Len(mark) + i]
  BY <1>0, RestAt
<1> HIDE DEF left
<1>3. /\ over \in Seq(Int) /\ Len(over) = Len(mark) + Len(left)
      /\ \A i \in 1 .. Len(mark) : over[i] = mark[i]
      /\ \A i \in 1 .. Len(left) : over[Len(mark) + i] = left[i]
  BY <1>2, JoinedAt
<1> HIDE DEF over
<1>4. /\ w \in Seq(Int) /\ Len(w) = Len(over) + Len(frame)
      /\ \A i \in 1 .. Len(over) : w[i] = over[i]
      /\ \A i \in 1 .. Len(frame) : w[Len(over) + i] = frame[i]
  BY <1>3, JoinedAt
<1> HIDE DEF w
<1>5. Len(over) = n
  BY <1>0, <1>2, <1>3
<1>6. ASSUME NEW i \in 1 .. n, i <= Len(mark) PROVE w[i] = mark[i]
  <2>1. i \in 1 .. Len(mark)
    BY <1>0, <1>6
  <2>2. w[i] = over[i]
    BY <1>4, <1>5
  <2> QED BY <2>1, <2>2, <1>3
<1>7. ASSUME NEW i \in 1 .. n, i > Len(mark) PROVE w[i] = cover[i]
  <2> DEFINE j == i - Len(mark)
  <2>2. j \in 1 .. (n - Len(mark)) /\ Len(mark) + j = i
    BY <1>0, <1>7
  <2> HIDE DEF j
  <2>3. w[i] = over[i]
    BY <1>4, <1>5
  <2>4. over[Len(mark) + j] = left[j] /\ left[j] = cover[Len(mark) + j]
    BY <1>2, <1>3, <2>2
  <2> QED BY <2>2, <2>3, <2>4
<1>8. IsWire(w, n, cover, mark, frame)
  BY <1>4, <1>5, <1>6, <1>7 DEF IsWire
<1> QED BY <1>1, <1>8 DEF w

LEMMA WirePrintable ==
  ASSUME NEW n \in Nat, NEW cover, IsCover(cover, n), NEW mark \in Seq(Int), ValidMark(mark),
         NEW frame, NEW w, IsWire(w, n, cover, mark, frame)
  PROVE  \A i \in 1 .. n : Printable(w[i])
<1> SUFFICES ASSUME NEW i \in 1 .. n PROVE Printable(w[i])
  OBVIOUS
<1>0. i \in Nat /\ Len(mark) \in Nat
  OBVIOUS
<1>1. CASE i <= Len(mark)
  <2>1. w[i] = mark[i]
    BY <1>1 DEF IsWire
  <2>2. i \in DOMAIN mark
    BY <1>0, <1>1
  <2>3. mark[i] \in 33 .. 126
    BY <2>2 DEF ValidMark
  <2>4. \A b \in 33 .. 126 : Printable(b)
    BY PrintableIs
  <2> QED BY <2>1, <2>3, <2>4
<1>2. CASE i > Len(mark)
  <2>1. w[i] = cover[i]
    BY <1>2 DEF IsWire
  <2>2. Printable(cover[i])
    BY DEF IsCover
  <2> QED BY <2>1, <2>2
<1> QED BY <1>0, <1>1, <1>2

LEMMA WireRules ==
  ASSUME NEW n \in Nat, n >= 24, NEW w \in Seq(Int), Len(w) >= n,
         \A i \in 1 .. n : Printable(w[i])
  PROVE  FEPExemption(w) /\ 2 \in Rules(w) /\ 4 \in Rules(w)
<1> DEFINE printable == {i \in DOMAIN w : Printable(w[i])}
<1>0. Len(w) \in Nat /\ DOMAIN w = 1 .. Len(w)
  OBVIOUS
<1>1. \A i \in Int : 1 <= i /\ i <= n => i \in printable
  <2> SUFFICES ASSUME NEW i \in Int, 1 <= i, i <= n PROVE i \in printable
    OBVIOUS
  <2>1. i \in 1 .. n /\ i \in DOMAIN w
    BY <1>0
  <2> QED BY <2>1
<1> HIDE DEF printable
<1>2. 1 .. 6 \subseteq printable
  <2> SUFFICES ASSUME NEW i \in 1 .. 6 PROVE i \in printable
    OBVIOUS
  <2>1. i \in Int /\ 1 <= i /\ i <= n
    OBVIOUS
  <2> QED BY <2>1, <1>1
<1>3. 1 .. (1 + 20) \subseteq printable
  <2> SUFFICES ASSUME NEW i \in 1 .. (1 + 20) PROVE i \in printable
    OBVIOUS
  <2>1. i \in Int /\ 1 <= i /\ i <= n
    OBVIOUS
  <2> QED BY <2>1, <1>1
<1>4. 1 \in printable
  BY <1>1
<1>5. \E i \in printable : i .. (i + 20) \subseteq printable
  <2> WITNESS 1 \in printable
  <2> QED BY <1>3
<1>6. 2 \in Rules(w)
  <2>1. Len(w) >= 6
    BY <1>0
  <2>2. 2 = 2 /\ Len(w) >= 6 /\ 1 .. 6 \subseteq {i \in DOMAIN w : Printable(w[i])}
    BY <1>2, <2>1 DEF printable
  <2>3. 2 \in 1 .. 5
    OBVIOUS
  <2> QED BY <2>2, <2>3, Zenon DEF Rules
<1>7. 4 \in Rules(w)
  <2>1. LET p == {i \in DOMAIN w : Printable(w[i])} IN \E i \in p : i .. (i + 20) \subseteq p
    BY <1>5 DEF printable
  <2>2. 4 \in 1 .. 5
    OBVIOUS
  <2> QED BY <2>1, <2>2, Zenon DEF Rules
<1> QED BY <1>6, <1>7 DEF FEPExemption

LEMMA MethodBytes ==
  ASSUME NEW m \in Methods
  PROVE  m \in Seq(Int) /\ Len(m) = 4
<1>1. Get \in Seq(Int) /\ Len(Get) = 4
  BY DEF Get
<1>2. Post \in Seq(Int) /\ Len(Post) = 4
  BY DEF Post
<1> QED BY <1>1, <1>2 DEF Methods

LEMMA SameSeq ==
  ASSUME NEW a \in Seq(Int), NEW b \in Seq(Int), Len(a) = Len(b),
         \A i \in 1 .. Len(a) : a[i] = b[i]
  PROVE  a = b
OBVIOUS

LEMMA BytesAreInts ==
  ASSUME NEW q \in Seq(0 .. 255)
  PROVE  q \in Seq(Int)
<1>1. 0 .. 255 \subseteq Int
  OBVIOUS
<1> QED BY <1>1, SeqMonotonic, Zenon

LEMMA BeginsBytes ==
  ASSUME NEW m \in Methods, NEW q \in Seq(Int)
  PROVE  Begins(q, m) <=> Len(q) >= 4 /\ \A i \in 1 .. 4 : q[i] = m[i]
<1>1. m \in Seq(Int) /\ Len(m) = 4 /\ Len(q) \in Nat
  BY MethodBytes
<1>2. ASSUME Len(q) >= 4
      PROVE  SubSeq(q, 1, 4) = m <=> \A i \in 1 .. 4 : q[i] = m[i]
  <2>1. SubSeq(q, 1, 4) \in Seq(Int) /\ Len(SubSeq(q, 1, 4)) = 4
    BY <1>1, <1>2
  <2>2. \A i \in 1 .. 4 : SubSeq(q, 1, 4)[i] = q[i]
    BY <1>1, <1>2
  <2> DEFINE start == SubSeq(q, 1, 4)
  <2> HIDE DEF start
  <2>3. start \in Seq(Int) /\ Len(start) = 4 /\ \A i \in 1 .. 4 : start[i] = q[i]
    BY <2>1, <2>2 DEF start
  <2>4. (\A i \in 1 .. 4 : start[i] = m[i]) => start = m
    BY <1>1, <2>3, SameSeq
  <2> QED BY <2>3, <2>4 DEF start
<1> QED BY <1>1, <1>2 DEF Begins

LEMMA WireSpells ==
  ASSUME NEW n \in Nat, n >= 24, NEW cover, IsCover(cover, n), ~ LooksLikeHTTP(cover),
         NEW mark \in Seq(Int), NEW frame, NEW w, IsWire(w, n, cover, mark, frame),
         \A i \in 1 .. n : Printable(w[i]), 5 \in Rules(w)
  PROVE  Spells(mark)
<1>1. LooksLikeTLS(w) \/ LooksLikeHTTP(w)
  <2>1. 5 # 1 /\ 5 # 2 /\ 5 # 3 /\ 5 # 4
    OBVIOUS
  <2> QED BY <2>1, Zenon DEF Rules
<1>2. ~ LooksLikeTLS(w)
  <2>1. Printable(w[1])
    OBVIOUS
  <2>2. w[1] # 22
    BY <2>1, PrintableIs
  <2> QED BY <2>2 DEF LooksLikeTLS
<1>3. PICK m \in Methods : Begins(w, m)
  BY <1>1, <1>2 DEF LooksLikeHTTP
<1>4. \A i \in 1 .. 4 : w[i] = m[i]
  BY <1>3, BeginsBytes DEF IsWire
<1>5. cover \in Seq(Int) /\ Len(cover) = n
  BY DEF IsCover
<1>6. ~ \A i \in 1 .. 4 : cover[i] = m[i]
  <2>1. ~ Begins(cover, m)
    BY DEF LooksLikeHTTP
  <2>2. Begins(cover, m) <=> Len(cover) >= 4 /\ \A i \in 1 .. 4 : cover[i] = m[i]
    BY <1>5, BeginsBytes
  <2>3. Len(cover) >= 4
    BY <1>5
  <2> QED BY <2>1, <2>2, <2>3
<1>7. mark # <<>>
  <2> SUFFICES ASSUME mark = <<>> PROVE FALSE
    OBVIOUS
  <2>1. Len(mark) = 0
    OBVIOUS
  <2>2. ASSUME NEW i \in 1 .. 4 PROVE cover[i] = m[i]
    <3>1. i \in 1 .. n /\ i > Len(mark)
      BY <2>1
    <3>2. w[i] = cover[i]
      BY <3>1 DEF IsWire
    <3> QED BY <3>2, <1>4
  <2> QED BY <2>2, <1>6
<1>8. ASSUME NEW i \in DOMAIN mark, i <= 4 PROVE mark[i] = m[i]
  <2>1. i \in 1 .. n /\ i \in 1 .. 4 /\ i <= Len(mark)
    BY <1>8
  <2>2. w[i] = mark[i]
    BY <2>1 DEF IsWire
  <2> QED BY <2>1, <2>2, <1>4
<1> QED BY <1>7, <1>8 DEF Spells

LEMMA WireUnwraps ==
  ASSUME NEW n \in Nat, NEW cover, NEW mark, NEW frame \in Seq(Int), NEW w,
         IsWire(w, n, cover, mark, frame)
  PROVE  Unwrap(n, w) = frame
<1> DEFINE rest == SubSeq(w, n + 1, Len(w))
<1>1. w \in Seq(Int) /\ Len(w) = n + Len(frame) /\ Len(frame) \in Nat
  BY DEF IsWire
<1>2. /\ rest \in Seq(Int) /\ Len(rest) = Len(w) - n
      /\ \A i \in 1 .. (Len(w) - n) : rest[i] = w[n + i]
  BY <1>1, RestAt, SMTT(30)
<1> HIDE DEF rest
<1>3. Len(w) - n = Len(frame)
  BY <1>1
<1>4. \A i \in 1 .. Len(frame) : rest[i] = frame[i]
  BY <1>2, <1>3 DEF IsWire
<1>5. Len(rest) = Len(frame) /\ \A i \in 1 .. Len(rest) : rest[i] = frame[i]
  BY <1>2, <1>3, <1>4
<1>6. rest = frame
  BY <1>2, <1>5, SameSeq
<1> QED BY <1>6 DEF Unwrap, rest

\* However a cover comes out and whatever is written over it, the datagram passes
\* the test by its first bytes.
LEMMA CoversAlwaysExempt == CoversExempt
<1> SUFFICES ASSUME NEW n \in Lengths, NEW mark \in {k \in Marks : ValidMark(k)}, NEW frame \in Frames,
                    NEW w \in WrapDatagram(n, mark, frame)
             PROVE  /\ FEPExemption(w) /\ 2 \in Rules(w) /\ 4 \in Rules(w)
                    /\ 5 \in Rules(w) => Spells(mark)
                    /\ Unwrap(n, w) = frame
  BY DEF CoversExempt
<1>1. n \in Nat /\ n >= 24
  BY CoverAssumption
<1>2. mark \in Seq(Int) /\ frame \in Seq(Int)
  <2>1. mark \in Seq(0 .. 255) /\ frame \in Seq(0 .. 255)
    BY CoverAssumption
  <2> QED BY <2>1, BytesAreInts
<1>3. ValidMark(mark)
  OBVIOUS
<1>4. PICK c \in RandomPrintable(n) : w = Marked(c, mark) \o frame
  BY DEF WrapDatagram
<1>5. IsCover(c, n) /\ ~ LooksLikeHTTP(c)
  BY <1>1, CoverDrawn
<1>6. Len(mark) <= n
  <2>1. Len(mark) <= 16 /\ Len(mark) \in Nat
    BY <1>2, <1>3 DEF ValidMark
  <2> QED BY <1>1, <2>1
<1>7. IsWire(w, n, c, mark, frame)
  <2>1. c \in Seq(Int) /\ Len(c) = n
    BY <1>5 DEF IsCover
  <2> QED BY <1>1, <1>2, <1>4, <1>6, <2>1, MarkOver
<1>8. \A i \in 1 .. n : Printable(w[i])
  BY <1>1, <1>2, <1>3, <1>5, <1>7, WirePrintable
<1>9. FEPExemption(w) /\ 2 \in Rules(w) /\ 4 \in Rules(w)
  <2>1. w \in Seq(Int) /\ Len(w) >= n
    BY <1>1, <1>2, <1>7 DEF IsWire
  <2> QED BY <1>1, <1>8, <2>1, WireRules
<1>10. 5 \in Rules(w) => Spells(mark)
  BY <1>1, <1>2, <1>5, <1>7, <1>8, WireSpells
<1>11. Unwrap(n, w) = frame
  BY <1>1, <1>2, <1>7, WireUnwraps
<1> QED BY <1>9, <1>10, <1>11

------------------------------------------------------------------------------
(* What the network sees *)

\* Whatever the MTU, the marks and the frames: a datagram of a handshake has no
\* size that attracts replays and begins as text, a packet of the session it opens
\* is padded onto a rung as far as its fields can say so, and Encode never fails.
THEOREM TrafficStaysShaped == Spec => []TrafficShaped
<1>1. TrafficShaped
  BY LengthAlwaysFits, ShapedOnARung, NeverInBand, CoversAlwaysExempt, Zenon DEF TrafficShaped
<1> QED BY <1>1, PTL

------------------------------------------------------------------------------
(* The codec: functions that are defined step by step *)

\* A set that has 0 and, with each number, the next one has every number up to n.
LEMMA CountedUpTo ==
  ASSUME NEW n \in Nat, NEW S, 0 \in S, \A k \in 1 .. n : k - 1 \in S => k \in S
  PROVE  0 .. n \subseteq S
<1> SUFFICES ASSUME (0 .. n) \ S # {} PROVE FALSE
  OBVIOUS
<1> DEFINE T == (0 .. n) \ S
           R == OpToRel(<, Nat)
<1>1. PICK k \in T : \A j \in T : <<j, k>> \notin R
  <2>1. T \subseteq Nat /\ T # {}
    OBVIOUS
  <2> HIDE DEF T, R
  <2>2. IsWellFoundedOn(R, Nat)
    BY NatLessThanWellFounded DEF R
  <2> QED BY <2>1, <2>2, WFMin
<1>2. k \in 1 .. n /\ k - 1 \in Nat /\ k - 1 < k /\ k - 1 \in 0 .. n
  <2>1. k \in 0 .. n /\ k \notin S
    OBVIOUS
  <2>2. k # 0
    BY <2>1
  <2> QED BY <2>1, <2>2
<1>3. k - 1 \in S
  <2>1. <<k - 1, k>> \in R
    BY <1>2 DEF OpToRel
  <2> QED BY <1>1, <1>2, <2>1
<1> QED BY <1>1, <1>2, <1>3

\* f begins with a and takes one step after the other.
Stepped(f, n, a, step, D) ==
  /\ f \in [0 .. n -> D] /\ f[0] = a
  /\ \A k \in 1 .. n : f[k] = step[k][f[k - 1]]

\* There is such a function, whatever the steps, as long as they stay in D.
LEMMA Recursion ==
  ASSUME NEW D, NEW a \in D, NEW n \in Nat, NEW step,
         \A k \in 1 .. n : \A x \in D : step[k][x] \in D
  PROVE  \E f : Stepped(f, n, a, step, D)
<1> DEFINE S == {k \in 0 .. n : \E f : Stepped(f, k, a, step, D)}
<1>1. 0 \in S
  <2> DEFINE f == [k \in 0 .. 0 |-> a]
  <2>1. Stepped(f, 0, a, step, D)
    BY DEF Stepped
  <2> QED BY <2>1
<1>2. ASSUME NEW k \in 1 .. n, k - 1 \in S PROVE k \in S
  <2>1. PICK f : Stepped(f, k - 1, a, step, D)
    BY <1>2
  <2> DEFINE h == [j \in 0 .. k |-> IF j = k THEN step[k][f[k - 1]] ELSE f[j]]
  <2>2. f \in [0 .. k - 1 -> D] /\ f[0] = a /\ \A j \in 1 .. k - 1 : f[j] = step[j][f[j - 1]]
    BY <2>1 DEF Stepped
  <2>3. k - 1 \in 0 .. k - 1 /\ k - 1 \in 0 .. k
    OBVIOUS
  <2>4. step[k][f[k - 1]] \in D
    BY <2>2, <2>3
  <2>5. h \in [0 .. k -> D]
    BY <2>2, <2>4
  <2>6. h[0] = a
    BY <2>2
  <2>7. ASSUME NEW j \in 1 .. k PROVE h[j] = step[j][h[j - 1]]
    <3>1. CASE j = k
      <4>1. h[j] = step[k][f[k - 1]] /\ h[j - 1] = f[k - 1]
        BY <3>1, <2>3
      <4> QED BY <3>1, <4>1
    <3>2. CASE j # k
      <4>1. j \in 1 .. k - 1 /\ j - 1 \in 0 .. k /\ j - 1 # k
        BY <3>2
      <4>2. h[j] = f[j] /\ h[j - 1] = f[j - 1]
        BY <3>2, <4>1
      <4> QED BY <2>2, <4>1, <4>2
    <3> QED BY <3>1, <3>2
  <2>8. Stepped(h, k, a, step, D)
    <3> HIDE DEF h
    <3> QED BY <2>5, <2>6, <2>7 DEF Stepped
  <2> HIDE DEF h
  <2> QED BY <2>8
<1> HIDE DEF S
<1>3. n \in S
  BY <1>1, <1>2, CountedUpTo, n \in 0 .. n
<1> QED BY <1>3 DEF S

\* Shifted is the function its recursion describes.
LEMMA ShiftedIs ==
  ASSUME NEW v \in Nat, NEW w \in Nat
  PROVE  /\ Shifted(v, w) \in [0 .. w -> Nat]
         /\ Shifted(v, w)[0] = v
         /\ \A k \in 1 .. w : Shifted(v, w)[k] = Shifted(v, w)[k - 1] \div Byte
<1> DEFINE F(f) == f = [k \in 0 .. w |-> IF k = 0 THEN v ELSE f[k - 1] \div Byte]
           step == [k \in 1 .. w |-> [x \in Nat |-> x \div Byte]]
           g == Shifted(v, w)
           S == {k \in 0 .. w : g[k] \in Nat}
<1>0. \A x \in Nat : x \div Byte \in Nat
  BY DEF Byte
<1>1. \E f : Stepped(f, w, v, step, Nat)
  <2>1. \A k \in 1 .. w : \A x \in Nat : step[k][x] \in Nat
    BY <1>0
  <2> HIDE DEF step
  <2> QED BY <2>1, Recursion
<1>2. PICK f : Stepped(f, w, v, step, Nat)
  BY <1>1
<1>3. F(f)
  <2>1. f \in [0 .. w -> Nat] /\ f[0] = v /\ \A k \in 1 .. w : f[k] = step[k][f[k - 1]]
    BY <1>2 DEF Stepped
  <2>2. ASSUME NEW k \in 0 .. w PROVE f[k] = IF k = 0 THEN v ELSE f[k - 1] \div Byte
    <3>1. CASE k = 0
      BY <3>1, <2>1
    <3>2. CASE k # 0
      <4>1. k \in 1 .. w /\ k - 1 \in 0 .. w
        BY <3>2
      <4>2. f[k - 1] \in Nat
        BY <2>1, <4>1
      <4>3. step[k][f[k - 1]] = f[k - 1] \div Byte
        BY <4>1, <4>2
      <4> HIDE DEF step
      <4> QED BY <3>2, <4>1, <4>3, <2>1
    <3> QED BY <3>1, <3>2
  <2> HIDE DEF step
  <2> QED BY <2>1, <2>2
<1>4. F(g)
  <2>1. g = CHOOSE h : F(h)
    BY DEF Shifted
  <2> HIDE DEF F, g
  <2> QED BY <1>3, <2>1
<1> HIDE DEF g
<1>5. g[0] = v /\ \A k \in 1 .. w : g[k] = g[k - 1] \div Byte
  BY <1>4
<1>6. \A k \in 0 .. w : g[k] \in Nat
  <2>1. 0 \in S
    BY <1>5
  <2>2. ASSUME NEW k \in 1 .. w, k - 1 \in S PROVE k \in S
    BY <1>5, <1>0, <2>2
  <2>3. 0 .. w \subseteq S
    <3> HIDE DEF S
    <3> QED BY <2>1, <2>2, CountedUpTo
  <2> QED BY <2>3
<1>7. g \in [0 .. w -> Nat]
  BY <1>4, <1>6
<1> QED BY <1>5, <1>7 DEF g

\* The bytes of a number, the lowest first.
Little(v, w) == [i \in 1 .. w |-> Shifted(v, w)[i - 1] % Byte]

\* A number is written with the bytes of its width, in one order or the other.
LEMMA EncodedInt ==
  ASSUME NEW v \in Nat, NEW w \in Nat, NEW e
  PROVE  /\ EncodeInt(v, w, e) = IF e = "big" THEN Reverse(Little(v, w)) ELSE Little(v, w)
         /\ EncodeInt(v, w, e) \in Seq(Int) /\ Len(EncodeInt(v, w, e)) = w
         /\ Little(v, w) \in Seq(Int) /\ Len(Little(v, w)) = w
<1> DEFINE s == Little(v, w)
<1>1. EncodeInt(v, w, e) = IF e = "big" THEN Reverse(s) ELSE s
  BY DEF EncodeInt, Little
<1>2. \A i \in 1 .. w : s[i] \in Int
  <2>1. \A k \in 0 .. w : Shifted(v, w)[k] \in Nat
    BY ShiftedIs
  <2>2. \A x \in Nat : x % Byte \in Int
    BY DEF Byte
  <2> QED BY <2>1, <2>2 DEF Little
<1>3. s \in Seq(Int) /\ Len(s) = w
  <2>1. s = [i \in 1 .. w |-> s[i]]
    BY DEF Little
  <2> HIDE DEF s
  <2> QED BY <1>2, <2>1
<1> HIDE DEF s
<1>4. Reverse(s) \in Seq(Int) /\ Len(Reverse(s)) = w
  BY <1>2, <1>3 DEF Reverse
<1> QED BY <1>1, <1>3, <1>4 DEF s

\* decodeInt undoes encodeInt, whichever end comes first, for a value that fits.
LEMMA IntReadsBack ==
  ASSUME NEW v \in Nat, NEW w \in Nat, NEW e, Fits(v, w)
  PROVE  DecodeInt(EncodeInt(v, w, e), e) = v
<1> DEFINE b == EncodeInt(v, w, e)
           big == IF e = "big" THEN b ELSE Reverse(b)
           left == Shifted(v, w)
           F(f) == f = [k \in 0 .. Len(b) |-> IF k = 0 THEN 0 ELSE f[k - 1] * Byte + big[k]]
           h == [k \in 0 .. w |-> left[w - k]]
           g == CHOOSE f : F(f)
           S == {k \in 0 .. w : g[k] = h[k]}
<1>1. Len(b) = w /\ w = Len(b)
  BY EncodedInt
<1>2. \A k \in 1 .. w : big[k] = left[w - k] % Byte
  <2>1. /\ b = IF e = "big" THEN Reverse(Little(v, w)) ELSE Little(v, w)
        /\ Len(Little(v, w)) = w
    BY EncodedInt
  <2>2. \A k \in 1 .. w : /\ w - k + 1 \in 1 .. w /\ w - k \in 0 .. w
                          /\ w - k + 1 - 1 = w - k /\ (w - (w - k + 1)) + 1 = k
    OBVIOUS
  <2>3. \A k \in 1 .. w : Little(v, w)[w - k + 1] = left[w - k] % Byte
    BY <2>2 DEF Little
  <2>4. \A k \in 1 .. w : big[k] = Little(v, w)[w - k + 1]
    <3>1. CASE e = "big"
      <4> HIDE DEF left
      <4> QED BY <2>1, <2>2, <3>1 DEF Reverse
    <3>2. CASE e # "big"
      <4>1. b = Little(v, w) /\ big = Reverse(b)
        BY <2>1, <3>2
      <4> HIDE DEF b, big, left
      <4> QED BY <2>1, <2>2, <4>1 DEF Reverse
    <3> QED BY <3>1, <3>2
  <2> HIDE DEF b, big, left
  <2> QED BY <2>3, <2>4
<1>3. DecodeInt(b, e) = g[w]
  <2>1. DecodeInt(b, e) = g[Len(b)]
    BY DEF DecodeInt
  <2> HIDE DEF b, g
  <2> QED BY <2>1, <1>1
<1> HIDE DEF b, big, left
<1>4. /\ left \in [0 .. w -> Nat] /\ left[0] = v
      /\ \A k \in 1 .. w : left[k] = left[k - 1] \div Byte
      /\ left[w] = 0
  BY ShiftedIs DEF left, Fits
<1>5. h[0] = 0 /\ h[w] = v
  BY <1>4
<1>6. \A k \in 1 .. w : h[k] = h[k - 1] * Byte + big[k]
  <2> TAKE k \in 1 .. w
  <2>1. /\ w - k \in 0 .. w /\ w - (k - 1) \in 1 .. w /\ w - (k - 1) - 1 = w - k
        /\ k \in 0 .. w /\ k - 1 \in 0 .. w
    OBVIOUS
  <2>2. h[k] = left[w - k] /\ h[k - 1] = left[w - (k - 1)]
    BY <2>1
  <2>3. left[w - (k - 1)] = left[w - k] \div Byte /\ left[w - k] \in Nat
    BY <1>4, <2>1
  <2>4. \A x \in Nat : x = (x \div Byte) * Byte + (x % Byte)
    BY DEF Byte
  <2> HIDE DEF h
  <2>5. left[w - k] = (left[w - k] \div Byte) * Byte + (left[w - k] % Byte)
    BY <2>3, <2>4
  <2>6. big[k] = left[w - k] % Byte
    BY <1>2
  <2> QED BY <2>2, <2>3, <2>5, <2>6
<1>7. F(h)
  <2>1. ASSUME NEW k \in 0 .. w
        PROVE  h[k] = IF k = 0 THEN 0 ELSE h[k - 1] * Byte + big[k]
    <3>1. CASE k = 0
      BY <3>1, <1>5
    <3>2. CASE k # 0
      <4>1. k \in 1 .. w
        BY <3>2
      <4> HIDE DEF h
      <4> QED BY <1>6, <3>2, <4>1
    <3> QED BY <3>1, <3>2
  <2>2. h = [k \in 0 .. w |-> h[k]]
    OBVIOUS
  <2> HIDE DEF h
  <2>3. h = [k \in 0 .. w |-> IF k = 0 THEN 0 ELSE h[k - 1] * Byte + big[k]]
    BY <2>1, <2>2
  <2> QED BY <2>3, <1>1
<1>8. F(g)
  <2> HIDE DEF F, h
  <2> QED BY <1>7
<1> HIDE DEF g, h
<1>9. g[w] = h[w]
  <2>1. g[0] = 0 /\ \A k \in 1 .. w : g[k] = g[k - 1] * Byte + big[k]
    BY <1>8, <1>1
  <2>2. 0 \in S
    BY <2>1, <1>5
  <2>3. ASSUME NEW k \in 1 .. w, k - 1 \in S PROVE k \in S
    BY <2>1, <1>6, <2>3
  <2>4. 0 .. w \subseteq S
    <3> HIDE DEF S
    <3> QED BY <2>2, <2>3, CountedUpTo
  <2> QED BY <2>4
<1> QED BY <1>3, <1>5, <1>9 DEF b

------------------------------------------------------------------------------
(* Pieces put together *)

\* g is what comes together of 0, 1, ... of the pieces.
Joins(g, seqs) ==
  /\ g \in [0 .. Len(seqs) -> Seq(Int)] /\ g[0] = <<>>
  /\ \A k \in 1 .. Len(seqs) : g[k] = g[k - 1] \o seqs[k]

\* FlattenSeq joins the sequences one after the other.
LEMMA FlatJoins ==
  ASSUME NEW seqs \in Seq(Seq(Int))
  PROVE  \E g : Joins(g, seqs) /\ FlattenSeq(seqs) = g[Len(seqs)]
<1> DEFINE n == Len(seqs)
           step == [k \in 1 .. n |-> [x \in Seq(Int) |-> x \o seqs[k]]]
           F(f) == f = [i \in 1 .. n |-> IF i = 1 THEN seqs[i] ELSE f[i - 1] \o seqs[i]]
           c == CHOOSE f : F(f)
<1>0. n \in Nat /\ \A k \in 1 .. n : seqs[k] \in Seq(Int)
  OBVIOUS
<1>1. \A k \in 1 .. n : \A x \in Seq(Int) : step[k][x] = x \o seqs[k] /\ step[k][x] \in Seq(Int)
  BY <1>0
<1>2. PICK g : Stepped(g, n, <<>>, step, Seq(Int))
  <2>1. <<>> \in Seq(Int)
    OBVIOUS
  <2> HIDE DEF n, step
  <2> QED BY <1>0, <1>1, <2>1, Recursion
<1> HIDE DEF step
<1>3. Joins(g, seqs)
  <2>1. g \in [0 .. n -> Seq(Int)] /\ g[0] = <<>> /\ \A k \in 1 .. n : g[k] = step[k][g[k - 1]]
    BY <1>2 DEF Stepped
  <2>2. ASSUME NEW k \in 1 .. n PROVE g[k] = g[k - 1] \o seqs[k]
    <3>1. k - 1 \in 0 .. n
      BY <1>0
    <3>2. g[k - 1] \in Seq(Int)
      BY <2>1, <3>1
    <3> HIDE DEF n
    <3> QED BY <2>1, <1>1, <3>2
  <2> QED BY <2>1, <2>2 DEF Joins
<1>4. FlattenSeq(seqs) = g[n]
  <2>1. CASE n = 0
    <3>1. seqs = <<>>
      BY <2>1
    <3>2. FlattenSeq(seqs) = seqs
      BY <2>1 DEF FlattenSeq
    <3> QED BY <2>1, <3>1, <3>2, <1>3 DEF Joins
  <2>2. CASE n # 0
    <3>1. FlattenSeq(seqs) = c[n]
      BY <2>2 DEF FlattenSeq
    <3> DEFINE h == [i \in 1 .. n |-> g[i]]
               S == {k \in 0 .. n : k = 0 \/ c[k] = g[k]}
    <3> HIDE DEF c
    <3>2. g[0] = <<>> /\ \A k \in 1 .. n : g[k] = g[k - 1] \o seqs[k]
      BY <1>3 DEF Joins
    <3>3. g[1] = seqs[1]
      <4>1. 1 \in 1 .. n /\ 1 - 1 = 0
        BY <1>0, <2>2
      <4>2. g[1] = <<>> \o seqs[1] /\ seqs[1] \in Seq(Int)
        BY <3>2, <4>1, <1>0
      <4> QED BY <4>2, ConcatEmptySeq
    <3>4. F(h)
      <4>1. ASSUME NEW i \in 1 .. n
            PROVE  h[i] = IF i = 1 THEN seqs[i] ELSE h[i - 1] \o seqs[i]
        <5>1. CASE i = 1
          BY <5>1, <3>3
        <5>2. CASE i # 1
          <6>1. i - 1 \in 1 .. n
            BY <5>2
          <6>2. h[i - 1] = g[i - 1] /\ h[i] = g[i]
            BY <6>1
          <6> HIDE DEF h
          <6> QED BY <5>2, <6>2, <3>2
        <5> QED BY <5>1, <5>2
      <4>2. h = [i \in 1 .. n |-> h[i]]
        OBVIOUS
      <4> HIDE DEF h, n
      <4> QED BY <4>1, <4>2
    <3>5. F(c)
      <4> HIDE DEF F, h
      <4> QED BY <3>4 DEF c
    <3>6. \A k \in 1 .. n : c[k] = IF k = 1 THEN seqs[k] ELSE c[k - 1] \o seqs[k]
      BY <3>5
    <3>7. 0 \in S
      BY <1>0
    <3>8. ASSUME NEW k \in 1 .. n, k - 1 \in S PROVE k \in S
      <4>1. CASE k = 1
        BY <4>1, <3>6, <3>3, <1>0
      <4>2. CASE k # 1
        <5>1. c[k - 1] = g[k - 1]
          BY <3>8, <4>2
        <5>2. c[k] = g[k]
          BY <5>1, <4>2, <3>6, <3>2
        <5> QED BY <5>2, <1>0
      <4> QED BY <4>1, <4>2
    <3>9. 0 .. n \subseteq S
      <4> HIDE DEF S, n
      <4> QED BY <3>7, <3>8, <1>0, CountedUpTo
    <3>10. n \in S
      BY <3>9, <1>0
    <3> QED BY <3>1, <3>10, <2>2
  <2> QED BY <2>1, <2>2
<1> QED BY <1>3, <1>4

\* Each piece makes what is joined longer by itself.
LEMMA JoinsGrow ==
  ASSUME NEW seqs \in Seq(Seq(Int)), NEW g, Joins(g, seqs), NEW i \in 1 .. Len(seqs)
  PROVE  /\ g[i - 1] \in Seq(Int) /\ g[i] \in Seq(Int) /\ seqs[i] \in Seq(Int)
         /\ g[i] = g[i - 1] \o seqs[i]
         /\ Len(g[i]) = Len(g[i - 1]) + Len(seqs[i])
<1>1. i - 1 \in 0 .. Len(seqs) /\ i \in 0 .. Len(seqs) /\ seqs[i] \in Seq(Int)
  OBVIOUS
<1>2. g[i - 1] \in Seq(Int) /\ g[i] \in Seq(Int) /\ g[i] = g[i - 1] \o seqs[i]
  BY <1>1 DEF Joins
<1> QED BY <1>1, <1>2, ConcatProperties

\* Behind some bytes come these, and then others.
Stands(whole, before, piece) ==
  \E r \in Seq(Int) : whole = before \o (piece \o r)

\* What is joined is as long as both together.
LEMMA JoinedLen ==
  ASSUME NEW s \in Seq(Int), NEW t \in Seq(Int)
  PROVE  s \o t \in Seq(Int) /\ Len(s \o t) = Len(s) + Len(t)
BY ConcatProperties

\* Joining is associative, for the sequences of numbers that stand here.
Associates(s, t, u) == (s \o t) \o u = s \o (t \o u)

LEMMA Regrouped ==
  ASSUME NEW s \in Seq(Int), NEW t \in Seq(Int), NEW u \in Seq(Int)
  PROVE  Associates(s, t, u)
BY ConcatAssociative DEF Associates

\* The second of four parts stands behind the first.
LEMMA FourParts ==
  ASSUME NEW a \in Seq(Int), NEW b \in Seq(Int), NEW c \in Seq(Int), NEW d \in Seq(Int)
  PROVE  Stands(((a \o b) \o c) \o d, a, b)
<1> DEFINE x == a \o b
           y == c \o d
<1>1. x \in Seq(Int) /\ y \in Seq(Int)
  BY JoinedLen
<1> HIDE DEF x, y
<1>2. Associates(x, c, d)
  BY <1>1, Regrouped, Zenon
<1>3. Associates(a, b, y)
  BY <1>1, Regrouped, Zenon
<1>4. (x \o c) \o d = x \o y /\ x \o y = a \o (b \o y)
  BY <1>2, <1>3 DEF Associates, x, y
<1>5. (x \o c) \o d = a \o (b \o y)
  BY <1>4, Zenon
<1> QED BY <1>1, <1>5, Zenon DEF Stands, x

\* One sequence begins with the other.
Extends(longer, shorter) == \E t \in Seq(Int) : longer = shorter \o t

\* What extends a sequence still does with more behind it.
LEMMA ExtendsOn ==
  ASSUME NEW a \in Seq(Int), NEW b, NEW c \in Seq(Int), Extends(b, a)
  PROVE  Extends(b \o c, a) /\ Extends(a, a)
<1>1. PICK t \in Seq(Int) : b = a \o t
  BY DEF Extends
<1>2. b \o c = a \o (t \o c) /\ t \o c \in Seq(Int)
  BY <1>1, ConcatAssociative, ConcatProperties
<1>3. a = a \o <<>> /\ <<>> \in Seq(Int)
  BY ConcatEmptySeq, EmptySeq
<1> QED BY <1>2, <1>3 DEF Extends

\* Every piece stands behind those before it.
LEMMA PieceStands ==
  ASSUME NEW seqs \in Seq(Seq(Int)), NEW g, Joins(g, seqs), NEW i \in 1 .. Len(seqs),
         NEW rest \in Seq(Int)
  PROVE  Stands(g[Len(seqs)] \o rest, g[i - 1], seqs[i])
<1> DEFINE n == Len(seqs)
           S == {j \in 0 .. n : i <= j => Extends(g[j], g[i])}
<1>0. n \in Nat /\ i \in Nat /\ 1 <= i /\ i <= n
  OBVIOUS
<1>1. 0 \in S
  BY <1>0
<1>2. ASSUME NEW j \in 1 .. n, j - 1 \in S PROVE j \in S
  <2>1. CASE i = j
    <3>1. g[i] \in Seq(Int)
      BY JoinsGrow
    <3>2. g[i] = g[i] \o <<>> /\ <<>> \in Seq(Int)
      BY <3>1, ConcatEmptySeq, EmptySeq
    <3>3. Extends(g[i], g[i])
      BY <3>2 DEF Extends
    <3> QED BY <2>1, <3>3
  <2>2. CASE i < j
    <3>1. Extends(g[j - 1], g[i])
      BY <1>2, <2>2, <1>0
    <3>2. g[j] = g[j - 1] \o seqs[j] /\ seqs[j] \in Seq(Int) /\ g[i] \in Seq(Int)
      BY JoinsGrow
    <3>3. Extends(g[j], g[i])
      BY <3>1, <3>2, ExtendsOn
    <3> QED BY <3>3
  <2>3. CASE j < i
    BY <2>3, <1>0
  <2> HIDE DEF S
  <2>4. i = j \/ i < j \/ j < i
    BY <1>0
  <2> QED BY <2>1, <2>2, <2>3, <2>4
<1>3. n \in S
  <2> HIDE DEF S, n
  <2> QED BY <1>0, <1>1, <1>2, CountedUpTo, n \in 0 .. n
<1>4. PICK t \in Seq(Int) : g[n] = g[i] \o t
  BY <1>0, <1>3 DEF Extends
<1> DEFINE u == g[i - 1]
           s == seqs[i]
<1>5. u \in Seq(Int) /\ s \in Seq(Int) /\ g[i] = u \o s
  BY JoinsGrow
<1> DEFINE whole == g[n] \o rest
<1>6. whole = ((u \o s) \o t) \o rest
  BY <1>4, <1>5
<1>7. Stands(whole, u, s)
  <2> HIDE DEF whole, u, s
  <2>1. Stands(((u \o s) \o t) \o rest, u, s)
    BY <1>5, FourParts, Zenon
  <2> QED BY <1>6, <2>1, Zenon
<1> QED BY <1>7

\* A piece that stands behind the first a numbers is cut out by its place.
LEMMA CutOut ==
  ASSUME NEW w \in Seq(Int), NEW a \in Nat, NEW s \in Seq(Int),
         a + Len(s) <= Len(w), \A k \in 1 .. Len(s) : w[a + k] = s[k]
  PROVE  SubSeq(w, a + 1, a + Len(s)) = s
<1> DEFINE b == Len(s)
           c == SubSeq(w, a + 1, a + b)
<1>0. b \in Nat
  OBVIOUS
<1>1. c = [k \in 1 .. b |-> w[a + k]]
  <2> HIDE DEF b
  <2>1. c = [k \in 1 .. (a + b) - (a + 1) + 1 |-> w[k + (a + 1) - 1]]
    BY <1>0
  <2>2. (a + b) - (a + 1) + 1 = b /\ \A k \in 1 .. b : k + (a + 1) - 1 = a + k
    BY <1>0
  <2> HIDE DEF c
  <2> QED BY <2>1, <2>2
<1>2. s = [k \in 1 .. b |-> s[k]]
  OBVIOUS
<1> HIDE DEF b, c
<1>3. c = s
  BY <1>1, <1>2 DEF b
<1> QED BY <1>3 DEF b, c

\* Where a piece stands it can be cut out, and what begins with it too.
LEMMA PieceCut ==
  ASSUME NEW whole, NEW u \in Seq(Int), NEW s \in Seq(Int), Stands(whole, u, s)
  PROVE  /\ SubSeq(whole, Len(u) + 1, Len(u) + Len(s)) = s
         /\ Extends(SubSeq(whole, Len(u) + 1, Len(whole)), s)
<1>1. PICK r \in Seq(Int) : whole = u \o (s \o r)
  BY DEF Stands
<1> DEFINE v == s \o r
<1>2. /\ v \in Seq(Int) /\ whole \in Seq(Int)
      /\ Len(v) = Len(s) + Len(r) /\ Len(whole) = Len(u) + Len(s) + Len(r)
      /\ Len(u) \in Nat /\ Len(s) \in Nat /\ Len(r) \in Nat
      /\ whole = u \o v
  <2>1. Len(u) \in Nat /\ Len(s) \in Nat /\ Len(r) \in Nat
    BY LenProperties
  <2>2. v \in Seq(Int) /\ Len(v) = Len(s) + Len(r)
    BY JoinedLen
  <2> HIDE DEF v
  <2>3. u \o v \in Seq(Int) /\ Len(u \o v) = Len(u) + Len(v)
    BY <2>2, JoinedLen, Zenon
  <2>4. whole = u \o v
    BY <1>1 DEF v
  <2> QED BY <2>1, <2>2, <2>3, <2>4
<1>3. \A k \in 1 .. Len(s) + Len(r) : whole[Len(u) + k] = v[k]
  <2> HIDE DEF v
  <2> QED BY <1>2
<1>4. \A k \in 1 .. Len(s) : v[k] = s[k]
  BY <1>2
<1>5. SubSeq(whole, Len(u) + 1, Len(u) + Len(s)) = s
  <2>1. Len(u) + Len(s) <= Len(whole) /\ \A k \in 1 .. Len(s) : whole[Len(u) + k] = s[k]
    BY <1>2, <1>3, <1>4
  <2> QED BY <1>2, <2>1, CutOut
<1>6. SubSeq(whole, Len(u) + 1, Len(whole)) = v
  <2> HIDE DEF v
  <2> DEFINE c == SubSeq(whole, Len(u) + 1, Len(whole))
  <2>1. /\ c \in Seq(Int) /\ Len(c) = Len(v)
        /\ \A k \in 1 .. Len(v) : c[k] = whole[Len(u) + k]
    <3> DEFINE m == Len(u) + 1
               n == Len(whole)
    <3>1. n = Len(u) + Len(v) /\ Len(v) \in Nat /\ Len(u) \in Nat
      BY <1>2
    <3>2. m \in Nat /\ n \in Nat /\ (n - m) + 1 = Len(v) /\ m >= 1
          /\ \A k \in 1 .. Len(v) : (m + k) - 1 = Len(u) + k
      BY <3>1
    <3>3. n = Len(whole)
      OBVIOUS
    <3> HIDE DEF m, n
    <3>4. /\ SubSeq(whole, m, n) \in Seq(Int) /\ Len(SubSeq(whole, m, n)) = (n - m) + 1
          /\ \A k \in 1 .. (n - m) + 1 : SubSeq(whole, m, n)[k] = whole[(m + k) - 1]
      <4>1. \A i \in m .. n : whole[i] \in Int
        BY <1>2, <3>2, <3>3
      <4>2. m \in Int /\ n \in Int /\ (m <= n \/ (n - m) + 1 = 0)
        BY <3>1, <3>2
      <4>3. /\ SubSeq(whole, m, n) \in Seq(Int)
            /\ Len(SubSeq(whole, m, n)) = IF m <= n THEN (n - m) + 1 ELSE 0
            /\ \A i \in 1 .. (n - m) + 1 : SubSeq(whole, m, n)[i] = whole[(m + i) - 1]
        BY <4>1, <4>2, SubSeqProperties
      <4> QED BY <4>2, <4>3
    <3>5. c = SubSeq(whole, m, n)
      BY DEF m, n
    <3> HIDE DEF c
    <3> QED BY <3>2, <3>4, <3>5
  <2>2. \A k \in 1 .. Len(v) : c[k] = v[k]
    BY <2>1, <1>2, <1>3
  <2> HIDE DEF c
  <2>3. c = v
    BY <2>1, <2>2, <1>2, SeqEqual
  <2> QED BY <2>3 DEF c
<1>7. SubSeq(whole, Len(u) + 1, Len(whole)) = s \o r
  BY <1>6
<1> QED BY <1>5, <1>7 DEF Extends

\* Offsets is the function its recursion describes.
LEMMA OffsetsAre ==
  ASSUME NEW fields \in Seq(LayoutFields)
  PROVE  /\ Offsets(fields) \in [0 .. Len(fields) -> Nat] /\ Offsets(fields)[0] = 0
         /\ \A k \in 1 .. Len(fields) :
              Offsets(fields)[k] = Offsets(fields)[k - 1] + fields[k].size
<1> DEFINE n == Len(fields)
           F(f) == f = [k \in 0 .. n |-> IF k = 0 THEN 0 ELSE f[k - 1] + fields[k].size]
           step == [k \in 1 .. n |-> [x \in Nat |-> x + fields[k].size]]
           g == Offsets(fields)
           S == {k \in 0 .. n : g[k] \in Nat}
<1>0. n \in Nat /\ \A k \in 1 .. n : fields[k].size \in Nat
  <2>1. \A f \in LayoutFields : f.size \in Nat
    BY DEF LayoutFields
  <2>2. \A k \in 1 .. n : fields[k] \in LayoutFields
    BY ElementOfSeq
  <2> QED BY <2>1, <2>2
<1>1. \A k \in 1 .. n : \A x \in Nat : step[k][x] = x + fields[k].size /\ step[k][x] \in Nat
  BY <1>0
<1>2. PICK f : Stepped(f, n, 0, step, Nat)
  <2> HIDE DEF n, step
  <2> QED BY <1>0, <1>1, Recursion
<1> HIDE DEF step
<1>3. F(f)
  <2>1. f \in [0 .. n -> Nat] /\ f[0] = 0 /\ \A k \in 1 .. n : f[k] = step[k][f[k - 1]]
    BY <1>2 DEF Stepped
  <2> HIDE DEF n
  <2>2. ASSUME NEW k \in 0 .. n PROVE f[k] = IF k = 0 THEN 0 ELSE f[k - 1] + fields[k].size
    <3>1. CASE k = 0
      BY <3>1, <2>1
    <3>2. CASE k # 0
      <4>1. k \in 1 .. n /\ k - 1 \in 0 .. n
        BY <3>2, <1>0
      <4>2. f[k - 1] \in Nat
        BY <2>1, <4>1
      <4> QED BY <3>2, <4>1, <4>2, <1>1, <2>1
    <3> QED BY <3>1, <3>2
  <2> QED BY <2>1, <2>2
<1>4. F(g)
  <2>1. g = CHOOSE h : F(h)
    BY DEF Offsets
  <2> HIDE DEF F, g
  <2> QED BY <1>3, <2>1
<1> HIDE DEF g, n
<1>5. g[0] = 0 /\ \A k \in 1 .. n : g[k] = g[k - 1] + fields[k].size
  BY <1>4, <1>0
<1>6. \A k \in 0 .. n : g[k] \in Nat
  <2>1. 0 \in S
    BY <1>5, <1>0
  <2>2. ASSUME NEW k \in 1 .. n, k - 1 \in S PROVE k \in S
    <3>1. g[k - 1] \in Nat
      BY <2>2
    <3>2. g[k] \in Nat
      BY <3>1, <1>5, <1>0
    <3> QED BY <3>2, k \in 0 .. n
  <2>3. 0 .. n \subseteq S
    <3> HIDE DEF S
    <3> QED BY <2>1, <2>2, <1>0, CountedUpTo
  <2> QED BY <2>3
<1>7. g \in [0 .. n -> Nat]
  BY <1>4, <1>6
<1> QED BY <1>5, <1>7 DEF g, n

\* The offset of a field is the length of what stands before it.
LEMMA OffsetsOfPieces ==
  ASSUME NEW fields \in Seq(LayoutFields), NEW seqs \in Seq(Seq(Int)), NEW g,
         Len(seqs) = Len(fields), Joins(g, seqs),
         \A k \in 1 .. Len(fields) : Len(seqs[k]) = fields[k].size
  PROVE  \A k \in 0 .. Len(fields) : Offsets(fields)[k] = Len(g[k])
<1> DEFINE n == Len(fields)
           S == {k \in 0 .. n : Offsets(fields)[k] = Len(g[k])}
<1>0. n \in Nat /\ n = Len(seqs)
  OBVIOUS
<1>1. 0 \in S
  BY <1>0, OffsetsAre, EmptySeq DEF Joins
<1>2. ASSUME NEW k \in 1 .. n, k - 1 \in S PROVE k \in S
  <2>1. Len(g[k]) = Len(g[k - 1]) + fields[k].size
    <3>1. k \in 1 .. Len(seqs) /\ Len(seqs[k]) = fields[k].size
      OBVIOUS
    <3> QED BY <3>1, JoinsGrow
  <2>2. Offsets(fields)[k] = Offsets(fields)[k - 1] + fields[k].size
    BY OffsetsAre
  <2> QED BY <1>2, <2>1, <2>2
<1>3. 0 .. n \subseteq S
  <2> HIDE DEF S, n
  <2> QED BY <1>0, <1>1, <1>2, CountedUpTo
<1> QED BY <1>3

------------------------------------------------------------------------------
(* The plain fields *)

\* A function on 1 .. n is a sequence.
LEMMA IsSequence ==
  ASSUME NEW T, NEW n \in Nat, NEW p, p = [k \in 1 .. n |-> p[k]], \A k \in 1 .. n : p[k] \in T
  PROVE  p \in Seq(T) /\ Len(p) = n
OBVIOUS

\* What LayoutsAssumption says of one layout.
LEMMA LayoutIs ==
  ASSUME NEW l \in Layouts
  PROVE  /\ l.plain \in Seq(LayoutFields) /\ l.enc \in Seq(LayoutFields)
         /\ Len(l.plain) \in Nat /\ Len(l.enc) \in Nat
         /\ l.padded \in BOOLEAN /\ l.carries \in BOOLEAN /\ l.alone \in BOOLEAN
         /\ \A k \in 1 .. Len(l.plain) : l.plain[k].size \in Nat
         /\ \A k \in 1 .. Len(l.enc) : /\ l.enc[k].size \in Nat
                                       /\ l.enc[k].kind \in {"length", "pad", "fixed", "prefixed"}
<1>1. /\ l.plain \in Seq(LayoutFields) /\ l.enc \in Seq(LayoutFields)
      /\ l.padded \in BOOLEAN /\ l.carries \in BOOLEAN /\ l.alone \in BOOLEAN
  BY LayoutsAssumption DEF LayoutsAssumption
<1>2. \A f \in LayoutFields : /\ f.size \in Nat
                              /\ f.kind \in {"length", "pad", "fixed", "prefixed"}
  BY DEF LayoutFields
<1>3. \A k \in 1 .. Len(l.plain) : l.plain[k] \in LayoutFields
  BY <1>1, ElementOfSeq
<1>4. \A k \in 1 .. Len(l.enc) : l.enc[k] \in LayoutFields
  BY <1>1, ElementOfSeq
<1>5. Len(l.plain) \in Nat /\ Len(l.enc) \in Nat
  BY <1>1, LenProperties
<1> QED BY <1>1, <1>2, <1>3, <1>4, <1>5

\* Filler has the length it is asked for.
LEMMA FillerIs ==
  ASSUME NEW n \in Nat
  PROVE  Filler(n) \in Seq(Int) /\ Len(Filler(n)) = n
BY DEF Filler

\* What the plain fields become.
PlainPieces(l, v) ==
  [i \in DOMAIN l.plain |->
    IF i = l.lengthAt THEN EncodeInt(v, l.plain[i].size, l.plain[i].endian)
                      ELSE Filler(l.plain[i].size)]

\* Each plain field becomes a sequence of its size.
LEMMA PlainPiecesAre ==
  ASSUME NEW l \in Layouts, NEW v \in Nat
  PROVE  /\ PlainPieces(l, v) \in Seq(Seq(Int)) /\ Len(PlainPieces(l, v)) = Len(l.plain)
         /\ \A k \in 1 .. Len(l.plain) : Len(PlainPieces(l, v)[k]) = l.plain[k].size
<1> DEFINE p == PlainPieces(l, v)
<1>1. l.plain \in Seq(LayoutFields) /\ DOMAIN l.plain = 1 .. Len(l.plain) /\ Len(l.plain) \in Nat
  BY LayoutIs
<1>2. ASSUME NEW k \in 1 .. Len(l.plain)
      PROVE  p[k] \in Seq(Int) /\ Len(p[k]) = l.plain[k].size
  <2>1. l.plain[k].size \in Nat
    BY LayoutIs
  <2>2. p[k] = IF k = l.lengthAt THEN EncodeInt(v, l.plain[k].size, l.plain[k].endian)
                                 ELSE Filler(l.plain[k].size)
    BY <1>1 DEF PlainPieces
  <2>3. CASE k = l.lengthAt
    <3>1. p[k] = EncodeInt(v, l.plain[k].size, l.plain[k].endian)
      BY <2>2, <2>3
    <3> QED BY <2>1, <3>1, EncodedInt
  <2>4. CASE k # l.lengthAt
    BY <2>1, <2>2, <2>4, FillerIs
  <2> QED BY <2>3, <2>4
<1>3. p = [k \in 1 .. Len(l.plain) |-> p[k]]
  BY <1>1 DEF PlainPieces
<1>4. p \in Seq(Seq(Int)) /\ Len(p) = Len(l.plain)
  <2>1. \A k \in 1 .. Len(l.plain) : p[k] \in Seq(Int)
    BY <1>2
  <2> DEFINE n == Len(l.plain)
             T == Seq(Int)
  <2>2. n \in Nat /\ p = [k \in 1 .. n |-> p[k]] /\ \A k \in 1 .. n : p[k] \in T
    BY <1>1, <1>3, <2>1
  <2> HIDE DEF p, n, T
  <2>3. p \in Seq(T) /\ Len(p) = n
    BY <2>2, IsSequence
  <2> QED BY <2>3 DEF n, T
<1> QED BY <1>2, <1>4

\* Behind the plain fields, the length can be read from its place, whatever the
\* order of the fields and whatever follows.
LEMMA PlainBytesAre ==
  ASSUME NEW l \in Layouts, Valid(l), NEW v \in Nat
  PROVE  /\ PlainBytes(l, v) \in Seq(Int) /\ PlainSize(l) \in Nat
         /\ Len(PlainBytes(l, v)) = PlainSize(l)
         /\ LengthOffset(l) \in Nat /\ LengthField(l).size \in Nat
         /\ LengthOffset(l) + LengthField(l).size <= PlainSize(l)
         /\ \A rest \in Seq(Int) :
              Fits(v, LengthField(l).size) => Declared(l, PlainBytes(l, v) \o rest) = v
<1> DEFINE p == PlainPieces(l, v)
           fs == l.plain
           n == Len(fs)
           i == l.lengthAt
           f == LengthField(l)
<1>1. /\ p \in Seq(Seq(Int)) /\ Len(p) = n /\ n \in Nat /\ fs \in Seq(LayoutFields)
      /\ \A k \in 1 .. n : Len(p[k]) = fs[k].size
  BY PlainPiecesAre, LayoutIs
<1>2. PICK g : Joins(g, p) /\ FlattenSeq(p) = g[Len(p)]
  <2> HIDE DEF p
  <2> QED BY <1>1, FlatJoins
<1>3. PlainBytes(l, v) = g[n]
  BY <1>1, <1>2 DEF PlainBytes, PlainPieces
<1>4. \A k \in 0 .. n : Offsets(fs)[k] = Len(g[k])
  <2> HIDE DEF p, fs
  <2> QED BY <1>1, <1>2, OffsetsOfPieces
<1>5. i \in 1 .. n /\ f = fs[i] /\ f.size \in Nat
  <2>1. i \in DOMAIN fs
    BY Zenon DEF Valid, Indices
  <2>2. DOMAIN fs = 1 .. n
    BY <1>1, LenProperties
  <2> QED BY <2>1, <2>2, LayoutIs DEF LengthField
<1>6. p[i] = EncodeInt(v, f.size, f.endian)
  BY <1>5, LayoutIs DEF PlainPieces
<1>7. PlainSize(l) = Offsets(fs)[n] /\ LengthOffset(l) = Offsets(fs)[i - 1]
  BY DEF PlainSize, LengthOffset
<1> DEFINE u == g[i - 1]
           s == p[i]
           t == g[n]
<1> HIDE DEF p, fs, n, i, f
<1>8. PlainSize(l) = Len(t) /\ LengthOffset(l) = Len(u)
  <2>1. n \in 0 .. n /\ i - 1 \in 0 .. n
    BY <1>1, <1>5
  <2> QED BY <1>4, <1>7, <2>1
<1>9. /\ t \in Seq(Int) /\ u \in Seq(Int) /\ s \in Seq(Int) /\ Len(s) = f.size
      /\ Len(t) \in Nat /\ Len(u) \in Nat
  <2>1. u \in Seq(Int) /\ s \in Seq(Int)
    BY <1>1, <1>2, <1>5, JoinsGrow
  <2>2. t \in Seq(Int)
    BY <1>1, <1>2 DEF Joins
  <2>3. Len(s) = f.size
    BY <1>1, <1>5
  <2> QED BY <2>1, <2>2, <2>3, LenProperties
<1>10. \A rest \in Seq(Int) : Stands(t \o rest, u, s)
  BY <1>1, <1>2, <1>5, PieceStands
<1>11. t \o <<>> = t
  BY <1>9, ConcatEmptySeq
<1> HIDE DEF t, u, s
<1>12. Len(u) + Len(s) <= Len(t)
  <2>1. Stands(t, u, s)
    BY <1>10, <1>11, EmptySeq
  <2>2. PICK r \in Seq(Int) : t = u \o (s \o r)
    BY <2>1 DEF Stands
  <2>3. Len(s \o r) = Len(s) + Len(r) /\ s \o r \in Seq(Int)
    BY <1>9, ConcatProperties
  <2>4. Len(t) = Len(u) + Len(s \o r)
    BY <1>9, <2>2, <2>3, ConcatProperties
  <2>5. Len(r) \in Nat /\ Len(s) \in Nat
    BY <1>9, LenProperties
  <2> QED BY <2>3, <2>4, <2>5, <1>9
<1>13. ASSUME NEW rest \in Seq(Int), Fits(v, f.size)
       PROVE  Declared(l, t \o rest) = v
  <2> DEFINE whole == t \o rest
  <2>1. SubSeq(whole, Len(u) + 1, Len(u) + Len(s)) = s
    <3>1. Stands(whole, u, s)
      BY <1>10
    <3> HIDE DEF whole
    <3> QED BY <1>9, <3>1, PieceCut
  <2>2. Declared(l, whole) = DecodeInt(SubSeq(whole, Len(u) + 1, Len(u) + f.size), f.endian)
    BY <1>8 DEF Declared, f
  <2>3. DecodeInt(s, f.endian) = v
    BY <1>5, <1>6, <1>13, IntReadsBack DEF s
  <2> HIDE DEF whole
  <2>4. Declared(l, whole) = v
    BY <1>9, <2>1, <2>2, <2>3
  <2> QED BY <2>4 DEF whole
<1> QED BY <1>3, <1>5, <1>8, <1>9, <1>12, <1>13 DEF f, t

------------------------------------------------------------------------------
(* The encrypted fields *)

\* What the encrypted fields become.
EncPieces(l, pad, drawn) == [i \in DOMAIN l.enc |-> EncodeField(l.enc[i], pad, drawn[i])]

\* A field comes out as long as it says.
LEMMA FieldTaken ==
  ASSUME NEW f, f.size \in Nat, f.kind \in {"length", "pad", "fixed", "prefixed"},
         NEW pad \in Nat, NEW n, f.kind = "prefixed" => n \in Nat /\ Fits(n, f.size)
  PROVE  /\ EncodeField(f, pad, n) \in Seq(Int)
         /\ f.kind = "pad" => EncodeField(f, pad, n) = EncodeInt(pad, f.size, f.endian)
         /\ \A r \in Seq(Int) :
              Taken(f, EncodeField(f, pad, n) \o r) = Len(EncodeField(f, pad, n))
         /\ f.kind # "prefixed" => Len(EncodeField(f, pad, n)) = f.size
<1> DEFINE e == EncodeField(f, pad, n)
<1>1. CASE f.kind = "prefixed"
  <2> DEFINE a == EncodeInt(n, f.size, "big")
             b == Filler(n)
  <2>1. e = a \o b
    BY <1>1, Zenon DEF EncodeField
  <2>2. a \in Seq(Int) /\ Len(a) = f.size /\ b \in Seq(Int) /\ Len(b) = n /\ n \in Nat
    BY <1>1, EncodedInt, FillerIs
  <2>3. DecodeInt(a, "big") = n
    BY <1>1, IntReadsBack
  <2> HIDE DEF a, b, e
  <2>4. e \in Seq(Int) /\ Len(e) = f.size + n
    <3>1. a \o b \in Seq(Int) /\ Len(a \o b) = Len(a) + Len(b)
      BY <2>2, JoinedLen, Zenon
    <3> QED BY <2>1, <2>2, <3>1, Zenon
  <2>5. ASSUME NEW r \in Seq(Int) PROVE Taken(f, e \o r) = Len(e)
    <3> DEFINE w == e \o r
    <3>1. w \in Seq(Int) /\ Len(w) = f.size + n + Len(r) /\ Len(r) \in Nat
      BY <2>4, ConcatProperties, LenProperties
    <3>2. \A k \in 1 .. f.size : w[0 + k] = a[k]
      <4>1. \A k \in 1 .. Len(e) : w[k] = e[k]
        BY <2>4
      <4>2. \A k \in 1 .. Len(a) : e[k] = a[k]
        BY <2>1, <2>2
      <4> DEFINE z == f.size
      <4>3. z \in Nat /\ z = Len(a) /\ Len(e) = z + n /\ n \in Nat
        BY <2>2, <2>4
      <4> HIDE DEF z
      <4>4. \A k \in 1 .. z : w[0 + k] = a[k]
        BY <4>1, <4>2, <4>3
      <4> QED BY <4>4 DEF z
    <3> HIDE DEF w
    <3>3. SubSeq(w, 0 + 1, 0 + Len(a)) = a
      BY <3>1, <3>2, <2>2, CutOut
    <3>4. SubSeq(w, 1, f.size) = a
      BY <3>3, <2>2
    <3>5. Taken(f, w) = f.size + n
      BY <3>4, <2>3, <1>1 DEF Taken
    <3> QED BY <3>5, <2>4 DEF w
  <2>6. f.kind # "pad"
    BY <1>1, Zenon
  <2> QED BY <1>1, <2>4, <2>5, <2>6 DEF e
<1>2. CASE f.kind # "prefixed"
  <2>1. e \in Seq(Int) /\ Len(e) = f.size
        /\ (f.kind = "pad" => e = EncodeInt(pad, f.size, f.endian))
    <3>1. CASE f.kind = "pad"
      <4>1. e = EncodeInt(pad, f.size, f.endian)
        BY <3>1, Zenon DEF EncodeField
      <4> QED BY <4>1, EncodedInt
    <3>2. CASE f.kind # "pad"
      <4>1. e = Filler(f.size)
        BY <1>2, <3>2, Zenon DEF EncodeField
      <4> HIDE DEF e
      <4> QED BY <3>2, <4>1, FillerIs
    <3> QED BY <3>1, <3>2
  <2>2. \A r : Taken(f, r) = f.size
    BY <1>2 DEF Taken
  <2> HIDE DEF e
  <2> QED BY <1>2, <2>1, <2>2 DEF e
<1> QED BY <1>1, <1>2

\* The pieces of the encrypted fields are sequences, and a prefix says how long its field is.
LEMMA EncPiecesAre ==
  ASSUME NEW l \in Layouts, NEW pad \in Nat, NEW drawn \in PrefixDraws(l)
  PROVE  /\ EncPieces(l, pad, drawn) \in Seq(Seq(Int))
         /\ Len(EncPieces(l, pad, drawn)) = Len(l.enc)
         /\ \A k \in 1 .. Len(l.enc) :
              /\ \A r \in Seq(Int) : Taken(l.enc[k], EncPieces(l, pad, drawn)[k] \o r)
                                       = Len(EncPieces(l, pad, drawn)[k])
              /\ l.enc[k].kind = "pad" =>
                   EncPieces(l, pad, drawn)[k] = EncodeInt(pad, l.enc[k].size, l.enc[k].endian)
<1> DEFINE p == EncPieces(l, pad, drawn)
           fs == l.enc
           n == Len(fs)
           T == Seq(Int)
<1>1. fs \in Seq(LayoutFields) /\ DOMAIN fs = 1 .. n /\ n \in Nat
  BY LayoutIs
<1>2. p = [k \in 1 .. n |-> EncodeField(fs[k], pad, drawn[k])]
  BY <1>1 DEF EncPieces
<1>3. \A k \in 1 .. n : fs[k].kind = "prefixed" => drawn[k] \in Nat /\ Fits(drawn[k], fs[k].size)
  <2>1. \A k \in Indices(l.enc, "prefixed") :
          drawn[k] \in PrefixedSizes /\ Fits(drawn[k], l.enc[k].size)
    BY DEF PrefixDraws
  <2>2. PrefixedSizes \subseteq Nat
    BY LayoutsAssumption DEF LayoutsAssumption
  <2>3. \A k \in 1 .. n : fs[k].kind = "prefixed" => k \in Indices(l.enc, "prefixed")
    BY <1>1 DEF Indices
  <2> QED BY <2>1, <2>2, <2>3
<1>4. \A k \in 1 .. n : fs[k].size \in Nat /\ fs[k].kind \in {"length", "pad", "fixed", "prefixed"}
  BY LayoutIs
<1> HIDE DEF p, fs, n, T
<1>5. ASSUME NEW k \in 1 .. n
      PROVE  /\ p[k] \in Seq(Int)
             /\ fs[k].kind = "pad" => p[k] = EncodeInt(pad, fs[k].size, fs[k].endian)
             /\ \A r \in Seq(Int) : Taken(fs[k], p[k] \o r) = Len(p[k])
  <2> DEFINE f == fs[k]
             m == drawn[k]
  <2>1. f.size \in Nat /\ f.kind \in {"length", "pad", "fixed", "prefixed"}
    BY <1>4
  <2>2. f.kind = "prefixed" => m \in Nat /\ Fits(m, f.size)
    BY <1>3
  <2>3. p[k] = EncodeField(f, pad, m)
    BY <1>2
  <2> HIDE DEF f, m
  <2>4. /\ p[k] \in Seq(Int)
        /\ f.kind = "pad" => p[k] = EncodeInt(pad, f.size, f.endian)
        /\ \A r \in Seq(Int) : Taken(f, p[k] \o r) = Len(p[k])
    <3>1. /\ EncodeField(f, pad, m) \in Seq(Int)
          /\ f.kind = "pad" => EncodeField(f, pad, m) = EncodeInt(pad, f.size, f.endian)
          /\ \A r \in Seq(Int) :
               Taken(f, EncodeField(f, pad, m) \o r) = Len(EncodeField(f, pad, m))
      BY <2>1, <2>2, FieldTaken
    <3> QED BY <2>3, <3>1, Zenon
  <2> QED BY <2>4 DEF f
<1>6. p = [k \in 1 .. n |-> p[k]] /\ \A k \in 1 .. n : p[k] \in T
  BY <1>2, <1>5 DEF T
<1>7. p \in Seq(T) /\ Len(p) = n
  BY <1>1, <1>6, IsSequence
<1> QED BY <1>5, <1>7 DEF p, n, T, fs

\* Field by field the plaintext is taken apart where it was put together.
LEMMA BehindIs ==
  ASSUME NEW l \in Layouts, NEW p \in Seq(Seq(Int)), NEW g, Joins(g, p), Len(p) = Len(l.enc),
         \A k \in 1 .. Len(l.enc) : \A r \in Seq(Int) : Taken(l.enc[k], p[k] \o r) = Len(p[k]),
         NEW rest \in Seq(Int)
  PROVE  \A k \in 0 .. Len(l.enc) : Behind(l, g[Len(p)] \o rest)[k] = Len(g[k])
<1> DEFINE n == Len(l.enc)
           pt == g[Len(p)] \o rest
           F(f) == f = [k \in 0 .. n |->
                          IF k = 0 THEN 0
                          ELSE f[k - 1] + Taken(l.enc[k], SubSeq(pt, f[k - 1] + 1, Len(pt)))]
           h == [k \in 0 .. n |-> Len(g[k])]
           c == Behind(l, pt)
           S == {k \in 0 .. n : c[k] = h[k]}
<1>0. n \in Nat /\ n = Len(p)
  BY LayoutIs
<1>1. c = CHOOSE f : F(f)
  BY DEF Behind
<1>2. \A k \in 1 .. n : Stands(pt, g[k - 1], p[k])
  BY <1>0, PieceStands
<1> HIDE DEF n, pt, c
<1>3. ASSUME NEW k \in 1 .. n
      PROVE  /\ Taken(l.enc[k], SubSeq(pt, Len(g[k - 1]) + 1, Len(pt))) = Len(p[k])
             /\ Len(g[k]) = Len(g[k - 1]) + Len(p[k])
  <2>1. Len(g[k]) = Len(g[k - 1]) + Len(p[k]) /\ g[k - 1] \in Seq(Int) /\ p[k] \in Seq(Int)
    BY <1>0, JoinsGrow
  <2> DEFINE u == g[k - 1]
             s == p[k]
  <2>2. Stands(pt, u, s) /\ u \in Seq(Int) /\ s \in Seq(Int)
    BY <1>2, <2>1
  <2>3. \A r \in Seq(Int) : Taken(l.enc[k], s \o r) = Len(s)
    BY DEF n
  <2> HIDE DEF u, s
  <2>4. PICK r \in Seq(Int) : SubSeq(pt, Len(u) + 1, Len(pt)) = s \o r
    <3>1. Extends(SubSeq(pt, Len(u) + 1, Len(pt)), s)
      BY <2>2, PieceCut
    <3> QED BY <3>1 DEF Extends
  <2>5. Taken(l.enc[k], SubSeq(pt, Len(u) + 1, Len(pt))) = Len(s)
    BY <2>3, <2>4
  <2> QED BY <2>1, <2>5 DEF u, s
<1>4. h[0] = 0
  BY <1>0, EmptySeq DEF Joins
<1>5. \A k \in 1 .. n : h[k] = h[k - 1] + Taken(l.enc[k], SubSeq(pt, h[k - 1] + 1, Len(pt)))
  <2> TAKE k \in 1 .. n
  <2>1. h[k] = Len(g[k]) /\ h[k - 1] = Len(g[k - 1])
    BY <1>0
  <2> HIDE DEF h
  <2> QED BY <2>1, <1>3
<1>6. F(h)
  <2>1. ASSUME NEW k \in 0 .. n
        PROVE  h[k] = IF k = 0 THEN 0
                      ELSE h[k - 1] + Taken(l.enc[k], SubSeq(pt, h[k - 1] + 1, Len(pt)))
    <3>1. CASE k = 0
      BY <3>1, <1>4
    <3>2. CASE k # 0
      <4>1. k \in 1 .. n
        BY <3>2, <1>0
      <4> HIDE DEF h
      <4> QED BY <1>5, <3>2, <4>1
    <3> QED BY <3>1, <3>2
  <2>2. h = [k \in 0 .. n |-> h[k]]
    OBVIOUS
  <2> HIDE DEF h
  <2> QED BY <2>1, <2>2
<1>7. F(c)
  <2> HIDE DEF F, h
  <2> QED BY <1>1, <1>6
<1> HIDE DEF h
<1>8. 0 .. n \subseteq S
  <2>1. c[0] = 0 /\ \A k \in 1 .. n :
          c[k] = c[k - 1] + Taken(l.enc[k], SubSeq(pt, c[k - 1] + 1, Len(pt)))
    <3>1. \A k \in 0 .. n :
            c[k] = IF k = 0 THEN 0
                   ELSE c[k - 1] + Taken(l.enc[k], SubSeq(pt, c[k - 1] + 1, Len(pt)))
      BY <1>7, Zenon
    <3>2. 0 \in 0 .. n /\ \A k \in 1 .. n : k \in 0 .. n /\ k # 0
      BY <1>0
    <3> QED BY <3>1, <3>2, Zenon
  <2>2. 0 \in S
    BY <2>1, <1>4, <1>0
  <2>3. ASSUME NEW k \in 1 .. n, k - 1 \in S PROVE k \in S
    BY <2>1, <1>5, <2>3
  <2> HIDE DEF S
  <2> QED BY <2>2, <2>3, <1>0, CountedUpTo
<1> QED BY <1>8 DEF S, h, c, pt, n

\* What Encode is given, and does not refuse.
Encodable(l, payload, pad, drawn) ==
  /\ Valid(l) /\ payload \in Seq(Int) /\ pad \in Nat /\ (l.padded \/ pad = 0)
  /\ drawn \in PrefixDraws(l) /\ (l.carries \/ payload = <<>>)
  /\ \A i \in Indices(l.enc, "pad") : Fits(pad, l.enc[i].size)

\* The plaintext gives its padding and its payload back.
TakesApart(l, payload, pad, pt) ==
  /\ pt \in Seq(Int) /\ StatedPad(l, pt) = pad
  /\ Behind(l, pt)[Len(l.enc)] \in Nat
  /\ Len(pt) = Behind(l, pt)[Len(l.enc)] + Len(payload) + pad
  /\ SubSeq(pt, Behind(l, pt)[Len(l.enc)] + 1,
                Behind(l, pt)[Len(l.enc)] + Len(payload)) = payload

\* Payload and padding are what is left behind the fields.
LEMMA PlaintextReadBack ==
  ASSUME NEW l \in Layouts, NEW payload, NEW pad, NEW drawn, NEW pt,
         Encodable(l, payload, pad, drawn), pt = Plaintext(l, payload, pad, drawn)
  PROVE  TakesApart(l, payload, pad, pt)
<1>0. /\ Valid(l) /\ payload \in Seq(Int) /\ pad \in Nat /\ (l.padded \/ pad = 0)
      /\ drawn \in PrefixDraws(l)
      /\ \A i \in Indices(l.enc, "pad") : Fits(pad, l.enc[i].size)
  BY Zenon DEF Encodable
<1> DEFINE p == EncPieces(l, pad, drawn)
           fs == l.enc
           n == Len(fs)
           rest == payload \o Filler(pad)
<1>1. /\ p \in Seq(Seq(Int)) /\ Len(p) = n /\ n \in Nat
      /\ \A k \in 1 .. n :
           /\ \A r \in Seq(Int) : Taken(fs[k], p[k] \o r) = Len(p[k])
           /\ fs[k].kind = "pad" => p[k] = EncodeInt(pad, fs[k].size, fs[k].endian)
  <2>1. n \in Nat
    BY LayoutIs
  <2> QED BY <1>0, <2>1, EncPiecesAre
<1>2. DOMAIN fs = 1 .. n /\ \A k \in 1 .. n : fs[k].size \in Nat
  BY LayoutIs
<1>3. rest \in Seq(Int) /\ Len(rest) = Len(payload) + pad /\ Len(payload) \in Nat
  BY <1>0, FillerIs, ConcatProperties, LenProperties
<1>4. FlattenSeq(p) \o payload \o Filler(pad) = pt
  BY DEF Plaintext, EncPieces
<1> HIDE DEF p, rest
<1>5. PICK g : Joins(g, p) /\ FlattenSeq(p) = g[Len(p)]
  BY <1>1, FlatJoins
<1> DEFINE t == g[Len(p)]
<1>6. t \in Seq(Int) /\ Len(t) \in Nat
  <2>1. t \in Seq(Int)
    BY <1>1, <1>5 DEF Joins
  <2> QED BY <2>1, LenProperties
<1>7. pt = t \o rest
  <2>1. pt = (t \o payload) \o Filler(pad)
    BY <1>4, <1>5
  <2> DEFINE z == Filler(pad)
  <2>2. z \in Seq(Int)
    BY <1>0, FillerIs
  <2> HIDE DEF t, z
  <2>3. (t \o payload) \o z = t \o (payload \o z)
    <3>1. Associates(t, payload, z)
      BY <1>0, <1>6, <2>2, Regrouped, Zenon
    <3> QED BY <3>1 DEF Associates
  <2> QED BY <2>1, <2>3 DEF z, rest
<1>8. \A k \in 0 .. n : Behind(l, pt)[k] = Len(g[k])
  <2>1. \A k \in 0 .. Len(l.enc) : Behind(l, g[Len(p)] \o rest)[k] = Len(g[k])
    BY <1>1, <1>3, <1>5, BehindIs
  <2> QED BY <2>1, <1>7
<1>9. Behind(l, pt)[n] = Len(t)
  BY <1>1, <1>8
<1>10. pt \in Seq(Int) /\ Len(pt) = Len(t) + Len(payload) + pad
  <2> HIDE DEF t
  <2>1. pt \in Seq(Int) /\ Len(pt) = Len(t) + Len(rest)
    BY <1>3, <1>6, <1>7, ConcatProperties
  <2> QED BY <2>1, <1>0, <1>3, <1>6
<1>11. SubSeq(pt, Len(t) + 1, Len(t) + Len(payload)) = payload
  <2> HIDE DEF t
  <2>1. Stands(pt, t, payload)
    <3>1. Filler(pad) \in Seq(Int)
      BY <1>0, FillerIs
    <3> QED BY <1>7, <3>1, Zenon DEF Stands, rest
  <2> QED BY <1>0, <1>6, <2>1, PieceCut
<1>12. StatedPad(l, pt) = pad
  <2>1. CASE Indices(l.enc, "pad") = {}
    <3>1. ~ l.padded
      BY <1>0, <2>1, Zenon DEF Valid
    <3>2. pad = 0
      BY <1>0, <3>1
    <3>3. StatedPad(l, pt) = 0
      BY <2>1, Zenon DEF StatedPad
    <3> QED BY <3>2, <3>3
  <2>2. CASE Indices(l.enc, "pad") # {}
    <3> DEFINE i == CHOOSE i \in Indices(l.enc, "pad") : TRUE
               u == g[i - 1]
               s == p[i]
               f == fs[i]
    <3>1. i \in Indices(l.enc, "pad")
      BY <2>2, Zenon
    <3>2. StatedPad(l, pt)
            = DecodeInt(SubSeq(pt, Behind(l, pt)[i - 1] + 1,
                                   Behind(l, pt)[i - 1] + f.size), f.endian)
      BY <2>2 DEF StatedPad
    <3> HIDE DEF i
    <3>3. i \in 1 .. n /\ f.kind = "pad" /\ Fits(pad, f.size)
      BY <1>0, <1>2, <3>1, Zenon DEF Indices
    <3>4. s = EncodeInt(pad, f.size, f.endian) /\ f.size \in Nat
      BY <1>1, <1>2, <3>3
    <3>5. Behind(l, pt)[i - 1] = Len(u)
      <4>1. i - 1 \in 0 .. n
        BY <1>1, <3>3
      <4> QED BY <4>1, <1>8
    <3>6. u \in Seq(Int) /\ s \in Seq(Int)
      BY <1>1, <1>5, <3>3, JoinsGrow
    <3>7. Stands(pt, u, s)
      BY <1>1, <1>3, <1>5, <1>7, <3>3, PieceStands
    <3> HIDE DEF u, s, f, fs
    <3>8. SubSeq(pt, Len(u) + 1, Len(u) + Len(s)) = s
      BY <3>6, <3>7, PieceCut
    <3>9. Len(s) = f.size
      BY <1>0, <3>4, EncodedInt
    <3>10. DecodeInt(s, f.endian) = pad
      BY <1>0, <3>3, <3>4, IntReadsBack
    <3> QED BY <3>2, <3>5, <3>8, <3>9, <3>10
  <2> QED BY <2>1, <2>2
<1> QED BY <1>6, <1>9, <1>10, <1>11, <1>12 DEF TakesApart

------------------------------------------------------------------------------
(* Frames *)

\* FlattenSeq of one segment.
LEMMA FlatOne ==
  ASSUME NEW a \in Seq(Int)
  PROVE  FlattenSeq(<<a>>) = a
<1> DEFINE T == Seq(Int)
           s == <<a>>
<1>1. s \in Seq(T) /\ Len(s) = 1 /\ s[1] = a
  OBVIOUS
<1> HIDE DEF s, T
<1>2. PICK g : Joins(g, s) /\ FlattenSeq(s) = g[Len(s)]
  BY <1>1, FlatJoins DEF T
<1>3. g[0] = <<>> /\ \A k \in 1 .. 1 : g[k] = g[k - 1] \o s[k]
  BY <1>1, <1>2 DEF Joins
<1>4. 1 \in 1 .. 1 /\ 1 - 1 = 0
  OBVIOUS
<1>5. g[1] = <<>> \o a
  BY <1>1, <1>3, <1>4, Zenon
<1>6. <<>> \o a = a
  BY ConcatEmptySeq
<1> QED BY <1>1, <1>2, <1>5, <1>6, Zenon DEF s

\* Of two.
LEMMA FlatTwo ==
  ASSUME NEW a \in Seq(Int), NEW b \in Seq(Int)
  PROVE  FlattenSeq(<<a, b>>) = a \o b
<1> DEFINE T == Seq(Int)
           s == <<a, b>>
<1>1. s \in Seq(T) /\ Len(s) = 2 /\ s[1] = a /\ s[2] = b
  OBVIOUS
<1> HIDE DEF s, T
<1>2. PICK g : Joins(g, s) /\ FlattenSeq(s) = g[Len(s)]
  BY <1>1, FlatJoins DEF T
<1>3. g[0] = <<>> /\ \A k \in 1 .. 2 : g[k] = g[k - 1] \o s[k]
  BY <1>1, <1>2 DEF Joins
<1>4. 1 \in 1 .. 2 /\ 1 - 1 = 0 /\ 2 \in 1 .. 2 /\ 2 - 1 = 1
  OBVIOUS
<1>5. g[1] = <<>> \o a /\ g[2] = g[1] \o b
  BY <1>1, <1>3, <1>4, Zenon
<1>6. <<>> \o a = a
  BY ConcatEmptySeq
<1> QED BY <1>1, <1>2, <1>5, <1>6, Zenon DEF s

\* Of three.
LEMMA FlatThree ==
  ASSUME NEW a \in Seq(Int), NEW b \in Seq(Int), NEW c \in Seq(Int)
  PROVE  FlattenSeq(<<a, b, c>>) = (a \o b) \o c
<1> DEFINE T == Seq(Int)
           s == <<a, b, c>>
<1>1. s \in Seq(T) /\ Len(s) = 3 /\ s[1] = a /\ s[2] = b /\ s[3] = c
  OBVIOUS
<1> HIDE DEF s, T
<1>2. PICK g : Joins(g, s) /\ FlattenSeq(s) = g[Len(s)]
  BY <1>1, FlatJoins DEF T
<1>3. g[0] = <<>> /\ \A k \in 1 .. 3 : g[k] = g[k - 1] \o s[k]
  BY <1>1, <1>2 DEF Joins
<1>4. 1 \in 1 .. 3 /\ 1 - 1 = 0 /\ 2 \in 1 .. 3 /\ 2 - 1 = 1 /\ 3 \in 1 .. 3 /\ 3 - 1 = 2
  OBVIOUS
<1>5. g[1] = <<>> \o a /\ g[2] = g[1] \o b /\ g[3] = g[2] \o c
  BY <1>1, <1>3, <1>4, Zenon
<1>6. <<>> \o a = a
  BY ConcatEmptySeq
<1> QED BY <1>1, <1>2, <1>5, <1>6, Zenon DEF s

\* A sequence is its beginning and its end.
LEMMA Halves ==
  ASSUME NEW w \in Seq(Int), NEW m \in 0 .. Len(w), NEW k \in 0 .. m
  PROVE  /\ SubSeq(w, 1, m) \in Seq(Int) /\ SubSeq(w, m + 1, Len(w)) \in Seq(Int)
         /\ SubSeq(w, 1, m) \o SubSeq(w, m + 1, Len(w)) = w
         /\ SubSeq(w, k + 1, m) \in Seq(Int)
         /\ SubSeq(w, 1, k) \o SubSeq(w, k + 1, m) = SubSeq(w, 1, m)
<1>1. Len(w) \in Nat
  BY LenProperties
<1>2. SubSeq(w, 1, m) \in Seq(Int) /\ SubSeq(w, m + 1, Len(w)) \in Seq(Int)
  BY <1>1
<1>3. SubSeq(w, k + 1, m) \in Seq(Int)
  BY <1>1
<1>4. SubSeq(w, 1, m) \o SubSeq(w, m + 1, Len(w)) = w
  <2>1. \A n \in m .. Len(w) : SubSeq(w, 1, m) \o SubSeq(w, m + 1, n) = SubSeq(w, 1, n)
    BY <1>1, ConcatAdjacentSubSeq
  <2>2. Len(w) \in m .. Len(w)
    BY <1>1
  <2>3. SubSeq(w, 1, Len(w)) = w
    BY SubSeqFull
  <2> QED BY <2>1, <2>2, <2>3, Zenon
<1>5. SubSeq(w, 1, k) \o SubSeq(w, k + 1, m) = SubSeq(w, 1, m)
  BY <1>1, ConcatAdjacentSubSeq
<1> QED BY <1>2, <1>3, <1>4, <1>5

\* The segments of a frame are the frame again when they have come one after the other.
LEMMA SegmentsJoin ==
  ASSUME NEW l \in Layouts, Valid(l), NEW frame \in Seq(Int), PlainSize(l) <= Len(frame)
  PROVE  FlattenSeq(Segments(l, frame)) = frame
<1> DEFINE k == LengthOffset(l)
           m == k + LengthField(l).size
           a == SubSeq(frame, 1, k)
           b == SubSeq(frame, k + 1, m)
           c == SubSeq(frame, m + 1, Len(frame))
<1>1. Segments(l, frame) = IF ~ l.alone THEN <<frame>>
                           ELSE IF k = 0 THEN <<b, c>> ELSE <<a, b, c>>
  BY DEF Segments
<1>2. m \in 0 .. Len(frame) /\ k \in 0 .. m
  <2>1. /\ PlainSize(l) \in Nat /\ LengthOffset(l) \in Nat /\ LengthField(l).size \in Nat
        /\ LengthOffset(l) + LengthField(l).size <= PlainSize(l)
    <3>1. 0 \in Nat
      OBVIOUS
    <3> QED BY <3>1, PlainBytesAre
  <2>2. Len(frame) \in Nat
    BY LenProperties
  <2> QED BY <2>1, <2>2
<1> HIDE DEF k, m
<1>3. /\ a \in Seq(Int) /\ b \in Seq(Int) /\ c \in Seq(Int)
      /\ (a \o b) \o c = frame
      /\ k = 0 => b \o c = frame
  <2>1. /\ SubSeq(frame, 1, m) \in Seq(Int) /\ c \in Seq(Int)
        /\ SubSeq(frame, 1, m) \o c = frame
        /\ b \in Seq(Int) /\ a \o b = SubSeq(frame, 1, m)
    BY <1>2, Halves
  <2>2. a \in Seq(Int)
    BY <1>2
  <2>3. k = 0 => b = SubSeq(frame, 1, m)
    BY <1>2
  <2> HIDE DEF a, b, c
  <2>4. (a \o b) \o c = frame /\ (k = 0 => b \o c = frame)
    BY <2>1, <2>3, Zenon
  <2> QED BY <2>1, <2>2, <2>4
<1> HIDE DEF a, b, c
<1>5. /\ FlattenSeq(<<frame>>) = frame /\ FlattenSeq(<<b, c>>) = b \o c
      /\ FlattenSeq(<<a, b, c>>) = (a \o b) \o c
  <2>1. FlattenSeq(<<frame>>) = frame
    BY FlatOne, Zenon
  <2>2. FlattenSeq(<<b, c>>) = b \o c
    BY <1>3, FlatTwo, Zenon
  <2>3. FlattenSeq(<<a, b, c>>) = (a \o b) \o c
    BY <1>3, FlatThree, Zenon
  <2> QED BY <2>1, <2>2, <2>3
<1>6. CASE ~ l.alone
  BY <1>1, <1>5, <1>6, Zenon
<1>7. CASE l.alone /\ k = 0
  BY <1>1, <1>3, <1>5, <1>7, Zenon
<1>8. CASE l.alone /\ k # 0
  BY <1>1, <1>3, <1>5, <1>8, Zenon
<1> QED BY <1>6, <1>7, <1>8, Zenon

\* What comes first can be split off.
LEMMA FrontOf ==
  ASSUME NEW w \in Seq(Int), NEW a \in Seq(Int), Len(a) <= Len(w),
         \A k \in 1 .. Len(a) : w[k] = a[k]
  PROVE  /\ SubSeq(w, 1, Len(a)) = a
         /\ Extends(w, a)
<1>1. Len(a) \in 0 .. Len(w) /\ 0 \in 0 .. Len(a)
  BY LenProperties
<1>2. SubSeq(w, 0 + 1, 0 + Len(a)) = a
  <2>1. 0 + Len(a) <= Len(w) /\ \A k \in 1 .. Len(a) : w[0 + k] = a[k]
    BY <1>1
  <2> QED BY <2>1, CutOut
<1>3. SubSeq(w, 1, Len(a)) = a
  BY <1>1, <1>2
<1>4. /\ SubSeq(w, Len(a) + 1, Len(w)) \in Seq(Int)
      /\ SubSeq(w, 1, Len(a)) \o SubSeq(w, Len(a) + 1, Len(w)) = w
  BY <1>1, Halves
<1> QED BY <1>3, <1>4, Zenon DEF Extends

\* What comes last can be split off.
LEMMA BackOf ==
  ASSUME NEW a \in Seq(Int), NEW b \in Seq(Int), NEW w, w = a \o b
  PROVE  SubSeq(w, Len(a) + 1, Len(a) + Len(b)) = b
<1>1. w \in Seq(Int) /\ Len(w) = Len(a) + Len(b) /\ Len(a) \in Nat /\ Len(b) \in Nat
  BY ConcatProperties, LenProperties
<1>2. \A k \in 1 .. Len(b) : w[Len(a) + k] = b[k]
  BY <1>1
<1>3. Len(a) + Len(b) <= Len(w)
  BY <1>1
<1> QED BY <1>1, <1>2, <1>3, CutOut

\* The length field says where a frame ends, whatever follows the plain fields.
LEMMA FrameEndIs ==
  ASSUME NEW l \in Layouts, Valid(l), NEW sealed \in Seq(Int),
         Fits(Subject(l, sealed), LengthField(l).size),
         NEW head, head = PlainBytes(l, Subject(l, sealed))
  PROVE  /\ head \in Seq(Int) /\ Len(head) = PlainSize(l) /\ PlainSize(l) \in Nat
         /\ \A rest \in Seq(Int) : FrameEnd(l, head \o rest) = Len(head) + Len(sealed)
<1> DEFINE v == Subject(l, sealed)
<1>1. PlainSize(l) \in Nat
  <2>1. 0 \in Nat
    OBVIOUS
  <2> QED BY <2>1, PlainBytesAre
<1>2. Len(sealed) \in Nat
  BY LenProperties
<1>3. v = IF l.subject = "record" THEN PlainSize(l) + Len(sealed) ELSE Len(sealed)
  BY DEF Subject
<1>4. v \in Nat
  BY <1>1, <1>2, <1>3
<1> HIDE DEF v
<1>5. /\ head \in Seq(Int) /\ Len(head) = PlainSize(l)
      /\ \A rest \in Seq(Int) : Declared(l, head \o rest) = v
  BY <1>4, PlainBytesAre DEF v
<1>6. ASSUME NEW rest \in Seq(Int)
      PROVE  FrameEnd(l, head \o rest) = Len(head) + Len(sealed)
  BY <1>1, <1>2, <1>3, <1>5 DEF FrameEnd
<1> QED BY <1>1, <1>5, <1>6

\* The end of a frame is found in a stream and in a datagram, and not in less than the frame.
EndFound(l, frame, more) ==
  /\ frame \in Seq(Int) /\ Len(frame) >= PlainSize(l)
  /\ FrameEnd(l, frame) = Len(frame)
  /\ DeclaredFrame(l, frame \o more) = frame
  /\ ReadFrame(l, frame \o more)
       = IF Len(frame) - PlainSize(l) > MaxRest THEN Failed ELSE frame
  /\ DeclaredFrame(l, SubSeq(frame, 1, Len(frame) - 1)) = Failed

\* A frame is cut off what follows it, and is not made out of less than it is.
LEMMA FrameCut ==
  ASSUME NEW l \in Layouts, Valid(l), NEW sealed \in Seq(Int), Len(sealed) > 0,
         Fits(Subject(l, sealed), LengthField(l).size),
         NEW frame, frame = PlainBytes(l, Subject(l, sealed)) \o sealed,
         NEW more \in Seq(Int)
  PROVE  EndFound(l, frame, more)
<1> DEFINE head == PlainBytes(l, Subject(l, sealed))
<1>1. /\ head \in Seq(Int) /\ Len(head) = PlainSize(l) /\ PlainSize(l) \in Nat
      /\ \A rest \in Seq(Int) : FrameEnd(l, head \o rest) = Len(head) + Len(sealed)
  BY FrameEndIs
<1>2. frame = head \o sealed
  OBVIOUS
<1> HIDE DEF head
<1>3. /\ frame \in Seq(Int) /\ Len(frame) = Len(head) + Len(sealed)
      /\ Len(sealed) \in Nat /\ Len(head) \in Nat /\ Len(more) \in Nat
  BY <1>1, <1>2, ConcatProperties, LenProperties
<1>4. FrameEnd(l, frame) = Len(frame)
  BY <1>1, <1>2, <1>3
<1> DEFINE w == frame \o more
<1>5. w \in Seq(Int) /\ Len(w) = Len(frame) + Len(more)
  BY <1>3, ConcatProperties
<1>6. \A k \in 1 .. Len(frame) : w[k] = frame[k]
  BY <1>3
<1>7. \A k \in 1 .. Len(head) : frame[k] = head[k]
  BY <1>1, <1>2
<1> HIDE DEF w
<1>8. SubSeq(w, 1, Len(frame)) = frame
  <2>1. Len(frame) <= Len(w)
    BY <1>3, <1>5
  <2> QED BY <1>3, <1>5, <1>6, <2>1, FrontOf
<1>9. FrameEnd(l, w) = Len(frame)
  <2>1. Len(head) <= Len(w) /\ \A k \in 1 .. Len(head) : w[k] = head[k]
    BY <1>3, <1>5, <1>6, <1>7
  <2>2. Extends(w, head)
    BY <1>1, <1>5, <2>1, FrontOf
  <2>3. FrameEnd(l, w) = Len(head) + Len(sealed)
    BY <1>1, <2>2, Zenon DEF Extends
  <2> QED BY <1>3, <2>3
<1>10. DeclaredFrame(l, w) = frame
  <2>1. ~ Len(w) < PlainSize(l) /\ ~ FrameEnd(l, w) < PlainSize(l) /\ ~ FrameEnd(l, w) > Len(w)
    BY <1>1, <1>3, <1>5, <1>9
  <2> QED BY <1>8, <1>9, <2>1, Zenon DEF DeclaredFrame
<1>11. ReadFrame(l, w) = IF Len(frame) - PlainSize(l) > MaxRest THEN Failed ELSE frame
  BY <1>1, <1>3, <1>5, <1>9, <1>10 DEF ReadFrame
<1> DEFINE c == SubSeq(frame, 1, Len(frame) - 1)
<1>12. c \in Seq(Int) /\ Len(c) = Len(frame) - 1 /\ \A k \in 1 .. Len(c) : c[k] = frame[k]
  BY <1>3
<1> HIDE DEF c
<1>13. FrameEnd(l, c) = Len(frame)
  <2>1. Len(head) <= Len(c)
    BY <1>3, <1>12
  <2>2. ASSUME NEW k \in 1 .. Len(head) PROVE c[k] = head[k]
    <3>1. k \in 1 .. Len(c)
      BY <1>3, <1>12, <2>1
    <3> QED BY <1>7, <1>12, <3>1
  <2>3. Extends(c, head)
    BY <1>1, <1>12, <2>1, <2>2, FrontOf
  <2>4. FrameEnd(l, c) = Len(head) + Len(sealed)
    BY <1>1, <2>3, Zenon DEF Extends
  <2> QED BY <1>3, <2>4
<1>14. DeclaredFrame(l, c) = Failed
  BY <1>3, <1>12, <1>13 DEF DeclaredFrame
<1>15. Len(frame) >= PlainSize(l)
  BY <1>1, <1>3
<1> QED BY <1>3, <1>4, <1>10, <1>11, <1>14, <1>15, Zenon DEF w, c, EndFound

\* The frame decodes, and something is sealed in it.
Decodes(l, payload, sealed, frame) ==
  Decode(l, frame) = payload /\ sealed \in Seq(Int) /\ Len(sealed) > 0

\* A frame decodes to what it was made of.
LEMMA FrameDecodes ==
  ASSUME NEW l \in Layouts, NEW payload, NEW pad, NEW drawn, Encodable(l, payload, pad, drawn),
         NEW sealed, sealed = Plaintext(l, payload, pad, drawn) \o SealTag,
         Fits(Subject(l, sealed), LengthField(l).size),
         NEW frame, frame = PlainBytes(l, Subject(l, sealed)) \o sealed
  PROVE  Decodes(l, payload, sealed, frame)
<1> DEFINE pt == Plaintext(l, payload, pad, drawn)
           from == Behind(l, pt)[Len(l.enc)]
           head == PlainBytes(l, Subject(l, sealed))
<1>0. Valid(l) /\ payload \in Seq(Int) /\ pad \in Nat /\ (l.carries \/ payload = <<>>)
  BY Zenon DEF Encodable
<1>1. /\ pt \in Seq(Int) /\ StatedPad(l, pt) = pad /\ from \in Nat
      /\ Len(pt) = from + Len(payload) + pad
      /\ SubSeq(pt, from + 1, from + Len(payload)) = payload
  <2>1. TakesApart(l, payload, pad, pt)
    BY PlaintextReadBack, Zenon
  <2> QED BY <2>1, Zenon DEF TakesApart
<1>2. sealed = pt \o SealTag /\ frame = head \o sealed
  OBVIOUS
<1> HIDE DEF pt, from
<1>3. SealTag \in Seq(Int) /\ Len(SealTag) = 2
  BY DEF SealTag
<1>4. /\ sealed \in Seq(Int) /\ Len(sealed) = Len(pt) + 2 /\ Len(pt) \in Nat
      /\ Len(payload) \in Nat
  <2>1. pt \o SealTag \in Seq(Int) /\ Len(pt \o SealTag) = Len(pt) + Len(SealTag)
    BY <1>1, <1>3, ConcatProperties
  <2>2. Len(pt) \in Nat /\ Len(payload) \in Nat
    BY <1>0, <1>1, LenProperties
  <2> QED BY <2>1, <2>2, <1>2, <1>3
<1>5. /\ head \in Seq(Int) /\ Len(head) = PlainSize(l) /\ PlainSize(l) \in Nat
      /\ FrameEnd(l, frame) = Len(frame) /\ frame \in Seq(Int)
  <2>1. Len(sealed) > 0 /\ <<>> \in Seq(Int)
    BY <1>4, EmptySeq
  <2>2. EndFound(l, frame, <<>>)
    BY <1>0, <1>4, <2>1, FrameCut, Zenon
  <2>3. head \in Seq(Int) /\ Len(head) = PlainSize(l) /\ PlainSize(l) \in Nat
    BY <1>0, <1>4, FrameEndIs
  <2> QED BY <2>2, <2>3, Zenon DEF EndFound
<1> HIDE DEF head
<1>6. Len(frame) = Len(head) + Len(sealed)
  <2>1. Len(head \o sealed) = Len(head) + Len(sealed)
    BY <1>4, <1>5, JoinedLen, Zenon
  <2> QED BY <1>2, <2>1, Zenon
<1>7. SubSeq(frame, PlainSize(l) + 1, Len(frame)) = sealed
  <2>3. SubSeq(frame, Len(head) + 1, Len(head) + Len(sealed)) = sealed
    BY <1>2, <1>4, <1>5, BackOf, Zenon
  <2> QED BY <1>5, <1>6, <2>3
<1>8. SubSeq(sealed, 1, Len(sealed) - Len(SealTag)) = pt
  <2>1. \A k \in 1 .. Len(pt) : sealed[k] = pt[k]
    BY <1>1, <1>2, <1>3, <1>4
  <2>2. Len(pt) <= Len(sealed)
    BY <1>4
  <2>3. SubSeq(sealed, 1, Len(pt)) = pt
    BY <1>1, <1>4, <2>1, <2>2, FrontOf
  <2>4. Len(sealed) - Len(SealTag) = Len(pt)
    BY <1>3, <1>4
  <2> QED BY <2>3, <2>4
<1> DEFINE upTo == Len(pt) - StatedPad(l, pt)
<1>9. upTo = from + Len(payload) /\ ~ upTo < from /\ ~ Len(frame) < PlainSize(l)
  <2>1. upTo = Len(pt) - pad /\ Len(pt) = from + Len(payload) + pad /\ from \in Nat
    BY <1>1, Zenon
  <2>2. Len(frame) = PlainSize(l) + Len(sealed) /\ Len(sealed) = Len(pt) + 2
    BY <1>4, <1>5, <1>6, Zenon
  <2>3. pad \in Nat /\ Len(payload) \in Nat /\ PlainSize(l) \in Nat
    BY <1>0, <1>4, <1>5, Zenon
  <2> HIDE DEF upTo
  <2> QED BY <2>1, <2>2, <2>3
<1>10. ~ (~ l.carries /\ from # upTo)
  <2>1. CASE payload = <<>>
    <3>1. Len(payload) = 0
      BY <2>1, EmptySeq
    <3> QED BY <3>1, <1>1, <1>9
  <2>2. CASE l.carries
    BY <2>2
  <2> QED BY <1>0, <2>1, <2>2
<1>11. SubSeq(pt, from + 1, upTo) = payload
  BY <1>1, <1>9
<1>12. Decode(l, frame) = SubSeq(pt, from + 1, upTo)
  <2> HIDE DEF upTo
  <2> QED BY <1>2, <1>5, <1>7, <1>8, <1>9, <1>10, Zenon DEF Decode, from, upTo
<1>13. Len(sealed) > 0
  BY <1>4
<1> QED BY <1>4, <1>11, <1>12, <1>13, Zenon DEF Decodes

\* For any layouts that validateMessage lets through, whatever stands where in them,
\* for any payload, padding and sizes drawn: what Encode makes Decode takes apart
\* again, ReadFrame and DeclaredFrame find its end, and what was cut short is refused.
THEOREM FramesReadBack == RoundTrip
<1> SUFFICES ASSUME NEW l \in Layouts, Valid(l), NEW payload \in Payloads,
                    NEW pad \in IF l.padded THEN Pads ELSE {0},
                    NEW drawn \in PrefixDraws(l),
                    Encode(l, payload, pad, drawn) # Failed
             PROVE  LET frame == Encode(l, payload, pad, drawn)
                        stream == FlattenSeq(Segments(l, frame))
                    IN /\ Decode(l, frame) = payload
                       /\ ReadFrame(l, stream \o frame) =
                            IF Len(frame) - PlainSize(l) > MaxRest THEN Failed ELSE frame
                       /\ DeclaredFrame(l, frame \o Filler(4)) = frame
                       /\ DeclaredFrame(l, SubSeq(frame, 1, Len(frame) - 1)) = Failed
  BY Zenon DEF RoundTrip
<1> DEFINE frame == Encode(l, payload, pad, drawn)
           sealed == Plaintext(l, payload, pad, drawn) \o SealTag
           stream == FlattenSeq(Segments(l, frame))
<1>1. payload \in Seq(Int) /\ pad \in Nat /\ (l.padded \/ pad = 0)
  <2>1. Payloads \subseteq Seq(Nat) /\ Pads \subseteq Nat
    BY LayoutsAssumption DEF LayoutsAssumption
  <2>2. payload \in Seq(Nat) /\ Nat \subseteq Int
    BY <2>1
  <2>3. payload \in Seq(Int)
    BY <2>2, SeqMonotonic
  <2>4. CASE l.padded
    BY <2>1, <2>3, <2>4
  <2>5. CASE ~ l.padded
    BY <2>3, <2>5
  <2> QED BY <2>4, <2>5
<1>2. /\ l.carries \/ payload = <<>>
      /\ \A i \in Indices(l.enc, "pad") : Fits(pad, l.enc[i].size)
      /\ Fits(Subject(l, sealed), LengthField(l).size)
      /\ frame = PlainBytes(l, Subject(l, sealed)) \o sealed
  BY Zenon DEF Encode
<1>3. Encodable(l, payload, pad, drawn)
  BY <1>1, <1>2, Zenon DEF Encodable
<1>4. sealed = Plaintext(l, payload, pad, drawn) \o SealTag
  OBVIOUS
<1> HIDE DEF frame, sealed
<1>5. Decode(l, frame) = payload /\ sealed \in Seq(Int) /\ Len(sealed) > 0
  <2>1. Decodes(l, payload, sealed, frame)
    BY <1>2, <1>3, <1>4, FrameDecodes
  <2> QED BY <2>1, Zenon DEF Decodes
<1>6. \A more \in Seq(Int) : EndFound(l, frame, more)
  BY <1>2, <1>5, FrameCut, Zenon
<1>7. <<>> \in Seq(Int) /\ Filler(4) \in Seq(Int)
  BY EmptySeq, FillerIs
<1>8. frame \in Seq(Int) /\ Len(frame) >= PlainSize(l)
  BY <1>6, <1>7, Zenon DEF EndFound
<1>9. stream = frame
  <2>1. PlainSize(l) <= Len(frame)
    <3>1. 0 \in Nat
      OBVIOUS
    <3>2. PlainSize(l) \in Nat
      BY <3>1, PlainBytesAre
    <3>3. Len(frame) \in Nat
      BY <1>8, LenProperties
    <3> QED BY <3>2, <3>3, <1>8
  <2> QED BY <1>8, <2>1, SegmentsJoin
<1>10. ReadFrame(l, stream \o frame)
         = IF Len(frame) - PlainSize(l) > MaxRest THEN Failed ELSE frame
  BY <1>6, <1>8, <1>9, Zenon DEF EndFound
<1>11. /\ DeclaredFrame(l, frame \o Filler(4)) = frame
       /\ DeclaredFrame(l, SubSeq(frame, 1, Len(frame) - 1)) = Failed
  BY <1>6, <1>7, Zenon DEF EndFound
<1> QED BY <1>5, <1>10, <1>11, Zenon DEF frame, stream
------------------------------------------------------------------------------
(* Draws: masks *)

\* Powers is the function its recursion describes.
LEMMA PowersAre ==
  /\ Powers \in [0 .. WordBits -> Nat] /\ Powers[0] = 1
  /\ \A k \in 1 .. WordBits : Powers[k] = 2 * Powers[k - 1]
<1> DEFINE n == WordBits
           F(f) == f = [k \in 0 .. n |-> IF k = 0 THEN 1 ELSE 2 * f[k - 1]]
           step == [k \in 1 .. n |-> [x \in Nat |-> 2 * x]]
           g == Powers
           S == {k \in 0 .. n : g[k] \in Nat}
<1>0. n \in Nat
  BY DrawsAssumption
<1>1. \A k \in 1 .. n : \A x \in Nat : step[k][x] = 2 * x /\ step[k][x] \in Nat
  OBVIOUS
<1>2. PICK f : Stepped(f, n, 1, step, Nat)
  <2> HIDE DEF n, step
  <2> QED BY <1>0, <1>1, Recursion
<1> HIDE DEF step
<1>3. F(f)
  <2>1. f \in [0 .. n -> Nat] /\ f[0] = 1 /\ \A k \in 1 .. n : f[k] = step[k][f[k - 1]]
    BY <1>2 DEF Stepped
  <2> HIDE DEF n
  <2>2. ASSUME NEW k \in 0 .. n PROVE f[k] = IF k = 0 THEN 1 ELSE 2 * f[k - 1]
    <3>1. CASE k = 0
      BY <3>1, <2>1
    <3>2. CASE k # 0
      <4>1. k \in 1 .. n /\ k - 1 \in 0 .. n
        BY <3>2, <1>0
      <4>2. f[k - 1] \in Nat
        BY <2>1, <4>1
      <4> QED BY <3>2, <4>1, <4>2, <1>1, <2>1
    <3> QED BY <3>1, <3>2
  <2> QED BY <2>1, <2>2
<1>4. F(g)
  <2>1. g = CHOOSE h : F(h)
    BY DEF Powers
  <2> HIDE DEF F, g
  <2> QED BY <1>3, <2>1
<1> HIDE DEF g, n
<1>5. g[0] = 1 /\ \A k \in 1 .. n : g[k] = 2 * g[k - 1]
  BY <1>4, <1>0
<1>6. \A k \in 0 .. n : g[k] \in Nat
  <2>1. 0 \in S
    BY <1>5, <1>0
  <2>2. ASSUME NEW k \in 1 .. n, k - 1 \in S PROVE k \in S
    <3>1. g[k - 1] \in Nat
      BY <2>2
    <3>2. g[k] \in Nat
      BY <3>1, <1>5, <1>0
    <3> QED BY <3>2, k \in 0 .. n
  <2>3. 0 .. n \subseteq S
    <3> HIDE DEF S
    <3> QED BY <2>1, <2>2, <1>0, CountedUpTo
  <2> QED BY <2>3
<1>7. g \in [0 .. n -> Nat]
  BY <1>4, <1>6
<1> QED BY <1>5, <1>7 DEF g, n

\* 2^w is a multiple of 2^k, by a power.
LEMMA PowersMultiply ==
  ASSUME NEW k \in 0 .. WordBits
  PROVE  /\ Powers[k] \in Nat /\ Powers[k] >= 1
         /\ \E m \in Nat : m >= 1 /\ Powers[WordBits] = m * Powers[k]
<1> DEFINE n == WordBits
           S == {j \in 0 .. n : k <= j => \E m \in Nat : m >= 1 /\ Powers[j] = m * Powers[k]}
           T == {j \in 0 .. n : Powers[j] >= 1}
<1>0. n \in Nat /\ k \in 0 .. n /\ 0 \in 0 .. n /\ n \in 0 .. n
  BY DrawsAssumption
<1>1. /\ \A j \in 0 .. n : Powers[j] \in Nat
      /\ Powers[0] = 1 /\ \A j \in 1 .. n : Powers[j] = 2 * Powers[j - 1]
  BY PowersAre
<1> HIDE DEF n
<1>2. 0 .. n \subseteq T
  <2>1. 0 \in T
    BY <1>0, <1>1
  <2>2. ASSUME NEW j \in 1 .. n, j - 1 \in T PROVE j \in T
    <3>1. Powers[j - 1] >= 1 /\ Powers[j - 1] \in Nat /\ j \in 0 .. n
      BY <2>2, <1>1
    <3> QED BY <3>1, <1>1
  <2> HIDE DEF T
  <2> QED BY <2>1, <2>2, <1>0, CountedUpTo
<1>3. 0 .. n \subseteq S
  <2>1. Powers[k] \in Nat /\ Powers[k] = 1 * Powers[k]
    BY <1>0, <1>1
  <2>2. 0 \in S
    BY <1>0, <2>1
  <2>3. ASSUME NEW j \in 1 .. n, j - 1 \in S PROVE j \in S
    <3>1. CASE k = j
      BY <3>1, <2>1
    <3>2. CASE k <= j - 1
      <4>1. PICK m \in Nat : m >= 1 /\ Powers[j - 1] = m * Powers[k]
        BY <2>3, <3>2
      <4>2. Powers[j] = (2 * m) * Powers[k]
        BY <4>1, <1>1, <2>1
      <4>3. 2 * m \in Nat /\ 2 * m >= 1 /\ j \in 0 .. n
        BY <4>1
      <4> QED BY <4>2, <4>3
    <3>3. CASE k > j
      BY <3>3
    <3> QED BY <3>1, <3>2, <3>3, <1>0
  <2> HIDE DEF S
  <2> QED BY <2>2, <2>3, <1>0, CountedUpTo
<1> QED BY <1>0, <1>1, <1>2, <1>3 DEF n

\* Words are at least 0 .. 511.
LEMMA EnoughWords == Powers[9] = 512 /\ 9 \in 1 .. WordBits /\ Powers[WordBits] >= 512
<1>1. WordBits \in Nat /\ WordBits >= 9
  BY DrawsAssumption
<1>2. \A k \in 1 .. 9 : k \in 1 .. WordBits
  BY <1>1
<1>3. /\ Powers[1] = 2 * Powers[1 - 1] /\ Powers[2] = 2 * Powers[2 - 1]
      /\ Powers[3] = 2 * Powers[3 - 1] /\ Powers[4] = 2 * Powers[4 - 1]
      /\ Powers[5] = 2 * Powers[5 - 1] /\ Powers[6] = 2 * Powers[6 - 1]
      /\ Powers[7] = 2 * Powers[7 - 1] /\ Powers[8] = 2 * Powers[8 - 1]
      /\ Powers[9] = 2 * Powers[9 - 1]
  BY <1>2, PowersAre
<1>4. Powers[9] = 512
  BY <1>3, PowersAre
<1>5. PICK m \in Nat : m >= 1 /\ Powers[WordBits] = m * Powers[9]
  BY <1>1, PowersMultiply
<1> QED BY <1>1, <1>4, <1>5

\* The mask of n is one less than a power that is less than twice n.
LEMMA MaskIs ==
  ASSUME NEW n \in 1 .. 512
  PROVE  \E k \in 1 .. WordBits :
           /\ MaskOf(n) + 1 = Powers[k] /\ n <= Powers[k] /\ Powers[k] <= 2 * n
<1> DEFINE K == {j \in 1 .. WordBits : Powers[j] >= n}
           M == {Powers[k] - 1 : k \in K}
<1>1. \A j \in 0 .. WordBits : Powers[j] \in Nat /\ Powers[j] >= 1
  BY PowersMultiply
<1>2. 9 \in K
  BY EnoughWords
<1>3. M \subseteq Nat /\ M # {}
  BY <1>1, <1>2
<1>4. PICK x \in M : \A y \in M : x <= y
  <2> HIDE DEF M
  <2> QED BY <1>3, LeastOf
<1>5. MaskOf(n) \in M /\ \A y \in M : MaskOf(n) <= y
  <2>1. MaskOf(n) = CHOOSE z \in M : \A y \in M : z <= y
    BY DEF MaskOf, Min
  <2> HIDE DEF M
  <2> QED BY <2>1, <1>4
<1>6. PICK k \in K : MaskOf(n) = Powers[k] - 1
  BY <1>5
<1>7. MaskOf(n) + 1 = Powers[k] /\ n <= Powers[k] /\ k \in 1 .. WordBits
  BY <1>6, <1>1
<1>8. Powers[k] <= 2 * n
  <2>0. WordBits \in Nat
    BY DrawsAssumption
  <2>1. Powers[k] = 2 * Powers[k - 1] /\ k - 1 \in 0 .. WordBits
    BY <1>7, <2>0, PowersAre
  <2>2. CASE k = 1
    BY <2>1, <2>2, PowersAre
  <2>3. CASE k # 1
    <3>1. k - 1 \in 1 .. WordBits
      BY <1>7, <2>0, <2>3
    <3>2. Powers[k - 1] < n
      <4>1. SUFFICES ASSUME ~ Powers[k - 1] < n PROVE FALSE
        OBVIOUS
      <4>2. Powers[k - 1] \in Nat /\ Powers[k - 1] >= 1
        BY <1>1, <2>1
      <4>3. k - 1 \in K
        BY <3>1, <4>1, <4>2
      <4>4. Powers[k - 1] - 1 \in M
        BY <4>3
      <4>5. Powers[k] - 1 <= Powers[k - 1] - 1
        BY <4>4, <1>5, <1>6
      <4> QED BY <4>2, <4>5, <2>1
    <3>3. Powers[k - 1] \in Nat
      BY <1>1, <2>1
    <3> QED BY <2>1, <3>2, <3>3
  <2> QED BY <2>2, <2>3
<1> QED BY <1>7, <1>8

\* Of m * p words, m leave any remainder.
LEMMA Remainders ==
  ASSUME NEW p \in Nat, p >= 1, NEW m \in Nat, NEW v \in 0 .. p - 1
  PROVE  Cardinality({w \in 0 .. (m * p) - 1 : w % p = v}) = m
<1> DEFINE S == 0 .. m - 1
           T == {w \in 0 .. (m * p) - 1 : w % p = v}
           f == [q \in S |-> (q * p) + v]
<1>1. ASSUME NEW q \in S
      PROVE  /\ (q * p) + v \in 0 .. (m * p) - 1 /\ ((q * p) + v) % p = v
             /\ ((q * p) + v) \div p = q
  <2>1. q \in Nat /\ q + 1 <= m /\ v \in Nat /\ v + 1 <= p
    OBVIOUS
  <2>2. (q + 1) * p <= m * p
    BY <2>1
  <2>3. (q + 1) * p = (q * p) + p /\ q * p \in Nat /\ m * p \in Nat
    BY <2>1
  <2>4. (q * p) + v \in 0 .. (m * p) - 1
    BY <2>1, <2>2, <2>3
  <2>5. ((q * p) + v) % p = v /\ ((q * p) + v) \div p = q
    BY <2>1
  <2> QED BY <2>4, <2>5
<1>2. f \in [S -> T]
  BY <1>1
<1>3. \A a, b \in S : f[a] = f[b] => a = b
  <2> TAKE a, b \in S
  <2>1. ((a * p) + v) \div p = a /\ ((b * p) + v) \div p = b
    BY <1>1
  <2> QED BY <2>1
<1>4. \A w \in T : \E q \in S : f[q] = w
  <2> TAKE w \in T
  <2>1. w \in Nat /\ w <= (m * p) - 1 /\ w % p = v
    OBVIOUS
  <2> DEFINE q == w \div p
  <2>2. w = (q * p) + v /\ q \in Nat
    <3>1. w = (p * (w \div p)) + (w % p) /\ w \div p \in Nat
      BY <2>1
    <3> HIDE DEF q
    <3>2. w = (p * q) + v /\ q \in Nat
      BY <3>1, <2>1 DEF q
    <3> QED BY <3>2
  <2> HIDE DEF q
  <2>3. q < m
    <3>1. SUFFICES ASSUME q >= m PROVE FALSE
      BY <2>2
    <3>2. q * p >= m * p
      BY <3>1, <2>2
    <3>3. q * p \in Nat /\ m * p \in Nat
      BY <2>2
    <3> QED BY <2>1, <2>2, <3>2, <3>3
  <2>4. q \in S /\ f[q] = w
    BY <2>2, <2>3
  <2> QED BY <2>4
<1>5. f \in Bijection(S, T)
  <2> HIDE DEF f, S, T
  <2>1. IsInjective(f)
    BY <1>2, <1>3 DEF IsInjective
  <2> QED BY <1>2, <1>4, <2>1 DEF Bijection, Injection, Surjection
<1>6. IsFiniteSet(S) /\ Cardinality(S) = m
  BY FS_Interval
<1>7. ExistsBijection(S, T)
  BY <1>5, Zenon DEF ExistsBijection
<1> HIDE DEF S, T
<1>8. Cardinality(T) = Cardinality(S)
  BY <1>6, <1>7, FS_Bijection
<1> QED BY <1>6, <1>8 DEF T

\* As many words give one value below n as another, and half of them give one.
LEMMA ValuesFair ==
  ASSUME NEW n \in 1 .. 512
  PROVE  \E m \in Nat :
           /\ \A v \in 0 .. n - 1 : Cardinality({w \in Words : Masked(w, n) = v}) = m
           /\ (2 * n) * m >= Powers[WordBits]
<1>1. PICK k \in 1 .. WordBits :
        /\ MaskOf(n) + 1 = Powers[k] /\ n <= Powers[k] /\ Powers[k] <= 2 * n
  BY MaskIs
<1>2. PICK m \in Nat : Powers[WordBits] = m * Powers[k]
  <2>1. k \in 0 .. WordBits
    BY DrawsAssumption
  <2> QED BY <2>1, PowersMultiply
<1>3. Powers[k] \in Nat /\ Powers[k] >= 1
  <2>1. k \in 0 .. WordBits
    BY DrawsAssumption
  <2> QED BY <2>1, PowersMultiply
<1> DEFINE p == Powers[k]
<1>4. ASSUME NEW v \in 0 .. n - 1
      PROVE  Cardinality({w \in Words : Masked(w, n) = v}) = m
  <2>1. {w \in Words : Masked(w, n) = v} = {w \in 0 .. (m * p) - 1 : w % p = v}
    BY <1>1, <1>2 DEF Words, Masked
  <2>2. v \in 0 .. p - 1
    BY <1>1, <1>3
  <2> HIDE DEF p
  <2>3. Cardinality({w \in 0 .. (m * p) - 1 : w % p = v}) = m
    BY <1>3, <2>2, Remainders DEF p
  <2> QED BY <2>1, <2>3
<1>5. (2 * n) * m >= Powers[WordBits]
  <2> HIDE DEF p
  <2>1. p \in Nat /\ p <= 2 * n /\ 2 * n \in Nat
    BY <1>1, <1>3 DEF p
  <2>2. m * p <= m * (2 * n)
    BY <2>1
  <2>3. m * (2 * n) = (2 * n) * m
    BY <2>1
  <2> QED BY <1>2, <2>2, <2>3 DEF p
<1> QED BY <1>4, <1>5

------------------------------------------------------------------------------
(* Draws: ranges *)

\* A word that is kept gives its masked value, and every value below n is a word's.
LEMMA RangeDrawn ==
  ASSUME NEW lo \in Nat, NEW hi \in Nat, lo < hi, hi - lo \in 1 .. 512
  PROVE  {RangeChoice(lo, hi, <<w>>).value : w \in {v \in Words : Kept(hi - lo, <<v>>) # {}}}
           = lo .. hi - 1
<1> DEFINE n == hi - lo
           K == {v \in Words : Kept(n, <<v>>) # {}}
<1>1. PICK k \in 1 .. WordBits : MaskOf(n) + 1 = Powers[k] /\ n <= Powers[k]
  BY MaskIs
<1>2. Powers[k] \in Nat /\ Powers[k] >= 1 /\ Powers[WordBits] >= 512 /\ Powers[WordBits] \in Nat
  <2>1. k \in 0 .. WordBits /\ WordBits \in 0 .. WordBits
    BY DrawsAssumption
  <2> QED BY <2>1, PowersMultiply, EnoughWords
<1>3. ASSUME NEW w \in Words
      PROVE  /\ Masked(w, n) \in Nat
             /\ Kept(n, <<w>>) = IF Masked(w, n) < n THEN {1} ELSE {}
  <2>1. w \in Nat
    BY <1>2 DEF Words
  <2>2. w % Powers[k] \in Nat
    BY <1>2, <2>1
  <2>3. Kept(n, <<w>>) = {i \in {1} : Masked(<<w>>[i], n) < n}
    BY DEF Kept
  <2>4. <<w>>[1] = w
    OBVIOUS
  <2> QED BY <1>1, <2>2, <2>3, <2>4 DEF Masked
<1>4. ASSUME NEW w \in K
      PROVE  RangeChoice(lo, hi, <<w>>).value = lo + Masked(w, n) /\ Masked(w, n) < n
  <2>1. w \in Words /\ Kept(n, <<w>>) = {1} /\ Masked(w, n) < n
    BY <1>3
  <2>2. Min(Kept(n, <<w>>)) = 1
    <3>1. Min({1}) = 1
      BY DEF Min
    <3> QED BY <2>1, <3>1
  <2>3. Intn(n, <<w>>).value = Masked(<<w>>[1], n)
    BY <2>2 DEF Intn
  <2>4. RangeChoice(lo, hi, <<w>>).value = lo + Intn(n, <<w>>).value
    BY DEF RangeChoice, Intn
  <2> QED BY <2>1, <2>3, <2>4
<1>5. ASSUME NEW w \in K PROVE RangeChoice(lo, hi, <<w>>).value \in lo .. hi - 1
  <2>1. Masked(w, n) \in Nat /\ Masked(w, n) < n
    BY <1>3, <1>4
  <2> QED BY <1>4, <2>1
<1>6. ASSUME NEW y \in lo .. hi - 1 PROVE \E w \in K : RangeChoice(lo, hi, <<w>>).value = y
  <2> DEFINE w == y - lo
  <2>1. w \in Nat /\ w < n /\ w < Powers[k] /\ n <= 512
    BY <1>1, <1>2
  <2>2. w \in Words
    BY <1>2, <2>1 DEF Words
  <2>3. Masked(w, n) = w
    <3>1. w % Powers[k] = w
      BY <1>2, <2>1
    <3> QED BY <1>1, <3>1 DEF Masked
  <2>4. w \in K
    BY <1>3, <2>1, <2>2, <2>3
  <2>5. RangeChoice(lo, hi, <<w>>).value = lo + w
    BY <1>4, <2>3, <2>4
  <2> QED BY <2>4, <2>5
<1> HIDE DEF K
<1>7. {RangeChoice(lo, hi, <<w>>).value : w \in K} = lo .. hi - 1
  <2> DEFINE D == lo .. hi - 1
             v(w) == RangeChoice(lo, hi, <<w>>).value
  <2>1. /\ \A w \in K : v(w) \in D
        /\ \A y \in D : \E w \in K : v(w) = y
    BY <1>5, <1>6
  <2> HIDE DEF v, D
  <2>2. {v(w) : w \in K} = D
    BY <2>1
  <2> QED BY <2>2 DEF v, D
<1> QED BY <1>7 DEF K

------------------------------------------------------------------------------
(* Draws: weights *)

\* Sums is the function its recursion describes.
LEMMA SumsAre ==
  ASSUME NEW numbers \in Seq(Nat)
  PROVE  /\ Sums(numbers) \in [0 .. Len(numbers) -> Nat] /\ Sums(numbers)[0] = 0
         /\ \A k \in 1 .. Len(numbers) : Sums(numbers)[k] = Sums(numbers)[k - 1] + numbers[k]
<1> DEFINE n == Len(numbers)
           F(f) == f = [k \in 0 .. n |-> IF k = 0 THEN 0 ELSE f[k - 1] + numbers[k]]
           step == [k \in 1 .. n |-> [x \in Nat |-> x + numbers[k]]]
           g == Sums(numbers)
           S == {k \in 0 .. n : g[k] \in Nat}
<1>0. n \in Nat /\ \A k \in 1 .. n : numbers[k] \in Nat
  OBVIOUS
<1>1. \A k \in 1 .. n : \A x \in Nat : step[k][x] = x + numbers[k] /\ step[k][x] \in Nat
  BY <1>0
<1>2. PICK f : Stepped(f, n, 0, step, Nat)
  <2> HIDE DEF n, step
  <2> QED BY <1>0, <1>1, Recursion
<1> HIDE DEF step
<1>3. F(f)
  <2>1. f \in [0 .. n -> Nat] /\ f[0] = 0 /\ \A k \in 1 .. n : f[k] = step[k][f[k - 1]]
    BY <1>2 DEF Stepped
  <2> HIDE DEF n
  <2>2. ASSUME NEW k \in 0 .. n PROVE f[k] = IF k = 0 THEN 0 ELSE f[k - 1] + numbers[k]
    <3>1. CASE k = 0
      BY <3>1, <2>1
    <3>2. CASE k # 0
      <4>1. k \in 1 .. n /\ k - 1 \in 0 .. n
        BY <3>2, <1>0
      <4>2. f[k - 1] \in Nat
        BY <2>1, <4>1
      <4> QED BY <3>2, <4>1, <4>2, <1>1, <2>1
    <3> QED BY <3>1, <3>2
  <2> QED BY <2>1, <2>2
<1>4. F(g)
  <2>1. g = CHOOSE h : F(h)
    BY DEF Sums
  <2> HIDE DEF F, g
  <2> QED BY <1>3, <2>1
<1> HIDE DEF g, n
<1>5. g[0] = 0 /\ \A k \in 1 .. n : g[k] = g[k - 1] + numbers[k]
  BY <1>4, <1>0
<1>6. \A k \in 0 .. n : g[k] \in Nat
  <2>1. 0 \in S
    BY <1>5, <1>0
  <2>2. ASSUME NEW k \in 1 .. n, k - 1 \in S PROVE k \in S
    <3>1. g[k - 1] \in Nat
      BY <2>2
    <3>2. g[k] \in Nat
      BY <3>1, <1>5, <1>0
    <3> QED BY <3>2, k \in 0 .. n
  <2>3. 0 .. n \subseteq S
    <3> HIDE DEF S
    <3> QED BY <2>1, <2>2, <1>0, CountedUpTo
  <2> QED BY <2>3
<1>7. g \in [0 .. n -> Nat]
  BY <1>4, <1>6
<1> QED BY <1>5, <1>7 DEF g, n

\* They do not decrease.
LEMMA SumsGrow ==
  ASSUME NEW numbers \in Seq(Nat), NEW i \in 0 .. Len(numbers), NEW j \in 0 .. Len(numbers), i <= j
  PROVE  Sums(numbers)[i] <= Sums(numbers)[j]
<1> DEFINE n == Len(numbers)
           g == Sums(numbers)
           S == {k \in 0 .. n : i <= k => g[i] <= g[k]}
<1>1. /\ n \in Nat /\ \A k \in 0 .. n : g[k] \in Nat
      /\ \A k \in 1 .. n : g[k] = g[k - 1] + numbers[k] /\ numbers[k] \in Nat
  <2>1. n \in Nat /\ \A k \in 1 .. n : numbers[k] \in Nat
    OBVIOUS
  <2>2. g \in [0 .. n -> Nat] /\ \A k \in 1 .. n : g[k] = g[k - 1] + numbers[k]
    BY SumsAre, Zenon
  <2> HIDE DEF n, g
  <2> QED BY <2>1, <2>2
<1> HIDE DEF n, g
<1>2. 0 \in S
  BY <1>1 DEF n
<1>3. ASSUME NEW k \in 1 .. n, k - 1 \in S PROVE k \in S
  <2>1. k \in 0 .. n /\ k - 1 \in 0 .. n
    BY <1>1
  <2>2. CASE i <= k - 1
    <3>1. g[i] <= g[k - 1] /\ g[k] = g[k - 1] + numbers[k] /\ g[i] \in Nat /\ g[k - 1] \in Nat
      BY <1>1, <1>3, <2>1, <2>2 DEF n
    <3>2. g[i] <= g[k]
      BY <1>1, <3>1
    <3> QED BY <2>1, <3>2
  <2>3. CASE i = k
    <3>1. g[k] \in Nat
      BY <1>1, <2>1
    <3> QED BY <2>1, <2>3, <3>1
  <2>4. CASE i > k
    BY <2>1, <2>4
  <2> QED BY <2>1, <2>2, <2>3, <2>4, <1>1 DEF n
<1>4. 0 .. n \subseteq S
  <2> HIDE DEF S
  <2> QED BY <1>1, <1>2, <1>3, CountedUpTo
<1> QED BY <1>4 DEF n, g

\* An index comes of the numbers in its stretch, as many as it weighs.
LEMMA IndexFair ==
  ASSUME NEW weights \in Seq(Nat), NEW i \in DOMAIN weights
  PROVE  Cardinality({x \in 0 .. Total(weights) - 1 : Index(weights, x) = i}) = weights[i]
<1> DEFINE n == Len(weights)
           g == Sums(weights)
           T == {x \in 0 .. Total(weights) - 1 : Index(weights, x) = i}
           S == g[i - 1] .. g[i] - 1
<1>1. /\ n \in Nat /\ i \in 1 .. n /\ DOMAIN weights = 1 .. n /\ n \in 1 .. n
      /\ \A k \in 0 .. n : g[k] \in Nat
      /\ g[i] = g[i - 1] + weights[i] /\ weights[i] \in Nat
      /\ i \in 0 .. n /\ i - 1 \in 0 .. n
      /\ Total(weights) = g[n]
  <2>1. n \in Nat /\ i \in 1 .. n /\ DOMAIN weights = 1 .. n /\ \A k \in 1 .. n : weights[k] \in Nat
    OBVIOUS
  <2>2. g \in [0 .. n -> Nat] /\ \A k \in 1 .. n : g[k] = g[k - 1] + weights[k]
    BY SumsAre, Zenon
  <2>3. Total(weights) = g[n]
    BY DEF Total
  <2> HIDE DEF n, g
  <2>4. i \in 0 .. n /\ i - 1 \in 0 .. n /\ n \in 1 .. n
    BY <2>1
  <2>5. g[i] = g[i - 1] + weights[i] /\ weights[i] \in Nat
    BY <2>1, <2>2
  <2>6. \A k \in 0 .. n : g[k] \in Nat
    BY <2>2
  <2> QED BY <2>1, <2>3, <2>4, <2>5, <2>6
<1>2. \A a, b \in 0 .. n : a <= b => g[a] <= g[b]
  BY SumsGrow
<1> HIDE DEF n, g
<1>3. ASSUME NEW x \in 0 .. g[n] - 1
      PROVE  Index(weights, x) = i <=> g[i - 1] <= x /\ x < g[i]
  <2> DEFINE I == {k \in 1 .. n : x < g[k]}
  <2>0. g[n] \in Nat /\ g[i - 1] \in Nat /\ g[i] \in Nat /\ x \in Nat
    BY <1>1
  <2>1. n \in I
    BY <1>1, <2>0
  <2>2. PICK m \in I : \A k \in I : m <= k
    <3>1. I \subseteq Nat /\ I # {}
      BY <2>1
    <3> HIDE DEF I
    <3> QED BY <3>1, LeastOf
  <2>3. Index(weights, x) = CHOOSE z \in I : \A k \in I : z <= k
    BY <1>1 DEF Index, Min, g
  <2>4. Index(weights, x) \in I /\ \A k \in I : Index(weights, x) <= k
    <3> HIDE DEF I
    <3> QED BY <2>2, <2>3
  <2>5. ASSUME Index(weights, x) = i PROVE g[i - 1] <= x /\ x < g[i]
    <3>1. x < g[i]
      BY <2>4, <2>5
    <3>2. CASE i = 1
      <4>1. g[0] = 0
        BY SumsAre DEF g
      <4> QED BY <3>1, <3>2, <4>1, <2>0
    <3>3. CASE i # 1
      <4>1. i - 1 \in 1 .. n /\ ~ i <= i - 1
        BY <1>1, <3>3
      <4>2. i - 1 \notin I
        BY <2>4, <2>5, <4>1
      <4> QED BY <3>1, <4>1, <4>2, <2>0
    <3> QED BY <3>2, <3>3
  <2>6. ASSUME g[i - 1] <= x, x < g[i] PROVE Index(weights, x) = i
    <3>1. i \in I
      BY <1>1, <2>6
    <3>2. \A k \in I : i <= k
      <4> TAKE k \in I
      <4>1. SUFFICES ASSUME k <= i - 1 PROVE FALSE
        BY <1>1
      <4>2. k \in 0 .. n /\ x < g[k] /\ g[k] \in Nat
        BY <1>1
      <4>3. g[k] <= g[i - 1]
        BY <1>1, <1>2, <4>1, <4>2
      <4> QED BY <2>6, <4>2, <4>3, <2>0
    <3>3. I \subseteq Nat
      BY <1>1
    <3> HIDE DEF I
    <3>4. Index(weights, x) <= i /\ i <= Index(weights, x)
      BY <2>4, <3>1, <3>2, Zenon
    <3>5. Index(weights, x) \in Nat /\ i \in Nat
      BY <2>4, <3>1, <3>3, Zenon
    <3> QED BY <3>4, <3>5
  <2> QED BY <2>5, <2>6
<1>4. T = S
  <2>1. g[n] \in Nat /\ g[i - 1] \in Nat /\ g[i] \in Nat /\ g[i] <= g[n]
    BY <1>1, <1>2
  <2>2. S \subseteq 0 .. g[n] - 1
    BY <2>1
  <2>3. \A x \in S : x \in Int /\ g[i - 1] <= x /\ x < g[i]
    BY <2>1
  <2>4. \A x \in 0 .. g[n] - 1 : g[i - 1] <= x /\ x < g[i] => x \in S
    BY <2>1
  <2>5. T = {x \in 0 .. g[n] - 1 : Index(weights, x) = i}
    BY <1>1
  <2> HIDE DEF S, T
  <2> QED BY <1>3, <2>2, <2>3, <2>4, <2>5
<1>5. Cardinality(S) = weights[i]
  <2>1. g[i - 1] \in Nat /\ g[i] \in Nat
    BY <1>1
  <2>2. Cardinality(S) = IF g[i - 1] > g[i] - 1 THEN 0 ELSE ((g[i] - 1) - g[i - 1]) + 1
    <3> DEFINE a == g[i - 1]
               b == g[i] - 1
    <3>1. a \in Int /\ b \in Int
      BY <2>1
    <3> HIDE DEF a, b
    <3>2. Cardinality(a .. b) = IF a > b THEN 0 ELSE b - a + 1
      BY <3>1, FS_Interval
    <3> QED BY <3>2 DEF a, b
  <2> QED BY <1>1, <2>1, <2>2
<1> QED BY <1>4, <1>5

------------------------------------------------------------------------------
(* Draws: orders *)

\* The orders of n things, and the orders that have all of them.
Orders(n) == {p \in [0 .. n - 1 -> 0 .. n - 1] : \A i, j \in 0 .. n - 1 : p[i] = p[j] => i = j}
Whole(p, n) == \A v \in 0 .. n - 1 : \E x \in 0 .. n - 1 : p[x] = v

\* p is what becomes of an order in m swaps, one after the other.
Shuffle(p, n, js, m) ==
  /\ p \in [0 .. m -> [0 .. n - 1 -> 0 .. n - 1]]
  /\ p[0] = [i \in 0 .. n - 1 |-> i]
  /\ \A k \in 1 .. m : /\ js[k] \in 0 .. n - k
                       /\ p[k] = Swapped(p[k - 1], n - k, js[k])

\* A swap makes an order of an order, and leaves the other places alone.
LEMMA SwapKeeps ==
  ASSUME NEW n \in Nat, NEW p \in Orders(n), Whole(p, n),
         NEW i \in 0 .. n - 1, NEW j \in 0 .. n - 1
  PROVE  /\ Swapped(p, i, j) \in Orders(n) /\ Whole(Swapped(p, i, j), n)
         /\ Swapped(p, i, j)[i] = p[j]
         /\ \A x \in 0 .. n - 1 : x # i /\ x # j => Swapped(p, i, j)[x] = p[x]
<1> DEFINE D == 0 .. n - 1
           q == Swapped(p, i, j)
           back == [x \in D |-> IF x = i THEN j ELSE IF x = j THEN i ELSE x]
<1>1. /\ p \in [D -> D] /\ \A a, b \in D : p[a] = p[b] => a = b
      /\ \A v \in D : \E x \in D : p[x] = v
  BY DEF Orders, Whole
<1> HIDE DEF D
<1>2. i \in D /\ j \in D
  BY DEF D
<1>3. q \in [D -> D] /\ \A x \in D : q[x] = IF x = j THEN p[i] ELSE IF x = i THEN p[j] ELSE p[x]
  BY <1>1, <1>2 DEF Swapped
<1>4. \A x \in D : back[x] \in D /\ q[x] = p[back[x]] /\ q[back[x]] = p[x]
  BY <1>2, <1>3
<1>5. \A a, b \in D : back[a] = back[b] => a = b
  BY <1>2
<1> HIDE DEF q, back
<1>6. \A a, b \in D : q[a] = q[b] => a = b
  BY <1>1, <1>4, <1>5
<1>7. \A v \in D : \E x \in D : q[x] = v
  BY <1>1, <1>4
<1>8. q[i] = p[j] /\ \A x \in D : x # i /\ x # j => q[x] = p[x]
  BY <1>2, <1>3
<1>9. q \in Orders(n) /\ Whole(q, n)
  BY <1>3, <1>6, <1>7 DEF Orders, Whole, D
<1> QED BY <1>8, <1>9 DEF q, D

\* What is shuffled stays an order.
LEMMA ShuffledOrder ==
  ASSUME NEW n \in Nat \ {0}, NEW m \in 0 .. n - 1, NEW p, NEW js, Shuffle(p, n, js, m)
  PROVE  \A k \in 0 .. m : p[k] \in Orders(n) /\ Whole(p[k], n)
<1> DEFINE S == {k \in 0 .. m : p[k] \in Orders(n) /\ Whole(p[k], n)}
<1>1. 0 \in S
  <2>1. p[0] = [i \in 0 .. n - 1 |-> i]
    BY DEF Shuffle
  <2>2. p[0] \in Orders(n)
    BY <2>1 DEF Orders
  <2>3. Whole(p[0], n)
    BY <2>1 DEF Whole
  <2> QED BY <2>2, <2>3
<1>2. ASSUME NEW k \in 1 .. m, k - 1 \in S PROVE k \in S
  <2>1. js[k] \in 0 .. n - k /\ p[k] = Swapped(p[k - 1], n - k, js[k])
    BY DEF Shuffle
  <2>2. n - k \in 0 .. n - 1 /\ js[k] \in 0 .. n - 1 /\ k \in 0 .. m
    BY <2>1
  <2>3. p[k - 1] \in Orders(n) /\ Whole(p[k - 1], n)
    BY <1>2
  <2>4. p[k] \in Orders(n) /\ Whole(p[k], n)
    <3> DEFINE q == p[k - 1]
               i == n - k
               j == js[k]
    <3>1. q \in Orders(n) /\ Whole(q, n) /\ i \in 0 .. n - 1 /\ j \in 0 .. n - 1
      BY <2>2, <2>3
    <3>2. p[k] = Swapped(q, i, j)
      BY <2>1
    <3> HIDE DEF q, i, j
    <3> QED BY <3>1, <3>2, SwapKeeps
  <2> QED BY <2>2, <2>4
<1>3. 0 .. m \subseteq S
  <2> HIDE DEF S
  <2> QED BY <1>1, <1>2, CountedUpTo
<1> QED BY <1>3

\* Perm is the last of them.
LEMMA PermIs ==
  ASSUME NEW n \in Nat \ {0}, NEW p, NEW js, Shuffle(p, n, js, n - 1)
  PROVE  Perm(n, js) = p[n - 1]
<1> DEFINE m == n - 1
           a == [i \in 0 .. n - 1 |-> i]
           F(f) == f = [k \in 0 .. m |-> IF k = 0 THEN a ELSE Swapped(f[k - 1], n - k, js[k])]
           g == CHOOSE f : F(f)
           S == {k \in 0 .. m : g[k] = p[k]}
<1>1. Perm(n, js) = g[m]
  BY DEF Perm
<1>2. m \in Nat /\ DOMAIN p = 0 .. m /\ p = [k \in 0 .. m |-> p[k]]
  BY DEF Shuffle
<1>3. p[0] = a /\ \A k \in 1 .. m : p[k] = Swapped(p[k - 1], n - k, js[k])
  BY DEF Shuffle
<1> HIDE DEF m, a
<1>4. F(p)
  <2>1. ASSUME NEW k \in 0 .. m
        PROVE  p[k] = IF k = 0 THEN a ELSE Swapped(p[k - 1], n - k, js[k])
    <3>1. CASE k = 0
      BY <1>3, <3>1
    <3>2. CASE k # 0
      <4>1. k \in 1 .. m
        BY <1>2, <3>2
      <4> QED BY <1>3, <3>2, <4>1
    <3> QED BY <3>1, <3>2
  <2> QED BY <1>2, <2>1
<1>5. F(g)
  <2> HIDE DEF F
  <2> QED BY <1>4
<1> HIDE DEF g
<1>6. g[0] = a /\ \A k \in 1 .. m : g[k] = Swapped(g[k - 1], n - k, js[k])
  <2>1. \A k \in 0 .. m : g[k] = IF k = 0 THEN a ELSE Swapped(g[k - 1], n - k, js[k])
    BY <1>5
  <2>2. 0 \in 0 .. m /\ \A k \in 1 .. m : k \in 0 .. m /\ k # 0
    BY <1>2
  <2> QED BY <2>1, <2>2
<1>7. 0 \in S
  BY <1>2, <1>3, <1>6
<1>8. ASSUME NEW k \in 1 .. m, k - 1 \in S PROVE k \in S
  <2>1. k \in 0 .. m /\ g[k - 1] = p[k - 1]
    BY <1>2, <1>8
  <2> QED BY <2>1, <1>3, <1>6
<1>9. 0 .. m \subseteq S
  <2> HIDE DEF S
  <2> QED BY <1>2, <1>7, <1>8, CountedUpTo
<1> QED BY <1>1, <1>2, <1>9 DEF m

\* Whatever is drawn, there is such a shuffle.
LEMMA ShuffleExists ==
  ASSUME NEW n \in Nat \ {0}, NEW js \in PermDraws(n)
  PROVE  \E p : Shuffle(p, n, js, n - 1)
<1> DEFINE m == n - 1
           F == [0 .. n - 1 -> 0 .. n - 1]
           a == [i \in 0 .. n - 1 |-> i]
           step == [k \in 1 .. m |-> [f \in F |-> Swapped(f, n - k, js[k])]]
<1>1. m \in Nat /\ a \in F
  OBVIOUS
<1>2. \A k \in 1 .. m : js[k] \in 0 .. n - k /\ n - k \in 0 .. n - 1 /\ js[k] \in 0 .. n - 1
  BY DEF PermDraws
<1>3. \A k \in 1 .. m : \A f \in F : /\ step[k][f] = Swapped(f, n - k, js[k])
                                     /\ step[k][f] \in F
  <2> TAKE k \in 1 .. m
  <2> TAKE f \in F
  <2>1. step[k][f] = Swapped(f, n - k, js[k])
    OBVIOUS
  <2>2. Swapped(f, n - k, js[k]) \in F
    BY <1>2 DEF Swapped
  <2> QED BY <2>1, <2>2
<1>4. PICK p : Stepped(p, m, a, step, F)
  <2> HIDE DEF m, a, F, step
  <2> QED BY <1>1, <1>3, Recursion
<1>5. p \in [0 .. m -> F] /\ p[0] = a /\ \A k \in 1 .. m : p[k] = step[k][p[k - 1]]
  BY <1>4 DEF Stepped
<1>6. \A k \in 1 .. m : p[k] = Swapped(p[k - 1], n - k, js[k])
  <2> TAKE k \in 1 .. m
  <2>1. p[k - 1] \in F
    <3>1. k - 1 \in 0 .. m
      OBVIOUS
    <3> HIDE DEF F, m
    <3> QED BY <1>5, <3>1
  <2> HIDE DEF F, m, step
  <2> QED BY <1>3, <1>5, <2>1
<1>7. Shuffle(p, n, js, m)
  BY <1>2, <1>5, <1>6 DEF Shuffle
<1> QED BY <1>7

\* For every order and as many swaps as one likes there are draws that put the
\* last places right.
LEMMA OrderReached ==
  ASSUME NEW n \in Nat \ {0}, NEW t \in Orders(n)
  PROVE  \E js \in PermDraws(n) : Perm(n, js) = t
<1> DEFINE Right(js, p, m) ==
             /\ js \in [1 .. m -> 0 .. n - 1] /\ Shuffle(p, n, js, m)
             /\ \A x \in n - m .. n - 1 : p[m][x] = t[x]
           S == {m \in 0 .. n - 1 : \E js, p : Right(js, p, m)}
<1>0. t \in [0 .. n - 1 -> 0 .. n - 1] /\ \A i, j \in 0 .. n - 1 : t[i] = t[j] => i = j
  BY DEF Orders
<1>1. 0 \in S
  <2> DEFINE a == [i \in 0 .. n - 1 |-> i]
             p == [k \in 0 .. 0 |-> a]
             js == [k \in 1 .. 0 |-> 0]
  <2>1. a \in [0 .. n - 1 -> 0 .. n - 1]
    OBVIOUS
  <2>2. p \in [0 .. 0 -> [0 .. n - 1 -> 0 .. n - 1]] /\ p[0] = a
    BY <2>1
  <2>3. js \in [1 .. 0 -> 0 .. n - 1]
    OBVIOUS
  <2>4. Shuffle(p, n, js, 0)
    BY <2>2 DEF Shuffle
  <2>5. \A x \in n - 0 .. n - 1 : p[0][x] = t[x]
    OBVIOUS
  <2> HIDE DEF p, js
  <2>6. Right(js, p, 0)
    BY <2>3, <2>4, <2>5
  <2> HIDE DEF Right
  <2> QED BY <2>6
<1>2. ASSUME NEW m \in 1 .. n - 1, m - 1 \in S PROVE m \in S
  <2>1. PICK js, p : Right(js, p, m - 1)
    BY <1>2
  <2> DEFINE o == p[m - 1]
             i == n - m
  <2>2. /\ js \in [1 .. m - 1 -> 0 .. n - 1] /\ Shuffle(p, n, js, m - 1)
        /\ \A x \in n - (m - 1) .. n - 1 : o[x] = t[x]
    BY <2>1
  <2>3. i \in 0 .. n - 1 /\ m - 1 \in 0 .. n - 1 /\ m - 1 \in 0 .. m - 1 /\ n - (m - 1) = i + 1
    OBVIOUS
  <2>4. o \in Orders(n) /\ Whole(o, n)
    BY <2>2, <2>3, ShuffledOrder
  <2>5. PICK j \in 0 .. n - 1 : o[j] = t[i]
    BY <1>0, <2>3, <2>4 DEF Whole
  <2>6. j \in 0 .. i
    <3>1. SUFFICES ASSUME j > i PROVE FALSE
      BY <2>3
    <3>2. j \in n - (m - 1) .. n - 1
      BY <2>3, <3>1
    <3>3. o[j] = t[j]
      BY <2>2, <3>2
    <3>4. i \in 0 .. n - 1 /\ j \in 0 .. n - 1 /\ i # j
      BY <2>3, <3>1
    <3> HIDE DEF o, i, S, Right
    <3>5. t[i] = t[j]
      BY <2>5, <3>3
    <3> QED BY <1>0, <3>4, <3>5
  <2> DEFINE q == Swapped(o, i, j)
             js2 == [k \in 1 .. m |-> IF k = m THEN j ELSE js[k]]
             p2 == [k \in 0 .. m |-> IF k = m THEN q ELSE p[k]]
  <2>7. /\ q \in Orders(n) /\ q[i] = o[j]
        /\ \A x \in 0 .. n - 1 : x # i /\ x # j => q[x] = o[x]
    <3> HIDE DEF o, i
    <3> QED BY <2>3, <2>4, SwapKeeps
  <2>8. js2 \in [1 .. m -> 0 .. n - 1] /\ js2[m] = j /\ \A k \in 1 .. m - 1 : js2[k] = js[k]
    <3>1. \A k \in 1 .. m - 1 : js[k] \in 0 .. n - 1
      BY <2>2
    <3>2. \A k \in 1 .. m : k # m => k \in 1 .. m - 1
      OBVIOUS
    <3>3. m \in 1 .. m /\ \A k \in 1 .. m - 1 : k \in 1 .. m /\ k # m
      OBVIOUS
    <3> QED BY <3>1, <3>2, <3>3
  <2>9. /\ p \in [0 .. m - 1 -> [0 .. n - 1 -> 0 .. n - 1]] /\ p[0] = [x \in 0 .. n - 1 |-> x]
        /\ \A k \in 1 .. m - 1 : /\ js[k] \in 0 .. n - k
                                 /\ p[k] = Swapped(p[k - 1], n - k, js[k])
    BY <2>2 DEF Shuffle
  <2>10. /\ p2 \in [0 .. m -> [0 .. n - 1 -> 0 .. n - 1]] /\ p2[m] = q
         /\ \A k \in 0 .. m - 1 : p2[k] = p[k]
    <3>1. q \in [0 .. n - 1 -> 0 .. n - 1]
      BY <2>7 DEF Orders
    <3>2. \A k \in 0 .. m : k # m => k \in 0 .. m - 1
      OBVIOUS
    <3>3. m \in 0 .. m /\ \A k \in 0 .. m - 1 : k \in 0 .. m /\ k # m
      OBVIOUS
    <3> HIDE DEF q
    <3> QED BY <2>9, <3>1, <3>2, <3>3
  <2> HIDE DEF q, js2, p2
  <2>11. Shuffle(p2, n, js2, m)
    <3>1. p2[0] = [x \in 0 .. n - 1 |-> x]
      <4>1. 0 \in 0 .. m - 1
        OBVIOUS
      <4> QED BY <2>9, <2>10, <4>1
    <3>2. ASSUME NEW k \in 1 .. m
          PROVE  js2[k] \in 0 .. n - k /\ p2[k] = Swapped(p2[k - 1], n - k, js2[k])
      <4>1. CASE k = m
        BY <2>3, <2>6, <2>8, <2>10, <4>1 DEF q
      <4>2. CASE k # m
        <5>1. k \in 1 .. m - 1 /\ k \in 0 .. m - 1 /\ k - 1 \in 0 .. m - 1
          BY <4>2
        <5> QED BY <2>8, <2>9, <2>10, <5>1
      <4> QED BY <4>1, <4>2
    <3> QED BY <2>10, <3>1, <3>2 DEF Shuffle
  <2>12. \A x \in n - m .. n - 1 : p2[m][x] = t[x]
    <3> TAKE x \in n - m .. n - 1
    <3>1. CASE x = i
      BY <2>5, <2>7, <2>10, <3>1
    <3>2. CASE x # i
      <4>1. x \in n - (m - 1) .. n - 1 /\ x \in 0 .. n - 1 /\ x # j
        BY <2>3, <2>6, <3>2
      <4> QED BY <2>2, <2>7, <2>10, <3>2, <4>1
    <3> QED BY <3>1, <3>2
  <2>13. Right(js2, p2, m)
    BY <2>8, <2>11, <2>12
  <2>14. m \in 0 .. n - 1
    OBVIOUS
  <2> HIDE DEF Right
  <2> QED BY <2>13, <2>14
<1>3. 0 .. n - 1 \subseteq S
  <2> DEFINE m == n - 1
  <2>1. m \in Nat
    OBVIOUS
  <2>2. \A k \in 1 .. m : k - 1 \in S => k \in S
    BY <1>2
  <2> HIDE DEF S, m
  <2>3. 0 .. m \subseteq S
    BY <1>1, <2>1, <2>2, CountedUpTo
  <2> QED BY <2>3 DEF m
<1>4. PICK js, p : Right(js, p, n - 1)
  <2>1. n - 1 \in S
    <3>1. n - 1 \in 0 .. n - 1
      OBVIOUS
    <3> HIDE DEF S
    <3> QED BY <1>3, <3>1
  <2> HIDE DEF Right
  <2> QED BY <2>1
<1> DEFINE o == p[n - 1]
<1>5. /\ js \in [1 .. n - 1 -> 0 .. n - 1] /\ Shuffle(p, n, js, n - 1)
      /\ \A x \in 1 .. n - 1 : o[x] = t[x]
  <2>1. n - (n - 1) = 1
    OBVIOUS
  <2> QED BY <1>4, <2>1
<1>6. o \in Orders(n) /\ Whole(o, n)
  <2>1. n - 1 \in 0 .. n - 1
    OBVIOUS
  <2> QED BY <1>5, <2>1, ShuffledOrder
<1>7. Perm(n, js) = o
  BY <1>5, PermIs
<1>8. js \in PermDraws(n)
  <2>1. \A k \in 1 .. n - 1 : js[k] \in 0 .. n - k
    BY <1>5 DEF Shuffle
  <2> QED BY <1>5, <2>1 DEF PermDraws
<1> HIDE DEF o
<1>9. o[0] = t[0]
  <2> HIDE DEF S, Right
  <2>1. 0 \in 0 .. n - 1
    OBVIOUS
  <2>2. t[0] \in 0 .. n - 1
    BY <1>0, <2>1
  <2>3. PICK j \in 0 .. n - 1 : o[j] = t[0]
    BY <1>6, <2>2 DEF Whole
  <2>4. j = 0
    <3>1. SUFFICES ASSUME j # 0 PROVE FALSE
      OBVIOUS
    <3>2. j \in 1 .. n - 1
      BY <3>1
    <3>3. o[j] = t[j]
      BY <1>5, <3>2 DEF o
    <3>4. t[j] = t[0]
      BY <2>3, <3>3
    <3> QED BY <1>0, <2>1, <3>1, <3>4
  <2> QED BY <2>3, <2>4
<1>10. o = t
  <2>1. o \in [0 .. n - 1 -> 0 .. n - 1]
    BY <1>6 DEF Orders
  <2>2. \A x \in 0 .. n - 1 : o[x] = t[x]
    BY <1>5, <1>9
  <2> QED BY <1>0, <2>1, <2>2
<1> QED BY <1>7, <1>8, <1>10

\* Every order comes of some draws, and nothing else does.
LEMMA PermsFair ==
  ASSUME NEW n \in Nat \ {0}
  PROVE  {Perm(n, js) : js \in PermDraws(n)} = Orders(n)
<1>1. ASSUME NEW js \in PermDraws(n) PROVE Perm(n, js) \in Orders(n)
  <2>1. PICK p : Shuffle(p, n, js, n - 1)
    BY ShuffleExists
  <2>2. n - 1 \in 0 .. n - 1
    OBVIOUS
  <2>3. p[n - 1] \in Orders(n)
    BY <2>1, <2>2, ShuffledOrder
  <2> QED BY <2>1, <2>3, PermIs
<1>2. \A t \in Orders(n) : \E js \in PermDraws(n) : Perm(n, js) = t
  BY OrderReached
<1> QED BY <1>1, <1>2

------------------------------------------------------------------------------
(* Draws: the stream *)

\* So many bytes of the stream, behind the first ones.
Run(from, len) == [j \in 1 .. len |-> from + j]

\* So many blocks hold so many bytes, and the generator that has given them.
Made(s) == (s + BlockLen - 1) \div BlockLen
At(s) == [made |-> Made(s), buf |-> Run(s, (Made(s) * BlockLen) - s)]

LEMMA RunIs ==
  ASSUME NEW a \in Nat, NEW n \in Nat
  PROVE  Run(a, n) \in Seq(Nat) /\ Len(Run(a, n)) = n /\ \A j \in 1 .. n : Run(a, n)[j] = a + j
BY DEF Run

LEMMA RunsJoin ==
  ASSUME NEW a \in Nat, NEW m \in Nat, NEW n \in Nat
  PROVE  Run(a, m) \o Run(a + m, n) = Run(a, m + n)
<1> DEFINE b == a + m
           c == m + n
           p == Run(a, m)
           q == Run(b, n)
           r == Run(a, c)
<1>1. b \in Nat /\ b = a + m /\ c \in Nat /\ c = m + n
  OBVIOUS
<1> HIDE DEF b, c
<1>2. p \in Seq(Nat) /\ Len(p) = m /\ \A j \in 1 .. m : p[j] = a + j
  BY RunIs
<1>3. q \in Seq(Nat) /\ Len(q) = n /\ \A j \in 1 .. n : q[j] = b + j
  BY <1>1, RunIs
<1>4. r \in Seq(Nat) /\ Len(r) = c /\ \A j \in 1 .. c : r[j] = a + j
  BY <1>1, RunIs
<1> HIDE DEF p, q, r
<1>5. /\ p \o q \in Seq(Nat) /\ Len(p \o q) = Len(p) + Len(q)
      /\ \A j \in 1 .. Len(p) + Len(q) :
           (p \o q)[j] = IF j <= Len(p) THEN p[j] ELSE q[j - Len(p)]
  BY <1>2, <1>3, ConcatProperties
<1>6. ASSUME NEW j \in 1 .. c PROVE (p \o q)[j] = r[j]
  <2>1. (p \o q)[j] = IF j <= m THEN p[j] ELSE q[j - m]
    BY <1>1, <1>2, <1>3, <1>5
  <2>2. CASE j <= m
    <3>1. j \in 1 .. m
      BY <2>2
    <3> QED BY <1>2, <1>4, <2>1, <2>2, <3>1
  <2>3. CASE ~ (j <= m)
    <3>1. j - m \in 1 .. n /\ b + (j - m) = a + j
      BY <1>1, <2>3
    <3> QED BY <1>3, <1>4, <2>1, <2>3, <3>1
  <2> QED BY <2>2, <2>3
<1> DEFINE t == p \o q
<1>7. t = r
  <2>1. t \in Seq(Nat) /\ Len(t) = c /\ \A j \in 1 .. c : t[j] = r[j]
    BY <1>1, <1>2, <1>3, <1>5, <1>6
  <2> HIDE DEF t
  <2>2. \A j \in 1 .. Len(t) : t[j] = r[j]
    BY <2>1
  <2> QED BY <1>4, <2>1, <2>2, SeqEqual
<1> QED BY <1>7 DEF p, q, r, b, c

LEMMA RunCut ==
  ASSUME NEW a \in Nat, NEW len \in Nat, NEW n \in 0 .. len
  PROVE  /\ SubSeq(Run(a, len), 1, n) = Run(a, n)
         /\ SubSeq(Run(a, len), n + 1, len) = Run(a + n, len - n)
<1> DEFINE r == Run(a, len)
<1>1. r \in Seq(Nat) /\ Len(r) = len /\ \A j \in 1 .. len : r[j] = a + j
  BY RunIs
<1> HIDE DEF r
<1>2. SubSeq(r, 1, n) = [j \in 1 .. n |-> r[j]]
  BY <1>1
<1>3. SubSeq(r, n + 1, len) = [j \in 1 .. len - n |-> r[n + j]]
  BY <1>1
<1>4. [j \in 1 .. n |-> r[j]] = [j \in 1 .. n |-> a + j]
  BY <1>1
<1>5. [j \in 1 .. len - n |-> r[n + j]] = [j \in 1 .. len - n |-> (a + n) + j]
  BY <1>1
<1> QED BY <1>2, <1>3, <1>4, <1>5 DEF r, Run

\* Blocks are made only as they are needed.
LEMMA MadeIs ==
  ASSUME NEW s \in Nat
  PROVE  /\ Made(s) \in Nat /\ Made(s) * BlockLen >= s /\ Made(s) * BlockLen < s + BlockLen
         /\ \A q \in Nat : q * BlockLen >= s /\ q * BlockLen < s + BlockLen => q = Made(s)
<1> DEFINE d == BlockLen
<1>1. d \in Nat /\ d >= 1
  BY DrawsAssumption
<1>2. Made(s) = (s + d - 1) \div d
  BY DEF Made
<1> HIDE DEF d
<1>3. s + d - 1 \in Nat
  BY <1>1
<1>4. /\ (s + d - 1) \div d \in Nat
      /\ ((s + d - 1) \div d) * d <= s + d - 1
      /\ s + d - 1 < (((s + d - 1) \div d) * d) + d
  BY <1>1, <1>3
<1>5. Made(s) \in Nat /\ Made(s) * d >= s /\ Made(s) * d < s + d
  <2> DEFINE m == (s + d - 1) \div d
             md == m * d
  <2>1. m \in Nat /\ md <= s + d - 1 /\ s + d - 1 < md + d /\ md \in Nat
    BY <1>1, <1>4
  <2> HIDE DEF m, md
  <2>2. md >= s /\ md < s + d
    BY <1>1, <2>1
  <2> QED BY <1>2, <2>1, <2>2 DEF m, md
<1>6. ASSUME NEW q \in Nat, q * d >= s, q * d < s + d PROVE q = Made(s)
  <2> DEFINE r == (s + d - 1) - (q * d)
             qd == q * d
  <2>1. r \in 0 .. d - 1 /\ s + d - 1 = qd + r /\ qd \in Nat
    BY <1>1, <1>6
  <2>2. (qd + r) \div d = q
    <3> HIDE DEF r
    <3> QED BY <1>1, <2>1
  <2> QED BY <1>2, <2>1, <2>2
<1> QED BY <1>5, <1>6 DEF d

\* A read goes on where the one before it ended.
LEMMA ReadGoesOn ==
  ASSUME NEW s \in Nat, NEW n \in Nat
  PROVE  Read(At(s), n) = [bytes |-> Run(s, n), r |-> At(s + n)]
<1> DEFINE m == Made(s)
           u == Made(s + n)
           buf == Run(s, (m * BlockLen) - s)
           short == n - Len(buf)
           more == IF short <= 0 THEN 0 ELSE (short + BlockLen - 1) \div BlockLen
           all == buf \o Blocks(m, more)
           len == (u * BlockLen) - s
<1>1. BlockLen \in Nat /\ BlockLen >= 1 /\ s + n \in Nat
  BY DrawsAssumption
<1>2. /\ m \in Nat /\ m * BlockLen \in Nat /\ m * BlockLen >= s /\ m * BlockLen < s + BlockLen
      /\ \A q \in Nat : q * BlockLen >= s + n /\ q * BlockLen < (s + n) + BlockLen => q = u
  BY <1>1, MadeIs
<1>3. u \in Nat /\ u * BlockLen \in Nat /\ u * BlockLen >= s + n
  BY <1>1, MadeIs
<1> HIDE DEF m, u
<1>4. (m * BlockLen) - s \in Nat /\ Len(buf) = (m * BlockLen) - s
  <2> DEFINE b == (m * BlockLen) - s
  <2>1. b \in Nat /\ buf = Run(s, b)
    BY <1>2
  <2> HIDE DEF b, buf
  <2>2. Len(buf) = b
    BY <2>1, RunIs
  <2> QED BY <2>1, <2>2 DEF b
<1>5. more \in Nat /\ m + more = u
  <2> DEFINE md == m * BlockLen
  <2>1. short = (s + n) - md /\ short \in Int /\ md \in Nat /\ md >= s /\ md < s + BlockLen
    BY <1>2, <1>4
  <2> HIDE DEF short
  <2>2. CASE short <= 0
    <3>1. more = 0
      BY <2>2
    <3>2. md >= s + n /\ md < (s + n) + BlockLen
      BY <1>1, <2>1, <2>2
    <3>3. m = u
      BY <1>2, <3>2
    <3> HIDE DEF more
    <3> QED BY <1>2, <3>1, <3>3
  <2>3. CASE ~ (short <= 0)
    <3>1. short \in Nat
      BY <2>1, <2>3
    <3>2. more = Made(short)
      BY <2>3 DEF Made
    <3> HIDE DEF more
    <3>3. /\ more \in Nat /\ more * BlockLen \in Nat
          /\ more * BlockLen >= short /\ more * BlockLen < short + BlockLen
      <4>1. /\ Made(short) \in Nat
            /\ Made(short) * BlockLen >= short /\ Made(short) * BlockLen < short + BlockLen
        BY <3>1, MadeIs, Zenon
      <4> QED BY <1>1, <3>2, <4>1
    <3>4. (m + more) * BlockLen = md + (more * BlockLen) /\ m + more \in Nat
      BY <1>1, <1>2, <3>3
    <3>5. (m + more) * BlockLen >= s + n /\ (m + more) * BlockLen < (s + n) + BlockLen
      <4> DEFINE x == more * BlockLen
      <4>1. x \in Nat /\ x >= short /\ x < short + BlockLen
        BY <3>3
      <4> HIDE DEF x, md
      <4>2. md + x >= s + n /\ md + x < (s + n) + BlockLen
        BY <1>1, <2>1, <4>1
      <4> QED BY <3>4, <4>2 DEF x
    <3> QED BY <1>2, <3>3, <3>4, <3>5
  <2> QED BY <2>2, <2>3
<1>6. Blocks(m, more) = Run(m * BlockLen, more * BlockLen)
  BY DEF Blocks, Run
<1> HIDE DEF short, more
<1>7. all = Run(s, len) /\ len \in Nat /\ n \in 0 .. len /\ len - n = (u * BlockLen) - (s + n)
  <2> DEFINE a == (m * BlockLen) - s
             b == more * BlockLen
             ud == u * BlockLen
  <2>1. a \in Nat /\ b \in Nat /\ s + a = m * BlockLen
    BY <1>1, <1>2, <1>5
  <2>2. s + (a + b) = ud
    BY <1>1, <1>2, <1>5, <2>1
  <2>3. all = Run(s, a) \o Run(s + a, b)
    BY <1>6, <2>1
  <2> HIDE DEF a, b, all
  <2>4. all = Run(s, a + b)
    BY <2>1, <2>3, RunsJoin
  <2>5. ud \in Nat /\ ud >= s + n
    BY <1>3
  <2> HIDE DEF ud
  <2>6. a + b = ud - s /\ ud - s \in Nat /\ n \in 0 .. ud - s /\ (ud - s) - n = ud - (s + n)
    BY <2>1, <2>2, <2>5
  <2> QED BY <2>4, <2>6 DEF ud
<1> HIDE DEF all, len
<1>8. /\ Len(all) = len /\ SubSeq(all, 1, n) = Run(s, n)
      /\ SubSeq(all, n + 1, Len(all)) = Run(s + n, (u * BlockLen) - (s + n))
  <2>1. Len(all) = len
    BY <1>7, RunIs
  <2>2. /\ SubSeq(Run(s, len), 1, n) = Run(s, n)
        /\ SubSeq(Run(s, len), n + 1, len) = Run(s + n, len - n)
    BY <1>7, RunCut
  <2> QED BY <1>7, <2>1, <2>2
<1>9. Read(At(s), n) = [bytes |-> SubSeq(all, 1, n),
                        r |-> [made |-> m + more, buf |-> SubSeq(all, n + 1, Len(all))]]
  <2>1. At(s).made = m /\ At(s).buf = buf
    BY DEF At, m
  <2> QED BY <2>1 DEF Read, all, more, short
<1> QED BY <1>5, <1>8, <1>9 DEF At, u

\* Whatever the reads, they give the stream.
LEMMA ReadsAre ==
  ASSUME NEW sizes \in Seq(Nat)
  PROVE  Reads(sizes)[Len(sizes)].bytes = Run(0, Total(sizes))
<1> DEFINE n == Len(sizes)
           s == Sums(sizes)
           h == [k \in 0 .. n |-> [bytes |-> Run(0, s[k]), r |-> At(s[k])]]
           a == [bytes |-> <<>>, r |-> New]
           F(f) == f = [k \in 0 .. n |->
                     IF k = 0 THEN a ELSE Joined(f[k - 1], Read(f[k - 1].r, sizes[k]))]
           g == CHOOSE f : F(f)
           S == {k \in 0 .. n : g[k] = h[k]}
<1>1. Reads(sizes) = g
  BY DEF Reads
<1>2. /\ n \in Nat /\ s[0] = 0 /\ \A k \in 0 .. n : s[k] \in Nat
      /\ \A k \in 1 .. n : s[k] = s[k - 1] + sizes[k] /\ sizes[k] \in Nat
  <2>1. s \in [0 .. n -> Nat] /\ s[0] = 0 /\ \A k \in 1 .. n : s[k] = s[k - 1] + sizes[k]
    BY SumsAre, Zenon
  <2>2. n \in Nat /\ \A k \in 1 .. n : sizes[k] \in Nat
    OBVIOUS
  <2> HIDE DEF n, s
  <2> QED BY <2>1, <2>2
<1>3. Total(sizes) = s[n]
  BY DEF Total
<1> HIDE DEF n, s
<1>4. h[0] = a
  <2>1. 0 \in 0 .. n
    BY <1>2
  <2>2. h[0] = [bytes |-> Run(0, 0), r |-> At(0)]
    BY <1>2, <2>1
  <2>3. Run(0, 0) = <<>>
    <3>1. Run(0, 0) \in Seq(Nat) /\ Len(Run(0, 0)) = 0
      BY RunIs
    <3> QED BY <3>1
  <2>4. Made(0) = 0
    <3>1. BlockLen \in Nat /\ BlockLen >= 1
      BY DrawsAssumption
    <3>2. 0 * BlockLen = 0 /\ 0 >= 0 /\ 0 < 0 + BlockLen
      BY <3>1
    <3>3. \A q \in Nat : q * BlockLen >= 0 /\ q * BlockLen < 0 + BlockLen => q = Made(0)
      BY MadeIs
    <3> QED BY <3>2, <3>3
  <2>5. At(0) = New
    <3>1. (Made(0) * BlockLen) - 0 = 0
      BY <2>4, DrawsAssumption
    <3> QED BY <2>3, <2>4, <3>1 DEF At, New
  <2> HIDE DEF h
  <2> QED BY <2>2, <2>3, <2>5
<1>5. \A k \in 1 .. n : h[k] = Joined(h[k - 1], Read(h[k - 1].r, sizes[k]))
  <2> TAKE k \in 1 .. n
  <2> DEFINE x == s[k - 1]
             y == sizes[k]
  <2>1. k \in 0 .. n /\ k - 1 \in 0 .. n
    BY <1>2
  <2>2. x \in Nat /\ y \in Nat /\ s[k] = x + y
    BY <1>2, <2>1
  <2>3. h[k - 1].bytes = Run(0, x) /\ h[k - 1].r = At(x)
    BY <2>1
  <2>4. h[k] = [bytes |-> Run(0, x + y), r |-> At(x + y)]
    BY <2>1, <2>2
  <2> HIDE DEF h, x, y
  <2>5. Read(At(x), y) = [bytes |-> Run(x, y), r |-> At(x + y)]
    BY <2>2, ReadGoesOn
  <2>6. Run(0, x) \o Run(x, y) = Run(0, x + y)
    <3>1. Run(0, x) \o Run(0 + x, y) = Run(0, x + y)
      BY <2>2, RunsJoin
    <3>2. 0 + x = x
      BY <2>2
    <3> QED BY <3>1, <3>2
  <2>7. Joined(h[k - 1], Read(At(x), y)) = [bytes |-> Run(0, x + y), r |-> At(x + y)]
    <3> DEFINE w == Read(At(x), y)
    <3>1. w.bytes = Run(x, y) /\ w.r = At(x + y)
      BY <2>5
    <3> HIDE DEF w
    <3>2. Joined(h[k - 1], w) = [bytes |-> Run(0, x) \o Run(x, y), r |-> At(x + y)]
      BY <2>3, <3>1 DEF Joined
    <3> QED BY <2>6, <3>2 DEF w
  <2> QED BY <2>3, <2>4, <2>7 DEF y
<1>6. F(h)
  <2>1. ASSUME NEW k \in 0 .. n
        PROVE  h[k] = IF k = 0 THEN a ELSE Joined(h[k - 1], Read(h[k - 1].r, sizes[k]))
    <3>1. CASE k = 0
      <4> HIDE DEF h, a
      <4> QED BY <1>4, <3>1
    <3>2. CASE k # 0
      <4>1. k \in 1 .. n
        BY <1>2, <3>2
      <4> HIDE DEF h, a
      <4> QED BY <1>5, <3>2, <4>1
    <3> QED BY <3>1, <3>2
  <2>2. h = [k \in 0 .. n |-> h[k]]
    OBVIOUS
  <2> HIDE DEF h, a
  <2> QED BY <2>1, <2>2
<1> HIDE DEF h, a
<1>7. F(g)
  <2> HIDE DEF F
  <2> QED BY <1>6
<1> HIDE DEF g
<1>8. g[0] = a /\ \A k \in 1 .. n : g[k] = Joined(g[k - 1], Read(g[k - 1].r, sizes[k]))
  <2>1. \A k \in 0 .. n : g[k] = IF k = 0 THEN a ELSE Joined(g[k - 1], Read(g[k - 1].r, sizes[k]))
    BY <1>7
  <2>2. 0 \in 0 .. n /\ \A k \in 1 .. n : k \in 0 .. n /\ k # 0
    BY <1>2
  <2> QED BY <2>1, <2>2
<1>9. 0 \in S
  BY <1>2, <1>4, <1>8
<1>10. ASSUME NEW k \in 1 .. n, k - 1 \in S PROVE k \in S
  <2>1. k \in 0 .. n /\ g[k - 1] = h[k - 1]
    BY <1>2, <1>10
  <2>2. g[k] = h[k]
    BY <1>5, <1>8, <2>1
  <2> QED BY <2>1, <2>2
<1>11. n \in S
  <2> HIDE DEF S
  <2>1. 0 .. n \subseteq S
    BY <1>2, <1>9, <1>10, CountedUpTo
  <2> QED BY <1>2, <2>1
<1>12. g[n] = [bytes |-> Run(0, s[n]), r |-> At(s[n])]
  <2>1. h[n] = [bytes |-> Run(0, s[n]), r |-> At(s[n])]
    BY <1>2 DEF h
  <2> QED BY <1>11, <2>1
<1>13. Reads(sizes)[n].bytes = Run(0, Total(sizes))
  BY <1>1, <1>3, <1>12
<1> QED BY <1>13 DEF n

------------------------------------------------------------------------------
(* Draws: what is said of them *)

\* Forcing a cipher draws as much as drawing one.
LEMMA ForcedDesign ==
  ASSUME NEW words, NEW forced \in KnownCiphers
  PROVE  Design(forced, words) = [Design("", words) EXCEPT !.cipher = forced]
<1> DEFINE w == PickWeighted(CipherWeights, words)
           p == PickWeighted(PatternWeights, w.rest)
           drawn == DrawnCiphers[w.value]
<1>1. forced # ""
  <2>1. KnownCiphers = {"aes-128-gcm", "aes-192-gcm", "aes-256-gcm", "chacha20-poly1305"}
    BY DEF KnownCiphers, DrawnCiphers, Range
  <2>2. \/ forced = "aes-128-gcm" \/ forced = "aes-192-gcm"
        \/ forced = "aes-256-gcm" \/ forced = "chacha20-poly1305"
    BY <2>1
  <2> QED BY <2>2, Zenon
<1> DEFINE c(f) == AfterCipher(f, words)
           q(f) == PickWeighted(PatternWeights, c(f).rest)
<1>2. ASSUME NEW f
      PROVE  Design(f, words) = [cipher |-> c(f).cipher, pattern |-> q(f).value,
                                 messages |-> q(f).rest]
  BY DEF Design
<1>3. ASSUME NEW f
      PROVE  /\ c(f) = [cipher |-> IF f # "" THEN f ELSE drawn, rest |-> w.rest]
             /\ c(f).rest = w.rest
  <2>1. c(f) = [cipher |-> IF f # "" THEN f ELSE drawn, rest |-> w.rest]
    BY DEF AfterCipher
  <2> DEFINE e == IF f # "" THEN f ELSE drawn
  <2>2. c(f) = [cipher |-> e, rest |-> w.rest]
    BY <2>1
  <2> HIDE DEF c, e, w
  <2>3. c(f).rest = w.rest
    BY <2>2
  <2> QED BY <2>1, <2>3
<1>4. c(forced).cipher = forced
  <2> DEFINE e == IF forced # "" THEN forced ELSE drawn
  <2>1. e = forced
    BY <1>1
  <2> HIDE DEF e
  <2>2. c(forced) = [cipher |-> e, rest |-> w.rest]
    BY <1>3 DEF e
  <2> HIDE DEF c, w
  <2>3. c(forced).cipher = e
    BY <2>2
  <2> QED BY <2>1, <2>3
<1>5. ASSUME NEW f PROVE q(f) = p
  BY <1>3
<1> DEFINE a == Design("", words)
           b == c("").cipher
           n == p.value
           m == p.rest
<1>6. ASSUME NEW f
      PROVE  Design(f, words) = [cipher |-> c(f).cipher, pattern |-> n, messages |-> m]
  <2> HIDE DEF c
  <2>1. q(f).value = n /\ q(f).rest = m
    BY <1>5
  <2> HIDE DEF n, m, q, p
  <2> QED BY <1>2, <2>1
<1>7. a = [cipher |-> b, pattern |-> n, messages |-> m]
  BY <1>6
<1>8. Design(forced, words) = [cipher |-> forced, pattern |-> n, messages |-> m]
  <2> HIDE DEF c, n, m
  <2> QED BY <1>4, <1>6
<1> HIDE DEF a, b, n, m
<1>9. [a EXCEPT !.cipher = forced] = [cipher |-> forced, pattern |-> n, messages |-> m]
  BY <1>7
<1> QED BY <1>8, <1>9 DEF a

LEMMA DrawsAlike == DrawnAlike
<1>1. ASSUME NEW n \in 1 .. 4, NEW sizes \in [1 .. n -> ReadSizes]
      PROVE  Reads(sizes)[n].bytes = [i \in 1 .. Total(sizes) |-> i]
  <2>1. sizes \in Seq(Nat) /\ Len(sizes) = n
    <3>1. n \in Nat /\ ReadSizes \subseteq Nat
      BY DrawsAssumption
    <3>2. sizes \in [1 .. n -> Nat]
      BY <3>1
    <3> HIDE DEF Reads
    <3> QED BY <3>1, <3>2
  <2>2. Reads(sizes)[Len(sizes)].bytes = Run(0, Total(sizes))
    BY <2>1, ReadsAre
  <2>3. Reads(sizes)[n].bytes = Run(0, Total(sizes))
    BY <2>1, <2>2
  <2>4. Run(0, Total(sizes)) = [i \in 1 .. Total(sizes) |-> i]
    BY DEF Run
  <2> QED BY <2>3, <2>4
<1> QED BY <1>1, ForcedDesign DEF DrawnAlike

LEMMA DrawsFair == DrawnFairly
<1>1. ASSUME NEW n \in 1 .. 36
      PROVE  LET ways(v) == Cardinality({w \in Words : Masked(w, n) = v})
             IN /\ \A v \in 0 .. n - 1 : ways(v) = ways(0)
                /\ (2 * n) * ways(0) >= Powers[WordBits]
  <2> DEFINE ways(v) == Cardinality({w \in Words : Masked(w, n) = v})
  <2>1. n \in 1 .. 512 /\ 0 \in 0 .. n - 1
    OBVIOUS
  <2>2. PICK m \in Nat : /\ \A v \in 0 .. n - 1 : ways(v) = m
                         /\ (2 * n) * m >= Powers[WordBits]
    BY <2>1, ValuesFair
  <2> HIDE DEF ways
  <2>3. ways(0) = m
    BY <2>1, <2>2
  <2>4. /\ \A v \in 0 .. n - 1 : ways(v) = ways(0)
        /\ (2 * n) * ways(0) >= Powers[WordBits]
    BY <2>2, <2>3
  <2> QED BY <2>4 DEF ways
<1>2. ASSUME NEW r \in Ranges
      PROVE  {RangeChoice(r[1], r[2], <<w>>).value :
                w \in {v \in Words : Kept(r[2] - r[1], <<v>>) # {}}}
               = r[1] .. r[2] - 1
  <2> DEFINE lo == r[1]
             hi == r[2]
  <2>1. lo \in Nat /\ hi \in Nat /\ lo < hi /\ hi - lo \in 1 .. 512
    BY DEF Ranges
  <2> HIDE DEF lo, hi
  <2>2. {RangeChoice(lo, hi, <<w>>).value : w \in {v \in Words : Kept(hi - lo, <<v>>) # {}}}
          = lo .. hi - 1
    BY <2>1, RangeDrawn
  <2> QED BY <2>2 DEF lo, hi
<1>3. ASSUME NEW weights \in Weights, NEW i \in DOMAIN weights
      PROVE  Cardinality({x \in 0 .. Total(weights) - 1 : Index(weights, x) = i}) = weights[i]
  <2>1. weights \in Seq(Nat)
    <3>1. /\ <<2, 1, 5>> \in Seq(Nat) /\ <<3, 3, 3, 1, 1, 1>> \in Seq(Nat)
          /\ <<9, 1>> \in Seq(Nat) /\ <<3, 1>> \in Seq(Nat) /\ <<3, 7>> \in Seq(Nat)
          /\ <<10, 90>> \in Seq(Nat) /\ <<35, 65>> \in Seq(Nat)
          /\ <<2, 3, 4, 3, 1>> \in Seq(Nat) /\ <<3, 2, 2, 1, 1>> \in Seq(Nat)
          /\ <<1, 3, 2, 2>> \in Seq(Nat) /\ <<4, 3, 1>> \in Seq(Nat)
          /\ <<1, 5, 2>> \in Seq(Nat)
      OBVIOUS
    <3> QED BY <3>1, Zenon DEF Weights, CipherWeights, PatternWeights
  <2> QED BY <2>1, IndexFair
<1>4. ASSUME NEW n \in 1 .. 5
      PROVE  {Perm(n, js) : js \in PermDraws(n)} =
               {p \in [0 .. n - 1 -> 0 .. n - 1] :
                  \A i, j \in 0 .. n - 1 : p[i] = p[j] => i = j}
  <2>1. n \in Nat \ {0}
    OBVIOUS
  <2> QED BY <2>1, PermsFair DEF Orders
<1> QED BY <1>1, <1>2, <1>3, <1>4 DEF DrawnFairly

\* Every message read back: what either end encodes the other decodes, and both
\* draw the same layouts, none more likely than another.
THEOREM MessagesAlwaysReadBack == Spec => []MessagesReadBack
<1>1. MessagesReadBack
  BY FramesReadBack, DrawsAlike, DrawsFair DEF MessagesReadBack
<1> QED BY <1>1, PTL
=================================================================================
