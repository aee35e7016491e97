------------------------- MODULE PacketChannelProofs -------------------------
(***************************************************************************)
(* Proofs about PacketChannel, for every window, SKIP span, ACK period,    *)
(* number of sending goroutines and pattern of loss and duplication.       *)
(*                                                                         *)
(* The inductive invariant IInv adds to the checked invariants what they   *)
(* need about the frames in flight: their numbers have been used, a SKIP   *)
(* names its own number, and an ACK never overstates its sender's base.    *)
(***************************************************************************)
EXTENDS PacketChannel, WellFoundedInduction, TLAPS

\* Every frame in flight, or encoded and not yet written, carries a number
\* its sender has used; a SKIP names its own number and an ACK a position its
\* sender's window has reached.
FramesSound ==
  \A p \in Peers : \A f \in net[p] \cup skips[p] :
    /\ f.seq < sent[p]
    /\ f.kind = "skip" => f.val = f.seq
    /\ f.kind = "ack" => f.val <= base[p]
    /\ f \in skips[p] => f.kind = "skip"

\* got records exactly the frames that DecodePacket can no longer accept
\* until the next SKIP: they are below the base or marked.
GotSound ==
  \A q \in Peers :
    /\ seen[q] \subseteq got[q]
    /\ \A n \in got[q] : n < base[q] \/ n \in seen[q]

IInv ==
  /\ TypeOK
  /\ WindowBehindSender
  /\ BeliefOnlyAheadBySkip
  /\ FramesSound
  /\ GotSound
  /\ \A p \in Peers : asked[p] <= sent[p]

------------------------------------------------------------------------------
(* The receive window *)

\* A nonempty set of naturals has a least element.
LEMMA LeastOfSet ==
  ASSUME NEW T, T \subseteq Nat, T # {}
  PROVE  \E n \in T : \A m \in T : n <= m
<1>1. PICK n \in T : \A m \in T : <<m, n>> \notin OpToRel(<, Nat)
  <2> HIDE DEF OpToRel
  <2> QED BY NatLessThanWellFounded, WFMin
<1>2. \A m \in T : ~ (m < n)
  BY <1>1 DEF OpToRel
<1> QED BY <1>2

\* DecodePacket's sliding loop stops: over any bitmap it stops at the first
\* number not seen, which is at most Window past the base.
LEMMA SlideSpec ==
  ASSUME NEW b \in Nat, NEW S \in SUBSET (b..(b + Window - 1))
  PROVE  /\ Slide(b, S) \in b..(b + Window)
         /\ Slide(b, S) \notin S
         /\ \A m \in b..(Slide(b, S) - 1) : m \in S
<1> DEFINE T == {n \in b..(b + Window) : n \notin S}
<1>1. T \subseteq Nat /\ b + Window \in T
  BY ChannelAssumption
<1>2. PICK n \in T : \A m \in T : n <= m
  BY <1>1, LeastOfSet
<1>3. n \in b..(b + Window) /\ n \notin S /\ \A m \in b..(n - 1) : m \in S
  <2>1. ASSUME NEW m \in b..(n - 1), m \notin S
        PROVE  FALSE
    <3>1. m \in T
      BY <2>1, ChannelAssumption
    <3> QED BY <3>1, <1>2, <2>1
  <2> QED BY <2>1
<1> QED BY <1>3 DEF Slide

\* Marking an acceptable number: the base rises over taken numbers only, and
\* stays behind the sender; what is left in the bitmap is above the new base.
LEMMA MarkSpec ==
  ASSUME TypeOK, WindowBehindSender,
         NEW p \in Peers, NEW q \in Peers, p = Other(q),
         NEW n \in Nat, Acceptable(q, n), n < sent[p]
  PROVE  /\ BaseAfter(q, n) \in Nat
         /\ base[q] <= BaseAfter(q, n)
         /\ BaseAfter(q, n) <= sent[p]
         /\ \A m \in base[q]..(BaseAfter(q, n) - 1) : m \in seen[q] \cup {n}
         /\ SeenAfter(q, n) \subseteq seen[q] \cup {n}
         /\ \A m \in SeenAfter(q, n) :
              /\ m \in Nat
              /\ BaseAfter(q, n) < m
              /\ m < BaseAfter(q, n) + Window
              /\ m < sent[p]
         /\ \A m \in seen[q] \cup {n} : m < BaseAfter(q, n) \/ m \in SeenAfter(q, n)
<1> DEFINE S == seen[q] \cup {n}
<1> DEFINE b == BaseAfter(q, n)
<1>1. base[q] \in Nat /\ sent[p] \in Nat /\ Window \in Nat \ {0}
  BY ChannelAssumption DEF TypeOK
<1>2. /\ base[q] <= sent[p]
      /\ \A m \in seen[q] : base[q] < m /\ m < base[q] + Window /\ m < sent[p]
  BY DEF WindowBehindSender, Other, Peers
<1>3. seen[q] \subseteq Nat
  BY DEF TypeOK
<1>4. S \subseteq base[q]..(base[q] + Window - 1)
  BY <1>1, <1>2, <1>3 DEF Acceptable
<1>5. /\ b \in base[q]..(base[q] + Window)
      /\ b \notin S
      /\ \A m \in base[q]..(b - 1) : m \in S
  BY <1>1, <1>4, SlideSpec DEF BaseAfter
<1> HIDE DEF b
<1>6. b <= sent[p]
  <2>1. CASE b = base[q]
    BY <2>1, <1>2
  <2>2. CASE b # base[q]
    <3>1. b - 1 \in S
      BY <2>2, <1>5, <1>1
    <3> QED BY <3>1, <1>1, <1>2, <1>3, <1>5
  <2> QED BY <2>1, <2>2
<1>7. SeenAfter(q, n) = {m \in S : m > b}
  BY DEF SeenAfter, b
<1> HIDE DEF S
<1>8. \A m \in S : m \in Nat /\ m < base[q] + Window /\ m < sent[p]
  BY <1>1, <1>2, <1>3, <1>4 DEF S
<1>9. \A m \in S : m < b \/ m > b
  BY <1>5, <1>8, <1>1
<1> QED BY <1>1, <1>5, <1>6, <1>7, <1>8, <1>9 DEF b, S

\* A frame that decodes at q was sent by the other peer and carries a number
\* that peer has used.
LEMMA DecodedFrame ==
  ASSUME IInv, NEW q \in Peers, NEW f, Decode(q, f)
  PROVE  /\ f \in Frame
         /\ f \in net[Other(q)]
         /\ f.seq < sent[Other(q)]
         /\ f.kind = "skip" => f.val = f.seq
         /\ f.kind = "ack" => f.val <= base[Other(q)]
BY DEF IInv, TypeOK, FramesSound, Decode, Peers, Other

\* Marking a decoded frame keeps the window facts of both directions.
LEMMA MarkKeepsWindow ==
  ASSUME IInv, NEW q \in Peers, NEW f, Decode(q, f)
  PROVE  LET b == BaseAfter(q, f.seq)
             s == SeenAfter(q, f.seq)
             g == got[q] \cup {f.seq}
         IN  /\ b \in Nat
             /\ s \in SUBSET Nat
             /\ g \in SUBSET Nat
             /\ base[q] <= b
             /\ b <= sent[Other(q)]
             /\ \A m \in s : b < m /\ m < b + Window /\ m < sent[Other(q)]
             /\ \A m \in base[q]..(b - 1) : m \in g
             /\ s \subseteq g
             /\ \A m \in g : m < b \/ m \in s
<1>1. f.seq \in Nat /\ f.seq < sent[Other(q)] /\ Acceptable(q, f.seq)
  BY DecodedFrame DEF Frame, Decode
<1>2. Other(q) \in Peers
  BY DEF Other, Peers
<1>3. TypeOK /\ WindowBehindSender
  BY DEF IInv
<1>4. /\ seen[q] \subseteq got[q]
      /\ got[q] \subseteq Nat
      /\ base[q] \in Nat
      /\ \A m \in got[q] : m < base[q] \/ m \in seen[q]
  BY DEF IInv, GotSound, TypeOK
<1> DEFINE b == BaseAfter(q, f.seq)
<1> DEFINE s == SeenAfter(q, f.seq)
<1>5. /\ b \in Nat
      /\ base[q] <= b
      /\ b <= sent[Other(q)]
      /\ \A m \in base[q]..(b - 1) : m \in seen[q] \cup {f.seq}
      /\ s \subseteq seen[q] \cup {f.seq}
      /\ \A m \in s : m \in Nat /\ b < m /\ m < b + Window /\ m < sent[Other(q)]
      /\ \A m \in seen[q] \cup {f.seq} : m < b \/ m \in s
  BY <1>1, <1>2, <1>3, MarkSpec
<1> HIDE DEF b, s
<1>6. \A m \in got[q] \cup {f.seq} : m < b \/ m \in s
  BY <1>4, <1>5
<1> QED BY <1>1, <1>4, <1>5, <1>6 DEF b, s

LEMMA InitIInv == Init => IInv
BY ChannelAssumption
   DEF Init, IInv, TypeOK, WindowBehindSender, BeliefOnlyAheadBySkip,
       FramesSound, GotSound, Peers, Other, Frame

\* The sending actions only add numbers, frames under those numbers, and an
\* optimistic advance that a written SKIP accounts for.
LEMMA SendPacketIInv ==
  ASSUME IInv, NEW p \in Peers, NEW k \in {"data", "quiet"}, SendPacket(p, k)
  PROVE  IInv'
BY DEF SendPacket, recvVars, MakeFrame, Kinds, IInv, TypeOK, WindowBehindSender,
       BeliefOnlyAheadBySkip, FramesSound, GotSound, Peers, Other, Frame

LEMMA SendRawIInv ==
  ASSUME IInv, NEW p \in Peers, SendRaw(p)
  PROVE  IInv'
BY DEF SendRaw, recvVars, MakeFrame, Kinds, IInv, TypeOK, WindowBehindSender,
       BeliefOnlyAheadBySkip, FramesSound, GotSound, Peers, Other, Frame

LEMMA CheckGapSmallIInv ==
  ASSUME IInv, NEW p \in Peers, CheckGapSmall(p)
  PROVE  IInv'
BY DEF CheckGapSmall, recvVars, IInv, TypeOK, WindowBehindSender,
       BeliefOnlyAheadBySkip, FramesSound, GotSound, Peers, Other, Frame

LEMMA CheckGapLargeIInv ==
  ASSUME IInv, NEW p \in Peers, CheckGapLarge(p)
  PROVE  IInv'
BY DEF CheckGapLarge, SkipFrame, MakeFrame, Kinds, recvVars, IInv, TypeOK,
       WindowBehindSender, BeliefOnlyAheadBySkip, FramesSound, GotSound,
       Peers, Other, Frame

LEMMA WriteSkipIInv ==
  ASSUME IInv, NEW p \in Peers, WriteSkip(p)
  PROVE  IInv'
BY DEF WriteSkip, Later, recvVars, IInv, TypeOK, WindowBehindSender,
       BeliefOnlyAheadBySkip, FramesSound, GotSound, Peers, Other, Frame
\* The receiving actions, one lemma each: marking keeps the window, and the
\* answer or the belief that follows is the sound one.
LEMMA ReceiveDataIInv ==
  ASSUME IInv, NEW q \in Peers, NEW f, NEW left, ReceiveData(q, f, left)
  PROVE  IInv'
<1> DEFINE o == Other(q)
<1> DEFINE b == BaseAfter(q, f.seq)
<1> DEFINE s == SeenAfter(q, f.seq)
<1>1. Decode(q, f)
  BY DEF ReceiveData
<1>2. /\ f \in net[o]
      /\ f.seq \in Nat /\ f.val \in Nat
      /\ f.seq < sent[o]
      /\ f.kind = "ack" => f.val <= base[o]
  BY <1>1, DecodedFrame DEF Frame
<1>3. /\ b \in Nat
      /\ s \in SUBSET Nat
      /\ base[q] <= b
      /\ b <= sent[o]
      /\ \A m \in s : b < m /\ m < b + Window /\ m < sent[o]
      /\ s \subseteq got[q] \cup {f.seq}
      /\ \A m \in got[q] \cup {f.seq} : m < b \/ m \in s
  BY <1>1, MarkKeepsWindow
<1>4. /\ o \in Peers /\ o # q /\ Other(o) = q /\ Other(q) = o
      /\ \A p \in Peers : p = q \/ p = o
  BY DEF Other, Peers
<1>6. /\ base' = [base EXCEPT ![q] = b]
      /\ seen' = [seen EXCEPT ![q] = s]
      /\ got' = [got EXCEPT ![q] = @ \cup {f.seq}]
      /\ UNCHANGED <<checks, skips, asked>>
  BY DEF ReceiveData, MarkSeen, sendVars, b, s
<1>7. /\ sent' = sent
      /\ peerBase' = peerBase
      /\ net' = [net EXCEPT ![o] = @ \ left]
  BY <1>4 DEF ReceiveData, sendVars, Arrive
<1>8. TypeOK
  BY DEF IInv
<1>9. TypeOK'
  <2>1. /\ ackDue' \in [Peers -> 0..(AckEvery - 1)]
        /\ delivered' \in [Peers -> SUBSET Nat]
        /\ twice' \in [Peers -> SUBSET Nat]
    BY <1>2, <1>8, ChannelAssumption
       DEF ReceiveData, Deliver, AckDue, TypeOK
  <2>2. net' \in [Peers -> SUBSET Frame]
    BY <1>4, <1>7, <1>8 DEF TypeOK
  <2>3. sent' \in [Peers -> Nat] /\ peerBase' \in [Peers -> Nat]
    BY <1>2, <1>4, <1>7, <1>8 DEF TypeOK, Later
  <2> HIDE DEF b, s, o
  <2> QED BY <1>2, <1>3, <1>6, <1>8, <2>1, <2>2, <2>3 DEF TypeOK
<1> HIDE DEF b, s, o
<1>10. WindowBehindSender'
  BY <1>2, <1>3, <1>4, <1>6, <1>7, <1>8
     DEF IInv, TypeOK, WindowBehindSender, Later
<1>11. BeliefOnlyAheadBySkip'
  BY <1>2, <1>3, <1>4, <1>6, <1>7, <1>8
     DEF IInv, TypeOK, BeliefOnlyAheadBySkip, Later
<1>12. FramesSound'
  BY <1>3, <1>4, <1>6, <1>7, <1>8 DEF IInv, TypeOK, FramesSound, Frame
<1>13. GotSound'
  BY <1>3, <1>4, <1>6, <1>8 DEF IInv, TypeOK, GotSound
<1>14. (\A p \in Peers : asked[p] <= sent[p])'
  BY <1>4, <1>6, <1>7, <1>8 DEF IInv, TypeOK
<1> QED BY <1>9, <1>10, <1>11, <1>12, <1>13, <1>14 DEF IInv

LEMMA ReceiveDataAckIInv ==
  ASSUME IInv, NEW q \in Peers, NEW f, NEW left, ReceiveDataAck(q, f, left)
  PROVE  IInv'
<1> DEFINE o == Other(q)
<1> DEFINE b == BaseAfter(q, f.seq)
<1> DEFINE s == SeenAfter(q, f.seq)
<1>1. Decode(q, f)
  BY DEF ReceiveDataAck
<1>2. /\ f \in net[o]
      /\ f.seq \in Nat /\ f.val \in Nat
      /\ f.seq < sent[o]
      /\ f.kind = "ack" => f.val <= base[o]
  BY <1>1, DecodedFrame DEF Frame
<1>3. /\ b \in Nat
      /\ s \in SUBSET Nat
      /\ base[q] <= b
      /\ b <= sent[o]
      /\ \A m \in s : b < m /\ m < b + Window /\ m < sent[o]
      /\ s \subseteq got[q] \cup {f.seq}
      /\ \A m \in got[q] \cup {f.seq} : m < b \/ m \in s
  BY <1>1, MarkKeepsWindow
<1>4. /\ o \in Peers /\ o # q /\ Other(o) = q /\ Other(q) = o
      /\ \A p \in Peers : p = q \/ p = o
  BY DEF Other, Peers
<1>5. /\ AckFrame(q, f) = [seq |-> sent[q], kind |-> "ack", val |-> b]
      /\ AckFrame(q, f) \in Frame
  BY <1>2, <1>3 DEF AckFrame, MakeFrame, b, Frame, Kinds, IInv, TypeOK
<1>6. /\ base' = [base EXCEPT ![q] = b]
      /\ seen' = [seen EXCEPT ![q] = s]
      /\ got' = [got EXCEPT ![q] = @ \cup {f.seq}]
      /\ UNCHANGED <<checks, skips, asked>>
  BY DEF ReceiveDataAck, MarkSeen, sendVars, b, s
<1>7. /\ sent' = [sent EXCEPT ![q] = @ + 1]
      /\ peerBase' = peerBase
      /\ net' = [net EXCEPT ![o] = @ \ left, ![q] = @ \cup {AckFrame(q, f)}]
  BY <1>5, <1>4 DEF ReceiveDataAck, sendVars, Arrive
<1>8. TypeOK
  BY DEF IInv
<1>9. TypeOK'
  <2>1. /\ ackDue' \in [Peers -> 0..(AckEvery - 1)]
        /\ delivered' \in [Peers -> SUBSET Nat]
        /\ twice' \in [Peers -> SUBSET Nat]
    BY <1>2, <1>8, ChannelAssumption
       DEF ReceiveDataAck, Deliver, TypeOK
  <2>2. net' \in [Peers -> SUBSET Frame]
    BY <1>5, <1>4, <1>7, <1>8 DEF TypeOK
  <2>3. sent' \in [Peers -> Nat] /\ peerBase' \in [Peers -> Nat]
    BY <1>2, <1>4, <1>7, <1>8 DEF TypeOK, Later
  <2> HIDE DEF b, s, o
  <2> QED BY <1>2, <1>3, <1>6, <1>8, <2>1, <2>2, <2>3 DEF TypeOK
<1> HIDE DEF b, s, o
<1>10. WindowBehindSender'
  BY <1>2, <1>3, <1>4, <1>6, <1>7, <1>8
     DEF IInv, TypeOK, WindowBehindSender, Later
<1>11. BeliefOnlyAheadBySkip'
  BY <1>2, <1>3, <1>4, <1>6, <1>7, <1>8
     DEF IInv, TypeOK, BeliefOnlyAheadBySkip, Later
<1>12. FramesSound'
  BY <1>3, <1>4, <1>5, <1>6, <1>7, <1>8 DEF IInv, TypeOK, FramesSound, Frame
<1>13. GotSound'
  BY <1>3, <1>4, <1>6, <1>8 DEF IInv, TypeOK, GotSound
<1>14. (\A p \in Peers : asked[p] <= sent[p])'
  BY <1>4, <1>6, <1>7, <1>8 DEF IInv, TypeOK
<1> QED BY <1>9, <1>10, <1>11, <1>12, <1>13, <1>14 DEF IInv

LEMMA ReceiveQuietIInv ==
  ASSUME IInv, NEW q \in Peers, NEW f, NEW left, ReceiveQuiet(q, f, left)
  PROVE  IInv'
<1> DEFINE o == Other(q)
<1> DEFINE b == BaseAfter(q, f.seq)
<1> DEFINE s == SeenAfter(q, f.seq)
<1>1. Decode(q, f)
  BY DEF ReceiveQuiet
<1>2. /\ f \in net[o]
      /\ f.seq \in Nat /\ f.val \in Nat
      /\ f.seq < sent[o]
      /\ f.kind = "ack" => f.val <= base[o]
  BY <1>1, DecodedFrame DEF Frame
<1>3. /\ b \in Nat
      /\ s \in SUBSET Nat
      /\ base[q] <= b
      /\ b <= sent[o]
      /\ \A m \in s : b < m /\ m < b + Window /\ m < sent[o]
      /\ s \subseteq got[q] \cup {f.seq}
      /\ \A m \in got[q] \cup {f.seq} : m < b \/ m \in s
  BY <1>1, MarkKeepsWindow
<1>4. /\ o \in Peers /\ o # q /\ Other(o) = q /\ Other(q) = o
      /\ \A p \in Peers : p = q \/ p = o
  BY DEF Other, Peers
<1>6. /\ base' = [base EXCEPT ![q] = b]
      /\ seen' = [seen EXCEPT ![q] = s]
      /\ got' = [got EXCEPT ![q] = @ \cup {f.seq}]
      /\ UNCHANGED <<checks, skips, asked>>
  BY DEF ReceiveQuiet, MarkSeen, sendVars, b, s
<1>7. /\ sent' = sent
      /\ peerBase' = peerBase
      /\ net' = [net EXCEPT ![o] = @ \ left]
  BY <1>4 DEF ReceiveQuiet, sendVars, Arrive
<1>8. TypeOK
  BY DEF IInv
<1>9. TypeOK'
  <2>1. /\ ackDue' \in [Peers -> 0..(AckEvery - 1)]
        /\ delivered' \in [Peers -> SUBSET Nat]
        /\ twice' \in [Peers -> SUBSET Nat]
    BY <1>2, <1>8, ChannelAssumption
       DEF ReceiveQuiet, TypeOK
  <2>2. net' \in [Peers -> SUBSET Frame]
    BY <1>4, <1>7, <1>8 DEF TypeOK
  <2>3. sent' \in [Peers -> Nat] /\ peerBase' \in [Peers -> Nat]
    BY <1>2, <1>4, <1>7, <1>8 DEF TypeOK, Later
  <2> HIDE DEF b, s, o
  <2> QED BY <1>2, <1>3, <1>6, <1>8, <2>1, <2>2, <2>3 DEF TypeOK
<1> HIDE DEF b, s, o
<1>10. WindowBehindSender'
  BY <1>2, <1>3, <1>4, <1>6, <1>7, <1>8
     DEF IInv, TypeOK, WindowBehindSender, Later
<1>11. BeliefOnlyAheadBySkip'
  BY <1>2, <1>3, <1>4, <1>6, <1>7, <1>8
     DEF IInv, TypeOK, BeliefOnlyAheadBySkip, Later
<1>12. FramesSound'
  BY <1>3, <1>4, <1>6, <1>7, <1>8 DEF IInv, TypeOK, FramesSound, Frame
<1>13. GotSound'
  BY <1>3, <1>4, <1>6, <1>8 DEF IInv, TypeOK, GotSound
<1>14. (\A p \in Peers : asked[p] <= sent[p])'
  BY <1>4, <1>6, <1>7, <1>8 DEF IInv, TypeOK
<1> QED BY <1>9, <1>10, <1>11, <1>12, <1>13, <1>14 DEF IInv

LEMMA ReceiveAckIInv ==
  ASSUME IInv, NEW q \in Peers, NEW f, NEW left, ReceiveAck(q, f, left)
  PROVE  IInv'
<1> DEFINE o == Other(q)
<1> DEFINE b == BaseAfter(q, f.seq)
<1> DEFINE s == SeenAfter(q, f.seq)
<1>1. Decode(q, f)
  BY DEF ReceiveAck
<1>2. /\ f \in net[o]
      /\ f.seq \in Nat /\ f.val \in Nat
      /\ f.seq < sent[o]
      /\ f.kind = "ack" => f.val <= base[o]
  BY <1>1, DecodedFrame DEF Frame
<1>3. /\ b \in Nat
      /\ s \in SUBSET Nat
      /\ base[q] <= b
      /\ b <= sent[o]
      /\ \A m \in s : b < m /\ m < b + Window /\ m < sent[o]
      /\ s \subseteq got[q] \cup {f.seq}
      /\ \A m \in got[q] \cup {f.seq} : m < b \/ m \in s
  BY <1>1, MarkKeepsWindow
<1>4. /\ o \in Peers /\ o # q /\ Other(o) = q /\ Other(q) = o
      /\ \A p \in Peers : p = q \/ p = o
  BY DEF Other, Peers
<1>6. /\ base' = [base EXCEPT ![q] = b]
      /\ seen' = [seen EXCEPT ![q] = s]
      /\ got' = [got EXCEPT ![q] = @ \cup {f.seq}]
      /\ UNCHANGED <<checks, skips, asked>>
  BY DEF ReceiveAck, MarkSeen, sendVars, b, s
<1>7. /\ sent' = sent
      /\ f.kind = "ack" /\ peerBase' = [peerBase EXCEPT ![q] = Later(@, f.val)]
      /\ net' = [net EXCEPT ![o] = @ \ left]
  BY <1>4 DEF ReceiveAck, sendVars, Arrive
<1>8. TypeOK
  BY DEF IInv
<1>9. TypeOK'
  <2>1. /\ ackDue' \in [Peers -> 0..(AckEvery - 1)]
        /\ delivered' \in [Peers -> SUBSET Nat]
        /\ twice' \in [Peers -> SUBSET Nat]
    BY <1>2, <1>8, ChannelAssumption
       DEF ReceiveAck, TypeOK
  <2>2. net' \in [Peers -> SUBSET Frame]
    BY <1>4, <1>7, <1>8 DEF TypeOK
  <2>3. sent' \in [Peers -> Nat] /\ peerBase' \in [Peers -> Nat]
    BY <1>2, <1>4, <1>7, <1>8 DEF TypeOK, Later
  <2> HIDE DEF b, s, o
  <2> QED BY <1>2, <1>3, <1>6, <1>8, <2>1, <2>2, <2>3 DEF TypeOK
<1> HIDE DEF b, s, o
<1>10. WindowBehindSender'
  BY <1>2, <1>3, <1>4, <1>6, <1>7, <1>8
     DEF IInv, TypeOK, WindowBehindSender, Later
<1>11. BeliefOnlyAheadBySkip'
  BY <1>2, <1>3, <1>4, <1>6, <1>7, <1>8
     DEF IInv, TypeOK, BeliefOnlyAheadBySkip, Later
<1>12. FramesSound'
  BY <1>3, <1>4, <1>6, <1>7, <1>8 DEF IInv, TypeOK, FramesSound, Frame
<1>13. GotSound'
  BY <1>3, <1>4, <1>6, <1>8 DEF IInv, TypeOK, GotSound
<1>14. (\A p \in Peers : asked[p] <= sent[p])'
  BY <1>4, <1>6, <1>7, <1>8 DEF IInv, TypeOK
<1> QED BY <1>9, <1>10, <1>11, <1>12, <1>13, <1>14 DEF IInv

LEMMA ReceiveOverBudgetIInv ==
  ASSUME IInv, NEW q \in Peers, NEW f, NEW left, ReceiveOverBudget(q, f, left)
  PROVE  IInv'
<1> DEFINE o == Other(q)
<1> DEFINE b == BaseAfter(q, f.seq)
<1> DEFINE s == SeenAfter(q, f.seq)
<1>1. Decode(q, f)
  BY DEF ReceiveOverBudget
<1>2. /\ f \in net[o]
      /\ f.seq \in Nat /\ f.val \in Nat
      /\ f.seq < sent[o]
      /\ f.kind = "ack" => f.val <= base[o]
  BY <1>1, DecodedFrame DEF Frame
<1>3. /\ b \in Nat
      /\ s \in SUBSET Nat
      /\ base[q] <= b
      /\ b <= sent[o]
      /\ \A m \in s : b < m /\ m < b + Window /\ m < sent[o]
      /\ s \subseteq got[q] \cup {f.seq}
      /\ \A m \in got[q] \cup {f.seq} : m < b \/ m \in s
  BY <1>1, MarkKeepsWindow
<1>4. /\ o \in Peers /\ o # q /\ Other(o) = q /\ Other(q) = o
      /\ \A p \in Peers : p = q \/ p = o
  BY DEF Other, Peers
<1>6. /\ base' = [base EXCEPT ![q] = b]
      /\ seen' = [seen EXCEPT ![q] = s]
      /\ got' = [got EXCEPT ![q] = @ \cup {f.seq}]
      /\ UNCHANGED <<checks, skips, asked>>
  BY DEF ReceiveOverBudget, MarkSeen, sendVars, b, s
<1>7. /\ sent' = sent
      /\ peerBase' = peerBase
      /\ net' = [net EXCEPT ![o] = @ \ left]
  BY <1>4 DEF ReceiveOverBudget, sendVars, Arrive
<1>8. TypeOK
  BY DEF IInv
<1>9. TypeOK'
  <2>1. /\ ackDue' \in [Peers -> 0..(AckEvery - 1)]
        /\ delivered' \in [Peers -> SUBSET Nat]
        /\ twice' \in [Peers -> SUBSET Nat]
    BY <1>2, <1>8, ChannelAssumption
       DEF ReceiveOverBudget, TypeOK
  <2>2. net' \in [Peers -> SUBSET Frame]
    BY <1>4, <1>7, <1>8 DEF TypeOK
  <2>3. sent' \in [Peers -> Nat] /\ peerBase' \in [Peers -> Nat]
    BY <1>2, <1>4, <1>7, <1>8 DEF TypeOK, Later
  <2> HIDE DEF b, s, o
  <2> QED BY <1>2, <1>3, <1>6, <1>8, <2>1, <2>2, <2>3 DEF TypeOK
<1> HIDE DEF b, s, o
<1>10. WindowBehindSender'
  BY <1>2, <1>3, <1>4, <1>6, <1>7, <1>8
     DEF IInv, TypeOK, WindowBehindSender, Later
<1>11. BeliefOnlyAheadBySkip'
  BY <1>2, <1>3, <1>4, <1>6, <1>7, <1>8
     DEF IInv, TypeOK, BeliefOnlyAheadBySkip, Later
<1>12. FramesSound'
  BY <1>3, <1>4, <1>6, <1>7, <1>8 DEF IInv, TypeOK, FramesSound, Frame
<1>13. GotSound'
  BY <1>3, <1>4, <1>6, <1>8 DEF IInv, TypeOK, GotSound
<1>14. (\A p \in Peers : asked[p] <= sent[p])'
  BY <1>4, <1>6, <1>7, <1>8 DEF IInv, TypeOK
<1> QED BY <1>9, <1>10, <1>11, <1>12, <1>13, <1>14 DEF IInv

\* What AdvanceBaseTo does once DecodePacket has marked the SKIP itself:
\* nothing, or the base becomes the SKIP's own number and the bitmap is empty.
LEMMA SkipOutcome ==
  ASSUME IInv, NEW q \in Peers, NEW f, NEW left, ReceiveSkip(q, f, left)
  PROVE  LET b == BaseAfter(q, f.seq)
             s == SeenAfter(q, f.seq)
         IN  \/ /\ base' = [base EXCEPT ![q] = b]
                /\ seen' = [seen EXCEPT ![q] = s]
                /\ got' = [got EXCEPT ![q] = @ \cup {f.seq}]
             \/ /\ f.seq > b
                /\ base' = [base EXCEPT ![q] = f.seq]
                /\ seen' = [seen EXCEPT ![q] = {}]
                /\ got' = [got EXCEPT ![q] = {}]
<1> DEFINE b == BaseAfter(q, f.seq)
<1> DEFINE s == SeenAfter(q, f.seq)
<1> DEFINE after == AdvanceBaseTo(b, s, f.val)
<1>1. Decode(q, f)
  BY DEF ReceiveSkip
<1>2. b \in Nat /\ f.seq \in Nat /\ f.val = f.seq
  BY <1>1, DecodedFrame, MarkKeepsWindow DEF Frame, ReceiveSkip
<1>3. /\ base' = [base EXCEPT ![q] = after.base]
      /\ seen' = [seen EXCEPT ![q] = after.seen]
      /\ got' = [got EXCEPT ![q] = IF after.base = b THEN @ \cup {f.seq} ELSE {}]
  BY DEF ReceiveSkip, b, s
<1> HIDE DEF b, s
<1>4. \/ after.base = b /\ after.seen = s
      \/ f.seq > b /\ after.base = f.seq /\ after.seen = {}
  BY <1>2, ChannelAssumption DEF AdvanceBaseTo
<1> HIDE DEF after
<1>5. CASE after.base = b /\ after.seen = s
  BY <1>3, <1>5 DEF b, s
<1>6. CASE f.seq > b /\ after.base = f.seq /\ after.seen = {}
  <2>1. after.base # b
    BY <1>2, <1>6
  <2> QED BY <1>3, <1>6, <2>1 DEF b, s
<1> QED BY <1>4, <1>5, <1>6

LEMMA ReceiveSkipIInv ==
  ASSUME IInv, NEW q \in Peers, NEW f, NEW left, ReceiveSkip(q, f, left)
  PROVE  IInv'
<1> DEFINE o == Other(q)
<1> DEFINE b == BaseAfter(q, f.seq)
<1> DEFINE s == SeenAfter(q, f.seq)
<1>1. Decode(q, f)
  BY DEF ReceiveSkip
<1>2. f \in net[o] /\ f.seq \in Nat /\ f.seq < sent[o]
  BY <1>1, DecodedFrame DEF Frame
<1>3. /\ b \in Nat
      /\ s \in SUBSET Nat
      /\ base[q] <= b
      /\ b <= sent[o]
      /\ \A m \in s : b < m /\ m < b + Window /\ m < sent[o]
      /\ s \subseteq got[q] \cup {f.seq}
      /\ \A m \in got[q] \cup {f.seq} : m < b \/ m \in s
  BY <1>1, MarkKeepsWindow
<1>4. /\ o \in Peers /\ o # q /\ Other(o) = q /\ Other(q) = o
      /\ \A p \in Peers : p = q \/ p = o
  BY DEF Other, Peers
<1>5. \/ /\ base' = [base EXCEPT ![q] = b]
         /\ seen' = [seen EXCEPT ![q] = s]
         /\ got' = [got EXCEPT ![q] = @ \cup {f.seq}]
      \/ /\ f.seq > b
         /\ base' = [base EXCEPT ![q] = f.seq]
         /\ seen' = [seen EXCEPT ![q] = {}]
         /\ got' = [got EXCEPT ![q] = {}]
  BY SkipOutcome
<1>6. /\ UNCHANGED <<ackDue, delivered, twice>>
      /\ UNCHANGED <<sent, peerBase, checks, skips, asked>>
      /\ net' = [net EXCEPT ![o] = @ \ left]
  BY DEF ReceiveSkip, Arrive, sendVars
<1>7. TypeOK
  BY DEF IInv
<1> HIDE DEF b, s, o
<1>8. TypeOK'
  <2>1. base' \in [Peers -> Nat]
    BY <1>2, <1>3, <1>5, <1>7 DEF TypeOK
  <2>2. seen' \in [Peers -> SUBSET Nat]
    <3>1. ASSUME NEW x \in SUBSET Nat, seen' = [seen EXCEPT ![q] = x]
          PROVE  seen' \in [Peers -> SUBSET Nat]
      BY <1>7, <3>1 DEF TypeOK
    <3>2. \E x \in SUBSET Nat : seen' = [seen EXCEPT ![q] = x]
      BY <1>3, <1>5
    <3> QED BY <3>1, <3>2
  <2>3. got' \in [Peers -> SUBSET Nat]
    BY <1>2, <1>5, <1>7 DEF TypeOK
  <2>4. net' \in [Peers -> SUBSET Frame]
    BY <1>4, <1>6, <1>7 DEF TypeOK
  <2> QED BY <1>6, <1>7, <2>1, <2>2, <2>3, <2>4 DEF TypeOK
<1>9. /\ base'[q] \in Nat /\ base[q] <= base'[q] /\ base'[q] <= sent[o]
      /\ base'[o] = base[o] /\ seen'[o] = seen[o] /\ got'[o] = got[o]
  BY <1>2, <1>3, <1>4, <1>5, <1>7 DEF TypeOK
<1>10. /\ \A m \in seen'[q] : base'[q] < m /\ m < base'[q] + Window /\ m < sent[o]
       /\ seen'[q] \subseteq got'[q]
       /\ \A m \in got'[q] : m < base'[q] \/ m \in seen'[q]
  <2>1. \/ base'[q] = b /\ seen'[q] = s /\ got'[q] = got[q] \cup {f.seq}
        \/ seen'[q] = {} /\ got'[q] = {}
    BY <1>5, <1>7 DEF TypeOK
  <2>2. CASE base'[q] = b /\ seen'[q] = s /\ got'[q] = got[q] \cup {f.seq}
    BY <1>3, <2>2
  <2>3. CASE seen'[q] = {} /\ got'[q] = {}
    BY <2>3
  <2> QED BY <2>1, <2>2, <2>3
<1>11. WindowBehindSender'
  <2>1. /\ base'[q] <= sent'[o] /\ peerBase'[o] <= sent'[o]
        /\ \A m \in seen'[q] :
             base'[q] < m /\ m < base'[q] + Window /\ m < sent'[o]
    BY <1>4, <1>6, <1>9, <1>10 DEF IInv, WindowBehindSender
  <2>2. /\ base'[o] <= sent'[q] /\ peerBase'[q] <= sent'[q]
        /\ \A m \in seen'[o] :
             base'[o] < m /\ m < base'[o] + Window /\ m < sent'[q]
    <3>1. /\ base[o] <= sent[q] /\ peerBase[q] <= sent[q]
          /\ \A m \in seen[o] :
               base[o] < m /\ m < base[o] + Window /\ m < sent[q]
      BY <1>4 DEF IInv, WindowBehindSender
    <3> QED BY <3>1, <1>6, <1>9
  <2> QED BY <1>4, <2>1, <2>2 DEF WindowBehindSender
<1>12. BeliefOnlyAheadBySkip'
  BY <1>4, <1>6, <1>7, <1>9 DEF IInv, TypeOK, BeliefOnlyAheadBySkip
<1>13. FramesSound'
  <2>1. \A p \in Peers : /\ base[p] \in Nat /\ base'[p] \in Nat
                         /\ base[p] <= base'[p]
                         /\ net'[p] \subseteq net[p]
    BY <1>4, <1>6, <1>7, <1>9 DEF TypeOK
  <2>2. \A p \in Peers : \A g \in net[p] \cup skips[p] : g.val \in Nat
    BY <1>7 DEF TypeOK, Frame
  <2> QED BY <1>6, <2>1, <2>2 DEF IInv, FramesSound
<1>14. GotSound'
  BY <1>4, <1>9, <1>10 DEF IInv, GotSound
<1>15. (\A p \in Peers : asked[p] <= sent[p])'
  BY <1>6 DEF IInv
<1> QED BY <1>8, <1>11, <1>12, <1>13, <1>14, <1>15 DEF IInv

\* The network actions only take frames away.
LEMMA NetworkIInv ==
  ASSUME IInv, NEW p \in Peers, NEW f, Reject(p, f) \/ Lose(p, f)
  PROVE  IInv'
<1>1. /\ UNCHANGED <<sent, peerBase, checks, skips, asked>>
      /\ UNCHANGED <<base, seen, ackDue, got, delivered, twice>>
      /\ \E o \in Peers : net' = [net EXCEPT ![o] = @ \ {f}]
  BY DEF Reject, Lose, Arrive, sendVars, recvVars, Other, Peers
<1> QED BY <1>1 DEF IInv, TypeOK, WindowBehindSender, BeliefOnlyAheadBySkip,
                    FramesSound, GotSound

\* Every step preserves the inductive invariant.
LEMMA NextIInv == IInv /\ [Next]_vars => IInv'
<1> SUFFICES ASSUME IInv, [Next]_vars PROVE IInv'
  OBVIOUS
<1>1. ASSUME NEW p \in Peers, NEW k \in Payloads, SendPacket(p, k)
      PROVE  IInv'
  BY <1>1, SendPacketIInv, ChannelAssumption
<1>2. ASSUME NEW p \in Peers,
             SendRaw(p) \/ CheckGapSmall(p) \/ CheckGapLarge(p) \/ WriteSkip(p)
      PROVE  IInv'
  BY <1>2, SendRawIInv, CheckGapSmallIInv, CheckGapLargeIInv, WriteSkipIInv
<1>3. ASSUME NEW p \in Peers, NEW f, NEW left, Receive(p, f, left)
      PROVE  IInv'
  BY <1>3, ReceiveDataIInv, ReceiveDataAckIInv, ReceiveQuietIInv, ReceiveAckIInv,
     ReceiveSkipIInv, ReceiveOverBudgetIInv DEF Receive
<1>4. ASSUME NEW p \in Peers, NEW f, Reject(p, f) \/ Lose(p, f)
      PROVE  IInv'
  BY <1>4, NetworkIInv
<1>5. CASE UNCHANGED vars
  BY <1>5 DEF vars, IInv, TypeOK, WindowBehindSender, BeliefOnlyAheadBySkip,
              FramesSound, GotSound
<1> QED BY <1>1, <1>2, <1>3, <1>4, <1>5 DEF Next

\* The inductive invariant holds of every behaviour of the session.
THEOREM ChannelInvariant == Spec => []IInv
<1>1. Init => IInv
  BY InitIInv
<1>2. IInv /\ [Next]_vars => IInv'
  BY NextIInv
<1> QED BY <1>1, <1>2, PTL DEF Spec

\* Every variable keeps its type, and the ACK counter stays below AckEvery.
THEOREM TypeCorrect == Spec => []TypeOK
<1>1. IInv => TypeOK
  BY DEF IInv
<1> QED BY <1>1, ChannelInvariant, PTL

\* The receive window and the sender's view of it never pass the sender.
THEOREM WindowStaysBehind == Spec => []WindowBehindSender
<1>1. IInv => WindowBehindSender
  BY DEF IInv
<1> QED BY <1>1, ChannelInvariant, PTL

\* The sender overestimates the receiver's base only through SKIPs it wrote.
THEOREM BeliefIsSound == Spec => []BeliefOnlyAheadBySkip
<1>1. IInv => BeliefOnlyAheadBySkip
  BY DEF IInv
<1> QED BY <1>1, ChannelInvariant, PTL

------------------------------------------------------------------------------
(* A wedged direction stays wedged *)

\* While q authenticates nothing, q's window stands still and everything the
\* other peer adds to the network or to its pending SKIPs has a new number.
LEMMA WindowStandsStill ==
  ASSUME IInv, NEW q \in Peers, Next,
         \A f \in net[Other(q)] : ~Acceptable(q, f.seq)
  PROVE  /\ base'[q] = base[q] /\ seen'[q] = seen[q]
         /\ sent'[Other(q)] >= sent[Other(q)]
         /\ \A f \in net'[Other(q)] \cup skips'[Other(q)] :
              f \in net[Other(q)] \cup skips[Other(q)] \/ f.seq >= sent[Other(q)]
<1> DEFINE o == Other(q)
<1> DEFINE Goal ==
      /\ base'[q] = base[q] /\ seen'[q] = seen[q]
      /\ sent'[o] >= sent[o]
      /\ \A f \in net'[o] \cup skips'[o] :
           f \in net[o] \cup skips[o] \/ f.seq >= sent[o]
<1>1. /\ o \in Peers /\ o # q /\ Other(o) = q
      /\ \A p \in Peers : p = q \/ p = o
  BY DEF Other, Peers
<1>2. TypeOK /\ sent[o] \in Nat /\ sent[q] \in Nat
  BY <1>1 DEF IInv, TypeOK
<1>3. \A f : ~Decode(q, f)
  BY DEF Decode
<1> HIDE DEF o
<1>4. ASSUME NEW p \in Peers, NEW k \in Payloads, SendPacket(p, k)
      PROVE  Goal
  BY <1>1, <1>2, <1>4 DEF SendPacket, recvVars, MakeFrame, TypeOK
<1>5. ASSUME NEW p \in Peers, SendRaw(p)
      PROVE  Goal
  BY <1>1, <1>2, <1>5 DEF SendRaw, recvVars, MakeFrame, TypeOK
<1>6. ASSUME NEW p \in Peers, CheckGapSmall(p)
      PROVE  Goal
  BY <1>1, <1>2, <1>6 DEF CheckGapSmall, recvVars, TypeOK
<1>7. ASSUME NEW p \in Peers, CheckGapLarge(p)
      PROVE  Goal
  BY <1>1, <1>2, <1>7 DEF CheckGapLarge, SkipFrame, recvVars, MakeFrame, TypeOK
<1>8. ASSUME NEW p \in Peers, WriteSkip(p)
      PROVE  Goal
  BY <1>1, <1>2, <1>8 DEF WriteSkip, recvVars, TypeOK
<1>9. ASSUME NEW p \in Peers, NEW f, NEW left, Receive(p, f, left)
      PROVE  Goal
  <2>1. Decode(p, f)
    BY <1>9 DEF Receive, ReceiveData, ReceiveDataAck, ReceiveQuiet, ReceiveAck,
                ReceiveSkip, ReceiveOverBudget
  <2>2. p = o
    BY <2>1, <1>1, <1>3
  <2>3. CASE ReceiveDataAck(o, f, left)
    BY <2>3, <1>1, <1>2
       DEF ReceiveDataAck, MarkSeen, AckFrame, MakeFrame, TypeOK
  <2>4. CASE ReceiveSkip(o, f, left)
    BY <2>4, <1>1, <1>2 DEF ReceiveSkip, sendVars, Arrive, TypeOK
  <2>5. CASE \/ ReceiveData(o, f, left) \/ ReceiveQuiet(o, f, left)
             \/ ReceiveAck(o, f, left) \/ ReceiveOverBudget(o, f, left)
    BY <2>5, <1>1, <1>2
       DEF ReceiveData, ReceiveQuiet, ReceiveAck, ReceiveOverBudget, MarkSeen,
           sendVars, Arrive, TypeOK
  <2> QED BY <2>2, <2>3, <2>4, <2>5, <1>9 DEF Receive
<1>10. ASSUME NEW p \in Peers, NEW f, Reject(p, f) \/ Lose(p, f)
       PROVE  Goal
  BY <1>1, <1>2, <1>10 DEF Reject, Lose, Arrive, sendVars, recvVars, TypeOK
<1> QED BY <1>4, <1>5, <1>6, <1>7, <1>8, <1>9, <1>10 DEF Next, o

\* No action of the code or of the network reopens a wedged direction.
THEOREM WedgeForGood == Spec => WedgeIsPermanent
<1>1. ASSUME IInv, [Next]_vars, NEW q \in Peers, Wedged(q)
      PROVE  Wedged(q)'
  <2> DEFINE o == Other(q)
  <2>1. o \in Peers /\ base[q] \in Nat /\ sent[o] \in Nat /\ Window \in Nat
    BY <1>1, ChannelAssumption DEF IInv, TypeOK, Other, Peers
  <2>2. CASE UNCHANGED vars
    BY <1>1, <2>2 DEF vars, Wedged, Acceptable
  <2>3. CASE Next
    <3>1. /\ base'[q] = base[q] /\ seen'[q] = seen[q]
          /\ sent'[o] >= sent[o]
          /\ \A f \in net'[o] \cup skips'[o] :
               f \in net[o] \cup skips[o] \/ f.seq >= sent[o]
      BY <1>1, <2>3, WindowStandsStill DEF Wedged
    <3>2. sent'[o] \in Nat
      BY <1>1, <2>1, NextIInv DEF IInv, TypeOK
    <3>3. \A f \in net[o] \cup skips[o] : f.seq \in Nat
      BY <1>1, <2>1 DEF IInv, TypeOK, Frame
    <3>4. \A f \in net'[o] \cup skips'[o] : f.seq \in Nat
      BY <1>1, <2>1, NextIInv DEF IInv, TypeOK, Frame
    <3>5. ASSUME NEW f \in net'[o] \cup skips'[o]
          PROVE  ~Acceptable(q, f.seq)'
      <4>1. f.seq \in Nat
        BY <3>4
      <4>2. CASE f \in net[o] \cup skips[o]
        BY <4>2, <1>1, <3>1 DEF Wedged, Acceptable
      <4>3. CASE f.seq >= sent[o]
        BY <4>1, <4>3, <1>1, <2>1, <3>1 DEF Wedged, Acceptable
      <4> QED BY <3>1, <4>2, <4>3
    <3> QED BY <1>1, <2>1, <3>1, <3>2, <3>5 DEF Wedged
  <2> QED BY <1>1, <2>2, <2>3
<1>2. IInv /\ [Next]_vars => [\A q \in Peers : Wedged(q) => Wedged(q)']_vars
  BY <1>1
<1> QED BY <1>2, ChannelInvariant, PTL DEF Spec, WedgeIsPermanent

------------------------------------------------------------------------------
(* Each direction implements Datagram *)

\* The steps of Datagram on the direction whose receiver is q.
EmitStep(q) ==
  /\ sent'[Other(q)] = sent[Other(q)] + 1
  /\ base'[q] = base[q] /\ got'[q] = got[q]

OpenAt(q) == {n \in base[q]..(sent[Other(q)] - 1) : n \notin got[q]}

TakeStep(q) ==
  /\ \E n \in OpenAt(q) : got'[q] = got[q] \cup {n}
  /\ base'[q] \in 0..sent[Other(q)] /\ base'[q] >= base[q]
  /\ \A m \in base[q]..(base'[q] - 1) : m \in got'[q]
  /\ sent'[Other(q)] = sent[Other(q)]

GiveUpStep(q) ==
  /\ \E n \in OpenAt(q) : n > base[q] /\ base'[q] = n
  /\ got'[q] = {}
  /\ sent'[Other(q)] = sent[Other(q)]

StillStep(q) ==
  /\ sent'[Other(q)] = sent[Other(q)]
  /\ base'[q] = base[q] /\ got'[q] = got[q]

DirectionStep(q) == EmitStep(q) \/ TakeStep(q) \/ GiveUpStep(q) \/ StillStep(q)

\* A frame that decodes at q has an open number.
LEMMA DecodedIsOpen ==
  ASSUME IInv, NEW q \in Peers, NEW f, Decode(q, f)
  PROVE  f.seq \in OpenAt(q)
<1>1. f.seq \in Nat /\ f.seq < sent[Other(q)]
  BY DecodedFrame DEF Frame
<1>2. Other(q) \in Peers /\ base[q] \in Nat /\ sent[Other(q)] \in Nat
  BY DEF IInv, TypeOK, Other, Peers
<1>3. f.seq \notin got[q]
  BY <1>1, <1>2 DEF IInv, GotSound, Decode, Acceptable
<1> QED BY <1>1, <1>2, <1>3 DEF OpenAt, Decode, Acceptable

\* Marking a decoded frame is a Take of the direction it travels.
LEMMA MarkIsTake ==
  ASSUME IInv, NEW q \in Peers, NEW f, Decode(q, f),
         base'[q] = BaseAfter(q, f.seq),
         got'[q] = got[q] \cup {f.seq},
         sent'[Other(q)] = sent[Other(q)]
  PROVE  TakeStep(q)
<1> DEFINE b == BaseAfter(q, f.seq)
<1>1. f.seq \in OpenAt(q)
  BY DecodedIsOpen
<1>2. /\ f.seq \in Nat /\ f.seq < sent[Other(q)] /\ Acceptable(q, f.seq)
      /\ Other(q) \in Peers /\ TypeOK /\ WindowBehindSender
      /\ sent[Other(q)] \in Nat /\ base[q] \in Nat
  BY DecodedFrame DEF Frame, Decode, IInv, TypeOK, Other, Peers
<1>3. /\ b \in Nat /\ base[q] <= b /\ b <= sent[Other(q)]
      /\ \A m \in base[q]..(b - 1) : m \in seen[q] \cup {f.seq}
  BY <1>2, MarkSpec
<1>4. seen[q] \subseteq got[q]
  BY DEF IInv, GotSound
<1> HIDE DEF b
<1>5. base'[q] = b
  BY DEF b
<1> QED BY <1>1, <1>2, <1>3, <1>4, <1>5 DEF TakeStep

\* Every step of the session is, for either direction, a step of Datagram or
\* a stutter.
LEMMA DirectionSteps ==
  ASSUME IInv, Next, NEW q \in Peers
  PROVE  DirectionStep(q)
<1> DEFINE o == Other(q)
<1>1. /\ o \in Peers /\ o # q /\ Other(o) = q
      /\ \A p \in Peers : p = q \/ p = o
  BY DEF Other, Peers
<1>2. TypeOK
  BY DEF IInv
<1> HIDE DEF o
<1> DEFINE Emits == sent'[o] = sent[o] + 1
<1> DEFINE Stays == sent'[o] = sent[o]
<1> DEFINE Still == base'[q] = base[q] /\ got'[q] = got[q]
<1>3. ASSUME Emits \/ Stays, Still
      PROVE  DirectionStep(q)
  BY <1>3 DEF DirectionStep, EmitStep, StillStep, o
<1>4. ASSUME NEW p \in Peers, NEW k \in Payloads, SendPacket(p, k)
      PROVE  (Emits \/ Stays) /\ Still
  BY <1>1, <1>2, <1>4 DEF SendPacket, recvVars, TypeOK
<1>5. ASSUME NEW p \in Peers, NEW f, Reject(p, f) \/ Lose(p, f)
      PROVE  Stays /\ Still
  BY <1>5 DEF Reject, Lose, sendVars, recvVars
<1>6. ASSUME NEW f, NEW left, Receive(o, f, left)
      PROVE  (Emits \/ Stays) /\ Still
  <2>1. CASE ReceiveDataAck(o, f, left)
    BY <2>1, <1>1, <1>2 DEF ReceiveDataAck, MarkSeen, TypeOK
  <2>2. CASE ReceiveSkip(o, f, left)
    BY <2>2, <1>1, <1>2 DEF ReceiveSkip, sendVars, TypeOK
  <2>3. CASE \/ ReceiveData(o, f, left) \/ ReceiveQuiet(o, f, left)
             \/ ReceiveAck(o, f, left) \/ ReceiveOverBudget(o, f, left)
    BY <2>3, <1>1, <1>2
       DEF ReceiveData, ReceiveQuiet, ReceiveAck, ReceiveOverBudget, MarkSeen,
           sendVars, TypeOK
  <2> QED BY <1>6, <2>1, <2>2, <2>3 DEF Receive
<1>7. ASSUME NEW f, NEW left, Receive(q, f, left)
      PROVE  DirectionStep(q)
  <2>1. Decode(q, f)
    BY <1>7 DEF Receive, ReceiveData, ReceiveDataAck, ReceiveQuiet, ReceiveAck,
                ReceiveSkip, ReceiveOverBudget
  <2>2. CASE ReceiveSkip(q, f, left)
    <3>1. Stays
      BY <2>2 DEF ReceiveSkip, sendVars
    <3>2. \/ base'[q] = BaseAfter(q, f.seq) /\ got'[q] = got[q] \cup {f.seq}
          \/ /\ f.seq > BaseAfter(q, f.seq) /\ base'[q] = f.seq
             /\ got'[q] = {}
      BY <2>2, <1>2, SkipOutcome DEF TypeOK
    <3>3. CASE base'[q] = BaseAfter(q, f.seq) /\ got'[q] = got[q] \cup {f.seq}
      BY <3>1, <3>3, <2>1, MarkIsTake DEF o, DirectionStep
    <3>4. CASE f.seq > BaseAfter(q, f.seq) /\ base'[q] = f.seq /\ got'[q] = {}
      <4>1. f.seq \in OpenAt(q)
        BY <2>1, DecodedIsOpen
      <4>2. BaseAfter(q, f.seq) \in Nat /\ base[q] <= BaseAfter(q, f.seq)
        BY <2>1, MarkKeepsWindow
      <4>3. f.seq \in Nat /\ base[q] \in Nat
        BY <2>1, <1>2, DecodedFrame DEF Frame, TypeOK
      <4>4. f.seq > base[q]
        BY <3>4, <4>2, <4>3
      <4> QED BY <3>1, <3>4, <4>1, <4>4 DEF GiveUpStep, DirectionStep, o
    <3> QED BY <3>2, <3>3, <3>4
  <2>3. CASE ~ReceiveSkip(q, f, left)
    <3>1. MarkSeen(q, f) /\ Stays
      BY <1>1, <1>2, <1>7, <2>3
         DEF Receive, ReceiveData, ReceiveDataAck, ReceiveQuiet, ReceiveAck,
             ReceiveOverBudget, sendVars, TypeOK
    <3>2. base'[q] = BaseAfter(q, f.seq) /\ got'[q] = got[q] \cup {f.seq}
      BY <3>1, <1>2 DEF MarkSeen, TypeOK
    <3> QED BY <3>1, <3>2, <2>1, MarkIsTake DEF o, DirectionStep
  <2> QED BY <2>2, <2>3
<1>8. PICK p \in Peers :
        \/ \E k \in Payloads : SendPacket(p, k)
        \/ SendRaw(p) \/ CheckGapSmall(p) \/ CheckGapLarge(p) \/ WriteSkip(p)
        \/ \E f, left : Receive(p, f, left)
        \/ \E f : Reject(p, f) \/ Lose(p, f)
  BY DEF Next
<1> HIDE DEF Emits, Stays, Still
<1>9. CASE \E k \in Payloads : SendPacket(p, k)
  BY <1>9, <1>3, <1>4
<1>10. CASE SendRaw(p) \/ CheckGapSmall(p) \/ CheckGapLarge(p) \/ WriteSkip(p)
  <2>1. (Emits \/ Stays) /\ Still
    BY <1>10, <1>1, <1>2
       DEF SendRaw, CheckGapSmall, CheckGapLarge, WriteSkip, recvVars, TypeOK,
           Emits, Stays, Still
  <2> QED BY <2>1, <1>3
<1>11. CASE \E f : Reject(p, f) \/ Lose(p, f)
  BY <1>11, <1>3, <1>5
<1>12. CASE \E f, left : Receive(p, f, left)
  BY <1>12, <1>1, <1>3, <1>6, <1>7
<1> QED BY <1>8, <1>9, <1>10, <1>11, <1>12

\* The session implements, in each direction, a service that takes every
\* number at most once between two gaps given up on, and never below a floor
\* that only rises.
THEOREM ChannelImplementsDatagram == Spec => ImplementsDatagram
<1>1. Init => C2S!Init /\ S2C!Init
  BY DEF Init, C2S!Init, S2C!Init, Peers
<1>2. IInv /\ [Next]_vars => [C2S!Next]_(C2S!vars)
  <2> SUFFICES ASSUME IInv, [Next]_vars PROVE [C2S!Next]_(C2S!vars)
    OBVIOUS
  <2>1. CASE UNCHANGED vars
    BY <2>1 DEF vars, C2S!vars
  <2>2. CASE Next
    <3>1. DirectionStep("server") /\ Other("server") = "client"
      BY <2>2, DirectionSteps DEF Peers, Other
    <3>2. CASE EmitStep("server")
      BY <3>1, <3>2 DEF EmitStep, C2S!Next, C2S!Emit
    <3>3. CASE TakeStep("server")
      BY <3>1, <3>3 DEF TakeStep, OpenAt, C2S!Next, C2S!Take, C2S!Open
    <3>4. CASE GiveUpStep("server")
      BY <3>1, <3>4 DEF GiveUpStep, OpenAt, C2S!Next, C2S!GiveUp, C2S!Open
    <3>5. CASE StillStep("server")
      BY <3>1, <3>5 DEF StillStep, C2S!vars
    <3> QED BY <3>1, <3>2, <3>3, <3>4, <3>5 DEF DirectionStep
  <2> QED BY <2>1, <2>2
<1>3. IInv /\ [Next]_vars => [S2C!Next]_(S2C!vars)
  <2> SUFFICES ASSUME IInv, [Next]_vars PROVE [S2C!Next]_(S2C!vars)
    OBVIOUS
  <2>1. CASE UNCHANGED vars
    BY <2>1 DEF vars, S2C!vars
  <2>2. CASE Next
    <3>1. DirectionStep("client") /\ Other("client") = "server"
      BY <2>2, DirectionSteps DEF Peers, Other
    <3>2. CASE EmitStep("client")
      BY <3>1, <3>2 DEF EmitStep, S2C!Next, S2C!Emit
    <3>3. CASE TakeStep("client")
      BY <3>1, <3>3 DEF TakeStep, OpenAt, S2C!Next, S2C!Take, S2C!Open
    <3>4. CASE GiveUpStep("client")
      BY <3>1, <3>4 DEF GiveUpStep, OpenAt, S2C!Next, S2C!GiveUp, S2C!Open
    <3>5. CASE StillStep("client")
      BY <3>1, <3>5 DEF StillStep, S2C!vars
    <3> QED BY <3>1, <3>2, <3>3, <3>4, <3>5 DEF DirectionStep
  <2> QED BY <2>1, <2>2
<1> QED BY <1>1, <1>2, <1>3, ChannelInvariant, PTL
        DEF Spec, ImplementsDatagram, C2S!Spec, S2C!Spec
==============================================================================
