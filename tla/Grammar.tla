------------------------------- MODULE Grammar -------------------------------
(***************************************************************************)
(* The sizes of the messages the generator can draw                         *)
(* (internal/genome/generator.go) and of the datagrams made of them: the    *)
(* length field, the padding ladder of data packets                         *)
(* (internal/compiler/packet.go) and the cover and tail of handshake        *)
(* datagrams (cover.go).  Everything here is counted in bytes; only the     *)
(* ends, and a few values between, of the ranges drawn from are kept.       *)
(***************************************************************************)
EXTENDS Integers, FiniteSets

CONSTANTS
  MTU,     \* of the TUN devices
  Samples  \* payload sizes to try, of a data packet

\* What a datagram leaves for a packet: a larger one cannot be sent, whatever the MTU.
LargestPacket == 64000

ASSUME GrammarAssumption == MTU \in 0..LargestPacket /\ Samples \subseteq 0..MTU

Tag == 16
EarlyData == 1400
MaxFirstStreamFrameLen == 4096

\* maxIntValue; the largest one is cut to what TLC's integers hold.
MaxIntValue(width) == IF width = 4 THEN 2147483647 ELSE 256^width - 1

\* versionField, typeField, nonceField, reservedField, each of which may be absent
PlainSizes ==
  {v + t + n + r : v \in 0..2, t \in 0..2, n \in {0, 4, 32}, r \in {0, 1, 16}}

KeySizes == {0, 32, 33}
CertSizes == {0, 64, 512, 2 + 512}
ExtraSizes == {0} \cup 4..20 \cup {64, 1 + 64, 2 + 512}

\* paddingPolicy
Policies ==
  {[mode |-> "none", min |-> 0, max |-> 0]}
  \cup {[mode |-> "uniform", min |-> a, max |-> a + b] :
          a \in {0, 32}, b \in {1, 100, 223, 255, 256}}
  \cup {[mode |-> "burst", min |-> a, max |-> a + b] :
          a \in {0, 16}, b \in {64, 239, 255, 448}}

\* choosePadding, at its ends
PadLens(policy) ==
  {policy.min, policy.max} \cup IF policy.mode = "burst" THEN {0} ELSE {}

\* padLenField
PadLenWidths(policy) ==
  CASE policy.mode = "none" -> {0}
    [] policy.mode # "none" /\ policy.max > 255 -> {2}
    [] OTHER -> {1, 2}

\* message: the encrypted fields at their largest, pad_length apart
Messages(plain, fields) ==
  {m \in [plain : plain, fields : fields, padLen : 0..2, policy : Policies,
          payload : BOOLEAN, app : {FALSE}] : m.padLen \in PadLenWidths(m.policy)}

HandshakeMessages ==
  Messages({0, 1, 5, 52}, {k + c + e : k \in KeySizes, c \in CertSizes, e \in ExtraSizes})

AppRecords ==
  {[m EXCEPT !.app = TRUE, !.payload = TRUE] : m \in Messages({0, 52}, {0, 4, 65, 514})}

MaxCipher(m) ==
  Tag + m.fields + m.padLen + m.policy.max + IF m.payload /\ ~m.app THEN EarlyData ELSE 0

MinBytes(m) == m.plain + 4 + MaxCipher(m)

\* lengthField
LengthWidths(m) ==
  LET fit == {w \in 1..4 : MaxIntValue(w) >= MinBytes(m)}
  IN CASE m.app -> {2, 3, 4}
       [] ~m.app /\ fit = {} -> {4}
       [] OTHER -> fit

\* Encode, EncodePacket
FrameLen(m, width, payload, pad) == m.plain + width + m.fields + m.padLen + payload + pad + Tag

------------------------------------------------------------------------------
(* Data packets *)

Ladders ==
  {{96, 384, 768, 1392}, {160, 576, 1152, 1400}, {192, 448, 896, 1452},
   {128, 512, 1024, 1452}, {224, 640, 1088, 1424}}

Rungs(n, ladder) == {b \in ladder : n <= b}

NextShapeSize(n, ladder) ==
  IF Rungs(n, ladder) = {} THEN n
  ELSE CHOOSE b \in Rungs(n, ladder) : \A d \in Rungs(n, ladder) : b <= d

PadFieldMax(width) == IF width >= 3 THEN 2^20 - 1 ELSE 256^width - 1

\* The padding of a packet goes up to the next rung, if its field can say so.
ShapedPad(m, width, payload, pad, ladder) ==
  LET n == FrameLen(m, width, payload, pad)
      extra == NextShapeSize(n, ladder) - n
  IN IF m.padLen > 0 /\ pad + extra <= PadFieldMax(m.padLen) THEN pad + extra ELSE pad

Shapings ==
  [m : AppRecords, payload : Samples, ladder : Ladders]

------------------------------------------------------------------------------
(* Handshake datagrams *)

CoverLens == 24..32

\* handshakePadTarget: the span is wider than the one byte it is drawn from.
PadTargets == {701 + b : b \in {0, 1, 255}}

\* WrapHandshakeDatagram, padHandshakeWire: what is sent of a frame of n bytes.
WireLen(cover, n, target) ==
  LET wire == cover + n
  IN IF wire < 160 \/ wire > 700 THEN wire ELSE target

------------------------------------------------------------------------------
(* Properties *)

Least(a, b) == IF a <= b THEN a ELSE b

\* Whatever early data and padding a handshake message carries and however large
\* its fields come out, and whatever packet a data record carries and rung it is
\* padded to, its length field can hold what it has to say: Encode never fails
\* on a message the generator drew.  Nor is a handshake message, behind the
\* longest cover, too long for the first frame of a stream.
LengthFits ==
  /\ \A m \in HandshakeMessages : \A w \in LengthWidths(m) :
       FrameLen(m, w, IF m.payload THEN EarlyData ELSE 0, m.policy.max)
         <= Least(MaxIntValue(w), MaxFirstStreamFrameLen - 32)
  /\ \A m \in AppRecords : \A w \in LengthWidths(m), l \in Ladders :
       FrameLen(m, w, MTU, ShapedPad(m, w, MTU, m.policy.max, l)) <= MaxIntValue(w)

\* Padding up to a rung never says more than the pad_length field can, and gets
\* every packet on a rung unless the record has no such field, or it is one byte
\* and the rung too far, or the packet is beyond the ladder.
OnARung ==
  \A s \in Shapings : \A w \in LengthWidths(s.m), p \in PadLens(s.m.policy) :
    LET pad == ShapedPad(s.m, w, s.payload, p, s.ladder)
        n == FrameLen(s.m, w, s.payload, p)
        shaped == FrameLen(s.m, w, s.payload, pad)
    IN /\ s.m.padLen > 0 => pad <= PadFieldMax(s.m.padLen)
       /\ \/ shaped \in s.ladder /\ n <= shaped
          \/ Rungs(n, s.ladder) = {}
          \/ s.m.padLen = 0
          \/ s.m.padLen = 1 /\ NextShapeSize(n, s.ladder) - n + p > 255

\* No handshake datagram has a size that attracts replays (160 to 700 bytes),
\* whatever its frame and cover, and none is padded to a fragment.
OutsideBand ==
  \A c \in CoverLens : \A n \in 0..1300, t \in PadTargets :
    /\ WireLen(c, n, t) \notin 160..700
    /\ WireLen(c, n, t) >= c + n
    /\ WireLen(c, n, t) <= 1200 \/ WireLen(c, n, t) = c + n
==============================================================================
