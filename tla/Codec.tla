-------------------------------- MODULE Codec --------------------------------
(***************************************************************************)
(* Frames byte by byte: Encode, Decode, ReadFrame, DeclaredFrame and         *)
(* splitSegments of internal/compiler/codec.go, for the layouts that        *)
(* validateMessage (compile.go) lets through.                               *)
(*                                                                          *)
(* A layout is a sequence of plain fields, one of which says how long the   *)
(* ciphertext or the whole record is, and a sequence of encrypted fields.   *)
(* The AEAD is taken as a tag behind its plaintext that marks where it ends.*)
(***************************************************************************)
EXTENDS Integers, Sequences, SequencesExt

CONSTANTS
  Layouts,       \* the layouts to try
  Payloads,      \* what their messages carry
  Pads,          \* how much padding is drawn
  PrefixedSizes, \* how long a field comes out that says so itself
  MaxRest        \* what a stream may announce behind the plain fields: 1<<26

\* A field that is no number has the kind "fixed" or "prefixed"; the size of a
\* prefixed one is that of the prefix.
LayoutFields ==
  [kind : {"length", "pad", "fixed", "prefixed"}, size : Nat \ {0},
   endian : {"big", "little"}]

ASSUME LayoutsAssumption ==
  /\ Layouts \subseteq
       [plain : Seq(LayoutFields), lengthAt : Nat, subject : {"ciphertext", "record"},
        enc : Seq(LayoutFields), carries : BOOLEAN, padded : BOOLEAN, alone : BOOLEAN]
  /\ Payloads \subseteq Seq(Nat) /\ Pads \subseteq Nat /\ PrefixedSizes \subseteq Nat
  /\ MaxRest \in Nat

Byte == 256
SealTag == <<-1, -1>>
Failed == <<-2>>

------------------------------------------------------------------------------
(* Integers *)

\* v, shifted right by 0 to width bytes
Shifted(v, width) ==
  LET left[k \in 0..width] == IF k = 0 THEN v ELSE left[k - 1] \div Byte IN left

Fits(v, width) == Shifted(v, width)[width] = 0

\* encodeInt of a value that fits, PutUint16 of one that may not
EncodeInt(v, width, endian) ==
  LET little == [i \in 1..width |-> Shifted(v, width)[i - 1] % Byte]
  IN IF endian = "big" THEN Reverse(little) ELSE little

\* decodeInt
DecodeInt(b, endian) ==
  LET big == IF endian = "big" THEN b ELSE Reverse(b)
      value[k \in 0..Len(b)] == IF k = 0 THEN 0 ELSE value[k - 1] * Byte + big[k]
  IN value[Len(b)]

------------------------------------------------------------------------------
(* Layouts *)

Indices(fields, kind) == {i \in DOMAIN fields : fields[i].kind = kind}

\* validateMessageReturning: one length field, where the layout says it is, and
\* one pad_length field exactly when there is padding.
Valid(l) ==
  /\ Indices(l.plain, "length") = {l.lengthAt}
  /\ IF l.padded THEN \E i \in DOMAIN l.enc : Indices(l.enc, "pad") = {i}
                 ELSE Indices(l.enc, "pad") = {}

\* The offset behind the first 0, 1, ... fields of fixed size.
Offsets(fields) ==
  LET behind[k \in 0..Len(fields)] ==
        IF k = 0 THEN 0 ELSE behind[k - 1] + fields[k].size
  IN behind

\* plainFieldsSize
PlainSize(l) == Offsets(l.plain)[Len(l.plain)]

LengthField(l) == l.plain[l.lengthAt]

\* where it starts
LengthOffset(l) == Offsets(l.plain)[l.lengthAt - 1]

------------------------------------------------------------------------------
(* Encoding *)

Filler(n) == [i \in 1..n |-> 170]

\* encodeEncryptedField: a prefixed field says how long it came out.
EncodeField(f, pad, n) ==
  CASE f.kind = "pad" -> EncodeInt(pad, f.size, f.endian)
    [] f.kind = "prefixed" -> EncodeInt(n, f.size, "big") \o Filler(n)
    [] OTHER -> Filler(f.size)

\* The plaintext: fields, payload, padding; drawn is how long each prefixed field
\* comes out.
Plaintext(l, payload, pad, drawn) ==
  FlattenSeq([i \in DOMAIN l.enc |-> EncodeField(l.enc[i], pad, drawn[i])])
    \o payload \o Filler(pad)

\* encodePlainFields
PlainBytes(l, subject) ==
  FlattenSeq([i \in DOMAIN l.plain |->
    IF i = l.lengthAt THEN EncodeInt(subject, l.plain[i].size, l.plain[i].endian)
                      ELSE Filler(l.plain[i].size)])

\* What the length field says.
Subject(l, sealed) ==
  IF l.subject = "record" THEN PlainSize(l) + Len(sealed) ELSE Len(sealed)

\* Encode: refused are a payload in a message that has none, and a number too
\* large for its field.
Encode(l, payload, pad, drawn) ==
  LET sealed == Plaintext(l, payload, pad, drawn) \o SealTag
  IN IF \/ ~l.carries /\ payload # <<>>
        \/ \E i \in Indices(l.enc, "pad") : ~Fits(pad, l.enc[i].size)
        \/ ~Fits(Subject(l, sealed), LengthField(l).size)
     THEN Failed
     ELSE PlainBytes(l, Subject(l, sealed)) \o sealed

\* splitSegments: the length alone, and what stands before it, if anything does
Segments(l, frame) ==
  LET before == LengthOffset(l)
      after == before + LengthField(l).size
      number == SubSeq(frame, before + 1, after)
      rest == SubSeq(frame, after + 1, Len(frame))
  IN IF ~l.alone THEN <<frame>>
     ELSE IF before = 0 THEN <<number, rest>> ELSE <<SubSeq(frame, 1, before), number, rest>>

------------------------------------------------------------------------------
(* Decoding *)

Declared(l, bytes) ==
  LET at == LengthOffset(l)
  IN DecodeInt(SubSeq(bytes, at + 1, at + LengthField(l).size), LengthField(l).endian)

FrameEndAtLength(l, bytes) ==
  IF l.subject = "record" THEN Declared(l, bytes)
  ELSE LengthOffset(l) + LengthField(l).size + Declared(l, bytes)

\* Where the frame ends that starts these bytes; every plain field counts, also
\* the ones that follow the length field.
FrameEnd(l, bytes) ==
  IF l.subject = "record" THEN Declared(l, bytes)
                          ELSE PlainSize(l) + Declared(l, bytes)

\* DeclaredFrame, of a datagram that may have a tail
DeclaredFrame(l, bytes) ==
  IF \/ Len(bytes) < PlainSize(l)
     \/ FrameEnd(l, bytes) < PlainSize(l)
     \/ FrameEnd(l, bytes) > Len(bytes)
  THEN Failed ELSE SubSeq(bytes, 1, FrameEnd(l, bytes))

\* ReadFrame, of a stream that these bytes start: it also has a bound.
ReadFrame(l, bytes) ==
  IF Len(bytes) >= PlainSize(l) /\ FrameEnd(l, bytes) - PlainSize(l) > MaxRest
  THEN Failed ELSE DeclaredFrame(l, bytes)

\* What a field takes from the front of the plaintext: decodeEncryptedField.
Taken(f, buf) ==
  IF f.kind = "prefixed"
    THEN f.size + DecodeInt(SubSeq(buf, 1, f.size), "big") ELSE f.size

\* The offset behind the first 0, 1, ... encrypted fields.
Behind(l, pt) ==
  LET behind[k \in 0..Len(l.enc)] ==
        IF k = 0 THEN 0
        ELSE behind[k - 1] + Taken(l.enc[k], SubSeq(pt, behind[k - 1] + 1, Len(pt)))
  IN behind

StatedPad(l, pt) ==
  IF Indices(l.enc, "pad") = {} THEN 0
  ELSE LET i == CHOOSE i \in Indices(l.enc, "pad") : TRUE
           at == Behind(l, pt)[i - 1]
       IN DecodeInt(SubSeq(pt, at + 1, at + l.enc[i].size), l.enc[i].endian)

\* decodeAt: the payload of one whole frame.
Decode(l, frame) ==
  LET sealed == SubSeq(frame, PlainSize(l) + 1, Len(frame))
      pt == SubSeq(sealed, 1, Len(sealed) - Len(SealTag))
      from == Behind(l, pt)[Len(l.enc)]
      upTo == Len(pt) - StatedPad(l, pt)
  IN IF \/ Len(frame) < PlainSize(l)
        \/ FrameEnd(l, frame) # Len(frame)
        \/ sealed # pt \o SealTag
        \/ upTo < from
        \/ ~l.carries /\ from # upTo
     THEN Failed ELSE SubSeq(pt, from + 1, upTo)

------------------------------------------------------------------------------
(* Properties *)

\* How long the prefixed fields may come out: a prefix holds its field's length.
PrefixDraws(l) ==
  {d \in [Indices(l.enc, "prefixed") -> PrefixedSizes] :
     \A i \in DOMAIN d : Fits(d[i], l.enc[i].size)}

\* Whatever layout compiles, in whatever order its fields stand: a frame decodes
\* to the payload it was made of; a reader finds its end in a stream of segments
\* with another frame behind it, unless it is longer than a reader takes, and in a
\* datagram with a tail; and a datagram that was cut short does not decode.
RoundTrip ==
  \A l \in {l \in Layouts : Valid(l)}, payload \in Payloads :
  \A pad \in IF l.padded THEN Pads ELSE {0}, drawn \in PrefixDraws(l) :
    LET frame == Encode(l, payload, pad, drawn)
        stream == FlattenSeq(Segments(l, frame))
    IN frame # Failed =>
         /\ Decode(l, frame) = payload
         /\ ReadFrame(l, stream \o frame) =
              IF Len(frame) - PlainSize(l) > MaxRest THEN Failed ELSE frame
         /\ DeclaredFrame(l, frame \o Filler(4)) = frame
         /\ DeclaredFrame(l, SubSeq(frame, 1, Len(frame) - 1)) = Failed
==============================================================================
