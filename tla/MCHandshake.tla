----------------------------- MODULE MCHandshake -----------------------------
(***************************************************************************)
(* Values of the constants of StreamHandshake, Codec, Grammar, Covers and   *)
(* Draws for TLC.  What the last four say is about values, not states: here *)
(* it is said of the states in which some message is on its way.            *)
(***************************************************************************)
EXTENDS StreamHandshake, Codec, Grammar, Covers, Draws, TLC

\* patternTable of genome/generator.go.
PatternTable ==
  {<<"c", "s">>, <<"c", "s", "c">>, <<"c", "s", "c", "s">>, <<"c", "c", "s">>,
   <<"s", "c">>, <<"s", "c", "s">>}

AllTransports == {"udp", "tcp", "http"}

\* Clients and ports are interchangeable.
Symmetry == Permutations(Clients) \cup Permutations(Muxes)

Field(kind, size, endian) == [kind |-> kind, size |-> size, endian |-> endian]
Fixed(size) == Field("fixed", size, "big")

PlainFields ==
  {<<>>, <<Fixed(1)>>, <<Fixed(2), Fixed(1)>>}

LengthFields == {Field("length", w, e) : w \in 1..2, e \in {"big", "little"}}

\* Plain fields with the length field somewhere among them, or one too many.
WithLength ==
  UNION {{[plain |-> InsertAt(p, i, f), lengthAt |-> i] : i \in 1..(Len(p) + 1)} :
           p \in PlainFields \cup {<<Field("length", 2, "big")>>}, f \in LengthFields}

EncryptedFields ==
  LET pads == {Field("pad", w, e) : w \in 1..2, e \in {"big", "little"}}
      others == {<<>>, <<Fixed(2)>>, <<Field("prefixed", 1, "big")>>,
                 <<Fixed(1), Field("prefixed", 2, "big")>>}
  IN others \cup UNION {{InsertAt(o, i, p) : i \in 1..(Len(o) + 1)} :
                          o \in others, p \in pads}

SmallLayouts ==
  {[plain |-> p.plain, lengthAt |-> p.lengthAt, subject |-> s, enc |-> e,
    carries |-> c, padded |-> b, alone |-> a] :
     p \in WithLength, s \in {"ciphertext", "record"}, e \in EncryptedFields,
     a \in BOOLEAN, b \in BOOLEAN, c \in BOOLEAN}

SmallPayloads == {<<>>, <<1, 2, 3>>}

\* No mark, one that is a word of its own, two that begin like a method and one
\* that is none: it has a space.
ProbeMarks == {<<>>, <<97, 45, 98>>, Post \o <<33>>, <<71, 69>>, Get}

\* Encrypted bytes, as many bits set as not.
Encrypted == {[i \in 1..n |-> IF i % 2 = 0 THEN 240 ELSE 15] : n \in {1, 128}}

PacketSizes == {20, 40, 77, 400, 900, 1280, 1340, 1400}

------------------------------------------------------------------------------
(* Properties *)

InFlight ==
  \/ net # {}
  \/ \E c \in Clients : up[c].frames # <<>> \/ down[c].frames # <<>>

\* Whatever message is on its way can be read back by the other end, which has
\* drawn the same layout for itself, and no layout is favoured (Codec, Encode and
\* Decode of compiler/codec.go; Draws, genome/generator.go and drbg.go).
MessagesReadBack == InFlight => RoundTrip /\ DrawnAlike /\ DrawnFairly

\* The datagrams of a handshake have no size that attracts replays and begin as
\* printable text, the packets of the session it opens are padded onto the rungs of
\* the ladder, as far as their fields can say so, and every length field holds what
\* it has to say (Grammar and Covers, compiler/cover.go and packet.go).
TrafficShaped ==
  /\ net # {} => OutsideBand /\ CoversExempt
  /\ (\E c \in Clients : state[c] = "done") => OnARung
  /\ LengthFits
===============================================================================
