-------------------------------- MODULE Covers --------------------------------
(***************************************************************************)
(* The cover of a handshake datagram, printable bytes before its encrypted   *)
(* frame (internal/compiler/cover.go), and the test of a flow's first bytes  *)
(* it is there for (fep.go).  Bytes are numbers.  Of the ten beginnings      *)
(* that fep.go takes for HTTP or SSH two are kept, "GET " and "POST".        *)
(***************************************************************************)
EXTENDS Integers, Sequences, FiniteSetsExt

CONSTANTS
  Lengths, \* of covers to try, from CoverLen
  Marks,   \* probe marks to configure, one of them empty
  Frames   \* encrypted frames to cover

Printable(b) == b \in 32..126

ASSUME CoverAssumption ==
  /\ Lengths \subseteq 24..32
  /\ \A q \in Marks \cup Frames : q \in Seq(0..255)

------------------------------------------------------------------------------
(* The test *)

Get == <<71, 69, 84, 32>>
Post == <<80, 79, 83, 84>>
Methods == {Get, Post}

Begins(q, start) == Len(q) >= Len(start) /\ SubSeq(q, 1, Len(start)) = start

LooksLikeHTTP(q) == \E m \in Methods : Begins(q, m)
LooksLikeTLS(q) == Len(q) >= 3 /\ q[1] = 22 /\ q[2] = 3 /\ q[3] <= 4

OnesCount(b) == Cardinality({i \in 0..7 : (b \div 2^i) % 2 = 1})
Ones(q) == MapThenSumSet(LAMBDA i : OnesCount(q[i]), DOMAIN q)

\* FEPExemption, rule by rule: bits per byte outside 3.4 to 4.6, the first six
\* bytes printable, more than half of all, more than twenty in a row, or the
\* beginning of another protocol.
Rules(q) ==
  LET ones == 10 * Ones(q)
      printable == {i \in DOMAIN q : Printable(q[i])}
  IN {r \in 1..5 :
        \/ r = 1 /\ (ones <= 34 * Len(q) \/ ones >= 46 * Len(q))
        \/ r = 2 /\ Len(q) >= 6 /\ 1..6 \subseteq printable
        \/ r = 3 /\ 2 * Cardinality(printable) > Len(q)
        \/ r = 4 /\ \E i \in printable : i..(i + 20) \subseteq printable
        \/ r = 5 /\ (LooksLikeTLS(q) \/ LooksLikeHTTP(q))}

FEPExemption(q) == q = <<>> \/ Rules(q) # {}

------------------------------------------------------------------------------
(* The cover *)

\* Four printable bytes that may begin as the methods do, and letters.
Drawn(n) ==
  {[i \in 1..n |-> IF i <= 4 THEN start[i] ELSE 97] :
     start \in {71, 80, 97} \X {69, 79, 97} \X {84, 83, 97} \X {32, 84, 97}}

\* Letters in order, when nothing can be drawn, or nothing else in 32 tries.
Letters(n) == [i \in 1..n |-> 97 + ((i - 1) % 26)]

RandomPrintableUnchecked(n) == Drawn(n) \cup {Letters(n)}

RandomPrintable(n) ==
  {q \in Drawn(n) : ~LooksLikeHTTP(q) /\ ~LooksLikeTLS(q)} \cup {Letters(n)}

\* ValidateProbeMark
ValidMark(mark) == Len(mark) <= 16 /\ \A i \in DOMAIN mark : mark[i] \in 33..126

\* WrapHandshakeDatagram: the mark is written over what was drawn.
Marked(cover, mark) ==
  IF Len(cover) >= Len(mark) THEN mark \o SubSeq(cover, Len(mark) + 1, Len(cover)) ELSE cover

WrapDatagram(n, mark, frame) == {Marked(c, mark) \o frame : c \in RandomPrintable(n)}

\* UnwrapHandshakeDatagram
Unwrap(n, wire) == SubSeq(wire, n + 1, Len(wire))

------------------------------------------------------------------------------
(* Property *)

\* A mark that begins like a method, or that a method begins like.
Spells(mark) ==
  mark # <<>> /\ \E m \in Methods : \A i \in DOMAIN mark : i <= 4 => mark[i] = m[i]

\* However the cover comes out and whatever valid mark is written over it, the
\* datagram passes the test by its first bytes, never reads as another protocol
\* unless the mark itself begins so, and gives its frame back.
CoversExempt ==
  \A n \in Lengths, mark \in {k \in Marks : ValidMark(k)}, frame \in Frames :
    \A wire \in WrapDatagram(n, mark, frame) :
      /\ FEPExemption(wire) /\ 2 \in Rules(wire) /\ 4 \in Rules(wire)
      /\ 5 \in Rules(wire) => Spells(mark)
      /\ Unwrap(n, wire) = frame
===============================================================================
