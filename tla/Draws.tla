--------------------------------- MODULE Draws ---------------------------------
(***************************************************************************)
(* The choices a generated protocol is made of: the deterministic byte       *)
(* stream of internal/drbg, what is drawn from it, and the beginning of      *)
(* genome/generator.go, where a cipher may be forced.                        *)
(*                                                                          *)
(* A word of the stream has WordBits bits, which are 64, and a block BlockLen *)
(* bytes, which are 32.                                                     *)
(***************************************************************************)
EXTENDS Integers, Sequences, FiniteSetsExt, SequencesExt

CONSTANTS
  WordBits, BlockLen,
  ReadSizes, \* sizes of the reads to try
  SampleWords    \* words to make streams of

\* 2^0, 2^1, ... up to the number of all words
Powers ==
  LET power[k \in 0..WordBits] == IF k = 0 THEN 1 ELSE 2 * power[k - 1] IN power

Words == 0..(Powers[WordBits] - 1)

ASSUME DrawsAssumption ==
  /\ WordBits \in Nat /\ WordBits >= 9 /\ BlockLen \in Nat \ {0}
  /\ ReadSizes \subseteq Nat
  /\ SampleWords \subseteq Words

\* The sums of the first 0, 1, ... numbers.
Sums(numbers) ==
  LET sum[k \in 0..Len(numbers)] == IF k = 0 THEN 0 ELSE sum[k - 1] + numbers[k] IN sum

Total(numbers) == Sums(numbers)[Len(numbers)]

------------------------------------------------------------------------------
(* The stream: drbg.go.  A byte is told by its place in it.                  *)

\* block, n times, behind so many blocks.
Blocks(from, n) == [i \in 1..(n * BlockLen) |-> from * BlockLen + i]

New == [made |-> 0, buf |-> <<>>]

\* Read: what is left of the last block comes first.
Read(r, n) ==
  LET short == n - Len(r.buf)
      more == IF short <= 0 THEN 0 ELSE (short + BlockLen - 1) \div BlockLen
      all == r.buf \o Blocks(r.made, more)
  IN [bytes |-> SubSeq(all, 1, n),
      r |-> [made |-> r.made + more, buf |-> SubSeq(all, n + 1, Len(all))]]

\* What a read gives joins what those before it gave.
Joined(acc, one) == [bytes |-> acc.bytes \o one.bytes, r |-> one.r]

\* 0, 1, ... reads, one after the other.
Reads(sizes) ==
  LET after[k \in 0..Len(sizes)] ==
        IF k = 0 THEN [bytes |-> <<>>, r |-> New]
        ELSE Joined(after[k - 1], Read(after[k - 1].r, sizes[k]))
  IN after

------------------------------------------------------------------------------
(* Draws.  Each gives a value and the rest of the words.                     *)

\* Intn: the smallest mask that holds n - 1, of one bit at least.
MaskOf(n) == Min({Powers[k] - 1 : k \in {j \in 1..WordBits : Powers[j] >= n}})

Masked(w, n) == w % (MaskOf(n) + 1)

Kept(n, words) == {i \in DOMAIN words : Masked(words[i], n) < n}

Intn(n, words) ==
  LET i == Min(Kept(n, words))
  IN [value |-> Masked(words[i], n), rest |-> SubSeq(words, i + 1, Len(words))]

\* choose, rangeChoice: what can only come out one way is not drawn.
Choose(n, words) == IF n <= 1 THEN [value |-> 0, rest |-> words] ELSE Intn(n, words)

RangeChoice(lo, hi, words) ==
  IF hi <= lo THEN [value |-> lo, rest |-> words]
  ELSE LET d == Intn(hi - lo, words) IN [d EXCEPT !.value = lo + @]

\* Sizes of certificates, of extra fields, of padding.
Ranges == {<<64, 449>>, <<4, 61>>, <<0, 33>>, <<1, 257>>}

\* PickWeighted: the index in whose stretch x lies.
Index(weights, x) ==
  Min({i \in DOMAIN weights : x < Sums(weights)[i]})

PickWeighted(weights, words) ==
  LET d == Intn(Total(weights), words) IN [d EXCEPT !.value = Index(weights, @)]

Swapped(p, i, j) == [p EXCEPT ![i] = p[j], ![j] = p[i]]

\* Perm: js are the values of Intn(n), Intn(n - 1) ... Intn(2).
Perm(n, js) ==
  LET p[k \in 0..(n - 1)] ==
        IF k = 0 THEN [i \in 0..(n - 1) |-> i] ELSE Swapped(p[k - 1], n - k, js[k])
  IN p[n - 1]

PermDraws(n) == {js \in [1..(n - 1) -> 0..(n - 1)] : \A k \in 1..(n - 1) : js[k] <= n - k}

------------------------------------------------------------------------------
(* The beginning of a design: generate                                       *)

DrawnCiphers == <<"aes-128-gcm", "aes-192-gcm", "aes-256-gcm">>
CipherWeights == <<2, 1, 5>>
PatternWeights == <<3, 3, 3, 1, 1, 1>>
KnownCiphers == Range(DrawnCiphers) \cup {"chacha20-poly1305"}

\* The weights one message or another is drawn with.
Weights ==
  {CipherWeights, PatternWeights, <<9, 1>>, <<3, 1>>, <<3, 7>>, <<10, 90>>, <<35, 65>>,
   <<2, 3, 4, 3, 1>>, <<3, 2, 2, 1, 1>>, <<1, 3, 2, 2>>, <<4, 3, 1>>, <<1, 5, 2>>}

\* A forced cipher takes the place of the one that was drawn all the same.
AfterCipher(forced, words) ==
  LET c == PickWeighted(CipherWeights, words)
  IN [cipher |-> IF forced # "" THEN forced ELSE DrawnCiphers[c.value], rest |-> c.rest]

\* The messages are drawn from the rest.
Design(forced, words) ==
  LET c == AfterCipher(forced, words)
      p == PickWeighted(PatternWeights, c.rest)
  IN [cipher |-> c.cipher, pattern |-> p.value, messages |-> p.rest]

\* Streams long enough for both draws.
Streams ==
  {words \in [1..4 -> SampleWords] :
     LET first == Kept(Total(CipherWeights), words)
         second == Kept(Total(PatternWeights), words)
     IN first # {} /\ \E i \in second : i > Min(first)}

------------------------------------------------------------------------------
(* Properties *)

\* From one seed and generation comes one design: one that forces a cipher, as
\* a configuration file may, has all but the cipher in common with one that does
\* not; and no way of cutting the stream into reads, as a type field of one or
\* two bytes between two draws does, loses or repeats a byte of it.
DrawnAlike ==
  /\ \A words \in Streams, forced \in KnownCiphers :
       Design(forced, words) = [Design("", words) EXCEPT !.cipher = forced]
  /\ \A n \in 1..4 : \A sizes \in [1..n -> ReadSizes] :
       Reads(sizes)[n].bytes = [i \in 1..Total(sizes) |-> i]

\* Nothing about a design is more likely than it is said to be: each value
\* below n comes of equally many words, and half of the words give one; a range
\* is drawn from its lower end to before its upper; each index comes of as many
\* values as it weighs; and each order of the fields of one sequence of draws.
DrawnFairly ==
  /\ \A n \in 1..36 :
       LET ways(v) == Cardinality({w \in Words : Masked(w, n) = v})
       IN /\ \A v \in 0..(n - 1) : ways(v) = ways(0)
          /\ 2 * n * ways(0) >= Powers[WordBits]
  /\ \A r \in Ranges :
       {RangeChoice(r[1], r[2], <<w>>).value : w \in {v \in Words : Kept(r[2] - r[1], <<v>>) # {}}}
         = r[1]..(r[2] - 1)
  /\ \A weights \in Weights : \A i \in DOMAIN weights :
       Cardinality({x \in 0..(Total(weights) - 1) : Index(weights, x) = i}) = weights[i]
  /\ \A n \in 1..5 :
       {Perm(n, js) : js \in PermDraws(n)} =
         {p \in [0..(n - 1) -> 0..(n - 1)] : \A i, j \in 0..(n - 1) : p[i] = p[j] => i = j}
===============================================================================
