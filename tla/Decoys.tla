-------------------------------- MODULE Decoys --------------------------------
(***************************************************************************)
(* Datagrams that carry nothing: the decoy replies of the multiplexer to    *)
(* probes (internal/tunnel/decoy.go), the noise mixed into the writes of a  *)
(* session (txmask.go), and the delay each of them is sent with (jitter.go).*)
(*                                                                          *)
(* Time is counted in ticks, a Second to the second.  What is asked for     *)
(* over time is a sequence of times, in order.                              *)
(***************************************************************************)
EXTENDS Integers, Sequences, FiniteSetsExt

CONSTANTS
  Second,         \* ticks of a second
  MaxDecoyPerSec, \* decoy replies per second
  Sizes,          \* sizes of probes and decoys to try
  Noises,         \* settings of the noise mask to try: [every, maxPerSec]
  Asked           \* sequences of times at which something may be sent

ASSUME DecoyAssumption ==
  /\ Second \in Nat \ {0}
  /\ MaxDecoyPerSec \in Nat \ {0}
  /\ Sizes \subseteq Nat
  /\ \A n \in Noises : n.every \in Int /\ n.maxPerSec \in Int /\ n.maxPerSec <= Second
  /\ Asked \subseteq Seq(Nat)
  /\ \A q \in Asked : \A i \in 2..Len(q) : q[i - 1] <= q[i]

MaxDecoyBytes == 1200
DecoyAmpRatio == 3
MaxDecoyBurst == 8

\* SetJitter, WithJitter, jitterDelay: at most the maximum, and at most a second.
Delays(max) == IF max <= 0 THEN {0} ELSE 0..max

------------------------------------------------------------------------------
(* Decoy replies *)

\* allowDecoySize
AllowDecoySize(probe, decoy) ==
  /\ decoy > 0
  /\ decoy <= MaxDecoyBytes
  /\ decoy <= DecoyAmpRatio * probe

\* maybeDecoy: how many frames one exchange asks for, none more when the first
\* is declined.
Burst(configured) ==
  CASE configured < 1 -> 1
    [] configured > MaxDecoyBurst -> MaxDecoyBurst
    [] OTHER -> configured

\* A mux that was never asked has a window that began long ago.
NoTokens == [start |-> -Second, count |-> 0]

\* A change for the worse of Window: it is emptied and not moved on.
WindowStuck(w, now) ==
  IF now - w.start >= Second THEN [w EXCEPT !.count = 0] ELSE w

Window(w, now) ==
  IF now - w.start >= Second THEN [start |-> now, count |-> 0] ELSE w

\* takeDecoyTokenLocked: the windows follow one another, each from the first
\* request that comes after the last.
Granted(w, now) == Window(w, now).count < MaxDecoyPerSec

TakeDecoyToken(w, now) ==
  IF Granted(w, now) THEN [Window(w, now) EXCEPT !.count = @ + 1] ELSE Window(w, now)

\* The requests that are granted.
Replies(q) ==
  LET w[i \in 0..Len(q)] ==
        IF i = 0 THEN NoTokens ELSE TakeDecoyToken(w[i - 1], q[i])
  IN {i \in DOMAIN q : Granted(w[i - 1], q[i])}

------------------------------------------------------------------------------
(* The noise mask *)

\* NewNoiseTxMask
Masks(noise) == noise.every > 0 /\ noise.maxPerSec > 0

\* Every every-th write asks, and decoyAllowed keeps the gap between two.
WriteTo(c, now, noise) ==
  LET written == c.written + 1
      noisy == written % noise.every = 0 /\ now - c.last >= Second \div noise.maxPerSec
  IN [written |-> written, last |-> IF noisy THEN now ELSE c.last, noisy |-> noisy]

\* The writes that noise follows.
NoisyWrites(q, noise) ==
  LET c[i \in 0..Len(q)] ==
        IF i = 0 THEN [written |-> 0, last |-> -Second, noisy |-> FALSE]
                 ELSE WriteTo(c[i - 1], q[i], noise)
  IN IF Masks(noise) THEN {i \in DOMAIN q : c[i].noisy} ELSE {}

------------------------------------------------------------------------------
(* Properties *)

\* What can be on the wire within a second from t, of frames sent at q[i] with
\* the delay of the jitter.
Within(sent, q, t, max) ==
  {i \in sent : \E d \in Delays(max) : t <= q[i] + d /\ q[i] + d < t + Second}

Moments(q) == {q[i] : i \in DOMAIN q}

\* A probe is never answered with more than a burst of three times its size, and
\* a frame of it never exceeds 1200 bytes; and whoever asks, and when, no second
\* sees more than two windows' worth of replies of one multiplexer, or three when
\* the jitter holds back for up to a second.
ProbesAnsweredLittle ==
  /\ \A probe \in Sizes, decoy \in Sizes, burst \in -1..(MaxDecoyBurst + 1) :
       AllowDecoySize(probe, decoy) =>
         decoy * Burst(burst) <= MaxDecoyBurst * Min({MaxDecoyBytes, DecoyAmpRatio * probe})
  /\ \A q \in Asked : \A t \in Moments(q) :
       /\ Cardinality(Within(Replies(q), q, t, 0)) <= 2 * MaxDecoyPerSec
       /\ Cardinality(Within(Replies(q), q, t, Second)) <= 3 * MaxDecoyPerSec

\* Noise never follows more than one in so many writes, nor makes more than so
\* many datagrams a second, one more where the second is not a multiple of the gap.
NoiseBounded ==
  \A noise \in {n \in Noises : Masks(n)} : \A q \in Asked :
    LET noisy == NoisyWrites(q, noise)
        gap == Second \div noise.maxPerSec
    IN /\ Cardinality(noisy) * noise.every <= Len(q)
       /\ \A t \in Moments(q) :
            (Cardinality(Within(noisy, q, t, 0)) - 1) * gap < Second
==============================================================================
