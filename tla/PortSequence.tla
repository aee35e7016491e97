----------------------------- MODULE PortSequence -----------------------------
(***************************************************************************)
(* hopPortsForConfig of core/porthop.go: the ports both ends derive from    *)
(* the seed and a generation.  The HMAC of a generation and a counter is    *)
(* the constant operator Draw.  The list is sorted before use, so a set     *)
(* stands for it; the smallest port, not the base port, is dialed first.    *)
(***************************************************************************)
EXTENDS Integers, FiniteSets

CONSTANTS
  BasePort,   \* the configured port
  Spread,     \* PortHopSpread
  LowPort,    \* 1024, where candidates past the end continue
  HighPort,   \* 65535
  MaxDraws,   \* 4096, the candidates tried
  Draw(_, _)  \* of a generation and a counter

ASSUME PortAssumption ==
  /\ LowPort \in Nat /\ BasePort \in LowPort .. HighPort
  /\ Spread \in Nat \ {0, 1}
  /\ MaxDraws \in Nat

Candidate(gen, k) ==
  LET c == BasePort + (Draw(gen, k) % (Spread - 1)) + 1 IN
  IF c > HighPort THEN LowPort + ((c - LowPort) % (HighPort - LowPort + 1)) ELSE c

\* The ports after so many candidates.
Found(count, gen) ==
  LET found[k \in 0 .. MaxDraws] ==
        IF k = 0 THEN {BasePort}
        ELSE LET ports == found[k - 1] IN
             IF Cardinality(ports) < count THEN ports \cup {Candidate(gen, k - 1)} ELSE ports
  IN found[MaxDraws]

\* Without hopping the configured port; no ports at all if there are not enough.
Ports(count, gen) ==
  IF count <= 1 THEN {BasePort}
  ELSE LET ports == Found(count, gen) IN IF Cardinality(ports) < count THEN {} ELSE ports
===============================================================================
