------------------------------ MODULE AddressPool ------------------------------
(***************************************************************************)
(* The pool of core/assign.go: how many addresses it has, a bit for every   *)
(* one and the place where the next search starts.  Address i stands for    *)
(* the host offset i + 2 of client_cidr (addressPool.ipString, index).      *)
(***************************************************************************)
EXTENDS Integers, FiniteSets

CONSTANT PoolSize  \* usable addresses of the largest client_cidr

ASSUME PoolAssumption == PoolSize \in Nat \ {0}

Addresses == 0 .. PoolSize - 1

NewPool(count) == [count |-> count, bits |-> {}, nextHint |-> 0]

Free(p) == (0 .. p.count - 1) \ p.bits

Exhausted(p) == Free(p) = {}

\* How far from the hint the search comes to address i.
Distance(p, i) == (i - p.nextHint) % p.count

NextFree(p) ==
  CHOOSE i \in Free(p) : \A j \in Free(p) : Distance(p, i) <= Distance(p, j)

AllocatedUnmarked(p) == [p EXCEPT !.nextHint = (NextFree(p) + 1) % p.count]

\* Allocate, of a pool that is not exhausted
Allocated(p) ==
  LET i == NextFree(p) IN
  [count |-> p.count, bits |-> p.bits \cup {i}, nextHint |-> (i + 1) % p.count]

\* Release
Released(p, i) ==
  [count |-> p.count, bits |-> p.bits \ {i},
   nextHint |-> IF i < p.nextHint THEN i ELSE p.nextHint]
===============================================================================
