-------------------------------- MODULE Leases --------------------------------
(***************************************************************************)
(* What the server's address pool promises: an address has one holder, a    *)
(* session is granted an address once, and one is refused only while every  *)
(* address is held.  Daemon implements this specification.                  *)
(***************************************************************************)
EXTENDS Integers

CONSTANTS
  Sessions,   \* client sessions
  Addresses,  \* the addresses client_cidr may have
  NoLease     \* no address

VARIABLES
  free,    \* the addresses nobody holds
  held,    \* the address each session holds, or NoLease
  before,  \* the sessions that have given theirs back
  refused  \* the sessions that found none

vars == <<free, held, before, refused>>

Init ==
  /\ free \in SUBSET Addresses
  /\ held = [s \in Sessions |-> NoLease]
  /\ before = {}
  /\ refused = {}

New(s) == held[s] = NoLease /\ s \notin before \cup refused

Grant(s) ==
  /\ New(s)
  /\ \E a \in free :
       /\ held' = [held EXCEPT ![s] = a]
       /\ free' = free \ {a}
  /\ UNCHANGED <<before, refused>>

Return(s) ==
  /\ held[s] # NoLease
  /\ held' = [held EXCEPT ![s] = NoLease]
  /\ free' = free \cup {held[s]}
  /\ before' = before \cup {s}
  /\ UNCHANGED refused

Refuse(s) ==
  /\ New(s)
  /\ free = {}
  /\ refused' = refused \cup {s}
  /\ UNCHANGED <<free, held, before>>

Next == \E s \in Sessions : Grant(s) \/ Return(s) \/ Refuse(s)

Spec == Init /\ [][Next]_vars
===============================================================================
