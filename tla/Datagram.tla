------------------------------ MODULE Datagram ------------------------------
(***************************************************************************)
(* What one direction of an established Chimera session promises to the    *)
(* two ends, with none of the machinery: the sender numbers its frames,    *)
(* the receiver takes each number at most once and never one below a floor *)
(* that only rises.  The promise has one hole, which the sender opens: when *)
(* it asks the receiver to give up on a gap, the receiver forgets which    *)
(* frames at or above the new floor it has already taken.                  *)
(*                                                                         *)
(* PacketChannel implements this specification in each direction.          *)
(***************************************************************************)
EXTENDS Integers

VARIABLES
  sent,   \* how many frames the sender has numbered; the next number is sent
  floor,  \* the receiver takes no frame below this number
  got     \* the frames taken since the receiver last gave up on a gap

vars == <<sent, floor, got>>

Init ==
  /\ sent = 0
  /\ floor = 0
  /\ got = {}

Emit ==
  /\ sent' = sent + 1
  /\ UNCHANGED <<floor, got>>

\* Frames the receiver may take now: numbered, not below the floor, not taken.
Open == {s \in floor..(sent - 1) : s \notin got}

\* The floor moves up only over frames that have been taken.
Take ==
  /\ \E s \in Open : got' = got \cup {s}
  /\ \E n \in 0..sent :
       /\ n >= floor
       /\ \A m \in floor..(n - 1) : m \in got'
       /\ floor' = n
  /\ UNCHANGED sent

\* The receiver takes a frame that tells it to give up on what precedes it.
GiveUp ==
  /\ \E s \in Open : s > floor /\ floor' = s
  /\ got' = {}
  /\ UNCHANGED sent

Next == Emit \/ Take \/ GiveUp

Spec == Init /\ [][Next]_vars
=============================================================================
