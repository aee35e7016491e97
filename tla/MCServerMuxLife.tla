--------------------------- MODULE MCServerMuxLife ---------------------------
(***************************************************************************)
(* The life of a session of ServerMux for TLC, and the values of the        *)
(* constants of Keepalive and Decoys.  What these two say is about all the  *)
(* ways one session, or one probe, can fare: here it is said of the states  *)
(* in which there is one.                                                   *)
(***************************************************************************)
EXTENDS MCServerMux, Keepalive, Decoys

\* Keepalive intervals, 25 s being 8 sweeps, and idle timeouts.
Intervals == {-4, 0, 4, 12}
Timeouts == {0, 20}

\* Up to seven requests within two seconds, each not before the last.
Requests ==
  LET upTo[n \in 0..7] ==
        IF n = 0 THEN {<<0>>}
        ELSE upTo[n - 1] \cup {Append(q, q[Len(q)] + t) : q \in upTo[n - 1], t \in {0, 1, 3}}
  IN {q \in upTo[6] : Len(q) > 4}

FrameSizes == {0, 1, 40, 399, 400, 401, 1200, 1201, 1500}
NoiseSettings == [every : {0, 1, 2}, maxPerSec : {0, 1, 3}]

------------------------------------------------------------------------------
(* Properties *)

\* The keepalives of a session that is open keep its path open and, as far as
\* the two intervals allow, each end from taking the other for gone (Keepalive,
\* tunnel.go and mux.go).
IdleSessionKept == (\E h \in Ids : status[h] = "open") => IdleLinkKept

\* Whoever probes a mux gets little for it, and the noise on its sessions stays
\* within what is configured (Decoys, decoy.go and txmask.go).
ChaffBounded == reader.pc # "exited" /\ made > 0 => ProbesAnsweredLittle /\ NoiseBounded
===============================================================================
