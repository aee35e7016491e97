------------------------------- MODULE MCImmune -------------------------------
(***************************************************************************)
(* Values of the constants of Immune for TLC, and of Openings, which says   *)
(* how the stream listeners treat those that come under each probe defence: *)
(* here it is said of the defence that is in force.                         *)
(***************************************************************************)
EXTENDS Immune, Openings

\* What NormalizeConfig leaves of a list of transports: the first is cfg.Transport.
StreamsFirst == <<"tcp">>
StreamsToo == <<"udp", "tcp">>
StreamsOrBoth == {StreamsFirst, StreamsToo}
StreamsOnly == {StreamsFirst}
NoStreams == {<<"udp">>}

\* 40 probes score elevated, twice that high, 200 attack; so do 20 replays.
EveryLevel == {[probes |-> 40, replays |-> 0], [probes |-> 0, replays |-> 20]}
OneProbing == {[probes |-> 5, replays |-> 0]}

\* Three connections to two ports, opened in every way.
PortsOfThree == {[c \in Conns |-> IF c = 3 THEN 8443 ELSE 443]}
Callers ==
  {[c \in Conns |-> [port |-> p[c], opens |-> o[c]]] :
     p \in PortsOfThree, o \in [Conns -> {"client", "hello", "other", "nothing"}]}
NoCallers == {}

\* The defences under which the doors are kept.
ModesKept == {mode \in Modes : DoorsKept(mode)}

\* Whatever the immune system has made of the probe defence, stream listeners
\* let in their own clients only, hold more decoys than StreamDecoyMaxPending only
\* where handlers look at the number beside each other, and let go of everyone
\* (Openings, core.go and stream_probe.go).
StreamDoorsKept == OnlyItsOwn /\ probeMode \in ModesKept
================================================================================
