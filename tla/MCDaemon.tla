------------------------------ MODULE MCDaemon ------------------------------
(***************************************************************************)
(* Values of the constants of Daemon for TLC: two sessions of one client,   *)
(* behind one address of its own, that may come from one host: what a       *)
(* client that has roamed leaves behind, and what takes its place; and two  *)
(* clients that fall back on the first address of a pool that has room for  *)
(* both.                                                                     *)
(***************************************************************************)
EXTENDS Daemon, TLC

CONSTANTS s1, s2, alice

Setup(k1, k2, assigns, keepalive, transports) ==
  [kind |-> [s \in Sessions |-> IF s = s1 THEN k1 ELSE k2],
   assigns |-> assigns, clients |-> 1, local |-> [s \in Sessions |-> alice],
   keepalive |-> keepalive, transports |-> transports, ports |-> 2]

SetupsTried ==
  {Setup("udp", "tcp", TRUE, TRUE, <<"udp", "tcp">>),
   Setup("udp", "http", FALSE, FALSE, <<"http", "udp">>),
   Setup("tcp", "tcp", FALSE, FALSE, <<"tcp">>),
   Setup("tcp", "tcp", FALSE, FALSE, <<"tcp", "udp", "websocket">>),
   [Setup("udp", "udp", TRUE, FALSE, <<"udp">>) EXCEPT
      !.clients = 2, !.local = [s \in Sessions |-> 0]]}

OneHost == [s \in Sessions |-> "198.51.100.1"]
===============================================================================
