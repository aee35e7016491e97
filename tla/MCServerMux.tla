----------------------------- MODULE MCServerMux -----------------------------
(***************************************************************************)
(* Values of the constants of ServerMux for TLC.                           *)
(***************************************************************************)
EXTENDS ServerMux, TLC

\* Patterns of genome/generator.go.
CS == <<"c", "s">>
CSC == <<"c", "s", "c">>
SC == <<"s", "c">>
CSCS == <<"c", "s", "c", "s">>

\* Addresses are interchangeable.
AddrSymmetry == Permutations(Addrs)
===============================================================================
