---------------------------- MODULE MCPacketChannel ----------------------------
(***************************************************************************)
(* Values of the constants of PacketChannel for TLC.                       *)
(***************************************************************************)
EXTENDS PacketChannel

CONSTANTS ClientSenders, ServerSenders, ClientFrames, ServerFrames

PerPeer(c, s) == [p \in Peers |-> IF p = "client" THEN c ELSE s]

MCSenders == PerPeer(ClientSenders, ServerSenders)
MCMaxFrames == PerPeer(ClientFrames, ServerFrames)

\* Everything may be lost.
AllLosable == PerPeer(0..(ClientFrames - 1), 0..(ServerFrames - 1))

\* Exactly two of the server's frames may be lost: its first data frame and
\* the frame that carries its first SKIP.
FirstAndSkipLosable == PerPeer({}, {0, SkipSpan})
\* A network that only duplicates and reorders.
NothingLosable == PerPeer({}, {})
================================================================================
