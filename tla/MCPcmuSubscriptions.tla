------------------------ MODULE MCPcmuSubscriptions ------------------------
(* A small instance of PcmuSubscriptions for TLC. *)
EXTENDS PcmuSubscriptions
CONSTANTS s1, s2, g1, g2

\* Packets of different sizes, one of them tried too large.
MCPayloadSizes == <<{1}, {2, 3}, {1}>>
=============================================================================
