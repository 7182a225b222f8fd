-------------------------- MODULE MCPcmSinkRouter --------------------------
(* A router for TLC: a queue of two samples and blocks of one and three, so *)
(* that a block is cut when it is offered and again when it is the oldest.  *)
EXTENDS PcmSinkRouter

MCSizes == {1, 3}
=============================================================================
