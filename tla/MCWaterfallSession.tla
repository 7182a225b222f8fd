------------------------- MODULE MCWaterfallSession -------------------------
(***************************************************************************)
(* WaterfallSession with two leases, two losses of the transport and a     *)
(* session that fails on its second consecutive miss.                      *)
(***************************************************************************)
EXTENDS WaterfallSession
=============================================================================
