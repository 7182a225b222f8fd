---------------------------- MODULE MCUdpTransport ----------------------------
(***************************************************************************)
(* UdpTransport with at most two sessions and a few sockets.               *)
(***************************************************************************)
EXTENDS UdpTransport
=============================================================================
