-------------------------- MODULE MCRecordingEvents --------------------------
(* A recording manager, its event stream and two clients for TLC; the       *)
(* clients are alike. *)
EXTENDS RecordingEvents, TLC

MCClients == Permutations(Clients)
=============================================================================
