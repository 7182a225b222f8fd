--------------------------- MODULE MCDaemonRuntime ---------------------------
(***************************************************************************)
(* DaemonRuntime with one or two controls and a link that fails once or    *)
(* twice.                                                                  *)
(***************************************************************************)
EXTENDS DaemonRuntime
=============================================================================
