---------------------------- MODULE MCLifecycle -----------------------------
(***************************************************************************)
(* Lifecycle with three runs of the host and two signals: SIGHUP, which    *)
(* restarts, and SIGTERM for the two that end.                             *)
(***************************************************************************)
EXTENDS Lifecycle

TermHup == {1, 15}
Dmr     == {"dmr"}
All     == {"RELOAD", "mode", "display"}
MayFail == {"conf", "mqtt", "modem", "networks"}

=============================================================================
