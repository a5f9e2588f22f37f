---------------------------- MODULE MCHostRemote ----------------------------
(***************************************************************************)
(* HostRemote with DMR, the protocol that has a downlink.                  *)
(***************************************************************************)
EXTENDS HostRemote

MCThreads == {"main", "mqtt"}
MCOne     == {"DMR"}

=============================================================================
