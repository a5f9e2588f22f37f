----------------------------- MODULE MCHostMode -----------------------------
(***************************************************************************)
(* HostMode with the main loop as the only caller of setMode.  Four        *)
(* protocols stand for eight: DMR, the only one with a carrier, a beacon   *)
(* and a second timer; M17, the only one whose frames are taken without    *)
(* being enabled; POCSAG, switched on unconditionally and without frames   *)
(* from the air; D-Star for the five that are alike.                       *)
(***************************************************************************)
EXTENDS HostMode

MCThreads == {"main"}
MCOne     == {"DMR"}
MCTwo     == {"DMR", "D-Star"}
MCFour    == {"DMR", "D-Star", "M17", "POCSAG"}

=============================================================================
