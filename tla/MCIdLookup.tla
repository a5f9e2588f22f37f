----------------------------- MODULE MCIdLookup -----------------------------
(***************************************************************************)
(* IdLookup with five files one after the other: one with two entries, one *)
(* that is empty, one that is missing, and one entry in the first and in   *)
(* the last.                                                               *)
(***************************************************************************)
EXTENDS IdLookup, TLC

MCLines == (0 :> 0) @@ (1 :> 2) @@ (2 :> 0) @@ (3 :> 1) @@ (4 :> 1)
MCMissing == {3}

=============================================================================
