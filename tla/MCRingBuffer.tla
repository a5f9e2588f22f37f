---------------------------- MODULE MCRingBuffer ----------------------------
(***************************************************************************)
(* RingBuffer on five slots, with calls from nothing to the whole array.   *)
(***************************************************************************)
EXTENDS RingBuffer

MCT == {0, 1}

=============================================================================
