---------------------------- MODULE MCFrameQueue ----------------------------
(***************************************************************************)
(* FrameQueue on ten bytes with frames of one to four bytes, so that       *)
(* the queue can be left with every amount of free space.                  *)
(***************************************************************************)
EXTENDS FrameQueue

MCLens == {1, 2, 4}
MCJunk == {0, 9}

=============================================================================
