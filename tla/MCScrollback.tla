---------------------------- MODULE MCScrollback ----------------------------
(* Scrollback on a history of three bytes: reads of one byte up to one     *)
(* more than the capacity, pages of two, one replacement of the PTY.       *)
EXTENDS Scrollback

MCChunkSizes == {1, 2, 3, 4}
=============================================================================
