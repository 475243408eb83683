------------------------------- MODULE MCIds -------------------------------
(* Instance for TLC: an API process with worker id 0 and a pool of two     *)
(* whose range 1 .. 2 does not fit under the limit 1; two ids a millisecond. *)
EXTENDS Ids
=============================================================================
