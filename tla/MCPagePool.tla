----------------------------- MODULE MCPagePool -----------------------------
(* A pool of three pages of three units each; entries of one or two units. *)
EXTENDS PagePool
=============================================================================
