-------------------------------- MODULE MCAof -------------------------------
(* Two databases and two writes, with room for a rewrite and a snapshot at the
   same time and for the fsync of an old file before that of the new one. *)
EXTENDS Aof, TLC
=============================================================================
