------------------------------- MODULE MCBio -------------------------------
(* Both job types of bio.h, up to three jobs each. *)
EXTENDS Bio
=============================================================================
