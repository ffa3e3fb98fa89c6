----------------------------- MODULE MCFSLink -----------------------------
(* Instances of FSLink for TLC. *)
EXTENDS FSLink, TLC

CONSTANTS j1, j2, c1, c2, c3, none
=============================================================================
