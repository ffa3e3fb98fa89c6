----------------------------- MODULE MCNodeLink -----------------------------
(* Instances of NodeLink for TLC. *)
EXTENDS NodeLink, TLC

CONSTANTS c1, c2, b1, b2, none
=============================================================================
