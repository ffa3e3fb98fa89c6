------------------------------ MODULE MCAccept ------------------------------
(* Instances of Accept for TLC. *)
EXTENDS Accept, TLC
=============================================================================
