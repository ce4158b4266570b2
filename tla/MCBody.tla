------------------------------- MODULE MCBody -------------------------------
(* Instances of Body for TLC. *)
EXTENDS Body
=============================================================================
