----------------------------- MODULE MCWipeToken -----------------------------
(* Instances of WipeToken and WipeCommand for TLC. *)
EXTENDS WipeToken_proofs
=============================================================================
