---------------------------- MODULE MCLifecycle ----------------------------
(* The instance of Lifecycle for TLC, with its inductive invariant.        *)
EXTENDS Lifecycle_proofs
=============================================================================
