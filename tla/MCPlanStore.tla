----------------------------- MODULE MCPlanStore -----------------------------
(* Instances of PlanStore for TLC. *)
EXTENDS PlanStoreRefinement, TLC

\* Requests and identifiers are interchangeable.
Symmetry == Permutations(Caller) \cup Permutations(PlanId)
=============================================================================
