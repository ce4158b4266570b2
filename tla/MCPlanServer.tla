---------------------------- MODULE MCPlanServer ----------------------------
(* Instances of PlanServer for TLC. *)
EXTENDS PlanServer_proofs, PlanServerRefinement, TLC

\* One request of each kind that reaches the store.
StoreTraffic ==
    {[method |-> "POST", path |-> "root",    upload |-> "good"],
     [method |-> "GET",  path |-> "plan",    upload |-> "good"],
     [method |-> "POST", path |-> "token",   upload |-> "good"]}

\* Every kind of request the server tells apart.
AllTraffic ==
    [method: Method, path: Path, upload: {"good"}]
        \cup [method: {"POST"}, path: {"root"}, upload: Upload]

\* Requests and identifiers are interchangeable.
Symmetry == Permutations(Request) \cup Permutations(PlanId)
=============================================================================
