------------------------- MODULE PlanStoreRefinement -------------------------
(***************************************************************************)
(* The store implements its abstract specification: a job that is queued   *)
(* or between two statements is a pending call, the newest committed image *)
(* is the space, and the images in the database file and in the log are    *)
(* the states that a loss of power may go back to.                         *)
(***************************************************************************)
EXTENDS PlanStore

CallOf(j) ==
    [op |-> j.op, id |-> j.id, result |-> j.result, payload |-> j.payload,
     stage |-> IF j.pc \in {"queued"} \cup Holding THEN "pending" ELSE j.pc]

Calls == [c \in Caller |-> CallOf(job[c])]

Past == {image.rows : image \in Recoverable}

Space == INSTANCE PlanSpace WITH
    space <- Stored, past <- Past, limit <- maxPlans, up <- running, call <- Calls

\* Every call takes effect at one instant: the checks of create, its insert
\* and its commit act as one, and a wipe that returned Ok left nothing that
\* could come back.
ImplementsPlanSpace == Space!Spec
=============================================================================
