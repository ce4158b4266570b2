------------------------ MODULE PlanServerRefinement ------------------------
(***************************************************************************)
(* The server implements its abstract specification.  A request is pending *)
(* from its arrival until a job of it ends in anything but a collision, or *)
(* nobody is left to try again: retries are invisible.                     *)
(***************************************************************************)
EXTENDS PlanServer

Wish(s) ==
    CASE IsUpload(s) -> "upload"
      [] IsView(s) -> "view"
      [] IsHealth(s) -> "health"
      [] IsWipe(s) -> "wipe"
      [] OTHER -> "none"

StageOf(stage) ==
    CASE stage = "idle" -> "new"
      [] stage \in {"reading", "waiting"} -> "waiting"
      [] OTHER -> stage

Client(r) == [wish |-> Wish(req[r].shape), stage |-> StageOf(req[r].stage),
              status |-> req[r].status, link |-> req[r].link]

\* A handler that waits, or a job that nobody awaits, may still have an effect.
Alive(r) ==
    \/ req[r].stage \in {"reading", "waiting"}
    \/ job[r].pc \in {"queued"} \cup Store!Holding

Outcome(r) ==
    CASE req[r].stage = "idle" -> "none"
      [] job[r].result \in {"ok", "at_capacity", "not_found"} -> job[r].result
      [] job[r].result \in {"none", "id_collision"} /\ Alive(r) -> "pending"
      [] OTHER -> "failed"

\* The identifier of an upload counts once the plan is stored, and the
\* payload once it is found.
Deed(r) ==
    [outcome |-> Outcome(r),
     id |-> IF IsView(req[r].shape) \/ (IsUpload(req[r].shape) /\ job[r].result = "ok")
            THEN job[r].id ELSE None,
     plan |-> IF IsView(req[r].shape) /\ job[r].result = "ok" THEN job[r].payload
              ELSE None]

Clients == [r \in Request |-> Client(r)]
Deeds == [r \in Request |-> Deed(r)]

Past == {image.rows : image \in Store!Recoverable}

Service == INSTANCE PlanService WITH
    space <- Store!Stored, past <- Past, limit <- maxPlans, up <- running,
    client <- Clients, deed <- Deeds

\* Every request takes effect at most once and at one instant, whatever its
\* identifiers collide with, and an answer tells the outcome reached before
\* it; after a 408, a disconnection or the end of the process the effect is
\* in doubt, but never halfway.
ImplementsPlanService == Service!Spec
=============================================================================
