----------------------------- MODULE PlanServer -----------------------------
(***************************************************************************)
(* The request handlers of src/server.rs, run by src/main.rs under a       *)
(* timeout, on top of the plan store (PlanStore) and the current wipe      *)
(* token of src/wipe.rs.                                                   *)
(*                                                                         *)
(* A handler is an async function.  Between two awaits it runs without     *)
(* interruption by its own client, but other requests, the jobs of the     *)
(* store and the rotation of the token run on other threads at any time.   *)
(* It awaits the upload's body ("reading") and the store's jobs            *)
(* ("waiting").  At an await the future may be dropped: by the timeout     *)
(* around it, or because the client went away.  The job it awaited then    *)
(* goes on alone.                                                          *)
(*                                                                         *)
(* A request carries its own plan, so the request stands for the payload   *)
(* it uploads.  Only the control of body and range parsing is here; the    *)
(* parsing of a byte range is in ByteRange.                                *)
(***************************************************************************)
EXTENDS Naturals, Sequences, FiniteSets

CONSTANTS
    Request,        \* HTTP requests, each sent once
    PlanId,         \* identifiers the random source may yield
    Limit,          \* the values of PLANISTA_MAX_PLANS
    None,
    Traffic,        \* the shapes of the requests that clients send
    MaxIdAttempts   \* MAX_ID_ATTEMPTS

VARIABLES file, wal, tx, lock, poisoned, maxPlans, running, job, fate

VARIABLES
    req,            \* the handler of each request
    before          \* history: `fate` when the request arrived

store == <<file, wal, tx, lock, poisoned, maxPlans, running, job, fate>>
vars == <<file, wal, tx, lock, poisoned, maxPlans, running, job, fate,
          req, before>>

Store == INSTANCE PlanStore WITH Caller <- Request

Method == {"GET", "HEAD", "POST", "PUT"}

\* What the server makes of the path: the root, /healthz, a segment of 16
\* base64url characters, the wipe token in force (WipeToken says when a
\* candidate matches it), or anything else: any other segment, a path with a
\* '%' or with an inner '/'.
Path == {"root", "healthz", "plan", "token", "other"}

\* What the headers or the body of an upload turn out to be.
Upload == {"good", "empty", "large", "broken", "untyped", "declared_large"}

Shape == [method: Method, path: Path, upload: Upload]

ASSUME ServerAssumption ==
    /\ Limit # {} /\ Limit \subseteq Nat \ {0}
    /\ None \notin Request \cup PlanId
    /\ Traffic \subseteq Shape
    /\ MaxIdAttempts \in Nat \ {0}

Stage == {"idle", "reading", "waiting", "answered", "gone"}
Status == {0, 200, 201, 204, 400, 404, 405, 408, 413, 415, 500, 503, 507}

\* `tries` and `id` are the loop counter and the identifier of
\* handle_create, `status` and `link` the answer.
Handler == [stage: Stage, shape: Shape, tries: 0..MaxIdAttempts,
            id: PlanId \cup {None}, status: Status, link: PlanId \cup {None}]

\* The types of the server's own variables and of the store's.
TypeOK ==
    /\ Store!TypeOK
    /\ req \in [Request -> Handler]
    /\ before \in [Request -> [Request -> Store!Fate]]

NotYet == [stage |-> "idle", tries |-> 0, id |-> None, status |-> 0, link |-> None,
           shape |-> [method |-> "GET", path |-> "root", upload |-> "good"]]

Init ==
    /\ Store!Init
    /\ req = [r \in Request |-> NotYet]
    /\ before = [r \in Request |-> fate]

-----------------------------------------------------------------------------
(* Routing: handle, handle_root and the first lines of each handler.       *)

IsUpload(s) == s.path = "root" /\ s.method = "POST"
IsView(s) == s.path = "plan" /\ s.method \in {"GET", "HEAD"}
IsHealth(s) == s.path = "healthz" /\ s.method = "GET"
IsWipe(s) == s.path = "token" /\ s.method = "POST"

\* Answers given before the first await: the landing page, a method that
\* the resource does not allow, no resource, or an upload whose headers say
\* it has no media type or is too large.
Immediate(s) ==
    CASE s.path = "root" /\ s.method = "GET" -> 200
      [] IsUpload(s) -> CASE s.upload = "untyped" -> 415
                          [] s.upload = "declared_large" -> 413
                          [] OTHER -> 0
      [] IsView(s) \/ IsHealth(s) \/ IsWipe(s) -> 0
      [] s.path \in {"token", "other"} /\ ~IsWipe(s) -> 404
      [] OTHER -> 405

\* The request arrives, and its handler runs to its first await or its end.
Begin(r, s, stage, status) ==
    /\ running
    /\ req[r].stage = "idle"
    /\ req' = [req EXCEPT ![r].stage = stage, ![r].shape = s,
                          ![r].status = status]
    /\ before' = [before EXCEPT ![r] = fate]

AnswerAtOnce(r, s) ==
    /\ Immediate(s) # 0
    /\ Begin(r, s, "answered", Immediate(s))
    /\ UNCHANGED store

AwaitBody(r, s) ==
    /\ IsUpload(s) /\ Immediate(s) = 0
    /\ Begin(r, s, "reading", 0)
    /\ UNCHANGED store

View(r, s, i) ==
    /\ IsView(s)
    /\ Begin(r, s, "waiting", 0)
    /\ Store!Submit(r, "get", i)

Health(r, s) ==
    /\ IsHealth(s)
    /\ Begin(r, s, "waiting", 0)
    /\ Store!Submit(r, "health", None)

\* The token matched; it may be rotated before the job runs.
Wipe(r, s) ==
    /\ IsWipe(s)
    /\ Begin(r, s, "waiting", 0)
    /\ Store!Submit(r, "wipe", None)

-----------------------------------------------------------------------------
(* handle_create: the body, then up to MAX_ID_ATTEMPTS identifiers.        *)

Answer(r, status, link) ==
    /\ req' = [req EXCEPT ![r].stage = "answered", ![r].status = status,
                          ![r].link = link]
    /\ UNCHANGED before

\* One round of the loop: draw an identifier and submit the plan under it.
\* Faulty variant: the answer names the identifier of the first attempt.
Attempt_FirstId(r, i) ==
    /\ req' = [req EXCEPT ![r].stage = "waiting", ![r].tries = @ + 1,
                          ![r].id = IF @ = None THEN i ELSE @]
    /\ Store!Submit(r, "create", i)
    /\ UNCHANGED before

Attempt(r, i) ==
    /\ req' = [req EXCEPT ![r].stage = "waiting", ![r].id = i,
                          ![r].tries = @ + 1]
    /\ Store!Submit(r, "create", i)
    /\ UNCHANGED before

\* random_id fails: "could not create plan", whatever was tried before.
NoRandomness(r) == Answer(r, 500, None) /\ UNCHANGED store

\* collect_body has seen the end of the body, an error, or too many bytes.
BodyRead(r) ==
    /\ running
    /\ req[r].stage = "reading"
    /\ LET upload == req[r].shape.upload IN
         \/ upload = "good" /\ (NoRandomness(r) \/ \E i \in PlanId : Attempt(r, i))
         \/ upload = "large" /\ Answer(r, 413, None) /\ UNCHANGED store
         \/ upload \in {"empty", "broken"} /\ Answer(r, 400, None) /\ UNCHANGED store

\* The handler that awaits a job sees its result.
Awaits(r, o, result) ==
    /\ running
    /\ req[r].stage = "waiting"
    /\ job[r].op = o
    /\ job[r].pc = "done"
    /\ job[r].result = result

Created(r) ==
    /\ Awaits(r, "create", "ok")
    /\ Answer(r, 201, req[r].id)
    /\ UNCHANGED store

\* Faulty variant: one attempt too many.
Retry_OnceMore(r) ==
    /\ Awaits(r, "create", "id_collision")
    /\ req[r].tries <= MaxIdAttempts
    /\ NoRandomness(r) \/ \E i \in PlanId : Attempt(r, i)

Retry(r) ==
    /\ Awaits(r, "create", "id_collision")
    /\ req[r].tries < MaxIdAttempts
    /\ NoRandomness(r) \/ \E i \in PlanId : Attempt(r, i)

GiveUp(r) ==
    /\ Awaits(r, "create", "id_collision")
    /\ req[r].tries = MaxIdAttempts
    /\ Answer(r, 500, None)
    /\ UNCHANGED store

\* The remaining arms of the four handlers: status by result of the store.
CreateStatus == {<<"at_capacity", 507>>, <<"other", 500>>}

\* Faulty variant: a plan that could not be read is not found.
GetStatus_HidesError == {<<"ok", 200>>, <<"not_found", 404>>, <<"other", 404>>}

GetStatus == {<<"ok", 200>>, <<"not_found", 404>>, <<"other", 500>>}

HealthStatus == {<<"ok", 200>>, <<"other", 503>>}

\* Faulty variant: an error of a wipe is only logged.
WipeStatus_IgnoresError == {<<"ok", 204>>, <<"other", 204>>}

WipeStatus == {<<"ok", 204>>, <<"other", 500>>}

Concludes(r, o, outcomes) ==
    \E outcome \in outcomes : Awaits(r, o, outcome[1]) /\ Answer(r, outcome[2], None)

Finish(r) ==
    /\ \/ Concludes(r, "create", CreateStatus)
       \/ Concludes(r, "get", GetStatus)
       \/ Concludes(r, "health", HealthStatus)
       \/ Concludes(r, "wipe", WipeStatus)
    /\ UNCHANGED store

-----------------------------------------------------------------------------
(* A handler's future is dropped at an await; its job is not.              *)

Suspended(r) == running /\ req[r].stage \in {"reading", "waiting"}

\* Faulty variant: the timeout covers the reading of the request only.
Timeout_ReadingOnly(r) ==
    /\ running
    /\ req[r].stage = "reading"
    /\ Answer(r, 408, None)
    /\ UNCHANGED store

\* Faulty variant: a request that takes too long is answered as a failure.
Timeout_AsFailure(r) ==
    /\ Suspended(r)
    /\ Answer(r, 500, None)
    /\ UNCHANGED store

\* The 15 seconds of handle_with_read_timeout are over.
Timeout(r) ==
    /\ Suspended(r)
    /\ Answer(r, 408, None)
    /\ UNCHANGED store

\* hyper sees the connection close and drops the service future.
Disconnect(r) ==
    /\ Suspended(r)
    /\ req' = [req EXCEPT ![r].stage = "gone"]
    /\ UNCHANGED <<store, before>>

-----------------------------------------------------------------------------
(* The process.                                                            *)

\* The process ends, and every handler with it.
Halt ==
    /\ Store!Crash \/ Store!PowerLoss \/ Store!Close
    /\ req' = [r \in Request |->
                 IF Suspended(r) THEN [req[r] EXCEPT !.stage = "gone"] ELSE req[r]]
    /\ UNCHANGED before

Start ==
    /\ Store!Open
    /\ UNCHANGED <<req, before>>

-----------------------------------------------------------------------------

Arrive(r) ==
    \E s \in Traffic :
        \/ AnswerAtOnce(r, s)
        \/ AwaitBody(r, s)
        \/ \E i \in PlanId : View(r, s, i)
        \/ Health(r, s)
        \/ Wipe(r, s)

Handle(r) == BodyRead(r) \/ Created(r) \/ Retry(r) \/ GiveUp(r) \/ Finish(r)

Work(r) == Store!Work(r) /\ UNCHANGED <<req, before>>

Fault(r) ==
    /\ Store!SqlError(r) \/ Store!Panic(r)
    /\ UNCHANGED <<req, before>>

Next ==
    \/ \E r \in Request :
         \/ Arrive(r) \/ Handle(r) \/ Timeout(r) \/ Disconnect(r)
         \/ Work(r) \/ Fault(r)
    \/ Halt
    \/ Start

\* The timer of the runtime fires, and the blocking pool runs its jobs.
\* Nothing is assumed of clients, nor of handlers that wait for them.
Fairness ==
    \A r \in Request : WF_vars(Timeout(r)) /\ WF_vars(Work(r))

Spec == Init /\ [][Next]_vars /\ Fairness

-----------------------------------------------------------------------------
(* Safety.                                                                 *)

\* The permalink of a 201 leads to the plan of that very upload, under the
\* identifier of the last attempt and not of one that collided, for as long
\* as no wipe or power loss has taken the plan away.
LinkLeadsToPlan ==
    \A r \in Request :
        req[r].status = 201 =>
            /\ fate[r] # "unsaved"
            /\ fate[r] = "saved" => [id |-> req[r].link, plan |-> r] \in Store!Stored

\* A refused upload has no effect, then or later: unless the answer is 408,
\* no job of the request is left that could still store its plan.
RefusalHasNoEffect ==
    \A r \in Request :
        req[r].status \in {400, 404, 405, 413, 415, 500, 507} /\ IsUpload(req[r].shape) =>
            /\ fate[r] = "unsaved"
            /\ job[r].pc \in {"idle", "done", "lost"}

\* A view is linearizable: a 404 is given only for an identifier under which
\* no plan was stored all the while, and a plan that a wipe had erased or a
\* power loss had cut off before the request came is never served.
ViewsAreCurrent ==
    \A r, p \in Request :
        IsView(req[r].shape) =>
            /\ req[r].status = 404 /\ before[r][p] = "saved" /\ fate[p] = "saved" =>
                   job[p].id # job[r].id
            /\ req[r].status = 200 /\ job[r].payload = p =>
                   before[r][p] \notin {"erased", "lost"}

\* A 204 to a wipe means that every plan stored when the request came is gone
\* for good, while a plan that is only half uploaded then may survive.
WipeAnsweredErases ==
    \A r, p \in Request :
        req[r].status = 204 /\ before[r][p] # "unsaved" => fate[p] = "erased"

\* The landing page says that uploads are "retained until an administrator
\* wipes the server".  With `synchronous = NORMAL` a loss of power may take
\* away a plan whose upload was answered with 201.
AcknowledgedPlansAreRetained ==
    \A r \in Request : req[r].status = 201 => fate[r] # "lost"

-----------------------------------------------------------------------------
(* Liveness.                                                               *)

\* Whoever takes the connection mutex gives it back, on every path out of its
\* job, while requests come, go, and leave their jobs behind.
MutexIsReleased == Store!MutexIsReleased

\* Every request is answered or abandoned: the timeout around the handler
\* covers each of its awaits, even a job stuck behind the mutex.
EveryRequestEnds ==
    \A r \in Request :
        req[r].stage \in {"reading", "waiting"} ~> req[r].stage \in {"answered", "gone"}

\* Nobody awaits the job of a request that timed out or was abandoned; it is
\* still done, or ends with the process.
JobsOutliveHandlers ==
    \A r \in Request : job[r].pc = "queued" ~> job[r].pc \in {"done", "lost"}
=============================================================================
