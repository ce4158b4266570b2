--------------------------- MODULE PlanServer_proofs ---------------------------
(***************************************************************************)
(* Proofs of the safety of PlanServer, for any number of requests,         *)
(* identifiers, limits and attempts.  Each step of the server is a step of *)
(* the store or leaves it alone, so that what is proved in PlanStore_proofs *)
(* holds here; `P` brings it in.                                           *)
(***************************************************************************)
EXTENDS PlanServerRefinement, TLAPS

P == INSTANCE PlanStore_proofs WITH Caller <- Request

\* The constants are what the store assumes.
LEMMA Constants == P!StoreAssumption
BY ServerAssumption DEF P!StoreAssumption

-----------------------------------------------------------------------------
(* The store in the server.                                                *)

\* `Store` and `P` are the same store.
LEMMA SameState ==
    /\ Store!TypeOK = P!TypeOK /\ Store!Init = P!Init
    /\ Store!Stored = P!Stored /\ Store!Fate = P!Fate
BY DEF Store!TypeOK, P!TypeOK, Store!Image, P!Image, Store!Row, P!Row, Store!Job, P!Job,
   Store!Operation, P!Operation, Store!Place, P!Place, Store!Holding, P!Holding,
   Store!Result, P!Result, Store!Fate, P!Fate, Store!Init, P!Init,
   Store!Stored, P!Stored, Store!Latest, P!Latest

\* So are its jobs' submissions,
LEMMA SameSubmit ==
    ASSUME NEW c, NEW o, NEW i, Store!Submit(c, o, i)
    PROVE  P!Submit(c, o, i)
BY DEF Store!Submit, P!Submit

\* the parts its actions are made of,
LEMMA SameReturns ==
    ASSUME NEW c
    PROVE  /\ \A result, plan : Store!Return(c, result, plan) <=> P!Return(c, result, plan)
           /\ \A pc : Store!Advance(c, pc) <=> P!Advance(c, pc)
           /\ \A o, pc : Store!At(c, o, pc) <=> P!At(c, o, pc)
           /\ \A image : Store!Commit(image) <=> P!Commit(image)
           /\ Store!Checkpoint <=> P!Checkpoint
           /\ Store!Latest = P!Latest
           /\ \A image : Store!Ids(image) = P!Ids(image)
BY DEF Store!Return, P!Return, Store!Advance, P!Advance, Store!At, P!At, Store!Commit,
   P!Commit, Store!Checkpoint, P!Checkpoint, Store!Latest, P!Latest, Store!Ids, P!Ids

\* the steps of its jobs,
LEMMA SameWork ==
    ASSUME NEW c \in Request, Store!Work(c)
    PROVE  P!Work(c)
<1>1. CASE Store!Acquire(c) \/ Store!FindPoisoned(c)
  BY <1>1, SameReturns DEF Store!Acquire, P!Acquire, Store!FindPoisoned, P!FindPoisoned, P!Work
<1>2. CASE Store!CheckCapacity(c) \/ Store!InsertPlan(c)
  BY <1>2, SameReturns, SameState DEF Store!CheckCapacity, P!CheckCapacity,
     Store!InsertPlan, P!InsertPlan, P!Work, Store!Cardinality, P!Cardinality
<1>3. CASE Store!CommitPlan(c)
  BY <1>3, SameReturns DEF Store!CommitPlan, P!CommitPlan, P!Work
<1>4. CASE Store!ReadPlan(c) \/ Store!CheckHealth(c)
  BY <1>4, SameReturns, SameState DEF Store!ReadPlan, P!ReadPlan,
     Store!CheckHealth, P!CheckHealth, P!Work
<1>5. CASE Store!DeletePlans(c)
  BY <1>5, SameReturns, SameState DEF Store!DeletePlans, P!DeletePlans, P!Work
<1>6. CASE Store!TruncateWal(c)
  BY <1>6, SameReturns DEF Store!TruncateWal, P!TruncateWal, P!Work
<1>7. CASE Store!Vacuum(c)
  BY <1>7, SameReturns, SameState DEF Store!Vacuum, P!Vacuum, P!Work
<1> QED
  BY <1>1, <1>2, <1>3, <1>4, <1>5, <1>6, <1>7 DEF Store!Work

\* their failures,
LEMMA SameFault ==
    ASSUME NEW c \in Request, Store!SqlError(c) \/ Store!Panic(c)
    PROVE  P!SqlError(c) \/ P!Panic(c)
BY SameReturns DEF Store!SqlError, P!SqlError, Store!Panic, P!Panic

\* and the steps of its process.
LEMMA SameEnvironment ==
    /\ Store!Crash => P!Crash
    /\ Store!PowerLoss => P!PowerLoss
    /\ Store!Close => P!Close
    /\ Store!Open => P!Open
BY DEF Store!Crash, P!Crash, Store!PowerLoss, P!PowerLoss, Store!Close, P!Close,
   Store!Open, P!Open, Store!Stop, P!Stop, Store!Plans, P!Plans, Store!Latest, P!Latest,
   Store!Checkpoint, P!Checkpoint

\* Every step of the server is one of the store, or leaves it alone.
LEMMA StepOfStore == [Next]_vars => [P!Next]_(P!vars)
<1> SUFFICES ASSUME [Next]_vars PROVE [P!Next]_(P!vars)
  OBVIOUS
<1>1. CASE UNCHANGED store
  BY <1>1 DEF store, P!vars
<1>2. ASSUME NEW r \in Request, NEW o \in {"create", "get"}, NEW i \in PlanId,
             Store!Submit(r, o, i)
      PROVE  P!Next
  BY <1>2, SameSubmit DEF P!Next
<1>3. ASSUME NEW r \in Request, NEW o \in {"wipe", "health"}, Store!Submit(r, o, None)
      PROVE  P!Next
  BY <1>3, SameSubmit DEF P!Next
<1>4. ASSUME NEW r \in Request, Arrive(r)
      PROVE  [P!Next]_(P!vars)
  BY <1>1, <1>2, <1>3, <1>4 DEF Arrive, AnswerAtOnce, AwaitBody, View, Health, Wipe
<1>5. ASSUME NEW r \in Request, Handle(r)
      PROVE  [P!Next]_(P!vars)
  BY <1>1, <1>2, <1>5 DEF Handle, BodyRead, NoRandomness, Attempt, Created, Retry,
     GiveUp, Finish
<1>6. ASSUME NEW r \in Request, Work(r) \/ Fault(r)
      PROVE  P!Next
  BY <1>6, SameWork, SameFault DEF Work, Fault, P!Next
<1>7. ASSUME NEW r \in Request, Timeout(r) \/ Disconnect(r)
      PROVE  UNCHANGED store
  BY <1>7 DEF Timeout, Disconnect
<1>8. CASE Halt \/ Start
  BY <1>8, SameEnvironment DEF Halt, Start, P!Next, P!Environment
<1>9. CASE UNCHANGED vars
  BY <1>1, <1>9 DEF vars, store
<1> QED
  BY <1>1, <1>4, <1>5, <1>6, <1>7, <1>8, <1>9 DEF Next

-----------------------------------------------------------------------------
(* The inductive invariant.                                                *)

Refusals == {400, 404, 405, 413, 415, 500, 507}

\* What the answer of a handler says of the job it awaited.  No later step
\* changes that: a handler that has answered submits no job, and a job with
\* a result takes no step.
AnswerInv(r) ==
    /\ req[r].status = 201 =>
           job[r].op = "create" /\ job[r].result = "ok" /\ job[r].id = req[r].link
    /\ req[r].status \in Refusals /\ IsUpload(req[r].shape) =>
           job[r].pc \in {"idle", "done", "lost"} /\ job[r].result # "ok"
    /\ req[r].status = 204 => job[r].op = "wipe" /\ job[r].result = "ok"
    /\ IsView(req[r].shape) /\ req[r].status = 404 =>
           job[r].op = "get" /\ job[r].result = "not_found"
    /\ IsView(req[r].shape) /\ req[r].status = 200 =>
           job[r].op = "get" /\ job[r].result = "ok"

\* A job is of the operation that its request asks for.
Suits(r) ==
    /\ IsUpload(req[r].shape) <=> job[r].op = "create"
    /\ IsView(req[r].shape) <=> job[r].op = "get"
    /\ IsHealth(req[r].shape) <=> job[r].op = "health"
    /\ IsWipe(req[r].shape) <=> job[r].op = "wipe"

\* A handler and its job.
HandlerInv(r) ==
    /\ req[r].stage \in {"idle", "reading"} => job[r].pc = "idle" /\ req[r].tries = 0
    /\ req[r].stage = "reading" => IsUpload(req[r].shape)
    /\ job[r].pc # "idle" => Suits(r)
    /\ req[r].stage = "waiting" =>
           /\ job[r].pc # "idle"
           /\ job[r].op = "create" => req[r].id = job[r].id
    /\ req[r].stage # "answered" => req[r].status = 0 /\ req[r].link = None
    /\ AnswerInv(r)

\* What a handler's arrival says of a plan for ever after, and what the
\* result of its job says of it.
WitnessInv(r, p) ==
    /\ before[r][p] # "unsaved" => fate[p] # "unsaved"
    /\ before[r][p] = "erased" => fate[p] = "erased"
    /\ before[r][p] = "lost" => fate[p] \in {"lost", "erased"}
    /\ job[r].op = "wipe" /\ job[r].result = "ok" /\ before[r][p] # "unsaved" =>
           fate[p] = "erased"
    /\ job[r].op = "get" /\ job[r].result = "not_found" =>
           (before[r][p] = "saved" /\ fate[p] = "saved" => job[p].id # job[r].id)
    /\ job[r].op = "get" /\ job[r].result = "ok" /\ job[r].payload = p =>
           before[r][p] \notin {"erased", "lost"}

\* Handlers do not outlive the process.
Attended == \A r \in Request : req[r].stage \in {"reading", "waiting"} => running

ServerInv ==
    /\ TypeOK /\ Attended
    /\ P!StoreInv /\ P!Remembered
    /\ \A r \in Request : HandlerInv(r)
    /\ \A r, p \in Request : WitnessInv(r, p)

\* The initial states satisfy it.
LEMMA InitEstablishes == Init => ServerInv
<1> SUFFICES ASSUME Init PROVE ServerInv
  OBVIOUS
<1>1. P!Init
  BY SameState DEF Init
<1>2. P!StoreInv /\ P!Remembered
  BY <1>1, Constants, P!InitEstablishes, P!RememberedInit
<1>3. /\ job = [c \in Request |-> [op |-> "health", id |-> None, pc |-> "idle",
                                   result |-> "none", payload |-> None]]
      /\ fate = [c \in Request |-> "unsaved"]
  BY <1>1 DEF P!Init
<1>4. TypeOK
  <2>1. Store!TypeOK
    BY <1>2, SameState DEF P!StoreInv
  <2>2. NotYet \in Handler
    BY ServerAssumption DEF NotYet, Handler, Stage, Shape, Method, Path, Upload, Status
  <2>3. before \in [Request -> [Request -> Store!Fate]]
    BY <1>3 DEF Init, Store!Fate
  <2> QED
    BY <2>1, <2>2, <2>3 DEF TypeOK, Init
<1>5. \A r \in Request : HandlerInv(r)
  BY <1>3 DEF Init, NotYet, HandlerInv, AnswerInv, Refusals
<1>6. \A r, p \in Request : WitnessInv(r, p)
  BY <1>3 DEF Init, WitnessInv
<1>7. Attended
  BY DEF Init, NotYet, Attended
<1> QED
  BY <1>2, <1>4, <1>5, <1>6, <1>7 DEF ServerInv

-----------------------------------------------------------------------------
(* Steps.                                                                  *)

\* What the server answers before it awaits anything.
LEMMA ImmediateAnswers ==
    ASSUME NEW s \in Shape
    PROVE  /\ Immediate(s) \in {0, 200, 404, 405, 413, 415}
           /\ IsView(s) => Immediate(s) = 0
<1>1. CASE IsUpload(s)
  BY <1>1 DEF Immediate, IsUpload, IsView
<1>2. CASE ~IsUpload(s)
  BY <1>2 DEF Immediate, IsUpload, IsView, IsHealth, IsWipe
<1> QED
  BY <1>1, <1>2

\* The types of a request's record and of its job.
LEMMA Types ==
    ASSUME ServerInv
    PROVE  /\ req \in [Request -> Handler]
           /\ before \in [Request -> [Request -> Store!Fate]]
           /\ job \in [Request -> P!Job] /\ fate \in [Request -> P!Fate]
BY DEF ServerInv, TypeOK, P!StoreInv, P!TypeOK

\* A job that is submitted.
LEMMA Submitted ==
    ASSUME ServerInv, NEW c \in Request, NEW o, NEW i, Store!Submit(c, o, i)
    PROVE  /\ \A d \in Request \ {c} : job'[d] = job[d]
           /\ job'[c].op = o /\ job'[c].id = i
           /\ job'[c].pc = "queued" /\ job'[c].result = "none"
           /\ fate' = fate
           /\ \/ job[c].pc = "idle"
              \/ job[c].pc = "done" /\ job[c].result = "id_collision"
BY Types DEF Store!Submit

\* The end of the process leaves of a job what it was asked and its result.
LEMMA Halted ==
    ASSUME ServerInv, Halt, NEW r \in Request
    PROVE  /\ job'[r].op = job[r].op /\ job'[r].id = job[r].id
           /\ job'[r].result = job[r].result /\ job'[r].payload = job[r].payload
           /\ job'[r].pc = IF job[r].pc = "idle" THEN "idle" ELSE "lost"
           /\ req'[r] = IF Suspended(r) THEN [req[r] EXCEPT !.stage = "gone"] ELSE req[r]
           /\ before' = before
<1>1. P!Stop
  BY SameEnvironment DEF Halt, P!Crash, P!PowerLoss, P!Close
<1>2. job[r] \in P!Job
  BY Types
<1>3. job'[r] = IF job[r].pc = "idle" THEN job[r] ELSE [job[r] EXCEPT !.pc = "lost"]
  BY <1>1 DEF P!Stop
<1> QED
  BY <1>2, <1>3 DEF Halt, P!Job

\* A job that is done is left alone by the pool.
LEMMA Worked ==
    ASSUME ServerInv, NEW c \in Request, Work(c) \/ Fault(c)
    PROVE  /\ P!Work(c) \/ P!SqlError(c) \/ P!Panic(c)
           /\ req' = req /\ before' = before
           /\ \A d \in Request \ {c} : job'[d] = job[d]
           /\ job[c].pc \notin {"idle", "done", "lost"}
           /\ job[c].result = "none"
           /\ job'[c].op = job[c].op /\ job'[c].id = job[c].id
           /\ job'[c].pc \notin {"idle", "lost"}
<1>1. P!Work(c) \/ P!SqlError(c) \/ P!Panic(c)
  BY SameWork, SameFault DEF Work, Fault
<1>2. P!StoreInv /\ P!Remembered
  BY DEF ServerInv
<1>3. /\ \A d \in Request \ {c} : job'[d] = job[d]
      /\ job[c].pc \in {"queued"} \cup P!Holding
      /\ job'[c].op = job[c].op /\ job'[c].id = job[c].id
      /\ job'[c].pc \notin {"idle", "lost"}
  BY <1>1, <1>2, Constants, P!JobsAreApart
<1>4. job[c].pc \notin {"idle", "done", "lost"}
  BY <1>3 DEF P!Holding
<1>5. job[c].result = "none"
  BY <1>2, <1>4 DEF P!Remembered, P!NoEarlyResult
<1> QED
  BY <1>1, <1>3, <1>4, <1>5 DEF Work, Fault

\* An answer.
LEMMA Answered ==
    ASSUME ServerInv, NEW r \in Request, NEW status, NEW link, Answer(r, status, link)
    PROVE  /\ \A q \in Request \ {r} : req'[q] = req[q]
           /\ req'[r].stage = "answered" /\ req'[r].status = status
           /\ req'[r].link = link /\ req'[r].shape = req[r].shape
           /\ before' = before
BY Types DEF Answer, Handler

\* An arrival.
LEMMA Begun ==
    ASSUME ServerInv, NEW r \in Request, NEW s, NEW stage, NEW status,
           Begin(r, s, stage, status)
    PROVE  /\ \A q \in Request \ {r} : req'[q] = req[q] /\ before'[q] = before[q]
           /\ req[r].stage = "idle"
           /\ req'[r].stage = stage /\ req'[r].status = status
           /\ req'[r].shape = s /\ req'[r].tries = req[r].tries
           /\ req'[r].link = req[r].link
           /\ before'[r] = fate
BY Types DEF Begin, Handler

\* An attempt at an identifier.
LEMMA Attempted ==
    ASSUME ServerInv, NEW r \in Request, NEW i, Attempt(r, i)
    PROVE  /\ \A q \in Request \ {r} : req'[q] = req[q]
           /\ req'[r].stage = "waiting" /\ req'[r].id = i
           /\ req'[r].status = req[r].status /\ req'[r].shape = req[r].shape
           /\ req'[r].link = req[r].link /\ before' = before
           /\ Store!Submit(r, "create", i)
BY Types DEF Attempt, Handler

-----------------------------------------------------------------------------
(* Types.                                                                  *)

\* Every step preserves them.
LEMMA TypesStep ==
    ASSUME ServerInv, [Next]_vars, P!StoreInv'
    PROVE  TypeOK'
<1>1. Store!TypeOK'
  <2>1. (Store!TypeOK = P!TypeOK)'
    BY SameState, PTL
  <2> QED
    BY <2>1 DEF P!StoreInv
<1>2. fate \in [Request -> Store!Fate]
  BY Types, SameState
<1> SUFFICES /\ req' \in [Request -> Handler]
             /\ before' \in [Request -> [Request -> Store!Fate]]
  BY <1>1 DEF TypeOK
<1>3. ASSUME NEW r \in Request, NEW s \in Traffic, NEW stage \in Stage, NEW status \in Status,
             Begin(r, s, stage, status)
      PROVE  /\ req' \in [Request -> Handler]
             /\ before' \in [Request -> [Request -> Store!Fate]]
  <2>1. req[r] \in Handler /\ s \in Shape
    BY Types, ServerAssumption
  <2>2. [req[r] EXCEPT !.stage = stage, !.shape = s, !.status = status] \in Handler
    BY <2>1 DEF Handler
  <2> QED
    BY <1>2, <1>3, <2>2, Types DEF Begin
<1>4. ASSUME NEW r \in Request, NEW status \in Status, NEW link \in PlanId \cup {None},
             Answer(r, status, link)
      PROVE  /\ req' \in [Request -> Handler]
             /\ before' \in [Request -> [Request -> Store!Fate]]
  <2>1. req[r] \in Handler /\ "answered" \in Stage
    BY Types DEF Stage
  <2>2. [req[r] EXCEPT !.stage = "answered", !.status = status, !.link = link] \in Handler
    BY <2>1 DEF Handler
  <2> QED
    BY <1>4, <2>2, Types DEF Answer
<1>5. ASSUME NEW r \in Request, NEW i \in PlanId, Attempt(r, i), req[r].tries < MaxIdAttempts
      PROVE  /\ req' \in [Request -> Handler]
             /\ before' \in [Request -> [Request -> Store!Fate]]
  <2>1. req[r].tries + 1 \in 0..MaxIdAttempts
    BY <1>5, Types, ServerAssumption DEF Handler
  <2> QED
    BY <1>5, <2>1, Types DEF Attempt, Handler, Stage
<1>6. ASSUME NEW r \in Request, Arrive(r)
      PROVE  /\ req' \in [Request -> Handler]
             /\ before' \in [Request -> [Request -> Store!Fate]]
  <2>1. PICK s \in Traffic : \/ AnswerAtOnce(r, s) \/ AwaitBody(r, s) \/ Health(r, s)
                             \/ Wipe(r, s) \/ \E i \in PlanId : View(r, s, i)
    BY <1>6 DEF Arrive
  <2>2. CASE AnswerAtOnce(r, s)
    <3>1. Immediate(s) \in Status /\ "answered" \in Stage
      BY ImmediateAnswers, ServerAssumption DEF Status, Stage
    <3> QED
      BY <1>3, <2>2, <3>1 DEF AnswerAtOnce
  <2>3. 0 \in Status /\ "reading" \in Stage /\ "waiting" \in Stage
    BY DEF Status, Stage
  <2> QED
    BY <1>3, <2>1, <2>2, <2>3 DEF AwaitBody, Health, Wipe, View
<1>7. ASSUME NEW r \in Request, Handle(r)
      PROVE  /\ req' \in [Request -> Handler]
             /\ before' \in [Request -> [Request -> Store!Fate]]
  <2>1. {201, 204, 400, 404, 413, 500, 503, 507, 200} \subseteq Status
    BY DEF Status
  <2>2. CASE BodyRead(r)
    <3>1. req[r].tries < MaxIdAttempts
      BY <2>2, ServerAssumption DEF BodyRead, ServerInv, HandlerInv
    <3> QED
      BY <1>4, <1>5, <2>1, <2>2, <3>1 DEF BodyRead, NoRandomness
  <2>3. CASE Created(r)
    <3>1. req[r].id \in PlanId \cup {None}
      BY Types DEF Handler
    <3> QED
      BY <1>4, <2>1, <2>3, <3>1 DEF Created
  <2>4. CASE Retry(r) \/ GiveUp(r)
    BY <1>4, <1>5, <2>1, <2>4 DEF Retry, GiveUp, NoRandomness
  <2>5. CASE Finish(r)
    <3>1. PICK status \in Status : Answer(r, status, None)
      BY <2>1, <2>5 DEF Finish, Concludes, CreateStatus, GetStatus, HealthStatus, WipeStatus
    <3> QED
      BY <1>4, <3>1
  <2> QED
    BY <1>7, <2>2, <2>3, <2>4, <2>5 DEF Handle
<1>8. ASSUME NEW r \in Request, Timeout(r)
      PROVE  /\ req' \in [Request -> Handler]
             /\ before' \in [Request -> [Request -> Store!Fate]]
  <2>1. 408 \in Status
    BY DEF Status
  <2> QED
    BY <1>4, <1>8, <2>1 DEF Timeout
<1>9. ASSUME NEW r \in Request, Disconnect(r)
      PROVE  /\ req' \in [Request -> Handler]
             /\ before' \in [Request -> [Request -> Store!Fate]]
  BY <1>9, Types DEF Disconnect, Handler, Stage
<1>10. CASE Halt
  <2>1. ASSUME NEW r \in Request
        PROVE  req[r] \in Handler /\ [req[r] EXCEPT !.stage = "gone"] \in Handler
    BY <2>1, Types DEF Handler, Stage
  <2> QED
    BY <1>10, <2>1, Types DEF Halt
<1>11. CASE UNCHANGED <<req, before>>
  BY <1>11, Types
<1> QED
  BY <1>6, <1>7, <1>8, <1>9, <1>10, <1>11 DEF Next, Work, Fault, Start, vars

-----------------------------------------------------------------------------
(* Handlers.                                                               *)

\* A handler is left alone when neither it nor its job takes a step.
LEMMA HandlerApart ==
    ASSUME NEW r \in Request, HandlerInv(r), req'[r] = req[r], job'[r] = job[r]
    PROVE  HandlerInv(r)'
BY DEF HandlerInv, AnswerInv, Suits

\* Arrivals.
LEMMA ArrivalKeepsHandlers ==
    ASSUME ServerInv, NEW r \in Request, Arrive(r), NEW q \in Request
    PROVE  HandlerInv(q)'
<1>1. HandlerInv(q) /\ HandlerInv(r)
  BY DEF ServerInv
<1>2. PICK s \in Traffic : \/ AnswerAtOnce(r, s) \/ AwaitBody(r, s) \/ Health(r, s)
                           \/ Wipe(r, s) \/ \E i \in PlanId : View(r, s, i)
  BY DEF Arrive
<1>3. s \in Shape
  BY ServerAssumption
<1>4. req[r].stage = "idle" /\ job[r].pc = "idle" /\ job[r].result = "none"
      /\ req[r].tries = 0 /\ req[r].link = None
  <2>1. req[r].stage = "idle"
    BY <1>2 DEF AnswerAtOnce, AwaitBody, Health, Wipe, View, Begin
  <2> QED
    BY <1>1, <2>1 DEF HandlerInv, ServerInv, P!Remembered, P!NoEarlyResult
<1>5. CASE AnswerAtOnce(r, s)
  <2>1. /\ \A p \in Request \ {r} : req'[p] = req[p]
        /\ req'[r].stage = "answered" /\ req'[r].status = Immediate(s)
        /\ req'[r].shape = s
    BY <1>5, Begun DEF AnswerAtOnce
  <2>2. job' = job
    BY <1>5 DEF AnswerAtOnce, store
  <2>3. Immediate(s) \in {0, 200, 404, 405, 413, 415} /\ (IsView(s) => Immediate(s) = 0)
    BY <1>3, ImmediateAnswers
  <2>4. AnswerInv(r)'
    BY <1>4, <2>1, <2>2, <2>3 DEF AnswerInv
  <2>5. HandlerInv(r)'
    BY <1>4, <2>1, <2>2, <2>4 DEF HandlerInv
  <2> QED
    BY <1>1, <2>1, <2>2, <2>5, HandlerApart
<1>6. CASE AwaitBody(r, s)
  <2>1. /\ \A p \in Request \ {r} : req'[p] = req[p]
        /\ req'[r].stage = "reading" /\ req'[r].status = 0
        /\ req'[r].shape = s /\ req'[r].tries = req[r].tries
        /\ req'[r].link = None
    BY <1>4, <1>6, Begun DEF AwaitBody
  <2>2. job' = job /\ IsUpload(s)
    BY <1>6 DEF AwaitBody, store
  <2>3. AnswerInv(r)'
    BY <2>1 DEF AnswerInv, Refusals
  <2>4. HandlerInv(r)'
    BY <1>4, <2>1, <2>2, <2>3 DEF HandlerInv
  <2> QED
    BY <1>1, <2>1, <2>2, <2>4, HandlerApart
<1>7. ASSUME NEW o \in P!Operation \ {"create"}, NEW i, Begin(r, s, "waiting", 0),
             Store!Submit(r, o, i), ~IsUpload(s), IsView(s) <=> o = "get",
             IsHealth(s) <=> o = "health", IsWipe(s) <=> o = "wipe"
      PROVE  HandlerInv(q)'
  <2>1. /\ \A p \in Request \ {r} : req'[p] = req[p]
        /\ req'[r].stage = "waiting" /\ req'[r].status = 0 /\ req'[r].shape = s
        /\ req'[r].link = None
    BY <1>4, <1>7, Begun
  <2>2. /\ \A p \in Request \ {r} : job'[p] = job[p]
        /\ job'[r].op = o /\ job'[r].pc = "queued"
    BY <1>7, Submitted
  <2>3. AnswerInv(r)'
    BY <2>1 DEF AnswerInv, Refusals
  <2>4. HandlerInv(r)'
    BY <1>7, <2>1, <2>2, <2>3 DEF HandlerInv, Suits
  <2> QED
    BY <1>1, <2>1, <2>2, <2>4, HandlerApart
<1>8. CASE \E i \in PlanId : View(r, s, i)
  BY <1>7, <1>8 DEF View, IsView, IsUpload, IsHealth, IsWipe, P!Operation
<1>9. CASE Health(r, s) \/ Wipe(r, s)
  BY <1>7, <1>9 DEF Health, Wipe, IsHealth, IsWipe, IsView, IsUpload, P!Operation
<1> QED
  BY <1>2, <1>5, <1>6, <1>8, <1>9

\* Answers that leave the store alone.
LEMMA AnswerKeepsHandlers ==
    ASSUME ServerInv, NEW r \in Request, NEW status, NEW link, Answer(r, status, link),
           UNCHANGED store, NEW q \in Request,
           status = 201 =>
               job[r].op = "create" /\ job[r].result = "ok" /\ job[r].id = link,
           status \in Refusals /\ IsUpload(req[r].shape) =>
               job[r].pc \in {"idle", "done", "lost"} /\ job[r].result # "ok",
           status = 204 => job[r].op = "wipe" /\ job[r].result = "ok",
           IsView(req[r].shape) /\ status = 404 =>
               job[r].op = "get" /\ job[r].result = "not_found",
           IsView(req[r].shape) /\ status = 200 =>
               job[r].op = "get" /\ job[r].result = "ok"
    PROVE  HandlerInv(q)'
<1>1. HandlerInv(q)
  BY DEF ServerInv
<1>2. /\ \A p \in Request \ {r} : req'[p] = req[p]
      /\ req'[r].stage = "answered" /\ req'[r].status = status
      /\ req'[r].link = link /\ req'[r].shape = req[r].shape
  BY Answered
<1>3. job' = job
  BY DEF store
<1>4. AnswerInv(r)'
  BY <1>2, <1>3 DEF AnswerInv
<1>5. HandlerInv(r)
  BY DEF ServerInv
<1>6. HandlerInv(r)'
  BY <1>2, <1>3, <1>4, <1>5 DEF HandlerInv, Suits
<1> QED
  BY <1>1, <1>2, <1>3, <1>6, HandlerApart

\* Attempts at an identifier.
LEMMA AttemptKeepsHandlers ==
    ASSUME ServerInv, NEW r \in Request, NEW i, Attempt(r, i), IsUpload(req[r].shape),
           req[r].status = 0, req[r].link = None, NEW q \in Request
    PROVE  HandlerInv(q)'
<1>1. HandlerInv(q)
  BY DEF ServerInv
<1>2. /\ \A p \in Request \ {r} : req'[p] = req[p]
      /\ req'[r].stage = "waiting" /\ req'[r].id = i
      /\ req'[r].status = 0 /\ req'[r].link = None /\ req'[r].shape = req[r].shape
      /\ Store!Submit(r, "create", i)
  BY Attempted
<1>3. /\ \A p \in Request \ {r} : job'[p] = job[p]
      /\ job'[r].op = "create" /\ job'[r].id = i /\ job'[r].pc = "queued"
  BY <1>2, Submitted
<1>4. AnswerInv(r)'
  BY <1>2 DEF AnswerInv, Refusals
<1>5. ~IsView(req[r].shape) /\ ~IsHealth(req[r].shape) /\ ~IsWipe(req[r].shape)
  BY DEF IsUpload, IsView, IsHealth, IsWipe
<1>6. HandlerInv(r)'
  BY <1>2, <1>3, <1>4, <1>5 DEF HandlerInv, Suits
<1> QED
  BY <1>1, <1>2, <1>3, <1>6, HandlerApart

\* What handlers do when they go on.
LEMMA HandleKeepsHandlers ==
    ASSUME ServerInv, NEW r \in Request, Handle(r), NEW q \in Request
    PROVE  HandlerInv(q)'
<1>1. HandlerInv(r)
  BY DEF ServerInv
<1>2. CASE BodyRead(r)
  <2>1. /\ req[r].stage = "reading" /\ IsUpload(req[r].shape) /\ req[r].status = 0
        /\ req[r].link = None
        /\ job[r].pc = "idle" /\ job[r].result = "none" /\ ~IsView(req[r].shape)
    BY <1>1, <1>2 DEF BodyRead, HandlerInv, ServerInv, P!Remembered, P!NoEarlyResult,
       IsUpload, IsView
  <2>2. ASSUME NEW status \in {400, 413, 500}, Answer(r, status, None), UNCHANGED store
        PROVE  HandlerInv(q)'
    BY <2>1, <2>2, AnswerKeepsHandlers
  <2> QED
    BY <1>2, <2>1, <2>2, AttemptKeepsHandlers DEF BodyRead, NoRandomness
<1>3. CASE Created(r)
  <2>1. job[r].op = "create" /\ job[r].result = "ok" /\ job[r].id = req[r].id
    BY <1>1, <1>3 DEF Created, Awaits, HandlerInv
  <2> QED
    BY <1>3, <2>1, AnswerKeepsHandlers DEF Created, Refusals
<1>4. CASE Retry(r) \/ GiveUp(r)
  <2>1. /\ IsUpload(req[r].shape) /\ req[r].status = 0 /\ req[r].link = None
        /\ job[r].pc = "done" /\ job[r].result = "id_collision"
    BY <1>1, <1>4 DEF Retry, GiveUp, Awaits, HandlerInv, Suits
  <2>2. ASSUME Answer(r, 500, None), UNCHANGED store
        PROVE  HandlerInv(q)'
    BY <2>1, <2>2, AnswerKeepsHandlers
  <2> QED
    BY <1>4, <2>1, <2>2, AttemptKeepsHandlers DEF Retry, GiveUp, NoRandomness
<1>5. CASE Finish(r)
  <2>1. ASSUME NEW o, NEW result, NEW status, Awaits(r, o, result), Answer(r, status, None),
               UNCHANGED store,
               status # 201,
               status \in Refusals => result # "ok",
               status = 204 => o = "wipe" /\ result = "ok",
               status = 404 => o = "get" /\ result = "not_found",
               status = 200 /\ o = "get" => result = "ok"
        PROVE  HandlerInv(q)'
    <3>1. /\ job[r].op = o /\ job[r].result = result /\ job[r].pc = "done"
          /\ IsView(req[r].shape) <=> o = "get"
      BY <1>1, <2>1 DEF Awaits, HandlerInv, Suits
    <3> QED
      BY <2>1, <3>1, AnswerKeepsHandlers
  <2>2. CASE Concludes(r, "create", CreateStatus)
    BY <1>5, <2>1, <2>2 DEF Finish, Concludes, CreateStatus, Refusals
  <2>3. CASE Concludes(r, "get", GetStatus)
    BY <1>5, <2>1, <2>3 DEF Finish, Concludes, GetStatus, Refusals
  <2>4. CASE Concludes(r, "health", HealthStatus)
    BY <1>5, <2>1, <2>4 DEF Finish, Concludes, HealthStatus, Refusals
  <2>5. CASE Concludes(r, "wipe", WipeStatus)
    BY <1>5, <2>1, <2>5 DEF Finish, Concludes, WipeStatus, Refusals
  <2> QED
    BY <1>5, <2>2, <2>3, <2>4, <2>5 DEF Finish
<1> QED
  BY <1>2, <1>3, <1>4, <1>5 DEF Handle

\* All steps.
LEMMA HandlersStep ==
    ASSUME ServerInv, [Next]_vars, NEW q \in Request
    PROVE  HandlerInv(q)'
<1>1. HandlerInv(q)
  BY DEF ServerInv
<1>2. ASSUME NEW r \in Request, Timeout(r)
      PROVE  HandlerInv(q)'
  BY <1>2, AnswerKeepsHandlers DEF Timeout, Refusals
<1>3. ASSUME NEW r \in Request, Disconnect(r)
      PROVE  HandlerInv(q)'
  <2>1. /\ \A p \in Request \ {r} : req'[p] = req[p]
        /\ req[r].stage \in {"reading", "waiting"}
        /\ req'[r] = [req[r] EXCEPT !.stage = "gone"]
        /\ job' = job
    BY <1>3, Types DEF Disconnect, Suspended, store
  <2>2. req'[r].stage = "gone" /\ req'[r].status = req[r].status
    BY <2>1, Types DEF Handler
  <2>3. req'[r].status = 0
    BY <2>1, <2>2 DEF ServerInv, HandlerInv
  <2>4. HandlerInv(r)'
    <3>1. HandlerInv(r) /\ req'[r].shape = req[r].shape
      BY <2>1, Types DEF ServerInv, Handler
    <3> QED
      BY <2>1, <2>2, <2>3, <3>1 DEF HandlerInv, AnswerInv, Refusals, Suits
  <2> QED
    BY <1>1, <2>1, <2>4, HandlerApart
<1>4. ASSUME NEW c \in Request, Work(c) \/ Fault(c)
      PROVE  HandlerInv(q)'
  <2>1. CASE q # c
    BY <1>1, <1>4, <2>1, Worked, HandlerApart
  <2>2. CASE q = c
    <3>1. /\ req'[c] = req[c]
          /\ job[c].pc \notin {"idle", "done", "lost"} /\ job[c].result = "none"
          /\ job'[c].op = job[c].op /\ job'[c].id = job[c].id
          /\ job'[c].pc # "idle"
      BY <1>4, Worked
    <3>2. AnswerInv(c)'
      BY <1>1, <2>2, <3>1 DEF HandlerInv, AnswerInv
    <3> QED
      BY <1>1, <2>2, <3>1, <3>2 DEF HandlerInv, Suits
  <2> QED
    BY <2>1, <2>2
<1>5. CASE Halt
  <2>1. /\ job'[q].op = job[q].op /\ job'[q].id = job[q].id
        /\ job'[q].result = job[q].result
        /\ job'[q].pc = IF job[q].pc = "idle" THEN "idle" ELSE "lost"
        /\ req'[q] = IF Suspended(q) THEN [req[q] EXCEPT !.stage = "gone"] ELSE req[q]
    BY <1>5, Halted
  <2>2. CASE Suspended(q)
    <3>1. /\ req'[q].stage = "gone" /\ req'[q].status = 0
          /\ req'[q].shape = req[q].shape /\ req'[q].link = None
      BY <1>1, <2>1, <2>2, Types DEF Suspended, HandlerInv, Handler
    <3> QED
      BY <1>1, <2>1, <3>1 DEF HandlerInv, AnswerInv, Refusals, Suits
  <2>3. CASE ~Suspended(q)
    <3>1. req'[q] = req[q]
      BY <2>1, <2>3
    <3>2. AnswerInv(q)'
      BY <1>1, <2>1, <3>1 DEF HandlerInv, AnswerInv
    <3> QED
      BY <1>1, <2>1, <3>1, <3>2 DEF HandlerInv, Suits, Suspended
  <2> QED
    BY <2>2, <2>3
<1>6. CASE Start
  BY <1>1, <1>6, SameEnvironment, HandlerApart DEF Start, P!Open
<1>7. CASE UNCHANGED vars
  BY <1>1, <1>7, HandlerApart DEF vars
<1> QED
  BY <1>2, <1>3, <1>4, <1>5, <1>6, <1>7, ArrivalKeepsHandlers, HandleKeepsHandlers DEF Next

-----------------------------------------------------------------------------
(* Witnesses.                                                              *)

\* What a step may do to the store.
LEMMA StepKinds ==
    ASSUME [Next]_vars
    PROVE  \/ UNCHANGED store
           \/ \E c \in Request, o \in P!Operation, i \in PlanId \cup {None} :
                  Store!Submit(c, o, i)
           \/ \E c \in Request : Work(c) \/ Fault(c)
           \/ Halt
           \/ Start
<1> DEFINE Submits(c) == \E o \in P!Operation, i \in PlanId \cup {None} : Store!Submit(c, o, i)
<1>1. {"create", "get", "wipe", "health"} \subseteq P!Operation
  BY DEF P!Operation
<1>2. ASSUME NEW r \in Request, Arrive(r)
      PROVE  UNCHANGED store \/ Submits(r)
  BY <1>1, <1>2 DEF Arrive, AnswerAtOnce, AwaitBody, View, Health, Wipe
<1>3. ASSUME NEW r \in Request, Handle(r)
      PROVE  UNCHANGED store \/ Submits(r)
  BY <1>1, <1>3 DEF Handle, BodyRead, NoRandomness, Attempt, Created, Retry, GiveUp, Finish
<1>4. ASSUME NEW r \in Request, Timeout(r) \/ Disconnect(r)
      PROVE  UNCHANGED store
  BY <1>4 DEF Timeout, Disconnect
<1>5. CASE UNCHANGED vars
  BY <1>5 DEF vars, store
<1> QED
  BY <1>2, <1>3, <1>4, <1>5 DEF Next

\* A final result stands.
LEMMA ResultsStand ==
    ASSUME ServerInv, [Next]_vars, NEW d \in Request, job[d].result \notin {"none", "id_collision"}
    PROVE  /\ job'[d].op = job[d].op /\ job'[d].id = job[d].id
           /\ job'[d].result = job[d].result /\ job'[d].payload = job[d].payload
<1>1. job[d].pc # "idle"
  BY DEF ServerInv, P!Remembered, P!NoEarlyResult
<1>2. ASSUME NEW c \in Request, NEW o, NEW i, Store!Submit(c, o, i)
      PROVE  job'[d] = job[d]
  BY <1>1, <1>2, Submitted
<1>3. ASSUME NEW c \in Request, Work(c) \/ Fault(c)
      PROVE  job'[d] = job[d]
  BY <1>3, Worked
<1>4. CASE UNCHANGED store
  BY <1>4 DEF store
<1>5. CASE Halt
  BY <1>5, Halted
<1>6. CASE Start
  BY <1>6, SameEnvironment DEF Start, P!Open
<1> QED
  BY <1>2, <1>3, <1>4, <1>5, <1>6, StepKinds

\* A result is there before the step, or comes of it.
LEMMA NewResults ==
    ASSUME ServerInv, [Next]_vars, NEW d \in Request, job'[d].result # "none"
    PROVE  \/ job'[d].result = job[d].result
           \/ P!Work(d) \/ P!SqlError(d) \/ P!Panic(d)
<1>1. ASSUME NEW c \in Request, NEW o, NEW i, Store!Submit(c, o, i)
      PROVE  job'[d].result = "none" \/ job'[d] = job[d]
  BY <1>1, Submitted
<1>2. ASSUME NEW c \in Request, Work(c) \/ Fault(c)
      PROVE  job'[d] = job[d] \/ P!Work(d) \/ P!SqlError(d) \/ P!Panic(d)
  BY <1>2, Worked
<1>3. CASE UNCHANGED store
  BY <1>3 DEF store
<1>4. CASE Halt
  BY <1>4, Halted
<1>5. CASE Start
  BY <1>5, SameEnvironment DEF Start, P!Open
<1> QED
  BY <1>1, <1>2, <1>3, <1>4, <1>5, StepKinds

\* What a request witnesses is fixed when it arrives, before its job.
LEMMA WitnessesAreFixed ==
    ASSUME ServerInv, [Next]_vars, NEW q \in Request
    PROVE  \/ before'[q] = before[q]
           \/ before'[q] = fate /\ job[q].result = "none" /\ job'[q].result = "none"
<1>1. ASSUME NEW r \in Request, Arrive(r)
      PROVE  \/ before'[q] = before[q]
             \/ before'[q] = fate /\ job[q].result = "none" /\ job'[q].result = "none"
  <2>1. PICK s \in Traffic : \/ AnswerAtOnce(r, s) \/ AwaitBody(r, s) \/ Health(r, s)
                             \/ Wipe(r, s) \/ \E i \in PlanId : View(r, s, i)
    BY <1>1 DEF Arrive
  <2>2. \E stage, status : Begin(r, s, stage, status)
    BY <2>1 DEF AnswerAtOnce, AwaitBody, Health, Wipe, View
  <2>3. /\ r # q => before'[q] = before[q]
        /\ req[r].stage = "idle" /\ before'[r] = fate
    BY <2>2, Begun
  <2>4. job[r].result = "none"
    BY <2>3 DEF ServerInv, HandlerInv, P!Remembered, P!NoEarlyResult
  <2>5. CASE AnswerAtOnce(r, s) \/ AwaitBody(r, s)
    BY <2>3, <2>4, <2>5 DEF AnswerAtOnce, AwaitBody, store
  <2>6. ASSUME NEW o, NEW i, Store!Submit(r, o, i)
        PROVE  job'[r].result = "none"
    BY <2>6, Submitted
  <2>7. CASE Health(r, s) \/ Wipe(r, s) \/ \E i \in PlanId : View(r, s, i)
    BY <2>3, <2>4, <2>6, <2>7 DEF Health, Wipe, View
  <2> QED
    BY <2>1, <2>5, <2>7
<1>2. ASSUME NEW r \in Request, Handle(r) \/ Timeout(r) \/ Disconnect(r)
      PROVE  before' = before
  BY <1>2 DEF Handle, BodyRead, NoRandomness, Attempt, Created, Retry, GiveUp, Finish,
     Concludes, Answer, Timeout, Disconnect
<1>3. ASSUME NEW r \in Request, Work(r) \/ Fault(r)
      PROVE  before' = before
  BY <1>3 DEF Work, Fault
<1>4. CASE Halt \/ Start \/ UNCHANGED vars
  BY <1>4 DEF Halt, Start, vars
<1> QED
  BY <1>1, <1>2, <1>3, <1>4 DEF Next

\* All steps.
LEMMA WitnessStep ==
    ASSUME ServerInv, [Next]_vars, NEW q \in Request, NEW p \in Request
    PROVE  WitnessInv(q, p)'
<1>1. P!StoreInv /\ P!Remembered /\ [P!Next]_(P!vars) /\ WitnessInv(q, p)
  BY StepOfStore DEF ServerInv
<1>2. /\ fate[p] # "unsaved" => fate'[p] # "unsaved"
      /\ fate[p] = "erased" => fate'[p] = "erased"
      /\ fate[p] = "lost" => fate'[p] \in {"lost", "erased"}
      /\ fate'[p] = "saved" => fate[p] \in {"unsaved", "saved"}
  BY <1>1, Constants, P!FatesAge
<1>3. /\ before'[q][p] # "unsaved" => fate[p] # "unsaved"
      /\ before'[q][p] = "erased" => fate[p] = "erased"
      /\ before'[q][p] = "lost" => fate[p] \in {"lost", "erased"}
  BY <1>1, WitnessesAreFixed DEF WitnessInv
<1>4. /\ before'[q][p] # "unsaved" => fate'[p] # "unsaved"
      /\ before'[q][p] = "erased" => fate'[p] = "erased"
      /\ before'[q][p] = "lost" => fate'[p] \in {"lost", "erased"}
  BY <1>2, <1>3
<1>5. ASSUME fate[p] = "saved"
      PROVE  job[p].op = "create" /\ job'[p].id = job[p].id
  <2>1. job[p].op = "create" /\ job[p].result = "ok"
    BY <1>1, <1>5 DEF P!StoreInv, P!OnlyOkSaves
  <2> QED
    BY <2>1, ResultsStand
<1>6. CASE job'[q].result \in {"none", "id_collision", "at_capacity", "other"}
  BY <1>4, <1>6 DEF WitnessInv
<1>7. CASE job'[q].result \notin {"none", "id_collision"} /\ job[q].result \notin {"none", "id_collision"}
  <2>1. before'[q] = before[q]
    BY <1>7, WitnessesAreFixed
  <2>2. /\ job'[q].op = job[q].op /\ job'[q].id = job[q].id
        /\ job'[q].result = job[q].result /\ job'[q].payload = job[q].payload
    BY <1>7, ResultsStand
  <2>3. job[q].op = "wipe" /\ job[q].result = "ok" /\ before[q][p] # "unsaved" =>
            fate'[p] = "erased"
    BY <1>1, <1>2 DEF WitnessInv
  <2>4. job[q].op = "get" /\ job[q].result = "not_found"
            /\ before[q][p] = "saved" /\ fate'[p] = "saved" =>
                job'[p].id # job[q].id
    BY <1>1, <1>2, <1>3, <1>5, <2>1 DEF WitnessInv
  <2>5. job[q].op = "get" /\ job[q].result = "ok" /\ job[q].payload = p =>
            before[q][p] \notin {"erased", "lost"}
    BY <1>1 DEF WitnessInv
  <2> QED
    BY <1>4, <2>1, <2>2, <2>3, <2>4, <2>5 DEF WitnessInv
<1>8. CASE job'[q].result # "none" /\ (P!Work(q) \/ P!SqlError(q) \/ P!Panic(q))
  <2>1. /\ job'[q].op = "wipe" /\ job'[q].result = "ok" =>
             \A c \in Request : fate[c] # "unsaved" => fate'[c] = "erased"
        /\ job'[q].op = "get" /\ job'[q].result = "not_found" =>
             /\ fate' = fate
             /\ \A c \in Request : fate[c] = "saved" => job[c].id # job[q].id
        /\ job'[q].op = "get" /\ job'[q].result = "ok" =>
             /\ fate' = fate
             /\ fate[job'[q].payload] \notin {"unsaved", "erased", "lost"}
    BY <1>1, <1>8, Constants, P!Outcomes
  <2>2. job'[q].id = job[q].id
    BY <1>1, <1>8, Constants, P!JobsAreApart
  <2>3. job'[q].op = "wipe" /\ job'[q].result = "ok" /\ before'[q][p] # "unsaved" =>
            fate'[p] = "erased"
    BY <1>3, <2>1
  <2>4. job'[q].op = "get" /\ job'[q].result = "not_found" /\ fate'[p] = "saved" =>
            job'[p].id # job'[q].id
    BY <1>5, <2>1, <2>2
  <2>5. job'[q].op = "get" /\ job'[q].result = "ok" /\ job'[q].payload = p =>
            before'[q][p] \notin {"erased", "lost"}
    BY <1>3, <2>1
  <2> QED
    BY <1>4, <2>3, <2>4, <2>5 DEF WitnessInv
<1> QED
  BY <1>6, <1>7, <1>8, NewResults

-----------------------------------------------------------------------------
(* The theorems.                                                           *)

\* The process that ends takes its handlers with it.
LEMMA AttendedStep ==
    ASSUME ServerInv, [Next]_vars
    PROVE  Attended'
<1>1. Attended
  BY DEF ServerInv
<1>2. CASE Halt
  <2>1. \A r \in Request : req'[r] = IF Suspended(r) THEN [req[r] EXCEPT !.stage = "gone"]
                                     ELSE req[r]
    BY <1>2, Halted
  <2> QED
    BY <1>1, <2>1, Types DEF Attended, Suspended, Handler
<1>3. ASSUME NEW r \in Request, Arrive(r) \/ Handle(r) \/ Timeout(r) \/ Disconnect(r)
      PROVE  running /\ running' = running
  BY <1>3 DEF Arrive, AnswerAtOnce, AwaitBody, View, Health, Wipe, Begin, Store!Submit, store,
     Handle, BodyRead, Attempt, NoRandomness, Created, Retry, GiveUp, Finish, Concludes,
     Awaits, Timeout, Disconnect, Suspended
<1>4. ASSUME NEW r \in Request, Work(r) \/ Fault(r)
      PROVE  running' = running /\ req' = req
  BY <1>4 DEF Work, Fault, Store!Work, Store!Acquire, Store!FindPoisoned, Store!CheckCapacity,
     Store!InsertPlan, Store!CommitPlan, Store!ReadPlan, Store!CheckHealth,
     Store!DeletePlans, Store!TruncateWal, Store!Vacuum, Store!Return, Store!Advance,
     Store!SqlError, Store!Panic
<1>5. CASE Start
  BY <1>5 DEF Start, Store!Open, Attended
<1>6. CASE UNCHANGED vars
  BY <1>1, <1>6 DEF vars, Attended
<1> QED
  BY <1>1, <1>2, <1>3, <1>4, <1>5, <1>6 DEF Next, Attended

\* Every step preserves the inductive invariant.
LEMMA StepPreserves == ServerInv /\ [Next]_vars => ServerInv'
<1> SUFFICES ASSUME ServerInv, [Next]_vars PROVE ServerInv'
  OBVIOUS
<1>1. P!StoreInv' /\ P!Remembered'
  BY Constants, StepOfStore, P!StepPreserves, P!RememberedStep DEF ServerInv
<1>2. TypeOK'
  BY <1>1, TypesStep
<1>3. \A r \in Request : HandlerInv(r)'
  BY HandlersStep
<1>4. \A r, p \in Request : WitnessInv(r, p)'
  BY WitnessStep
<1> QED
  BY <1>1, <1>2, <1>3, <1>4, AttendedStep DEF ServerInv

\* The inductive invariant of the server holds, for any requests, identifiers,
\* limits, traffic and number of attempts.
THEOREM Invariance == Spec => []ServerInv
BY InitEstablishes, StepPreserves, PTL DEF Spec

\* Every variable of the server and of its store keeps its type.
THEOREM TypeCorrect == Spec => []TypeOK
BY Invariance, PTL DEF ServerInv

\* The permalink of a 201 leads to the plan of that upload (Created, after the
\* loop of handle_create).
THEOREM LinksLead == Spec => []LinkLeadsToPlan
<1>1. ServerInv => LinkLeadsToPlan
  <2> SUFFICES ASSUME ServerInv, NEW r \in Request, req[r].status = 201
               PROVE  /\ fate[r] # "unsaved"
                      /\ fate[r] = "saved" =>
                             [id |-> req[r].link, plan |-> r] \in Store!Stored
    BY DEF LinkLeadsToPlan
  <2>1. job[r].op = "create" /\ job[r].result = "ok" /\ job[r].id = req[r].link
    BY DEF ServerInv, HandlerInv, AnswerInv
  <2>2. fate[r] # "unsaved"
    BY <2>1 DEF ServerInv, P!Remembered, P!SavesAreKnown
  <2>3. fate[r] = "saved" => [id |-> job[r].id, plan |-> r] \in Store!Stored
    BY SameState DEF ServerInv, P!StoreInv, P!SavedPlansArePresent
  <2> QED
    BY <2>1, <2>2, <2>3
<1> QED
  BY <1>1, Invariance, PTL

\* A refused upload has stored nothing, and no job of it is left that could.
THEOREM RefusalsAreFinal == Spec => []RefusalHasNoEffect
<1>1. ServerInv => RefusalHasNoEffect
  <2> SUFFICES ASSUME ServerInv, NEW r \in Request, req[r].status \in Refusals,
                      IsUpload(req[r].shape)
               PROVE  fate[r] = "unsaved" /\ job[r].pc \in {"idle", "done", "lost"}
    BY DEF RefusalHasNoEffect, Refusals
  <2>1. job[r].pc \in {"idle", "done", "lost"} /\ job[r].result # "ok"
    BY DEF ServerInv, HandlerInv, AnswerInv
  <2> QED
    BY <2>1 DEF ServerInv, P!StoreInv, P!OnlyOkSaves
<1> QED
  BY <1>1, Invariance, PTL

\* What a view answers was true at some moment between its arrival and its
\* answer, however long its job waited for the mutex.
THEOREM ViewsLinearize == Spec => []ViewsAreCurrent
<1>1. ServerInv => ViewsAreCurrent
  BY DEF ServerInv, HandlerInv, AnswerInv, WitnessInv, ViewsAreCurrent
<1> QED
  BY <1>1, Invariance, PTL

\* A 204 to a wipe says that every plan stored when it came is erased.
THEOREM WipesErase == Spec => []WipeAnsweredErases
<1>1. ServerInv => WipeAnsweredErases
  BY DEF ServerInv, HandlerInv, AnswerInv, WitnessInv, WipeAnsweredErases
<1> QED
  BY <1>1, Invariance, PTL

\* The server is a client of its store that keeps to the rules.
LEMMA ServesStore == Spec => P!Steps
<1>1. Init => P!Init
  BY SameState DEF Init
<1> QED
  BY <1>1, StepOfStore, PTL DEF Spec, P!Steps

\* Behind the server, with requests that time out, retry and leave their jobs
\* behind, the store is still the bounded set of plans with atomic calls.
THEOREM ServesPlanSpace == Spec => P!ImplementsPlanSpace
<1>1. P!Steps => P!ImplementsPlanSpace
  BY P!StepsRefine, Constants
<1> QED
  BY <1>1, ServesStore, PTL

\* No request takes the table beyond the limit, changes what is behind a
\* permalink, or gets at the database after a panic.
THEOREM ServesWithinLimits ==
    Spec => P!CapacityRespected /\ P!PlansAreImmutable /\ P!PoisonIsFailStop
<1>1. P!Steps => P!CapacityRespected /\ P!PlansAreImmutable /\ P!PoisonIsFailStop
  BY P!StepsRespectCapacity, P!StepsKeepRows, P!StepsFailStop, Constants
<1> QED
  BY <1>1, ServesStore, PTL

-----------------------------------------------------------------------------
(* The refinement of PlanService.  What the store does is known from       *)
(* PlanSpace; here it is what that means to the request whose job it is.   *)

\* The space that clients see is that of the store.
LEMMA SameSpace ==
    /\ Store!Stored = P!Stored /\ Past = P!Past
    /\ (Store!Stored = P!Stored)' /\ (Past = P!Past)'
<1>1. Store!Stored = P!Stored /\ Past = P!Past
  BY SameState DEF Past, P!Past, Store!Recoverable, P!Recoverable
<1>2. (Store!Stored = P!Stored /\ Past = P!Past)'
  BY <1>1, PTL
<1> QED
  BY <1>1, <1>2

\* Plans are counted in the same way.
LEMMA SameCount ==
    ASSUME NEW T
    PROVE  Service!Cardinality(T) = P!Space!Cardinality(T)
BY Zenon DEF Service!Cardinality, Service!IsFiniteSet, P!Space!Cardinality, P!Space!IsFiniteSet

\* A call of the store is a job.
LEMMA CallIsJob ==
    ASSUME NEW r \in Request
    PROVE  /\ P!Calls[r].op = job[r].op /\ P!Calls[r].id = job[r].id
           /\ P!Calls[r].result = job[r].result /\ P!Calls[r].payload = job[r].payload
           /\ P!Calls[r].stage = IF job[r].pc \in {"queued"} \cup P!Holding THEN "pending"
                                 ELSE job[r].pc
BY DEF P!Calls, P!CallOf

\* What a request wishes is what its job does.
LEMMA WishIsOperation ==
    ASSUME ServerInv, NEW r \in Request, job[r].pc # "idle"
    PROVE  /\ job[r].op = "create" <=> Wish(req[r].shape) = "upload"
           /\ job[r].op = "get" <=> Wish(req[r].shape) = "view"
           /\ job[r].op = "health" <=> Wish(req[r].shape) = "health"
           /\ job[r].op = "wipe" <=> Wish(req[r].shape) = "wipe"
BY DEF ServerInv, HandlerInv, Suits, Wish

\* A step of one request, or of its job, is of no concern to the others.
LEMMA OneRequest ==
    ASSUME NEW r \in Request, \A q \in Request \ {r} : req'[q] = req[q] /\ job'[q] = job[q]
    PROVE  /\ Clients' = [Clients EXCEPT ![r] = Client(r)']
           /\ Deeds' = [Deeds EXCEPT ![r] = Deed(r)']
<1>1. \A q \in Request \ {r} : Client(q)' = Client(q) /\ Deed(q)' = Deed(q)
  BY DEF Client, Deed, Outcome, Alive
<1> QED
  BY <1>1 DEF Clients, Deeds

\* The clients and the deeds, one by one.
LEMMA OneByOne ==
    ASSUME NEW r \in Request
    PROVE  /\ Clients[r].wish = Wish(req[r].shape)
           /\ Clients[r].stage = StageOf(req[r].stage)
           /\ Clients[r].status = req[r].status
           /\ Clients[r].link = req[r].link
           /\ Deeds[r] = Deed(r)
           /\ Deeds[r].outcome = Outcome(r)
BY DEF Clients, Client, Deeds, Deed

\* Before a job has a result its request is pending, and a step of the job
\* is no concern of any client.
LEMMA WorkIsPending ==
    ASSUME ServerInv, NEW r \in Request, Work(r) \/ Fault(r)
    PROVE  /\ running /\ Clients' = Clients
           /\ Deeds[r].outcome = "pending" /\ Clients[r].wish = Wish(req[r].shape)
           /\ Deeds' = [Deeds EXCEPT ![r] = Deed(r)']
<1>1. running
  BY DEF Work, Fault, Store!Work, Store!Acquire, Store!FindPoisoned, Store!CheckCapacity,
     Store!InsertPlan, Store!CommitPlan, Store!ReadPlan, Store!CheckHealth,
     Store!DeletePlans, Store!TruncateWal, Store!Vacuum, Store!At, Store!SqlError, Store!Panic
<1>2. /\ req' = req
      /\ \A q \in Request \ {r} : job'[q] = job[q]
      /\ job[r].result = "none" /\ job[r].pc \notin {"idle", "done", "lost"}
  BY Worked
<1>3. Outcome(r) = "pending"
  <2>1. req[r].stage # "idle"
    BY <1>2 DEF ServerInv, HandlerInv
  <2>2. job[r].pc \in {"queued"} \cup Store!Holding
    BY <1>2, Types DEF P!Job, P!Place, P!Holding, Store!Holding
  <2> QED
    BY <1>2, <2>1, <2>2 DEF Outcome, Alive
<1>4. Deeds' = [Deeds EXCEPT ![r] = Deed(r)']
  BY <1>2, OneRequest
<1>5. Clients' = Clients
  BY <1>2 DEF Clients, Client
<1> QED
  BY <1>1, <1>3, <1>4, <1>5, OneByOne

\* What a job that answers makes of the request.
LEMMA JobAnswers ==
    ASSUME ServerInv, NEW r \in Request, NEW result, NEW plan, P!Space!Answer(r, result, plan)
    PROVE  /\ running /\ UNCHANGED <<maxPlans, running>>
           /\ job'[r].pc = "done" /\ job'[r].result = result /\ job'[r].payload = plan
<1>1. P!Calls' = [P!Calls EXCEPT ![r].stage = "done", ![r].result = result,
                                 ![r].payload = plan]
  BY DEF P!Space!Answer
<1>2. P!Calls[r] = [op |-> job[r].op, id |-> job[r].id, result |-> job[r].result,
                    payload |-> job[r].payload,
                    stage |-> IF job[r].pc \in {"queued"} \cup P!Holding THEN "pending"
                              ELSE job[r].pc]
  BY DEF P!Calls, P!CallOf
<1>3. r \in DOMAIN P!Calls
  BY DEF P!Calls
<1>4. /\ P!Calls'[r].stage = "done" /\ P!Calls'[r].result = result
      /\ P!Calls'[r].payload = plan
  BY <1>1, <1>2, <1>3
<1>5. /\ P!Calls'[r].result = job'[r].result /\ P!Calls'[r].payload = job'[r].payload
      /\ P!Calls'[r].stage = IF job'[r].pc \in {"queued"} \cup P!Holding THEN "pending"
                             ELSE job'[r].pc
  BY DEF P!Calls, P!CallOf
<1> QED
  BY <1>4, <1>5 DEF P!Space!Answer

\* The job of a request ends in a result that concludes the request.
LEMMA JobConcludes ==
    ASSUME ServerInv, NEW r \in Request, Work(r) \/ Fault(r),
           NEW result \in {"ok", "at_capacity", "not_found", "other"}, NEW plan,
           P!Space!Answer(r, result, plan)
    PROVE  /\ Service!Pending(r, Wish(req[r].shape))
           /\ Service!Deed(r, IF result = "other" THEN "failed" ELSE result,
                           IF IsView(req[r].shape) \/ (IsUpload(req[r].shape) /\ result = "ok")
                           THEN job[r].id ELSE None,
                           IF IsView(req[r].shape) /\ result = "ok" THEN plan ELSE None)
<1>1. /\ running /\ UNCHANGED <<maxPlans, running>>
      /\ job'[r].pc = "done" /\ job'[r].result = result /\ job'[r].payload = plan
  BY JobAnswers
<1>2. /\ req' = req /\ job'[r].id = job[r].id /\ job[r].pc # "idle"
  BY Worked
<1>3. req[r].stage # "idle"
  BY <1>2 DEF ServerInv, HandlerInv
<1>4. Outcome(r)' = IF result = "other" THEN "failed" ELSE result
  BY <1>1, <1>2, <1>3 DEF Outcome
<1>5. Deed(r)' = [outcome |-> IF result = "other" THEN "failed" ELSE result,
                  id |-> IF IsView(req[r].shape) \/ (IsUpload(req[r].shape) /\ result = "ok")
                         THEN job[r].id ELSE None,
                  plan |-> IF IsView(req[r].shape) /\ result = "ok" THEN plan ELSE None]
  BY <1>1, <1>2, <1>4 DEF Deed
<1> QED
  BY <1>1, <1>5, WorkIsPending DEF Service!Pending, Service!Deed

\* The identifier of a request whose job has no result is that of a view.
LEMMA PendingId ==
    ASSUME ServerInv, NEW r \in Request, Work(r) \/ Fault(r)
    PROVE  Deeds[r].id = IF IsView(req[r].shape) THEN job[r].id ELSE None
BY Worked DEF Deeds, Deed

\* The commit of a plan is the effect of its upload.
LEMMA PublishServes ==
    ASSUME ServerInv, NEW r \in Request, Work(r), P!Space!Publish(r)
    PROVE  Service!Publish(r)
<1>1. P!Space!Answer(r, "ok", None) /\ job[r].op = "create" /\ job[r].id \notin P!Space!Taken
  BY CallIsJob DEF P!Space!Publish
<1>2. Wish(req[r].shape) = "upload" /\ IsUpload(req[r].shape) /\ ~IsView(req[r].shape)
  BY <1>1, Worked, WishIsOperation DEF Wish, IsUpload, IsView, ServerInv, HandlerInv, Suits
<1>3. Service!Pending(r, "upload") /\ Service!Deed(r, "ok", job[r].id, None)
  BY <1>1, <1>2, JobConcludes
<1>4. job[r].id \in PlanId
  BY <1>1, <1>2, Worked, Types DEF ServerInv, P!StoreInv, P!CreatesAreNamed
<1>5. P!Space!Taken = Service!Taken
  BY SameSpace DEF P!Space!Taken, Service!Taken
<1>6. /\ Service!Cardinality(Store!Stored) < maxPlans
      /\ Store!Stored' = Store!Stored \cup {[id |-> job[r].id, plan |-> r]}
  BY SameSpace, SameCount, CallIsJob DEF P!Space!Publish
<1>7. Service!Remember
  BY SameSpace DEF P!Space!Publish, P!Space!Remember, Service!Remember
<1> QED
  BY <1>1, <1>3, <1>4, <1>5, <1>6, <1>7 DEF Service!Publish

\* A refusal is the outcome of the request, unless it is a collision and the
\* handler is there to try again.
LEMMA RefuseServes ==
    ASSUME ServerInv, NEW r \in Request, Work(r) \/ Fault(r), P!Space!Refuse(r)
    PROVE  \/ Service!Reject(r) \/ Service!Fail(r) \/ UNCHANGED Service!vars
<1>1. UNCHANGED <<Store!Stored, Past>>
  BY SameSpace DEF P!Space!Refuse
<1>2. Wish(req[r].shape) \in {"upload", "view", "health", "wipe"}
  BY Worked, WishIsOperation, Types DEF P!Job, P!Operation
<1>3. PICK result \in {"at_capacity", "id_collision", "other"} :
        /\ P!Space!Answer(r, result, None)
        /\ result # "other" => job[r].op = "create"
        /\ result = "at_capacity" => Service!Cardinality(Store!Stored) >= maxPlans
  BY CallIsJob, SameSpace, SameCount DEF P!Space!Refuse
<1>4. UNCHANGED <<maxPlans, running>>
  BY <1>3, JobAnswers
<1>5. CASE result = "at_capacity"
  <2>1. Wish(req[r].shape) = "upload" /\ IsUpload(req[r].shape) /\ ~IsView(req[r].shape)
    BY <1>3, <1>5, Worked, WishIsOperation
       DEF Wish, IsUpload, IsView, ServerInv, HandlerInv, Suits
  <2>2. Service!Pending(r, "upload") /\ Service!Deed(r, "at_capacity", None, None)
    BY <1>3, <1>5, <2>1, JobConcludes
  <2> QED
    BY <1>1, <1>3, <1>4, <1>5, <2>2 DEF Service!Reject, Service!plans
<1>6. CASE result = "other"
  <2>1. /\ Service!Pending(r, Wish(req[r].shape))
        /\ Service!Deed(r, "failed", Deeds[r].id, None)
    BY <1>3, <1>6, JobConcludes, PendingId
  <2> QED
    BY <1>1, <1>2, <1>4, <2>1 DEF Service!Fail, Service!Fails, Service!plans
<1>7. CASE result = "id_collision"
  <2>1. /\ job'[r].pc = "done" /\ job'[r].result = "id_collision" /\ running
        /\ req' = req /\ job[r].result = "none" /\ job'[r].id = job[r].id
    BY <1>3, <1>7, JobAnswers, Worked
  <2>2. ~IsView(req[r].shape) /\ Wish(req[r].shape) = "upload"
    BY <1>3, <1>7, Worked, WishIsOperation
       DEF Wish, IsUpload, IsView, ServerInv, HandlerInv, Suits
  <2>3. Outcome(r)' \in {"pending", "failed"}
    BY <2>1, Worked DEF Outcome, ServerInv, HandlerInv
  <2>4. Deed(r)' = [outcome |-> Outcome(r)', id |-> None, plan |-> None]
    BY <2>1, <2>2 DEF Deed
  <2>5. Deeds[r].outcome = "pending" /\ Deeds[r].id = None /\ Clients' = Clients
    BY <2>2, WorkIsPending, PendingId
  <2>6. CASE Outcome(r)' = "failed"
    BY <1>1, <1>4, <2>1, <2>2, <2>4, <2>5, <2>6, WorkIsPending
       DEF Service!Fail, Service!Fails, Service!Deed, Service!Pending, Service!plans
  <2>7. CASE Outcome(r)' = "pending"
    <3>1. Deeds[r] = [outcome |-> "pending", id |-> None, plan |-> None]
      BY <2>1, <2>2, <2>5, OneByOne DEF Deed
    <3>2. Deeds' = Deeds
      BY <2>4, <2>7, <3>1, WorkIsPending DEF Deeds
    <3> QED
      BY <1>1, <1>4, <2>5, <3>2 DEF Service!vars
  <2> QED
    BY <2>3, <2>6, <2>7
<1> QED
  BY <1>3, <1>5, <1>6, <1>7

\* The read of a row is the effect of its view.
LEMMA LookServes ==
    ASSUME ServerInv, NEW r \in Request, Work(r), P!Space!Look(r)
    PROVE  Service!Look(r)
<1>1. /\ UNCHANGED <<Store!Stored, Past>> /\ job[r].op = "get"
      /\ P!Space!Taken = Service!Taken
  BY SameSpace, CallIsJob DEF P!Space!Look, P!Space!Taken, Service!Taken
<1>2. /\ Wish(req[r].shape) = "view" /\ IsView(req[r].shape) /\ Deeds[r].id = job[r].id
  BY <1>1, Worked, WishIsOperation, PendingId DEF ServerInv, HandlerInv, Suits
<1>3. CASE job[r].id \notin Service!Taken /\ P!Space!Answer(r, "not_found", None)
  <2>1. Service!Pending(r, "view") /\ Service!Deed(r, "not_found", job[r].id, None)
    BY <1>2, <1>3, JobConcludes
  <2>2. UNCHANGED <<maxPlans, running>>
    BY <1>3, JobAnswers
  <2> QED
    BY <1>1, <1>2, <1>3, <2>1, <2>2 DEF Service!Look, Service!plans
<1>4. ASSUME NEW row \in Store!Stored, row.id = job[r].id,
             P!Space!Answer(r, "ok", row.plan)
      PROVE  Service!Look(r)
  <2>1. Service!Pending(r, "view") /\ Service!Deed(r, "ok", job[r].id, row.plan)
    BY <1>2, <1>4, JobConcludes
  <2>2. UNCHANGED <<maxPlans, running>>
    BY <1>4, JobAnswers
  <2> QED
    BY <1>1, <1>2, <1>4, <2>1, <2>2 DEF Service!Look, Service!plans
<1> QED
  BY <1>1, <1>3, <1>4, SameSpace, CallIsJob DEF P!Space!Look

\* So is a statement that succeeds of a health check,
LEMMA PingServes ==
    ASSUME ServerInv, NEW r \in Request, Work(r), P!Space!Ping(r)
    PROVE  Service!Ping(r)
<1>1. /\ UNCHANGED <<Store!Stored, Past>> /\ job[r].op = "health"
      /\ P!Space!Answer(r, "ok", None)
  BY SameSpace, CallIsJob DEF P!Space!Ping
<1>2. Wish(req[r].shape) = "health" /\ ~IsView(req[r].shape) /\ ~IsUpload(req[r].shape)
  BY <1>1, Worked, WishIsOperation DEF ServerInv, HandlerInv, Suits
<1>3. /\ Service!Pending(r, "health") /\ Service!Deed(r, "ok", None, None)
      /\ UNCHANGED <<maxPlans, running>>
  BY <1>1, <1>2, JobConcludes, JobAnswers
<1> QED
  BY <1>1, <1>3 DEF Service!Ping, Service!plans

\* and the end of the VACUUM of a wipe,
LEMMA WipedServes ==
    ASSUME ServerInv, NEW r \in Request, Work(r), P!Space!Wiped(r)
    PROVE  Service!Wiped(r)
<1>1. /\ UNCHANGED <<Store!Stored, Past>> /\ job[r].op = "wipe"
      /\ Store!Stored = {} /\ Past = {{}}
      /\ P!Space!Answer(r, "ok", None)
  BY SameSpace, CallIsJob DEF P!Space!Wiped
<1>2. Wish(req[r].shape) = "wipe" /\ ~IsView(req[r].shape) /\ ~IsUpload(req[r].shape)
  BY <1>1, Worked, WishIsOperation DEF ServerInv, HandlerInv, Suits
<1>3. /\ Service!Pending(r, "wipe") /\ Service!Deed(r, "ok", None, None)
      /\ UNCHANGED <<maxPlans, running>>
  BY <1>1, <1>2, JobConcludes, JobAnswers
<1> QED
  BY <1>1, <1>3 DEF Service!Wiped, Service!plans

\* What a call shows of its job decides what becomes of the request.
LEMMA HiddenWork ==
    ASSUME ServerInv, ServerInv', NEW r \in Request, Work(r), P!Calls' = P!Calls
    PROVE  Deeds' = Deeds
<1>1. /\ req' = req /\ job[r].result = "none" /\ job[r].pc \notin {"idle", "done", "lost"}
      /\ job'[r].id = job[r].id
  BY Worked
<1>2. job[r].pc \in {"queued"} \cup P!Holding
  BY <1>1, Types DEF P!Job, P!Place
<1>3. /\ P!Calls'[r].result = job'[r].result /\ P!Calls'[r].payload = job'[r].payload
      /\ P!Calls'[r].stage = IF job'[r].pc \in {"queued"} \cup P!Holding THEN "pending"
                             ELSE job'[r].pc
  BY DEF P!Calls, P!CallOf
<1>4. /\ job'[r].result = job[r].result /\ job'[r].payload = job[r].payload
      /\ job'[r].pc \in {"queued", "pending"} \cup P!Holding
  BY <1>2, <1>3, CallIsJob
<1>5. job'[r].pc \in {"queued"} \cup P!Holding
  <2>1. job'[r] \in P!Job
    BY DEF ServerInv, P!StoreInv, P!TypeOK
  <2> QED
    BY <1>4, <2>1 DEF P!Job, P!Place, P!Holding
<1>6. Deed(r)' = Deed(r)
  BY <1>1, <1>2, <1>4, <1>5 DEF Deed, Outcome, Alive, Store!Holding, P!Holding
<1> QED
  BY <1>6, WorkIsPending DEF Deeds

\* The DELETE of a wipe is its effect: it is not over, but its plans are gone.
LEMMA ClearServes ==
    ASSUME ServerInv, ServerInv', NEW r \in Request, Work(r), P!Space!Clear(r)
    PROVE  Service!Clear(r)
<1>1. /\ job[r].op = "wipe" /\ Store!Stored' = {} /\ P!Calls' = P!Calls
      /\ Service!Remember /\ UNCHANGED <<maxPlans, running>>
  BY SameSpace, CallIsJob DEF P!Space!Clear, P!Space!Remember, Service!Remember
<1>2. Wish(req[r].shape) = "wipe"
  BY <1>1, Worked, WishIsOperation
<1> QED
  BY <1>1, <1>2, HiddenWork, WorkIsPending DEF Service!Clear, Service!Pending

\* Every step of a job is an effect of its request, or none.
LEMMA WorkServes ==
    ASSUME ServerInv, ServerInv', NEW r \in Request, Work(r) \/ Fault(r)
    PROVE  Service!Next \/ UNCHANGED Service!vars
<1>1. CASE Fault(r)
  <2>1. P!Space!Refuse(r)
    BY <1>1, Constants, SameFault, P!FaultRefuses DEF Fault, ServerInv
  <2> QED
    BY <1>1, <2>1, RefuseServes DEF Service!Next
<1>2. CASE Work(r)
  <2>1. \/ P!Space!Publish(r) \/ P!Space!Refuse(r) \/ P!Space!Look(r) \/ P!Space!Ping(r)
        \/ P!Space!Clear(r) \/ P!Space!Wiped(r) \/ P!Space!Settle
        \/ UNCHANGED P!Space!vars
    BY <1>2, Constants, SameWork, P!WorkMaps DEF Work, ServerInv
  <2>2. CASE P!Space!Settle
    <3>1. /\ P!Calls' = P!Calls /\ UNCHANGED <<Store!Stored, maxPlans, running>>
          /\ Service!Remember
      BY <2>2, SameSpace DEF P!Space!Settle, P!Space!Remember, Service!Remember
    <3> QED
      BY <1>2, <3>1, HiddenWork, WorkIsPending DEF Service!Settle, Service!Next
  <2>3. CASE UNCHANGED P!Space!vars
    <3>1. /\ P!Calls' = P!Calls
          /\ UNCHANGED <<Store!Stored, Past, maxPlans, running>>
      BY <2>3, SameSpace DEF P!Space!vars
    <3> QED
      BY <1>2, <3>1, HiddenWork, WorkIsPending DEF Service!vars
  <2> QED
    BY <1>2, <2>1, <2>2, <2>3, PublishServes, RefuseServes, LookServes, PingServes,
       ClearServes, WipedServes DEF Service!Next
<1> QED
  BY <1>1, <1>2

\* A request wishes one thing.
LEMMA Wishes ==
    ASSUME NEW s
    PROVE  /\ IsUpload(s) => Wish(s) = "upload" /\ ~IsView(s)
           /\ IsView(s) => Wish(s) = "view" /\ ~IsUpload(s)
           /\ IsHealth(s) => Wish(s) = "health" /\ ~IsUpload(s) /\ ~IsView(s)
           /\ IsWipe(s) => Wish(s) = "wipe" /\ ~IsUpload(s) /\ ~IsView(s)
<1>1. /\ IsUpload(s) => ~IsView(s) /\ ~IsHealth(s) /\ ~IsWipe(s)
      /\ IsView(s) => ~IsHealth(s) /\ ~IsWipe(s)
      /\ IsHealth(s) => ~IsWipe(s)
  BY DEF IsUpload, IsView, IsHealth, IsWipe
<1> QED
  BY <1>1 DEF Wish

\* A step that leaves the file, the log and the process alone changes no plan.
LEMMA PlansStay ==
    ASSUME UNCHANGED <<file, wal, maxPlans, running>>
    PROVE  UNCHANGED Service!plans
BY DEF Service!plans, Store!Stored, Store!Latest, Past, Store!Recoverable

\* What an arrival is to the client.
LEMMA BeginServes ==
    ASSUME ServerInv, NEW r \in Request, NEW s, NEW stage \in {"answered", "reading", "waiting"},
           NEW status, Begin(r, s, stage, status), UNCHANGED <<file, wal, maxPlans, running>>,
           \A q \in Request \ {r} : job'[q] = job[q]
    PROVE  /\ Service!Arrives(r, Wish(s), StageOf(stage), status)
           /\ Deeds' = [Deeds EXCEPT ![r] = Deed(r)']
<1>1. /\ \A q \in Request \ {r} : req'[q] = req[q]
      /\ req[r].stage = "idle" /\ req'[r].stage = stage /\ req'[r].status = status
      /\ req'[r].shape = s /\ req'[r].link = req[r].link
  BY Begun
<1>2. req[r].link = None
  BY <1>1 DEF ServerInv, HandlerInv
<1>3. Client(r)' = [wish |-> Wish(s), stage |-> StageOf(stage), status |-> status,
                    link |-> None]
  BY <1>1, <1>2 DEF Client
<1>4. Clients[r].stage = "new"
  BY <1>1, OneByOne DEF StageOf
<1> QED
  BY <1>1, <1>3, <1>4, OneRequest, PlansStay DEF Service!Arrives, Begin

\* The first steps of the handlers.
LEMMA ArriveServes ==
    ASSUME ServerInv, NEW r \in Request, Arrive(r)
    PROVE  Service!Next
<1>1. HandlerInv(r) /\ P!NoEarlyResult
  BY DEF ServerInv, P!Remembered
<1>2. PICK s \in Traffic : \/ AnswerAtOnce(r, s) \/ AwaitBody(r, s) \/ Health(r, s)
                           \/ Wipe(r, s) \/ \E i \in PlanId : View(r, s, i)
  BY DEF Arrive
<1>3. req[r].stage = "idle" /\ job[r].pc = "idle" /\ job[r].result = "none"
  <2>1. req[r].stage = "idle"
    BY <1>2 DEF AnswerAtOnce, AwaitBody, Health, Wipe, View, Begin
  <2> QED
    BY <1>1, <2>1 DEF HandlerInv, P!NoEarlyResult
<1>4. s \in Shape
  BY ServerAssumption
<1>5. CASE AnswerAtOnce(r, s)
  <2>1. /\ job' = job /\ UNCHANGED <<file, wal, maxPlans, running>>
        /\ Begin(r, s, "answered", Immediate(s)) /\ Immediate(s) # 0
    BY <1>5 DEF AnswerAtOnce, store
  <2>2. req'[r].stage = "answered" /\ req'[r].shape = s
    BY <2>1, Begun
  <2>3. ~IsView(s) /\ ~IsHealth(s) /\ ~IsWipe(s)
    BY <2>1 DEF Immediate, IsUpload, IsView, IsHealth, IsWipe
  <2>4. CASE IsUpload(s)
    <3>1. Wish(s) = "upload" /\ Immediate(s) \in {413, 415}
      BY <2>1, <2>4 DEF Wish, Immediate, IsUpload
    <3>2. Deed(r)' = [outcome |-> "failed", id |-> None, plan |-> None]
      BY <1>3, <2>1, <2>2, <2>3 DEF Deed, Outcome, Alive, Store!Holding
    <3>3. Service!Dismiss(r, "upload", Immediate(s))
      BY <2>1, <3>1, <3>2, BeginServes DEF Service!Dismiss, Service!Deed, StageOf
    <3> QED
      BY <3>1, <3>3 DEF Service!Next
  <2>5. CASE ~IsUpload(s)
    <3>1. Wish(s) = "none"
      BY <2>3, <2>5 DEF Wish
    <3>2. Immediate(s) \in {200, 404, 405}
      BY <2>1, <2>3, <2>5 DEF Immediate
    <3>3. Deed(r)' = [outcome |-> "failed", id |-> None, plan |-> None]
      BY <1>3, <2>1, <2>2, <2>3 DEF Deed, Outcome, Alive, Store!Holding
    <3>4. Service!Dismiss(r, "none", Immediate(s))
      BY <2>1, <3>1, <3>2, <3>3, BeginServes DEF Service!Dismiss, Service!Deed, StageOf
    <3> QED
      BY <3>2, <3>4 DEF Service!Next
  <2> QED
    BY <2>4, <2>5
<1>6. CASE AwaitBody(r, s)
  <2>1. /\ job' = job /\ UNCHANGED <<file, wal, maxPlans, running>>
        /\ Begin(r, s, "reading", 0) /\ IsUpload(s)
    BY <1>6 DEF AwaitBody, store
  <2>2. req'[r].stage = "reading" /\ req'[r].shape = s
    BY <2>1, Begun
  <2>3. Wish(s) = "upload" /\ ~IsView(s)
    BY <2>1, Wishes
  <2>4. Deed(r)' = [outcome |-> "pending", id |-> None, plan |-> None]
    BY <1>3, <2>1, <2>2, <2>3 DEF Deed, Outcome, Alive
  <2>5. Service!Receive(r, "upload", None)
    BY <2>1, <2>3, <2>4, BeginServes DEF Service!Receive, Service!Deed, StageOf
  <2> QED
    BY <2>5 DEF Service!Next
<1>7. ASSUME NEW o, NEW i \in PlanId \cup {None}, Begin(r, s, "waiting", 0),
             Store!Submit(r, o, i), ~IsUpload(s),
             Wish(s) \in {"view", "health", "wipe"}, IsView(s) <=> i # None,
             Wish(s) = "view" <=> IsView(s)
      PROVE  Service!Next
  <2>1. /\ \A q \in Request \ {r} : job'[q] = job[q]
        /\ job'[r].id = i /\ job'[r].result = "none"
    BY <1>7, Submitted
  <2>2. UNCHANGED <<file, wal, maxPlans, running>>
    BY <1>7 DEF Store!Submit
  <2>3. req'[r].stage = "waiting" /\ req'[r].shape = s
    BY <1>7, Begun
  <2>4. Deed(r)' = [outcome |-> "pending", id |-> i, plan |-> None]
    BY <1>7, <2>1, <2>3 DEF Deed, Outcome, Alive
  <2>5. Service!Receive(r, Wish(s), i)
    BY <1>7, <2>1, <2>2, <2>4, BeginServes DEF Service!Receive, Service!Deed, StageOf
  <2> QED
    BY <1>7, <2>5 DEF Service!Next
<1>8. CASE \E i \in PlanId : View(r, s, i)
  <2>1. IsView(s) /\ ~IsUpload(s) /\ Wish(s) = "view"
    BY <1>8, Wishes DEF View
  <2> QED
    BY <1>7, <1>8, <2>1, ServerAssumption DEF View
<1>9. CASE Health(r, s) \/ Wipe(r, s)
  <2>1. ~IsView(s) /\ ~IsUpload(s) /\ Wish(s) \in {"health", "wipe"}
    BY <1>9, Wishes DEF Health, Wipe
  <2> QED
    BY <1>7, <1>9, <2>1 DEF Health, Wipe
<1> QED
  BY <1>2, <1>5, <1>6, <1>8, <1>9

\* What the end of a handler is to the client.
LEMMA HandlerEnds ==
    ASSUME ServerInv, NEW r \in Request, NEW stage \in {"answered", "gone"}, NEW status, NEW link,
           UNCHANGED store, req[r].stage \in {"reading", "waiting"}, running,
           \A q \in Request \ {r} : req'[q] = req[q],
           req'[r].stage = stage, req'[r].shape = req[r].shape,
           req'[r].status = status, req'[r].link = link
    PROVE  /\ Service!Waits(r) /\ Service!Told(r, stage, status, link)
           /\ Deeds' = [Deeds EXCEPT ![r] = Deed(r)']
<1>1. job' = job /\ UNCHANGED Service!plans
  BY PlansStay DEF store
<1>2. StageOf(req[r].stage) = "waiting" /\ StageOf(stage) = stage
  BY DEF StageOf
<1>3. Client(r)' = [wish |-> Wish(req[r].shape), stage |-> stage, status |-> status,
                    link |-> link]
  BY <1>2 DEF Client
<1> QED
  BY <1>1, <1>2, <1>3, OneRequest, OneByOne DEF Service!Waits, Service!Told

\* An answer, in particular.
LEMMA AnswerServes ==
    ASSUME ServerInv, NEW r \in Request, NEW status, NEW link, Answer(r, status, link),
           UNCHANGED store, req[r].stage \in {"reading", "waiting"}, running
    PROVE  /\ Service!Waits(r) /\ Service!Told(r, "answered", status, link)
           /\ Deeds' = [Deeds EXCEPT ![r] = Deed(r)']
           /\ req'[r].stage = "answered" /\ req'[r].shape = req[r].shape /\ job' = job
BY Answered, HandlerEnds DEF store

\* What the handlers answer when the store's answer is final.
LEMMA ReplyServes ==
    ASSUME ServerInv, NEW r \in Request, NEW o,
           NEW result \in {"ok", "at_capacity", "not_found", "other"}, NEW status, NEW link,
           Awaits(r, o, result), Answer(r, status, link), UNCHANGED store,
           status = Service!Code[Wish(req[r].shape)][IF result = "other" THEN "failed"
                                                     ELSE result],
           link = IF Wish(req[r].shape) = "upload" /\ result = "ok" THEN Deeds[r].id ELSE None
    PROVE  Service!Reply(r)
<1>1. /\ running /\ req[r].stage = "waiting" /\ job[r].result = result
  BY DEF Awaits
<1>2. /\ Service!Waits(r) /\ Service!Told(r, "answered", status, link)
      /\ Deeds' = [Deeds EXCEPT ![r] = Deed(r)']
      /\ req'[r].stage = "answered" /\ req'[r].shape = req[r].shape /\ job' = job
  BY <1>1, AnswerServes
<1>3. Outcome(r) = IF result = "other" THEN "failed" ELSE result
  BY <1>1 DEF Outcome
<1>4. Outcome(r)' = Outcome(r)
  BY <1>1, <1>2 DEF Outcome
<1>5. Deed(r)' = Deed(r)
  BY <1>2, <1>4 DEF Deed
<1>6. Deeds' = Deeds
  BY <1>2, <1>5 DEF Deeds
<1> QED
  BY <1>2, <1>3, <1>6, OneByOne DEF Service!Reply

\* An upload that is refused while it is pending.
LEMMA RefusalServes ==
    ASSUME ServerInv, NEW r \in Request, NEW status \in {400, 413, 500},
           Answer(r, status, None), UNCHANGED store, running,
           req[r].stage \in {"reading", "waiting"}, IsUpload(req[r].shape),
           job[r].pc \in {"idle", "done"}, job[r].result \in {"none", "id_collision"}
    PROVE  Service!Next
<1>1. /\ Service!Waits(r) /\ Service!Told(r, "answered", status, None)
      /\ Deeds' = [Deeds EXCEPT ![r] = Deed(r)']
      /\ req'[r].stage = "answered" /\ req'[r].shape = req[r].shape /\ job' = job
  BY AnswerServes
<1>2. Clients[r].wish = "upload" /\ ~IsView(req[r].shape)
  BY Wishes, OneByOne
<1>3. Outcome(r) = "pending"
  BY DEF Outcome, Alive
<1>4. Outcome(r)' = "failed"
  BY <1>1 DEF Outcome, Alive, Store!Holding
<1>5. Deeds[r].outcome = "pending" /\ Deeds[r].id = None
  <2>1. Deed(r).id = None
    BY <1>2 DEF Deed
  <2> QED
    BY <1>3, <2>1, OneByOne
<1>6. Deed(r)' = [outcome |-> "failed", id |-> None, plan |-> None]
  BY <1>1, <1>2, <1>4 DEF Deed
<1>7. Service!Refuse(r, status)
  BY <1>1, <1>2, <1>5, <1>6 DEF Service!Refuse, Service!Fails, Service!Deed
<1> QED
  BY <1>7 DEF Service!Next

\* An attempt, the first or another one, is nothing that the client notices.
LEMMA AttemptServes ==
    ASSUME ServerInv, NEW r \in Request, NEW i, Attempt(r, i),
           req[r].stage \in {"reading", "waiting"}, IsUpload(req[r].shape),
           job[r].result \in {"none", "id_collision"}
    PROVE  UNCHANGED Service!vars
<1>1. /\ \A q \in Request \ {r} : req'[q] = req[q]
      /\ req'[r].stage = "waiting" /\ req'[r].status = req[r].status
      /\ req'[r].shape = req[r].shape /\ req'[r].link = req[r].link
      /\ Store!Submit(r, "create", i)
  BY Attempted
<1>2. /\ \A q \in Request \ {r} : job'[q] = job[q]
      /\ job'[r].result = "none"
  BY <1>1, Submitted
<1>3. UNCHANGED Service!plans
  BY <1>1, PlansStay DEF Store!Submit
<1>4. StageOf(req[r].stage) = "waiting" /\ StageOf("waiting") = "waiting"
  BY DEF StageOf
<1>5. Client(r)' = Client(r)
  BY <1>1, <1>4 DEF Client
<1>6. Outcome(r) = "pending"
  BY DEF Outcome, Alive
<1>7. Outcome(r)' = "pending"
  BY <1>1, <1>2 DEF Outcome, Alive
<1>8. ~IsView(req[r].shape)
  BY Wishes
<1>9. Deed(r)' = Deed(r)
  BY <1>1, <1>2, <1>6, <1>7, <1>8 DEF Deed
<1>10. Clients' = Clients /\ Deeds' = Deeds
  BY <1>1, <1>2, <1>5, <1>9, OneRequest DEF Clients, Deeds
<1> QED
  BY <1>3, <1>10 DEF Service!plans, Service!vars

\* The codes of the answers.
LEMMA Codes ==
    /\ Service!Code["upload"]["ok"] = 201 /\ Service!Code["upload"]["at_capacity"] = 507
    /\ Service!Code["upload"]["failed"] = 500
    /\ Service!Code["view"]["ok"] = 200 /\ Service!Code["view"]["not_found"] = 404
    /\ Service!Code["view"]["failed"] = 500
    /\ Service!Code["health"]["ok"] = 200 /\ Service!Code["health"]["failed"] = 503
    /\ Service!Code["wipe"]["ok"] = 204 /\ Service!Code["wipe"]["failed"] = 500
BY DEF Service!Code

\* The later steps of the handlers.
LEMMA HandleServes ==
    ASSUME ServerInv, NEW r \in Request, Handle(r)
    PROVE  Service!Next \/ UNCHANGED Service!vars
<1>1. HandlerInv(r) /\ P!NoEarlyResult
  BY DEF ServerInv, P!Remembered
<1>2. CASE BodyRead(r)
  <2>1. /\ running /\ req[r].stage = "reading" /\ IsUpload(req[r].shape)
        /\ job[r].pc = "idle" /\ job[r].result = "none"
    BY <1>1, <1>2 DEF BodyRead, HandlerInv, P!NoEarlyResult
  <2> QED
    BY <1>2, <2>1, RefusalServes, AttemptServes DEF BodyRead, NoRandomness
<1>3. CASE Retry(r) \/ GiveUp(r)
  <2>1. /\ running /\ req[r].stage = "waiting" /\ IsUpload(req[r].shape)
        /\ job[r].pc = "done" /\ job[r].result = "id_collision"
    BY <1>1, <1>3 DEF Retry, GiveUp, Awaits, HandlerInv, Suits
  <2> QED
    BY <1>3, <2>1, RefusalServes, AttemptServes DEF Retry, GiveUp, NoRandomness
<1>4. ASSUME NEW o, NEW result, Awaits(r, o, result)
      PROVE  /\ o = "create" => Wish(req[r].shape) = "upload"
             /\ o = "get" => Wish(req[r].shape) = "view"
             /\ o = "health" => Wish(req[r].shape) = "health"
             /\ o = "wipe" => Wish(req[r].shape) = "wipe"
  BY <1>4, WishIsOperation DEF Awaits
<1>5. CASE Created(r)
  <2>1. Wish(req[r].shape) = "upload"
    BY <1>4, <1>5 DEF Created
  <2>2. req[r].id = job[r].id
    BY <1>1, <1>5 DEF Created, Awaits, HandlerInv
  <2>3. Deeds[r].id = job[r].id
    BY <1>1, <1>5 DEF Created, Awaits, HandlerInv, Suits, Deeds, Deed
  <2> QED
    BY <1>5, <2>1, <2>2, <2>3, Codes, ReplyServes DEF Created, Service!Next
<1>6. CASE Finish(r)
  <2>1. CASE Concludes(r, "create", CreateStatus)
    BY <1>4, <1>6, <2>1, Codes, ReplyServes DEF Finish, Concludes, CreateStatus, Service!Next
  <2>2. CASE Concludes(r, "get", GetStatus)
    BY <1>4, <1>6, <2>2, Codes, ReplyServes DEF Finish, Concludes, GetStatus, Service!Next
  <2>3. CASE Concludes(r, "health", HealthStatus)
    BY <1>4, <1>6, <2>3, Codes, ReplyServes DEF Finish, Concludes, HealthStatus, Service!Next
  <2>4. CASE Concludes(r, "wipe", WipeStatus)
    BY <1>4, <1>6, <2>4, Codes, ReplyServes DEF Finish, Concludes, WipeStatus, Service!Next
  <2> QED
    BY <1>6, <2>1, <2>2, <2>3, <2>4 DEF Finish
<1> QED
  BY <1>2, <1>3, <1>5, <1>6 DEF Handle

\* A client that leaves, or is told to, may leave its request pending.
LEMMA LeaveServes ==
    ASSUME ServerInv, NEW r \in Request, Timeout(r) \/ Disconnect(r)
    PROVE  Service!Leave(r)
<1>1. /\ UNCHANGED store /\ running /\ req[r].stage \in {"reading", "waiting"}
      /\ req[r].status = 0 /\ req[r].link = None
  BY DEF Timeout, Disconnect, Suspended, ServerInv, HandlerInv
<1>2. PICK stage \in {"answered", "gone"}, status \in {0, 408} :
        /\ stage = "answered" <=> status = 408
        /\ \A q \in Request \ {r} : req'[q] = req[q]
        /\ req'[r].stage = stage /\ req'[r].shape = req[r].shape
        /\ req'[r].status = status /\ req'[r].link = None
  <2>1. CASE Timeout(r)
    BY <2>1, Answered DEF Timeout
  <2>2. CASE Disconnect(r)
    BY <1>1, <2>2, Types DEF Disconnect, Handler
  <2> QED
    BY <2>1, <2>2
<1>3. /\ Service!Waits(r) /\ Service!Told(r, stage, status, None)
      /\ Deeds' = [Deeds EXCEPT ![r] = Deed(r)']
  BY <1>1, <1>2, HandlerEnds
<1>4. job' = job
  BY <1>1 DEF store
<1>5. \/ Outcome(r)' = Outcome(r)
      \/ /\ Outcome(r) = "pending" /\ Outcome(r)' = "failed"
         /\ job[r].result # "ok"
  BY <1>1, <1>2, <1>4 DEF Outcome, Alive
<1>6. UNCHANGED Deeds \/ (Deeds[r].outcome = "pending" /\ Service!Fails(r))
  <2>1. CASE Outcome(r)' = Outcome(r)
    <3>1. Deed(r)' = Deed(r)
      BY <1>2, <1>4, <2>1 DEF Deed
    <3> QED
      BY <1>3, <3>1 DEF Deeds
  <2>2. CASE Outcome(r) = "pending" /\ Outcome(r)' = "failed" /\ job[r].result # "ok"
    <3>1. Deed(r)' = [outcome |-> "failed", id |-> Deed(r).id, plan |-> None]
      BY <1>2, <1>4, <2>2 DEF Deed
    <3> QED
      BY <1>3, <2>2, <3>1, OneByOne DEF Service!Fails, Service!Deed
  <2> QED
    BY <1>5, <2>1, <2>2
<1> QED
  BY <1>2, <1>3, <1>6 DEF Service!Leave

\* The end of the process is that of the service.
LEMMA HaltServes ==
    ASSUME ServerInv, Halt
    PROVE  Service!Fall
<1>1. (P!Crash \/ P!PowerLoss \/ P!Close) /\ running' = FALSE
  <2>1. P!Crash \/ P!PowerLoss \/ P!Close
    BY SameEnvironment DEF Halt
  <2> QED
    BY <2>1 DEF P!Crash, P!PowerLoss, P!Close, P!Stop
<1>2. P!Space!Fall
  <2>1. P!Space!Fall \/ P!Space!Rise
    BY <1>1, Constants, P!EnvironmentMaps DEF P!Environment, ServerInv
  <2> QED
    BY <1>1, <2>1 DEF P!Space!Rise
<1>3. Store!Stored' \in Past /\ Service!Remember /\ UNCHANGED maxPlans
  BY <1>2, SameSpace DEF P!Space!Fall, P!Space!Remember, Service!Remember
<1>4. ASSUME NEW r \in Request
      PROVE  /\ Client(r)' = IF Clients[r].stage # "waiting" THEN Clients[r]
                             ELSE [Clients[r] EXCEPT !.stage = "gone"]
             /\ Deed(r)' = IF Deeds[r].outcome # "pending" THEN Deeds[r]
                           ELSE [Deeds[r] EXCEPT !.outcome = "failed"]
  <2>1. /\ job'[r].op = job[r].op /\ job'[r].id = job[r].id
        /\ job'[r].result = job[r].result /\ job'[r].payload = job[r].payload
        /\ job'[r].pc = IF job[r].pc = "idle" THEN "idle" ELSE "lost"
        /\ req'[r] = IF Suspended(r) THEN [req[r] EXCEPT !.stage = "gone"] ELSE req[r]
    BY Halted
  <2>2. /\ req'[r].stage = IF req[r].stage \in {"reading", "waiting"} THEN "gone"
                           ELSE req[r].stage
        /\ req'[r].shape = req[r].shape /\ req'[r].status = req[r].status
        /\ req'[r].link = req[r].link
    BY <2>1, Types DEF Suspended, Handler, ServerInv, Attended
  <2>3. req[r].stage \in Stage
    BY Types DEF Handler
  <2>4. StageOf(req'[r].stage) = IF StageOf(req[r].stage) # "waiting" THEN StageOf(req[r].stage)
                                 ELSE "gone"
    BY <2>2, <2>3 DEF StageOf, Stage
  <2>5. Client(r)' = IF Clients[r].stage # "waiting" THEN Clients[r]
                     ELSE [Clients[r] EXCEPT !.stage = "gone"]
    BY <2>2, <2>4 DEF Clients, Client
  <2>6. ~Alive(r)'
    BY <2>1, <2>2 DEF Alive, Store!Holding
  <2>7. Outcome(r)' = IF Outcome(r) # "pending" THEN Outcome(r) ELSE "failed"
    <3>1. CASE req[r].stage = "idle"
      <4>1. job[r].pc = "idle" /\ job[r].result = "none"
        BY <3>1 DEF ServerInv, HandlerInv, P!Remembered, P!NoEarlyResult
      <4>2. Outcome(r) = "none"
        BY <3>1, <4>1 DEF Outcome, Alive, Store!Holding
      <4>3. Outcome(r)' = "none"
        BY <2>1, <2>2, <2>6, <3>1, <4>1 DEF Outcome
      <4> QED
        BY <4>2, <4>3
    <3>2. CASE req[r].stage # "idle" /\ job[r].result \in {"ok", "at_capacity", "not_found"}
      BY <2>1, <2>2, <3>2 DEF Outcome
    <3>3. CASE req[r].stage # "idle" /\ job[r].result \notin {"ok", "at_capacity", "not_found"}
      <4>1. Outcome(r) \in {"pending", "failed"}
        BY <3>3 DEF Outcome
      <4>2. Outcome(r)' = "failed"
        BY <2>1, <2>2, <2>6, <3>3 DEF Outcome
      <4> QED
        BY <4>1, <4>2
    <3> QED
      BY <3>1, <3>2, <3>3
  <2>8. Deed(r)' = IF Deeds[r].outcome # "pending" THEN Deeds[r]
                   ELSE [Deeds[r] EXCEPT !.outcome = "failed"]
    BY <2>1, <2>2, <2>7 DEF Deeds, Deed
  <2> QED
    BY <2>5, <2>8
<1> QED
  BY <1>1, <1>3, <1>4 DEF Service!Fall, Clients, Deeds

\* So is its return.
LEMMA StartServes ==
    ASSUME ServerInv, Start
    PROVE  Service!Rise
<1>1. P!Open
  BY SameEnvironment DEF Start
<1>2. /\ ~running /\ running' = TRUE /\ maxPlans' \in Limit
      /\ UNCHANGED <<file, wal, job, req>>
  BY <1>1 DEF P!Open, Start
<1>3. UNCHANGED <<Store!Stored, Past>>
  BY <1>2 DEF Store!Stored, Store!Latest, Past, Store!Recoverable
<1>4. UNCHANGED <<Clients, Deeds>>
  BY <1>2 DEF Clients, Client, Deeds, Deed, Outcome, Alive
<1> QED
  BY <1>2, <1>3, <1>4 DEF Service!Rise

\* The server starts as its abstract specification does.
LEMMA InitServes == Init => Service!Init
<1> SUFFICES ASSUME Init PROVE Service!Init
  OBVIOUS
<1>1. P!Space!Init
  BY Constants, SameState, P!InitRefines DEF Init
<1>2. /\ Store!Stored = {} /\ Past = {{}} /\ maxPlans \in Limit /\ running = TRUE
  BY <1>1, SameSpace DEF P!Space!Init
<1>3. ASSUME NEW r \in Request
      PROVE  /\ Client(r) = [wish |-> "none", stage |-> "new", status |-> 0, link |-> None]
             /\ Deed(r) = [outcome |-> "none", id |-> None, plan |-> None]
  <2>1. /\ req[r].stage = "idle" /\ req[r].status = 0 /\ req[r].link = None
        /\ req[r].shape.method = "GET" /\ req[r].shape.path = "root"
        /\ job[r].pc = "idle" /\ job[r].result = "none"
    BY <1>3 DEF Init, NotYet, Store!Init
  <2>2. /\ ~IsUpload(req[r].shape) /\ ~IsView(req[r].shape)
        /\ ~IsHealth(req[r].shape) /\ ~IsWipe(req[r].shape)
    BY <2>1 DEF IsUpload, IsView, IsHealth, IsWipe
  <2>3. Wish(req[r].shape) = "none"
    BY <2>2 DEF Wish
  <2>4. StageOf(req[r].stage) = "new"
    BY <2>1 DEF StageOf
  <2>5. Outcome(r) = "none"
    BY <2>1 DEF Outcome, Alive, Store!Holding
  <2> QED
    BY <2>1, <2>2, <2>3, <2>4, <2>5 DEF Client, Deed
<1> QED
  BY <1>2, <1>3 DEF Service!Init, Clients, Deeds

\* Every step of the server is a step of its abstract specification, or none.
LEMMA StepServes ==
    ASSUME ServerInv, ServerInv', [Next]_vars
    PROVE  [Service!Next]_(Service!vars)
<1>1. ASSUME NEW r \in Request, Arrive(r)
      PROVE  Service!Next
  BY <1>1, ArriveServes
<1>2. ASSUME NEW r \in Request, Handle(r)
      PROVE  Service!Next \/ UNCHANGED Service!vars
  BY <1>2, HandleServes
<1>3. ASSUME NEW r \in Request, Timeout(r) \/ Disconnect(r)
      PROVE  Service!Next
  BY <1>3, LeaveServes DEF Service!Next
<1>4. ASSUME NEW r \in Request, Work(r) \/ Fault(r)
      PROVE  Service!Next \/ UNCHANGED Service!vars
  BY <1>4, WorkServes
<1>5. CASE Halt \/ Start
  BY <1>5, HaltServes, StartServes DEF Service!Next
<1>6. CASE UNCHANGED vars
  BY <1>6, PlansStay DEF vars, Service!vars, Service!plans, Clients, Client, Deeds, Deed,
     Outcome, Alive
<1> QED
  BY <1>1, <1>2, <1>3, <1>4, <1>5, <1>6 DEF Next

\* Every request takes effect at most once and at one instant, whatever its
\* identifiers collide with, and an answer tells the outcome reached before
\* it: the handlers, the retry loop, the timeout and the store together
\* implement the service.
THEOREM ImplementsService == Spec => ImplementsPlanService
<1>1. ServerInv /\ ServerInv' /\ [Next]_vars => [Service!Next]_(Service!vars)
  BY StepServes
<1> QED
  BY <1>1, InitServes, Invariance, PTL DEF Spec, Service!Spec, ImplementsPlanService
=============================================================================
