# Planista in TLA+

Planista is a small HTTP server: a client posts a file ("plan") and gets a
permalink; anybody views it; an administrator wipes everything with a secret
URL that changes every two minutes. These modules model its core, TLC checks
them on small instances, and TLAPS proves the most important results for every
value of the constants. Paths below are relative to the repository.

## The system

| Component | State | Operations | Modelled in |
| --- | --- | --- | --- |
| Plan store, `src/store.rs` | one SQLite connection behind a `Mutex`, the limit | `open`, `create`, `get`, `wipe`, `health`, and an `_async` form of each but the first that runs it with `spawn_blocking` | `PlanStore`, `Startup` |
| Request handlers, `src/server.rs` | none of its own; a handler's locals live across its awaits | `handle` and `handle_root`, `_create`, `_payload`, `_health`, `_wipe`; `collect_body`, `parse_byte_range` | `PlanServer`, `Body`, `ByteRange`, `WipeCommand` |
| Wipe token, `src/wipe.rs` | the token in force, the interval's deadline | `new`, `run`, `rotate`, `matches` | `WipeToken`, `WipeCommand` |
| Process, `src/main.rs` | connections, the shutdown channel | startup, accept loop, timeouts, graceful shutdown | `Startup`, `Lifecycle`; the timeout also in `PlanServer` |
| Configuration, `src/config.rs` | none | `load_config_from`, `normalize_base_url` | `Config`, used by `Startup` |
| Logger, `src/logger.rs` | a mutex around the stream | writing lines, `fatalf`, the date of a line | `CivilDate`; `fatalf` in `Startup` |
| Random source, `src/random.rs` | none | drawing bytes | as its callers see it |

How they interact. `main` loads the configuration, opens the store, creates the
wiper (which rotates once), spawns its task, binds its address and accepts
connections. Each request runs in its own
future, under a timeout of 15 seconds. A handler calls the wiper directly and
the store through a job on the blocking pool, whose result it awaits. At an
await the future can be dropped, by the timeout or because hyper saw the
connection close; **the job cannot**: it runs to its end, and nobody learns
the result. All jobs contend for one mutex. The wiper's task runs beside the
handlers and replaces the token under a lock.

What is hard about it:

- jobs that outlive their requests: an upload answered with 408 may still be
  stored, a wipe that timed out may still erase newer plans;
- the limit: count and insert are two statements, and the limit may be lowered
  by a restart;
- colliding identifiers and the retry loop around the store;
- a wipe is three statements that commit one by one, and each may fail;
- WAL with `synchronous = NORMAL`: a loss of power cuts off the end of the log;
- a panic under the mutex poisons it;
- rotations of the token that come late or fail, and commands that are
  compared before a rotation and carried out after it;
- a start that fails or dies at any of its calls, on a database that an older
  release or another process made, and is repeated;
- a shutdown against slow, silent and waiting clients, and jobs that it may
  not stop midway;
- bodies that come in pieces, break off, or are not as long as declared;
- arithmetic at the ends of a byte range, and of centuries.

`PROJECT.json` lists each of these hazards at its line with the properties
that watch it.

## The modules

| Module | What it is |
| --- | --- |
| `PlanStore` | the store, one action per SQL statement, with its failures |
| `PlanStoreInvariant` | its inductive invariant `StoreInv` |
| `PlanSpace` | abstract specification: a bounded set of plans and atomic calls |
| `PlanStoreRefinement` | the mapping from `PlanStore` to `PlanSpace` |
| `PlanServer` | handlers and timeouts, composed with `PlanStore` by `INSTANCE` |
| `PlanService` | abstract specification: what clients may rely on, without handlers, retries or jobs |
| `PlanServerRefinement` | the mapping from `PlanServer` to `PlanService` |
| `WipeToken` | the rotation of the token, with time |
| `WipeCommand` | commands that arrive and run while the token rotates; extends `WipeToken` |
| `Config` | which environments `load_config_from` accepts, as operators |
| `Startup` | `main` up to its loop and `Store::open`, for several processes on one file, with failures and restarts |
| `Lifecycle` | `main` from its loop to its end: connections, timers, signal, shutdown |
| `Body` | the frames of an upload against the cap, and a view of what was stored |
| `ByteRange` | `parse_byte_range` and the reply to a view, as operators |
| `CivilDate` | the date of a log line, and the calendar it is compared with |
| `PureCalls` | calls of `ByteRange` and `CivilDate` as a state machine, so that what they return can be checked and proved like an invariant |
| `*_proofs` | theorems about the module of that name; `WipeToken_proofs` also those about `WipeCommand`, `PlanStore_proofs` and `PlanServer_proofs` also the refinements |
| `MC*` | symmetry, request shapes and settings for TLC; those of a module whose inductive invariant is in its `*_proofs` extend that, so that TLC checks it too |

### PlanStore

A caller is a request; it has at most one job, and one plan, so the caller also
stands for the bytes it uploads. `job[c].pc` says where the job is: in the
queue of the pool or waiting for the mutex (`queued`), holding the mutex
between two statements (`locked`, `counted`, `inserted`, `deleted`,
`truncated`), `done`, or `lost` with the process.

| Code | Action |
| --- | --- |
| `create_async` and the others: `spawn_blocking` | `Submit` |
| `conn.lock()` | `Acquire`, `FindPoisoned` |
| `create`: BEGIN IMMEDIATE and count; insert; commit | `CheckCapacity`, `InsertPlan`, `CommitPlan` |
| `get`, `health` | `ReadPlan`, `CheckHealth` |
| `wipe`: DELETE; checkpoint; VACUUM | `DeletePlans`, `TruncateWal`, `Vacuum` |
| any `map_err(...)?` | `SqlError` |
| "store task panicked", a poisoned mutex | `Panic` |
| the process dies; the machine loses power; `main` returns; `open` | `Crash`, `PowerLoss`, `Close`, `Open` |

The database is an image in the main file (`file`) and the images committed to
the log since (`wal`); a connection reads the newest. An image is a set of rows
and a flag for free pages (`slack`). SQLite is not under `src/`: it is modelled
from the pragmas of `Store::open`. A commit appends to the log and may
checkpoint it, since SQLite does so when the log has grown beyond 1000 pages,
which is abstracted to "at any commit". A `PowerLoss` keeps a prefix of the
log, because nothing but a checkpoint forces it to disk. `Crash` keeps all of
the log. `Close` checkpoints, as SQLite does with its last connection. The open
transaction is `tx`. `fate` is a history variable: what became of each
caller's plan.

`Close` drops the jobs that are still in the pool's queue and needs the mutex
to be free: the runtime waits for jobs that have started. A job blocked on the
mutex counts as queued, so the model also allows it to be dropped.

### PlanServer

`req[r].stage` is the await at which the handler of request `r` stands: the
body of an upload (`reading`) or a job (`waiting`). `Immediate` is what
`handle` and the first lines of each handler answer without an await.
`Attempt`, `Retry`, `Created` and `GiveUp` are the loop of `handle_create`;
`GetStatus` and its siblings are the arms of the final `match`es. `Timeout` and
`Disconnect` drop the future at either await and leave the job alone; they are
enabled even when the awaited job has finished, for the answer may be late.
The store's steps come in through `Store == INSTANCE PlanStore WITH Caller <-
Request`. A request names a path of one of five kinds; the kind `token` is a
candidate that `Wiper::matches` accepted on arrival. Status 200 of a view
stands for 200, 206 and 416: which one it is, is `ByteRange`'s subject.

### WipeToken

Time is a natural number in units that are small against the interval. `Late`
bounds how long the task waits for a thread, `Stall` how long one poll takes,
and a poll is assumed shorter than an interval. The wall clock printed and the
monotonic clock of tokio are one clock, so adjustments of the wall clock are
outside the model. tokio applies `MissedTickBehavior` only to ticks more than
5 ms late; less than that is zero in the model's units. Tokens are numbered:
192 random bits are taken not to repeat.

### WipeCommand

`handle_wipe` compares the candidate once and queues the wipe without an await
in between, so `Arrive` is one action. `Erase`, the job, may come after any
number of rotations. `HasTimeLeft` and the fields `current` and `newest` are
history: what a reader of the log knew when the command arrived.
`CommandsImplementRotation` proves that a behaviour of the composition is one
of `WipeToken`, so that what is proved there holds here.

### Config and Startup

A setting is what the string operations of `config.rs` can tell of it. `Uri` is
`http::Uri`, which drops a fragment without an error and gives a URL without a
path the path "/". The database is modelled as in `PlanStore`; an image has a
table that is missing, as the first release made it, or with the column
`content_type`, and rows with the value of that column.

| Code | Action |
| --- | --- |
| `load_config`, or `fatalf` | `LoadConfig` |
| `Store::open`: pragmas and CREATE TABLE; `table_info`; ALTER TABLE | `Initialise`, `Inspect`, `Migrate` |
| "duplicate column name", since another process was faster | `MigrateTooLate` |
| any other error inside `open` | `OpenFails` |
| `Wiper::new`; parse and bind the address | `DrawToken`; `Bind`, `BindRefused` |
| `fatalf` of the wiper or the bind | `Fatal` |
| requests, as far as the database is concerned | `Upload`, `Read` |
| the end, and `restart: unless-stopped` | `ShutDown`, `Crash`, `PowerLoss`, `Restart` |

Two processes on one file are what a container platform does when it starts
the new container before it stops the old one. Wipes are left to `PlanStore`
(they would only make `OldPlansSurvive` and `StartsKeepPlans` harder to state).

### Lifecycle

`conn[c].stage` is where the task of a client's connection stands: reading its
first `head`, `idle` until the head after an answer is read, in a handler
(`handling`, `waiting` for its job), writing an answer. `age` is the age of the
timer of that stage. hyper's behaviour is external: the timer of the head also
runs while a kept connection is idle; a kept connection carries any number of
requests; a graceful shutdown closes idle connections and those that have sent
nothing yet, but not one that has sent a part of its first head. Which of the
last two a `head` is, matters nowhere else and is chosen in `Notice`.

| Code | Action |
| --- | --- |
| `listener.accept()`, its error | `Accept`, `AcceptFails` |
| the branches of `select!` on the signals | `HeedSignal` |
| `serve_connection` with `header_read_timeout` | `Request`, `HeadTimeout`, `Received` |
| `service_fn` with `handle_with_read_timeout` | `Respond`, `SpawnJob`, `RequestTimeout` |
| `graceful.shutdown()`: each connection is told; all are closed | `Notice`; `Drained` |
| the sleep of 10 seconds | `GraceOver` |
| `main` returns: tasks and queued jobs are dropped; the runtime waits for jobs that have begun | `Return`, `Exit` |

Time passes in ticks, `Elapse`, and a timer that is due fires before the next
tick. What a handler does is in `PlanServer`; here it may spawn one job, whose
end answers the request unless its handler timed out. The two modules meet in
the actions of the same lines: `Timeout` and `RequestTimeout`, `Disconnect`
and `ClientLeaves`, `Store!Close` and `Return` with `Exit`, which show when the
end that `Close` takes as one step may happen.

### Body

The n-th byte of the body stands for itself. Frames have any size. hyper
compares a declared length with what arrives and ends a body that is too short
with an error, so `declared` is the true length or none. `View` applies
`ByteRange` to the stored plan.

### CivilDate

`civil_from_days` with its unsigned arithmetic, for days since 1970; a negative
count cannot happen, for `go_log_stamp` takes the time before 1970 as 1970. Its
numbers have no width: `y as i32` is the identity for the years that a clock can
show (it would take more than 2^31 of them).

### ByteRange

A header is what the string operations of `parse_byte_range` can tell of it.
The two sides of the hyphen are a `usize`, nothing, or garbage; a number too
large for `usize` is garbage, since `parse` refuses it. Which headers count as
well formed follows the parser. It is stricter than RFC 9110, which would have
an unknown unit ignored (the answer would be 200) and a last position beyond
`usize` taken for the end of the plan; both get 416 here. `saturating_add` and
`saturating_sub` have the width of `usize` as a constant.

## The runs

| Run | Instance | Question |
| --- | --- | --- |
| `store_safety` | 3 callers, 3 identifiers, limits {1, 2} | are plans ever lost, mixed up, resurrected, or stored beyond the limit? do calls look atomic? |
| `server_answers` | 2 requests of any shape, 2 identifiers, 2 attempts | are 201 and refusals honest? does each request look atomic to its client? |
| `server_races` | 3 requests on 1 identifier | what may views show while uploads and wipes race, also abandoned ones? |
| `server_liveness` | 2 requests, 1 identifier | does every request end, and every job? is the mutex always given back? |
| `token_rotation` | interval 4, late 2, stall 1, clock to 24, 1 command | does a printed command work as long as it says, not much longer, and is it refused if it comes after the next one? |
| `startup` | 2 processes, 1 old and 1 new plan, 3 faults, 15 settings | do starts keep the plans, and succeed in the end? |
| `lifecycle` | 3 clients, 2 descriptors, any number of requests; head 1, handler 3, grace 2 ticks | does a shutdown give its grace, end, and finish what has begun? who is accepted when descriptors run out? |
| `body` | `usize` of 3 bits, cap 3, bodies up to 7 bytes | is the cap kept, an accepted upload complete, and a view of it right? |
| `pure_functions` | `usize` of 3 bits; the years 1970 to 2401 | is every range right, at all boundaries? every date? |
| `wipe_space`, `power_loss`, `token_expiry` | small | three claims of the documentation that fail, see below |

Why these bounds are enough to be of interest. Three callers give an upload, a
wipe and a third party between any two of their statements, and let the limit
be lowered below what is stored. Three identifiers leave one free for an upload
that finds two plans stored under a limit of one, so that the limit and not a
collision refuses it. Two identifiers give both a collision and a fresh retry;
one identifier makes collisions certain. Two attempts instead of
five reach the last attempt and the one before. The log has no explicit bound:
each caller makes one call (and retries after a collision), so a commit or
VACUUM happens a bounded number of times. Sets of callers, requests and
identifiers are symmetric and so declared in the safety runs; the liveness
runs use no symmetry. 24 units of time are six intervals, enough for a late
tick, several failed rotations and a shutdown. With 8 values of `usize`, a
plan of the largest length has a last byte whose successor overflows.

One command is enough in `token_rotation`, since commands do not affect each
other. Two processes race for the migration; three faults let each of them
fail once with a loss of power in between. In `lifecycle` the handler may take
longer than the grace and the grace longer than a head, as in the code (15, 10
and 5 seconds); two descriptors for three clients make one wait. Connections
carry requests without a bound: the states repeat. In `body` the sum
of buffer and frame does not saturate; nor does it in the code, where each is at
most half of `usize::MAX` (`BodyAssumption` says so of the cap). 1970 to 2401 holds a whole era of 400 years and
both kinds of century.

`ImplementsPlanSpace` and `ImplementsPlanService` are safety properties of
abstract specifications without fairness, so the symmetry of `store_safety` and
`server_answers` is sound for them too. Deadlock
is checked but in four modules where the system really may stop: in `WipeToken`
and `WipeCommand` the task ends after a shutdown and the clock stops at
`MaxTime`; in `Body` the upload has its answer and the view is done; in
`Lifecycle` the process exits.

### Properties

- `PermalinksAreUnambiguous`, `SavedPlansArePresent`, `ErasedForGood`,
  `RejectedLeavesNothing`, `CapacityRespected`, `PlansAreImmutable` and
  `PoisonIsFailStop` (`PlanStore`) say what the store owes its callers across
  interleavings, failures and restarts. The first, third and fourth hold of
  every image that a loss of power could leave, not just of the newest.
- `LinkLeadsToPlan` and `RefusalHasNoEffect` (`PlanServer`) tie an answer to
  the store. A 408 is left out of the second on purpose: the job of an upload
  that timed out may still store its plan, so a client that tries again after a
  408 may leave an orphan that uses a slot until the next wipe.
- `ImplementsPlanService` says what the answers mean together: each request
  takes effect at most once, at one instant after it came, and what the client
  is told is the outcome reached before it was told. Collisions and retries
  cannot be seen. After a 408, a disconnection or the end of the process the
  client does not know the outcome, and the effect may still come, but whole.
- `ViewsAreCurrent` and `WipeAnsweredErases` relate an answer to what was
  stored when the request arrived.
- `EveryRequestEnds`, `JobsOutliveHandlers` and `MutexIsReleased` are liveness.
  The first rests on the timeout alone and would hold with a mutex that is
  never given back; the other two would not.
- `PrintedTokenLives` and `OverstayIsBounded` (`WipeToken`) bound the life of
  a token from below and above.
- `CurrentCommandsAreHonoured` and `SupersededCommandsAreRefused`
  (`WipeCommand`) say what the order of comparing, queueing, rotating and
  printing means to an administrator: the command on the last line of the log
  is never answered with 404, although its wipe may run after a rotation, and
  one that comes when its line has a successor always is. Both are about the
  moment a command arrives. The first does not promise that the wipe succeeds:
  a statement may fail, and a shutdown may drop the job. The second does not
  keep a command that was queued in time from erasing after later lines.
- `ServesMigratedTable`, `OldPlansSurvive`, `StartsKeepPlans`,
  `OnlyOriginsAreUsed` and `StartSucceeds` (`Startup`): whatever a failed or
  interrupted start leaves behind, nothing is lost and the next one gets on.
- `GraceIsGiven`, `IdleClientsDoNotDelay`, `ShutdownCompletes` and
  `BegunJobsFinish` (`Lifecycle`) say what a shutdown owes its clients and what
  its clients cannot do to it. `WaitingClientsAreAccepted` is about the accept
  loop when descriptors run out: fewer clients than there are descriptors cannot
  keep the others out, however they behave, if those others in the end stop
  sending and read their answers. It takes the timer of the head, the timeout of
  the handler and a loop that survives the error of `accept`. The number is
  exact: with `<=` in place of `<` in the property TLC shows two clients that
  keep their connections busy, reading every answer and sending the next head
  in time, while the third waits for good. The code limits neither the requests
  nor the life of a connection, so this is what the program does.
- `CapIsKept`, `AnswerIsRight` and `ViewsReturnTheUpload` (`Body`) follow the
  bytes of a plan from its frames to a view.
- `ServerInv`, which contains `StoreInv`, `CommandInv`, `StartupInv` and
  `LifeInv` are the inductive invariants of the proofs, each with the types of
  the variables in it. TLC checks them on the instances too: that they are true there is how they
  were found, and a slip in the code breaks them before it breaks a property.
- `SendsSelected` and `StatusRight` compare the algorithm with the positions
  that a byte range means, for the headers that the parser understands, and say
  that all others are refused; `DateRight` compares the date with the calendar.

### Fairness

`PlanStore` and `PlanServer` assume weak fairness of each job's own steps: a
thread of the pool keeps running. Weak fairness is enough although jobs contend
for the mutex, since finitely many requests ask for it and each releases it.
`PlanServer` also assumes weak fairness of `Timeout`: the runtime's timer
fires. Nothing is assumed of clients, of failures, of handlers, or of a
restart: a job whose process ends is `lost`.

`Startup` assumes weak fairness of each process's own steps and of its restart
(`restart: unless-stopped`); the bound on faults is the assumption that they
cease. So a setting that is never corrected is not in the scope of
`StartSucceeds`: each start with it fails, and what `StartsKeepPlans` says of
the steps before the failure holds for any number of them. `Lifecycle` assumes that time passes, timers fire, the pool runs its
jobs, and main takes its steps: `select!` polls its branches in random order,
so that neither a signal nor the listener is starved by the other. Jobs end,
since no statement of SQLite waits longer than its `busy_timeout`. Nothing is
assumed of clients and handlers; what `WaitingClientsAreAccepted` needs of
clients, `GivesUpItsTurn`, is in the property, for nothing in the code enforces
it.

### What the documentation promises and the code does not keep

1. `wipe_space`: README.md:93 says a wipe will "reclaim database space".
   `Store::wipe` checkpoints first and then runs VACUUM, which in WAL mode
   writes the compacted database to the log. When `wipe` returns, the file
   still has its free pages and the log is not empty. A checkpoint after the
   VACUUM would change that.
2. `power_loss`: the landing page (`src/server.rs:32`) says uploads are
   "retained until an administrator wipes the server". With `synchronous =
   NORMAL` a loss of power may take back a commit that was answered with 201.
3. `token_expiry`: README.md:93 says that "invalid or expired wipe URLs return
   `404`". Nothing compares the time with the expiry. If the random source
   fails at a tick, the old token is accepted past its printed time.

## The proofs

All theorems hold for every value of the constants that the ASSUMEs of the
modules admit: limits are positive, `None` is no caller and no identifier
(`StoreAssumption`, and `ServerAssumption` with a positive number of attempts),
the times are natural numbers and a poll takes no longer than an interval
(`TokenAssumption`), the largest `usize` is a natural number
(`RangeAssumption`) and at least twice the cap (`BodyAssumption`), old plans are
not new ones (`StartupAssumption`), and the timeouts of a serving process are
positive (`LifecycleAssumption`).

**PlanStore.** The properties are not inductive: `SavedPlansArePresent`, for
instance, says nothing about a transaction that is about to replace the
database by `tx`. `StoreInv` adds

- `Exclusion`: the mutex is held by exactly the job that is between two
  statements;
- `Progress`: what the holder's earlier statements established is still true.
  After the count, there is room and `tx` is the stored rows; after the insert,
  `tx` is those rows and the new one; after the DELETE the newest image is
  empty; after the checkpoint the log is;
- `RowsAreEarned`: a row in any image that can come back belongs to a create
  that returned Ok and was not erased since;
- `OnlyOkSaves`, `CreatesAreNamed` and `FiniteImages`, which the other parts
  need: the last makes counting meaningful.

`StepPreserves` has a lemma per action; actions that change neither images nor
fates share `QuietStep`. The facts about the log are lemmas of their own:
`CommitProperties`, `CheckpointProperties`, `CutProperties`. From `Invariance`
follow `TypeCorrect`, `Unambiguous`, `SavedPresent`, `Erased`, `RejectedGone`,
`Capacity` and `Immutable`. `FailStop` needs one fact more: a poisoned mutex
is never taken again. These are stated of `Steps`, the specification without its
fairness (`StepsInvariance` and its siblings), so that a module which takes the
store's steps but schedules them differently can use them.

A last section says what the store does to plans and jobs over time
(`Remembered`, `FatesAge`, `JobsAreApart`, `Outcomes`), for `PlanServer`.

**PlanServer.** `StepOfStore` shows that every step of the server is a step of
the store or leaves it alone, so that all of the above holds in the server.
`ServerInv` adds, for each request, `HandlerInv`: what its handler awaits is the
job it submitted, and an answer agrees with a result that no later step can
change (`ResultsStand`); and for each request and plan `WitnessInv`: what
`before` recorded on arrival bounds the fate of the plan ever after. That is why
the witness has to be fixed before the job is queued (`WitnessesAreFixed`). The
four safety properties follow from `ServerInv` (`LinksLead`, `RefusalsAreFinal`,
`ViewsLinearize`, `WipesErase`). `ServesStore` turns `StepOfStore` into an
implication between specifications; from it, `ServesPlanSpace` says that the
store behind the handlers implements `PlanSpace` through every timeout, retry
and restart, and `ServesWithinLimits` that the limit, the immutability of plans
and fail-stop hold of it.

**Refinements.** `Refinement` proves `Spec => ImplementsPlanSpace`. A create
takes effect at `CommitPlan`, a get at its statement, a wipe clears the space
at the DELETE and answers at VACUUM, when nothing can come back any more. The
steps in between, and `Acquire`, are stutters; that the space is still the one
that the count and the insert saw comes from `Progress`.

`ImplementsService` proves `Spec => ImplementsPlanService` of the server. It is
built on the first: a step of a job is a step of `PlanSpace` (`WorkMaps`), and
`PublishServes`, `RefuseServes`, `LookServes`, `PingServes`, `ClearServes` and
`WipedServes` say what each of those is to the request whose job it is.
`RefuseServes` is where retries disappear: a collision is no outcome while the
handler is there to try again, and a failure when it has left. The steps of a
handler move no plan; `ReplyServes` needs from `HandlerInv` that a job is of the
operation its request asks for (`Suits`), `HaltServes` that no handler outlives
its process (`Attended`).

**WipeToken.** `Lifetime` and `Overstay` each have an inductive invariant that
relates the printed time, the deadline of the interval and the start of the
current poll. They hold without regard to `MaxTime`. `CommandsImplementRotation`
carries them over to `WipeCommand`. `Honoured` and `Superseded` add an invariant
about each command: one that was refused was not current, and one that was
admitted had the token then in force, which is never older than the last
printed one.

**Startup.** `StartupInv` says of every image that can come back that a new
table types all its rows and holds the old plans (`Kept`), and of every process
how far the table has come (`Known`): a process beyond its inspection has seen
the new table, in the log or in the file, and no step makes it old again, since
a loss of power, which may, stops all processes. The lemmas about a commit, the
close of a connection and a cut of the log are separate from the steps of
processes, which never touch more than one of them.

**Body.** The invariant is that the buffer is the prefix of the body that has
arrived, as long as no answer is given; `BytesMeet` says that a prefix and the
next frame make a prefix. `RightViews` rests on it and on
`SelectedBytesAreSent`.

**Lifecycle.** `LifeInv` relates ages and the time since the loop: while main
drains, a connection that is told of the shutdown and reads a head has been
doing so at least as long as main drains, so that its timer ends it in time.
`WholeGrace` holds because a connection is cut only by `Return`, which either
finds none or comes after the grace.

**ByteRange.** `SelectedBytesAreSent` and `StatusFollowsSelection` are about
every width of `usize`; `SelectionsAreSent` and `StatusesAreRight` carry them to
`PureCalls`, whose run checks one width.

**CivilDate.** `CalendarIsFollowed` says that `civil_from_days(days + 1)` is the
day after `civil_from_days(days)`, for every integer; with `EpochIsDay0` this is
an induction, which `DatesAreRight` carries out along the behaviours of
`PureCalls`. Nested divisions are beyond the provers, so `DaysSplit` takes a day
apart once and for all: an era of 146097 days, in it a century of 36524, in that
a span of four years of 1461, a year of 365 and a day, each quotient with the
bound that the leap day at its end allows. `YearsAreFound` shows that the
formula of the code for the year of the era gives these parts back, and
`DateOfDay` the date; `DaysStep` and `YearsStep` are the carry from one part to
the next, `LeapYears` says where the leap days are, and `Months` and `Tomorrow`
compare the formula for the month with the lengths of the months.

Only model-checked: liveness, which is out of the prover's reach, that is
`EveryRequestEnds`, `JobsOutliveHandlers`, `MutexIsReleased`, `StartSucceeds`,
`ShutdownCompletes`, `BegunJobsFinish` and `WaitingClientsAreAccepted`. Every
other property of a run that passes is the statement of a theorem.

## What is not modelled

- Library root, packaging: no behaviour, see `PROJECT.json`.
- The grammar of media types (a request has a valid one or is `untyped`), the
  headers and texts of responses, the empty body of a HEAD, the logger's output
  and the time of day in it: wording and formatting without effect on state.
- The outer timeout of 30 seconds around a request: the inner one of 15 seconds
  covers the same future and always fires first.
- More than one job of a connection at a time in `Lifecycle`; `PlanServer` has
  the jobs that outlive their requests.
- The wall clock as distinct from the monotonic one.
- A mode of the journal other than WAL, which SQLite may choose by itself where
  shared memory does not work; `Store::open` does not look at the answer.
- Another process that serves the same file while this one does, beyond its
  start and its uploads: `PlanStore` has one process.

## Plan

Done: everything above. What could follow, in this order:

1. `Lifecycle` with the store's jobs in place of its own, so that a shutdown in
   the middle of a wipe can be followed to the database.
2. Two serving processes on one database in `PlanStore`, with SQLite's busy
   timeout in place of the mutex between them.
