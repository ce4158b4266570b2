------------------------------ MODULE PlanStore ------------------------------
(***************************************************************************)
(* The plan store of src/store.rs: one SQLite connection behind a mutex,   *)
(* used by jobs that `spawn_blocking` runs on a pool of threads.  A caller *)
(* (an HTTP request) has at most one job.  A job takes the mutex, issues   *)
(* its SQL statements one by one, and gives the mutex back when its        *)
(* function returns; nothing can cancel it, except the end of the process. *)
(*                                                                         *)
(* SQLite is external and modelled from the pragmas of `Store::open`: in   *)
(* WAL mode a commit appends to the write-ahead log, and with              *)
(* `synchronous = NORMAL` the log is forced to disk only by a checkpoint,  *)
(* so a power loss may cut off any suffix of it, while the death of the    *)
(* process alone loses only the open transaction.                          *)
(*                                                                         *)
(* A caller uploads one plan, so the caller stands for the bytes and the   *)
(* content type of its plan.                                               *)
(***************************************************************************)
EXTENDS Naturals, Sequences, FiniteSets

CONSTANTS
    Caller,     \* requests that use the store
    PlanId,     \* identifiers the server may draw
    Limit,      \* the values PLANISTA_MAX_PLANS may have when it starts
    None        \* no caller, no identifier, no plan

\* load_config_from accepts positive limits only.
ASSUME StoreAssumption ==
    /\ Limit # {} /\ Limit \subseteq Nat \ {0}
    /\ None \notin Caller \cup PlanId

VARIABLES
    file,       \* the image in the main database file (last checkpoint)
    wal,        \* the images committed since that checkpoint, oldest first
    tx,         \* the rows the open write transaction would commit
    lock,       \* the caller whose job holds the connection mutex
    poisoned,   \* a job panicked while it held the mutex
    maxPlans,   \* the limit in force
    running,    \* the process is alive and the database is open
    job,        \* the job of each caller
    fate        \* history: what became of the plan of each caller

vars == <<file, wal, tx, lock, poisoned, maxPlans, running, job, fate>>

-----------------------------------------------------------------------------
(* Data.                                                                   *)

Row == [id: PlanId, plan: Caller]

\* An image of the database: the rows of table `plans`, and whether its file
\* still holds free pages left behind by deleted rows.
Image == [rows: SUBSET Row, slack: BOOLEAN]

Operation == {"create", "get", "wipe", "health"}

\* Store::create, get, wipe and health return Ok or one of StoreError.
Result == {"none", "ok", "at_capacity", "id_collision", "not_found", "other"}

\* Where a job is: in the pool's queue or waiting for the mutex ("queued"),
\* holding the mutex between two statements, finished, or lost with the
\* process.
Holding == {"locked", "counted", "inserted", "deleted", "truncated"}
Place == {"idle", "queued", "done", "lost"} \cup Holding

Job == [op: Operation, id: PlanId \cup {None}, pc: Place, result: Result,
        payload: Caller \cup {None}]

Fate == {"unsaved", "saved", "deleted", "erased", "lost"}

\* What the connection reads: the newest committed image.
Latest == IF wal = <<>> THEN file ELSE wal[Len(wal)]

Stored == Latest.rows

\* Every image that a power loss now could leave as the newest one.
Recoverable == {file} \cup {wal[n] : n \in 1..Len(wal)}

Plans(image) == {row.plan : row \in image.rows}
Ids(image) == {row.id : row \in image.rows}

\* The types of the variables.
TypeOK ==
    /\ file \in Image
    /\ wal \in Seq(Image)
    /\ tx \in SUBSET Row
    /\ lock \in Caller \cup {None}
    /\ poisoned \in BOOLEAN
    /\ maxPlans \in Limit
    /\ running \in BOOLEAN
    /\ job \in [Caller -> Job]
    /\ fate \in [Caller -> Fate]

Init ==
    /\ file = [rows |-> {}, slack |-> FALSE]
    /\ wal = <<>>
    /\ tx = {}
    /\ lock = None
    /\ poisoned = FALSE
    /\ maxPlans \in Limit
    /\ running = TRUE
    /\ job = [c \in Caller |-> [op |-> "health", id |-> None, pc |-> "idle",
                                result |-> "none", payload |-> None]]
    /\ fate = [c \in Caller |-> "unsaved"]

-----------------------------------------------------------------------------
(* The connection and its mutex.                                           *)

\* A job at place `pc` of operation `o` that holds the mutex.
At(c, o, pc) ==
    /\ running
    /\ lock = c
    /\ job[c].op = o
    /\ job[c].pc = pc

Advance(c, pc) ==
    /\ job' = [job EXCEPT ![c].pc = pc]
    /\ UNCHANGED <<lock, poisoned, maxPlans, running>>

\* The job's function returns: an open transaction is rolled back when it
\* is dropped, then the mutex guard is dropped.
Return(c, result, plan) ==
    /\ job' = [job EXCEPT ![c].pc = "done", ![c].result = result,
                          ![c].payload = plan]
    /\ lock' = None
    /\ tx' = {}
    /\ UNCHANGED <<maxPlans, running>>

\* SQLite commits an image.  When the log has grown beyond 1000 pages the
\* commit also checkpoints it, which no reader can prevent: there is only
\* one connection.
Commit(image) ==
    \/ /\ wal' = Append(wal, image)
       /\ UNCHANGED file
    \/ /\ file' = image
       /\ wal' = <<>>

Checkpoint ==
    /\ file' = Latest
    /\ wal' = <<>>

-----------------------------------------------------------------------------
(* Jobs: create_async, get_async, wipe_async and health_async hand a       *)
(* closure to the blocking pool.  A job that ended in IdCollision is       *)
(* submitted again, with another identifier, by the server's retry loop.   *)

Submit(c, o, i) ==
    /\ running
    /\ \/ job[c].pc = "idle"
       \/ job[c].pc = "done" /\ job[c].result = "id_collision" /\ o = "create"
    /\ job' = [job EXCEPT ![c] = [op |-> o, id |-> i, pc |-> "queued",
                                  result |-> "none", payload |-> None]]
    /\ UNCHANGED <<file, wal, tx, lock, poisoned, maxPlans, running, fate>>

\* Faulty variant: a poisoned lock is recovered with into_inner.
Acquire_IgnoresPoison(c) ==
    /\ running
    /\ lock = None
    /\ job[c].pc = "queued"
    /\ lock' = c
    /\ job' = [job EXCEPT ![c].pc = "locked"]
    /\ UNCHANGED <<file, wal, tx, poisoned, maxPlans, running, fate>>

Acquire(c) ==
    /\ running
    /\ lock = None
    /\ ~poisoned
    /\ job[c].pc = "queued"
    /\ lock' = c
    /\ job' = [job EXCEPT ![c].pc = "locked"]
    /\ UNCHANGED <<file, wal, tx, poisoned, maxPlans, running, fate>>

\* Faulty variant: retry until the lock is sound again.
FindPoisoned_Spins(c) ==
    /\ running /\ lock = None /\ poisoned
    /\ job[c].pc = "queued"
    /\ UNCHANGED vars

\* "database lock poisoned": every operation fails once a job has panicked.
FindPoisoned(c) ==
    /\ running
    /\ lock = None
    /\ poisoned
    /\ job[c].pc = "queued"
    /\ Return(c, "other", None)
    /\ UNCHANGED <<file, wal, poisoned, fate>>

-----------------------------------------------------------------------------
(* create: BEGIN IMMEDIATE and SELECT COUNT, INSERT OR IGNORE, COMMIT.     *)

\* Faulty variant: the limit is compared with `=`.
CheckCapacity_Equal(c) ==
    /\ At(c, "create", "locked")
    /\ IF Cardinality(Stored) = maxPlans
       THEN Return(c, "at_capacity", None) /\ UNCHANGED poisoned
       ELSE tx' = Stored /\ Advance(c, "counted")
    /\ UNCHANGED <<file, wal, fate>>

\* Faulty variant: some plan makes room for the new one.
CheckCapacity_Evicts(c) ==
    /\ At(c, "create", "locked")
    /\ IF Cardinality(Stored) >= maxPlans
       THEN \E row \in Stored : tx' = Stored \ {row}
       ELSE tx' = Stored
    /\ Advance(c, "counted")
    /\ UNCHANGED <<file, wal, fate>>

CheckCapacity(c) ==
    /\ At(c, "create", "locked")
    /\ IF Cardinality(Stored) >= maxPlans
       THEN Return(c, "at_capacity", None) /\ UNCHANGED poisoned
       ELSE tx' = Stored /\ Advance(c, "counted")
    /\ UNCHANGED <<file, wal, fate>>

\* Faulty variant: the column has no PRIMARY KEY.
InsertPlan_NoKey(c) ==
    /\ At(c, "create", "counted")
    /\ tx' = tx \cup {[id |-> job[c].id, plan |-> c]}
    /\ Advance(c, "inserted")
    /\ UNCHANGED <<file, wal, fate>>

\* Faulty variant: INSERT OR REPLACE.
InsertPlan_Replaces(c) ==
    /\ At(c, "create", "counted")
    /\ tx' = {row \in tx : row.id # job[c].id} \cup {[id |-> job[c].id, plan |-> c]}
    /\ Advance(c, "inserted")
    /\ UNCHANGED <<file, wal, fate>>

\* Faulty variant: the number of changed rows is not looked at.
InsertPlan_Unchecked(c) ==
    /\ At(c, "create", "counted")
    /\ IF \E row \in tx : row.id = job[c].id
       THEN UNCHANGED tx
       ELSE tx' = tx \cup {[id |-> job[c].id, plan |-> c]}
    /\ Advance(c, "inserted")
    /\ UNCHANGED <<file, wal, fate>>

InsertPlan(c) ==
    /\ At(c, "create", "counted")
    /\ IF \E row \in tx : row.id = job[c].id
       THEN Return(c, "id_collision", None) /\ UNCHANGED poisoned
       ELSE /\ tx' = tx \cup {[id |-> job[c].id, plan |-> c]}
            /\ Advance(c, "inserted")
    /\ UNCHANGED <<file, wal, fate>>

\* New rows may use up the free pages.
CommitPlan(c) ==
    /\ At(c, "create", "inserted")
    /\ \E slack \in {FALSE, Latest.slack} :
         Commit([rows |-> tx, slack |-> slack])
    /\ fate' = [fate EXCEPT ![c] = "saved"]
    /\ Return(c, "ok", None)
    /\ UNCHANGED poisoned

-----------------------------------------------------------------------------
(* get and health are one statement each.                                  *)

ReadPlan(c) ==
    /\ At(c, "get", "locked")
    /\ \/ /\ job[c].id \notin Ids(Latest)
          /\ Return(c, "not_found", None)
       \/ \E row \in Stored :
            row.id = job[c].id /\ Return(c, "ok", row.plan)
    /\ UNCHANGED <<file, wal, poisoned, fate>>

CheckHealth(c) ==
    /\ At(c, "health", "locked")
    /\ Return(c, "ok", None)
    /\ UNCHANGED <<file, wal, poisoned, fate>>

-----------------------------------------------------------------------------
(* wipe: DELETE, PRAGMA wal_checkpoint(TRUNCATE), VACUUM, each of which    *)
(* commits on its own.                                                     *)

DeletePlans(c) ==
    /\ At(c, "wipe", "locked")
    /\ Commit([rows |-> {}, slack |-> Latest.slack \/ Stored # {}])
    /\ fate' = [p \in Caller |-> IF fate[p] = "saved" THEN "deleted" ELSE fate[p]]
    /\ Advance(c, "deleted")
    /\ UNCHANGED tx

\* Faulty variant: no checkpoint.
TruncateWal_Skipped(c) ==
    /\ At(c, "wipe", "deleted")
    /\ Advance(c, "truncated")
    /\ UNCHANGED <<file, wal, tx, fate>>

\* Faulty variant: the step takes the mutex again, under the guard.
TruncateWal_Relocks(c) ==
    /\ At(c, "wipe", "deleted")
    /\ lock = None
    /\ Checkpoint
    /\ Advance(c, "truncated")
    /\ UNCHANGED <<tx, fate>>

TruncateWal(c) ==
    /\ At(c, "wipe", "deleted")
    /\ Checkpoint
    /\ Advance(c, "truncated")
    /\ UNCHANGED <<tx, fate>>

\* In WAL mode VACUUM commits the compacted database to the log, like any
\* other transaction; an empty table needs three pages, far from 1000.
Vacuum(c) ==
    /\ At(c, "wipe", "truncated")
    /\ wal' = Append(wal, [rows |-> Stored, slack |-> FALSE])
    /\ fate' = [p \in Caller |-> IF fate[p] = "unsaved" THEN fate[p] ELSE "erased"]
    /\ Return(c, "ok", None)
    /\ UNCHANGED <<file, poisoned>>

-----------------------------------------------------------------------------
(* Failures.                                                               *)

\* Faulty variant: an open transaction is committed when it is dropped.
SqlError_Commits(c) ==
    /\ running
    /\ lock = c
    /\ IF job[c].pc = "inserted"
       THEN Commit([rows |-> tx, slack |-> Latest.slack])
       ELSE UNCHANGED <<file, wal>>
    /\ Return(c, "other", None)
    /\ UNCHANGED <<poisoned, fate>>

\* A statement fails (disk full, I/O error, out of memory): `?` returns
\* StoreError::Other, and what earlier statements committed stays.
SqlError(c) ==
    /\ running
    /\ lock = c
    /\ Return(c, "other", None)
    /\ UNCHANGED <<file, wal, poisoned, fate>>

\* A panic unwinds the job: the guard poisons the mutex, and the caller gets
\* "store task panicked".
Panic(c) ==
    /\ running
    /\ lock = c
    /\ poisoned' = TRUE
    /\ Return(c, "other", None)
    /\ UNCHANGED <<file, wal, fate>>

\* The process ends: no job and no caller survives, and neither does the
\* open transaction.
Stop ==
    /\ running' = FALSE
    /\ lock' = None
    /\ poisoned' = FALSE
    /\ tx' = {}
    /\ job' = [c \in Caller |-> IF job[c].pc = "idle" THEN job[c]
                                ELSE [job[c] EXCEPT !.pc = "lost"]]
    /\ UNCHANGED maxPlans

Crash ==
    /\ running
    /\ Stop
    /\ UNCHANGED <<file, wal, fate>>

\* The machine loses power: the log is cut off after some transaction.
PowerLoss ==
    /\ UNCHANGED file
    /\ \E n \in 0..Len(wal) : wal' = SubSeq(wal, 1, n)
    /\ Stop
    /\ fate' = [p \in Caller |->
                  IF fate[p] = "saved" /\ p \notin Plans(Latest') THEN "lost"
                  ELSE fate[p]]

\* The runtime is dropped at the end of main: started jobs finish, queued
\* ones are dropped, and closing the last connection checkpoints the log.
Close ==
    /\ running
    /\ lock = None
    /\ Checkpoint
    /\ Stop
    /\ UNCHANGED fate

\* The container restarts, perhaps with another PLANISTA_MAX_PLANS.
Open ==
    /\ ~running
    /\ running' = TRUE
    /\ maxPlans' \in Limit
    /\ UNCHANGED <<file, wal, tx, lock, poisoned, job, fate>>

-----------------------------------------------------------------------------

\* The steps of a job that need nothing but a thread of the pool.
Work(c) ==
    \/ Acquire(c) \/ FindPoisoned(c)
    \/ CheckCapacity(c) \/ InsertPlan(c) \/ CommitPlan(c)
    \/ ReadPlan(c) \/ CheckHealth(c)
    \/ DeletePlans(c) \/ TruncateWal(c) \/ Vacuum(c)

Environment == Crash \/ PowerLoss \/ Close \/ Open

Next ==
    \/ \E c \in Caller :
         \/ \E o \in {"create", "get"}, i \in PlanId : Submit(c, o, i)
         \/ \E o \in {"wipe", "health"} : Submit(c, o, None)
         \/ Work(c)
         \/ SqlError(c)
         \/ Panic(c)
    \/ Environment

\* A thread of the pool keeps running its job while the process lives.
Fairness == \A c \in Caller : WF_vars(Work(c))

Spec == Init /\ [][Next]_vars /\ Fairness
-----------------------------------------------------------------------------
(* Safety.                                                                 *)

\* The id is a PRIMARY KEY, and INSERT OR IGNORE never replaces a row: no
\* image that a power loss can leave has two plans behind one permalink.
PermalinksAreUnambiguous ==
    \A image \in Recoverable :
        \A r, s \in image.rows : r.id = s.id => r = s

\* A plan whose creation was reported stays, under its own id, until a wipe
\* deletes it or a power loss cuts it off; the death of the process, other
\* jobs, failed statements and checkpoints do not lose it.
SavedPlansArePresent ==
    \A c \in Caller :
        fate[c] = "saved" => [id |-> job[c].id, plan |-> c] \in Stored

\* Once a wipe has returned Ok, no plan stored before it can come back, even
\* if the machine then loses power: the checkpoint that follows the DELETE
\* is what makes it durable.
ErasedForGood ==
    \A c \in Caller :
        fate[c] = "erased" => \A image \in Recoverable : c \notin Plans(image)

\* An upload that the store rejected, for whatever reason, left nothing
\* behind: it neither occupies a slot nor appears under a permalink later.
RejectedLeavesNothing ==
    \A c \in Caller :
        job[c].op = "create" /\ job[c].result \notin {"none", "ok"} =>
            \A image \in Recoverable : c \notin Plans(image)

\* Creating a plan never takes the table beyond the limit in force, not even
\* when the limit was lowered below what an earlier process had stored.
CapacityRespected ==
    [][\A c \in Caller :
         fate[c] = "unsaved" /\ fate'[c] = "saved" =>
             Cardinality(Stored') <= maxPlans]_vars

\* The bytes and type behind a permalink change only by a wipe or a power
\* loss: while the process lives, the rows only grow or are all deleted.
PlansAreImmutable ==
    [][running /\ running' =>
         Stored \subseteq Stored' \/ Stored' = {}]_vars

\* After a panic under the mutex the store is fail-stop: no job reads or
\* writes the database again before the process is restarted.
PoisonIsFailStop ==
    [][poisoned /\ running' =>
         /\ UNCHANGED <<file, wal>>
         /\ \A c \in Caller :
              job[c].pc # "done" /\ job'[c].pc = "done" =>
                  job'[c].result = "other"]_vars

\* README.md promises that a wipe will "delete all plans, truncate the SQLite
\* WAL, and reclaim database space".  The space is not reclaimed when wipe()
\* returns: VACUUM comes after the checkpoint, so its result sits in the log,
\* and the database file keeps its free pages until some later checkpoint.
WipeReclaimsSpace ==
    [][\A c \in Caller :
         job[c].pc = "truncated" /\ job'[c].result = "ok" =>
             ~file'.slack]_vars

-----------------------------------------------------------------------------
(* Liveness.                                                               *)

\* Whoever takes the mutex gives it back, on every path out of its job.
MutexIsReleased == \A c \in Caller : lock = c ~> lock # c
=============================================================================
