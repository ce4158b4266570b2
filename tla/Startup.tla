------------------------------ MODULE Startup ------------------------------
(***************************************************************************)
(* The start of the program, src/main.rs:20-64: the configuration, the     *)
(* database with its migration (Store::open in src/store.rs), the first    *)
(* wipe token, the listening socket.  Any step may fail, and then the      *)
(* process exits; any process may die between two steps, or the machine    *)
(* under all of them; and whatever ended is started again                  *)
(* (`restart: unless-stopped`).                                            *)
(*                                                                         *)
(* Several processes may start on one database file, for instance an old   *)
(* and a new container.  SQLite is modelled as in PlanStore: the image in  *)
(* the main file and the images committed to the log since.                *)
(***************************************************************************)
EXTENDS Config, Naturals, Sequences

CONSTANTS
    Process,    \* processes on the same database
    OldPlan,    \* plans stored before the column content_type existed
    NewPlan,    \* plans uploaded since
    Setting,    \* the environments the program is started with
    None,       \* no environment
    MaxFaults   \* bound: how often something goes wrong

ASSUME StartupAssumption ==
    /\ Setting \subseteq Environment
    /\ None \notin Setting
    /\ OldPlan \cap NewPlan = {}
    /\ MaxFaults \in Nat

VARIABLES
    file,       \* the image in the main database file
    wal,        \* the images committed since the last checkpoint
    pc,         \* what each process does next
    env,        \* the environment each process has loaded
    faults,     \* how often something went wrong
    legacy      \* history: the first release made the database

vars == <<file, wal, pc, env, faults, legacy>>

-----------------------------------------------------------------------------

\* Table `plans`: missing, as the first release made it, or with the column
\* content_type; and its rows, with the value of that column.
Row == [plan: OldPlan \cup NewPlan, content_type: {"none", "html", "own"}]
Image == [table: {"none", "old", "new"}, rows: SUBSET Row]

\* `open` to `migrate` are inside Store::open.
Place == {"down", "load", "open", "inspect", "migrate", "wiper", "bind",
          "serving"}

Newest == IF wal = <<>> THEN file ELSE wal[Len(wal)]
Recoverable == {file} \cup {wal[n] : n \in 1..Len(wal)}

\* The types of the variables.
TypeOK ==
    /\ file \in Image
    /\ wal \in Seq(Image)
    /\ pc \in [Process -> Place]
    /\ env \in [Process -> Setting \cup {None}]
    /\ faults \in 0..MaxFaults
    /\ legacy \in BOOLEAN

\* No database yet, or one that the first release left behind.
Init ==
    /\ legacy \in BOOLEAN
    /\ file = IF legacy
              THEN [table |-> "old", rows |-> [plan: OldPlan, content_type: {"none"}]]
              ELSE [table |-> "none", rows |-> {}]
    /\ wal = <<>>
    /\ pc = [p \in Process |-> "load"]
    /\ env = [p \in Process |-> None]
    /\ faults = 0

Commit(image) ==
    \/ wal' = Append(wal, image) /\ UNCHANGED file
    \/ wal' = <<>> /\ file' = image

\* A connection is closed; the last one checkpoints the log.
CloseConnection ==
    \/ UNCHANGED <<file, wal>>
    \/ file' = Newest /\ wal' = <<>>

Go(p, from, to) ==
    /\ pc[p] = from
    /\ pc' = [pc EXCEPT ![p] = to]
    /\ UNCHANGED <<env, legacy>>

\* The process exits.
Exit(p, from) ==
    /\ pc[p] = from
    /\ pc' = [pc EXCEPT ![p] = "down"]
    /\ env' = [env EXCEPT ![p] = None]
    /\ UNCHANGED legacy

Fault == faults < MaxFaults /\ faults' = faults + 1

-----------------------------------------------------------------------------
(* main, step by step.                                                     *)

\* An environment that the program should start with.
Sound(e) ==
    /\ IsOrigin(e.base_url)
    /\ e.listen_addr \in {"unset", "address"}
    /\ e.db_path # "blank"
    /\ {e.max_plan_bytes, e.max_plans} \subseteq {"unset", "positive"}

LoadConfig(p, e) ==
    /\ IF Loads(e)
       THEN /\ pc[p] = "load"
            /\ pc' = [pc EXCEPT ![p] = "open"]
            /\ env' = [env EXCEPT ![p] = e]
            /\ UNCHANGED legacy
       ELSE Exit(p, "load")
    /\ IF Sound(e) THEN UNCHANGED faults ELSE Fault
    /\ UNCHANGED <<file, wal>>

\* Faulty variant: a database without the column is made anew.
Initialise_Recreates(p) ==
    /\ Go(p, "open", "inspect")
    /\ IF Newest.table # "new"
       THEN Commit([table |-> "new", rows |-> {}])
       ELSE UNCHANGED <<file, wal>>
    /\ UNCHANGED faults

\* The pragmas, and CREATE TABLE IF NOT EXISTS.
Initialise(p) ==
    /\ Go(p, "open", "inspect")
    /\ IF Newest.table = "none"
       THEN Commit([table |-> "new", rows |-> {}])
       ELSE UNCHANGED <<file, wal>>
    /\ UNCHANGED faults

\* Faulty variant: CREATE TABLE is taken to have made the column.
Inspect_Trusts(p) ==
    /\ Go(p, "inspect", "wiper")
    /\ UNCHANGED <<file, wal, faults>>

\* Faulty variant: the column is looked for under another name.
Inspect_Misnamed(p) ==
    /\ Go(p, "inspect", "migrate")
    /\ UNCHANGED <<file, wal, faults>>

\* PRAGMA table_info(plans).
Inspect(p) ==
    /\ Go(p, "inspect", IF Newest.table = "new" THEN "wiper" ELSE "migrate")
    /\ UNCHANGED <<file, wal, faults>>

\* Faulty variant: the new column has no DEFAULT.
Migrate_NoDefault(p) ==
    /\ Newest.table = "old"
    /\ Go(p, "migrate", "wiper")
    /\ Commit([Newest EXCEPT !.table = "new"])
    /\ UNCHANGED faults

\* ALTER TABLE plans ADD COLUMN content_type, with its DEFAULT.
Migrate(p) ==
    /\ Newest.table = "old"
    /\ Go(p, "migrate", "wiper")
    /\ Commit([table |-> "new",
               rows |-> {[row EXCEPT !.content_type = "html"] : row \in Newest.rows}])
    /\ UNCHANGED faults

\* "duplicate column name": another process was faster.
MigrateTooLate(p) ==
    /\ Newest.table = "new"
    /\ Exit(p, "migrate")
    /\ CloseConnection
    /\ UNCHANGED faults

\* Wiper::new draws and prints the first token.
DrawToken(p) ==
    /\ Go(p, "wiper", "bind")
    /\ UNCHANGED <<file, wal, faults>>

\* The address is parsed only now, when the database is open and the token
\* on the log; a name is not an address.
Bind(p) ==
    /\ Go(p, "bind", "serving")
    /\ value_or_default(env[p].listen_addr, "address") = "address"
    /\ UNCHANGED <<file, wal, faults>>

BindRefused(p) ==
    /\ Exit(p, "bind")
    /\ value_or_default(env[p].listen_addr, "address") # "address"
    /\ UNCHANGED <<file, wal, faults>>

\* A call inside Store::open returns an error; its connection is dropped, and
\* fatalf exits with 1.
OpenFails(p) ==
    /\ \E place \in {"open", "inspect", "migrate"} : Exit(p, place)
    /\ CloseConnection
    /\ Fault

\* The random source fails, or the address is in use: fatalf ends the process
\* without dropping anything.
Fatal(p) ==
    /\ \E place \in {"wiper", "bind"} : Exit(p, place)
    /\ Fault
    /\ UNCHANGED <<file, wal>>

-----------------------------------------------------------------------------
(* A process that serves, and its end.                                     *)

\* Faulty variant: an upload may leave its media type out.
Upload_Untyped(p, plan) ==
    /\ pc[p] = "serving"
    /\ Newest.table = "new"
    /\ Commit([Newest EXCEPT !.rows = @ \cup {[plan |-> plan, content_type |-> "blank"]}])
    /\ UNCHANGED <<pc, env, faults, legacy>>

\* Store::create.
Upload(p, plan) ==
    /\ pc[p] = "serving"
    /\ Newest.table = "new"
    /\ \A row \in Newest.rows : row.plan # plan
    /\ Commit([Newest EXCEPT !.rows = @ \cup {[plan |-> plan, content_type |-> "own"]}])
    /\ UNCHANGED <<pc, env, faults, legacy>>

\* Store::get and Store::health.
Read(p) ==
    /\ pc[p] = "serving"
    /\ Newest.table = "new"
    /\ UNCHANGED vars

ShutDown(p) ==
    /\ Exit(p, "serving")
    /\ CloseConnection
    /\ Fault

Crash(p) ==
    /\ pc[p] # "down"
    /\ Exit(p, pc[p])
    /\ Fault
    /\ UNCHANGED <<file, wal>>

\* The machine stops, and the log is cut off after some transaction.
PowerLoss ==
    /\ Fault
    /\ pc' = [p \in Process |-> "down"]
    /\ env' = [p \in Process |-> None]
    /\ \E n \in 0..Len(wal) : wal' = SubSeq(wal, 1, n)
    /\ UNCHANGED <<file, legacy>>

Restart(p) ==
    /\ Go(p, "down", "load")
    /\ UNCHANGED <<file, wal, faults>>

-----------------------------------------------------------------------------

Progress(p) ==
    \/ \E e \in Setting : LoadConfig(p, e)
    \/ Initialise(p) \/ Inspect(p) \/ Migrate(p) \/ MigrateTooLate(p)
    \/ DrawToken(p) \/ Bind(p) \/ BindRefused(p)
    \/ Restart(p)

Next ==
    \/ \E p \in Process :
         \/ Progress(p) \/ OpenFails(p) \/ Fatal(p)
         \/ Read(p) \/ ShutDown(p) \/ Crash(p)
         \/ \E plan \in NewPlan : Upload(p, plan)
    \/ PowerLoss

\* Each process takes its next step, and the container is restarted.
Spec == Init /\ [][Next]_vars /\ \A p \in Process : WF_vars(Progress(p))

-----------------------------------------------------------------------------
(* Safety.                                                                 *)

\* Permalinks and the wipe command lead to the URL that was configured: one
\* whose fragment, path, query or credentials would get lost is refused, and
\* by then nothing has touched the database.
OnlyOriginsAreUsed ==
    \A p \in Process : pc[p] \notin {"down", "load"} => IsOrigin(env[p].base_url)

\* Whoever serves reads and writes a table that has the column, whichever
\* process migrated it, and whatever crashed in between.
ServesMigratedTable ==
    \A p \in Process : pc[p] = "serving" => Newest.table = "new"

\* The plans of the first release survive the migration, in every image that
\* a power loss could bring back, and are HTML as soon as there is a type.
OldPlansSurvive ==
    legacy =>
        \A image \in Recoverable, old \in OldPlan : \E row \in image.rows :
            /\ row.plan = old
            /\ row.content_type = IF image.table = "new" THEN "html" ELSE "none"

\* Neither a start, failed or not, nor a migration under the eyes of another
\* process takes a plan away or changes its type: only a loss of power does.
StartsKeepPlans ==
    [][PowerLoss \/
         \A row \in Newest.rows : \E kept \in Newest'.rows :
             kept.plan = row.plan /\ row.content_type \in {"none", kept.content_type}]_vars

-----------------------------------------------------------------------------
(* Liveness.                                                               *)

\* With restarts every process serves in the end: no state that a failure or
\* another process leaves behind makes the start fail again and again.
StartSucceeds == \A p \in Process : <>[](pc[p] = "serving")
=============================================================================
