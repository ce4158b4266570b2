---------------------------- MODULE Startup_proofs ----------------------------
(***************************************************************************)
(* Proofs about Startup, for any number of processes, plans, environments  *)
(* and faults.                                                             *)
(*                                                                         *)
(* Two things make the safety properties inductive: what each step of      *)
(* Store::open knows of the table (Known), and what the rows of an old     *)
(* table look like, in every image a loss of power may bring back (Kept).  *)
(***************************************************************************)
EXTENDS Startup, SequenceTheorems, TLAPS

\* A process past CREATE TABLE finds a table, one past the migration finds
\* the column; one past load has an environment that loads.
Known(p) ==
    /\ pc[p] \in {"inspect", "migrate"} => Newest.table \in {"old", "new"}
    /\ pc[p] \in {"wiper", "bind", "serving"} => Newest.table = "new"
    /\ pc[p] \notin {"down", "load"} => env[p] \in Setting /\ Loads(env[p])

\* No table, no rows; no column, no type; and each plan of the first release.
Kept(image) ==
    /\ image.table = "none" => ~legacy /\ image.rows = {}
    /\ image.table = "old" => \A row \in image.rows : row.content_type = "none"
    /\ legacy => \A old \in OldPlan : \E row \in image.rows :
         /\ row.plan = old
         /\ row.content_type = IF image.table = "new" THEN "html" ELSE "none"

StartupInv ==
    /\ TypeOK
    /\ \A p \in Process : Known(p)
    /\ \A image \in Recoverable : Kept(image)

-----------------------------------------------------------------------------
(* The file and its log.                                                   *)

\* The newest image is one of those that can come back, and all are images.
LEMMA NewestIsRecoverable ==
    ASSUME file \in Image, wal \in Seq(Image)
    PROVE  Newest \in Recoverable /\ Newest \in Image
<1>1. Len(wal) \in Nat /\ \A n \in 1..Len(wal) : wal[n] \in Image
  BY LenProperties, ElementOfSeq
<1>2. wal # <<>> => Len(wal) \in 1..Len(wal)
  BY <1>1, EmptySeq
<1> QED
  BY <1>1, <1>2 DEF Newest, Recoverable

\* A commit makes its image the newest and adds no other.
LEMMA CommitAdds ==
    ASSUME file \in Image, wal \in Seq(Image), NEW image \in Image, Commit(image)
    PROVE  /\ file' \in Image /\ wal' \in Seq(Image)
           /\ Newest' = image
           /\ Recoverable' \subseteq Recoverable \cup {image}
<1>1. CASE wal' = Append(wal, image) /\ file' = file
  <2>1. /\ wal' \in Seq(Image)
        /\ Len(wal') = Len(wal) + 1
        /\ \A n \in 1..Len(wal) : wal'[n] = wal[n]
        /\ wal'[Len(wal) + 1] = image
    BY <1>1, AppendProperties
  <2>2. Len(wal) \in Nat
    BY LenProperties
  <2>3. wal' # <<>>
    BY <2>1, <2>2, EmptySeq
  <2> QED
    BY <1>1, <2>1, <2>2, <2>3 DEF Newest, Recoverable
<1>2. CASE wal' = <<>> /\ file' = image
  <2>1. wal' \in Seq(Image) /\ Len(wal') = 0
    BY <1>2, EmptySeq
  <2> QED
    BY <1>2, <2>1 DEF Newest, Recoverable
<1> QED
  BY <1>1, <1>2 DEF Commit

\* Closing a connection changes where the newest image is, but not what it
\* is.
LEMMA CloseKeeps ==
    ASSUME file \in Image, wal \in Seq(Image), CloseConnection
    PROVE  /\ file' \in Image /\ wal' \in Seq(Image)
           /\ Newest' = Newest
           /\ Recoverable' \subseteq Recoverable
<1>1. CASE UNCHANGED <<file, wal>>
  BY <1>1 DEF Newest, Recoverable
<1>2. CASE file' = Newest /\ wal' = <<>>
  <2>1. wal' \in Seq(Image) /\ Len(wal') = 0
    BY <1>2, EmptySeq
  <2> QED
    BY <1>2, <2>1, NewestIsRecoverable DEF Newest, Recoverable
<1> QED
  BY <1>1, <1>2 DEF CloseConnection

\* Losing the end of the log brings back an image that was recoverable.
LEMMA CutKeeps ==
    ASSUME file \in Image, wal \in Seq(Image), file' = file,
           NEW n \in 0..Len(wal), wal' = SubSeq(wal, 1, n)
    PROVE  /\ file' \in Image /\ wal' \in Seq(Image)
           /\ Recoverable' \subseteq Recoverable
<1>1. Len(wal) \in Nat /\ \A k \in 1..Len(wal) : wal[k] \in Image
  BY LenProperties, ElementOfSeq
<1>2. /\ wal' \in Seq(Image)
      /\ Len(wal') = n
      /\ \A k \in 1..n : wal'[k] = wal[k]
  BY <1>1, SubSeqProperties
<1> QED
  BY <1>1, <1>2 DEF Recoverable

-----------------------------------------------------------------------------
(* The steps, by what they do to the database.                             *)

\* The table of the newest image never becomes less, and no row or type of a
\* row is lost: what every step but a loss of power does to the database.
Grows ==
    /\ Newest.table \in {"old", "new"} => Newest'.table \in {"old", "new"}
    /\ Newest.table = "new" => Newest'.table = "new"
    /\ \A row \in Newest.rows : \E kept \in Newest'.rows :
         kept.plan = row.plan /\ row.content_type \in {"none", kept.content_type}

\* What Grows needs from a step that leaves the newest image as it is.
LEMMA SameGrows == Newest' = Newest => Grows
BY DEF Grows

\* The migrated image is an image, and every row is still there with its
\* type.
LEMMA MigratedImage ==
    ASSUME NEW image \in Image
    PROVE  LET rows == {[row EXCEPT !.content_type = "html"] : row \in image.rows}
           IN  /\ [table |-> "new", rows |-> rows] \in Image
               /\ \A row \in image.rows : \E kept \in rows :
                    kept.plan = row.plan /\ kept.content_type = "html"
<1> DEFINE typed(row) == [row EXCEPT !.content_type = "html"]
           rows == {typed(row) : row \in image.rows}
<1>1. \A row \in Row :
        /\ typed(row) \in Row
        /\ typed(row).plan = row.plan /\ typed(row).content_type = "html"
  BY DEF Row
<1>2. image.rows \subseteq Row
  BY DEF Image
<1> HIDE DEF typed
<1>3. rows \subseteq Row
  BY <1>1, <1>2
<1>4. \A row \in image.rows : \E kept \in rows :
        kept.plan = row.plan /\ kept.content_type = "html"
  <2> SUFFICES ASSUME NEW row \in image.rows
               PROVE  \E kept \in rows : kept.plan = row.plan /\ kept.content_type = "html"
    OBVIOUS
  <2>1. typed(row) \in rows
    OBVIOUS
  <2> QED
    BY <1>1, <1>2, <2>1
<1>5. [table |-> "new", rows |-> rows] \in Image
  BY <1>3 DEF Image
<1> QED
  BY <1>4, <1>5 DEF typed

\* The migration gives every row of an old table its type.
LEMMA MigrationKeeps ==
    ASSUME StartupInv, Newest.table = "old",
           Newest' = [table |-> "new",
                      rows |-> {[row EXCEPT !.content_type = "html"] : row \in Newest.rows}],
           legacy' = legacy
    PROVE  Grows /\ Kept(Newest)'
<1>1. Newest \in Image /\ Kept(Newest)
  BY NewestIsRecoverable DEF StartupInv, TypeOK
<1>2. \A row \in Newest.rows : row.content_type = "none"
  BY <1>1 DEF Kept
<1>3. \A row \in Newest.rows : \E kept \in Newest'.rows :
        kept.plan = row.plan /\ kept.content_type = "html"
  BY <1>1, MigratedImage
<1>4. Newest'.table = "new"
  OBVIOUS
<1>5. Grows
  BY <1>2, <1>3, <1>4 DEF Grows
<1>6. Kept(Newest)'
  <2>1. ASSUME legacy, NEW old \in OldPlan
        PROVE  \E row \in Newest'.rows : row.plan = old /\ row.content_type = "html"
    <3>1. PICK row \in Newest.rows : row.plan = old
      BY <1>1, <2>1 DEF Kept
    <3> QED
      BY <1>3, <3>1
  <2> QED
    BY <1>4, <2>1 DEF Kept
<1> QED
  BY <1>5, <1>6

\* A start of a process that finds no table makes an empty one.
LEMMA InitialisationKeeps ==
    ASSUME StartupInv, Newest.table = "none", legacy' = legacy,
           Newest' = [table |-> "new", rows |-> {}]
    PROVE  Grows /\ Kept(Newest)'
BY NewestIsRecoverable DEF StartupInv, TypeOK, Kept, Grows

\* The image after an upload is an image, with the same table and one row
\* more.
LEMMA UploadedImage ==
    ASSUME NEW image \in Image, NEW plan \in NewPlan
    PROVE  LET row == [plan |-> plan, content_type |-> "own"]
               uploaded == [image EXCEPT !.rows = @ \cup {row}]
           IN  /\ uploaded \in Image
               /\ uploaded.table = image.table
               /\ uploaded.rows = image.rows \cup {row}
BY DEF Image, Row

\* An upload adds a row to a table that has the column.
LEMMA UploadKeeps ==
    ASSUME StartupInv, Newest.table = "new", legacy' = legacy,
           NEW plan \in NewPlan,
           Newest' = [Newest EXCEPT
                        !.rows = @ \cup {[plan |-> plan, content_type |-> "own"]}]
    PROVE  Grows /\ Kept(Newest)' /\ Newest' \in Image
<1>1. Newest \in Image /\ Kept(Newest)
  BY NewestIsRecoverable DEF StartupInv, TypeOK
<1>2. /\ Newest'.table = "new" /\ Newest' \in Image
      /\ \A row \in Newest.rows : row \in Newest'.rows
  BY <1>1, UploadedImage
<1>3. \A row \in Newest.rows : \E kept \in Newest'.rows :
        kept.plan = row.plan /\ row.content_type \in {"none", kept.content_type}
  BY <1>2
<1>4. Grows
  BY <1>2, <1>3 DEF Grows
<1>5. Kept(Newest)'
  <2>1. ASSUME legacy, NEW old \in OldPlan
        PROVE  \E row \in Newest'.rows : row.plan = old /\ row.content_type = "html"
    BY <1>1, <1>2, <2>1 DEF Kept
  <2> QED
    BY <1>2, <2>1 DEF Kept
<1> QED
  BY <1>2, <1>4, <1>5

-----------------------------------------------------------------------------
(* The invariant.                                                          *)

\* The initial states satisfy the invariant.
LEMMA StartupInit == Init => StartupInv
<1> SUFFICES ASSUME Init PROVE StartupInv
  OBVIOUS
<1>1. file \in Image
  BY DEF Init, Image, Row
<1>2. wal \in Seq(Image) /\ Len(wal) = 0
  BY EmptySeq DEF Init
<1>3. pc \in [Process -> Place] /\ env \in [Process -> Setting \cup {None}]
  BY DEF Init, Place
<1>4. TypeOK
  BY <1>1, <1>2, <1>3, StartupAssumption DEF Init, TypeOK
<1>5. \A p \in Process : Known(p)
  BY DEF Init, Known
<1>6. Recoverable = {file}
  BY <1>2 DEF Recoverable
<1>7. Kept(file)
  <2>1. CASE legacy
    <3>1. file = [table |-> "old", rows |-> [plan: OldPlan, content_type: {"none"}]]
      BY <2>1 DEF Init
    <3>2. \A old \in OldPlan :
            [plan |-> old, content_type |-> "none"] \in [plan: OldPlan, content_type: {"none"}]
      OBVIOUS
    <3> QED
      BY <2>1, <3>1, <3>2 DEF Kept
  <2>2. CASE ~legacy
    BY <2>2 DEF Init, Kept
  <2> QED
    BY <2>1, <2>2
<1> QED
  BY <1>4, <1>5, <1>6, <1>7 DEF StartupInv

\* What a step has to show: the types, what the images hold, that the table
\* only grows, and what is known to the process that moved.
LEMMA Advance ==
    ASSUME StartupInv, TypeOK', Grows, legacy' = legacy,
           \A image \in Recoverable' : image \in Recoverable \/ Kept(image)',
           NEW p \in Process, Known(p)',
           \A q \in Process \ {p} : pc'[q] = pc[q] /\ env'[q] = env[q]
    PROVE  StartupInv'
<1>1. \A q \in Process : Known(q)'
  BY DEF StartupInv, Known, Grows
<1>2. \A image \in Recoverable' : Kept(image)'
  BY DEF StartupInv, Kept
<1> QED
  BY <1>1, <1>2 DEF StartupInv

\* A step of one process that leaves the newest image as it is: it only has
\* to show what it knows now.
LEMMA QuietAdvance ==
    ASSUME StartupInv, TypeOK', Newest' = Newest, Recoverable' \subseteq Recoverable,
           legacy' = legacy, NEW p \in Process, Known(p)',
           \A q \in Process \ {p} : pc'[q] = pc[q] /\ env'[q] = env[q]
    PROVE  StartupInv'
BY SameGrows, Advance

\* An exit of a process keeps the types and leaves the others alone.
LEMMA ExitTypes ==
    ASSUME TypeOK, NEW p \in Process, NEW place, Exit(p, place)
    PROVE  /\ pc' \in [Process -> Place] /\ env' \in [Process -> Setting \cup {None}]
           /\ pc'[p] = "down" /\ legacy' = legacy
           /\ \A q \in Process \ {p} : pc'[q] = pc[q] /\ env'[q] = env[q]
BY DEF TypeOK, Exit, Place

\* A step from one place to the next does the same, and keeps the environment.
LEMMA GoTypes ==
    ASSUME TypeOK, NEW p \in Process, NEW from, NEW to \in Place, Go(p, from, to)
    PROVE  /\ pc' \in [Process -> Place] /\ env' = env
           /\ pc[p] = from /\ pc'[p] = to /\ legacy' = legacy
           /\ \A q \in Process \ {p} : pc'[q] = pc[q] /\ env'[q] = env[q]
BY DEF TypeOK, Go

\* An exit that leaves the newest image as it is.
LEMMA ExitStep ==
    ASSUME StartupInv, NEW p \in Process, NEW place, Exit(p, place),
           file' \in Image, wal' \in Seq(Image), faults' \in 0..MaxFaults,
           Newest' = Newest, Recoverable' \subseteq Recoverable
    PROVE  StartupInv'
<1>1. TypeOK
  BY DEF StartupInv
<1>2. TypeOK'
  BY <1>1, ExitTypes DEF TypeOK
<1>3. Known(p)'
  BY <1>1, ExitTypes DEF Known
<1> QED
  BY <1>1, <1>2, <1>3, ExitTypes, QuietAdvance

\* A step that leaves the database alone does so with its images.
LEMMA SameImages ==
    ASSUME UNCHANGED <<file, wal>>
    PROVE  Newest' = Newest /\ Recoverable' = Recoverable
BY DEF Newest, Recoverable

\* A fault is counted within its bound.
LEMMA FaultTypes ==
    ASSUME TypeOK, Fault \/ UNCHANGED faults
    PROVE  faults' \in 0..MaxFaults
BY StartupAssumption DEF TypeOK, Fault

-----------------------------------------------------------------------------
(* One lemma per action that does more than move on or exit.               *)

\* Loading an environment.
LEMMA LoadConfigStep ==
    ASSUME StartupInv, NEW p \in Process, NEW e \in Setting, LoadConfig(p, e)
    PROVE  StartupInv'
<1>1. TypeOK /\ faults' \in 0..MaxFaults /\ file' = file /\ wal' = wal
  BY FaultTypes DEF StartupInv, LoadConfig
<1>2. Newest' = Newest /\ Recoverable' = Recoverable /\ file' \in Image /\ wal' \in Seq(Image)
  BY <1>1, SameImages DEF TypeOK
<1>3. CASE Loads(e)
  <2>1. /\ pc' = [pc EXCEPT ![p] = "open"] /\ env' = [env EXCEPT ![p] = e]
        /\ legacy' = legacy
    BY <1>3 DEF LoadConfig
  <2>2. TypeOK'
    BY <1>1, <1>2, <2>1 DEF TypeOK, Place
  <2>3. Known(p)'
    BY <1>1, <1>3, <2>1 DEF TypeOK, Known
  <2> QED
    BY <1>1, <1>2, <2>1, <2>2, <2>3, QuietAdvance DEF TypeOK
<1>4. CASE ~Loads(e)
  BY <1>1, <1>2, <1>4, ExitStep DEF LoadConfig
<1> QED
  BY <1>3, <1>4

\* CREATE TABLE IF NOT EXISTS.
LEMMA InitialiseStep ==
    ASSUME StartupInv, NEW p \in Process, Initialise(p)
    PROVE  StartupInv' /\ Grows
<1>1. /\ TypeOK /\ file \in Image /\ wal \in Seq(Image)
      /\ Newest \in Image /\ Known(p) /\ faults' = faults
      /\ "inspect" \in Place
      /\ Go(p, "open", "inspect")
  BY NewestIsRecoverable DEF StartupInv, TypeOK, Initialise, Place
<1>2. CASE Newest.table = "none"
  <2> DEFINE image == [table |-> "new", rows |-> {}]
  <2>1. image \in Image /\ Commit(image)
    BY <1>2 DEF Image, Initialise
  <2>2. /\ file' \in Image /\ wal' \in Seq(Image) /\ Newest' = image
        /\ Recoverable' \subseteq Recoverable \cup {image}
    BY <1>1, <2>1, CommitAdds
  <2>3. Grows /\ Kept(Newest)'
    BY <1>1, <1>2, <2>2, GoTypes, InitialisationKeeps
  <2>4. Kept(image)'
    BY <2>2, <2>3 DEF Kept
  <2>5. TypeOK'
    BY <1>1, <2>2, GoTypes DEF TypeOK
  <2>6. Known(p)'
    BY <1>1, <2>2, GoTypes DEF Known
  <2> QED
    BY <1>1, <2>2, <2>3, <2>4, <2>5, <2>6, GoTypes, Advance
<1>3. CASE Newest.table # "none"
  <2>1. UNCHANGED <<file, wal>>
    BY <1>3 DEF Initialise
  <2>2. Newest' = Newest /\ Recoverable' = Recoverable
    BY <2>1, SameImages
  <2>3. TypeOK'
    BY <1>1, <2>1, GoTypes DEF TypeOK
  <2>4. Known(p)'
    BY <1>1, <1>3, <2>2, GoTypes DEF Known, Image
  <2> QED
    BY <1>1, <2>2, <2>3, <2>4, GoTypes, QuietAdvance, SameGrows
<1> QED
  BY <1>2, <1>3

\* PRAGMA table_info.
LEMMA InspectStep ==
    ASSUME StartupInv, NEW p \in Process, Inspect(p)
    PROVE  StartupInv'
<1> DEFINE next == IF Newest.table = "new" THEN "wiper" ELSE "migrate"
<1>1. /\ TypeOK /\ Known(p) /\ next \in Place
      /\ Go(p, "inspect", next) /\ UNCHANGED <<file, wal, faults>>
  BY DEF StartupInv, Inspect, Place
<1>2. Newest' = Newest /\ Recoverable' = Recoverable
  BY <1>1, SameImages
<1>3. TypeOK'
  BY <1>1, GoTypes DEF TypeOK
<1>4. Known(p)'
  BY <1>1, <1>2, GoTypes DEF Known
<1> QED
  BY <1>1, <1>2, <1>3, <1>4, GoTypes, QuietAdvance

\* ALTER TABLE.
LEMMA MigrateStep ==
    ASSUME StartupInv, NEW p \in Process, Migrate(p)
    PROVE  StartupInv' /\ Grows
<1> DEFINE image == [table |-> "new",
              rows |-> {[row EXCEPT !.content_type = "html"] : row \in Newest.rows}]
<1>1. /\ TypeOK /\ file \in Image /\ wal \in Seq(Image) /\ faults' = faults
      /\ Newest \in Image /\ Known(p) /\ "wiper" \in Place
      /\ Newest.table = "old" /\ Go(p, "migrate", "wiper") /\ Commit(image)
  BY NewestIsRecoverable DEF StartupInv, TypeOK, Migrate, Place
<1>2. image \in Image
  BY <1>1, MigratedImage
<1>3. /\ file' \in Image /\ wal' \in Seq(Image) /\ Newest' = image
      /\ Recoverable' \subseteq Recoverable \cup {image}
  BY <1>1, <1>2, CommitAdds
<1>4. Grows /\ Kept(Newest)'
  BY <1>1, <1>3, GoTypes, MigrationKeeps
<1>5. Kept(image)'
  BY <1>3, <1>4 DEF Kept
<1>6. TypeOK'
  BY <1>1, <1>3, GoTypes DEF TypeOK
<1>7. Known(p)'
  BY <1>1, <1>3, GoTypes DEF Known
<1> QED
  BY <1>1, <1>3, <1>4, <1>5, <1>6, <1>7, GoTypes, Advance

\* A step that moves on without touching the database.
LEMMA MoveStep ==
    ASSUME StartupInv, NEW p \in Process, NEW from \in Place, NEW to \in Place,
           Go(p, from, to), UNCHANGED <<file, wal, faults>>,
           <<from, to>> \in {<<"wiper", "bind">>, <<"bind", "serving">>, <<"down", "load">>}
    PROVE  StartupInv'
<1>1. TypeOK /\ Known(p) /\ Newest' = Newest /\ Recoverable' = Recoverable
  BY SameImages DEF StartupInv
<1>2. TypeOK'
  BY <1>1, GoTypes DEF TypeOK
<1>3. Known(p)'
  BY <1>1, GoTypes DEF Known
<1> QED
  BY <1>1, <1>2, <1>3, GoTypes, QuietAdvance

\* An upload.
LEMMA UploadStep ==
    ASSUME StartupInv, NEW p \in Process, NEW plan \in NewPlan, Upload(p, plan)
    PROVE  StartupInv' /\ Grows
<1> DEFINE image == [Newest EXCEPT
              !.rows = @ \cup {[plan |-> plan, content_type |-> "own"]}]
<1>1. /\ TypeOK /\ file \in Image /\ wal \in Seq(Image) /\ Newest \in Image /\ Known(p)
      /\ Newest.table = "new" /\ Commit(image) /\ UNCHANGED <<pc, env, faults, legacy>>
  BY NewestIsRecoverable DEF StartupInv, TypeOK, Upload
<1>2. image \in Image
  BY <1>1, UploadedImage
<1>3. /\ file' \in Image /\ wal' \in Seq(Image) /\ Newest' = image
      /\ Recoverable' \subseteq Recoverable \cup {image}
  BY <1>1, <1>2, CommitAdds
<1>4. Grows /\ Kept(Newest)'
  BY <1>1, <1>3, UploadKeeps
<1>5. Kept(image)'
  BY <1>3, <1>4 DEF Kept
<1>6. TypeOK'
  BY <1>1, <1>3 DEF TypeOK
<1>7. Known(p)'
  BY <1>1, <1>3, <1>4 DEF Known, Grows
<1> QED
  BY <1>1, <1>3, <1>4, <1>5, <1>6, <1>7, Advance

\* A loss of power: all processes are down, so nothing has to be known.
LEMMA PowerLossStep ==
    ASSUME StartupInv, PowerLoss
    PROVE  StartupInv'
<1>1. TypeOK /\ file \in Image /\ wal \in Seq(Image) /\ faults' \in 0..MaxFaults
  BY FaultTypes DEF StartupInv, TypeOK, PowerLoss
<1>2. /\ file' \in Image /\ wal' \in Seq(Image)
      /\ Recoverable' \subseteq Recoverable
  BY <1>1, CutKeeps DEF PowerLoss
<1>3. /\ pc' = [p \in Process |-> "down"] /\ env' = [p \in Process |-> None]
      /\ legacy' = legacy
  BY DEF PowerLoss
<1>4. TypeOK'
  BY <1>1, <1>2, <1>3 DEF TypeOK, Place
<1>5. \A p \in Process : Known(p)'
  BY <1>3 DEF Known
<1>6. \A image \in Recoverable' : Kept(image)'
  BY <1>2, <1>3 DEF StartupInv, Kept
<1> QED
  BY <1>4, <1>5, <1>6 DEF StartupInv

-----------------------------------------------------------------------------

\* Every step preserves the invariant, and every step but a loss of power
\* only lets the newest image grow.
LEMMA StartupStep ==
    ASSUME StartupInv, [Next]_vars
    PROVE  StartupInv' /\ (PowerLoss \/ Grows)
<1>1. TypeOK /\ file \in Image /\ wal \in Seq(Image) /\ faults \in 0..MaxFaults
  BY DEF StartupInv, TypeOK
<1>2. ASSUME UNCHANGED <<file, wal>> PROVE Grows
  BY <1>2, SameImages, SameGrows
<1>3. ASSUME NEW p \in Process, NEW e \in Setting, LoadConfig(p, e)
      PROVE  StartupInv' /\ Grows
  BY <1>2, <1>3, LoadConfigStep DEF LoadConfig
<1>4. ASSUME NEW p \in Process, Inspect(p) PROVE StartupInv' /\ Grows
  BY <1>2, <1>4, InspectStep DEF Inspect
<1>5. ASSUME NEW p \in Process, DrawToken(p) \/ Bind(p) \/ Restart(p)
      PROVE  StartupInv' /\ Grows
  <2>1. UNCHANGED <<file, wal, faults>>
    BY <1>5 DEF DrawToken, Bind, Restart
  <2>2. \/ Go(p, "wiper", "bind") \/ Go(p, "bind", "serving") \/ Go(p, "down", "load")
    BY <1>5 DEF DrawToken, Bind, Restart
  <2> QED
    BY <1>2, <2>1, <2>2, MoveStep DEF Place
<1>6. ASSUME NEW p \in Process, NEW place, Exit(p, place),
             Fault \/ UNCHANGED faults,
             UNCHANGED <<file, wal>> \/ CloseConnection
      PROVE  StartupInv' /\ Grows
  <2>1. faults' \in 0..MaxFaults
    BY <1>1, <1>6, FaultTypes
  <2>2. CloseConnection
    BY <1>6 DEF CloseConnection
  <2>3. /\ file' \in Image /\ wal' \in Seq(Image)
        /\ Newest' = Newest /\ Recoverable' \subseteq Recoverable
    BY <1>1, <2>2, CloseKeeps
  <2> QED
    BY <1>6, <2>1, <2>3, ExitStep, SameGrows
<1>7. ASSUME NEW p \in Process, MigrateTooLate(p) PROVE StartupInv' /\ Grows
  BY <1>6, <1>7 DEF MigrateTooLate
<1>8. ASSUME NEW p \in Process, BindRefused(p) PROVE StartupInv' /\ Grows
  BY <1>6, <1>8 DEF BindRefused
<1>9. ASSUME NEW p \in Process, OpenFails(p) PROVE StartupInv' /\ Grows
  BY <1>6, <1>9 DEF OpenFails
<1>10. ASSUME NEW p \in Process, Fatal(p) PROVE StartupInv' /\ Grows
  BY <1>6, <1>10 DEF Fatal
<1>11. ASSUME NEW p \in Process, ShutDown(p) PROVE StartupInv' /\ Grows
  BY <1>6, <1>11 DEF ShutDown
<1>12. ASSUME NEW p \in Process, Crash(p) PROVE StartupInv' /\ Grows
  BY <1>6, <1>12 DEF Crash
<1>13. ASSUME UNCHANGED vars PROVE StartupInv' /\ Grows
  <2>1. UNCHANGED <<file, wal>> /\ UNCHANGED <<pc, env, faults, legacy>>
    BY <1>13 DEF vars
  <2>2. Newest' = Newest /\ Recoverable' = Recoverable
    BY <2>1, SameImages
  <2>3. TypeOK'
    BY <1>1, <2>1 DEF TypeOK
  <2>4. \A p \in Process : Known(p)'
    BY <2>1, <2>2 DEF StartupInv, Known
  <2>5. \A image \in Recoverable' : Kept(image)'
    BY <2>1, <2>2 DEF StartupInv, Kept
  <2> QED
    BY <1>2, <2>1, <2>3, <2>4, <2>5 DEF StartupInv
<1>14. ASSUME NEW p \in Process, Read(p) PROVE StartupInv' /\ Grows
  BY <1>13, <1>14 DEF Read
<1>15. ASSUME NEW p \in Process, Progress(p) PROVE StartupInv' /\ Grows
  BY <1>3, <1>4, <1>5, <1>7, <1>8, <1>15, InitialiseStep, MigrateStep DEF Progress
<1>16. CASE PowerLoss
  BY <1>16, PowerLossStep
<1> QED
  BY <1>9, <1>10, <1>11, <1>12, <1>13, <1>14, <1>15, <1>16, UploadStep DEF Next

\* The invariant holds in every state.
THEOREM StartupInvariant == Spec => []StartupInv
BY StartupInit, StartupStep, PTL DEF Spec

-----------------------------------------------------------------------------

\* The variables keep their types.
THEOREM StartupTypeCorrect == Spec => []TypeOK
<1>1. StartupInv => TypeOK
  BY DEF StartupInv
<1> QED
  BY <1>1, StartupInvariant, PTL

\* No process gets past loading a base URL that permalinks could not use.
THEOREM Origins == Spec => []OnlyOriginsAreUsed
<1>1. ASSUME NEW e \in Environment, Loads(e) PROVE IsOrigin(e.base_url)
  BY <1>1 DEF Environment, Url, Loads, normalize_base_url, Uri, IsOrigin
<1>2. StartupInv => OnlyOriginsAreUsed
  BY <1>1, StartupAssumption DEF StartupInv, Known, OnlyOriginsAreUsed
<1> QED
  BY <1>2, StartupInvariant, PTL

\* Whoever serves finds the column, however many processes migrate and crash.
THEOREM Migrated == Spec => []ServesMigratedTable
<1>1. StartupInv => ServesMigratedTable
  BY DEF StartupInv, Known, ServesMigratedTable
<1> QED
  BY <1>1, StartupInvariant, PTL

\* The first release's plans are in every image that can come back.
THEOREM OldPlansAreSafe == Spec => []OldPlansSurvive
<1>1. StartupInv => OldPlansSurvive
  BY DEF StartupInv, Kept, OldPlansSurvive
<1> QED
  BY <1>1, StartupInvariant, PTL

\* Nothing but a loss of power takes a plan or its type away.
THEOREM PlansAreKept == Spec => StartsKeepPlans
<1>1. ASSUME StartupInv, [Next]_vars
      PROVE  [PowerLoss \/
         \A row \in Newest.rows : \E kept \in Newest'.rows :
             kept.plan = row.plan /\ row.content_type \in {"none", kept.content_type}]_vars
  BY <1>1, StartupStep DEF Grows
<1> QED
  BY <1>1, StartupInvariant, PTL DEF Spec, StartsKeepPlans
=============================================================================
