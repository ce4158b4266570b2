--------------------------- MODULE PlanStore_proofs ---------------------------
(***************************************************************************)
(* Proofs about PlanStore, for any set of callers, identifiers and limits: *)
(* its inductive invariant, its safety, what it remembers for those who    *)
(* build on it, and that it implements PlanSpace.                          *)
(***************************************************************************)
EXTENDS PlanStoreInvariant, PlanStoreRefinement, FiniteSetTheorems, SequenceTheorems,
        TLAPS

\* The steps of the store, without the fairness that no safety property needs.
Steps == Init /\ [][Next]_vars

-----------------------------------------------------------------------------
(* The log.                                                                *)

\* The newest image is one of those that can come back, and each is an image.
LEMMA LatestIsRecoverable ==
    ASSUME file \in Image, wal \in Seq(Image)
    PROVE  /\ Latest \in Recoverable
           /\ Recoverable \subseteq Image
           /\ Latest \in Image
           /\ Stored \in SUBSET Row
<1>1. Len(wal) \in Nat /\ \A n \in 1..Len(wal) : wal[n] \in Image
  BY LenProperties, ElementOfSeq
<1>2. wal # <<>> => Len(wal) \in 1..Len(wal)
  BY <1>1, EmptySeq
<1>3. Latest \in Recoverable
  BY <1>2 DEF Latest, Recoverable
<1>4. Recoverable \subseteq Image
  BY <1>1 DEF Recoverable
<1> QED
  BY <1>3, <1>4 DEF Stored, Image

\* A commit to the log or to the file makes `image` the newest one and adds
\* no other to those that can come back.
LEMMA CommitProperties ==
    ASSUME file \in Image, wal \in Seq(Image), NEW image \in Image, Commit(image)
    PROVE  /\ file' \in Image /\ wal' \in Seq(Image)
           /\ Latest' = image
           /\ Stored' = image.rows
           /\ Recoverable' \subseteq Recoverable \cup {image}
<1>1. CASE wal' = Append(wal, image) /\ file' = file
  <2>1. /\ wal' \in Seq(Image)
        /\ Len(wal') = Len(wal) + 1
        /\ \A n \in 1..Len(wal) : wal'[n] = wal[n]
        /\ wal'[Len(wal) + 1] = image
    BY <1>1, AppendProperties
  <2>2. Len(wal) \in Nat
    BY LenProperties
  <2>3. wal' # <<>>
    BY <2>1, <2>2, EmptySeq
  <2>4. Latest' = image
    BY <2>1, <2>3 DEF Latest
  <2>5. Recoverable' \subseteq Recoverable \cup {image}
    BY <1>1, <2>1, <2>2 DEF Recoverable
  <2> QED
    BY <1>1, <2>1, <2>4, <2>5 DEF Stored
<1>2. CASE file' = image /\ wal' = <<>>
  <2>1. wal' \in Seq(Image) /\ Len(wal') = 0
    BY <1>2, EmptySeq
  <2>2. Latest' = image /\ Recoverable' \subseteq {image}
    BY <1>2, <2>1 DEF Latest, Recoverable
  <2> QED
    BY <1>2, <2>1, <2>2 DEF Stored
<1> QED
  BY <1>1, <1>2 DEF Commit

\* A checkpoint leaves the newest image, and nothing else.
LEMMA CheckpointProperties ==
    ASSUME file \in Image, wal \in Seq(Image), Checkpoint
    PROVE  /\ file' \in Image /\ wal' \in Seq(Image)
           /\ Latest' = Latest
           /\ Stored' = Stored
           /\ Recoverable' \subseteq Recoverable
           /\ wal' = <<>>
<1>1. Latest \in Image /\ Latest \in Recoverable
  BY LatestIsRecoverable
<1>2. wal' \in Seq(Image) /\ Len(wal') = 0 /\ wal' = <<>>
  BY EmptySeq DEF Checkpoint
<1>3. Latest' = Latest
  BY <1>2 DEF Latest, Checkpoint
<1>4. Recoverable' \subseteq {Latest}
  BY <1>2 DEF Recoverable, Checkpoint
<1> QED
  BY <1>1, <1>2, <1>3, <1>4 DEF Stored, Checkpoint

\* Losing the end of the log makes an earlier image the newest one.
LEMMA CutProperties ==
    ASSUME file \in Image, wal \in Seq(Image), file' = file,
           NEW n \in 0..Len(wal), wal' = SubSeq(wal, 1, n)
    PROVE  /\ file' \in Image /\ wal' \in Seq(Image)
           /\ Latest' \in Recoverable
           /\ Recoverable' \subseteq Recoverable
<1>1. Len(wal) \in Nat /\ \A k \in 1..Len(wal) : wal[k] \in Image
  BY LenProperties, ElementOfSeq
<1>2. /\ wal' \in Seq(Image)
      /\ Len(wal') = n
      /\ \A k \in 1..n : wal'[k] = wal[k]
  BY <1>1, SubSeqProperties
<1>3. Recoverable' \subseteq Recoverable
  BY <1>1, <1>2 DEF Recoverable
<1>4. file' \in Image
  OBVIOUS
<1>5. Latest' \in Recoverable'
  <2>1. wal' # <<>> => Len(wal') \in 1..Len(wal')
    BY <1>2, EmptySeq
  <2> QED
    BY <2>1 DEF Latest, Recoverable
<1> QED
  BY <1>2, <1>3, <1>4, <1>5

\* A step that leaves the file and the log alone.
LEMMA SameImages ==
    ASSUME UNCHANGED <<file, wal>>
    PROVE  Latest' = Latest /\ Stored' = Stored /\ Recoverable' = Recoverable
BY DEF Latest, Stored, Recoverable

-----------------------------------------------------------------------------
(* Steps that change no row.                                               *)

\* A step of one job, whose caller has no plan in any image, keeps what is
\* known of the rows, as long as no row and no fate changes.
LEMMA QuietStep ==
    ASSUME StoreInv, TypeOK', Exclusion', Progress',
           Stored' = Stored, Recoverable' \subseteq Recoverable, fate' = fate,
           NEW c \in Caller, fate[c] = "unsaved",
           \A d \in Caller \ {c} : job'[d] = job[d],
           job'[c].op = "create" => job'[c].id \in PlanId
    PROVE  StoreInv'
<1>1. ASSUME NEW image \in Recoverable, NEW row \in image.rows
      PROVE  row.plan \in Caller \ {c}
  <2>1. image \in Image
    BY LatestIsRecoverable DEF StoreInv, TypeOK
  <2>2. row.plan \in Caller
    BY <2>1 DEF Image, Row
  <2> QED
    BY <2>2 DEF StoreInv, RowsAreEarned
<1>2. FiniteImages' /\ PermalinksAreUnambiguous'
  BY DEF StoreInv, FiniteImages, PermalinksAreUnambiguous
<1>3. RowsAreEarned'
  BY <1>1 DEF StoreInv, RowsAreEarned
<1>4. OnlyOkSaves'
  BY DEF StoreInv, OnlyOkSaves
<1>5. SavedPlansArePresent'
  BY DEF StoreInv, SavedPlansArePresent
<1>6. CreatesAreNamed'
  BY DEF StoreInv, CreatesAreNamed
<1> QED
  BY <1>2, <1>3, <1>4, <1>5, <1>6 DEF StoreInv

\* A job that has not returned has saved nothing.
LEMMA UnfinishedIsUnsaved ==
    ASSUME StoreInv, NEW c \in Caller,
           job[c].pc \notin {"done", "lost"} \/ job[c].result # "ok"
    PROVE  fate[c] = "unsaved"
BY DEF StoreInv, OnlyOkSaves

\* Handing a job to the pool preserves the invariant.
LEMMA SubmitStep ==
    ASSUME StoreInv, NEW c \in Caller, NEW o \in Operation,
           NEW i \in PlanId \cup {None}, o = "create" => i \in PlanId,
           Submit(c, o, i)
    PROVE  StoreInv'
<1>1. TypeOK'
  BY DEF StoreInv, TypeOK, Submit, Job, Result, Place, Fate
<1>2. \A d \in Caller \ {c} : job'[d] = job[d]
  BY DEF StoreInv, TypeOK, Submit
<1>3. /\ job[c].pc \notin Holding
      /\ job'[c].pc = "queued" /\ job'[c].op = o /\ job'[c].id = i
      /\ fate[c] = "unsaved"
  BY UnfinishedIsUnsaved DEF StoreInv, TypeOK, Submit, Holding
<1>4. Exclusion'
  BY <1>2, <1>3 DEF StoreInv, TypeOK, Exclusion, Submit, Holding
<1>5. /\ Stored' = Stored /\ Latest' = Latest /\ Recoverable' = Recoverable
      /\ fate' = fate /\ tx' = tx /\ maxPlans' = maxPlans /\ wal' = wal
  BY SameImages DEF Submit
<1>6. Progress'
  BY <1>2, <1>3, <1>5 DEF StoreInv, Progress, ProgressOf, Ids
<1> QED
  BY <1>1, <1>2, <1>3, <1>4, <1>5, <1>6, QuietStep

\* While a job holds the mutex, or nobody does, no other job is between two
\* of its statements.
LEMMA OthersAreOutside ==
    ASSUME StoreInv, NEW c \in Caller, lock \in {None, c}
    PROVE  \A d \in Caller \ {c} : job[d].pc \notin Holding
BY StoreAssumption DEF StoreInv, Exclusion

\* A job that takes the mutex, or goes on to its next statement, without
\* changing a row.
LEMMA AdvanceStep ==
    ASSUME StoreInv, TypeOK', NEW c \in Caller, NEW pc \in Holding, running,
           lock \in {None, c}, job[c].pc \notin {"done", "lost"},
           lock' = c, job' = [job EXCEPT ![c].pc = pc], ProgressOf(c)',
           UNCHANGED <<running, fate>>,
           Stored' = Stored, Recoverable' \subseteq Recoverable
    PROVE  StoreInv'
<1>1. \A d \in Caller \ {c} : job'[d] = job[d] /\ job'[d].pc \notin Holding
  BY OthersAreOutside DEF StoreInv, TypeOK
<1>2. /\ job'[c].pc = pc
      /\ job'[c].op = "create" => job'[c].id \in PlanId
  BY DEF StoreInv, TypeOK, CreatesAreNamed, Job
<1>3. Exclusion'
  BY <1>1, <1>2, StoreAssumption DEF Exclusion
<1>4. Progress'
  BY <1>1 DEF Progress, ProgressOf, Holding
<1>5. fate[c] = "unsaved"
  BY UnfinishedIsUnsaved
<1> QED
  BY <1>1, <1>2, <1>3, <1>4, <1>5, QuietStep

\* Returning keeps the type of the jobs.
LEMMA ReturnTypes ==
    ASSUME job \in [Caller -> Job], NEW c \in Caller, NEW result \in Result,
           NEW plan \in Caller \cup {None}, Return(c, result, plan)
    PROVE  job' \in [Caller -> Job]
<1> DEFINE returned == [job[c] EXCEPT !.pc = "done", !.result = result, !.payload = plan]
<1>1. returned \in Job
  BY DEF Job, Place
<1>2. job' = [job EXCEPT ![c] = returned]
  BY DEF Return
<1> HIDE DEF returned
<1> QED
  BY <1>1, <1>2

\* A job that returns without having changed a row.
LEMMA ReturnStep ==
    ASSUME StoreInv, NEW c \in Caller, NEW result \in Result,
           NEW plan \in Caller \cup {None}, running, lock \in {None, c},
           job[c].pc \notin {"done", "lost"},
           Return(c, result, plan), poisoned' \in BOOLEAN,
           UNCHANGED <<file, wal, fate>>
    PROVE  StoreInv'
<1>1. TypeOK'
  BY ReturnTypes DEF StoreInv, TypeOK, Return
<1>2. \A d \in Caller \ {c} : job'[d] = job[d] /\ job'[d].pc \notin Holding
  BY OthersAreOutside DEF StoreInv, TypeOK, Return
<1>3. /\ job'[c].pc = "done" /\ lock' = None
      /\ job'[c].op = "create" => job'[c].id \in PlanId
  BY DEF StoreInv, TypeOK, Return, CreatesAreNamed, Job
<1>4. Exclusion'
  BY <1>2, <1>3 DEF Exclusion, Holding
<1>5. Progress'
  BY <1>2, <1>3 DEF Progress, ProgressOf, Holding
<1>6. fate[c] = "unsaved"
  BY UnfinishedIsUnsaved
<1> QED
  BY <1>1, <1>2, <1>3, <1>4, <1>5, <1>6, SameImages, QuietStep DEF Return

\* Taking the mutex preserves the invariant.
LEMMA AcquireStep ==
    ASSUME StoreInv, NEW c \in Caller, Acquire(c)
    PROVE  StoreInv'
<1>1. TypeOK'
  BY DEF StoreInv, TypeOK, Acquire, Job, Place, Holding
<1>2. ProgressOf(c)'
  BY DEF StoreInv, TypeOK, Acquire, ProgressOf
<1> QED
  BY <1>1, <1>2, SameImages, AdvanceStep DEF Acquire, Holding

\* Finding the mutex poisoned preserves the invariant.
LEMMA FindPoisonedStep ==
    ASSUME StoreInv, NEW c \in Caller, FindPoisoned(c)
    PROVE  StoreInv'
BY ReturnStep DEF FindPoisoned, Result, StoreInv, TypeOK

\* Counting the rows preserves the invariant: the count is that of `tx`.
LEMMA CheckCapacityStep ==
    ASSUME StoreInv, NEW c \in Caller, CheckCapacity(c)
    PROVE  StoreInv'
<1>1. CASE Cardinality(Stored) >= maxPlans
  BY <1>1, ReturnStep DEF CheckCapacity, At, Result, StoreInv, TypeOK
<1>2. CASE ~(Cardinality(Stored) >= maxPlans)
  <2>1. /\ tx' = Stored /\ Advance(c, "counted")
        /\ UNCHANGED <<file, wal, fate>>
    BY <1>2 DEF CheckCapacity
  <2>2. Stored \in SUBSET Row /\ Stored' = Stored /\ Latest \in Recoverable
    BY <2>1, LatestIsRecoverable, SameImages DEF StoreInv, TypeOK
  <2>3. TypeOK'
    BY <2>1, <2>2 DEF StoreInv, TypeOK, Advance, Job, Place, Holding
  <2>4. Cardinality(Stored) < maxPlans
    <3>1. IsFiniteSet(Stored)
      BY <2>2 DEF StoreInv, FiniteImages, Stored
    <3> QED
      BY <1>2, <3>1, FS_CardinalityType, StoreAssumption DEF StoreInv, TypeOK
  <2>5. ProgressOf(c)'
    BY <2>1, <2>2, <2>4 DEF CheckCapacity, At, StoreInv, TypeOK, Advance, ProgressOf
  <2> QED
    BY <2>1, <2>2, <2>3, <2>5, SameImages, AdvanceStep
       DEF CheckCapacity, At, Advance, Holding
<1> QED
  BY <1>1, <1>2

\* Inserting the row preserves the invariant: its identifier is new.
LEMMA InsertPlanStep ==
    ASSUME StoreInv, NEW c \in Caller, InsertPlan(c)
    PROVE  StoreInv'
<1>1. CASE \E row \in tx : row.id = job[c].id
  BY <1>1, ReturnStep DEF InsertPlan, At, Result, StoreInv, TypeOK
<1>2. CASE ~\E row \in tx : row.id = job[c].id
  <2>1. /\ tx' = tx \cup {[id |-> job[c].id, plan |-> c]}
        /\ Advance(c, "inserted")
        /\ UNCHANGED <<file, wal, fate>>
    BY <1>2 DEF InsertPlan
  <2>2. /\ tx = Stored /\ Cardinality(Stored) < maxPlans
        /\ job[c].op = "create" /\ job[c].pc = "counted"
    BY DEF InsertPlan, At, StoreInv, Progress, ProgressOf
  <2>3. Stored' = Stored /\ Latest' = Latest
    BY <2>1, SameImages
  <2>4. job[c].id \notin Ids(Latest)
    BY <1>2, <2>2 DEF Ids, Stored
  <2>5. TypeOK'
    <3>1. [id |-> job[c].id, plan |-> c] \in Row
      BY <2>2 DEF StoreInv, CreatesAreNamed, Row
    <3> QED
      BY <2>1, <3>1 DEF StoreInv, TypeOK, Advance, Job, Place, Holding
  <2>6. ProgressOf(c)'
    BY <2>1, <2>2, <2>3, <2>4 DEF StoreInv, TypeOK, Advance, ProgressOf, Ids
  <2> QED
    BY <2>1, <2>3, <2>5, <2>6, SameImages, AdvanceStep
       DEF InsertPlan, At, Advance, Holding
<1> QED
  BY <1>1, <1>2

\* Reading a plan preserves the invariant.
LEMMA ReadPlanStep ==
    ASSUME StoreInv, NEW c \in Caller, ReadPlan(c)
    PROVE  StoreInv'
<1>1. CASE Return(c, "not_found", None)
  BY <1>1, ReturnStep DEF ReadPlan, At, Result, StoreInv, TypeOK
<1>2. ASSUME NEW row \in Stored, Return(c, "ok", row.plan)
      PROVE  StoreInv'
  <2>1. row.plan \in Caller
    BY LatestIsRecoverable DEF StoreInv, TypeOK, Row
  <2> QED
    BY <1>2, <2>1, ReturnStep DEF ReadPlan, At, Result, StoreInv, TypeOK
<1> QED
  BY <1>1, <1>2 DEF ReadPlan

\* A health check preserves the invariant.
LEMMA CheckHealthStep ==
    ASSUME StoreInv, NEW c \in Caller, CheckHealth(c)
    PROVE  StoreInv'
BY ReturnStep DEF CheckHealth, At, Result, StoreInv, TypeOK

\* The checkpoint of a wipe preserves the invariant and empties the log.
LEMMA TruncateWalStep ==
    ASSUME StoreInv, NEW c \in Caller, TruncateWal(c)
    PROVE  StoreInv'
<1>1. /\ file' \in Image /\ wal' \in Seq(Image)
      /\ Stored' = Stored /\ Recoverable' \subseteq Recoverable /\ wal' = <<>>
  BY CheckpointProperties DEF TruncateWal, StoreInv, TypeOK
<1>2. job[c].op = "wipe" /\ Stored = {}
  BY DEF TruncateWal, At, StoreInv, Progress, ProgressOf
<1>3. TypeOK'
  BY <1>1 DEF TruncateWal, StoreInv, TypeOK, Advance, Job, Place, Holding
<1>4. ProgressOf(c)'
  BY <1>1, <1>2 DEF TruncateWal, StoreInv, TypeOK, Advance, ProgressOf
<1> QED
  BY <1>1, <1>3, <1>4, AdvanceStep DEF TruncateWal, At, Advance, Holding

\* A statement that fails, and a panic, end the job that holds the mutex.
LEMMA FaultStep ==
    ASSUME StoreInv, NEW c \in Caller, SqlError(c) \/ Panic(c)
    PROVE  StoreInv'
<1>1. running /\ lock = c /\ job[c].pc \notin {"done", "lost"}
  BY StoreAssumption DEF SqlError, Panic, StoreInv, Exclusion, Holding
<1> QED
  BY <1>1, ReturnStep DEF SqlError, Panic, Result, StoreInv, TypeOK

-----------------------------------------------------------------------------
(* Steps that change rows.                                                 *)

\* The commit of a create preserves the invariant: one row becomes earned.
LEMMA CommitPlanStep ==
    ASSUME StoreInv, NEW c \in Caller, CommitPlan(c)
    PROVE  StoreInv' /\ Cardinality(Stored') <= maxPlans
<1> DEFINE new == [id |-> job[c].id, plan |-> c]
<1>1. PICK slack \in {FALSE, Latest.slack} : Commit([rows |-> tx, slack |-> slack])
  BY DEF CommitPlan
<1> DEFINE image == [rows |-> tx, slack |-> slack]
<1>2. /\ job[c].op = "create" /\ job[c].pc = "inserted"
      /\ lock = c /\ running
      /\ job[c].id \notin Ids(Latest)
      /\ tx = Stored \cup {new}
      /\ Cardinality(Stored) < maxPlans
      /\ new \in Row
  BY DEF CommitPlan, At, StoreInv, Progress, ProgressOf, CreatesAreNamed, Row
<1>3. /\ Latest \in Image /\ Latest \in Recoverable
      /\ Recoverable \subseteq Image
  BY LatestIsRecoverable DEF StoreInv, TypeOK
<1>4. image \in Image
  BY <1>3 DEF StoreInv, TypeOK, Image
<1>5. /\ file' \in Image /\ wal' \in Seq(Image)
      /\ Stored' = tx
      /\ Recoverable' \subseteq Recoverable \cup {image}
  BY <1>1, <1>4, CommitProperties DEF StoreInv, TypeOK
<1>6. fate[c] = "unsaved"
  BY <1>2, UnfinishedIsUnsaved
<1>7. /\ job' = [job EXCEPT ![c].pc = "done", ![c].result = "ok",
                            ![c].payload = None]
      /\ fate' = [fate EXCEPT ![c] = "saved"]
      /\ lock' = None /\ tx' = {} /\ UNCHANGED <<maxPlans, running, poisoned>>
  BY DEF CommitPlan, Return
<1>8. /\ \A d \in Caller \ {c} : job'[d] = job[d] /\ fate'[d] = fate[d]
      /\ fate'[c] = "saved"
      /\ job'[c].pc = "done" /\ job'[c].op = "create" /\ job'[c].result = "ok"
      /\ job'[c].id = job[c].id
  BY <1>2, <1>7 DEF StoreInv, TypeOK, Job
<1>9. TypeOK'
  <2>1. job' \in [Caller -> Job]
    BY ReturnTypes DEF CommitPlan, StoreInv, TypeOK, Result
  <2>2. fate' \in [Caller -> Fate]
    BY <1>7 DEF StoreInv, TypeOK, Fate
  <2> QED
    BY <1>5, <1>7, <2>1, <2>2 DEF StoreInv, TypeOK
<1>10. \A d \in Caller : job'[d].pc \notin Holding
  BY <1>2, <1>8, OthersAreOutside DEF Holding
<1>11. Exclusion' /\ Progress'
  BY <1>7, <1>10 DEF Exclusion, Progress, ProgressOf, Holding
<1>12. CreatesAreNamed'
  BY <1>2, <1>8 DEF StoreInv, CreatesAreNamed
<1>13. \A old \in Recoverable : \A row \in old.rows : row.plan \in Caller \ {c}
  BY <1>3, <1>6 DEF StoreInv, RowsAreEarned, Image, Row
<1>14. IsFiniteSet(Stored)
  BY <1>3 DEF StoreInv, FiniteImages, Stored
<1>15. IsFiniteSet(tx) /\ Cardinality(tx) <= Cardinality(Stored) + 1
  <2>1. /\ IsFiniteSet(Stored \cup {new})
        /\ \/ Cardinality(Stored \cup {new}) = Cardinality(Stored)
           \/ Cardinality(Stored \cup {new}) = Cardinality(Stored) + 1
    BY <1>14, FS_AddElement
  <2>2. Cardinality(Stored) \in Nat
    BY <1>14, FS_CardinalityType
  <2> QED
    BY <1>2, <2>1, <2>2
<1>16. FiniteImages'
  BY <1>5, <1>15 DEF StoreInv, FiniteImages
<1>17. PermalinksAreUnambiguous'
  <2>1. \A r, s \in tx : r.id = s.id => r = s
    BY <1>2, <1>3 DEF StoreInv, PermalinksAreUnambiguous, Ids, Stored
  <2> QED
    BY <1>5, <2>1 DEF StoreInv, PermalinksAreUnambiguous
<1>18. RowsAreEarned'
  <2>1. ASSUME NEW row \in tx
        PROVE  /\ job'[row.plan].op = "create" /\ job'[row.plan].id = row.id
               /\ job'[row.plan].result = "ok"
               /\ job'[row.plan].pc \in {"done", "lost"}
               /\ fate'[row.plan] \notin {"unsaved", "erased"}
    BY <1>2, <1>3, <1>8, <1>13 DEF StoreInv, RowsAreEarned, Stored
  <2> QED
    BY <1>5, <1>8, <1>13, <2>1 DEF StoreInv, RowsAreEarned
<1>19. OnlyOkSaves'
  BY <1>8 DEF StoreInv, OnlyOkSaves
<1>20. SavedPlansArePresent'
  BY <1>2, <1>5, <1>8 DEF StoreInv, SavedPlansArePresent
<1>21. Cardinality(Stored') <= maxPlans
  BY <1>2, <1>5, <1>14, <1>15, FS_CardinalityType, StoreAssumption
     DEF StoreInv, TypeOK
<1> QED
  BY <1>9, <1>11, <1>12, <1>16, <1>17, <1>18, <1>19, <1>20, <1>21 DEF StoreInv

\* The DELETE of a wipe preserves the invariant: old images keep their rows.
LEMMA DeletePlansStep ==
    ASSUME StoreInv, NEW c \in Caller, DeletePlans(c)
    PROVE  StoreInv'
<1> DEFINE image == [rows |-> {}, slack |-> Latest.slack \/ Stored # {}]
<1>1. /\ Commit(image)
      /\ fate' = [p \in Caller |-> IF fate[p] = "saved" THEN "deleted" ELSE fate[p]]
      /\ job' = [job EXCEPT ![c].pc = "deleted"]
      /\ UNCHANGED <<tx, lock, poisoned, maxPlans, running>>
      /\ running /\ lock = c /\ job[c].op = "wipe" /\ job[c].pc = "locked"
  BY DEF DeletePlans, Advance, At
<1>2. Latest \in Image /\ image \in Image
  BY LatestIsRecoverable DEF StoreInv, TypeOK, Image
<1>3. /\ file' \in Image /\ wal' \in Seq(Image)
      /\ Stored' = {}
      /\ Recoverable' \subseteq Recoverable \cup {image}
  BY <1>1, <1>2, CommitProperties DEF StoreInv, TypeOK
<1>4. /\ \A d \in Caller \ {c} : job'[d] = job[d] /\ job[d].pc \notin Holding
      /\ job'[c].pc = "deleted" /\ job'[c].op = "wipe" /\ fate[c] = "unsaved"
  BY <1>1, OthersAreOutside, UnfinishedIsUnsaved DEF StoreInv, TypeOK, Job
<1>5. TypeOK'
  <2>1. job' \in [Caller -> Job]
    BY <1>1 DEF StoreInv, TypeOK, Job, Place, Holding
  <2>2. fate' \in [Caller -> Fate]
    BY <1>1 DEF StoreInv, TypeOK, Fate
  <2> QED
    BY <1>1, <1>3, <2>1, <2>2 DEF StoreInv, TypeOK
<1>6. Exclusion' /\ Progress' /\ CreatesAreNamed'
  BY <1>1, <1>3, <1>4, StoreAssumption
     DEF StoreInv, Exclusion, Progress, ProgressOf, CreatesAreNamed, Holding
<1>7. FiniteImages' /\ PermalinksAreUnambiguous'
  <2>1. \A new \in Recoverable' : new \in Recoverable \/ new.rows = {}
    BY <1>3
  <2> QED
    BY <2>1, FS_EmptySet DEF StoreInv, FiniteImages, PermalinksAreUnambiguous
<1>8. RowsAreEarned'
  <2>1. ASSUME NEW old \in Recoverable, NEW row \in old.rows
        PROVE  row.plan \in Caller \ {c}
    BY <1>4, LatestIsRecoverable DEF StoreInv, TypeOK, RowsAreEarned, Image, Row
  <2> QED
    BY <1>1, <1>3, <1>4, <2>1 DEF StoreInv, RowsAreEarned
<1>9. OnlyOkSaves' /\ SavedPlansArePresent'
  BY <1>1, <1>4 DEF StoreInv, OnlyOkSaves, SavedPlansArePresent
<1> QED
  BY <1>5, <1>6, <1>7, <1>8, <1>9 DEF StoreInv

\* The end of a wipe preserves the invariant: no image has a row left.
LEMMA VacuumStep ==
    ASSUME StoreInv, NEW c \in Caller, Vacuum(c)
    PROVE  StoreInv'
<1>1. /\ job[c].op = "wipe" /\ job[c].pc = "truncated" /\ lock = c
      /\ Stored = {} /\ wal = <<>>
  BY DEF Vacuum, At, StoreInv, Progress, ProgressOf
<1> DEFINE image == [rows |-> Stored, slack |-> FALSE]
<1>2. /\ wal' = Append(wal, image) /\ file' = file
      /\ fate' = [p \in Caller |-> IF fate[p] = "unsaved" THEN fate[p] ELSE "erased"]
      /\ Return(c, "ok", None)
      /\ UNCHANGED poisoned
  BY DEF Vacuum
<1>3. image \in Image
  BY <1>1 DEF Image
<1>4. /\ file' \in Image /\ wal' \in Seq(Image)
      /\ Recoverable' \subseteq Recoverable \cup {image}
  BY <1>2, <1>3, CommitProperties DEF Commit, StoreInv, TypeOK
<1>5. \A old \in Recoverable' : old.rows = {}
  <2>1. Recoverable = {file} /\ file.rows = {}
    BY <1>1, EmptySeq DEF Recoverable, Stored, Latest
  <2> QED
    BY <1>1, <1>4, <2>1
<1>6. Stored' = {}
  BY <1>1, <1>2, <1>3, CommitProperties DEF Commit, StoreInv, TypeOK
<1>7. /\ \A d \in Caller \ {c} : job'[d] = job[d] /\ job[d].pc \notin Holding
      /\ job'[c].pc = "done" /\ job'[c].op = "wipe" /\ fate[c] = "unsaved"
      /\ lock' = None /\ tx' = {} /\ UNCHANGED <<maxPlans, running>>
  BY <1>1, <1>2, OthersAreOutside, UnfinishedIsUnsaved
     DEF StoreInv, TypeOK, Job, Return
<1>8. TypeOK'
  <2>1. job' \in [Caller -> Job]
    BY <1>2, ReturnTypes DEF StoreInv, TypeOK, Result
  <2>2. fate' \in [Caller -> Fate]
    BY <1>2 DEF StoreInv, TypeOK, Fate
  <2> QED
    BY <1>2, <1>4, <1>7, <2>1, <2>2 DEF StoreInv, TypeOK
<1>9. Exclusion' /\ Progress' /\ CreatesAreNamed'
  BY <1>7 DEF StoreInv, Exclusion, Progress, ProgressOf, CreatesAreNamed, Holding
<1>10. FiniteImages' /\ PermalinksAreUnambiguous' /\ RowsAreEarned'
  BY <1>5, FS_EmptySet DEF FiniteImages, PermalinksAreUnambiguous, RowsAreEarned
<1>11. OnlyOkSaves' /\ SavedPlansArePresent'
  BY <1>2, <1>7 DEF StoreInv, OnlyOkSaves, SavedPlansArePresent
<1> QED
  BY <1>8, <1>9, <1>10, <1>11 DEF StoreInv

-----------------------------------------------------------------------------
(* The end of the process, and its restart.                                *)

\* Whatever ends the process: no caller's job changes but for its place.
LEMMA StopProperties ==
    ASSUME StoreInv, Stop
    PROVE  /\ job' \in [Caller -> Job]
           /\ \A c \in Caller :
                /\ job'[c].op = job[c].op /\ job'[c].id = job[c].id
                /\ job'[c].result = job[c].result
                /\ job'[c].pc \in {"idle", "lost"}
                /\ job[c].pc \in {"done", "lost"} => job'[c].pc = "lost"
           /\ Exclusion' /\ Progress' /\ CreatesAreNamed'
<1>1. job' \in [Caller -> Job]
  BY DEF StoreInv, TypeOK, Stop, Job, Place
<1>2. \A c \in Caller :
        /\ job'[c].op = job[c].op /\ job'[c].id = job[c].id
        /\ job'[c].result = job[c].result
        /\ job'[c].pc \in {"idle", "lost"}
        /\ job[c].pc \in {"done", "lost"} => job'[c].pc = "lost"
  BY DEF StoreInv, TypeOK, Stop, Job
<1>3. Exclusion' /\ Progress' /\ CreatesAreNamed'
  BY <1>2 DEF StoreInv, Stop, Exclusion, Progress, ProgressOf, CreatesAreNamed, Holding
<1> QED
  BY <1>1, <1>2, <1>3

\* The process ends and every row stays.
LEMMA StopStep ==
    ASSUME StoreInv, Stop, fate' = fate, file' \in Image, wal' \in Seq(Image),
           Stored' = Stored, Recoverable' \subseteq Recoverable
    PROVE  StoreInv'
<1>1. TypeOK'
  BY StopProperties DEF StoreInv, TypeOK, Stop
<1>2. FiniteImages' /\ PermalinksAreUnambiguous'
  BY DEF StoreInv, FiniteImages, PermalinksAreUnambiguous
<1>3. RowsAreEarned'
  <2>1. \A image \in Recoverable : \A row \in image.rows : row.plan \in Caller
    BY LatestIsRecoverable DEF StoreInv, TypeOK, Image, Row
  <2> QED
    BY <2>1, StopProperties DEF StoreInv, RowsAreEarned
<1>4. OnlyOkSaves'
  BY StopProperties DEF StoreInv, OnlyOkSaves
<1>5. SavedPlansArePresent'
  BY StopProperties DEF StoreInv, SavedPlansArePresent
<1> QED
  BY <1>1, <1>2, <1>3, <1>4, <1>5, StopProperties DEF StoreInv

\* A loss of power preserves the invariant: what it cuts off is marked lost.
LEMMA PowerLossStep ==
    ASSUME StoreInv, PowerLoss
    PROVE  StoreInv'
<1>1. PICK n \in 0..Len(wal) : wal' = SubSeq(wal, 1, n)
  BY DEF PowerLoss
<1>2. /\ file' = file /\ Stop
      /\ fate' = [p \in Caller |->
                    IF fate[p] = "saved" /\ p \notin Plans(Latest') THEN "lost"
                    ELSE fate[p]]
  BY DEF PowerLoss
<1>3. /\ file' \in Image /\ wal' \in Seq(Image)
      /\ Latest' \in Recoverable /\ Recoverable' \subseteq Recoverable
  BY <1>1, <1>2, CutProperties DEF StoreInv, TypeOK
<1>4. \A image \in Recoverable : image.rows \subseteq Row
  BY LatestIsRecoverable DEF StoreInv, TypeOK, Image
<1>5. TypeOK'
  <2>1. fate' \in [Caller -> Fate]
    BY <1>2 DEF StoreInv, TypeOK, Fate
  <2> QED
    BY <1>2, <1>3, <2>1, StopProperties DEF StoreInv, TypeOK, Stop
<1>6. FiniteImages' /\ PermalinksAreUnambiguous'
  BY <1>3 DEF StoreInv, FiniteImages, PermalinksAreUnambiguous
<1>7. RowsAreEarned'
  BY <1>2, <1>3, <1>4, StopProperties DEF StoreInv, RowsAreEarned, Row
<1>8. OnlyOkSaves'
  BY <1>2, StopProperties DEF StoreInv, OnlyOkSaves
<1>9. SavedPlansArePresent'
  <2> SUFFICES ASSUME NEW c \in Caller, fate'[c] = "saved"
               PROVE  [id |-> job'[c].id, plan |-> c] \in Stored'
    BY DEF SavedPlansArePresent
  <2>1. c \in Plans(Latest')
    BY <1>2
  <2>2. PICK row \in Stored' : row.plan = c
    BY <2>1 DEF Plans, Stored
  <2>3. row \in Row /\ row.id = job'[c].id
    BY <1>2, <1>3, <1>4, <2>2, StopProperties DEF StoreInv, RowsAreEarned, Stored
  <2>4. row = [id |-> job'[c].id, plan |-> c]
    BY <2>2, <2>3 DEF Row
  <2> QED
    BY <2>2, <2>4
<1> QED
  BY <1>2, <1>5, <1>6, <1>7, <1>8, <1>9, StopProperties DEF StoreInv

\* Crash, loss of power, shutdown and restart preserve the invariant.
LEMMA EnvironmentStep ==
    ASSUME StoreInv, Environment
    PROVE  StoreInv'
<1>1. CASE Crash
  BY <1>1, StopStep, SameImages DEF Crash, StoreInv, TypeOK
<1>2. CASE Close
  BY <1>2, StopStep, CheckpointProperties DEF Close, StoreInv, TypeOK
<1>3. CASE Open
  <2>1. TypeOK'
    BY <1>3 DEF Open, StoreInv, TypeOK
  <2>2. \A c \in Caller : job[c].pc \notin Holding
    BY <1>3, StoreAssumption DEF Open, StoreInv, Exclusion
  <2>3. Exclusion' /\ Progress' /\ CreatesAreNamed'
    BY <1>3, <2>2, StoreAssumption
       DEF Open, StoreInv, Exclusion, Progress, ProgressOf, CreatesAreNamed, Holding
  <2>4. /\ FiniteImages' /\ PermalinksAreUnambiguous' /\ RowsAreEarned'
        /\ OnlyOkSaves' /\ SavedPlansArePresent'
    BY <1>3, SameImages DEF Open, StoreInv, FiniteImages, PermalinksAreUnambiguous,
       RowsAreEarned, OnlyOkSaves, SavedPlansArePresent
  <2> QED
    BY <2>1, <2>3, <2>4 DEF StoreInv
<1> QED
  BY <1>1, <1>2, <1>3, PowerLossStep DEF Environment

-----------------------------------------------------------------------------
(* The invariant, and what follows from it.                                *)

\* The initial states satisfy the invariant.
LEMMA InitEstablishes == Init => StoreInv
<1> SUFFICES ASSUME Init PROVE StoreInv
  OBVIOUS
<1>1. wal \in Seq(Image) /\ wal = <<>> /\ Len(wal) = 0
  BY EmptySeq DEF Init
<1>2. TypeOK
  BY <1>1 DEF Init, TypeOK, Image, Job, Operation, Place, Result, Fate
<1>3. Recoverable = {file} /\ Stored = {} /\ file.rows = {}
  BY <1>1 DEF Init, Recoverable, Stored, Latest
<1>4. Exclusion /\ Progress /\ CreatesAreNamed
  BY DEF Init, Exclusion, Progress, ProgressOf, CreatesAreNamed, Holding
<1>5. FiniteImages /\ PermalinksAreUnambiguous /\ RowsAreEarned
  BY <1>3, FS_EmptySet DEF FiniteImages, PermalinksAreUnambiguous, RowsAreEarned
<1>6. OnlyOkSaves /\ SavedPlansArePresent
  BY DEF Init, OnlyOkSaves, SavedPlansArePresent
<1> QED
  BY <1>2, <1>4, <1>5, <1>6 DEF StoreInv

\* Every step preserves the invariant.
LEMMA StepPreserves == StoreInv /\ [Next]_vars => StoreInv'
<1> SUFFICES ASSUME StoreInv, [Next]_vars PROVE StoreInv'
  OBVIOUS
<1>1. ASSUME NEW c \in Caller, Work(c)
      PROVE  StoreInv'
  BY <1>1, AcquireStep, FindPoisonedStep, CheckCapacityStep, InsertPlanStep,
     CommitPlanStep, ReadPlanStep, CheckHealthStep, DeletePlansStep,
     TruncateWalStep, VacuumStep DEF Work
<1>2. ASSUME NEW c \in Caller, NEW o \in {"create", "get"}, NEW i \in PlanId,
             Submit(c, o, i)
      PROVE  StoreInv'
  BY <1>2, SubmitStep DEF Operation
<1>3. ASSUME NEW c \in Caller, NEW o \in {"wipe", "health"}, Submit(c, o, None)
      PROVE  StoreInv'
  BY <1>3, SubmitStep DEF Operation
<1>4. CASE UNCHANGED vars
  BY <1>4, SameImages DEF vars, StoreInv, TypeOK, Exclusion, Progress, ProgressOf,
     CreatesAreNamed, FiniteImages, PermalinksAreUnambiguous, RowsAreEarned,
     OnlyOkSaves, SavedPlansArePresent
<1> QED
  BY <1>1, <1>2, <1>3, <1>4, FaultStep, EnvironmentStep DEF Next

\* Every state that steps reach satisfies the inductive invariant.
LEMMA StepsInvariance == Steps => []StoreInv
BY InitEstablishes, StepPreserves, PTL DEF Steps

\* Every reachable state satisfies the inductive invariant.
THEOREM Invariance == Spec => []StoreInv
BY StepsInvariance, PTL DEF Spec, Steps

\* Every variable keeps its type, for any number of requests and whatever the
\* limit is at each restart.
THEOREM TypeCorrect == Spec => []TypeOK
<1>1. StoreInv => TypeOK
  BY DEF StoreInv
<1> QED
  BY <1>1, Invariance, PTL

\* No two plans ever share a permalink, in any state a power loss can leave.
THEOREM Unambiguous == Spec => []PermalinksAreUnambiguous
<1>1. StoreInv => PermalinksAreUnambiguous
  BY DEF StoreInv
<1> QED
  BY <1>1, Invariance, PTL

\* A plan whose creation was reported is there, until a wipe or a power loss.
THEOREM SavedPresent == Spec => []SavedPlansArePresent
<1>1. StoreInv => SavedPlansArePresent
  BY DEF StoreInv
<1> QED
  BY <1>1, Invariance, PTL

\* After a completed wipe, no plan stored before it can come back.
THEOREM Erased == Spec => []ErasedForGood
<1>1. StoreInv => ErasedForGood
  <2> SUFFICES ASSUME StoreInv, NEW c \in Caller, fate[c] = "erased",
                      NEW image \in Recoverable, c \in Plans(image)
               PROVE  FALSE
    BY DEF ErasedForGood
  <2>1. PICK row \in image.rows : row.plan = c
    BY DEF Plans
  <2> QED
    BY <2>1 DEF StoreInv, RowsAreEarned
<1> QED
  BY <1>1, Invariance, PTL

\* A rejected upload left nothing behind.
THEOREM RejectedGone == Spec => []RejectedLeavesNothing
<1>1. StoreInv => RejectedLeavesNothing
  <2> SUFFICES ASSUME StoreInv, NEW c \in Caller, job[c].result # "ok",
                      NEW image \in Recoverable, c \in Plans(image)
               PROVE  FALSE
    BY DEF RejectedLeavesNothing
  <2>1. PICK row \in image.rows : row.plan = c
    BY DEF Plans
  <2> QED
    BY <2>1 DEF StoreInv, RowsAreEarned
<1> QED
  BY <1>1, Invariance, PTL

-----------------------------------------------------------------------------
(* Action properties.                                                      *)

\* Only CommitPlan saves a plan.
LEMMA OnlyCommitSaves ==
    ASSUME StoreInv, [Next]_vars, NEW c \in Caller,
           fate[c] = "unsaved", fate'[c] = "saved"
    PROVE  CommitPlan(c)
<1>1. ASSUME NEW d \in Caller, Work(d), ~CommitPlan(d)
      PROVE  fate'[c] # "saved"
  BY <1>1 DEF Work, Acquire, FindPoisoned, CheckCapacity, InsertPlan, ReadPlan,
     CheckHealth, DeletePlans, TruncateWal, Vacuum
<1>2. ASSUME NEW d \in Caller, CommitPlan(d)
      PROVE  d = c
  BY <1>2 DEF CommitPlan, StoreInv, TypeOK
<1>3. CASE Environment
  BY <1>3 DEF Environment, Crash, PowerLoss, Close, Open
<1>4. ASSUME NEW d \in Caller, SqlError(d) \/ Panic(d)
      PROVE  fate'[c] # "saved"
  BY <1>4 DEF SqlError, Panic
<1>5. ASSUME NEW d \in Caller, NEW o, NEW i, Submit(d, o, i)
      PROVE  fate'[c] # "saved"
  BY <1>5 DEF Submit
<1>6. CASE UNCHANGED vars
  BY <1>6 DEF vars
<1> QED
  BY <1>1, <1>2, <1>3, <1>4, <1>5, <1>6 DEF Next

\* No step takes the table beyond the limit in force.
LEMMA StepsRespectCapacity == Steps => CapacityRespected
<1>1. StoreInv /\ [Next]_vars =>
        \A c \in Caller : fate[c] = "unsaved" /\ fate'[c] = "saved" =>
            Cardinality(Stored') <= maxPlans
  BY OnlyCommitSaves, CommitPlanStep
<1> QED
  BY <1>1, StepsInvariance, PTL DEF Steps, CapacityRespected

\* Creating a plan never takes the table beyond the limit in force: the count,
\* the insert and the commit of one job act as one step.
THEOREM Capacity == Spec => CapacityRespected
BY StepsRespectCapacity, PTL DEF Spec, Steps

\* No step of a live process changes a row: it adds one, or deletes them all.
LEMMA RowsGrowOrGo ==
    ASSUME StoreInv, [Next]_vars, running, running'
    PROVE  Stored \subseteq Stored' \/ Stored' = {}
<1>1. CASE UNCHANGED <<file, wal>>
  BY <1>1, SameImages
<1>2. ASSUME NEW c \in Caller, CommitPlan(c)
      PROVE  Stored \subseteq Stored'
  <2>1. PICK slack \in {FALSE, Latest.slack} : Commit([rows |-> tx, slack |-> slack])
    BY <1>2 DEF CommitPlan
  <2>2. [rows |-> tx, slack |-> slack] \in Image
    BY LatestIsRecoverable DEF StoreInv, TypeOK, Image
  <2>3. Stored' = tx
    BY <2>1, <2>2, CommitProperties DEF StoreInv, TypeOK
  <2> QED
    BY <1>2, <2>3 DEF CommitPlan, At, StoreInv, Progress, ProgressOf
<1>3. ASSUME NEW c \in Caller, DeletePlans(c)
      PROVE  Stored' = {}
  <2>1. [rows |-> {}, slack |-> Latest.slack \/ Stored # {}] \in Image
    BY LatestIsRecoverable DEF StoreInv, TypeOK, Image
  <2> QED
    BY <1>3, <2>1, CommitProperties DEF DeletePlans, StoreInv, TypeOK
<1>4. ASSUME NEW c \in Caller, TruncateWal(c)
      PROVE  Stored' = Stored
  BY <1>4, CheckpointProperties DEF TruncateWal, StoreInv, TypeOK
<1>5. ASSUME NEW c \in Caller, Vacuum(c)
      PROVE  Stored' = Stored
  <2>1. [rows |-> Stored, slack |-> FALSE] \in Image
    BY LatestIsRecoverable DEF StoreInv, TypeOK, Image
  <2>2. Commit([rows |-> Stored, slack |-> FALSE])
    BY <1>5 DEF Vacuum, Commit
  <2> QED
    BY <2>1, <2>2, CommitProperties DEF StoreInv, TypeOK
<1>6. ASSUME NEW c \in Caller, Work(c)
      PROVE  Stored \subseteq Stored' \/ Stored' = {}
  BY <1>1, <1>2, <1>3, <1>4, <1>5, <1>6 DEF Work, Acquire, FindPoisoned,
     CheckCapacity, InsertPlan, ReadPlan, CheckHealth
<1>7. ~Environment
  BY DEF Environment, Crash, PowerLoss, Close, Open, Stop
<1>8. ASSUME NEW c \in Caller, SqlError(c) \/ Panic(c)
      PROVE  UNCHANGED <<file, wal>>
  BY <1>8 DEF SqlError, Panic
<1>9. ASSUME NEW c \in Caller, NEW o, NEW i, Submit(c, o, i)
      PROVE  UNCHANGED <<file, wal>>
  BY <1>9 DEF Submit
<1> QED
  BY <1>1, <1>6, <1>7, <1>8, <1>9 DEF Next, vars

\* No step changes a row.
LEMMA StepsKeepRows == Steps => PlansAreImmutable
<1>1. StoreInv /\ [Next]_vars =>
        (running /\ running' => Stored \subseteq Stored' \/ Stored' = {})
  BY RowsGrowOrGo
<1> QED
  BY <1>1, StepsInvariance, PTL DEF Steps, PlansAreImmutable

\* What is behind a permalink never changes while the process lives, for any
\* number of requests: a plan stays as it was uploaded, or all plans go.
THEOREM Immutable == Spec => PlansAreImmutable
BY StepsKeepRows, PTL DEF Spec, Steps

-----------------------------------------------------------------------------
(* A poisoned mutex.                                                       *)

\* Nobody holds a poisoned mutex.
PoisonedIsFree == poisoned => lock = None

\* Once it is poisoned, nobody takes the mutex.
LEMMA PoisonedStaysFree ==
    ASSUME StoreInv, PoisonedIsFree, [Next]_vars
    PROVE  PoisonedIsFree'
<1>1. ASSUME NEW c \in Caller, Work(c)
      PROVE  PoisonedIsFree'
  BY <1>1, StoreAssumption DEF PoisonedIsFree, Work, Acquire, FindPoisoned,
     CheckCapacity, InsertPlan, CommitPlan, ReadPlan, CheckHealth, DeletePlans,
     TruncateWal, Vacuum, At, Advance, Return
<1>2. ASSUME NEW c \in Caller, SqlError(c) \/ Panic(c)
      PROVE  PoisonedIsFree'
  BY <1>2 DEF SqlError, Panic, Return, PoisonedIsFree
<1>3. ASSUME NEW c \in Caller, NEW o, NEW i, Submit(c, o, i)
      PROVE  PoisonedIsFree'
  BY <1>3 DEF Submit, PoisonedIsFree
<1>4. CASE Environment
  BY <1>4 DEF Environment, Crash, PowerLoss, Close, Open, Stop, PoisonedIsFree
<1>5. CASE UNCHANGED vars
  BY <1>5 DEF vars, PoisonedIsFree
<1> QED
  BY <1>1, <1>2, <1>3, <1>4, <1>5 DEF Next

\* With a poisoned mutex no step of a live process touches the database, and
\* a job can only end with an error.
LEMMA PoisonedStep ==
    ASSUME StoreInv, PoisonedIsFree, [Next]_vars, poisoned, running'
    PROVE  /\ UNCHANGED <<file, wal>>
           /\ \A c \in Caller :
                job[c].pc # "done" /\ job'[c].pc = "done" => job'[c].result = "other"
<1>1. lock = None /\ \A c \in Caller : lock # c
  BY StoreAssumption DEF PoisonedIsFree
<1>2. ASSUME NEW c \in Caller, Work(c)
      PROVE  FindPoisoned(c)
  BY <1>1, <1>2 DEF Work, Acquire, CheckCapacity, InsertPlan, CommitPlan, ReadPlan,
     CheckHealth, DeletePlans, TruncateWal, Vacuum, At
<1>3. ASSUME NEW c \in Caller, FindPoisoned(c), NEW d \in Caller,
             job[d].pc # "done", job'[d].pc = "done"
      PROVE  job'[d].result = "other"
  BY <1>3 DEF FindPoisoned, Return, StoreInv, TypeOK, Job
<1>4. ASSUME NEW c \in Caller, NEW o, NEW i, Submit(c, o, i), NEW d \in Caller
      PROVE  job'[d].pc = "done" => job'[d] = job[d]
  BY <1>4 DEF Submit, StoreInv, TypeOK
<1>5. ASSUME NEW c \in Caller
      PROVE  ~SqlError(c) /\ ~Panic(c)
  BY <1>1, <1>5 DEF SqlError, Panic
<1>6. CASE Environment
  BY <1>6 DEF Environment, Crash, PowerLoss, Close, Open, Stop
<1>7. ASSUME NEW c \in Caller, FindPoisoned(c) PROVE UNCHANGED <<file, wal>>
  BY <1>7 DEF FindPoisoned
<1>8. ASSUME NEW c \in Caller, NEW o, NEW i, Submit(c, o, i)
      PROVE  UNCHANGED <<file, wal>>
  BY <1>8 DEF Submit
<1>9. CASE UNCHANGED vars
  BY <1>9 DEF vars
<1> QED
  BY <1>2, <1>3, <1>4, <1>5, <1>6, <1>7, <1>8, <1>9 DEF Next

\* No step touches the database under a poisoned mutex.
LEMMA StepsFailStop == Steps => PoisonIsFailStop
<1>1. Init => PoisonedIsFree
  BY DEF Init, PoisonedIsFree
<1>2. StoreInv /\ PoisonedIsFree /\ [Next]_vars => PoisonedIsFree'
  BY PoisonedStaysFree
<1>3. StoreInv /\ PoisonedIsFree /\ [Next]_vars =>
        (poisoned /\ running' =>
           /\ UNCHANGED <<file, wal>>
           /\ \A c \in Caller :
                job[c].pc # "done" /\ job'[c].pc = "done" =>
                    job'[c].result = "other")
  BY PoisonedStep
<1> QED
  BY <1>1, <1>2, <1>3, StepsInvariance, PTL DEF Steps, PoisonIsFailStop

\* After a panic under the mutex the store is fail-stop until a restart, for
\* any number of jobs in the queue.
THEOREM FailStop == Spec => PoisonIsFailStop
BY StepsFailStop, PTL DEF Spec, Steps

-----------------------------------------------------------------------------
(* What becomes of plans and jobs over time, for those who build on the    *)
(* store.                                                                  *)

\* The images from the file to the end of the log.
Nth(n) == IF n = 0 THEN file ELSE wal[n]

\* Once an image has plan `c`, all later ones have it.
Lasts(c) ==
    \A m, n \in 0..Len(wal) : m <= n /\ c \in Plans(Nth(m)) => c \in Plans(Nth(n))

\* A job has a result when it is done, a plan whose creation returned Ok has
\* a fate, a saved plan lasts, and a lost one cannot come back.
NoEarlyResult == \A c \in Caller : job[c].pc \notin {"done", "lost"} => job[c].result = "none"
SavesAreKnown ==
    \A c \in Caller : job[c].op = "create" /\ job[c].result = "ok" => fate[c] # "unsaved"
SavedLast == \A c \in Caller : fate[c] = "saved" => Lasts(c)
LostAreGone ==
    \A c \in Caller : fate[c] = "lost" => \A image \in Recoverable : c \notin Plans(image)

Remembered == NoEarlyResult /\ SavesAreKnown /\ SavedLast /\ LostAreGone

\* Fates only go forward.
LEMMA FatesAge ==
    ASSUME StoreInv, [Next]_vars, NEW p \in Caller
    PROVE  /\ fate[p] # "unsaved" => fate'[p] # "unsaved"
           /\ fate[p] = "erased" => fate'[p] = "erased"
           /\ fate[p] = "lost" => fate'[p] \in {"lost", "erased"}
           /\ fate'[p] = "saved" => fate[p] \in {"unsaved", "saved"}
<1>1. CASE fate' = fate
  BY <1>1
<1>2. ASSUME NEW c \in Caller, CommitPlan(c)
      PROVE  /\ fate[c] = "unsaved" /\ fate'[c] = "saved"
             /\ p # c => fate'[p] = fate[p]
  BY <1>2, UnfinishedIsUnsaved DEF CommitPlan, At, StoreInv, TypeOK
<1>3. ASSUME NEW c \in Caller, DeletePlans(c)
      PROVE  fate'[p] = IF fate[p] = "saved" THEN "deleted" ELSE fate[p]
  BY <1>3 DEF DeletePlans
<1>4. ASSUME NEW c \in Caller, Vacuum(c)
      PROVE  fate'[p] = IF fate[p] = "unsaved" THEN fate[p] ELSE "erased"
  BY <1>4 DEF Vacuum
<1>5. ASSUME NEW c \in Caller, Work(c) \/ SqlError(c) \/ Panic(c)
      PROVE  fate' = fate \/ CommitPlan(c) \/ DeletePlans(c) \/ Vacuum(c)
  BY <1>5 DEF Work, Acquire, FindPoisoned, CheckCapacity, InsertPlan, ReadPlan,
     CheckHealth, TruncateWal, SqlError, Panic
<1>6. CASE PowerLoss
  BY <1>6 DEF PowerLoss
<1>7. CASE Environment /\ ~PowerLoss
  BY <1>1, <1>7 DEF Environment, Crash, Close, Open
<1>8. ASSUME NEW c \in Caller, NEW o, NEW i, Submit(c, o, i)
      PROVE  fate' = fate
  BY <1>8 DEF Submit
<1> QED
  BY <1>1, <1>2, <1>3, <1>4, <1>5, <1>6, <1>7, <1>8 DEF Next, vars

\* A step of one job leaves the other jobs alone, and what was asked of it.
LEMMA JobsAreApart ==
    ASSUME StoreInv, NEW c \in Caller, Work(c) \/ SqlError(c) \/ Panic(c)
    PROVE  /\ \A d \in Caller \ {c} : job'[d] = job[d]
           /\ job[c].pc \in {"queued"} \cup Holding
           /\ job'[c].op = job[c].op /\ job'[c].id = job[c].id
           /\ job'[c].pc # "done" => job'[c].result = job[c].result
           /\ job'[c].pc \notin {"idle", "lost"}
<1>1. CASE Acquire(c)
  BY <1>1 DEF Acquire, StoreInv, TypeOK, Job
<1>2. ASSUME NEW result, NEW plan, Return(c, result, plan)
      PROVE  /\ \A d \in Caller \ {c} : job'[d] = job[d]
             /\ job'[c].op = job[c].op /\ job'[c].id = job[c].id
             /\ job'[c].pc = "done" /\ job'[c].result = result /\ job'[c].payload = plan
  BY <1>2 DEF Return, StoreInv, TypeOK, Job
<1>3. ASSUME NEW pc, Advance(c, pc)
      PROVE  /\ \A d \in Caller \ {c} : job'[d] = job[d]
             /\ job'[c].op = job[c].op /\ job'[c].id = job[c].id
             /\ job'[c].pc = pc /\ job'[c].result = job[c].result
  BY <1>3 DEF Advance, StoreInv, TypeOK, Job
<1>4. lock = c => job[c].pc \in Holding
  BY StoreAssumption DEF StoreInv, Exclusion
<1>5. CASE FindPoisoned(c)
  BY <1>2, <1>5 DEF FindPoisoned
<1>6. CASE SqlError(c) \/ Panic(c)
  BY <1>2, <1>4, <1>6 DEF SqlError, Panic
<1>7. CASE CheckCapacity(c) \/ InsertPlan(c)
  BY <1>2, <1>3, <1>4, <1>7 DEF CheckCapacity, InsertPlan, At
<1>8. CASE CommitPlan(c) \/ CheckHealth(c) \/ Vacuum(c)
  BY <1>2, <1>4, <1>8 DEF CommitPlan, CheckHealth, Vacuum, At
<1>9. CASE ReadPlan(c)
  BY <1>2, <1>4, <1>9 DEF ReadPlan, At
<1>10. CASE DeletePlans(c) \/ TruncateWal(c)
  BY <1>3, <1>4, <1>10 DEF DeletePlans, TruncateWal, At
<1> QED
  BY <1>1, <1>5, <1>6, <1>7, <1>8, <1>9, <1>10 DEF Work

\* What a result says of the fates at the moment it is given.
LEMMA Outcomes ==
    ASSUME StoreInv, Remembered, NEW c \in Caller, Work(c) \/ SqlError(c) \/ Panic(c)
    PROVE  /\ job'[c].op = "wipe" /\ job'[c].result = "ok" =>
                \A p \in Caller : fate[p] # "unsaved" => fate'[p] = "erased"
           /\ job'[c].op = "get" /\ job'[c].result = "not_found" =>
                /\ fate' = fate
                /\ \A p \in Caller : fate[p] = "saved" => job[p].id # job[c].id
           /\ job'[c].op = "get" /\ job'[c].result = "ok" =>
                /\ fate' = fate
                /\ job'[c].payload \in Caller
                /\ fate[job'[c].payload] \notin {"unsaved", "erased", "lost"}
<1>1. job[c].result = "none"
  BY JobsAreApart DEF Remembered, NoEarlyResult, Holding
<1>2. job'[c].op = job[c].op /\ (job'[c].pc # "done" => job'[c].result = "none")
  BY <1>1, JobsAreApart
<1>3. ASSUME NEW result, NEW plan, Return(c, result, plan)
      PROVE  job'[c].pc = "done" /\ job'[c].result = result /\ job'[c].payload = plan
  BY <1>3 DEF Return, StoreInv, TypeOK, Job
<1>4. CASE Vacuum(c)
  BY <1>2, <1>4 DEF Vacuum, At
<1>5. CASE ReadPlan(c)
  <2>1. job[c].op = "get" /\ fate' = fate
    BY <1>5 DEF ReadPlan, At
  <2>2. CASE job[c].id \notin Ids(Latest) /\ Return(c, "not_found", None)
    <3>1. job'[c].result = "not_found"
      BY <1>3, <2>2
    <3>2. ASSUME NEW p \in Caller, fate[p] = "saved"
          PROVE  job[p].id # job[c].id
      <4>1. [id |-> job[p].id, plan |-> p] \in Latest.rows
        BY <3>2 DEF StoreInv, SavedPlansArePresent, Stored
      <4> QED
        BY <2>2, <4>1 DEF Ids
    <3> QED
      BY <1>2, <2>1, <3>1, <3>2
  <2>3. ASSUME NEW row \in Stored, Return(c, "ok", row.plan)
        PROVE  /\ job'[c].result = "ok" /\ row.plan \in Caller
               /\ job'[c].payload = row.plan
               /\ fate[row.plan] \notin {"unsaved", "erased", "lost"}
    <3>1. Latest \in Recoverable /\ Latest \in Image /\ row \in Latest.rows
      BY LatestIsRecoverable DEF StoreInv, TypeOK, Stored
    <3>2. row.plan \in Caller /\ row.plan \in Plans(Latest)
      BY <3>1 DEF Image, Row, Plans
    <3>3. fate[row.plan] \notin {"unsaved", "erased"}
      BY <3>1 DEF StoreInv, RowsAreEarned
    <3>4. fate[row.plan] # "lost"
      BY <3>1, <3>2 DEF Remembered, LostAreGone
    <3> QED
      BY <1>3, <2>3, <3>2, <3>3, <3>4
  <2> QED
    BY <1>2, <1>5, <2>1, <2>2, <2>3 DEF ReadPlan
<1>6. CASE ~Vacuum(c) /\ ~ReadPlan(c)
  <2>1. CASE FindPoisoned(c) \/ SqlError(c) \/ Panic(c)
    BY <1>3, <2>1 DEF FindPoisoned, SqlError, Panic
  <2>2. CASE CheckCapacity(c) \/ InsertPlan(c) \/ CommitPlan(c)
    BY <1>2, <2>2 DEF CheckCapacity, InsertPlan, CommitPlan, At
  <2>3. CASE CheckHealth(c)
    BY <1>2, <2>3 DEF CheckHealth, At
  <2>4. CASE Acquire(c) \/ DeletePlans(c) \/ TruncateWal(c)
    <3>1. job'[c].pc # "done"
      BY <2>4 DEF Acquire, DeletePlans, TruncateWal, Advance, StoreInv, TypeOK, Job
    <3> QED
      BY <1>2, <3>1
  <2> QED
    BY <1>6, <2>1, <2>2, <2>3, <2>4 DEF Work
<1> QED
  BY <1>4, <1>5, <1>6

\* Jobs still have no result before they are done.
LEMMA ResultsStayLate ==
    ASSUME StoreInv, Remembered, [Next]_vars
    PROVE  NoEarlyResult'
<1> SUFFICES ASSUME NEW d \in Caller
             PROVE  job'[d].pc \notin {"done", "lost"} => job'[d].result = "none"
  BY DEF NoEarlyResult
<1>1. job[d].pc \notin {"done", "lost"} => job[d].result = "none"
  BY DEF Remembered, NoEarlyResult
<1>2. ASSUME NEW c \in Caller, Work(c) \/ SqlError(c) \/ Panic(c)
      PROVE  job'[d].pc \notin {"done", "lost"} => job'[d].result = "none"
  BY <1>1, <1>2, JobsAreApart DEF Holding
<1>3. ASSUME NEW c \in Caller, NEW o, NEW i, Submit(c, o, i)
      PROVE  job'[d].pc \notin {"done", "lost"} => job'[d].result = "none"
  BY <1>1, <1>3 DEF Submit, StoreInv, TypeOK
<1>4. CASE Environment
  BY <1>1, <1>4 DEF Environment, Crash, PowerLoss, Close, Open, Stop, StoreInv, TypeOK, Job
<1>5. CASE UNCHANGED vars
  BY <1>1, <1>5 DEF vars
<1> QED
  BY <1>2, <1>3, <1>4, <1>5 DEF Next

\* A create that returns Ok has saved its plan.
LEMMA SavesStayKnown ==
    ASSUME StoreInv, Remembered, [Next]_vars
    PROVE  SavesAreKnown'
<1> SUFFICES ASSUME NEW d \in Caller, job'[d].op = "create", job'[d].result = "ok"
             PROVE  fate'[d] # "unsaved"
  BY DEF SavesAreKnown
<1>1. CASE job[d].op = "create" /\ job[d].result = "ok"
  BY <1>1, FatesAge DEF Remembered, SavesAreKnown
<1>2. ASSUME NEW c \in Caller, Work(c) \/ SqlError(c) \/ Panic(c), c # d
      PROVE  fate'[d] # "unsaved"
  BY <1>1, <1>2, JobsAreApart
<1>3. CASE Work(d) \/ SqlError(d) \/ Panic(d)
  <2>1. job[d].result = "none" /\ job[d].op = "create"
    BY <1>3, JobsAreApart DEF Remembered, NoEarlyResult, Holding
  <2>2. ASSUME NEW result, NEW plan, Return(d, result, plan)
        PROVE  result = "ok"
    BY <2>2 DEF Return, StoreInv, TypeOK, Job
  <2>3. ~Acquire(d)
    BY <2>1 DEF Acquire, StoreInv, TypeOK, Job
  <2>4. ASSUME NEW pc PROVE ~Advance(d, pc)
    BY <2>1 DEF Advance, StoreInv, TypeOK, Job
  <2>5. CommitPlan(d)
    BY <1>3, <2>1, <2>2, <2>3, <2>4 DEF Work, FindPoisoned, CheckCapacity, InsertPlan,
       ReadPlan, CheckHealth, DeletePlans, TruncateWal, Vacuum, SqlError, Panic, At
  <2> QED
    BY <2>5 DEF CommitPlan, StoreInv, TypeOK
<1>4. ASSUME NEW c \in Caller, NEW o, NEW i, Submit(c, o, i)
      PROVE  fate'[d] # "unsaved"
  BY <1>1, <1>4 DEF Submit, StoreInv, TypeOK
<1>5. CASE Environment
  <2>1. job'[d].op = job[d].op /\ job'[d].result = job[d].result
    BY <1>5 DEF Environment, Crash, PowerLoss, Close, Open, Stop, StoreInv, TypeOK, Job
  <2> QED
    BY <1>1, <2>1
<1>6. CASE UNCHANGED vars
  BY <1>1, <1>6 DEF vars
<1> QED
  BY <1>2, <1>3, <1>4, <1>5, <1>6 DEF Next

\* What a commit, an empty log and a cut do to the order of images.
LEMMA CommitLasts ==
    ASSUME wal \in Seq(Image), NEW image \in Image, Commit(image), NEW p,
           \/ Lasts(p) /\ p \in Plans(image)
           \/ \A old \in Recoverable : p \notin Plans(old)
    PROVE  Lasts(p)'
<1>1. Len(wal) \in Nat
  BY LenProperties
<1>2. CASE wal' = Append(wal, image) /\ file' = file
  <2>1. /\ Len(wal') = Len(wal) + 1
        /\ \A k \in 1..Len(wal) : wal'[k] = wal[k]
        /\ wal'[Len(wal) + 1] = image
    BY <1>2, AppendProperties
  <2>2. \A n \in 0..Len(wal) : Nth(n)' = Nth(n)
    BY <1>1, <1>2, <2>1 DEF Nth
  <2>3. \A n \in Nat : n = Len(wal) + 1 => Nth(n)' = image
    BY <1>1, <2>1 DEF Nth
  <2> SUFFICES ASSUME NEW m \in 0..(Len(wal) + 1), NEW n \in 0..(Len(wal) + 1),
                      m <= n, p \in Plans(Nth(m)')
               PROVE  p \in Plans(Nth(n)')
    BY <2>1 DEF Lasts, Plans
  <2>4. CASE n = Len(wal) + 1 /\ m = n
    BY <2>4
  <2>5. CASE m \in 0..Len(wal)
    <3>1. Nth(m) \in Recoverable
      BY <1>1, <2>5 DEF Nth, Recoverable
    <3>2. Lasts(p) /\ p \in Plans(image)
      BY <2>2, <2>5, <3>1
    <3>3. CASE n \in 0..Len(wal)
      BY <2>2, <2>5, <3>2, <3>3 DEF Lasts
    <3>4. CASE n = Len(wal) + 1
      BY <1>1, <2>3, <3>2, <3>4
    <3> QED
      BY <1>1, <3>3, <3>4
  <2> QED
    BY <1>1, <2>4, <2>5
<1>3. CASE wal' = <<>> /\ file' = image
  BY <1>3 DEF Lasts, Nth
<1> QED
  BY <1>2, <1>3 DEF Commit

\* When a power loss cuts the log off, the images that remain last.
LEMMA CutLasts ==
    ASSUME wal \in Seq(Image), file' = file, NEW k \in 0..Len(wal),
           wal' = SubSeq(wal, 1, k), NEW p, Lasts(p)
    PROVE  /\ Lasts(p)'
           /\ p \notin Plans(Latest') => \A image \in Recoverable' : p \notin Plans(image)
<1>1. Len(wal) \in Nat /\ \A n \in 1..Len(wal) : wal[n] \in Image
  BY LenProperties, ElementOfSeq
<1>2. Len(wal') = k /\ \A n \in 1..k : wal'[n] = wal[n]
  BY <1>1, SubSeqProperties
<1>3. \A n \in 0..k : Nth(n)' = Nth(n)
  BY <1>2 DEF Nth
<1>4. Lasts(p)'
  <2> SUFFICES ASSUME NEW m \in 0..k, NEW n \in 0..k, m <= n, p \in Plans(Nth(m)')
               PROVE  p \in Plans(Nth(n)')
    BY <1>2 DEF Lasts, Plans
  <2> QED
    BY <1>1, <1>3 DEF Lasts
<1>5. Latest' = Nth(k)'
  BY <1>1, <1>2, EmptySeq DEF Latest, Nth
<1>6. ASSUME NEW image \in Recoverable'
      PROVE  \E m \in 0..k : image = Nth(m)'
  BY <1>1, <1>2, <1>6 DEF Recoverable, Nth
<1>7. ASSUME NEW m \in 0..k, p \in Plans(Nth(m)')
      PROVE  p \in Plans(Nth(k)')
  BY <1>1, <1>3, <1>7 DEF Lasts
<1> QED
  BY <1>4, <1>5, <1>6, <1>7

\* A saved plan lasts: only a commit that has all saved plans, or a step that
\* leaves none saved, touches the images.
LEMMA SavedStillLast ==
    ASSUME StoreInv, Remembered, [Next]_vars
    PROVE  SavedLast'
<1> SUFFICES ASSUME NEW p \in Caller, fate'[p] = "saved"
             PROVE  Lasts(p)'
  BY DEF SavedLast
<1>1. fate[p] = "saved" => Lasts(p) /\ p \in Plans(Latest)
  <2>1. fate[p] = "saved" => [id |-> job[p].id, plan |-> p] \in Latest.rows
    BY DEF StoreInv, SavedPlansArePresent, Stored
  <2> QED
    BY <2>1 DEF Remembered, SavedLast, Plans
<1>2. fate[p] \in {"unsaved", "saved"}
  BY FatesAge
<1>3. CASE UNCHANGED <<file, wal, fate>>
  BY <1>1, <1>3 DEF Lasts, Nth, Plans
<1>4. CASE wal' = <<>>
  BY <1>4 DEF Lasts, Nth
<1>5. ASSUME NEW c \in Caller, CommitPlan(c)
      PROVE  Lasts(p)'
  <2>1. PICK slack \in {FALSE, Latest.slack} : Commit([rows |-> tx, slack |-> slack])
    BY <1>5 DEF CommitPlan
  <2>2. [rows |-> tx, slack |-> slack] \in Image
    BY LatestIsRecoverable DEF StoreInv, TypeOK, Image
  <2>3. CASE fate[p] = "saved"
    <3>1. Stored \subseteq tx
      BY <1>5 DEF CommitPlan, At, StoreInv, Progress, ProgressOf
    <3>2. p \in Plans([rows |-> tx, slack |-> slack])
      BY <1>1, <2>3, <3>1 DEF Plans, Stored
    <3> QED
      BY <1>1, <2>1, <2>2, <2>3, <3>2, CommitLasts DEF StoreInv, TypeOK
  <2>4. CASE fate[p] = "unsaved"
    <3>1. \A old \in Recoverable : p \notin Plans(old)
      BY <2>4 DEF StoreInv, RowsAreEarned, Plans
    <3> QED
      BY <2>1, <2>2, <3>1, CommitLasts DEF StoreInv, TypeOK
  <2> QED
    BY <1>2, <2>3, <2>4
<1>6. ASSUME NEW c \in Caller, DeletePlans(c) \/ Vacuum(c)
      PROVE  FALSE
  <2>1. fate[p] # "unsaved" \/ fate'[p] # "saved"
    BY <1>6 DEF DeletePlans, Vacuum
  <2> QED
    BY <1>2, <1>6, <2>1 DEF DeletePlans, Vacuum
<1>7. ASSUME NEW c \in Caller, Work(c) \/ SqlError(c) \/ Panic(c)
      PROVE  Lasts(p)'
  BY <1>3, <1>4, <1>5, <1>6, <1>7 DEF Work, Acquire, FindPoisoned, CheckCapacity,
     InsertPlan, ReadPlan, CheckHealth, TruncateWal, Checkpoint, SqlError, Panic
<1>8. CASE PowerLoss
  <2>1. PICK k \in 0..Len(wal) : wal' = SubSeq(wal, 1, k)
    BY <1>8 DEF PowerLoss
  <2>2. fate[p] = "saved" /\ file' = file
    BY <1>8 DEF PowerLoss
  <2> QED
    BY <1>1, <2>1, <2>2, CutLasts DEF StoreInv, TypeOK
<1>9. CASE Environment /\ ~PowerLoss
  BY <1>3, <1>4, <1>9 DEF Environment, Crash, Close, Open, Checkpoint
<1>10. ASSUME NEW c \in Caller, NEW o, NEW i, Submit(c, o, i)
      PROVE  Lasts(p)'
  BY <1>3, <1>10 DEF Submit
<1> QED
  BY <1>3, <1>7, <1>8, <1>9, <1>10 DEF Next, vars

\* A commit adds one image to those that can come back.
LEMMA CommitAdds ==
    ASSUME wal \in Seq(Image), NEW image \in Image, Commit(image)
    PROVE  \A new \in Recoverable' : new \in Recoverable \/ new = image
<1>1. CASE wal' = Append(wal, image) /\ file' = file
  <2>1. /\ Len(wal) \in Nat /\ Len(wal') = Len(wal) + 1
        /\ \A k \in 1..Len(wal) : wal'[k] = wal[k]
        /\ wal'[Len(wal) + 1] = image
    BY <1>1, AppendProperties, LenProperties
  <2> QED
    BY <1>1, <2>1 DEF Recoverable
<1>2. CASE wal' = <<>> /\ file' = image
  BY <1>2 DEF Recoverable
<1> QED
  BY <1>1, <1>2 DEF Commit

\* A plan that is lost once is never seen again.
LEMMA LostStayGone ==
    ASSUME StoreInv, Remembered, [Next]_vars
    PROVE  LostAreGone'
<1> SUFFICES ASSUME NEW p \in Caller, fate'[p] = "lost"
             PROVE  \A image \in Recoverable' : p \notin Plans(image)
  BY DEF LostAreGone, Plans
<1>1. fate[p] = "lost" => \A image \in Recoverable : p \notin Plans(image)
  BY DEF Remembered, LostAreGone
<1>2. ASSUME fate' = fate, Recoverable' \subseteq Recoverable
      PROVE  \A image \in Recoverable' : p \notin Plans(image)
  BY <1>1, <1>2
<1>3. CASE UNCHANGED <<file, wal, fate>>
  BY <1>2, <1>3, SameImages
<1>4. ASSUME NEW c \in Caller, CommitPlan(c)
      PROVE  \A image \in Recoverable' : p \notin Plans(image)
  <2>1. PICK slack \in {FALSE, Latest.slack} : Commit([rows |-> tx, slack |-> slack])
    BY <1>4 DEF CommitPlan
  <2>2. [rows |-> tx, slack |-> slack] \in Image
    BY LatestIsRecoverable DEF StoreInv, TypeOK, Image
  <2>3. p # c /\ fate[p] = "lost"
    BY <1>4 DEF CommitPlan, StoreInv, TypeOK
  <2>4. tx = Stored \cup {[id |-> job[c].id, plan |-> c]}
    BY <1>4 DEF CommitPlan, At, StoreInv, Progress, ProgressOf
  <2>5. p \notin Plans(Latest)
    BY <1>1, <2>3, LatestIsRecoverable DEF StoreInv, TypeOK
  <2>6. p \notin Plans([rows |-> tx, slack |-> slack])
    BY <2>3, <2>4, <2>5 DEF Plans, Stored
  <2> QED
    BY <1>1, <2>1, <2>2, <2>3, <2>6, CommitAdds DEF StoreInv, TypeOK
<1>5. ASSUME NEW c \in Caller, DeletePlans(c)
      PROVE  \A image \in Recoverable' : p \notin Plans(image)
  <2>1. [rows |-> {}, slack |-> Latest.slack \/ Stored # {}] \in Image
    BY LatestIsRecoverable DEF StoreInv, TypeOK, Image
  <2>2. fate[p] = "lost"
    BY <1>5 DEF DeletePlans
  <2>3. p \notin Plans([rows |-> {}, slack |-> Latest.slack \/ Stored # {}])
    BY DEF Plans
  <2> QED
    BY <1>1, <1>5, <2>1, <2>2, <2>3, CommitAdds DEF DeletePlans, StoreInv, TypeOK
<1>6. ASSUME NEW c \in Caller, Vacuum(c)
      PROVE  FALSE
  BY <1>6 DEF Vacuum
<1>7. ASSUME NEW c \in Caller, TruncateWal(c)
      PROVE  \A image \in Recoverable' : p \notin Plans(image)
  BY <1>2, <1>7, CheckpointProperties DEF TruncateWal, StoreInv, TypeOK
<1>8. ASSUME NEW c \in Caller, Work(c) \/ SqlError(c) \/ Panic(c)
      PROVE  \A image \in Recoverable' : p \notin Plans(image)
  BY <1>3, <1>4, <1>5, <1>6, <1>7, <1>8 DEF Work, Acquire, FindPoisoned, CheckCapacity,
     InsertPlan, ReadPlan, CheckHealth, SqlError, Panic
<1>9. CASE PowerLoss
  <2>1. PICK k \in 0..Len(wal) : wal' = SubSeq(wal, 1, k)
    BY <1>9 DEF PowerLoss
  <2>2. /\ file' = file
        /\ fate[p] = "lost" \/ (fate[p] = "saved" /\ p \notin Plans(Latest'))
    BY <1>9 DEF PowerLoss
  <2>3. CASE fate[p] = "lost"
    BY <1>1, <2>1, <2>2, <2>3, CutProperties DEF StoreInv, TypeOK
  <2>4. CASE fate[p] = "saved" /\ p \notin Plans(Latest')
    <3>1. Lasts(p)
      BY <2>4 DEF Remembered, SavedLast
    <3> QED
      BY <2>1, <2>2, <2>4, <3>1, CutLasts DEF StoreInv, TypeOK
  <2> QED
    BY <2>2, <2>3, <2>4
<1>10. CASE Close
  BY <1>2, <1>10, CheckpointProperties DEF Close, StoreInv, TypeOK
<1>11. CASE Environment /\ ~PowerLoss /\ ~Close
  BY <1>3, <1>11 DEF Environment, Crash, Open
<1>12. ASSUME NEW c \in Caller, NEW o, NEW i, Submit(c, o, i)
      PROVE  \A image \in Recoverable' : p \notin Plans(image)
  BY <1>3, <1>12 DEF Submit
<1> QED
  BY <1>3, <1>8, <1>9, <1>10, <1>11, <1>12 DEF Next, vars

\* The initial states satisfy what is remembered.
LEMMA RememberedInit == Init => Remembered
<1> SUFFICES ASSUME Init PROVE Remembered
  OBVIOUS
<1>1. NoEarlyResult /\ SavesAreKnown /\ SavedLast /\ LostAreGone
  BY DEF Init, NoEarlyResult, SavesAreKnown, SavedLast, LostAreGone
<1> QED
  BY <1>1 DEF Remembered

\* Every step preserves what is remembered.
LEMMA RememberedStep == StoreInv /\ Remembered /\ [Next]_vars => Remembered'
BY ResultsStayLate, SavesStayKnown, SavedStillLast, LostStayGone DEF Remembered

-----------------------------------------------------------------------------
(* The refinement of PlanSpace.                                            *)

Pending == {"queued"} \cup Holding

\* Counting means the same in both specifications.
LEMMA SameCardinality ==
    ASSUME NEW S
    PROVE  Space!Cardinality(S) = Cardinality(S)
BY Zenon DEF Space!Cardinality, Cardinality, Space!IsFiniteSet, IsFiniteSet

(* The abstract call of a job.                                             *)

\* A job that moves on between its statements is the same pending call.
LEMMA AdvanceIsHidden ==
    ASSUME job \in [Caller -> Job], NEW c \in Caller, job[c].pc \in Pending,
           NEW pc \in Pending, job' = [job EXCEPT ![c].pc = pc]
    PROVE  Calls' = Calls
<1>1. \A d \in Caller : CallOf(job'[d]) = CallOf(job[d])
  BY DEF CallOf, Pending, Job
<1> QED
  BY <1>1 DEF Calls

\* A job that returns answers its call.
LEMMA ReturnAnswers ==
    ASSUME StoreInv, NEW c \in Caller, job[c].pc \in Pending, running,
           NEW result, NEW plan, Return(c, result, plan)
    PROVE  Space!Answer(c, result, plan)
<1>1. Calls[c].stage = "pending"
  BY DEF Calls, CallOf, Pending
<1>2. Calls' = [Calls EXCEPT ![c].stage = "done", ![c].result = result,
                             ![c].payload = plan]
  <2>1. \A d \in Caller \ {c} : job'[d] = job[d]
    BY DEF StoreInv, TypeOK, Return
  <2>2. CallOf(job'[c]) = [op |-> job[c].op, id |-> job[c].id, result |-> result,
                           payload |-> plan, stage |-> "done"]
    BY DEF StoreInv, TypeOK, Return, CallOf, Job, Holding
  <2> QED
    BY <2>1, <2>2 DEF Calls, CallOf
<1> QED
  BY <1>1, <1>2 DEF Space!Answer, Return

\* The holder of the mutex has a pending call.
LEMMA AtIsPending ==
    ASSUME StoreInv, NEW c \in Caller, NEW o, NEW pc \in Pending, At(c, o, pc)
    PROVE  /\ running /\ job[c].pc \in Pending
           /\ Calls[c].op = o /\ Calls[c].id = job[c].id
           /\ Calls[c].stage = "pending"
BY DEF At, Calls, CallOf, Pending

\* A step that leaves the file and the log alone leaves space and past alone.
LEMMA SamePast ==
    ASSUME UNCHANGED <<file, wal>>
    PROVE  Past' = Past /\ Stored' = Stored
BY SameImages DEF Past

\* A change of the images that keeps to the past and the present.
LEMMA Remembers ==
    ASSUME file' \in Image, wal' \in Seq(Image),
           Recoverable' \subseteq Recoverable \cup {Latest'}
    PROVE  Space!Remember
<1>1. Latest' \in Recoverable'
  <2>1. Len(wal') \in Nat /\ (wal' # <<>> => Len(wal') \in 1..Len(wal'))
    BY LenProperties, EmptySeq
  <2> QED
    BY <2>1 DEF Latest, Recoverable
<1> QED
  BY <1>1 DEF Space!Remember, Past, Stored

-----------------------------------------------------------------------------
(* Each step of a job is a step of the abstract space, or none.            *)

\* Handing a job to the pool is asking a call.
LEMMA SubmitAsks ==
    ASSUME StoreInv, NEW c \in Caller, NEW o, NEW i, Submit(c, o, i)
    PROVE  Space!Ask(c, o, i)
<1>1. Past' = Past /\ Stored' = Stored
  BY SamePast DEF Submit
<1>2. Calls' = [Calls EXCEPT ![c] = [op |-> o, id |-> i, stage |-> "pending",
                                     result |-> "none", payload |-> None]]
  <2>1. \A d \in Caller \ {c} : job'[d] = job[d]
    BY DEF StoreInv, TypeOK, Submit
  <2>2. CallOf(job'[c]) = [op |-> o, id |-> i, stage |-> "pending",
                           result |-> "none", payload |-> None]
    BY DEF StoreInv, TypeOK, Submit, CallOf
  <2> QED
    BY <2>1, <2>2 DEF Calls
<1>3. \/ Calls[c].stage = "idle"
      \/ Calls[c].stage = "done" /\ Calls[c].result = "id_collision" /\ o = "create"
  BY DEF Submit, Calls, CallOf, Holding
<1> QED
  BY <1>1, <1>2, <1>3 DEF Space!Ask, Submit

\* Taking the mutex is not seen by any caller.
LEMMA AcquireIsHidden ==
    ASSUME StoreInv, NEW c \in Caller, Acquire(c)
    PROVE  UNCHANGED Space!vars
BY SamePast, AdvanceIsHidden
   DEF Acquire, StoreInv, TypeOK, Pending, Holding, Space!vars

\* A job that finds the mutex poisoned refuses its call.
LEMMA FindPoisonedRefuses ==
    ASSUME StoreInv, NEW c \in Caller, FindPoisoned(c)
    PROVE  Space!Refuse(c)
BY SamePast, ReturnAnswers DEF FindPoisoned, Pending, Space!Refuse

\* A failed statement or a panic refuses the call, without an effect.
LEMMA FaultRefuses ==
    ASSUME StoreInv, NEW c \in Caller, SqlError(c) \/ Panic(c)
    PROVE  Space!Refuse(c)
<1>1. running /\ job[c].pc \in Pending
  BY StoreAssumption DEF SqlError, Panic, StoreInv, Exclusion, Pending
<1> QED
  BY <1>1, SamePast, ReturnAnswers DEF SqlError, Panic, Space!Refuse

\* The check of the limit refuses the call or is hidden.
LEMMA CheckCapacityMaps ==
    ASSUME StoreInv, NEW c \in Caller, CheckCapacity(c)
    PROVE  Space!Refuse(c) \/ UNCHANGED Space!vars
<1>1. /\ running /\ job[c].pc \in Pending /\ job[c].pc = "locked"
      /\ Calls[c].op = "create"
  BY AtIsPending DEF CheckCapacity, At, Pending, Holding
<1>2. Past' = Past /\ Stored' = Stored
  BY SamePast DEF CheckCapacity
<1>3. CASE Cardinality(Stored) >= maxPlans
  BY <1>1, <1>2, <1>3, ReturnAnswers, SameCardinality DEF CheckCapacity, Space!Refuse
<1>4. CASE ~(Cardinality(Stored) >= maxPlans)
  BY <1>1, <1>2, <1>4, AdvanceIsHidden
     DEF CheckCapacity, Advance, Pending, Holding, StoreInv, TypeOK, Space!vars
<1> QED
  BY <1>3, <1>4

\* The collision is with a plan of the space, because the rows that the
\* transaction has read are still those of the database.
LEMMA InsertPlanMaps ==
    ASSUME StoreInv, NEW c \in Caller, InsertPlan(c)
    PROVE  Space!Refuse(c) \/ UNCHANGED Space!vars
<1>1. /\ running /\ job[c].pc \in Pending /\ job[c].pc = "counted"
      /\ Calls[c].op = "create" /\ Calls[c].id = job[c].id
  BY AtIsPending DEF InsertPlan, At, Pending, Holding
<1>2. Past' = Past /\ Stored' = Stored
  BY SamePast DEF InsertPlan
<1>3. tx = Stored /\ Cardinality(Stored) < maxPlans
  BY <1>1 DEF StoreInv, Progress, ProgressOf
<1>4. CASE \E row \in tx : row.id = job[c].id
  <2>1. Calls[c].id \in Space!Taken
    BY <1>1, <1>3, <1>4 DEF Space!Taken
  <2> QED
    BY <1>1, <1>2, <1>3, <1>4, <2>1, ReturnAnswers, SameCardinality
       DEF InsertPlan, Space!Refuse
<1>5. CASE ~\E row \in tx : row.id = job[c].id
  BY <1>1, <1>2, <1>5, AdvanceIsHidden
     DEF InsertPlan, Advance, Pending, Holding, StoreInv, TypeOK, Space!vars
<1> QED
  BY <1>4, <1>5

\* The commit is the instant at which a create takes effect.
LEMMA CommitPlanPublishes ==
    ASSUME StoreInv, NEW c \in Caller, CommitPlan(c)
    PROVE  Space!Publish(c)
<1>1. PICK slack \in {FALSE, Latest.slack} : Commit([rows |-> tx, slack |-> slack])
  BY DEF CommitPlan
<1> DEFINE image == [rows |-> tx, slack |-> slack]
<1>2. /\ running /\ job[c].pc \in Pending /\ job[c].pc = "inserted"
      /\ Calls[c].op = "create" /\ Calls[c].id = job[c].id
  BY AtIsPending DEF CommitPlan, At, Pending, Holding
<1>3. /\ tx = Stored \cup {[id |-> job[c].id, plan |-> c]}
      /\ job[c].id \notin Ids(Latest)
      /\ Cardinality(Stored) < maxPlans
  BY <1>2 DEF StoreInv, Progress, ProgressOf
<1>4. image \in Image
  BY LatestIsRecoverable DEF StoreInv, TypeOK, Image
<1>5. /\ file' \in Image /\ wal' \in Seq(Image)
      /\ Stored' = tx /\ Latest' = image
      /\ Recoverable' \subseteq Recoverable \cup {image}
  BY <1>1, <1>4, CommitProperties DEF StoreInv, TypeOK
<1>6. Space!Remember
  BY <1>5, Remembers
<1>7. Calls[c].id \notin Space!Taken
  BY <1>2, <1>3 DEF Space!Taken, Ids, Stored
<1>8. Space!Answer(c, "ok", None)
  BY <1>2, ReturnAnswers DEF CommitPlan
<1> QED
  BY <1>2, <1>3, <1>5, <1>6, <1>7, <1>8, SameCardinality DEF Space!Publish

\* The read is the instant at which a get takes effect.
LEMMA ReadPlanLooks ==
    ASSUME StoreInv, NEW c \in Caller, ReadPlan(c)
    PROVE  Space!Look(c)
<1>1. /\ running /\ job[c].pc \in Pending
      /\ Calls[c].op = "get" /\ Calls[c].id = job[c].id
  BY AtIsPending DEF ReadPlan, At, Pending, Holding
<1>2. Past' = Past /\ Stored' = Stored
  BY SamePast DEF ReadPlan
<1>3. CASE job[c].id \notin Ids(Latest) /\ Return(c, "not_found", None)
  <2>1. Calls[c].id \notin Space!Taken
    BY <1>1, <1>3 DEF Space!Taken, Ids, Stored
  <2> QED
    BY <1>1, <1>2, <1>3, <2>1, ReturnAnswers DEF Space!Look
<1>4. ASSUME NEW row \in Stored, row.id = job[c].id, Return(c, "ok", row.plan)
      PROVE  Space!Look(c)
  BY <1>1, <1>2, <1>4, ReturnAnswers DEF Space!Look
<1> QED
  BY <1>3, <1>4 DEF ReadPlan

\* A health check answers its call.
LEMMA CheckHealthPings ==
    ASSUME StoreInv, NEW c \in Caller, CheckHealth(c)
    PROVE  Space!Ping(c)
<1>1. running /\ job[c].pc \in Pending /\ Calls[c].op = "health"
  BY AtIsPending DEF CheckHealth, At, Pending, Holding
<1> QED
  BY <1>1, SamePast, ReturnAnswers DEF CheckHealth, Space!Ping

\* The DELETE empties the space.
LEMMA DeletePlansClears ==
    ASSUME StoreInv, NEW c \in Caller, DeletePlans(c)
    PROVE  Space!Clear(c)
<1> DEFINE image == [rows |-> {}, slack |-> Latest.slack \/ Stored # {}]
<1>1. /\ Commit(image) /\ job' = [job EXCEPT ![c].pc = "deleted"]
      /\ UNCHANGED <<maxPlans, running>>
  BY DEF DeletePlans, Advance
<1>2. /\ running /\ job[c].pc \in Pending
      /\ Calls[c].op = "wipe" /\ Calls[c].stage = "pending"
  BY AtIsPending DEF DeletePlans, At, Pending, Holding
<1>3. image \in Image
  BY LatestIsRecoverable DEF StoreInv, TypeOK, Image
<1>4. /\ file' \in Image /\ wal' \in Seq(Image)
      /\ Stored' = {} /\ Latest' = image
      /\ Recoverable' \subseteq Recoverable \cup {image}
  BY <1>1, <1>3, CommitProperties DEF StoreInv, TypeOK
<1>5. Space!Remember
  BY <1>4, Remembers
<1>6. Calls' = Calls
  BY <1>1, <1>2, AdvanceIsHidden DEF StoreInv, TypeOK, Pending, Holding
<1> QED
  BY <1>1, <1>2, <1>4, <1>5, <1>6 DEF Space!Clear

\* The checkpoint of a wipe forgets the past.
LEMMA TruncateWalSettles ==
    ASSUME StoreInv, NEW c \in Caller, TruncateWal(c)
    PROVE  Space!Settle
<1>1. /\ Checkpoint /\ job' = [job EXCEPT ![c].pc = "truncated"]
      /\ UNCHANGED <<maxPlans, running>>
  BY DEF TruncateWal, Advance
<1>2. running /\ job[c].pc \in Pending
  BY AtIsPending DEF TruncateWal, At, Pending, Holding
<1>3. /\ file' \in Image /\ wal' \in Seq(Image) /\ Stored' = Stored
      /\ Recoverable' \subseteq Recoverable
  BY <1>1, CheckpointProperties DEF StoreInv, TypeOK
<1>4. Space!Remember
  BY <1>3, Remembers
<1>5. Calls' = Calls
  BY <1>1, <1>2, AdvanceIsHidden DEF StoreInv, TypeOK, Pending, Holding
<1> QED
  BY <1>1, <1>3, <1>4, <1>5 DEF Space!Settle

\* After the checkpoint the deleted plans are in no image any more.
LEMMA VacuumCompletes ==
    ASSUME StoreInv, NEW c \in Caller, Vacuum(c)
    PROVE  Space!Wiped(c)
<1> DEFINE image == [rows |-> Stored, slack |-> FALSE]
<1>1. /\ running /\ job[c].pc \in Pending /\ job[c].pc = "truncated"
      /\ Calls[c].op = "wipe"
  BY AtIsPending DEF Vacuum, At, Pending, Holding
<1>2. Stored = {} /\ wal = <<>>
  BY <1>1 DEF StoreInv, Progress, ProgressOf
<1>3. Recoverable = {file} /\ file.rows = {}
  BY <1>2, EmptySeq DEF Recoverable, Stored, Latest
<1>4. Past = {{}}
  BY <1>3 DEF Past
<1>5. /\ image \in Image
      /\ Commit(image)
  BY <1>2 DEF Image, Vacuum, Commit
<1>6. Stored' = {} /\ Recoverable' \subseteq {file, image}
  BY <1>2, <1>3, <1>5, CommitProperties DEF StoreInv, TypeOK
<1>7. Past' = {{}}
  <2>1. \A old \in Recoverable' : old.rows = {}
    BY <1>2, <1>3, <1>6
  <2>2. file' \in Recoverable'
    BY DEF Recoverable
  <2> QED
    BY <2>1, <2>2 DEF Past
<1>8. Space!Answer(c, "ok", None)
  BY <1>1, ReturnAnswers DEF Vacuum
<1> QED
  BY <1>1, <1>2, <1>4, <1>6, <1>7, <1>8 DEF Space!Wiped

-----------------------------------------------------------------------------
(* The end of the process, and the refinement.                             *)

\* When the process ends, every call is cut off.
LEMMA StopCutsOff ==
    ASSUME StoreInv, Stop
    PROVE  Calls' = [c \in Caller |-> IF Calls[c].stage = "idle" THEN Calls[c]
                                      ELSE [Calls[c] EXCEPT !.stage = "lost"]]
<1>1. \A c \in Caller :
        CallOf(job'[c]) = IF CallOf(job[c]).stage = "idle" THEN CallOf(job[c])
                          ELSE [CallOf(job[c]) EXCEPT !.stage = "lost"]
  BY DEF StoreInv, TypeOK, Stop, CallOf, Job, Place, Holding
<1> QED
  BY <1>1 DEF Calls

\* Crash, loss of power, shutdown and restart are a Fall or a Rise.
LEMMA EnvironmentMaps ==
    ASSUME StoreInv, Environment
    PROVE  Space!Fall \/ Space!Rise
<1>1. Stored \in Past
  BY LatestIsRecoverable DEF StoreInv, TypeOK, Past, Stored
<1>2. CASE Crash
  <2>1. Space!Remember
    BY <1>2, SameImages, Remembers DEF Crash, StoreInv, TypeOK
  <2> QED
    BY <1>1, <1>2, <2>1, SameImages, StopCutsOff DEF Crash, Stop, Space!Fall
<1>3. CASE Close
  <2>1. /\ file' \in Image /\ wal' \in Seq(Image) /\ Stored' = Stored
        /\ Recoverable' \subseteq Recoverable
    BY <1>3, CheckpointProperties DEF Close, StoreInv, TypeOK
  <2> QED
    BY <1>1, <1>3, <2>1, Remembers, StopCutsOff DEF Close, Stop, Space!Fall
<1>4. CASE PowerLoss
  <2>1. PICK n \in 0..Len(wal) : wal' = SubSeq(wal, 1, n)
    BY <1>4 DEF PowerLoss
  <2>2. /\ file' \in Image /\ wal' \in Seq(Image)
        /\ Latest' \in Recoverable /\ Recoverable' \subseteq Recoverable
    BY <1>4, <2>1, CutProperties DEF PowerLoss, StoreInv, TypeOK
  <2>3. Stored' \in Past
    BY <2>2 DEF Past, Stored
  <2> QED
    BY <1>4, <2>2, <2>3, Remembers, StopCutsOff DEF PowerLoss, Stop, Space!Fall
<1>5. CASE Open
  <2>1. Past' = Past /\ Stored' = Stored /\ Calls' = Calls
    BY <1>5, SamePast DEF Open, Calls
  <2> QED
    BY <1>5, <2>1 DEF Open, Space!Rise
<1> QED
  BY <1>2, <1>3, <1>4, <1>5 DEF Environment

\* What the steps of a job are to its caller.
LEMMA WorkMaps ==
    ASSUME StoreInv, NEW c \in Caller, Work(c)
    PROVE  \/ Space!Publish(c) \/ Space!Refuse(c) \/ Space!Look(c) \/ Space!Ping(c)
           \/ Space!Clear(c) \/ Space!Wiped(c) \/ Space!Settle
           \/ UNCHANGED Space!vars
BY AcquireIsHidden, FindPoisonedRefuses, CheckCapacityMaps, InsertPlanMaps,
   CommitPlanPublishes, ReadPlanLooks, CheckHealthPings, DeletePlansClears,
   TruncateWalSettles, VacuumCompletes DEF Work

\* Every step of the store is a step of its abstract specification, or none.
LEMMA StepRefines ==
    ASSUME StoreInv, [Next]_vars
    PROVE  [Space!Next]_(Space!vars)
<1>1. ASSUME NEW c \in Caller, Work(c)
      PROVE  Space!Next \/ UNCHANGED Space!vars
  BY <1>1, WorkMaps DEF Space!Next
<1>2. ASSUME NEW c \in Caller, SqlError(c) \/ Panic(c)
      PROVE  Space!Next
  BY <1>2, FaultRefuses DEF Space!Next
<1>3. ASSUME NEW c \in Caller, NEW o \in {"create", "get"}, NEW i \in PlanId,
             Submit(c, o, i)
      PROVE  Space!Next
  BY <1>3, SubmitAsks DEF Space!Next
<1>4. ASSUME NEW c \in Caller, NEW o \in {"wipe", "health"}, Submit(c, o, None)
      PROVE  Space!Next
  BY <1>4, SubmitAsks DEF Space!Next
<1>5. CASE Environment
  BY <1>5, EnvironmentMaps DEF Space!Next
<1>6. CASE UNCHANGED vars
  BY <1>6, SamePast DEF vars, Calls, Space!vars
<1> QED
  BY <1>1, <1>2, <1>3, <1>4, <1>5, <1>6 DEF Next

\* The store starts as its abstract specification does.
LEMMA InitRefines == Init => Space!Init
<1> SUFFICES ASSUME Init PROVE Space!Init
  OBVIOUS
<1>1. Recoverable = {file} /\ file.rows = {} /\ Stored = {}
  BY EmptySeq DEF Init, Recoverable, Stored, Latest
<1>2. Past = {{}}
  BY <1>1 DEF Past
<1>3. Calls = [c \in Caller |-> [op |-> "health", id |-> None, stage |-> "idle",
                                 result |-> "none", payload |-> None]]
  BY DEF Init, Calls, CallOf, Holding
<1> QED
  BY <1>1, <1>2, <1>3 DEF Init, Space!Init

\* Steps of the store are steps of its abstract specification.
LEMMA StepsRefine == Steps => ImplementsPlanSpace
BY InitRefines, StepRefines, StepsInvariance, PTL DEF Steps, Space!Spec, ImplementsPlanSpace

\* Every call of the store takes effect at one instant, and a completed wipe
\* is final: the store implements its abstract specification.
THEOREM Refinement == Spec => ImplementsPlanSpace
BY StepsRefine, PTL DEF Spec, Steps
=============================================================================
