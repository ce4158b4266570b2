-------------------------- MODULE PlanStoreInvariant --------------------------
(***************************************************************************)
(* The inductive invariant of PlanStore: TLC checks it on small instances, *)
(* and PlanStore_proofs proves that every step preserves it.               *)
(***************************************************************************)
EXTENDS PlanStore

\* The mutex is held by a job of a live process that is between two of its
\* statements, and by nobody else.
Exclusion ==
    /\ lock # None => running /\ job[lock].pc \in Holding
    /\ \A c \in Caller : job[c].pc \in Holding => lock = c

\* What the holder of the mutex knows of the database from its statements
\* so far; it stays true because no other job can run.
ProgressOf(c) ==
    /\ job[c].pc \in {"counted", "inserted"} =>
           job[c].op = "create" /\ Cardinality(Stored) < maxPlans
    /\ job[c].pc = "counted" => tx = Stored
    /\ job[c].pc = "inserted" =>
           /\ job[c].id \notin Ids(Latest)
           /\ tx = Stored \cup {[id |-> job[c].id, plan |-> c]}
    /\ job[c].pc \in {"deleted", "truncated"} =>
           job[c].op = "wipe" /\ Stored = {}
    /\ job[c].pc = "truncated" => wal = <<>>

Progress == \A c \in Caller : ProgressOf(c)

\* So that the limit can be compared with the number of rows.
FiniteImages == \A image \in Recoverable : IsFiniteSet(image.rows)

\* A row, in any image that can come back, is the plan of a create that
\* returned Ok, under the identifier it was given, and was not wiped since.
RowsAreEarned ==
    \A image \in Recoverable : \A row \in image.rows :
        /\ job[row.plan].op = "create"
        /\ job[row.plan].id = row.id
        /\ job[row.plan].result = "ok"
        /\ job[row.plan].pc \in {"done", "lost"}
        /\ fate[row.plan] \notin {"unsaved", "erased"}

\* Only a create that returned Ok can have had an effect.
OnlyOkSaves ==
    \A c \in Caller :
        fate[c] # "unsaved" =>
            /\ job[c].op = "create"
            /\ job[c].result = "ok"
            /\ job[c].pc \in {"done", "lost"}

\* A create always has an identifier.
CreatesAreNamed == \A c \in Caller : job[c].op = "create" => job[c].id \in PlanId

\* The inductive invariant.
StoreInv ==
    /\ TypeOK
    /\ CreatesAreNamed
    /\ Exclusion
    /\ Progress
    /\ FiniteImages
    /\ PermalinksAreUnambiguous
    /\ RowsAreEarned
    /\ OnlyOkSaves
    /\ SavedPlansArePresent
=============================================================================
