------------------------------ MODULE PlanSpace ------------------------------
(***************************************************************************)
(* What Store promises to its callers, without connection, mutex, log or   *)
(* statements: a set of plans of bounded size, on which each call takes    *)
(* effect at one instant between its request and its answer, and which     *)
(* the loss of power may set back to an earlier state, but not to one from *)
(* before the last completed wipe.                                         *)
(***************************************************************************)
EXTENDS Naturals, FiniteSets

CONSTANTS Caller, PlanId, Limit, None

VARIABLES
    space,      \* the plans that callers see
    past,       \* the states a loss of power may go back to
    limit,      \* how many plans may be kept
    up,         \* calls are served
    call        \* the call of each caller

vars == <<space, past, limit, up, call>>

Row == [id: PlanId, plan: Caller]
Taken == {row.id : row \in space}

Init ==
    /\ space = {}
    /\ past = {{}}
    /\ limit \in Limit
    /\ up = TRUE
    /\ call = [c \in Caller |-> [op |-> "health", id |-> None, stage |-> "idle",
                                 result |-> "none", payload |-> None]]

\* The past grows by the present state, and may be forgotten.
Remember ==
    /\ past' \subseteq past \cup {space'}
    /\ space' \in past'

Ask(c, o, i) ==
    /\ up
    /\ \/ call[c].stage = "idle"
       \/ call[c].stage = "done" /\ call[c].result = "id_collision" /\ o = "create"
    /\ call' = [call EXCEPT ![c] = [op |-> o, id |-> i, stage |-> "pending",
                                    result |-> "none", payload |-> None]]
    /\ UNCHANGED <<space, past, limit, up>>

Answer(c, result, plan) ==
    /\ up
    /\ call[c].stage = "pending"
    /\ call' = [call EXCEPT ![c].stage = "done", ![c].result = result,
                            ![c].payload = plan]
    /\ UNCHANGED <<limit, up>>

Publish(c) ==
    /\ call[c].op = "create"
    /\ Cardinality(space) < limit
    /\ call[c].id \notin Taken
    /\ space' = space \cup {[id |-> call[c].id, plan |-> c]}
    /\ Remember
    /\ Answer(c, "ok", None)

\* No effect: the space is full, the identifier is taken, or it failed.
Refuse(c) ==
    /\ \/ /\ call[c].op = "create"
          /\ Cardinality(space) >= limit
          /\ Answer(c, "at_capacity", None)
       \/ /\ call[c].op = "create"
          /\ Cardinality(space) < limit
          /\ call[c].id \in Taken
          /\ Answer(c, "id_collision", None)
       \/ Answer(c, "other", None)
    /\ UNCHANGED <<space, past>>

Look(c) ==
    /\ call[c].op = "get"
    /\ \/ call[c].id \notin Taken /\ Answer(c, "not_found", None)
       \/ \E row \in space : row.id = call[c].id /\ Answer(c, "ok", row.plan)
    /\ UNCHANGED <<space, past>>

Ping(c) ==
    /\ call[c].op = "health"
    /\ Answer(c, "ok", None)
    /\ UNCHANGED <<space, past>>

\* A wipe empties the space at once, ...
Clear(c) ==
    /\ up
    /\ call[c].op = "wipe"
    /\ call[c].stage = "pending"
    /\ space' = {}
    /\ Remember
    /\ UNCHANGED <<limit, up, call>>

\* ... and succeeds only when no plan can come back.
Wiped(c) ==
    /\ call[c].op = "wipe"
    /\ space = {} /\ past = {{}}
    /\ Answer(c, "ok", None)
    /\ UNCHANGED <<space, past>>

\* Some of the past becomes unreachable.
Settle ==
    /\ UNCHANGED <<space, limit, up, call>>
    /\ Remember

\* All calls are cut off.  A loss of power may lose the latest changes.
Fall ==
    /\ up' = FALSE
    /\ call' = [c \in Caller |-> IF call[c].stage = "idle" THEN call[c]
                                 ELSE [call[c] EXCEPT !.stage = "lost"]]
    /\ space' \in past
    /\ Remember
    /\ UNCHANGED limit

Rise ==
    /\ ~up
    /\ up' = TRUE
    /\ limit' \in Limit
    /\ UNCHANGED <<space, past, call>>

Next ==
    \/ \E c \in Caller :
         \/ \E o \in {"create", "get"}, i \in PlanId : Ask(c, o, i)
         \/ \E o \in {"wipe", "health"} : Ask(c, o, None)
         \/ Publish(c) \/ Refuse(c) \/ Look(c) \/ Ping(c) \/ Clear(c) \/ Wiped(c)
    \/ Settle \/ Fall \/ Rise

Spec == Init /\ [][Next]_vars
=============================================================================
