----------------------------- MODULE PlanService -----------------------------
(***************************************************************************)
(* What the server promises to its clients, without handlers, identifiers  *)
(* that collide, jobs or statements: every request takes effect at most    *)
(* once, at one instant after its arrival, and an answer tells the outcome *)
(* that was reached before it.  Only a client that did not wait, or that   *)
(* was told 408, may be in doubt: its request may take effect later.       *)
(***************************************************************************)
EXTENDS Naturals, FiniteSets

CONSTANTS Request, PlanId, Limit, None

VARIABLES
    space,      \* the plans that views see
    past,       \* the states a loss of power may go back to
    limit,      \* how many plans may be kept
    up,         \* requests are served
    client,     \* what the client of each request wants, and was told
    deed        \* what became of each request

vars == <<space, past, limit, up, client, deed>>
plans == <<space, past, limit, up>>

Taken == {row.id : row \in space}

Init ==
    /\ space = {}
    /\ past = {{}}
    /\ limit \in Limit
    /\ up = TRUE
    /\ client = [r \in Request |-> [wish |-> "none", stage |-> "new", status |-> 0,
                                    link |-> None]]
    /\ deed = [r \in Request |-> [outcome |-> "none", id |-> None, plan |-> None]]

\* The past grows by the present state, and may be forgotten.
Remember ==
    /\ past' \subseteq past \cup {space'}
    /\ space' \in past'

Deed(r, outcome, id, plan) ==
    deed' = [deed EXCEPT ![r] = [outcome |-> outcome, id |-> id, plan |-> plan]]

Fails(r) == Deed(r, "failed", deed[r].id, None)

Told(r, stage, status, link) ==
    client' = [client EXCEPT ![r] = [wish |-> client[r].wish, stage |-> stage,
                                     status |-> status, link |-> link]]

-----------------------------------------------------------------------------
(* Clients.                                                                *)

Arrives(r, wish, stage, status) ==
    /\ up
    /\ client[r].stage = "new"
    /\ client' = [client EXCEPT ![r] = [wish |-> wish, stage |-> stage,
                                        status |-> status, link |-> None]]
    /\ UNCHANGED plans

\* The request arrives.  A view names its plan.
Receive(r, wish, i) ==
    /\ wish = "view" <=> i # None
    /\ Arrives(r, wish, "waiting", 0)
    /\ Deed(r, "pending", i, None)

\* It needs no plans, or is not acceptable.
Dismiss(r, wish, status) ==
    /\ IF wish = "upload" THEN status \in {413, 415}
       ELSE wish = "none" /\ status \in {200, 404, 405}
    /\ Arrives(r, wish, "answered", status)
    /\ Deed(r, "failed", None, None)

Waits(r) == up /\ client[r].stage = "waiting" /\ UNCHANGED plans

\* The upload fails before it took effect: no plan, no identifier.
Refuse(r, status) ==
    /\ Waits(r)
    /\ client[r].wish = "upload" /\ deed[r].outcome = "pending"
    /\ status \in {400, 413, 500}
    /\ Told(r, "answered", status, None)
    /\ Fails(r)

\* The status for an outcome.
Code == [upload |-> [ok |-> 201, at_capacity |-> 507, failed |-> 500],
         view   |-> [ok |-> 200, not_found |-> 404, failed |-> 500],
         health |-> [ok |-> 200, failed |-> 503],
         wipe   |-> [ok |-> 204, failed |-> 500]]

\* The answer says what became of the request, and where the plan is.
Reply(r) ==
    /\ Waits(r)
    /\ deed[r].outcome # "pending"
    /\ Told(r, "answered", Code[client[r].wish][deed[r].outcome],
            IF client[r].wish = "upload" /\ deed[r].outcome = "ok" THEN deed[r].id
            ELSE None)
    /\ UNCHANGED deed

\* The client leaves, or is told to: what is pending may be given up or not.
Leave(r) ==
    /\ Waits(r)
    /\ Told(r, "answered", 408, None) \/ Told(r, "gone", 0, None)
    /\ UNCHANGED deed \/ (deed[r].outcome = "pending" /\ Fails(r))

-----------------------------------------------------------------------------
(* Effects.                                                                *)

Pending(r, wish) ==
    /\ up /\ UNCHANGED <<limit, up, client>>
    /\ client[r].wish = wish /\ deed[r].outcome = "pending"

Publish(r) ==
    /\ Pending(r, "upload")
    /\ Cardinality(space) < limit
    /\ \E i \in PlanId \ Taken :
         space' = space \cup {[id |-> i, plan |-> r]} /\ Deed(r, "ok", i, None)
    /\ Remember

Reject(r) ==
    /\ Pending(r, "upload")
    /\ Cardinality(space) >= limit
    /\ Deed(r, "at_capacity", None, None)
    /\ UNCHANGED plans

Look(r) ==
    /\ Pending(r, "view")
    /\ \/ deed[r].id \notin Taken /\ Deed(r, "not_found", deed[r].id, None)
       \/ \E row \in space : row.id = deed[r].id /\ Deed(r, "ok", row.id, row.plan)
    /\ UNCHANGED plans

Ping(r) ==
    /\ Pending(r, "health")
    /\ Deed(r, "ok", None, None)
    /\ UNCHANGED plans

\* A wipe empties the space at once, ...
Clear(r) ==
    /\ Pending(r, "wipe")
    /\ space' = {}
    /\ Remember
    /\ UNCHANGED deed

\* ... and succeeds only when no plan can come back.
Wiped(r) ==
    /\ Pending(r, "wipe")
    /\ space = {} /\ past = {{}}
    /\ Deed(r, "ok", None, None)
    /\ UNCHANGED plans

Fail(r) ==
    /\ \E wish \in {"upload", "view", "health", "wipe"} : Pending(r, wish)
    /\ Fails(r)
    /\ UNCHANGED plans

\* Some of the past becomes unreachable.
Settle ==
    /\ UNCHANGED <<space, limit, up, client, deed>>
    /\ Remember

-----------------------------------------------------------------------------
(* The end of the service and its return.                                  *)

\* All that is pending fails.  A loss of power may lose the latest changes.
Fall ==
    /\ up' = FALSE
    /\ client' = [r \in Request |-> IF client[r].stage # "waiting" THEN client[r]
                                    ELSE [client[r] EXCEPT !.stage = "gone"]]
    /\ deed' = [r \in Request |-> IF deed[r].outcome # "pending" THEN deed[r]
                                  ELSE [deed[r] EXCEPT !.outcome = "failed"]]
    /\ space' \in past
    /\ Remember
    /\ UNCHANGED limit

Rise ==
    /\ ~up
    /\ up' = TRUE
    /\ limit' \in Limit
    /\ UNCHANGED <<space, past, client, deed>>

Next ==
    \/ \E r \in Request :
         \/ \E wish \in {"upload", "view", "health", "wipe"}, i \in PlanId \cup {None} :
              Receive(r, wish, i)
         \/ \E wish \in {"upload", "none"}, status \in {200, 404, 405, 413, 415} :
              Dismiss(r, wish, status)
         \/ \E status \in {400, 413, 500} : Refuse(r, status)
         \/ Reply(r) \/ Leave(r)
         \/ Publish(r) \/ Reject(r) \/ Look(r) \/ Ping(r) \/ Clear(r) \/ Wiped(r)
         \/ Fail(r)
    \/ Settle \/ Fall \/ Rise

Spec == Init /\ [][Next]_vars
=============================================================================
