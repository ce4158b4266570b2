----------------------------- MODULE Lifecycle -----------------------------
(***************************************************************************)
(* The life of the serving process, src/main.rs:66-135: the accept loop,   *)
(* the connections with their timers, the signal, the graceful shutdown,   *)
(* and the drop of the runtime when main returns.                          *)
(*                                                                         *)
(* A connection is a task of its own and carries one request after the     *)
(* other.  hyper gives the head of each request HeaderTimeout, also while  *)
(* a kept connection is idle; main gives the handler HandlerTimeout; a     *)
(* client has all the time it likes to read an answer.  What a handler     *)
(* does is in PlanServer; here it may hand one job to the blocking pool,   *)
(* which only the end of the runtime can drop, and only before it begins.  *)
(*                                                                         *)
(* Time passes in ticks.  A timer that is due fires before the next tick.  *)
(***************************************************************************)
EXTENDS Naturals, FiniteSets

CONSTANTS
    Client,         \* clients, one connection each
    HeaderTimeout,  \* header_read_timeout: 5 seconds, in ticks
    HandlerTimeout, \* handle_with_read_timeout: 15 seconds
    Grace,          \* the sleep after the loop: 10 seconds
    MaxOpen         \* connections that the file descriptors allow

ASSUME LifecycleAssumption ==
    {HeaderTimeout, HandlerTimeout, Grace, MaxOpen} \subseteq Nat \ {0}

VARIABLES
    main,       \* where main is
    signal,     \* SIGTERM or SIGINT was sent
    drained,    \* ticks since main left the loop
    conn,       \* the connection of each client
    job         \* the job that a handler of the connection started

vars == <<main, signal, drained, conn, job>>

-----------------------------------------------------------------------------

\* "head" is a first head, of which a part may have arrived, "idle" the wait
\* for the next one; "handling" reads a body or computes, "waiting" awaits the
\* job; "cut" was open when main returned, "refused" still in the backlog.
Stage == {"away", "backlog", "head", "idle", "handling", "waiting", "writing",
          "closed", "cut", "refused"}

\* `age` counts the ticks since the stage's timer was set, `keep` says that
\* hyper will read another request; nothing limits how many it reads.
Connection == [stage: Stage, age: Nat, keep: BOOLEAN]

Handled(c) == conn[c].stage \in {"handling", "waiting"}
Reading(c) == conn[c].stage \in {"head", "idle"}
IsOpen(c) == Reading(c) \/ Handled(c) \/ conn[c].stage = "writing"
Open == {c \in Client : IsOpen(c)}

\* The types of the variables; no timer is overdue.
TypeOK ==
    /\ main \in {"accepting", "draining", "returned", "exited"}
    /\ signal \in BOOLEAN
    /\ drained \in 0..Grace
    /\ conn \in [Client -> Connection]
    /\ job \in [Client -> {"none", "queued", "running", "dropped"}]
    /\ \A c \in Client :
         /\ Reading(c) => conn[c].age <= HeaderTimeout
         /\ Handled(c) => conn[c].age <= HandlerTimeout

Init ==
    /\ main = "accepting"
    /\ signal = FALSE
    /\ drained = 0
    /\ conn = [c \in Client |-> [stage |-> "away", age |-> 0, keep |-> TRUE]]
    /\ job = [c \in Client |-> "none"]

\* The runtime polls its tasks.
Alive == main \in {"accepting", "draining"}

Enter(c, stage) == conn' = [conn EXCEPT ![c].stage = stage, ![c].age = 0]
Close(c) == conn' = [conn EXCEPT ![c] = [stage |-> "closed", age |-> 0, keep |-> FALSE]]

-----------------------------------------------------------------------------
(* The accept loop.                                                        *)

\* The kernel completes connections on its own, until the listener is gone.
Connect(c) ==
    /\ Alive
    /\ conn[c].stage = "away"
    /\ Enter(c, "backlog")
    /\ UNCHANGED <<main, signal, drained, job>>

Accept(c) ==
    /\ main = "accepting"
    /\ conn[c].stage = "backlog"
    /\ Cardinality(Open) < MaxOpen
    /\ Enter(c, "head")
    /\ UNCHANGED <<main, signal, drained, job>>

OutOfDescriptors ==
    /\ main = "accepting"
    /\ Cardinality(Open) >= MaxOpen
    /\ \E c \in Client : conn[c].stage = "backlog"

\* Faulty variant: the error ends the loop.
AcceptFails_Breaks ==
    /\ OutOfDescriptors
    /\ main' = "draining"
    /\ UNCHANGED <<signal, drained, conn, job>>

\* The error is logged, `continue`; the connection stays in the backlog.
AcceptFails == OutOfDescriptors /\ UNCHANGED vars

Signal ==
    /\ Alive
    /\ ~signal
    /\ signal' = TRUE
    /\ UNCHANGED <<main, drained, conn, job>>

\* Faulty variant: main returns without waiting for connections.
HeedSignal_Returns ==
    /\ main = "accepting"
    /\ signal
    /\ main' = "returned"
    /\ conn' = [c \in Client |-> IF IsOpen(c) THEN [conn[c] EXCEPT !.stage = "cut"]
                                 ELSE conn[c]]
    /\ job' = [c \in Client |-> IF job[c] = "queued" THEN "dropped" ELSE job[c]]
    /\ UNCHANGED <<signal, drained>>

\* The branch of select! that breaks the loop; a second signal is never
\* looked at.
HeedSignal ==
    /\ main = "accepting"
    /\ signal
    /\ main' = "draining"
    /\ UNCHANGED <<signal, drained, conn, job>>

-----------------------------------------------------------------------------
(* A connection.                                                           *)

\* hyper has read a head, and the handler begins.
Request(c) ==
    /\ Alive
    /\ Reading(c)
    /\ Enter(c, "handling")
    /\ UNCHANGED <<main, signal, drained, job>>

\* Of an earlier job, whose handler timed out, nothing is known any more; the
\* model follows one job of a connection at a time.
SpawnJob(c) ==
    /\ Alive
    /\ conn[c].stage = "handling"
    /\ job[c] = "none"
    /\ conn' = [conn EXCEPT ![c].stage = "waiting"]
    /\ job' = [job EXCEPT ![c] = "queued"]
    /\ UNCHANGED <<main, signal, drained>>

\* An answer that needs no job.
Respond(c) ==
    /\ Alive
    /\ conn[c].stage = "handling"
    /\ Enter(c, "writing")
    /\ UNCHANGED <<main, signal, drained, job>>

\* A timer of hyper closes the connection.
HeadTimeout(c) ==
    /\ Alive
    /\ Reading(c)
    /\ conn[c].age >= HeaderTimeout
    /\ Close(c)
    /\ UNCHANGED <<main, signal, drained, job>>

\* The handler's future is dropped, the client gets a 408.
RequestTimeout(c) ==
    /\ Alive
    /\ Handled(c)
    /\ conn[c].age >= HandlerTimeout
    /\ Enter(c, "writing")
    /\ UNCHANGED <<main, signal, drained, job>>

\* Faulty variant: the connection is kept although the server shuts down.
Received_KeepsAlive(c) ==
    /\ Alive
    /\ conn[c].stage = "writing"
    /\ Enter(c, "idle")
    /\ UNCHANGED <<main, signal, drained, job>>

\* The client has read its answer.
Received(c) ==
    /\ Alive
    /\ conn[c].stage = "writing"
    /\ Enter(c, IF conn[c].keep THEN "idle" ELSE "closed")
    /\ UNCHANGED <<main, signal, drained, job>>

ClientLeaves(c) ==
    /\ Alive
    /\ IsOpen(c) \/ conn[c].stage = "backlog"
    /\ Close(c)
    /\ UNCHANGED <<main, signal, drained, job>>

\* GracefulShutdown reaches the connection's task: hyper closes one that is
\* idle or has sent nothing yet, and will not keep another one after its
\* request.  One that has sent a part of its first head is left to its timer.
Unnoticed(c) == main = "draining" /\ IsOpen(c) /\ conn[c].keep

Notice(c) ==
    /\ Unnoticed(c)
    /\ \/ Reading(c) /\ Close(c)
       \/ conn[c].stage # "idle" /\ conn' = [conn EXCEPT ![c].keep = FALSE]
    /\ UNCHANGED <<main, signal, drained, job>>

-----------------------------------------------------------------------------
(* The blocking pool.                                                      *)

JobBegins(c) ==
    /\ Alive
    /\ job[c] = "queued"
    /\ job' = [job EXCEPT ![c] = "running"]
    /\ UNCHANGED <<main, signal, drained, conn>>

\* Its handler, if it still awaits the job, has its answer.
JobEnds(c) ==
    /\ main # "exited"
    /\ job[c] = "running"
    /\ job' = [job EXCEPT ![c] = "none"]
    /\ IF conn[c].stage = "waiting" THEN Enter(c, "writing") ELSE UNCHANGED conn
    /\ UNCHANGED <<main, signal, drained>>

-----------------------------------------------------------------------------
(* The end.                                                                *)

\* main returns: tasks are dropped with their connections, and so are jobs
\* that have not begun.
Return ==
    /\ main' = "returned"
    /\ conn' = [c \in Client |->
                  CASE IsOpen(c) -> [conn[c] EXCEPT !.stage = "cut"]
                    [] conn[c].stage = "backlog" -> [conn[c] EXCEPT !.stage = "refused"]
                    [] OTHER -> conn[c]]
    /\ job' = [c \in Client |-> IF job[c] = "queued" THEN "dropped" ELSE job[c]]
    /\ UNCHANGED <<signal, drained>>

Drained == main = "draining" /\ Open = {} /\ Return

\* Faulty variant: main waits for its connections without a limit.
GraceOver_Unlimited == FALSE /\ UNCHANGED vars

GraceOver == main = "draining" /\ drained >= Grace /\ Return

\* Faulty variant: the runtime does not wait for its blocking threads.
Exit_Aborts ==
    /\ main = "returned"
    /\ main' = "exited"
    /\ UNCHANGED <<signal, drained, conn, job>>

\* The runtime waits for the jobs that have begun.
Exit ==
    /\ main = "returned"
    /\ \A c \in Client : job[c] # "running"
    /\ main' = "exited"
    /\ UNCHANGED <<signal, drained, conn, job>>

\* Faulty variant: hyper is given no timeout for a head.
Due_HandlersOnly(c) == Handled(c) /\ conn[c].age >= HandlerTimeout

Due(c) ==
    \/ Reading(c) /\ conn[c].age >= HeaderTimeout
    \/ Handled(c) /\ conn[c].age >= HandlerTimeout

Timed(c) == Reading(c) \/ Handled(c)

Elapse ==
    /\ Alive
    /\ \A c \in Client : ~Due(c) /\ ~Unnoticed(c)
    /\ main = "draining" => drained < Grace
    /\ drained' = IF main = "draining" THEN drained + 1 ELSE drained
    /\ conn' = [c \in Client |-> IF Timed(c) THEN [conn[c] EXCEPT !.age = @ + 1]
                                 ELSE conn[c]]
    /\ UNCHANGED <<main, signal, job>>

-----------------------------------------------------------------------------

Timers(c) == HeadTimeout(c) \/ RequestTimeout(c)
Pool(c) == JobBegins(c) \/ JobEnds(c)

Next ==
    \/ \E c \in Client :
         \/ Connect(c) \/ Accept(c)
         \/ Request(c) \/ SpawnJob(c) \/ Respond(c) \/ Received(c) \/ ClientLeaves(c)
         \/ Timers(c) \/ Notice(c) \/ Pool(c)
    \/ AcceptFails
    \/ Signal \/ HeedSignal
    \/ Drained \/ GraceOver \/ Exit
    \/ Elapse

\* Time passes, timers fire, the pool works, main takes its steps.  select!
\* polls its branches in random order, so that neither the signals nor the
\* listener can be starved.  Nothing is assumed of clients or handlers.
Fairness ==
    /\ \A c \in Client :
         WF_vars(Accept(c)) /\ WF_vars(Timers(c)) /\ WF_vars(Notice(c)) /\ WF_vars(Pool(c))
    /\ WF_vars(HeedSignal) /\ WF_vars(Drained) /\ WF_vars(GraceOver) /\ WF_vars(Exit)
    /\ WF_vars(Elapse)

Spec == Init /\ [][Next]_vars /\ Fairness

-----------------------------------------------------------------------------
(* Safety.                                                                 *)

\* A shutdown cuts a connection off only after its whole grace: a request
\* that is answered and read within it gets its answer.
GraceIsGiven == \A c \in Client : conn[c].stage = "cut" => drained = Grace

\* A client that leaves its request unfinished, be it silent or in the middle
\* of a head, cannot use up the grace: after the time for one head, only
\* requests in progress and unread answers hold the process.
IdleClientsDoNotDelay ==
    main = "draining" /\ drained > HeaderTimeout =>
        \A c \in Client : ~Reading(c)

-----------------------------------------------------------------------------
(* Liveness.                                                               *)

\* A signal ends the process, whatever clients do and however often accept
\* fails.
ShutdownCompletes == signal ~> main = "exited"

\* A job that has begun comes to its end, also when its request was cut off
\* or timed out and main has returned: a wipe does not stop after the DELETE.
BegunJobsFinish == \A c \in Client : job[c] = "running" ~> job[c] = "none"

\* The assumption on a client's manners: it reads its answers, and from some
\* moment on sends no more requests.
GivesUpItsTurn(c) ==
    /\ []<>(conn[c].stage # "writing")
    /\ <>[][~Request(c)]_vars

\* Clients that hold on to their connections can take one descriptor each and
\* no more: if the others, all but MaxOpen - 1, give up their turn, a moment
\* comes at which everybody who waited is accepted, unless a shutdown comes
\* first.  The code limits neither the requests of a connection nor the time
\* to read an answer: MaxOpen clients that never stop can keep the rest out
\* for good.
WaitingClientsAreAccepted ==
    \A Persistent \in SUBSET Client :
        /\ Cardinality(Persistent) < MaxOpen
        /\ \A c \in Client \ Persistent : GivesUpItsTurn(c)
        => (\E c \in Client : conn[c].stage = "backlog") ~>
               signal \/ \A c \in Client : conn[c].stage \notin {"backlog", "refused"}
=============================================================================
