--------------------------- MODULE Lifecycle_proofs ---------------------------
(***************************************************************************)
(* Proofs of the safety of Lifecycle, for any number of clients, of        *)
(* requests and of descriptors, and for timeouts of any length.            *)
(***************************************************************************)
EXTENDS Lifecycle, TLAPS

Opened == {"head", "idle", "handling", "waiting", "writing"}
Over == {"returned", "exited"}
JobState == {"none", "queued", "running", "dropped"}

\* What is true of client c's connection `k` when main is at `m`, `d` ticks
\* after it left the loop.  The last two conjuncts are what a shutdown does
\* to idle clients: a connection that is read from has been so since main
\* left the loop, and none that is open will be kept.
Fine(c, k, m, d) ==
    /\ k.stage \in {"head", "idle"} => k.age <= HeaderTimeout
    /\ k.stage \in {"handling", "waiting"} => k.age <= HandlerTimeout
    /\ k.stage = "cut" => m \in Over /\ d = Grace
    /\ m = "draining" /\ k.stage \in {"head", "idle"} => k.age >= d
    /\ m = "draining" /\ d > 0 /\ k.stage \in Opened => ~k.keep

LifeInv ==
    /\ main \in {"accepting", "draining"} \cup Over
    /\ signal \in BOOLEAN
    /\ drained \in 0..Grace
    /\ main = "accepting" => drained = 0
    /\ conn \in [Client -> Connection]
    /\ job \in [Client -> JobState]
    /\ \A c \in Client : Fine(c, conn[c], main, drained)

\* The constants are positive numbers.
LEMMA Positive ==
    /\ HeaderTimeout \in Nat /\ HandlerTimeout \in Nat /\ Grace \in Nat
    /\ HeaderTimeout > 0 /\ HandlerTimeout > 0 /\ Grace > 0
BY LifecycleAssumption

\* The initial state satisfies the invariant.
LEMMA LifeInit == Init => LifeInv
<1> SUFFICES ASSUME Init PROVE LifeInv
  OBVIOUS
<1> DEFINE first == [stage |-> "away", age |-> 0, keep |-> TRUE]
<1>1. first \in Connection
  BY DEF Connection, Stage
<1>2. \A c \in Client : conn[c] = first
  BY DEF Init
<1>3. \A c \in Client : Fine(c, first, "accepting", 0)
  BY Positive DEF Fine, Opened
<1>4. conn \in [Client -> Connection] /\ job \in [Client -> JobState]
  BY <1>1 DEF Init, JobState
<1>5. main = "accepting" /\ drained = 0 /\ signal \in BOOLEAN
  BY DEF Init
<1> HIDE DEF first
<1>6. \A c \in Client : Fine(c, conn[c], main, drained)
  BY <1>2, <1>3, <1>5
<1>7. drained \in 0..Grace
  BY <1>5, Positive
<1> QED
  BY <1>4, <1>5, <1>6, <1>7 DEF LifeInv

\* A step that changes one connection, and perhaps jobs.
LEMMA MoveStep ==
    ASSUME LifeInv, NEW c \in Client, NEW k \in Connection,
           conn' = [conn EXCEPT ![c] = k], Fine(c, k, main, drained),
           job' \in [Client -> JobState], UNCHANGED <<main, signal, drained>>
    PROVE  LifeInv'
<1>1. conn' \in [Client -> Connection]
  BY DEF LifeInv
<1>2. \A d \in Client : conn'[d] = IF d = c THEN k ELSE conn[d]
  BY DEF LifeInv
<1>3. \A d \in Client : Fine(d, conn'[d], main', drained')
  BY <1>2 DEF LifeInv
<1> QED
  BY <1>1, <1>3 DEF LifeInv

\* A step that enters a stage in which no timer runs.
LEMMA EnterStep ==
    ASSUME LifeInv, NEW c \in Client, NEW stage \in Stage, Enter(c, stage),
           stage \notin {"head", "idle", "cut"},
           conn[c].stage \in Opened \/ stage \notin Opened,
           job' \in [Client -> JobState], UNCHANGED <<main, signal, drained>>
    PROVE  LifeInv'
<1> DEFINE k == [conn[c] EXCEPT !.stage = stage, !.age = 0]
<1>1. conn[c] \in Connection /\ Fine(c, conn[c], main, drained)
  BY DEF LifeInv
<1>2. /\ k \in Connection
      /\ k.stage = stage /\ k.age = 0 /\ k.keep = conn[c].keep
  BY <1>1 DEF Connection
<1>3. conn' = [conn EXCEPT ![c] = k]
  BY DEF Enter
<1> HIDE DEF k
<1>4. Fine(c, k, main, drained)
  BY <1>1, <1>2, Positive DEF Fine
<1> QED
  BY <1>2, <1>3, <1>4, MoveStep

\* A step that starts to wait for a head: a new connection, or one that is
\* kept after an answer.  Neither happens in a shutdown that has lasted.
LEMMA HeadStep ==
    ASSUME LifeInv, NEW c \in Client, NEW stage \in {"head", "idle"}, Enter(c, stage),
           main = "draining" => drained = 0,
           UNCHANGED <<main, signal, drained, job>>
    PROVE  LifeInv'
<1> DEFINE k == [conn[c] EXCEPT !.stage = stage, !.age = 0]
<1>1. conn[c] \in Connection /\ Fine(c, conn[c], main, drained) /\ drained \in Nat
      /\ job' \in [Client -> JobState]
  BY Positive DEF LifeInv
<1>2. /\ k \in Connection
      /\ k.stage = stage /\ k.age = 0
  BY <1>1 DEF Connection, Stage
<1>3. conn' = [conn EXCEPT ![c] = k]
  BY DEF Enter
<1> HIDE DEF k
<1>4. Fine(c, k, main, drained)
  BY <1>1, <1>2, Positive DEF Fine
<1> QED
  BY <1>1, <1>2, <1>3, <1>4, MoveStep

\* A handler hands a job to the pool; the timer runs on.
LEMMA SpawnStep ==
    ASSUME LifeInv, NEW c \in Client, SpawnJob(c)
    PROVE  LifeInv'
<1> DEFINE k == [conn[c] EXCEPT !.stage = "waiting"]
<1>1. conn[c] \in Connection /\ Fine(c, conn[c], main, drained)
      /\ job' \in [Client -> JobState]
  BY DEF LifeInv, SpawnJob, JobState
<1>2. /\ k \in Connection /\ k.stage = "waiting" /\ k.age = conn[c].age
      /\ k.keep = conn[c].keep
      /\ conn[c].stage = "handling"
  BY <1>1 DEF Connection, Stage, SpawnJob
<1>3. conn' = [conn EXCEPT ![c] = k] /\ UNCHANGED <<main, signal, drained>>
  BY DEF SpawnJob
<1> HIDE DEF k
<1>4. Fine(c, k, main, drained)
  BY <1>1, <1>2 DEF Fine, Opened
<1> QED
  BY <1>1, <1>2, <1>3, <1>4, MoveStep

\* A connection is closed.
LEMMA CloseStep ==
    ASSUME LifeInv, NEW c \in Client, Close(c), UNCHANGED <<main, signal, drained, job>>
    PROVE  LifeInv'
<1> DEFINE k == [stage |-> "closed", age |-> 0, keep |-> FALSE]
<1>1. k \in Connection /\ Fine(c, k, main, drained)
  BY Positive DEF Connection, Stage, Fine, Opened
<1>2. conn' = [conn EXCEPT ![c] = k] /\ job' \in [Client -> JobState]
  BY DEF Close, LifeInv
<1> QED
  BY <1>1, <1>2, MoveStep

\* The shutdown reaches a connection.
LEMMA NoticeStep ==
    ASSUME LifeInv, NEW c \in Client, Notice(c)
    PROVE  LifeInv'
<1>1. UNCHANGED <<main, signal, drained, job>>
  BY DEF Notice
<1>2. CASE Close(c)
  BY <1>1, <1>2, CloseStep
<1>3. CASE conn' = [conn EXCEPT ![c].keep = FALSE]
  <2> DEFINE k == [conn[c] EXCEPT !.keep = FALSE]
  <2>1. conn[c] \in Connection /\ Fine(c, conn[c], main, drained)
        /\ job' \in [Client -> JobState]
    BY <1>1 DEF LifeInv
  <2>2. /\ k \in Connection
        /\ k.stage = conn[c].stage /\ k.age = conn[c].age /\ k.keep = FALSE
    BY <2>1 DEF Connection
  <2>3. conn' = [conn EXCEPT ![c] = k]
    BY <1>3
  <2> HIDE DEF k
  <2>4. Fine(c, k, main, drained)
    BY <2>1, <2>2 DEF Fine
  <2> QED
    BY <1>1, <2>1, <2>2, <2>3, <2>4, MoveStep
<1> QED
  BY <1>2, <1>3 DEF Notice

\* main returns: what it cuts off has had its grace.
LEMMA ReturnStep ==
    ASSUME LifeInv, Return, drained = Grace \/ Open = {}
    PROVE  LifeInv'
<1>1. main' = "returned" /\ UNCHANGED <<signal, drained>>
  BY DEF Return
<1>2. ASSUME NEW c \in Client
      PROVE  conn'[c] \in Connection /\ Fine(c, conn'[c], main', drained')
  <2> DEFINE stage == CASE IsOpen(c) -> "cut"
                        [] conn[c].stage = "backlog" -> "refused"
                        [] OTHER -> conn[c].stage
  <2>1. conn[c] \in Connection /\ Fine(c, conn[c], main, drained)
    BY DEF LifeInv
  <2>2. IsOpen(c) => drained = Grace
    BY DEF Open
  <2>3. conn'[c] = [conn[c] EXCEPT !.stage = stage]
    <3>1. [conn[c] EXCEPT !.stage = conn[c].stage] = conn[c]
      BY <2>1 DEF Connection
    <3> QED
      BY <3>1 DEF Return
  <2>4. /\ stage \in Stage /\ stage \notin Opened
        /\ stage = "cut" => drained = Grace \/ conn[c].stage = "cut"
    BY <2>1, <2>2 DEF Connection, Stage, Opened, IsOpen, Reading, Handled
  <2> HIDE DEF stage
  <2>5. /\ conn'[c] \in Connection /\ conn'[c].stage = stage
    BY <2>1, <2>3, <2>4 DEF Connection
  <2> QED
    BY <1>1, <2>1, <2>4, <2>5 DEF Fine, Opened, Over
<1>3. conn' \in [Client -> Connection]
  <2>1. conn' = [c \in Client |-> conn'[c]]
    BY DEF Return
  <2> QED
    BY <1>2, <2>1
<1>4. job' \in [Client -> JobState]
  BY DEF LifeInv, Return, JobState
<1> QED
  BY <1>1, <1>2, <1>3, <1>4 DEF LifeInv, Over

\* A tick: no timer was due, and every connection knew of the shutdown.
LEMMA ElapseStep ==
    ASSUME LifeInv, Elapse
    PROVE  LifeInv'
<1>1. /\ main \in {"accepting", "draining"} /\ UNCHANGED <<main, signal, job>>
      /\ main = "draining" => drained < Grace
      /\ drained' = IF main = "draining" THEN drained + 1 ELSE drained
      /\ drained \in Nat
  BY Positive DEF LifeInv, Elapse, Alive
<1>2. drained' \in 0..Grace /\ (main' = "accepting" => drained' = 0)
  BY <1>1, Positive DEF LifeInv
<1>3. ASSUME NEW c \in Client
      PROVE  conn'[c] \in Connection /\ Fine(c, conn'[c], main', drained')
  <2>1. conn[c] \in Connection /\ Fine(c, conn[c], main, drained)
    BY DEF LifeInv
  <2>2. conn[c].age \in Nat
    BY <2>1 DEF Connection
  <2>3. /\ ~(conn[c].stage \in {"head", "idle"} /\ conn[c].age >= HeaderTimeout)
        /\ ~(conn[c].stage \in {"handling", "waiting"} /\ conn[c].age >= HandlerTimeout)
        /\ main = "draining" /\ conn[c].stage \in Opened => ~conn[c].keep
    BY DEF Elapse, Due, Unnoticed, IsOpen, Reading, Handled, Opened
  <2>4. /\ conn'[c] \in Connection
        /\ conn'[c].stage = conn[c].stage /\ conn'[c].keep = conn[c].keep
        /\ conn[c].stage \in {"head", "idle", "handling", "waiting"} =>
             conn'[c].age = conn[c].age + 1
    BY <2>1, <2>2 DEF Elapse, Timed, Reading, Handled, Connection
  <2> QED
    BY <1>1, <2>1, <2>2, <2>3, <2>4, Positive DEF Fine, Over
<1>4. conn' \in [Client -> Connection]
  <2>1. conn' = [c \in Client |-> conn'[c]]
    BY DEF Elapse
  <2> QED
    BY <1>3, <2>1
<1> QED
  BY <1>1, <1>2, <1>3, <1>4 DEF LifeInv

-----------------------------------------------------------------------------

\* Every step preserves the invariant.
LEMMA LifeStep == LifeInv /\ [Next]_vars => LifeInv'
<1> SUFFICES ASSUME LifeInv, [Next]_vars PROVE LifeInv'
  OBVIOUS
<1>1. ASSUME NEW c \in Client, Connect(c) PROVE LifeInv'
  BY <1>1, EnterStep DEF Connect, LifeInv, Stage, Opened
<1>2. ASSUME NEW c \in Client, Accept(c) PROVE LifeInv'
  BY <1>2, HeadStep DEF Accept
<1>3. ASSUME NEW c \in Client, Request(c) \/ Respond(c) \/ RequestTimeout(c)
      PROVE  LifeInv'
  <2>1. conn[c].stage \in Opened
    BY <1>3 DEF Request, Reading, Respond, RequestTimeout, Handled, Opened
  <2> QED
    BY <1>3, <2>1, EnterStep DEF Request, Respond, RequestTimeout, LifeInv, Stage
<1>4. ASSUME NEW c \in Client, HeadTimeout(c) \/ ClientLeaves(c) PROVE LifeInv'
  BY <1>4, CloseStep DEF HeadTimeout, ClientLeaves
<1>5. ASSUME NEW c \in Client, Received(c) PROVE LifeInv'
  <2>1. CASE Enter(c, "idle") /\ conn[c].keep
    <3>1. main = "draining" => drained = 0
      BY <1>5, <2>1, Positive DEF Received, LifeInv, Fine, Opened
    <3> QED
      BY <1>5, <2>1, <3>1, HeadStep DEF Received
  <2>2. CASE Enter(c, "closed")
    BY <1>5, <2>2, EnterStep DEF Received, LifeInv, Stage, Opened
  <2> QED
    BY <1>5, <2>1, <2>2 DEF Received
<1>6. ASSUME NEW c \in Client, JobBegins(c) PROVE LifeInv'
  BY <1>6 DEF JobBegins, LifeInv, JobState
<1>7. ASSUME NEW c \in Client, JobEnds(c) PROVE LifeInv'
  <2>1. job' \in [Client -> JobState] /\ UNCHANGED <<main, signal, drained>>
    BY <1>7 DEF JobEnds, LifeInv, JobState
  <2>2. CASE conn[c].stage = "waiting" /\ Enter(c, "writing")
    BY <2>1, <2>2, EnterStep DEF Stage, Opened
  <2>3. CASE UNCHANGED conn
    BY <2>1, <2>3 DEF LifeInv
  <2> QED
    BY <1>7, <2>2, <2>3 DEF JobEnds
<1>8. ASSUME AcceptFails \/ UNCHANGED vars PROVE LifeInv'
  BY <1>8 DEF AcceptFails, vars, LifeInv
<1>9. CASE Signal
  BY <1>9 DEF Signal, LifeInv
<1>10. CASE HeedSignal
  <2>1. drained = 0 /\ main' = "draining" /\ UNCHANGED <<signal, drained, conn, job>>
    BY <1>10 DEF HeedSignal, LifeInv
  <2>2. \A c \in Client : Fine(c, conn'[c], main', drained')
    BY <1>10, <2>1 DEF HeedSignal, LifeInv, Fine, Connection, Over
  <2> QED
    BY <2>1, <2>2 DEF LifeInv
<1>11. CASE Drained
  BY <1>11, ReturnStep DEF Drained
<1>12. CASE GraceOver
  <2>1. drained = Grace
    BY <1>12, Positive DEF GraceOver, LifeInv
  <2> QED
    BY <1>12, <2>1, ReturnStep DEF GraceOver
<1>13. CASE Exit
  <2>1. /\ main = "returned" /\ main' = "exited"
        /\ UNCHANGED <<signal, drained, conn, job>>
    BY <1>13 DEF Exit
  <2>2. \A c \in Client : Fine(c, conn'[c], main', drained')
    BY <2>1 DEF LifeInv, Fine, Over
  <2> QED
    BY <2>1, <2>2 DEF LifeInv, Over
<1>14. CASE Elapse
  BY <1>14, ElapseStep
<1> QED
  BY <1>1, <1>2, <1>3, <1>4, <1>5, <1>6, <1>7, <1>8, <1>9, <1>10, <1>11, <1>12, <1>13,
     <1>14, SpawnStep, NoticeStep DEF Next, Timers, Pool

\* The invariant holds in every state.
THEOREM LifeInvariant == Spec => []LifeInv
BY LifeInit, LifeStep, PTL DEF Spec

-----------------------------------------------------------------------------

\* The variables keep their types, and no timer is overdue.
THEOREM LifeTypeCorrect == Spec => []TypeOK
<1>1. LifeInv => TypeOK
  BY DEF LifeInv, TypeOK, Fine, Reading, Handled, Over, JobState
<1> QED
  BY <1>1, LifeInvariant, PTL

\* What a shutdown cuts off has had the whole grace.
THEOREM WholeGrace == Spec => []GraceIsGiven
<1>1. LifeInv => GraceIsGiven
  BY DEF LifeInv, Fine, GraceIsGiven
<1> QED
  BY <1>1, LifeInvariant, PTL

\* Clients that leave a head unfinished hold a shutdown up no longer than one
\* head may take.
THEOREM IdleClients == Spec => []IdleClientsDoNotDelay
<1>1. ASSUME LifeInv PROVE IdleClientsDoNotDelay
  <2>1. \A c \in Client : conn[c].age \in Nat /\ Fine(c, conn[c], main, drained)
    BY <1>1 DEF LifeInv, Connection
  <2>2. drained \in Nat
    BY <1>1, Positive DEF LifeInv
  <2> QED
    BY <2>1, <2>2, Positive DEF Fine, Reading, IdleClientsDoNotDelay
<1> QED
  BY <1>1, LifeInvariant, PTL
=============================================================================
