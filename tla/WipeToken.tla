------------------------------ MODULE WipeToken ------------------------------
(***************************************************************************)
(* The rotation of the wipe token, src/wipe.rs: Wiper::run waits for the   *)
(* ticks of a tokio interval and calls Wiper::rotate, which draws a token, *)
(* computes when it is to expire, puts it in force, and prints it with     *)
(* that time.  Handlers on other threads compare their candidates with the *)
(* token in force between any two of those steps.                          *)
(*                                                                         *)
(* Time is counted in units that are small against the interval; one clock *)
(* stands for the monotonic one of the interval and the wall clock of      *)
(* `now`.  `Late` bounds how long the task waits for a thread once it can  *)
(* run, `Stall` how long one poll of it may take.  Tokens are numbered in  *)
(* the order they are drawn: 192 random bits do not repeat.                *)
(***************************************************************************)
EXTENDS Naturals

CONSTANTS
    Interval,   \* Wiper.interval
    Late,       \* delay between the moment the task can run and its poll
    Stall,      \* duration of one poll
    Grace,      \* how long main serves its last requests after a signal
    MaxTime     \* bound: when the clock stops

\* A poll takes less than an interval, which is two minutes.
ASSUME TokenAssumption ==
    /\ Interval \in Nat \ {0}
    /\ Late \in Nat
    /\ Stall \in Nat /\ Stall <= Interval
    /\ Grace \in Nat
    /\ MaxTime \in Nat

VARIABLES
    now,        \* the clock
    due,        \* the deadline of the interval's next tick
    pc,         \* where Wiper::run is
    polled,     \* when its current poll began
    token,      \* Wiper.token, the token in force
    draft,      \* the token that rotate has drawn, and its expiry
    printed,    \* the last line printed: a token and "valid until"
    misses,     \* history: failed rotations since `token` was drawn
    shutdown    \* the value of the watch channel

vars == <<now, due, pc, polled, token, draft, printed, misses, shutdown>>

Line == [token: Nat, until: Nat]

\* `spawned`: not polled yet.  `waiting`: in select!.  `ticked`, `drawn`,
\* `written`: in the arm of the tick.  `stopped`: returned.
Place == {"spawned", "waiting", "ticked", "drawn", "written", "stopped"}

\* The types of the variables.
TypeOK ==
    /\ now \in Nat
    /\ due \in Nat
    /\ pc \in Place
    /\ polled \in Nat
    /\ token \in Nat
    /\ draft \in Line
    /\ printed \in Line
    /\ misses \in Nat
    /\ shutdown \in BOOLEAN

\* Wiper::new has rotated once; main has spawned the task.
Init ==
    /\ now = 0
    /\ due = 0
    /\ pc = "spawned"
    /\ polled = 0
    /\ token = 1
    /\ draft = [token |-> 1, until |-> Interval]
    /\ printed = draft
    /\ misses = 0
    /\ shutdown = FALSE

-----------------------------------------------------------------------------
(* Wiper::run.                                                             *)

\* The first tick of the interval completes at once.
Start ==
    /\ pc = "spawned"
    /\ pc' = "waiting"
    /\ due' = now + Interval
    /\ UNCHANGED <<now, polled, token, draft, printed, misses, shutdown>>

\* Faulty variant: MissedTickBehavior::Burst, the default, catches up.
Tick_Burst ==
    /\ pc = "waiting"
    /\ now >= due
    /\ pc' = "ticked"
    /\ due' = due + Interval
    /\ polled' = now
    /\ UNCHANGED <<now, token, draft, printed, misses, shutdown>>

\* MissedTickBehavior::Delay: after a tick that came late, the next one is a
\* whole interval away.
Tick ==
    /\ pc = "waiting"
    /\ now >= due
    /\ pc' = "ticked"
    /\ due' = now + Interval
    /\ polled' = now
    /\ UNCHANGED <<now, token, draft, printed, misses, shutdown>>

StopRunning ==
    /\ pc = "waiting"
    /\ shutdown
    /\ pc' = "stopped"
    /\ polled' = now
    /\ UNCHANGED <<now, due, token, draft, printed, misses, shutdown>>

-----------------------------------------------------------------------------
(* Wiper::rotate.                                                          *)

\* Faulty variant: the line is printed before the token is in force.
DrawToken_PrintsFirst ==
    /\ pc = "ticked"
    /\ pc' = "drawn"
    /\ draft' = [token |-> token + 1, until |-> now + Interval]
    /\ printed' = draft'
    /\ UNCHANGED <<now, due, polled, token, misses, shutdown>>

DrawToken ==
    /\ pc = "ticked"
    /\ pc' = "drawn"
    /\ draft' = [token |-> token + 1, until |-> now + Interval]
    /\ UNCHANGED <<now, due, polled, token, printed, misses, shutdown>>

\* Faulty variant: the failure is unwrapped, and the task is gone.
DrawFails_Panics ==
    /\ pc = "ticked"
    /\ pc' = "panicked"
    /\ misses' = misses + 1
    /\ UNCHANGED <<now, due, polled, token, draft, printed, shutdown>>

\* Faulty variant: the task backs off after a failure.
DrawFails_BacksOff ==
    /\ pc = "ticked"
    /\ pc' = "waiting"
    /\ due' = due + 2 * Interval
    /\ misses' = misses + 1
    /\ UNCHANGED <<now, polled, token, draft, printed, shutdown>>

\* The random source fails: the error is logged, the old token stays.
DrawFails ==
    /\ pc = "ticked"
    /\ pc' = "waiting"
    /\ misses' = misses + 1
    /\ UNCHANGED <<now, due, polled, token, draft, printed, shutdown>>

WriteToken ==
    /\ pc = "drawn"
    /\ pc' = "written"
    /\ token' = draft.token
    /\ misses' = 0
    /\ UNCHANGED <<now, due, polled, draft, printed, shutdown>>

PrintLine ==
    /\ pc = "written"
    /\ pc' = "waiting"
    /\ printed' = draft
    /\ UNCHANGED <<now, due, polled, token, draft, misses, shutdown>>

-----------------------------------------------------------------------------
(* The environment: SIGTERM or SIGINT, and time.                           *)

Signal ==
    /\ ~shutdown
    /\ shutdown' = TRUE
    /\ UNCHANGED <<now, due, pc, polled, token, draft, printed, misses>>

\* When the task must have made its next step, or the process is over.
Deadline ==
    CASE pc = "spawned" -> Late
      [] pc = "waiting" -> due + Late
      [] pc = "stopped" -> polled + Grace
      [] OTHER -> polled + Stall

Elapse ==
    /\ now < MaxTime
    /\ now < Deadline
    /\ now' = now + 1
    /\ UNCHANGED <<due, pc, polled, token, draft, printed, misses, shutdown>>

Next ==
    \/ Start \/ Tick \/ StopRunning
    \/ DrawToken \/ DrawFails \/ WriteToken \/ PrintLine
    \/ Signal
    \/ Elapse

Spec == Init /\ [][Next]_vars

-----------------------------------------------------------------------------
(* What the printed time means.                                            *)

\* Wiper::matches.
matches(candidate) == candidate = token

\* When the token in force was said to expire.
ValidUntil == IF token = printed.token THEN printed.until ELSE draft.until

\* The URL on the last line of the log works until the time printed on it,
\* but for the time one poll of the task takes: neither a late tick, nor a
\* failed rotation, nor the order of writing and printing shortens it.
PrintedTokenLives ==
    now + Stall < printed.until => matches(printed.token)

\* A token outlives its time by no more than the delays of the task, one more
\* interval for each rotation that failed since, and the grace of a process
\* that is shutting down, in which nobody rotates the token any more.
OverstayIsBounded ==
    now <= ValidUntil + misses * (Interval + Late) + 2 * Late + Stall
             + (IF pc = "stopped" THEN Grace ELSE 0)

\* README.md says "Invalid or expired wipe URLs return `404`".  It does not
\* hold: nothing but a successful rotation ends a token, and when the random
\* source fails, the old token is accepted past its printed time.
ExpiredTokenIsRefused ==
    pc # "stopped" /\ now > printed.until => ~matches(printed.token)
=============================================================================
