--------------------------- MODULE WipeToken_proofs ---------------------------
(***************************************************************************)
(* Proofs about WipeToken and WipeCommand, for any interval, any delays    *)
(* and any set of commands, and without regard to where the clock stops.   *)
(***************************************************************************)
EXTENDS WipeCommand, TLAPS

Rotating == {"ticked", "drawn", "written"}

\* The token in force is the one printed last, except between the two.
PrintsWhatIsInForce ==
    IF pc = "written" THEN token = draft.token /\ draft.token # printed.token
    ELSE token = printed.token

\* During a rotation the line in the log expires at the latest one poll after
\* the tick; the new token will live for an interval from the tick.
Timely ==
    /\ pc \in Rotating =>
         /\ due = polled + Interval
         /\ polled <= now /\ now <= polled + Stall
         /\ printed.until <= polled + Stall
    /\ pc \in {"drawn", "written"} =>
         /\ draft.token = printed.token + 1
         /\ due <= draft.until /\ draft.until <= due + Stall
    /\ pc \in {"waiting", "stopped"} => printed.until <= due + Stall
    /\ pc = "spawned" => printed.until = Interval /\ misses = 0

LifetimeInv == TypeOK /\ PrintsWhatIsInForce /\ Timely

USE TokenAssumption

\* The initial state satisfies the invariant of the lifetime.
LEMMA LifetimeInit == Init => LifetimeInv
<1> SUFFICES ASSUME Init PROVE LifetimeInv
  OBVIOUS
<1>1. Interval \in Nat /\ draft = [token |-> 1, until |-> Interval] /\ draft \in Line
  BY DEF Init, Line
<1>2. TypeOK
  BY <1>1 DEF Init, TypeOK, Place
<1>3. PrintsWhatIsInForce /\ Timely
  BY <1>1 DEF Init, PrintsWhatIsInForce, Timely, Rotating
<1> QED
  BY <1>2, <1>3 DEF LifetimeInv

\* Every step preserves the invariant of the lifetime.
LEMMA LifetimeStep == LifetimeInv /\ [Next]_vars => LifetimeInv'
<1> SUFFICES ASSUME LifetimeInv, [Next]_vars PROVE LifetimeInv'
  OBVIOUS
<1> USE DEF LifetimeInv, TypeOK, Line, Place, PrintsWhatIsInForce, Timely, Rotating
<1>1. CASE Start
  BY <1>1 DEF Start
<1>2. CASE Tick
  BY <1>2 DEF Tick
<1>3. CASE StopRunning
  BY <1>3 DEF StopRunning
<1>4. CASE DrawToken
  BY <1>4 DEF DrawToken
<1>5. CASE DrawFails
  BY <1>5 DEF DrawFails
<1>6. CASE WriteToken
  BY <1>6 DEF WriteToken
<1>7. CASE PrintLine
  BY <1>7 DEF PrintLine
<1>8. CASE Signal
  BY <1>8 DEF Signal
<1>9. CASE Elapse
  BY <1>9 DEF Elapse, Deadline
<1>10. CASE UNCHANGED vars
  BY <1>10 DEF vars
<1> QED
  BY <1>1, <1>2, <1>3, <1>4, <1>5, <1>6, <1>7, <1>8, <1>9, <1>10 DEF Next

\* The variables keep their types.
THEOREM TokenTypeCorrect == Spec => []TypeOK
<1>1. LifetimeInv => TypeOK
  BY DEF LifetimeInv
<1> QED
  BY <1>1, LifetimeInit, LifetimeStep, PTL DEF Spec

\* The last printed URL works until the time printed with it, but for the
\* duration of one poll.
THEOREM Lifetime == Spec => []PrintedTokenLives
<1>1. LifetimeInv => PrintedTokenLives
  BY DEF LifetimeInv, TypeOK, Line, Place, PrintsWhatIsInForce, Timely, Rotating,
     PrintedTokenLives, matches
<1> QED
  BY <1>1, LifetimeInit, LifetimeStep, PTL DEF Spec

-----------------------------------------------------------------------------
(* How long a token can outlive its time.                                  *)

\* The time by which the present token would be due to be replaced, but for
\* the delays of the task: one period later for each failure.
Due(period) == ValidUntil + misses * period

Overdue ==
    LET period == Interval + Late IN
      /\ pc = "spawned" => now <= Late
      /\ pc \in {"waiting", "stopped"} => due <= Due(period) + Late
      /\ pc = "waiting" => now <= due + Late
      /\ pc \in Rotating => polled <= Due(period) + 2 * Late
      /\ pc = "stopped" => /\ polled <= Due(period) + 2 * Late
                           /\ now <= polled + Grace

OverstayInv == LifetimeInv /\ Overdue

\* One more failure is one more period.
LEMMA OneMore ==
    ASSUME NEW m \in Nat, NEW p \in Nat
    PROVE  /\ m * p \in Nat
           /\ (m + 1) * p = m * p + p
           /\ 0 * p = 0
OBVIOUS

\* The initial state satisfies the invariant of the overstay.
LEMMA OverstayInit == Init => OverstayInv
<1> SUFFICES ASSUME Init PROVE OverstayInv
  OBVIOUS
<1>1. LifetimeInv
  BY LifetimeInit
<1>2. Overdue
  BY DEF Init, Overdue, Rotating
<1> QED
  BY <1>1, <1>2 DEF OverstayInv

\* Every step preserves the invariant of the overstay.
LEMMA OverstayStep == OverstayInv /\ [Next]_vars => OverstayInv'
<1> SUFFICES ASSUME OverstayInv, [Next]_vars PROVE Overdue'
  BY LifetimeStep DEF OverstayInv
<1> DEFINE period == Interval + Late
<1>1. /\ period \in Nat /\ misses \in Nat
      /\ misses * period \in Nat
      /\ (misses + 1) * period = misses * period + period
      /\ 0 * period = 0
  BY OneMore DEF OverstayInv, LifetimeInv, TypeOK
<1>2. /\ ValidUntil \in Nat
      /\ pc # "written" => ValidUntil = printed.until
      /\ pc = "written" => ValidUntil = draft.until
  BY DEF OverstayInv, LifetimeInv, TypeOK, Line, PrintsWhatIsInForce, ValidUntil
<1>3. /\ pc' # "written" => ValidUntil' = printed'.until
      /\ pc' = "written" => ValidUntil' = draft'.until
  BY LifetimeStep DEF OverstayInv, LifetimeInv, PrintsWhatIsInForce, ValidUntil
<1> USE DEF OverstayInv, LifetimeInv, TypeOK, Line, Place, Timely, Rotating, Overdue, Due
<1> HIDE DEF period
<1>4. CASE Start
  BY <1>1, <1>2, <1>3, <1>4 DEF Start, period
<1>5. CASE Tick
  BY <1>1, <1>2, <1>3, <1>5 DEF Tick, period
<1>6. CASE StopRunning
  BY <1>1, <1>2, <1>3, <1>6 DEF StopRunning, period
<1>7. CASE DrawToken
  BY <1>1, <1>2, <1>3, <1>7 DEF DrawToken, period
<1>8. CASE DrawFails
  BY <1>1, <1>2, <1>3, <1>8 DEF DrawFails, period
<1>9. CASE WriteToken
  BY <1>1, <1>2, <1>3, <1>9 DEF WriteToken, period
<1>10. CASE PrintLine
  BY <1>1, <1>2, <1>3, <1>10 DEF PrintLine, period
<1>11. CASE Signal
  BY <1>1, <1>2, <1>3, <1>11 DEF Signal, period
<1>12. CASE Elapse
  BY <1>1, <1>2, <1>3, <1>12 DEF Elapse, Deadline, period
<1>13. CASE UNCHANGED vars
  BY <1>1, <1>2, <1>3, <1>13 DEF vars, period
<1> QED
  BY <1>4, <1>5, <1>6, <1>7, <1>8, <1>9, <1>10, <1>11, <1>12, <1>13 DEF Next

\* A token is accepted past its printed time for no longer than the delays of
\* the task, a period for each rotation that failed, and the grace of a
\* shutdown.
THEOREM Overstay == Spec => []OverstayIsBounded
<1>1. OverstayInv => OverstayIsBounded
  <2> SUFFICES ASSUME OverstayInv PROVE OverstayIsBounded
    OBVIOUS
  <2> DEFINE overdue == misses * (Interval + Late)
  <2>1. overdue \in Nat /\ ValidUntil \in Nat
    BY OneMore DEF OverstayInv, LifetimeInv, TypeOK, Line, ValidUntil
  <2> QED
    BY <2>1 DEF OverstayInv, LifetimeInv, TypeOK, Place, Timely, Rotating, Overdue, Due,
       OverstayIsBounded
<1> QED
  BY <1>1, OverstayInit, OverstayStep, PTL DEF Spec

-----------------------------------------------------------------------------
(* Wipe commands beside the rotation.  They need two facts of it: how long *)
(* the printed token lives, and that no token is printed before it is in   *)
(* force.                                                                  *)

\* Commands neither make nor hinder a step of the rotation.
LEMMA CommandsRefine ==
    /\ CommandInit => Init
    /\ [CommandNext]_commandVars => [Next]_vars
<1>1. CommandInit => Init
  BY DEF CommandInit
<1>2. ASSUME [CommandNext]_commandVars PROVE [Next]_vars
  <2>1. CASE Next
    BY <2>1
  <2>2. ASSUME NEW c \in Command, NEW candidate \in 0..printed.token,
               Arrive(c, candidate)
        PROVE  UNCHANGED vars
    BY <2>2 DEF Arrive
  <2>3. ASSUME NEW c \in Command, Erase(c) PROVE UNCHANGED vars
    BY <2>3 DEF Erase
  <2>4. CASE UNCHANGED commandVars
    BY <2>4 DEF commandVars
  <2> QED
    BY <1>2, <2>1, <2>2, <2>3, <2>4 DEF CommandNext
<1> QED
  BY <1>1, <1>2

\* The composition implements the rotation alone, so all that is proved of
\* the rotation holds of it.
THEOREM CommandsImplementRotation == CommandSpec => Spec
BY CommandsRefine, PTL DEF CommandSpec, Spec

-----------------------------------------------------------------------------
(* The invariant of the handlers.                                          *)

CommandInv ==
    /\ OverstayInv
    /\ CommandTypeOK
    /\ CurrentCommandsAreHonoured
    /\ SupersededCommandsAreRefused

\* What the lifetime invariant says of a command that arrives: a token that
\* is printed and has time left matches, and what matches is not older than
\* what is printed.
LEMMA WhatMatches ==
    ASSUME LifetimeInv
    PROVE  /\ printed.token \in Nat /\ token \in Nat
           /\ HasTimeLeft => matches(printed.token)
           /\ token >= printed.token
<1>1. printed.token \in Nat /\ token \in Nat
  BY DEF LifetimeInv, TypeOK, Line
<1>2. HasTimeLeft => matches(printed.token)
  BY TokenAssumption DEF LifetimeInv, TypeOK, Line, Place, PrintsWhatIsInForce, Timely,
     Rotating, HasTimeLeft, matches
<1>3. token >= printed.token
  BY <1>1 DEF LifetimeInv, PrintsWhatIsInForce, Timely
<1> QED
  BY <1>1, <1>2, <1>3

\* The initial state satisfies the invariant: no command has arrived.
LEMMA CommandInvInit == CommandInit => CommandInv
<1> SUFFICES ASSUME CommandInit PROVE CommandInv
  OBVIOUS
<1>1. OverstayInv
  BY OverstayInit DEF CommandInit
<1>2. CommandTypeOK
  BY <1>1 DEF CommandInit, CommandTypeOK, OverstayInv, LifetimeInv, Handler
<1>3. CurrentCommandsAreHonoured /\ SupersededCommandsAreRefused
  BY DEF CommandInit, CurrentCommandsAreHonoured, SupersededCommandsAreRefused
<1> QED
  BY <1>1, <1>2, <1>3 DEF CommandInv

\* Every step preserves the invariant: only an arrival has to do with the
\* token.
LEMMA CommandInvStep == CommandInv /\ [CommandNext]_commandVars => CommandInv'
<1> SUFFICES ASSUME CommandInv, [CommandNext]_commandVars PROVE CommandInv'
  OBVIOUS
<1>1. OverstayInv'
  BY OverstayStep, CommandsRefine DEF CommandInv
<1>2. TypeOK'
  BY <1>1 DEF OverstayInv, LifetimeInv
<1> USE DEF CommandInv, CommandTypeOK, CurrentCommandsAreHonoured,
        SupersededCommandsAreRefused
<1>3. CASE UNCHANGED wipe
  BY <1>1, <1>2, <1>3
<1>4. ASSUME NEW c \in Command, NEW candidate \in 0..printed.token,
             Arrive(c, candidate)
      PROVE  CommandInv'
  <2>1. /\ printed.token \in Nat /\ token \in Nat
        /\ HasTimeLeft => matches(printed.token)
        /\ token >= printed.token
    BY WhatMatches DEF OverstayInv
  <2>2. candidate \in Nat
    BY <2>1
  <2> DEFINE handler ==
        [stage |-> IF matches(candidate) THEN "queued" ELSE "not_found",
         candidate |-> candidate,
         current |-> candidate = printed.token /\ HasTimeLeft,
         newest |-> printed.token]
  <2>3. (candidate = printed.token /\ HasTimeLeft) \in BOOLEAN
    OBVIOUS
  <2>4. handler \in Handler
    BY <2>1, <2>2, <2>3 DEF Handler
  <2>5. wipe' = [wipe EXCEPT ![c] = handler]
    BY <1>4 DEF Arrive
  <2>6. wipe' \in [Command -> Handler]
    BY <2>4, <2>5
  <2>7. handler.stage = "not_found" => ~handler.current
    BY <2>1
  <2>8. handler.stage \in {"queued", "erased"} => handler.candidate >= handler.newest
    BY <2>1 DEF matches
  <2>9. \A d \in Command : wipe'[d] = IF d = c THEN handler ELSE wipe[d]
    BY <2>5
  <2> HIDE DEF handler
  <2> QED
    BY <1>1, <1>2, <2>6, <2>7, <2>8, <2>9
<1>5. ASSUME NEW c \in Command, Erase(c) PROVE CommandInv'
  <2> DEFINE handler == [wipe[c] EXCEPT !.stage = "erased"]
  <2>1. /\ handler \in Handler
        /\ handler.stage = "erased"
        /\ handler.candidate = wipe[c].candidate
        /\ handler.newest = wipe[c].newest
    BY DEF Handler
  <2>2. wipe[c].stage = "queued" /\ wipe' = [wipe EXCEPT ![c] = handler]
    BY <1>5 DEF Erase
  <2> HIDE DEF handler
  <2>3. wipe' \in [Command -> Handler]
    BY <2>1, <2>2
  <2>4. \A d \in Command : wipe'[d] = IF d = c THEN handler ELSE wipe[d]
    BY <2>2
  <2> QED
    BY <1>1, <1>2, <2>1, <2>2, <2>3, <2>4
<1> QED
  BY <1>3, <1>4, <1>5 DEF CommandNext, commandVars

-----------------------------------------------------------------------------

\* The invariant of the rotation and of its commands.
THEOREM CommandInvariant == CommandSpec => []CommandInv
BY CommandInvInit, CommandInvStep, PTL DEF CommandSpec

\* The variables of the rotation and of the handlers keep their types.
THEOREM CommandTypeCorrect == CommandSpec => []CommandTypeOK
<1>1. CommandInv => CommandTypeOK
  BY DEF CommandInv
<1> QED
  BY <1>1, CommandInvariant, PTL

\* A command with the token of the last line and time left on it is never
\* answered with 404, whatever rotates while its job waits.
THEOREM Honoured == CommandSpec => []CurrentCommandsAreHonoured
<1>1. CommandInv => CurrentCommandsAreHonoured
  BY DEF CommandInv
<1> QED
  BY <1>1, CommandInvariant, PTL

\* A command whose token was older than the last line when it arrived erases
\* nothing.
THEOREM Superseded == CommandSpec => []SupersededCommandsAreRefused
<1>1. CommandInv => SupersededCommandsAreRefused
  BY DEF CommandInv
<1> QED
  BY <1>1, CommandInvariant, PTL
=============================================================================
