----------------------------- MODULE WipeCommand -----------------------------
(***************************************************************************)
(* Wipe commands against the rotation of the token: handle_wipe of         *)
(* src/server.rs composed with WipeToken.  A client sends the token of     *)
(* some line of the log.  The handler compares it once, on arrival, and    *)
(* then queues the wipe, which may run after any number of rotations.  The *)
(* statements of the wipe and the timeout of the handler are in PlanStore  *)
(* and PlanServer.                                                         *)
(***************************************************************************)
EXTENDS WipeToken

CONSTANTS
    Command     \* requests that send a wipe command, each once

VARIABLES
    wipe        \* what the handler of each command does

commandVars == <<vars, wipe>>

\* `candidate` is the token in the path.  History, as of the arrival:
\* `current` says that it was the one on the last line, with time left, and
\* `newest` which token was on the last line.
Handler == [stage: {"idle", "queued", "erased", "not_found"},
            candidate: Nat, current: BOOLEAN, newest: Nat]

CommandTypeOK == TypeOK /\ wipe \in [Command -> Handler]

CommandInit ==
    /\ Init
    /\ wipe = [c \in Command |-> [stage |-> "idle", candidate |-> 0,
                                  current |-> FALSE, newest |-> 0]]

-----------------------------------------------------------------------------

HasTimeLeft == now + Stall < printed.until

\* matches, and spawn_blocking or 404; no await comes between the two.
Arrive(c, candidate) ==
    /\ wipe[c].stage = "idle"
    /\ wipe' = [wipe EXCEPT ![c] =
                  [stage |-> IF matches(candidate) THEN "queued" ELSE "not_found",
                   candidate |-> candidate,
                   current |-> candidate = printed.token /\ HasTimeLeft,
                   newest |-> printed.token]]
    /\ UNCHANGED vars

\* Faulty variant: the token is compared again under the store's mutex.
Erase_ComparesAgain(c) ==
    /\ wipe[c].stage = "queued"
    /\ wipe' = [wipe EXCEPT ![c].stage =
                  IF matches(wipe[c].candidate) THEN "erased" ELSE "not_found"]
    /\ UNCHANGED vars

\* The job runs; the token plays no part any more.
Erase(c) ==
    /\ wipe[c].stage = "queued"
    /\ wipe' = [wipe EXCEPT ![c].stage = "erased"]
    /\ UNCHANGED vars

CommandNext ==
    \/ Next /\ UNCHANGED wipe
    \/ \E c \in Command :
         \/ \E candidate \in 0..printed.token : Arrive(c, candidate)
         \/ Erase(c)

CommandSpec == CommandInit /\ [][CommandNext]_commandVars

-----------------------------------------------------------------------------

\* A command that is current when it arrives is never answered with 404,
\* however long its job waits and whatever rotates meanwhile.  What the job
\* comes to, is in PlanServer.
CurrentCommandsAreHonoured ==
    \A c \in Command : wipe[c].stage = "not_found" => ~wipe[c].current

\* A command older than the line that was the last when it arrived erases
\* nothing: the token behind a line is in force before the line is printed,
\* never after.  A command that was queued in time may erase after later lines.
SupersededCommandsAreRefused ==
    \A c \in Command :
        wipe[c].stage \in {"queued", "erased"} => wipe[c].candidate >= wipe[c].newest
=============================================================================
