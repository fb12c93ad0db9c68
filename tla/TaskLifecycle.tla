--------------------------- MODULE TaskLifecycle ---------------------------
(***************************************************************************)
(* What the supervisor promises of one Task: the states a client can see   *)
(* and the steps between them.  This is the transition table of the        *)
(* lifecycle (src/docs/architecture.md) with the one transition the code   *)
(* adds to it, CannotStart.  Supervisor.tla implements it through every    *)
(* interleaving of events, restarts and failures.                          *)
(***************************************************************************)
EXTENDS Naturals

VARIABLES status,     \* tasks.status
          made        \* attempts started so far (tasks.total_attempts)

LifecycleVars == <<status, made>>

Live == {"PENDING", "RUNNING", "WAITING", "PAUSED"}

LifecycleInit == status = "PENDING" /\ made = 0

\* start, timer_fire, availability_ok and user_resume start exactly one attempt.
StartAttempt == /\ status \in {"PENDING", "WAITING", "PAUSED"}
                /\ status' = "RUNNING"
                /\ made' = made + 1

\* attempt_exit, or recovery after an interruption, ends it.
EndAttempt == /\ status = "RUNNING"
              /\ status' \in {"SUCCEEDED", "FAILED", "WAITING"}
              /\ UNCHANGED made

UserPause == /\ status \in {"RUNNING", "WAITING"}
             /\ status' = "PAUSED"
             /\ UNCHANGED made

UserStop == /\ status \in Live
            /\ status' = "STOPPED"
            /\ UNCHANGED made

\* The attempt cannot be started at all.
CannotStart == /\ status \in {"PENDING", "WAITING", "PAUSED"}
               /\ status' = "FAILED"
               /\ UNCHANGED made

\* The transitions of the documented table.
DocumentedNext == StartAttempt \/ EndAttempt \/ UserPause \/ UserStop

LifecycleNext == DocumentedNext \/ CannotStart

LifecycleSpec == LifecycleInit /\ [][LifecycleNext]_LifecycleVars
=============================================================================
