----------------------------- MODULE WakeTimer -----------------------------
(***************************************************************************)
(* What scheduler.Timers promises one Task: at most one armed wake-up, an  *)
(* armed wake-up can only be fired once, and nothing but an arm that was   *)
(* still current when its timer expired is ever delivered.  An arm is a    *)
(* Token; a token in firing has won the race against Cancel and its        *)
(* callback is on its way to the Task's event channel.                     *)
(*                                                                         *)
(* Timers.tla implements this specification; Supervisor.tla is built on    *)
(* its actions.                                                            *)
(***************************************************************************)
CONSTANTS Tokens,     \* names of arms
          NoTimer     \* no wake-up is armed; not a token

VARIABLES timer,      \* the armed token, or NoTimer
          firing      \* tokens whose callback is in flight

TimerVars == <<timer, firing>>

TimerInit == /\ timer = NoTimer
             /\ firing = {}

\* Arm replaces whatever was armed; the replaced arm can no longer fire.
ArmTimer(k) == /\ k \notin firing \cup {timer}
               /\ timer' = k
               /\ UNCHANGED firing

CancelTimer == /\ timer' = NoTimer
               /\ UNCHANGED firing

\* The timer's goroutine finds its own arm still current, and claims it.
ClaimTimer == /\ timer \in Tokens
              /\ firing' = firing \cup {timer}
              /\ timer' = NoTimer

\* The callback runs.
DeliverFire(k) == /\ k \in firing
                  /\ firing' = firing \ {k}
                  /\ UNCHANGED timer

TimerNext == \/ \E k \in Tokens : ArmTimer(k) \/ DeliverFire(k)
             \/ CancelTimer
             \/ ClaimTimer

TimerSpec == TimerInit /\ [][TimerNext]_TimerVars
=============================================================================
