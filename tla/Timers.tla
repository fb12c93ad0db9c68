------------------------------- MODULE Timers -------------------------------
(***************************************************************************)
(* scheduler.Timers (src/internal/scheduler/timer.go): a map from Task to  *)
(* its current arm, and one goroutine per arm that waits for either the    *)
(* runtime timer or the arm's cancel channel.  Arm, Cancel and Stop are    *)
(* called by supervisor goroutines and by the daemon; every critical       *)
(* section under t.mu is one action.  An arm's identity is its goroutine.  *)
(***************************************************************************)
EXTENDS Naturals, FiniteSets

CONSTANTS Tasks,        \* task ids
          Goroutines,   \* names for the goroutines started by Arm (a bound)
          NoTimer       \* "no entry in the active map"

ASSUME TimersAssumption == NoTimer \notin Goroutines

VARIABLES active,   \* t.active: the current arm of each task
          pc,       \* where each goroutine is in wait()
          owner,    \* the taskID each goroutine was started for
          rt,       \* its runtime timer: running, stopped, or value in C()
          cancelled \* whether its cancel channel is closed

vars == <<active, pc, owner, rt, cancelled>>

Locations == {"idle", "select", "expired", "firing"}

TypeOK == /\ active \in [Tasks -> Goroutines \cup {NoTimer}]
          /\ pc \in [Goroutines -> Locations]
          /\ owner \in [Goroutines -> Tasks]
          /\ rt \in [Goroutines -> {"running", "stopped", "fired"}]
          /\ cancelled \in [Goroutines -> BOOLEAN]

Init == /\ active = [t \in Tasks |-> NoTimer]
        /\ pc = [g \in Goroutines |-> "idle"]
        /\ owner \in [Goroutines -> Tasks]
        /\ rt = [g \in Goroutines |-> "stopped"]
        /\ cancelled = [g \in Goroutines |-> FALSE]

\* delete(t.active, id); close(a.cancel); a.timer.Stop() for a set of tasks.
\* Stop has no effect on a timer whose value is already in its channel.
Discarded(S) == {g \in Goroutines : \E t \in S : active[t] = g}
StopRT(S) == [g \in Goroutines |->
                 IF g \in Discarded(S) /\ rt[g] = "running" THEN "stopped" ELSE rt[g]]
CloseNothing(S) == cancelled \* mutant: the cancel channel is never closed
CloseCancel(S) == [g \in Goroutines |-> cancelled[g] \/ g \in Discarded(S)]

\* Arm(taskID, at): replace the task's arm by a new one and start its goroutine.
Arm(t, g) ==
  /\ pc[g] = "idle"
  /\ active' = [active EXCEPT ![t] = g]
  /\ pc' = [pc EXCEPT ![g] = "select"]
  /\ owner' = [owner EXCEPT ![g] = t]
  /\ rt' = [StopRT({t}) EXCEPT ![g] = "running"]
  /\ cancelled' = [CloseCancel({t}) EXCEPT ![g] = FALSE]

\* Cancel(taskID), and Stop (every task at once).
Discard(S) ==
  /\ active' = [t \in Tasks |-> IF t \in S THEN NoTimer ELSE active[t]]
  /\ rt' = StopRT(S)
  /\ cancelled' = CloseCancel(S)
  /\ UNCHANGED <<pc, owner>>

\* Mutant: Cancel leaves the entry in the map.
CancelKeepsEntry(t) == /\ active[t] # NoTimer
                       /\ rt' = StopRT({t}) /\ cancelled' = CloseCancel({t})
                       /\ UNCHANGED <<active, pc, owner>>

Cancel(t) == active[t] # NoTimer /\ Discard({t})
Stop == (\E t \in Tasks : active[t] # NoTimer) /\ Discard(Tasks)

\* The runtime sends on the timer's (buffered) channel.
Expire(g) ==
  /\ rt[g] = "running"
  /\ rt' = [rt EXCEPT ![g] = "fired"]
  /\ UNCHANGED <<active, pc, owner, cancelled>>

\* The two branches of the select in wait(); with both ready either is taken.
TakeExpiry(g) ==
  /\ pc[g] = "select" /\ rt[g] = "fired"
  /\ pc' = [pc EXCEPT ![g] = "expired"]
  /\ rt' = [rt EXCEPT ![g] = "stopped"]
  /\ UNCHANGED <<active, owner, cancelled>>

TakeCancel(g) ==
  /\ pc[g] = "select" /\ cancelled[g]
  /\ pc' = [pc EXCEPT ![g] = "idle"]
  /\ rt' = [rt EXCEPT ![g] = "stopped"]
  /\ UNCHANGED <<active, owner, cancelled>>

AlwaysCurrent(g) == TRUE \* mutant: no identity check

\* The identity check under the lock.
IsCurrent(g) == active[owner[g]] = g

Claim(g) ==
  /\ pc[g] = "expired"
  /\ \/ /\ IsCurrent(g)
        /\ active' = [active EXCEPT ![owner[g]] = NoTimer]
        /\ pc' = [pc EXCEPT ![g] = "firing"]
     \/ /\ ~IsCurrent(g)
        /\ pc' = [pc EXCEPT ![g] = "idle"]
        /\ UNCHANGED active
  /\ UNCHANGED <<owner, rt, cancelled>>

\* t.fire(taskID, firedAt) returns and the goroutine ends.
Fire(g) ==
  /\ pc[g] = "firing"
  /\ pc' = [pc EXCEPT ![g] = "idle"]
  /\ UNCHANGED <<active, owner, rt, cancelled>>

Run(g) == Expire(g) \/ TakeExpiry(g) \/ TakeCancel(g) \/ Claim(g) \/ Fire(g)

Next == \/ \E t \in Tasks, g \in Goroutines : Arm(t, g)
        \/ \E t \in Tasks : Cancel(t)
        \/ Stop
        \/ \E g \in Goroutines : Run(g)

Spec == Init /\ [][Next]_vars

\* Goroutines are scheduled and runtime timers expire; nothing obliges a
\* caller to arm or cancel.
FairSpec == Spec /\ \A g \in Goroutines : WF_vars(Run(g))

-----------------------------------------------------------------------------
\* The current arm of a task belongs to a goroutine that serves this very
\* task, has not been cancelled and still has its expiry ahead of it: an entry
\* in the active map is never a wake-up nobody will deliver (Armed() would
\* report a timer that cannot fire).  timer.go:61-76 against timer.go:81-106.
ArmIsLive ==
  \A t \in Tasks : active[t] # NoTimer =>
    LET g == active[t] IN
      /\ owner[g] = t
      /\ ~cancelled[g]
      /\ \/ pc[g] = "select" /\ rt[g] \in {"running", "fired"}
         \/ pc[g] = "expired"

\* A waiting goroutine ends, whatever is armed and cancelled meanwhile: no
\* goroutine whose arm was replaced or cancelled leaks (wait, timer.go:81-95).
EveryWaitEnds == \A g \in Goroutines : pc[g] = "select" ~> pc[g] = "idle"

\* Seen from one task, the map and the goroutines implement WakeTimer.
WT(t) == INSTANCE WakeTimer WITH
           Tokens <- Goroutines,
           timer  <- active[t],
           firing <- {g \in Goroutines : pc[g] = "firing" /\ owner[g] = t}

\* Every task sees the abstract wake timer: a fire is delivered at most once
\* per arm and only for an arm that was current when its expiry was taken
\* (timer.go:78-95).  One conjunct per task of WT(t)!TimerSpec, with the
\* quantifier inside so that TLC can check it.
ImplementsWakeTimer ==
  /\ \A t \in Tasks : WT(t)!TimerInit
  /\ [][\A t \in Tasks : WT(t)!TimerNext \/ UNCHANGED WT(t)!TimerVars]_vars
=============================================================================
