----------------------------- MODULE Supervisor -----------------------------
(***************************************************************************)
(* One Task under the daemon: the supervisor goroutine that owns it        *)
(* (src/internal/supervisor), the runtime that holds its child process     *)
(* (src/internal/daemon/daemon.go), its wake timer, its availability       *)
(* prober, its rows in the store, the clients that act on it, and the      *)
(* daemon process itself, which may be shut down or crash and reconcile    *)
(* the Task when it starts again (src/internal/daemon/reconcile.go).       *)
(*                                                                         *)
(* Tasks share no lifecycle state, so one Task is enough here.  A handler  *)
(* runs on the supervisor goroutine and is one action, except where a      *)
(* crash or another goroutine can see its middle: between Spawn and the    *)
(* transaction (pc = "spawned"), and between Kill and the transaction      *)
(* (pc = "killed").                                                        *)
(***************************************************************************)
EXTENDS Naturals, Sequences, FiniteSets

CONSTANTS
  Clients,         \* concurrent IPC clients
  UserActions,     \* the actions they take: subset of user_pause/resume/stop
  Outcomes,        \* detection outcomes an attempt's output can have
  OnUnknown,       \* retry.on_unknown: "retry" or "fail"
  OnInterrupt,     \* retry.on_interrupt: "resume_now" or "backoff"
  MaxAttempts,     \* retry.max_attempts, 0 = unlimited
  OtherCaps,       \* TRUE: retry.deadline or retry.max_total_wait is set
  ProbeConfigured, \* TRUE: an availability probe is configured
  ChanCap,         \* capacity of the supervisor's event channel
  \* bounds on the environment:
  MaxUser,         \* accepted client requests
  MaxCrashes,      \* daemon crashes
  MaxShutdowns,    \* graceful shutdowns
  MaxFaults,       \* failing calls (spawn, kill, database)
  MaxSteps         \* backward steps of the wall clock

\* RATE_LIMIT stands for the retryable outcomes other than quota (SESSION_LIMIT
\* and TRANSIENT_ERROR are treated alike); RATE_LIMIT and UNKNOWN differ in
\* on_unknown only.
AllOutcomes == {"SUCCESS", "FATAL_ERROR", "UNKNOWN", "QUOTA_EXHAUSTED", "RATE_LIMIT"}
AllUserActions == {"user_pause", "user_resume", "user_stop"}

ASSUME SupervisorAssumption ==
  /\ IsFiniteSet(Clients)
  /\ UserActions \subseteq AllUserActions
  /\ Outcomes \subseteq AllOutcomes
  /\ OnUnknown \in {"retry", "fail"}
  /\ OnInterrupt \in {"resume_now", "backoff"}
  /\ OtherCaps \in BOOLEAN /\ ProbeConfigured \in BOOLEAN
  /\ MaxAttempts \in Nat
  /\ ChanCap \in Nat \ {0}
  /\ {MaxUser, MaxCrashes, MaxShutdowns, MaxFaults, MaxSteps} \subseteq Nat

VARIABLES
  \* durable
  row,          \* the tasks row
  attempts,     \* the attempts rows, by attempt_no: "open" or how it ended
  \* the operating system
  procs,        \* every child ever spawned: its attempt_no and its state
  due,          \* the wall clock against next_wake_at
  \* the daemon process (all lost in a crash)
  daemon,       \* "up", "stopping", "closing", "down"
  pc,           \* the supervisor goroutine; "off": no runtime registered
  task,         \* s.task
  cur,          \* s.currentAttempt's attempt_no, 0 = nil
  waitingSince, \* s.waitingSince is set
  events,       \* s.events
  handle,       \* rt.proc / rt.pty: index in procs, 0 = nil
  timer,        \* the Task's entry in the wake timers: the wait it serves
  firing,       \* waits whose timer callback is in flight
  prober,       \* s.prober: the wait it was started for, 0 = nil
  probes,       \* prober goroutines by wait: "polling" or "posting"
  req,          \* what each client's request has been accepted for
  used          \* how much of each bound has been used

durable == <<row, attempts>>
timers == <<timer, firing>>
probing == <<prober, probes>>
goroutine == <<pc, task, cur, waitingSince>>
vars == <<row, attempts, procs, due, daemon, pc, task, cur, waitingSince, events,
          handle, timer, firing, prober, probes, req, used>>

INSTANCE WakeTimer WITH Tokens <- Nat \ {0}, NoTimer <- 0

-----------------------------------------------------------------------------
\* Vocabulary

Statuses == {"PENDING", "RUNNING", "WAITING", "PAUSED", "SUCCEEDED", "FAILED", "STOPPED"}
Terminal(s) == s \in {"SUCCEEDED", "FAILED", "STOPPED"}

EventTypes == {"start", "timer_fire", "attempt_exit", "availability_ok"} \cup AllUserActions

\* src is the child that exited, or the wait the timer or probe was started
\* for; the code's events carry no such identity.
Event(type, src) == [type |-> type, src |-> src]

\* The states in which Handle does not ignore an event.
Accepts ==
  [start           |-> {"PENDING"},
   timer_fire      |-> {"WAITING"},
   availability_ok |-> {"WAITING"},
   user_resume     |-> {"PAUSED", "WAITING"},
   attempt_exit    |-> {"RUNNING", "PAUSED"},
   user_pause      |-> {"RUNNING", "WAITING"},
   user_stop       |-> {s \in Statuses : ~Terminal(s)}]

\* Mutant: a resume also applies to a RUNNING task.
AppliesWhileRunning(e) ==
  /\ task.status \in Accepts[e.type] \cup (IF e.type = "user_resume" THEN {"RUNNING"} ELSE {})
  /\ e.type = "timer_fire" => due = "due"

\* A timer_fire is also ignored before next_wake_at.
Applies(e) == /\ task.status \in Accepts[e.type]
              /\ e.type = "timer_fire" => due = "due"

\* The states from which the daemon accepts a client's action.
ValidFrom ==
  [user_resume |-> {"WAITING", "PAUSED"},
   user_pause  |-> {"RUNNING", "WAITING"},
   user_stop   |-> {"PENDING", "RUNNING", "WAITING", "PAUSED"}]

Retryable(o) == /\ o \notin {"SUCCESS", "FATAL_ERROR"}
                /\ ~(o = "UNKNOWN" /\ OnUnknown = "fail")

OneTooMany == MaxAttempts # 0 /\ task.total > MaxAttempts \* mutant: > for >=

\* ExceededCap.  When a deadline or a total wait is configured, whether it is
\* exceeded now depends on the clock and is left open.
MaxAttemptsHit == MaxAttempts # 0 /\ task.total >= MaxAttempts
CapExceeded(hit) == hit \in {MaxAttemptsHit} \cup (IF OtherCaps THEN {TRUE} ELSE {})

ToKeepingWake(t, s) == [t EXCEPT !.status = s] \* mutant: NextWakeAt is not reset

\* next := *s.task; next.Status = s; next.NextWakeAt = nil
To(t, s) == [t EXCEPT !.status = s, !.wake = FALSE]

AccountAlways(t) == [t EXCEPT !.waits = @ + 1] \* mutant: no guard

\* CumulativeWaitMS as the number of waits it has taken into account.
AccountWait(t) == IF t.status = "WAITING" /\ waitingSince
                  THEN [t EXCEPT !.waits = @ + 1] ELSE t

\* persistAttempt: write the outcome into the open attempt the supervisor
\* knows, if any.
Closed(o) == IF cur = 0 THEN attempts ELSE [attempts EXCEPT ![cur] = o]

KillsNothing == procs \* mutant: no signal is sent

\* rt.kill: SIGKILL to the process group of the child the runtime holds.
KillHandle == IF handle # 0 /\ procs[handle].st = "alive"
              THEN [procs EXCEPT ![handle].st = "killed"] ELSE procs

\* Requests are served, and transactions commit.
Serving == daemon \in {"up", "stopping"}

\* A failing call, within the bound.
Fault == used.fault < MaxFaults /\ used' = [used EXCEPT !.fault = @ + 1]

\* A transaction also fails once the root context is cancelled.
PersistFails == IF daemon = "closing" THEN UNCHANGED used ELSE Fault

\* The wait that is now in progress, as a name for its timer and its prober.
Wait == task.total

-----------------------------------------------------------------------------
\* The supervisor goroutine

Row == [status : Statuses, total : Nat, wake : BOOLEAN, waits : Nat]
Proc == [no : Nat \ {0}, st : {"alive", "killed", "exited", "cleared", "gone", "orphan"}]
Events == [type : EventTypes, src : Nat]
WaitNo == Nat \ {0}

StoreTypeOK == /\ row \in Row
               /\ attempts \in Seq({"open", "INTERRUPTED"} \cup AllOutcomes)
ProcessTypeOK == /\ procs \in Seq(Proc)
                 /\ handle \in 0 .. Len(procs)
SupervisorTypeOK == /\ pc \in {"off", "select", "spawned", "killed", "failed"}
                    /\ task \in Row
                    /\ cur \in 0 .. Len(attempts)
                    /\ waitingSince \in BOOLEAN
                    /\ events \in Seq(Events) /\ Len(events) <= ChanCap
WakeUpTypeOK == /\ due \in {"early", "ripe", "due"}
                /\ timer \in Nat /\ firing \subseteq WaitNo
                /\ prober \in Nat /\ probes \subseteq (WaitNo \X {"polling", "posting"})
DaemonTypeOK == /\ daemon \in {"up", "stopping", "closing", "down"}
                /\ req \in [Clients -> AllUserActions \cup {"none"}]
                /\ used \in [user : 0 .. MaxUser, resume : Nat, crash : 0 .. MaxCrashes,
                             shutdown : 0 .. MaxShutdowns, fault : 0 .. MaxFaults,
                             step : 0 .. MaxSteps]

TypeOK == /\ StoreTypeOK /\ ProcessTypeOK /\ SupervisorTypeOK
          /\ WakeUpTypeOK /\ DaemonTypeOK

\* handleCreate has inserted the row, started the runtime and posted the start.
Init ==
  /\ row = [status |-> "PENDING", total |-> 0, wake |-> FALSE, waits |-> 0]
  /\ task = row
  /\ attempts = <<>> /\ procs = <<>>
  /\ due = "early"
  /\ daemon = "up" /\ pc = "select"
  /\ cur = 0 /\ waitingSince = FALSE
  /\ events = <<Event("start", 0)>>
  /\ handle = 0
  /\ TimerInit
  /\ prober = 0 /\ probes = {}
  /\ req = [c \in Clients |-> "none"]
  /\ used = [user |-> 0, resume |-> 0, crash |-> 0, shutdown |-> 0, fault |-> 0, step |-> 0]

\* Mutant: a send that drops instead of waiting for room.
PostDropping(e) ==
  IF pc # "off" /\ Len(events) < ChanCap THEN events' = Append(events, e) ELSE UNCHANGED events

\* postEvent: dropped when there is no runtime, blocked while the channel is
\* full, given up when the root context ends.
Post(e) == \/ /\ pc # "off" /\ Len(events) < ChanCap
              /\ events' = Append(events, e)
           \/ /\ pc = "off" \/ daemon = "closing"
              /\ UNCHANGED events

\* Run receives the next event and Handle decides that it applies.
Take(type) ==
  /\ pc = "select" /\ ~Terminal(task.status)
  /\ events # <<>> /\ Head(events).type = type /\ Applies(Head(events))
  /\ events' = Tail(events)

Ignore ==
  /\ pc = "select" /\ ~Terminal(task.status)
  /\ events # <<>> /\ ~Applies(Head(events))
  /\ events' = Tail(events)
  /\ UNCHANGED <<durable, procs, due, daemon, goroutine, handle, timers, probing, req, used>>

\* Mutant: memory is not replaced after the commit.
CommitRowsOnly(next, rows) == row' = next /\ attempts' = rows /\ UNCHANGED task

\* The transaction commits and replaces s.task.
Commit(next, rows) == row' = next /\ task' = next /\ attempts' = rows

\* The handler returns an error, which ends Run.
Fails == pc' = "failed" /\ UNCHANGED durable

KeepProber == UNCHANGED probing \* mutant: s.prober is not reset
StopProber == prober' = 0 /\ UNCHANGED probes

\* wake: disarm the timer, stop the prober, account the wait.  EventStart goes
\* to spawnAttempt directly.
Wakes == {"timer_fire", "availability_ok", "user_resume"}

BeginAttempt ==
  \/ Take("start") /\ UNCHANGED <<timers, probing, waitingSince>>
  \/ \E w \in Wakes : Take(w) /\ CancelTimer /\ StopProber /\ waitingSince' = FALSE

\* spawnAttempt up to Spawn, which starts the child and sets rt.proc.
Spawn ==
  /\ BeginAttempt
  /\ procs' = Append(procs, [no |-> task.total + 1, st |-> "alive"])
  /\ handle' = Len(procs) + 1
  /\ task' = AccountWait(task)
  /\ pc' = "spawned"
  /\ UNCHANGED <<durable, due, daemon, cur, req, used>>

\* The rest of spawnAttempt: the RUNNING transition and the attempt row.
CommitSpawn ==
  /\ pc = "spawned"
  /\ Commit([To(task, "RUNNING") EXCEPT !.total = @ + 1], Append(attempts, "open"))
  /\ cur' = task.total + 1
  /\ pc' = "select"
  /\ due' = "early"
  /\ UNCHANGED <<procs, daemon, waitingSince, events, handle, timers, probing, req, used>>

CommitSpawnFails ==
  /\ pc = "spawned" /\ PersistFails
  /\ Fails
  /\ procs' = KillHandle
  /\ UNCHANGED <<due, daemon, task, cur, waitingSince, events, handle, timers, probing, req>>

\* buildCommand or Spawn fails: the task FAILS; if AttemptFiles fails (or the
\* FAILED transition cannot be committed) the supervisor ends.
SpawnFails ==
  /\ Fault
  /\ BeginAttempt
  /\ \/ /\ Commit(To(AccountWait(task), "FAILED"), attempts)
        /\ due' = "early"
        /\ UNCHANGED pc
     \/ /\ Fails
        /\ task' = AccountWait(task)
        /\ UNCHANGED due
  /\ UNCHANGED <<procs, daemon, cur, handle, req>>

\* attemptExit: a terminal outcome, or a retryable one that exceeds a cap.
Finish(s) ==
  /\ Take("attempt_exit") /\ task.status = "RUNNING"
  /\ \E o \in Outcomes :
       /\ \/ s = "SUCCEEDED" /\ o = "SUCCESS"
          \/ s = "FAILED" /\ o # "SUCCESS" /\ (Retryable(o) => CapExceeded(TRUE))
       /\ Commit(To(task, s), Closed(o))
  /\ UNCHANGED <<procs, due, daemon, pc, cur, waitingSince, handle, timers, probing, req, used>>

\* attemptExit: schedule the next attempt.
Schedule ==
  /\ Take("attempt_exit") /\ task.status = "RUNNING"
  /\ CapExceeded(FALSE)
  /\ \E o \in Outcomes :
       /\ Retryable(o)
       /\ Commit([task EXCEPT !.status = "WAITING", !.wake = TRUE], Closed(o))
       /\ IF o = "QUOTA_EXHAUSTED" /\ ProbeConfigured /\ prober = 0
          THEN prober' = Wait /\ probes' = probes \cup {<<Wait, "polling">>}
          ELSE UNCHANGED probing
  /\ waitingSince' = TRUE
  /\ ArmTimer(Wait)
  /\ due' = "early"
  /\ UNCHANGED <<procs, daemon, pc, cur, handle, req, used>>

\* recordPausedExit
RecordPausedExit ==
  /\ Take("attempt_exit") /\ task.status = "PAUSED"
  /\ \E o \in Outcomes : Commit(task, Closed(o))
  /\ UNCHANGED <<procs, due, daemon, pc, cur, waitingSince, handle, timers, probing, req, used>>

\* The transaction of an attempt exit fails: nothing else has happened yet.
ExitFails ==
  /\ PersistFails
  /\ Take("attempt_exit")
  /\ Fails
  /\ UNCHANGED <<procs, due, daemon, task, cur, waitingSince, handle, timers, probing, req>>

\* pause
Pause ==
  /\ Take("user_pause")
  /\ CancelTimer /\ StopProber
  /\ waitingSince' = FALSE
  /\ \/ /\ Commit(To(AccountWait(task), "PAUSED"), attempts)
        /\ due' = "early"
        /\ UNCHANGED <<pc, used>>
     \/ PersistFails /\ Fails /\ UNCHANGED <<task, due>>
  /\ UNCHANGED <<procs, daemon, cur, handle, req>>

\* stop, up to Kill; a Kill that fails ends the supervisor.
StopKill ==
  /\ Take("user_stop")
  /\ CancelTimer /\ StopProber
  /\ \/ /\ procs' = IF task.status \in {"RUNNING", "PAUSED"} THEN KillHandle ELSE procs
        /\ pc' = "killed"
        /\ UNCHANGED <<durable, used>>
     \/ /\ task.status \in {"RUNNING", "PAUSED"} /\ Fault
        /\ Fails
        /\ UNCHANGED procs
  /\ UNCHANGED <<due, daemon, task, cur, waitingSince, handle, req>>

\* the rest of stop
CommitStop ==
  /\ pc = "killed"
  /\ \/ /\ Commit(To(task, "STOPPED"), attempts)
        /\ pc' = "select" /\ due' = "early"
        /\ UNCHANGED used
     \/ PersistFails /\ Fails /\ UNCHANGED <<task, due>>
  /\ UNCHANGED <<procs, daemon, cur, waitingSince, events, handle, timers, probing, req>>

\* Mutant: Run does not watch its context.
RunReturnsAtEndOnly ==
  /\ \/ pc = "failed"
     \/ pc = "select" /\ Terminal(task.status)
  /\ pc' = "off" /\ task' = row /\ cur' = 0 /\ waitingSince' = FALSE
  /\ events' = <<>> /\ prober' = 0 /\ probes' = {}
  /\ UNCHANGED <<durable, procs, due, daemon, handle, timers, req, used>>

\* Run returns and startRuntime's goroutine cancels the task's context (which
\* ends its probers) and deletes the runtime.
RunReturns ==
  /\ \/ pc = "failed"
     \/ pc = "select" /\ (Terminal(task.status) \/ daemon = "closing")
  /\ pc' = "off" /\ task' = row /\ cur' = 0 /\ waitingSince' = FALSE
  /\ events' = <<>>
  /\ prober' = 0 /\ probes' = {}
  /\ UNCHANGED <<durable, procs, due, daemon, handle, timers, req, used>>

SupervisorStep ==
  \/ Ignore
  \/ Spawn \/ CommitSpawn
  \/ \E s \in {"SUCCEEDED", "FAILED"} : Finish(s)
  \/ Schedule \/ RecordPausedExit
  \/ Pause \/ StopKill \/ CommitStop
  \/ RunReturns

SupervisorFault == CommitSpawnFails \/ SpawnFails \/ ExitFails

-----------------------------------------------------------------------------
\* The child process and the goroutine that waits for it

ChildExit(p) ==
  /\ procs[p].st \in {"alive", "killed", "orphan"}
  /\ procs' = [procs EXCEPT ![p].st = IF @ = "orphan" THEN "gone" ELSE "exited"]
  /\ UNCHANGED <<durable, due, daemon, goroutine, events, handle, timers, probing, req, used>>

\* proc.Wait returns; rt.setProc(nil), whatever the runtime holds by now.
Reap(p) ==
  /\ procs[p].st = "exited"
  /\ procs' = [procs EXCEPT ![p].st = "cleared"]
  /\ handle' = 0
  /\ UNCHANGED <<durable, due, daemon, goroutine, events, timers, probing, req, used>>

\* then the exit is posted.
PostExit(p) ==
  /\ procs[p].st = "cleared"
  /\ procs' = [procs EXCEPT ![p].st = "gone"]
  /\ Post(Event("attempt_exit", p))
  /\ UNCHANGED <<durable, due, daemon, goroutine, handle, timers, probing, req, used>>

-----------------------------------------------------------------------------
\* The clock, the wake timer and the prober

\* Time passes next_wake_at.
Tick ==
  /\ row.status = "WAITING" /\ due # "due"
  /\ due' = "due"
  /\ UNCHANGED <<durable, procs, daemon, goroutine, events, handle, timers, probing, req, used>>

\* The wall clock is set back: the timer, which runs on the monotonic clock,
\* may now expire while now < next_wake_at.  This happens to a wake time that
\* carries no monotonic reading: one parsed from the provider's output or
\* reloaded from the store.  Which waits have one is left open.
StepBack ==
  /\ row.status = "WAITING" /\ due # "ripe"
  /\ used.step < MaxSteps
  /\ used' = [used EXCEPT !.step = @ + 1]
  /\ due' = "ripe"
  /\ UNCHANGED <<durable, procs, daemon, goroutine, events, handle, timers, probing, req>>

TimerExpires ==
  /\ due # "early"
  /\ ClaimTimer
  /\ UNCHANGED <<durable, procs, due, daemon, goroutine, events, handle, probing, req, used>>

\* onTimerFire
PostTimerFire(w) ==
  /\ DeliverFire(w)
  /\ Post(Event("timer_fire", w))
  /\ UNCHANGED <<durable, procs, due, daemon, goroutine, handle, probing, req, used>>

\* Probe succeeds.  The goroutine may have been cancelled meanwhile: it only
\* looks at p.cancel in its two selects.
ProbeSucceeds(w) ==
  /\ <<w, "polling">> \in probes
  /\ probes' = (probes \ {<<w, "polling">>}) \cup {<<w, "posting">>}
  /\ UNCHANGED <<durable, procs, due, daemon, goroutine, events, handle, timers, prober, req, used>>

\* The select that posts: the channel has room, or p.cancel is closed; when
\* both are ready either is taken.
PostAvailability(w) ==
  /\ <<w, "posting">> \in probes
  /\ probes' = probes \ {<<w, "posting">>}
  /\ \/ /\ Len(events) < ChanCap
        /\ events' = Append(events, Event("availability_ok", w))
     \/ /\ prober # w \/ daemon = "closing"
        /\ UNCHANGED events
  /\ UNCHANGED <<durable, procs, due, daemon, goroutine, handle, timers, prober, req, used>>

\* A cancelled goroutine ends in its first select.
ProberEnds(w) ==
  /\ <<w, "polling">> \in probes /\ (prober # w \/ daemon = "closing")
  /\ probes' = probes \ {<<w, "polling">>}
  /\ UNCHANGED <<durable, procs, due, daemon, goroutine, events, handle, timers, prober, req, used>>

Waits == {pr[1] : pr \in probes}

-----------------------------------------------------------------------------
\* Clients

\* handleAction: the transition is legal from the state in the store ...  A
\* request that has been read is still served while the daemon is stopping; once
\* it closes, the read of the store fails.
Accept(c, a) ==
  /\ Serving /\ req[c] = "none"
  /\ used.user < MaxUser
  /\ used' = [used EXCEPT !.user = @ + 1,
                          !.resume = IF a = "user_resume" THEN @ + 1 ELSE @]
  /\ row.status \in ValidFrom[a]
  /\ req' = [req EXCEPT ![c] = a]
  /\ UNCHANGED <<durable, procs, due, daemon, goroutine, events, handle, timers, probing>>

\* ... and then the event is posted.
PostUser(c) ==
  /\ req[c] # "none"
  /\ Post(Event(req[c], 0))
  /\ req' = [req EXCEPT ![c] = "none"]
  /\ UNCHANGED <<durable, procs, due, daemon, goroutine, handle, timers, probing, used>>

-----------------------------------------------------------------------------
\* The daemon process

\* daemon.shutdown or a signal: serving ends, and with stop_children every
\* child is killed first.
Shutdown ==
  /\ daemon = "up" /\ used.shutdown < MaxShutdowns
  /\ used' = [used EXCEPT !.shutdown = @ + 1]
  /\ daemon' = "stopping"
  /\ procs' \in {procs, IF pc = "off" THEN procs ELSE KillHandle}
  /\ UNCHANGED <<durable, due, goroutine, events, handle, timers, probing, req>>

\* Serve has returned, which waits for no request in progress; Close cancels the
\* root context and stops the timers.
BeginClose ==
  /\ daemon = "stopping"
  /\ daemon' = "closing"
  /\ CancelTimer
  /\ UNCHANGED <<durable, procs, due, goroutine, events, handle, probing, req, used>>

\* Everything the daemon process holds in memory is gone.
LoseMemory ==
  /\ daemon' = "down"
  /\ pc' = "off" /\ task' = row /\ cur' = 0 /\ waitingSince' = FALSE
  /\ events' = <<>> /\ handle' = 0
  /\ timer' = 0 /\ firing' = {}
  /\ prober' = 0 /\ probes' = {}
  /\ req' = [c \in Clients |-> "none"]

\* wg.Wait: the supervisor loop and every goroutine waiting for a child.
Waited == /\ pc = "off"
          /\ \A p \in DOMAIN procs : procs[p].st \in {"gone", "orphan"}

CloseReturns ==
  /\ daemon = "closing" /\ Waited
  /\ LoseMemory
  /\ UNCHANGED <<durable, procs, due, used>>

\* The process dies.  Children are in process groups of their own and live on,
\* but nothing waits for them any more.
Crash ==
  /\ daemon # "down" /\ used.crash < MaxCrashes
  /\ used' = [used EXCEPT !.crash = @ + 1]
  /\ LoseMemory
  /\ procs' = [p \in DOMAIN procs |->
                 [procs[p] EXCEPT !.st = IF @ \in {"alive", "orphan"} THEN "orphan" ELSE "gone"]]
  /\ UNCHANGED <<durable, due>>

OpenAttempts == {n \in DOMAIN attempts : attempts[n] = "open"}

\* Mutant: every attempt is marked, the ended ones too.
InterruptedAll == [n \in DOMAIN attempts |-> "INTERRUPTED"]

\* recoverInterrupted closes the first open attempt it lists, if there is one.
Interrupted ==
  [n \in DOMAIN attempts |->
     IF n \in OpenAttempts /\ \A m \in OpenAttempts : n <= m
     THEN "INTERRUPTED" ELSE attempts[n]]

\* The runtime startRuntime builds: an empty supervisor for the row.
FreshRuntime(r) == pc' = "select" /\ task' = r /\ UNCHANGED <<cur, waitingSince>>

\* reconcileTask, by the status it finds.
ReconcileRunning ==
  /\ row.status = "RUNNING"
  /\ row' = [row EXCEPT !.status = "WAITING", !.wake = TRUE]
  /\ attempts' = Interrupted
  /\ FreshRuntime(row')
  /\ ArmTimer(row.total)
  /\ due' = IF OnInterrupt = "resume_now" THEN "due" ELSE "early"
  /\ UNCHANGED <<events, used>>

\* Mutant: the restart does not re-arm a WAITING task.
ReconcileWaitingUnarmed ==
  /\ row.status = "WAITING"
  /\ FreshRuntime(row)
  /\ UNCHANGED <<durable, events, timers, due, used>>

ReconcileWaiting ==
  /\ row.status = "WAITING"
  /\ FreshRuntime(row)
  /\ ArmTimer(row.total)
  /\ due' = IF due = "due" THEN "due" ELSE "early"
  /\ UNCHANGED <<durable, events, used>>

ReconcilePending ==
  /\ row.status = "PENDING"
  /\ FreshRuntime(row)
  /\ events' = <<Event("start", 0)>>
  /\ UNCHANGED <<durable, timers, due, used>>

ReconcilePaused ==
  /\ row.status = "PAUSED"
  /\ FreshRuntime(row)
  /\ UNCHANGED <<durable, events, timers, due, used>>

\* A terminal task is skipped; an error is logged and leaves the task alone.
ReconcileNothing ==
  /\ \/ Terminal(row.status) /\ UNCHANGED used
     \/ ~Terminal(row.status) /\ Fault
  /\ UNCHANGED <<durable, goroutine, events, timers, due>>

\* runDaemon: New, then Reconcile, then serve.
Restart ==
  /\ daemon = "down" /\ daemon' = "up"
  /\ \/ ReconcileRunning \/ ReconcileWaiting \/ ReconcilePending
     \/ ReconcilePaused \/ ReconcileNothing
  /\ UNCHANGED <<procs, handle, probing, req>>

-----------------------------------------------------------------------------
Next ==
  \/ SupervisorStep \/ SupervisorFault
  \/ \E p \in DOMAIN procs : ChildExit(p) \/ Reap(p) \/ PostExit(p)
  \/ Tick \/ StepBack \/ TimerExpires
  \/ \E w \in firing : PostTimerFire(w)
  \/ \E w \in Waits : ProbeSucceeds(w) \/ PostAvailability(w) \/ ProberEnds(w)
  \/ \E c \in Clients : PostUser(c) \/ \E a \in UserActions : Accept(c, a)
  \/ Shutdown \/ BeginClose \/ CloseReturns \/ Crash \/ Restart

Spec == Init /\ [][Next]_vars

(***************************************************************************)
(* Fairness: goroutines are scheduled, timers expire, a killed process     *)
(* dies, and a daemon that is down is started again (by the service        *)
(* manager or by the next client).  Nothing obliges a client to act, a     *)
(* call to fail, the clock to be set back or the daemon to stop.           *)
(***************************************************************************)
Fairness ==
  /\ WF_vars(SupervisorStep)
  /\ WF_vars(\E p \in DOMAIN procs : Reap(p) \/ PostExit(p))
  /\ WF_vars(\E p \in DOMAIN procs : procs[p].st = "killed" /\ ChildExit(p))
  /\ WF_vars(Tick) /\ WF_vars(TimerExpires)
  /\ WF_vars(\E w \in firing : PostTimerFire(w))
  /\ WF_vars(\E w \in Waits : PostAvailability(w) \/ ProberEnds(w))
  /\ \A c \in Clients : WF_vars(PostUser(c))
  /\ WF_vars(BeginClose) /\ WF_vars(CloseReturns) /\ WF_vars(Restart)

FairSpec == Spec /\ Fairness

\* An assumption about the AI CLI, not about this code: every run of it ends.
ChildrenExit == WF_vars(\E p \in DOMAIN procs : ChildExit(p))

FairSpecChildrenExit == FairSpec /\ ChildrenExit

-----------------------------------------------------------------------------
\* Properties

Queued(e) == \E i \in DOMAIN events : events[i] = e
Undelivered(p) == \/ procs[p].st \in {"alive", "killed", "exited", "cleared"}
                  \/ Queued(Event("attempt_exit", p))

\* The two tables agree at every instant, also across crashes and failed
\* transactions: total_attempts counts the attempt rows, a RUNNING task has its
\* last attempt open, a task that SUCCEEDED has its last attempt recorded as a
\* success, and next_wake_at is set exactly while WAITING
\* (supervisor.go:224-276, 297-355, 501-518; reconcile.go:87-148).
RowsAgree ==
  /\ row.total = Len(attempts)
  /\ row.status = "RUNNING" => row.total > 0 /\ attempts[row.total] = "open"
  /\ row.status = "SUCCEEDED" => row.total > 0 /\ attempts[row.total] = "SUCCESS"
  /\ row.wake <=> row.status = "WAITING"

\* "memory and DB never diverge": whenever the supervisor is ready for an
\* event, the task it decides on is the committed one (supervisor.go:501-518,
\* against wake's in-place update at 284).
MemoryIsStore == pc \in {"select", "killed"} => task = row

\* A WAITING task that has a supervisor always has its wake-up ahead: the timer
\* armed, its callback in flight, or its event in the channel.  Otherwise it
\* would wait for ever (timer.go:61-106, supervisor.go:329-350,
\* reconcile.go:67-73).  A timer that expires while the clock is set back is
\* lost: its event is ignored and nothing is armed again.
WakeUpPending ==
  pc = "select" /\ Serving /\ task.status = "WAITING" /\ used.step = 0 =>
    \/ timer = Wait \/ Wait \in firing
    \/ Queued(Event("timer_fire", Wait))

\* A RUNNING task that has a supervisor always has the exit of the child of its
\* current attempt ahead: the exit can be delayed and reordered with user
\* events, but not lost (daemon.go:302-316, supervisor.go:192-202).
ExitPending ==
  pc = "select" /\ Serving /\ task.status = "RUNNING" =>
    \E p \in DOMAIN procs : procs[p].no = task.total /\ Undelivered(p)

\* The runtime's handle always denotes the live child, so that stop and
\* shutdown can kill it: a live child of this daemon is the one and only one
\* it holds (taskRuntime, daemon.go:65-110, 300, 309).
HandleIsLiveChild ==
  \A p \in DOMAIN procs : procs[p].st = "alive" => handle = p

\* "hard stop: kill the running child (process group) and mark STOPPED"
\* (docs/cli.md:105): no child of this daemon outlives a stop.
StopKillsChild ==
  row.status = "STOPPED" => \A p \in DOMAIN procs : procs[p].st # "alive"

\* As long as nobody pauses, a child of this daemon is in its reach, and none
\* is left when its task is STOPPED.
ChildIsInReach == HandleIsLiveChild /\ StopKillsChild

\* Once the outcome of an attempt is recorded it is never rewritten
\* (closeAttempt and persistAttempt, supervisor.go:477-499).
ClosedAttemptIsFinal ==
  [][\A n \in DOMAIN attempts : attempts[n] # "open" => attempts'[n] = attempts[n]]_vars

\* An exit is recorded in the row of the attempt whose child exited: a step that
\* writes an outcome is the delivery of that child's exit
\* (supervisor.go:121-123, 477-492).
ExitClosesItsAttempt ==
  [][\A n \in DOMAIN attempts :
       attempts'[n] # attempts[n] /\ attempts'[n] # "INTERRUPTED"
         => procs[Head(events).src].no = n]_vars

\* The row an interruption is recorded in is the interrupted attempt's
\* (recoverInterrupted and openAttempt, reconcile.go:87-164).
InterruptionClosesItsAttempt ==
  [][\A n \in DOMAIN attempts :
       attempts'[n] # attempts[n] /\ attempts'[n] = "INTERRUPTED" => n = row.total]_vars

\* As long as nobody pauses, every outcome and interruption is recorded once,
\* and in the row of the attempt it is about.
OutcomeClosesItsAttempt ==
  ClosedAttemptIsFinal /\ ExitClosesItsAttempt /\ InterruptionClosesItsAttempt

\* Every wait that ends in a new attempt, in a pause or in a failure to start
\* is accounted exactly once, and nothing else is: cumulative_wait_ms feeds the
\* max_total_wait cap (supervisor.go:283-286, 389-392).
CountsWait == row'.waits = row.waits +
                (IF row.status = "WAITING" /\ row'.status \in {"RUNNING", "PAUSED", "FAILED"}
                 THEN 1 ELSE 0)
NotRestarted == used.crash = 0 /\ used.shutdown = 0

\* "cumulative time allowed to spend WAITING" (docs/configuration.md:51), of
\* every wait, whether the daemon was restarted during it or not.
WaitIsAccounted == [][CountsWait]_vars

\* What the code keeps of it: as long as the daemon has not been restarted, no
\* order of events, pauses and failed transactions counts a wait twice or not
\* at all.
WaitIsAccountedByOneDaemon == [][NotRestarted => CountsWait]_vars

\* A task makes at most max_attempts attempts, plus one for every resume a user
\* asks for and one for every time the daemon goes down, and none for a pause or
\* a stop: those two ways into a new attempt are not subject to the caps (caps.go:37-40, supervisor.go:186-190,
\* 321-327; reconcile.go:87-148).
AttemptsAreBounded ==
  MaxAttempts # 0 =>
    row.total <= MaxAttempts + used.resume + used.crash + used.shutdown

\* As long as the daemon has not been restarted, a task that waits for quota is
\* probed, or its probe has already reported: the prober it holds is that of
\* this wait, not one forgotten by an earlier wait (supervisor.go:351-353,
\* probe.go:17-57).
QuotaWaitIsProbed ==
  NotRestarted /\ pc = "select" /\ ProbeConfigured /\ task.status = "WAITING"
    /\ attempts[task.total] = "QUOTA_EXHAUSTED" => prober = Wait

\* A task that has a supervisor and has not begun has its start ahead, also when
\* the daemon that created it died before it was handled (methods.go:281-288,
\* reconcile.go:60-65): whatever comes before it, but a stop, which ends the task,
\* leaves the task as it is and the start in the channel.
StartPending ==
  pc = "select" /\ Serving /\ task.status = "PENDING" => Queued(Event("start", 0))

\* Whatever a task that has a supervisor lives on is on its way, in every order
\* of events, crashes and failures: its start, its wake-up, the exit of its
\* child and, as long as the daemon has not been restarted, the probing of the
\* quota it waits for.
AwaitedIsComing == StartPending /\ WakeUpPending /\ ExitPending /\ QuotaWaitIsProbed

\* "the Provider child is gone (its parent died)": nothing of an interrupted
\* attempt is left when its task is handed to a new daemon.
InterruptedChildIsGone ==
  [][daemon = "down" /\ daemon' = "up" /\ row.status = "RUNNING" =>
       \A p \in DOMAIN procs : procs[p].st = "gone"]_vars

\* The lifecycle a client sees through the store.
Lifecycle == INSTANCE TaskLifecycle WITH status <- row.status, made <- row.total

\* Every step of the whole system is a step of the lifecycle or leaves it alone:
\* no late event, restart or failure brings a terminal task back, starts two
\* attempts at once or skips a state.
ImplementsLifecycle == Lifecycle!LifecycleSpec

\* A stop that was accepted stops the task, unless the task ends first or the
\* daemon does.
AcceptedStopStops ==
  \A c \in Clients :
    req[c] = "user_stop" ~> Terminal(row.status) \/ ~Serving

\* With a bound on attempts, a task ends or stays paused, whatever restarts
\* happen on the way; so every wait ends, whatever is in flight.
EveryTaskEnds == <>[](Terminal(row.status) \/ row.status = "PAUSED")

\* A graceful shutdown completes.
ShutdownCompletes == daemon = "closing" ~> daemon = "down"
=============================================================================
