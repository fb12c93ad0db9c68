------------------------------- MODULE Schedule -------------------------------
(***************************************************************************)
(* When a Task is tried again: internal/scheduler (NextWake, ExceededCap), *)
(* the policy the daemon builds for it (daemon/policy.go), the prober and  *)
(* its backing off (daemon/probe.go), and the handlers of the supervisor   *)
(* and of recovery that use them, over a numeric clock.                    *)
(*                                                                         *)
(* `Supervisor' leaves open when a wait ends and whether a cap is hit; here*)
(* time and the caps are exact, and the events of one Task arrive one by   *)
(* one.  A duration is an int64 in the code: MaxDur is the largest one, and*)
(* the sum of two wraps.  The row keeps the time spent waiting in          *)
(* milliseconds of Milli readings of the clock each, and what is left over *)
(* of a wait is lost.  Jitter is a number of quarters.                     *)
(***************************************************************************)
EXTENDS Integers

CONSTANTS
  None,           \* no time
  MaxDur,         \* largest duration
  Policies,       \* the retry policies a Task may have been created with
  ResetDelays,    \* how far ahead of an attempt's end its Reset Time may be
  Milli,          \* readings of the clock in a millisecond
  ProbeInterval,  \* availability.poll_interval
  ProbeTimeout,   \* probeTimeout, how long a probe may run
  ProbeBase,      \* probeBackoffBase
  ProbeMax,       \* probeBackoffMax
  MaxNow,         \* bound of the clock
  MaxAttemptNo,   \* bound of the attempts
  MaxCrashes      \* bound of the crashes

(* The retry part of a Task's configuration snapshot. A deadline is        *)
(* [kind |-> "relative" or "absolute", at |-> time] or None.               *)
Deadlines == [kind : {"relative", "absolute"}, at : Nat]

Policy == [base : Nat, factor : Nat, max : Nat, jitter : 0..4, buffer : Nat,
           maxAttempts : Nat, deadline : Deadlines \union {None},
           maxTotalWait : Nat, onInterrupt : {"resume_now", "backoff"},
           probe : BOOLEAN]  \* availability.command is set

ASSUME ScheduleAssumption ==
  /\ None \notin Int /\ None \notin Deadlines
  /\ MaxDur \in Nat /\ Policies \subseteq Policy
  /\ ResetDelays \subseteq Nat
  /\ Milli \in Nat \ {0}
  /\ ProbeInterval \in Nat \ {0} /\ ProbeTimeout \in Nat
  /\ ProbeBase \in Nat /\ ProbeMax \in Nat
  /\ MaxNow \in Nat /\ MaxAttemptNo \in Nat /\ MaxCrashes \in Nat

VARIABLES
  now,          \* the clock
  policy,       \* the snapshot in tasks.config_json
  daemon,       \* "up" or "down"
  deadline,     \* scheduler.Policy.Deadline of the running daemon
  status,       \* tasks.status; "ENDED" is any terminal one
  n,            \* tasks.total_attempts
  cum,          \* tasks.cumulative_wait_ms, in milliseconds
  wake,         \* tasks.next_wake_at
  since,        \* supervisor.waitingSince
  probeAt,      \* the prober's timer, None while its probe runs or without one
  probing,      \* the probes that run, also those of probers that were stopped
  failures, nextAllowed,  \* probeRunner
  freeSince,    \* since when the provider has been available again
  \* History, read by properties only.
  crashes,      \* how often the daemon has died
  promised,     \* end of the current wait by the provider's own word
  waited,       \* time really spent in WAITING
  late          \* attempts the daemon began by itself after the Task's deadline

row == <<status, n, cum, wake>>
prober == <<probeAt, probing, failures, nextAllowed>>
vars == <<now, policy, daemon, deadline, row, since, prober, freeSince,
          crashes, promised, waited, late>>

Least(a, b) == IF b < a THEN b ELSE a
Clamp(d) == Least(d, MaxDur)
Wrap(d) == IF d > MaxDur THEN d - 2 * (MaxDur + 1) ELSE d
Elapsed(t, u) == Clamp(t - u)

-----------------------------------------------------------------------------
(* The pure part.                                                          *)

Scaled(p) ==
  LET f[k \in Nat] == IF k <= 1 THEN p.base ELSE p.factor * f[k - 1]
  IN  f

BackoffFor(p, k) == Clamp(Least(Scaled(p)[k], p.max))

(* jitteredDelay: any duration between the two ends.                       *)
JitteredDelays(p, k) ==
  LET b == BackoffFor(p, k)
  IN  Clamp((b * (4 - p.jitter)) \div 4) .. Clamp((b * (4 + p.jitter)) \div 4)

ClipNothing(t, limit) == t \* mutant

Clip(t, limit) == IF limit # None /\ limit < t THEN limit ELSE t

NextWakeNoBuffer(p, limit, d, resetAt) == \* mutant
  Clip(IF resetAt # None /\ resetAt > now THEN resetAt ELSE now + d, limit)

(* NextWake with the jitter drawn as d: a Reset Time wins over the backoff.*)
NextWake(p, limit, d, resetAt) ==
  Clip(IF resetAt # None /\ resetAt > now THEN resetAt + p.buffer ELSE now + d, limit)

\* Mutants: > for >=, and the proposed wait left out.
CapAfterDeadline(p, limit, k, total, proposed) ==
  \/ p.maxAttempts # 0 /\ k >= p.maxAttempts
  \/ limit # None /\ now > limit
  \/ p.maxTotalWait # 0 /\ Wrap(total + proposed) > p.maxTotalWait
CapWithoutProposal(p, limit, k, total, proposed) ==
  \/ p.maxAttempts # 0 /\ k >= p.maxAttempts
  \/ limit # None /\ now >= limit
  \/ p.maxTotalWait # 0 /\ total > p.maxTotalWait

ExceededCap(p, limit, k, total, proposed) ==
  \/ p.maxAttempts # 0 /\ k >= p.maxAttempts
  \/ limit # None /\ now >= limit
  \/ p.maxTotalWait # 0 /\ Wrap(total + proposed) > p.maxTotalWait

(* buildPolicy: a relative deadline is anchored at the time of the call.   *)
DeadlineAt(p, t) ==
  IF p.deadline = None THEN None
  ELSE IF p.deadline.kind = "relative" THEN t + p.deadline.at ELSE p.deadline.at

\* Mutant: the delay is not capped.
BackoffDelayUncapped(k) ==
  LET d[i \in Nat] == IF i <= 1 THEN ProbeBase ELSE 2 * d[i - 1]
  IN  d[k]

(* probeRunner.backoffDelay: doubles, and stops at the first value that    *)
(* reaches the maximum.                                                    *)
Doubled[i \in Nat] ==
  IF i <= 1 THEN ProbeBase
  ELSE IF Doubled[i - 1] >= ProbeMax THEN Doubled[i - 1] ELSE 2 * Doubled[i - 1]

BackoffDelay(k) == Least(Doubled[k], ProbeMax)

-----------------------------------------------------------------------------
(* Created at time 0 and started.                                          *)
Init ==
  /\ now = 0 /\ policy \in Policies /\ daemon = "up"
  /\ deadline = DeadlineAt(policy, 0)
  /\ status = "RUNNING" /\ n = 1 /\ cum = 0 /\ wake = None /\ since = None
  /\ probeAt = None /\ probing = {} /\ failures = 0 /\ nextAllowed = 0 /\ freeSince = None
  /\ crashes = 0 /\ promised = None /\ waited = 0 /\ late = 0

(* The deadline as it was when the Task was created.                       *)
FirstDeadline == DeadlineAt(policy, 0)

Overdue == FirstDeadline # None /\ now >= FirstDeadline

(* The wait, if one is timed, up to now, in whole milliseconds.            *)
AccountedWait == IF status = "WAITING" /\ since # None
                 THEN cum + Elapsed(now, since) \div Milli ELSE cum

(* wake and spawnAttempt: the timer and the prober are stopped, the wait is*)
(* accounted, and the next attempt begins.                                 *)
StartAttempt ==
  /\ n < MaxAttemptNo
  /\ status' = "RUNNING" /\ n' = n + 1 /\ cum' = AccountedWait /\ wake' = None
  /\ since' = None /\ probeAt' = None /\ promised' = None
  /\ UNCHANGED <<now, policy, daemon, deadline, freeSince, crashes, waited>>

Fire ==
  /\ daemon = "up" /\ status = "WAITING" /\ now >= wake
  /\ StartAttempt
  /\ late' = IF Overdue THEN late + 1 ELSE late
  /\ UNCHANGED <<probing, failures, nextAllowed>>

Resume ==
  /\ daemon = "up" /\ status \in {"WAITING", "PAUSED"}
  /\ StartAttempt /\ UNCHANGED <<late, probing, failures, nextAllowed>>

(* The attempt ends for good: success, a fatal error, or a user's stop.    *)
(* The Task's context is cancelled, and with it the probes.                *)
Finish ==
  /\ daemon = "up" /\ status \in {"RUNNING", "WAITING", "PAUSED"}
  /\ status' = "ENDED" /\ wake' = None /\ promised' = None
  /\ probeAt' = None /\ probing' = {}
  /\ UNCHANGED <<now, policy, daemon, deadline, n, cum, since, failures,
                 nextAllowed, freeSince, crashes, waited, late>>

(* attemptExit with a retryable outcome: the wait is proposed, the caps are*)
(* evaluated, and the Task waits or has failed.                            *)
Retry(resetAt, quota, d) ==
  /\ daemon = "up" /\ status = "RUNNING"
  /\ LET next == NextWake(policy, deadline, d, resetAt)
     IN  IF ExceededCap(policy, deadline, n, cum * Milli, Elapsed(next, now))
         THEN /\ status' = "ENDED" /\ probing' = {}
              /\ UNCHANGED <<wake, since, probeAt, promised>>
         ELSE /\ status' = "WAITING" /\ wake' = next /\ since' = now
              /\ promised' = IF resetAt # None THEN resetAt + policy.buffer ELSE None
              /\ probeAt' = IF quota /\ policy.probe THEN now + ProbeInterval ELSE None
              /\ UNCHANGED probing
  /\ UNCHANGED <<now, policy, daemon, deadline, n, cum, failures, nextAllowed,
                 freeSince, crashes, waited, late>>

(* extractReset only returns a time after now.                             *)
Exit ==
  \E resetAt \in {None} \union {now + d : d \in ResetDelays \ {0}},
     quota \in BOOLEAN, d \in JitteredDelays(policy, n) :
       Retry(resetAt, quota, d)

Pause ==
  /\ daemon = "up" /\ status \in {"RUNNING", "WAITING"}
  /\ status' = "PAUSED" /\ cum' = AccountedWait /\ wake' = None
  /\ since' = None /\ probeAt' = None /\ promised' = None
  /\ UNCHANGED <<now, policy, daemon, deadline, n, probing, failures, nextAllowed,
                 freeSince, crashes, waited, late>>

-----------------------------------------------------------------------------
(* The prober of the current wait polls, and each poll follows the end of  *)
(* the last probe.  Stopping a prober does not end its running probe: that *)
(* one still counts the failures of the Task's probeRunner, and may post   *)
(* availability_ok into a later wait.  A probe of the n-th attempt's wait  *)
(* is known by its number.                                                 *)
ProbeDue == daemon = "up" /\ status = "WAITING" /\ probeAt # None /\ now >= probeAt

Own(p) == status = "WAITING" /\ p.of = n

(* While the prober backs off the command is not run.                      *)
Poll ==
  /\ ProbeDue
  /\ IF now < nextAllowed
     THEN probeAt' = now + ProbeInterval /\ UNCHANGED probing
     ELSE /\ probeAt' = None
          /\ probing' = probing \union
               {[of |-> n, until |-> now + ProbeTimeout, free |-> freeSince # None]}
  /\ UNCHANGED <<now, policy, daemon, deadline, row, since, failures, nextAllowed,
                 freeSince, crashes, promised, waited, late>>

(* The probe's answer is that the provider is available: the wait is cut   *)
(* short.  That of a stopped prober may be dropped, or come when no one    *)
(* waits.                                                                  *)
ProbeFinds(p) ==
  /\ freeSince # None
  /\ failures' = 0 /\ nextAllowed' = 0 /\ probing' = probing \ {p}
  /\ \/ /\ status = "WAITING" /\ StartAttempt
        /\ late' = IF Overdue THEN late + 1 ELSE late
     \/ /\ ~Own(p)
        /\ UNCHANGED <<now, policy, daemon, deadline, row, since, probeAt, freeSince,
                       crashes, promised, waited, late>>

(* It is not, or the command could not be run in time.                     *)
ProbeFails(p) ==
  /\ ~p.free
  /\ \/ failures' = 0 /\ nextAllowed' = 0
     \/ /\ failures' = failures + 1
        /\ nextAllowed' = now + BackoffDelay(failures + 1)
  /\ probing' = probing \ {p}
  /\ probeAt' = IF Own(p) THEN now + ProbeInterval ELSE probeAt
  /\ UNCHANGED <<now, policy, daemon, deadline, row, since, freeSince, crashes,
                 promised, waited, late>>

ProbeEnds ==
  daemon = "up" /\ \E p \in probing : ProbeFinds(p) \/ ProbeFails(p)

(* The provider, outside: it becomes available, and a probe begun from then*)
(* on succeeds.                                                            *)
ProviderFree ==
  /\ freeSince = None /\ freeSince' = now
  /\ UNCHANGED <<now, policy, daemon, deadline, row, since, prober, crashes,
                 promised, waited, late>>

-----------------------------------------------------------------------------
(* Timers are punctual: time does not pass one that has expired, unless the*)
(* daemon is down.                                                         *)
Tick ==
  /\ now < MaxNow
  /\ daemon = "down" \/ ~(status = "WAITING" /\ now >= wake)
  /\ ~ProbeDue
  /\ \A p \in probing : now < p.until
  /\ now' = now + 1
  /\ waited' = IF status = "WAITING" THEN waited + 1 ELSE waited
  /\ UNCHANGED <<policy, daemon, deadline, row, since, prober, freeSince, crashes,
                 promised, late>>

Crash ==
  /\ daemon = "up" /\ crashes < MaxCrashes /\ status # "ENDED"
  /\ daemon' = "down" /\ crashes' = crashes + 1
  /\ deadline' = None /\ since' = None /\ probeAt' = None /\ probing' = {}
  /\ failures' = 0 /\ nextAllowed' = 0
  /\ UNCHANGED <<now, policy, row, freeSince, promised, waited, late>>

(* Reconcile: an attempt that was running is followed by a wait, which no  *)
(* cap is evaluated for; a wait keeps the wake time of its row.  Then the  *)
(* policy is built anew.                                                   *)
Recovered(d) ==
  IF policy.onInterrupt = "resume_now" THEN now
  ELSE NextWake(policy, DeadlineAt(policy, now), d, None)

Restart ==
  /\ daemon = "down" /\ daemon' = "up"
  /\ deadline' = DeadlineAt(policy, now)
  /\ IF status = "RUNNING"
     THEN \E d \in JitteredDelays(policy, n) :
            status' = "WAITING" /\ wake' = Recovered(d) /\ UNCHANGED <<n, cum>>
     ELSE UNCHANGED row
  /\ UNCHANGED <<now, policy, since, prober, freeSince, crashes, promised, waited,
                 late>>

Next ==
  \/ Tick \/ ProviderFree
  \/ Exit \/ Finish \/ Fire \/ Resume \/ Pause
  \/ Poll \/ ProbeEnds
  \/ Crash \/ Restart

Spec == Init /\ [][Next]_vars

-----------------------------------------------------------------------------
(* Properties.                                                             *)

Times == Int \union {None}

TypeOK ==
  /\ now \in 0..MaxNow /\ policy \in Policies /\ daemon \in {"up", "down"}
  /\ deadline \in Times
  /\ status \in {"RUNNING", "WAITING", "PAUSED", "ENDED"}
  /\ n \in 1..MaxAttemptNo /\ cum \in Nat /\ wake \in Times
  /\ (status = "WAITING") <=> (wake # None)
  /\ since \in (0..now) \union {None} /\ probeAt \in Times
  /\ probing \subseteq [of : Nat, until : Nat, free : BOOLEAN]
  /\ failures \in Nat /\ nextAllowed \in Int /\ freeSince \in (0..now) \union {None}
  /\ crashes \in 0..MaxCrashes /\ promised \in Times /\ waited \in Nat
  /\ late \in Nat

(* No wait, also one whose row a new daemon has taken over, ends after the *)
(* deadline that daemon knows (NextWake clips; a restart only moves a      *)
(* deadline away).  Recovery with on_interrupt = resume_now does not look  *)
(* at the deadline: it wakes the Task at once.                             *)
WakeInsideDeadline ==
  (status = "WAITING" /\ deadline # None) =>
    \/ wake <= deadline
    \/ policy.onInterrupt = "resume_now" /\ crashes > 0 /\ promised = None

(* A wait for which the provider named its end is not cut short by the     *)
(* timer, not even across restarts, unless the deadline comes first        *)
(* (NextWake, reset_buffer).  A relative deadline that a restart has moved *)
(* is no longer the one that clipped the wait.                             *)
ResetIsAwaited ==
  [][Fire => \/ promised = None \/ now >= promised
             \/ deadline # None /\ now >= deadline
             \/ crashes > 0 /\ policy.deadline # None
                            /\ policy.deadline.kind = "relative"]_vars

(* The daemon begins at most one attempt of its own accord after a fixed   *)
(* deadline, the one a clipped wait leads to, and one more for each crash: *)
(* recovery evaluates no caps.                                             *)
LateAttemptsAreBounded ==
  (policy.deadline # None /\ policy.deadline.kind = "absolute") => late <= 1 + crashes

(* While no daemon has died, the time really spent waiting stays within    *)
(* max_total_wait but for what the row loses of each earlier wait, less    *)
(* than a millisecond: the proposed wait is part of the comparison, and    *)
(* every way out of a wait (timer, prober, pause, resume) accounts for it. *)
TotalWaitIsCapped ==
  (policy.maxTotalWait # 0 /\ crashes = 0) =>
    waited <= policy.maxTotalWait + (n - 1) * (Milli - 1)

(* A quota wait with a prober does not outlast the provider's return by    *)
(* more than the longest backing off, one poll and two probes: the one that*)
(* ran when the provider returned and had to be backed off from, and the   *)
(* one that finds it.  So it is also when failures of an earlier wait, or  *)
(* of a stopped prober's probe, are still being backed off from.           *)
Probed == probeAt # None \/ \E p \in probing : Own(p)

AvailabilityIsNoticed ==
  (status = "WAITING" /\ Probed /\ freeSince # None) =>
    now <= (IF freeSince > since THEN freeSince ELSE since)
             + ProbeMax + ProbeInterval + 2 * ProbeTimeout

(* docs/architecture.md:245, "never schedule past the deadline", of the    *)
(* deadline the Task was created with (deadline_at, "absolute cap").       *)
DeadlineIsFixed ==
  (status = "WAITING" /\ FirstDeadline # None) => wake <= FirstDeadline
===============================================================================
