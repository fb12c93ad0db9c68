---------------------------- MODULE ScheduleProofs ----------------------------
(***************************************************************************)
(* What Schedule promises holds for every policy, every length of a        *)
(* duration and, but for the cap on waiting, any number of crashes.        *)
(*                                                                         *)
(* How long a backoff is does not matter to deadlines and reset times.  It *)
(* matters to the cap and to the prober, so the two recursive functions    *)
(* are shown to have numbers for values: by the least argument that would  *)
(* be an exception, since an induction theorem cannot be instantiated.     *)
(***************************************************************************)
EXTENDS Schedule, NaturalsInduction, WellFoundedInduction, TLAPS

Typed ==
  /\ now \in Nat /\ policy \in Policy /\ daemon \in {"up", "down"}
  /\ deadline \in Times
  /\ status \in {"RUNNING", "WAITING", "PAUSED", "ENDED"}
  /\ wake \in Times /\ (status = "WAITING" <=> wake # None)
  /\ promised \in Times /\ (promised # None => status = "WAITING")
  /\ crashes \in Nat /\ late \in Nat
  /\ daemon = "down" => crashes > 0

Bounded == policy.deadline # None
Absolutely == Bounded /\ policy.deadline.kind = "absolute"

(* The deadline a daemon knows is the Task's, anchored when it was built.  *)
DeadlineKnown ==
  /\ deadline # None <=> (daemon = "up" /\ Bounded)
  /\ deadline # None => deadline <= DeadlineAt(policy, now)
  /\ deadline # None /\ Absolutely => deadline = policy.deadline.at

Hasty == policy.onInterrupt = "resume_now" /\ crashes > 0 /\ promised = None

(* A wait ends before every deadline that a later daemon may build.        *)
WakeBeforeNext ==
  status = "WAITING" /\ Bounded => wake <= DeadlineAt(policy, now) \/ Hasty

(* An attempt that the daemon may still begin after the deadline is a wait *)
(* from before it, or an interruption.                                     *)
Owing == status = "WAITING" \/ (daemon = "down" /\ status = "RUNNING")
LateIsPaid ==
  Absolutely => /\ now < policy.deadline.at => late = 0
                /\ late + (IF Owing THEN 1 ELSE 0) <= 1 + crashes

(* A wait for a named end is that long, or was clipped.                    *)
PromiseKept ==
  promised # None =>
    \/ wake >= promised
    \/ /\ Bounded
       /\ Absolutely => wake = policy.deadline.at
       /\ crashes = 0 => wake = deadline

IInv ==
  /\ Typed /\ DeadlineKnown /\ WakeInsideDeadline /\ WakeBeforeNext
  /\ LateIsPaid /\ PromiseKept

-----------------------------------------------------------------------------
LEMMA DeadlineType ==
  ASSUME NEW p \in Policy, NEW t \in Int, NEW u \in Int, t <= u
  PROVE  /\ DeadlineAt(p, t) = None <=> p.deadline = None
         /\ p.deadline # None => /\ DeadlineAt(p, t) \in Int
                                 /\ DeadlineAt(p, t) <= DeadlineAt(p, u)
                                 /\ p.deadline.kind = "absolute" =>
                                      DeadlineAt(p, t) = p.deadline.at
BY ScheduleAssumption DEF DeadlineAt, Policy, Deadlines

LEMMA NextWakeType ==
  ASSUME NEW p \in Policy, NEW limit \in Times, NEW d \in Int, now \in Nat,
         NEW resetAt \in Times
  PROVE  /\ NextWake(p, limit, d, resetAt) \in Int
         /\ limit # None => NextWake(p, limit, d, resetAt) <= limit
         /\ (resetAt # None /\ resetAt > now) =>
              \/ NextWake(p, limit, d, resetAt) = resetAt + p.buffer
              \/ limit # None /\ NextWake(p, limit, d, resetAt) = limit
BY ScheduleAssumption DEF NextWake, Clip, Times, Policy

LEMMA Jitter ==
  ASSUME NEW p, NEW k, NEW d \in JitteredDelays(p, k)
  PROVE  d \in Int
BY DEF JitteredDelays

LEMMA InitInv == Init => IInv
<1> SUFFICES ASSUME Init PROVE IInv
  OBVIOUS
<1>1. policy \in Policy
  BY ScheduleAssumption DEF Init
<1>2. Typed /\ DeadlineKnown
  BY <1>1, DeadlineType, ScheduleAssumption DEF Init, Typed, DeadlineKnown, Times, Bounded, Absolutely
<1> QED
  BY <1>1, <1>2, ScheduleAssumption DEF Init, IInv, WakeInsideDeadline, WakeBeforeNext,
     LateIsPaid, Owing, PromiseKept

(* Fire, Resume and a probe that finds the provider begin an attempt.      *)
LEMMA Begins ==
  ASSUME IInv, daemon = "up", StartAttempt, status \in {"WAITING", "PAUSED"},
         \/ late' = late
         \/ status = "WAITING" /\ late' = (IF Overdue THEN late + 1 ELSE late)
  PROVE  IInv'
<1> USE ScheduleAssumption DEF IInv
<1>1. Typed'
  BY DEF Typed, StartAttempt, Times
<1>2. DeadlineKnown'
  BY DEF DeadlineKnown, StartAttempt, Bounded, Absolutely, DeadlineAt
<1>3. LateIsPaid'
  <2>1. Absolutely => policy.deadline.at \in Int /\ FirstDeadline = policy.deadline.at
    BY DeadlineType DEF Typed, Absolutely, Bounded, FirstDeadline
  <2> QED
    BY <2>1 DEF LateIsPaid, Owing, Typed, StartAttempt, Absolutely, Bounded, Overdue
<1>4. (WakeInsideDeadline /\ WakeBeforeNext /\ PromiseKept)'
  BY DEF WakeInsideDeadline, WakeBeforeNext, PromiseKept, StartAttempt
<1> QED
  BY <1>1, <1>2, <1>3, <1>4

(* A stated reset, if there is one, lies ahead.                            *)
LEMMA ResetsAhead == \A e \in ResetDelays \ {0} : e \in Int /\ e > 0
<1>1. ResetDelays \subseteq Nat
  BY ScheduleAssumption
<1>2. TAKE e \in ResetDelays \ {0}
<1>3. e \in Nat /\ e # 0
  BY <1>1, <1>2
<1> QED
  BY <1>3, SMTT(30)

(* An attempt ends, and a wait is proposed.                                *)
LEMMA Retries == IInv /\ Exit => IInv'
<1> USE ScheduleAssumption DEF IInv
<1> SUFFICES ASSUME IInv,
                    NEW resetAt \in {None} \union {now + d : d \in ResetDelays \ {0}},
                    NEW quota \in BOOLEAN, NEW d \in JitteredDelays(policy, n),
                    Retry(resetAt, quota, d)
             PROVE  IInv'
  BY DEF Exit
<1> DEFINE next == NextWake(policy, deadline, d, resetAt)
<1>1. resetAt \in Times /\ (resetAt # None => resetAt > now) /\ d \in Int
  <2>1. \A e \in ResetDelays \ {0} : e \in Int /\ e > 0
    BY ResetsAhead
  <2>2. now \in Int /\ d \in Int
    BY Jitter DEF Typed
  <2>3. ASSUME NEW e \in ResetDelays \ {0}, resetAt = now + e
        PROVE  resetAt \in Int /\ resetAt > now
    BY <2>1, <2>2, <2>3
  <2> QED
    BY <2>2, <2>3 DEF Times
<1>2. /\ next \in Int
      /\ deadline # None => next <= deadline
      /\ resetAt # None => next = resetAt + policy.buffer \/ (deadline # None /\ next = deadline)
  BY <1>1, NextWakeType DEF Typed
<1>3. UNCHANGED <<now, policy, daemon, deadline, crashes, late>> /\ daemon = "up" /\ status = "RUNNING"
  BY DEF Retry
<1>4. promised = None /\ wake = None
  BY <1>3 DEF Typed
<1>5. policy.buffer \in Nat /\ (Bounded => policy.deadline.at \in Nat)
  BY DEF Typed, Policy, Deadlines, Bounded
<1>6. CASE status' = "ENDED" /\ UNCHANGED <<wake, promised>>
  BY <1>3, <1>4, <1>6 DEF Typed, DeadlineKnown, WakeInsideDeadline, WakeBeforeNext, LateIsPaid,
     Owing, PromiseKept, Bounded, Absolutely, DeadlineAt, Hasty
<1>7. CASE /\ ~ExceededCap(policy, deadline, n, cum * Milli, Elapsed(next, now))
           /\ status' = "WAITING" /\ wake' = next
           /\ promised' = IF resetAt # None THEN resetAt + policy.buffer ELSE None
  <2>1. Typed'
    BY <1>1, <1>2, <1>3, <1>5, <1>7 DEF Typed, Times
  <2>2. DeadlineKnown'
    BY <1>3 DEF DeadlineKnown, Bounded, Absolutely, DeadlineAt
  <2>3. deadline # None => now < deadline
    BY <1>7 DEF ExceededCap, Typed, Times
  <2>4. WakeInsideDeadline' /\ WakeBeforeNext'
    <3>1. Bounded => deadline # None
      BY <1>3 DEF DeadlineKnown
    <3>2. Bounded => DeadlineAt(policy, now) \in Int
      BY DeadlineType DEF Bounded, Typed
    <3> QED
      BY <1>2, <1>3, <1>7, <3>1, <3>2 DEF DeadlineKnown, WakeInsideDeadline, WakeBeforeNext, Bounded,
         DeadlineAt, Typed, Times
  <2>5. LateIsPaid'
    BY <1>3, <1>5, <1>7, <2>3 DEF DeadlineKnown, LateIsPaid, Owing, Absolutely, Bounded, Typed
  <2>6. PromiseKept'
    BY <1>1, <1>2, <1>3, <1>5, <1>7 DEF PromiseKept, DeadlineKnown, Absolutely, Bounded, Typed, Times
  <2> QED
    BY <2>1, <2>2, <2>4, <2>5, <2>6
<1> QED
  BY <1>6, <1>7 DEF Retry

LEMMA Restarts == IInv /\ Restart => IInv'
<1> USE ScheduleAssumption DEF IInv
<1> SUFFICES ASSUME IInv, Restart PROVE IInv'
  OBVIOUS
<1> DEFINE D == DeadlineAt(policy, now)
<1>1. D \in Times /\ (D # None <=> Bounded) /\ (Absolutely => D = policy.deadline.at)
  BY DeadlineType DEF Typed, Bounded, Absolutely, Times
<1>2. /\ UNCHANGED <<now, policy, crashes, promised, late>>
      /\ daemon = "down" /\ daemon' = "up" /\ deadline' = D
  BY DEF Restart
<1>3. DeadlineKnown'
  BY <1>1, <1>2 DEF DeadlineKnown, Bounded, Absolutely, DeadlineAt, Typed, Times
<1>4. CASE status # "RUNNING"
  <2>1. UNCHANGED row
    BY <1>4 DEF Restart
  <2> QED
    BY <1>1, <1>2, <1>3, <2>1 DEF row, Typed, WakeInsideDeadline, WakeBeforeNext, LateIsPaid, Owing,
       PromiseKept, Hasty, Absolutely, Bounded, DeadlineAt
<1>5. CASE status = "RUNNING"
  <2>1. promised = None /\ crashes > 0
    BY <1>2, <1>5 DEF Typed
  <2>2. PICK d \in JitteredDelays(policy, n) : status' = "WAITING" /\ wake' = Recovered(d)
    BY <1>5 DEF Restart
  <2>3. /\ wake' \in Int
        /\ \/ policy.onInterrupt = "resume_now"
           \/ D # None => wake' <= D
    <3>1. d \in Int /\ now \in Nat /\ policy \in Policy /\ D \in Times /\ None \in Times
      BY <1>1, Jitter DEF Typed, Times
    <3>2. LET w == NextWake(policy, D, d, None)
          IN  w \in Int /\ (D # None => w <= D)
      BY <3>1, NextWakeType
    <3> QED
      BY <2>2, <3>1, <3>2 DEF Recovered
  <2>4. Typed'
    BY <1>1, <1>2, <2>1, <2>2, <2>3 DEF Typed, Times
  <2>5. WakeInsideDeadline' /\ WakeBeforeNext'
    BY <1>1, <1>2, <2>1, <2>2, <2>3 DEF WakeInsideDeadline, WakeBeforeNext, Hasty, Bounded, DeadlineAt
  <2>6. LateIsPaid'
    BY <1>2, <1>5, <2>2 DEF LateIsPaid, Owing, Absolutely, Bounded
  <2>7. PromiseKept'
    BY <1>2, <2>1 DEF PromiseKept
  <2> QED
    BY <1>3, <2>4, <2>5, <2>6, <2>7
<1> QED
  BY <1>4, <1>5

LEMMA Ticks == IInv /\ Tick => IInv'
<1> USE ScheduleAssumption DEF IInv
<1> SUFFICES ASSUME IInv, Tick PROVE IInv'
  OBVIOUS
<1>1. /\ now' = now + 1
      /\ UNCHANGED <<policy, daemon, deadline, status, wake, crashes, promised, late>>
  BY DEF Tick, row
<1>2. Bounded => /\ DeadlineAt(policy, now) \in Int
                 /\ DeadlineAt(policy, now) <= DeadlineAt(policy, now')
                 /\ DeadlineAt(policy, now') \in Int
                 /\ policy.deadline.at \in Int
                 /\ Absolutely => DeadlineAt(policy, now) = policy.deadline.at
  <2>1. now \in Int /\ now' \in Int /\ now <= now' /\ policy \in Policy
    BY <1>1 DEF Typed
  <2> QED
    BY <2>1, DeadlineType DEF Bounded, Absolutely, Policy, Deadlines
<1>3. DeadlineAt(policy, now)' = DeadlineAt(policy, now')
  BY <1>1 DEF DeadlineAt
<1>4. Typed' /\ DeadlineKnown'
  BY <1>1, <1>2, <1>3 DEF Typed, DeadlineKnown, Bounded, Absolutely, Times
<1>5. WakeInsideDeadline' /\ WakeBeforeNext'
  BY <1>1, <1>2, <1>3 DEF WakeInsideDeadline, WakeBeforeNext, Bounded, Hasty, Typed, Times
<1>6. LateIsPaid'
  BY <1>1, <1>2 DEF LateIsPaid, Owing, Absolutely, Bounded, Typed
<1>7. PromiseKept'
  BY <1>1 DEF PromiseKept, Absolutely, Bounded
<1> QED
  BY <1>4, <1>5, <1>6, <1>7

LEMMA Crashes == IInv /\ Crash => IInv'
<1> USE ScheduleAssumption DEF IInv
<1> SUFFICES ASSUME IInv, Crash PROVE IInv'
  OBVIOUS
<1>1. /\ UNCHANGED <<now, policy, status, wake, promised, late>>
      /\ daemon = "up" /\ daemon' = "down" /\ crashes' = crashes + 1 /\ deadline' = None
  BY DEF Crash, row
<1>2. Typed' /\ DeadlineKnown'
  BY <1>1 DEF Typed, DeadlineKnown, Times, Bounded
<1>3. WakeInsideDeadline' /\ WakeBeforeNext'
  BY <1>1 DEF WakeInsideDeadline, WakeBeforeNext, Bounded, Hasty, Typed, DeadlineAt
<1>4. LateIsPaid'
  BY <1>1 DEF LateIsPaid, Owing, Absolutely, Bounded, Typed
<1>5. PromiseKept'
  BY <1>1 DEF PromiseKept, Absolutely, Bounded, Typed
<1> QED
  BY <1>2, <1>3, <1>4, <1>5

(* The ends of a wait or an attempt that lead to no other.                 *)
LEMMA Leaves ==
  ASSUME IInv, UNCHANGED <<now, policy, daemon, deadline, crashes, late>>,
         status' \in {"PAUSED", "ENDED"}, wake' = None, promised' = None
  PROVE  IInv'
BY ScheduleAssumption DEF IInv, Typed, DeadlineKnown, WakeInsideDeadline, WakeBeforeNext, LateIsPaid,
   Owing, PromiseKept, Bounded, Absolutely, DeadlineAt, Times

(* What neither the deadline nor the wait depends on.                      *)
LEMMA Others ==
  ASSUME IInv, UNCHANGED <<now, policy, daemon, deadline, status, wake, promised, crashes, late>>
  PROVE  IInv'
BY DEF IInv, Typed, DeadlineKnown, WakeInsideDeadline, WakeBeforeNext, LateIsPaid, Owing, PromiseKept,
   Hasty, Bounded, Absolutely, DeadlineAt

LEMMA Inductive == IInv /\ [Next]_vars => IInv'
<1> SUFFICES ASSUME IInv, [Next]_vars PROVE IInv'
  OBVIOUS
<1>1. CASE Fire \/ Resume
  BY <1>1, Begins DEF Fire, Resume
<1>2. CASE Exit
  BY <1>2, Retries
<1>3. CASE Finish \/ Pause
  BY <1>3, Leaves DEF Finish, Pause
<1>4. CASE Restart
  BY <1>4, Restarts
<1>5. CASE Tick
  BY <1>5, Ticks
<1>6. CASE Crash
  BY <1>6, Crashes
<1>7. CASE ProviderFree \/ Poll \/ UNCHANGED vars
  BY <1>7, Others DEF ProviderFree, Poll, vars, row
<1>8. CASE ProbeEnds
  <2>1. PICK p \in probing : ProbeFinds(p) \/ ProbeFails(p)
    BY <1>8 DEF ProbeEnds
  <2>2. CASE status = "WAITING" /\ StartAttempt
             /\ late' = IF Overdue THEN late + 1 ELSE late
    BY <1>8, <2>2, Begins DEF ProbeEnds
  <2>3. CASE UNCHANGED <<now, policy, daemon, deadline, row, promised, crashes, late>>
    BY <2>3, Others DEF row
  <2> QED
    BY <2>1, <2>2, <2>3 DEF ProbeFinds, ProbeFails
<1> QED
  BY <1>1, <1>2, <1>3, <1>4, <1>5, <1>6, <1>7, <1>8 DEF Next

LEMMA Invariance == Spec => []IInv
<1> QED
  BY InitInv, Inductive, PTL DEF Spec

(* No wait ends after the deadline the daemon knows, whatever the policy,  *)
(* the jitter, the reset times and the restarts (wake.go, NextWake).       *)
THEOREM WakeAlwaysInsideDeadline == Spec => []WakeInsideDeadline
<1>1. IInv => WakeInsideDeadline
  BY DEF IInv
<1> QED
  BY <1>1, Invariance, PTL

(* After an absolute deadline the daemon begins at most one attempt of its *)
(* own accord, and one more for each crash (caps.go, ExceededCap).         *)
THEOREM LateAttemptsAreAlwaysBounded == Spec => []LateAttemptsAreBounded
<1>1. IInv => LateAttemptsAreBounded
  BY DEF IInv, LateIsPaid, LateAttemptsAreBounded, Absolutely, Bounded, Typed
<1> QED
  BY <1>1, Invariance, PTL

(* The timer does not cut short a wait for a named end, across restarts,   *)
(* unless the deadline comes first (wake.go, NextWake; reconcile.go:67).   *)
THEOREM ResetIsAlwaysAwaited == Spec => ResetIsAwaited
<1> DEFINE Awaited == \/ promised = None \/ now >= promised
                      \/ deadline # None /\ now >= deadline
                      \/ crashes > 0 /\ policy.deadline # None
                                     /\ policy.deadline.kind = "relative"
<1>1. IInv /\ [Next]_vars => [Fire => Awaited]_vars
  <2> SUFFICES ASSUME IInv, Fire PROVE Awaited
    OBVIOUS
  <2>1. daemon = "up" /\ status = "WAITING" /\ now >= wake /\ wake \in Int /\ now \in Int
    BY DEF Fire, IInv, Typed, Times
  <2>2. Bounded => policy.deadline.kind \in {"relative", "absolute"} /\ policy.deadline.at \in Int
    BY DEF IInv, Typed, Policy, Deadlines, Bounded
  <2> QED
    BY <2>1, <2>2 DEF IInv, Typed, PromiseKept, DeadlineKnown, Absolutely, Bounded, Times
<1> QED
  BY <1>1, Invariance, PTL DEF Spec, ResetIsAwaited

-----------------------------------------------------------------------------
(* A nonempty set of numbers has a least one.                              *)
LEMMA LeastNumber ==
  ASSUME NEW T \in SUBSET Nat, T # {}
  PROVE  \E m \in T : \A k \in T : m <= k
<1> DEFINE less == {ss \in Nat \X Nat : ss[1] < ss[2]}
<1>1. IsWellFoundedOn(less, Nat)
  BY NatLessThanWellFounded DEF OpToRel
<1> HIDE DEF less
<1>2. PICK m \in T : \A y \in T : ~(<<y, m>> \in less)
  BY <1>1, WFMin
<1>3. \A y \in T : ~(y < m)
  BY <1>2 DEF less
<1> QED
  BY <1>3

(* h is the sequence a, a, g[a], g[g[a]], ... as far as k.                 *)
Iterates(a, g, k, h) == \A i \in 0..k : h[i] = IF i <= 1 THEN a ELSE g[h[i - 1]]

LEMMA IterationsExist ==
  ASSUME NEW S, NEW a \in S, NEW g \in [S -> S], NEW n0 \in Nat
  PROVE  \E h \in [0..n0 -> S] : Iterates(a, g, n0, h)
<1> DEFINE T == {k \in Nat : ~\E h \in [0..k -> S] : Iterates(a, g, k, h)}
<1> SUFFICES ASSUME T # {} PROVE FALSE
  OBVIOUS
<1>1. PICK m \in T : \A k \in T : m <= k
  BY LeastNumber
<1>2. CASE m <= 1
  <2> DEFINE h == [i \in 0..m |-> a]
  <2>1. h \in [0..m -> S] /\ Iterates(a, g, m, h)
    BY <1>2 DEF Iterates
  <2> QED
    BY <2>1
<1>3. CASE m > 1
  <2>1. m - 1 \in Nat /\ ~(m <= m - 1)
    BY <1>3
  <2>2. PICK h \in [0..(m - 1) -> S] : Iterates(a, g, m - 1, h)
    BY <1>1, <2>1
  <2> DEFINE e == [i \in 0..m |-> IF i = m THEN g[h[m - 1]] ELSE h[i]]
  <2>3. e \in [0..m -> S]
    BY <1>3
  <2>4. ASSUME NEW i \in 0..m PROVE e[i] = IF i <= 1 THEN a ELSE g[e[i - 1]]
    <3>1. CASE i = m
      BY <1>3, <3>1
    <3>2. CASE i # m
      <4>1. i \in 0..(m - 1) /\ e[i] = h[i] /\ (~(i <= 1) => e[i - 1] = h[i - 1])
        BY <1>3, <3>2
      <4> QED
        BY <2>2, <4>1 DEF Iterates
    <3> QED
      BY <3>1, <3>2
  <2> QED
    BY <2>3, <2>4 DEF Iterates
<1> QED
  BY <1>2, <1>3

LEMMA IterationsAgree ==
  ASSUME NEW a, NEW g, NEW k \in Nat, NEW m \in Nat, k <= m,
         NEW h, NEW e, Iterates(a, g, k, h), Iterates(a, g, m, e)
  PROVE  h[k] = e[k]
<1> DEFINE T == {i \in 0..k : h[i] # e[i]}
<1> SUFFICES ASSUME T # {} PROVE FALSE
  OBVIOUS
<1>1. PICK i \in T : \A j \in T : i <= j
  <2>1. T \in SUBSET Nat
    OBVIOUS
  <2> QED
    BY <2>1, LeastNumber
<1>2. i \in 0..k /\ i \in 0..m
  OBVIOUS
<1>3. i > 1 => h[i - 1] = e[i - 1]
  <2> SUFFICES ASSUME i > 1 PROVE i - 1 \notin T /\ i - 1 \in 0..k
    OBVIOUS
  <2> QED
    BY <1>1, <1>2
<1> QED
  BY <1>2, <1>3 DEF Iterates

Iterated(S, a, g) ==
  \E f \in [Nat -> S] : \A i \in Nat : f[i] = IF i <= 1 THEN a ELSE g[f[i - 1]]

LEMMA IterationIsDefined ==
  ASSUME NEW S, NEW a \in S, NEW g \in [S -> S]
  PROVE  Iterated(S, a, g)
<1> DEFINE H(k) == CHOOSE h \in [0..k -> S] : Iterates(a, g, k, h)
           f == [k \in Nat |-> H(k)[k]]
<1>1. \A k \in Nat : H(k) \in [0..k -> S] /\ Iterates(a, g, k, H(k))
  BY IterationsExist
<1> HIDE DEF H
<1>2. f \in [Nat -> S]
  BY <1>1
<1>3. ASSUME NEW i \in Nat PROVE f[i] = IF i <= 1 THEN a ELSE g[f[i - 1]]
  <2>1. CASE i <= 1
    BY <1>1, <2>1 DEF Iterates
  <2>2. CASE i > 1
    <3>1. i - 1 \in Nat /\ i \in 0..i
      BY <2>2
    <3>2. H(i)[i] = g[H(i)[i - 1]]
      BY <1>1, <2>2, <3>1 DEF Iterates
    <3>3. H(i - 1)[i - 1] = H(i)[i - 1]
      BY <1>1, <3>1, IterationsAgree
    <3> QED
      BY <2>2, <3>1, <3>2, <3>3
  <2> QED
    BY <2>1, <2>2
<1> QED
  BY <1>2, <1>3 DEF Iterated


(* The two recursive functions of Schedule have numbers for values.        *)
LEMMA ScaledType ==
  ASSUME NEW p \in Policy
  PROVE  \A k \in Nat : Scaled(p)[k] \in Nat
<1> DEFINE g == [x \in Nat |-> p.factor * x]
           Is(d) == d = [k \in Nat |-> IF k <= 1 THEN p.base ELSE p.factor * d[k - 1]]
<1>1. p.base \in Nat /\ p.factor \in Nat
  BY DEF Policy
<1>2. g \in [Nat -> Nat]
  BY <1>1
<1>3. PICK f \in [Nat -> Nat] : \A i \in Nat : f[i] = IF i <= 1 THEN p.base ELSE g[f[i - 1]]
  <2> HIDE DEF g
  <2>1. Iterated(Nat, p.base, g)
    BY <1>1, <1>2, IterationIsDefined
  <2> QED
    BY <2>1 DEF Iterated
<1>4. Is(f)
  <2>1. \A i \in Nat : ~(i <= 1) => f[i - 1] \in Nat
    OBVIOUS
  <2>2. \A i \in Nat : f[i] = IF i <= 1 THEN p.base ELSE p.factor * f[i - 1]
    BY <1>3, <2>1
  <2> QED
    BY <2>2
<1>5. Is(Scaled(p))
  <2>1. Scaled(p) = CHOOSE d : Is(d)
    BY DEF Scaled
  <2> HIDE DEF Is
  <2> QED
    BY <1>4, <2>1
<1> DEFINE T == {i \in Nat : Scaled(p)[i] \notin Nat}
<1> SUFFICES ASSUME T # {} PROVE FALSE
  OBVIOUS
<1>6. PICK m \in T : \A j \in T : m <= j
  BY LeastNumber
<1>7. m > 1 => m - 1 \in Nat /\ Scaled(p)[m - 1] \in Nat
  BY <1>6
<1> HIDE DEF g
<1>8. Scaled(p)[m] = IF m <= 1 THEN p.base ELSE p.factor * Scaled(p)[m - 1]
  BY <1>5
<1> QED
  BY <1>1, <1>7, <1>8

(* No delay is longer than the policy's maximum with its whole jitter.     *)
LEMMA DelayBounds ==
  ASSUME NEW p \in Policy, NEW k \in Nat, NEW d \in JitteredDelays(p, k)
  PROVE  d \in Nat /\ d <= 2 * p.max
<1> DEFINE b == BackoffFor(p, k)
<1>1. p.max \in Nat /\ p.jitter \in 0..4
  BY DEF Policy
<1>2. b \in Nat /\ b <= p.max
  BY <1>1, ScaledType, ScheduleAssumption DEF BackoffFor, Clamp, Least
<1>3. b * (4 - p.jitter) \in Nat /\ b * (4 + p.jitter) \in Nat /\ b * (4 + p.jitter) <= 8 * b
  BY <1>1, <1>2
<1>4. \A x \in Nat : x \div 4 \in Nat
  OBVIOUS
<1>5. (b * (4 + p.jitter)) \div 4 <= 2 * b
  <2> DEFINE x == b * (4 + p.jitter)
  <2>1. x \in Nat /\ x <= 8 * b
    BY <1>3
  <2> HIDE DEF x, b
  <2>2. x \div 4 <= 2 * b
    BY <1>2, <2>1
  <2> QED
    BY <2>2 DEF x
<1>6. \A x \in Nat : Clamp(x) \in Nat /\ Clamp(x) <= x
  BY ScheduleAssumption DEF Clamp, Least
<1>7. d \in Clamp((b * (4 - p.jitter)) \div 4) .. Clamp((b * (4 + p.jitter)) \div 4)
  BY DEF JitteredDelays
<1> HIDE DEF b
<1> QED
  BY <1>1, <1>2, <1>3, <1>4, <1>5, <1>6, <1>7

LEMMA DoubledType == Doubled \in [Nat -> Nat]
<1> USE ScheduleAssumption
<1> DEFINE g == [x \in Nat |-> IF x >= ProbeMax THEN x ELSE 2 * x]
           Is(d) == d = [i \in Nat |-> IF i <= 1 THEN ProbeBase
                                       ELSE IF d[i - 1] >= ProbeMax THEN d[i - 1]
                                            ELSE 2 * d[i - 1]]
<1>1. g \in [Nat -> Nat]
  OBVIOUS
<1>2. PICK f \in [Nat -> Nat] : \A i \in Nat : f[i] = IF i <= 1 THEN ProbeBase ELSE g[f[i - 1]]
  <2>1. ProbeBase \in Nat
    OBVIOUS
  <2> HIDE DEF g
  <2>2. Iterated(Nat, ProbeBase, g)
    BY <1>1, <2>1, IterationIsDefined
  <2> QED
    BY <2>2 DEF Iterated
<1>3. Is(f)
  <2>1. \A i \in Nat : ~(i <= 1) => i - 1 \in Nat /\ f[i - 1] \in Nat
    OBVIOUS
  <2>2. \A i \in Nat : (IF i <= 1 THEN ProbeBase ELSE g[f[i - 1]]) =
                       (IF i <= 1 THEN ProbeBase
                        ELSE IF f[i - 1] >= ProbeMax THEN f[i - 1] ELSE 2 * f[i - 1])
    BY <2>1
  <2> QED
    BY <1>2, <2>2
<1>4. Is(Doubled)
  <2>1. Doubled = CHOOSE d : Is(d)
    BY DEF Doubled
  <2> HIDE DEF Is
  <2> QED
    BY <1>3, <2>1
<1> HIDE DEF g
<1>5. ASSUME NEW k \in Nat PROVE Doubled[k] \in Nat
  <2> DEFINE T == {i \in Nat : Doubled[i] \notin Nat}
  <2> SUFFICES ASSUME T # {} PROVE FALSE
    OBVIOUS
  <2>1. PICK m \in T : \A j \in T : m <= j
    BY LeastNumber
  <2>2. m > 1 => m - 1 \in Nat /\ Doubled[m - 1] \in Nat
    BY <2>1
  <2> QED
    BY <1>4, <2>2
<1> QED
  BY <1>4, <1>5

-----------------------------------------------------------------------------
(* The wait really spent, and its cap. A sum of durations in the range of  *)
(* an int64 does not overflow.                                             *)
NothingOverflows ==
  \A p \in Policies : p.maxTotalWait # 0 =>
    /\ p.maxTotalWait + 2 * p.max <= MaxDur
    /\ \A e \in ResetDelays : p.maxTotalWait + e + p.buffer <= MaxDur

(* What the waits before the k-th attempt may have lost in the row.        *)
Slack(k) == (k - 1) * (Milli - 1)
Kept == cum * Milli

(* The row holds the wait spent before the current one, but for what was   *)
(* lost of it, and what a wait proposed when it began still fits.          *)
WaitIsAccounted ==
  /\ cum \in Nat /\ waited \in Nat /\ waited <= policy.maxTotalWait + Slack(n)
  /\ Kept <= policy.maxTotalWait
  /\ status = "RUNNING" => Kept <= waited /\ waited - Kept <= Slack(n)
  /\ status = "PAUSED" => Kept <= waited /\ waited - Kept <= Slack(n + 1)
  /\ status = "WAITING" =>
       /\ since \in Int /\ since <= now
       /\ Kept + (now - since) <= waited /\ waited - Kept - (now - since) <= Slack(n)
       /\ now = since \/ now <= wake
       /\ Kept + (wake - since) <= policy.maxTotalWait

Capped == crashes = 0 /\ policy.maxTotalWait # 0

CapInv == policy \in Policies /\ n \in Nat \ {0} /\ (Capped => WaitIsAccounted)

LEMMA SlackGrows ==
  ASSUME NEW k \in Nat \ {0}
  PROVE  /\ Slack(k) \in Nat /\ Slack(k + 1) \in Nat
         /\ Slack(k + 1) = Slack(k) + (Milli - 1)
<1> DEFINE j == k - 1
           m == Milli - 1
<1>1. j \in Nat /\ m \in Nat
  BY ScheduleAssumption
<1>2. Slack(k) = j * m /\ Slack(k + 1) = (j + 1) * m
  BY DEF Slack
<1> HIDE DEF j, m
<1>3. j * m \in Nat /\ (j + 1) * m = j * m + m
  BY <1>1
<1>4. m = Milli - 1
  BY DEF m
<1> QED
  BY <1>1, <1>2, <1>3, <1>4

LEMMA Quotient ==
  ASSUME NEW x \in Int, NEW m \in Int, m > 0, x >= 0
  PROVE  /\ x \div m \in Nat
         /\ (x \div m) * m <= x /\ x - (x \div m) * m <= m - 1
<1>1. x = m * (x \div m) + (x % m)
  BY Z3T(20)
<1>2. x % m \in 0..(m - 1)
  BY SMTT(20)
<1>3. x \div m \in Nat
  BY SMTT(20)
<1> DEFINE q == x \div m
           r == x % m
           a == m * q
<1>4. q * m = a /\ a \in Int
  BY <1>3
<1>5. r \in Int /\ 0 <= r /\ r <= m - 1 /\ x = a + r
  BY <1>1, <1>2
<1> HIDE DEF a, r
<1>6. a <= x /\ x - a <= m - 1
  BY <1>4, <1>5
<1> QED
  BY <1>3, <1>4, <1>6

(* A duration in whole milliseconds is short of it by less than one.       *)
LEMMA Truncated ==
  ASSUME NEW x \in Nat, NEW c \in Nat
  PROVE  /\ x \div Milli \in Nat
         /\ (c + (x \div Milli)) * Milli <= c * Milli + x
         /\ c * Milli + x - (c + (x \div Milli)) * Milli <= Milli - 1
<1> DEFINE q == x \div Milli
<1>1. Milli \in Nat /\ Milli > 0
  BY ScheduleAssumption
<1>2. q \in Nat /\ q * Milli <= x /\ x - q * Milli <= Milli - 1
  BY <1>1, Quotient
<1> HIDE DEF q
<1>3. (c + q) * Milli = c * Milli + q * Milli /\ c * Milli \in Nat /\ q * Milli \in Nat
  BY <1>1, <1>2
<1>4. q = x \div Milli
  BY DEF q
<1> QED
  BY <1>1, <1>2, <1>3, <1>4

LEMMA CapInit == Init => CapInv
<1> SUFFICES ASSUME Init PROVE CapInv
  OBVIOUS
<1>1. Slack(1) \in Nat /\ n = 1 /\ cum = 0 /\ waited = 0 /\ status = "RUNNING"
  BY SlackGrows DEF Init
<1>2. Kept = 0
  BY <1>1, ScheduleAssumption DEF Kept
<1>3. policy \in Policies /\ policy.maxTotalWait \in Nat
  BY ScheduleAssumption DEF Init, Policy
<1> QED
  BY <1>1, <1>2, <1>3 DEF CapInv, WaitIsAccounted

LEMMA CapType ==
  ASSUME NothingOverflows, CapInv, Capped
  PROVE  /\ policy \in Policy /\ policy.maxTotalWait \in Nat
         /\ policy.max \in Nat /\ policy.buffer \in Nat
         /\ policy.maxTotalWait + 2 * policy.max <= MaxDur
         /\ policy.maxTotalWait <= MaxDur
         /\ \A e \in ResetDelays : /\ e \in Nat
                                   /\ policy.maxTotalWait + e + policy.buffer <= MaxDur
<1>1. policy \in Policy /\ policy \in Policies /\ ResetDelays \subseteq Nat /\ MaxDur \in Nat
  BY ScheduleAssumption DEF CapInv
<1>2. policy.maxTotalWait \in Nat /\ policy.max \in Nat /\ policy.buffer \in Nat
  BY <1>1 DEF Policy
<1> QED
  BY <1>1, <1>2 DEF NothingOverflows, Capped

(* What a wake or a pause puts in the row is the wait spent, but for the   *)
(* fraction of a millisecond.                                              *)
LEMMA Accounting ==
  ASSUME NothingOverflows, IInv, CapInv, Capped, status \in {"RUNNING", "WAITING", "PAUSED"}
  PROVE  /\ AccountedWait \in Nat /\ AccountedWait * Milli <= policy.maxTotalWait
         /\ AccountedWait * Milli <= waited
         /\ waited - AccountedWait * Milli <= Slack(n + 1)
<1>1. WaitIsAccounted
  BY DEF CapInv
<1>2. /\ Slack(n) \in Nat /\ Slack(n + 1) \in Nat /\ Slack(n + 1) = Slack(n) + (Milli - 1)
      /\ Milli \in Nat /\ Milli > 0
  BY SlackGrows, ScheduleAssumption DEF CapInv
<1>3. policy.maxTotalWait \in Nat /\ policy.maxTotalWait <= MaxDur
  BY CapType
<1>4. cum \in Nat /\ waited \in Nat /\ Kept \in Nat /\ Kept = cum * Milli
  BY <1>1, <1>2 DEF WaitIsAccounted, Kept
<1>5. CASE status = "WAITING"
  <2> DEFINE x == now - since
  <2>1. /\ now \in Int /\ since \in Int /\ wake \in Int /\ since # None
        /\ x \in Nat /\ Kept + x <= waited /\ waited - Kept - x <= Slack(n)
        /\ now = since \/ now <= wake
        /\ Kept + (wake - since) <= policy.maxTotalWait /\ Kept <= policy.maxTotalWait
    BY <1>1, <1>5, ScheduleAssumption DEF WaitIsAccounted, IInv, Typed, Times
  <2>2. Kept + x <= policy.maxTotalWait /\ x <= MaxDur
    <3>1. Kept \in Nat /\ MaxDur \in Nat /\ policy.maxTotalWait \in Nat
      BY <1>3, <1>4, ScheduleAssumption
    <3>2. Kept + x <= policy.maxTotalWait
      <4>1. CASE now = since
        BY <2>1, <3>1, <4>1
      <4>2. CASE now <= wake
        BY <2>1, <3>1, <4>2
      <4> QED
        BY <2>1, <4>1, <4>2
    <3> QED
      BY <1>3, <2>1, <3>1, <3>2
  <2>3. Elapsed(now, since) = x
    BY <2>1, <2>2, ScheduleAssumption DEF Elapsed, Clamp, Least
  <2>4. AccountedWait = cum + (x \div Milli)
    BY <1>5, <2>1, <2>3 DEF AccountedWait
  <2> HIDE DEF x
  <2>5. /\ x \div Milli \in Nat
        /\ (cum + (x \div Milli)) * Milli <= Kept + x
        /\ Kept + x - (cum + (x \div Milli)) * Milli <= Milli - 1
    BY <1>4, <2>1, Truncated
  <2>6. AccountedWait \in Nat /\ AccountedWait * Milli \in Nat
    BY <1>2, <1>4, <2>4, <2>5
  <2>7. /\ AccountedWait * Milli <= Kept + x
        /\ Kept + x - AccountedWait * Milli <= Milli - 1
    BY <2>4, <2>5
  <2> DEFINE a == AccountedWait * Milli
  <2>8. a \in Nat /\ a <= Kept + x /\ Kept + x - a <= Milli - 1
    BY <2>6, <2>7
  <2> HIDE DEF a
  <2>9. a <= policy.maxTotalWait /\ a <= waited /\ waited - a <= Slack(n + 1)
    BY <1>2, <1>3, <1>4, <2>1, <2>2, <2>8
  <2> QED
    BY <2>6, <2>9 DEF a
<1>6. CASE status # "WAITING"
  <2>1. AccountedWait = cum
    BY <1>6 DEF AccountedWait
  <2>2. Kept <= waited /\ waited - Kept <= Slack(n + 1) /\ Kept <= policy.maxTotalWait
    BY <1>1, <1>2, <1>4, <1>6 DEF WaitIsAccounted
  <2> QED
    BY <1>4, <2>1, <2>2
<1> QED
  BY <1>5, <1>6

LEMMA CapBegins ==
  ASSUME NothingOverflows, IInv, CapInv, StartAttempt, status \in {"WAITING", "PAUSED"}
  PROVE  CapInv'
<1>1. UNCHANGED <<policy, crashes, waited>> /\ n' = n + 1 /\ status' = "RUNNING"
      /\ cum' = AccountedWait
  BY DEF StartAttempt
<1>2. ASSUME Capped PROVE WaitIsAccounted'
  <2>1. Kept' = AccountedWait * Milli /\ Slack(n)' = Slack(n + 1)
    BY <1>1 DEF Kept, Slack
  <2>2. /\ Slack(n) \in Nat /\ Slack(n + 1) \in Nat /\ Slack(n) <= Slack(n + 1)
        /\ waited \in Nat /\ waited <= policy.maxTotalWait + Slack(n)
        /\ policy.maxTotalWait \in Nat
    BY <1>2, SlackGrows, CapType, ScheduleAssumption DEF CapInv, WaitIsAccounted
  <2>3. waited <= policy.maxTotalWait + Slack(n + 1)
    BY <2>2
  <2> QED
    BY <1>1, <1>2, <2>1, <2>2, <2>3, Accounting DEF WaitIsAccounted
<1> QED
  BY <1>1, <1>2 DEF CapInv, Capped

LEMMA CapPauses ==
  ASSUME NothingOverflows, IInv, CapInv, Pause
  PROVE  CapInv'
<1>1. UNCHANGED <<policy, crashes, waited, n>> /\ status' = "PAUSED" /\ cum' = AccountedWait
      /\ status \in {"RUNNING", "WAITING"}
  BY DEF Pause
<1>2. ASSUME Capped PROVE WaitIsAccounted'
  <2>1. Kept' = AccountedWait * Milli /\ Slack(n)' = Slack(n) /\ Slack(n + 1)' = Slack(n + 1)
    BY <1>1 DEF Kept, Slack
  <2>2. waited \in Nat /\ waited <= policy.maxTotalWait + Slack(n)
    BY <1>2 DEF CapInv, WaitIsAccounted
  <2> QED
    BY <1>1, <1>2, <2>1, <2>2, Accounting DEF WaitIsAccounted
<1> QED
  BY <1>1, <1>2 DEF CapInv, Capped

(* A wait that begins fits, because what it may last is in the comparison. *)
LEMMA CapRetries ==
  ASSUME NothingOverflows, IInv, CapInv, Exit
  PROVE  CapInv'
<1> USE ScheduleAssumption
<1>1. PICK resetAt \in {None} \union {now + d : d \in ResetDelays \ {0}},
           quota \in BOOLEAN, d \in JitteredDelays(policy, n) : Retry(resetAt, quota, d)
  BY DEF Exit
<1> DEFINE next == NextWake(policy, deadline, d, resetAt)
<1>2. UNCHANGED <<now, policy, n, cum, crashes, waited>> /\ status = "RUNNING"
  BY <1>1 DEF Retry
<1>3. CASE status' = "ENDED" \/ ~Capped
  BY <1>2, <1>3 DEF CapInv, Capped, WaitIsAccounted, Slack, Kept
<1>4. CASE status' # "ENDED" /\ Capped
  <2>1. /\ ~ExceededCap(policy, deadline, n, Kept, Elapsed(next, now))
        /\ status' = "WAITING" /\ wake' = next /\ since' = now
    BY <1>1, <1>4 DEF Retry, Kept
  <2>2. /\ cum \in Nat /\ Kept \in Nat /\ waited \in Nat /\ Slack(n) \in Nat
        /\ Kept <= waited /\ waited - Kept <= Slack(n)
        /\ Kept <= policy.maxTotalWait /\ now \in Nat
    BY <1>2, <1>4, SlackGrows DEF CapInv, WaitIsAccounted, IInv, Typed, Kept
  <2>3. d \in Nat /\ d <= 2 * policy.max
    BY CapType, <1>4, DelayBounds DEF CapInv
  <2>4. next \in Int /\ policy.maxTotalWait + (next - now) <= MaxDur
    <3>1. \/ next = now + d
          \/ \E e \in ResetDelays : e \in Int /\ next = now + e + policy.buffer
          \/ deadline \in Int /\ next = deadline /\ next < now + d
          \/ \E e \in ResetDelays : deadline \in Int /\ next = deadline /\ next < now + e + policy.buffer
      <4>1. deadline \in Times /\ policy.buffer \in Nat /\ \A e \in ResetDelays : e \in Int
        BY <1>4, CapType DEF IInv, Typed
      <4>2. CASE resetAt # None /\ resetAt > now
        <5>1. PICK e \in ResetDelays : resetAt = now + e
          BY <4>2
        <5> QED
          BY <2>2, <4>1, <4>2, <5>1 DEF NextWake, Clip, Times
      <4>3. CASE ~(resetAt # None /\ resetAt > now)
        BY <2>2, <2>3, <4>1, <4>3 DEF NextWake, Clip, Times
      <4> QED
        BY <4>2, <4>3
    <3> HIDE DEF next
    <3> QED
      BY <1>4, <2>2, <2>3, <3>1, CapType
  <2>5. Kept + (next - now) <= policy.maxTotalWait
    <3> HIDE DEF next
    <3>1. Elapsed(next, now) = next - now
      BY <1>4, <2>2, <2>4, CapType DEF Elapsed, Clamp, Least
    <3>2. Wrap(Kept + (next - now)) = Kept + (next - now)
      BY <1>4, <2>2, <2>4, CapType DEF Wrap
    <3>3. ~(Wrap(Kept + Elapsed(next, now)) > policy.maxTotalWait)
      BY <1>4, <2>1 DEF ExceededCap, Capped
    <3> QED
      BY <1>4, <2>2, <2>4, <3>1, <3>2, <3>3, CapType
  <2> HIDE DEF next
  <2>6. Kept' = Kept /\ Slack(n)' = Slack(n)
    BY <1>2 DEF Kept, Slack
  <2>7. waited <= policy.maxTotalWait + Slack(n)
    BY <1>4 DEF CapInv, WaitIsAccounted
  <2>8. /\ Kept + (now - now) <= waited /\ waited - Kept - (now - now) <= Slack(n)
        /\ now \in Int /\ now <= now
    BY <2>2
  <2>9. WaitIsAccounted'
    BY <1>2, <2>1, <2>2, <2>5, <2>6, <2>7, <2>8 DEF WaitIsAccounted
  <2> QED
    BY <1>2, <2>9 DEF CapInv
<1> QED
  BY <1>3, <1>4

(* Time does not pass the end of a wait.                                   *)
LEMMA CapTicks ==
  ASSUME NothingOverflows, IInv, CapInv, Tick
  PROVE  CapInv'
<1>1. /\ UNCHANGED <<policy, status, n, cum, wake, since, crashes>> /\ now' = now + 1
      /\ waited' = IF status = "WAITING" THEN waited + 1 ELSE waited
      /\ daemon = "down" \/ ~(status = "WAITING" /\ now >= wake)
  BY DEF Tick, row
<1>2. CASE ~Capped
  BY <1>1, <1>2 DEF CapInv, Capped
<1>3. CASE Capped
  <2>1. daemon = "up" /\ now \in Nat /\ (status = "WAITING" => wake \in Int)
    BY <1>3 DEF IInv, Typed, Capped, Times
  <2>2. policy.maxTotalWait \in Nat /\ WaitIsAccounted /\ Slack(n) \in Nat
    BY <1>3, CapType, SlackGrows DEF CapInv
  <2>3. Kept' = Kept /\ Slack(n)' = Slack(n) /\ Slack(n + 1)' = Slack(n + 1) /\ Kept \in Nat
    BY <1>1, <2>2, ScheduleAssumption DEF Kept, Slack, WaitIsAccounted
  <2>4. WaitIsAccounted'
    <3>1. CASE status = "WAITING"
      <4>1. /\ waited \in Nat /\ cum \in Nat /\ since \in Int /\ wake \in Int /\ since <= now
            /\ Kept <= policy.maxTotalWait
            /\ Kept + (now - since) <= waited /\ waited - Kept - (now - since) <= Slack(n)
            /\ Kept + (wake - since) <= policy.maxTotalWait
            /\ now < wake
        BY <1>1, <2>1, <2>2, <3>1 DEF WaitIsAccounted
      <4>2. /\ now' = now + 1 /\ waited' = waited + 1
        BY <1>1, <3>1
      <4>3. /\ since <= now + 1 /\ now + 1 <= wake /\ waited + 1 \in Nat
            /\ Kept + ((now + 1) - since) <= waited + 1
            /\ (waited + 1) - Kept - ((now + 1) - since) <= Slack(n)
            /\ waited + 1 <= policy.maxTotalWait + Slack(n)
        BY <2>1, <2>2, <2>3, <4>1
      <4> QED
        BY <1>1, <2>3, <3>1, <4>1, <4>2, <4>3 DEF WaitIsAccounted
    <3>2. CASE status # "WAITING"
      BY <1>1, <2>2, <2>3, <3>2 DEF WaitIsAccounted
    <3> QED
      BY <3>1, <3>2
  <2> QED
    BY <1>1, <2>4 DEF CapInv
<1> QED
  BY <1>2, <1>3

LEMMA CapInductive ==
  ASSUME NothingOverflows, IInv, CapInv, [Next]_vars
  PROVE  CapInv'
<1>1. CASE Fire \/ Resume
  BY <1>1, CapBegins DEF Fire, Resume
<1>2. CASE Exit
  BY <1>2, CapRetries
<1>3. CASE Pause
  BY <1>3, CapPauses
<1>4. CASE Tick
  BY <1>4, CapTicks
<1>5. CASE Finish
  BY <1>5 DEF Finish, CapInv, Capped, WaitIsAccounted, Kept, Slack
<1>6. CASE Crash
  BY <1>6 DEF Crash, row, CapInv, Capped, IInv, Typed
<1>7. CASE Restart
  BY <1>7 DEF Restart, row, CapInv, Capped, IInv, Typed
<1>8. CASE UNCHANGED <<now, policy, row, since, crashes, waited>>
  BY <1>8 DEF row, CapInv, Capped, WaitIsAccounted, Kept, Slack
<1>9. CASE ProbeEnds
  <2>1. PICK p \in probing : ProbeFinds(p) \/ ProbeFails(p)
    BY <1>9 DEF ProbeEnds
  <2>2. CASE status = "WAITING" /\ StartAttempt
    BY <2>2, CapBegins
  <2> QED
    BY <1>8, <2>1, <2>2 DEF ProbeFinds, ProbeFails
<1>10. CASE ProviderFree \/ Poll \/ UNCHANGED vars
  BY <1>8, <1>10 DEF ProviderFree, Poll, vars
<1> QED
  BY <1>1, <1>2, <1>3, <1>4, <1>5, <1>6, <1>7, <1>9, <1>10 DEF Next

(* While no daemon has died, the time really spent waiting stays within    *)
(* max_total_wait but for less than a millisecond of each earlier wait, for*)
(* every policy whose durations do not overflow (caps.go, ExceededCap;     *)
(* supervisor.go, the accounting of a wait in milliseconds).               *)
THEOREM TotalWaitIsAlwaysCapped == NothingOverflows => (Spec => []TotalWaitIsCapped)
<1> SUFFICES ASSUME NothingOverflows PROVE Spec => []TotalWaitIsCapped
  OBVIOUS
<1>1. IInv /\ CapInv /\ [Next]_vars => CapInv'
  BY CapInductive
<1>2. CapInv => TotalWaitIsCapped
  BY DEF CapInv, Capped, WaitIsAccounted, TotalWaitIsCapped, Slack
<1> QED
  BY <1>1, <1>2, CapInit, Invariance, PTL DEF Spec

-----------------------------------------------------------------------------
(* A prober's timer is at most one poll away, a probe ends in time, and    *)
(* what is backed off from is the failure of a probe that was begun before *)
(* the provider's return.                                                  *)
FreeOrBegun == IF freeSince > since THEN freeSince ELSE since
Reach == ProbeMax + ProbeInterval + ProbeTimeout

(* A running probe; one of an earlier wait is never taken for the current. *)
Timely(p) ==
  /\ p.of \in Nat /\ p.of <= n /\ (status = "RUNNING" => p.of < n)
  /\ p.until \in Int /\ now <= p.until /\ p.until <= now + ProbeTimeout
  /\ p.free => freeSince # None
  /\ freeSince # None /\ ~p.free => p.until <= freeSince + ProbeTimeout
  /\ Own(p) =>
       /\ since \in Int
       /\ freeSince # None => p.until <= FreeOrBegun + Reach + ProbeTimeout

ProberIsClose ==
  /\ failures \in Nat /\ nextAllowed \in Int /\ n \in Nat
  /\ freeSince # None => freeSince \in Nat /\ freeSince <= now
  /\ nextAllowed <=
       (IF freeSince = None THEN now ELSE freeSince + ProbeTimeout) + ProbeMax
  /\ probeAt # None =>
       /\ daemon = "up" /\ status = "WAITING"
       /\ since \in Int /\ probeAt \in Int
       /\ now <= probeAt /\ probeAt <= now + ProbeInterval
       /\ freeSince # None => probeAt <= FreeOrBegun + Reach
  /\ probing # {} => daemon = "up"
  /\ \A p \in probing : Timely(p)

LEMMA BackoffBounds ==
  ASSUME NEW k \in Nat
  PROVE  BackoffDelay(k) \in Int /\ BackoffDelay(k) <= ProbeMax
BY DoubledType, ScheduleAssumption DEF BackoffDelay, Least

LEMMA ProberInit == Init => ProberIsClose
BY ScheduleAssumption DEF Init, ProberIsClose

(* An attempt begins: the wait is over, and its probes are strays.         *)
LEMMA ProberBegins ==
  ASSUME IInv, ProberIsClose, StartAttempt, probing' \subseteq probing,
         \/ UNCHANGED <<failures, nextAllowed>>
         \/ failures' = 0 /\ nextAllowed' = 0
  PROVE  ProberIsClose'
<1> USE ScheduleAssumption
<1>1. /\ n' = n + 1 /\ status' = "RUNNING" /\ probeAt' = None
      /\ UNCHANGED <<now, daemon, freeSince>>
  BY DEF StartAttempt
<1>2. n \in Nat /\ now \in Nat
  BY DEF ProberIsClose, IInv, Typed
<1>3. \A p \in probing' : Timely(p)'
  BY <1>1, <1>2 DEF ProberIsClose, Timely, Own
<1> QED
  BY <1>1, <1>2, <1>3 DEF ProberIsClose

(* A wait ends otherwise; the probes are ended or become strays.           *)
LEMMA ProberLeaves ==
  ASSUME ProberIsClose, UNCHANGED <<now, daemon, n, failures, nextAllowed, freeSince>>,
         status' \in {"PAUSED", "ENDED"}, probeAt' = None, probing' \subseteq probing
  PROVE  ProberIsClose'
<1>1. \A p \in probing' : Timely(p)'
  BY DEF ProberIsClose, Timely, Own
<1> QED
  BY <1>1 DEF ProberIsClose

LEMMA ProbePolls ==
  ASSUME IInv, ProberIsClose, Poll
  PROVE  ProberIsClose'
<1> USE ScheduleAssumption
<1>1. /\ UNCHANGED <<now, daemon, status, n, since, failures, nextAllowed, freeSince>>
      /\ daemon = "up" /\ status = "WAITING" /\ probeAt \in Int /\ now = probeAt
      /\ since \in Int /\ n \in Nat /\ now \in Nat /\ nextAllowed \in Int
      /\ freeSince # None => freeSince \in Nat
  BY DEF Poll, ProbeDue, row, ProberIsClose, IInv, Typed
<1>2. /\ nextAllowed <= (IF freeSince = None THEN now ELSE freeSince + ProbeTimeout) + ProbeMax
      /\ freeSince # None => probeAt <= FreeOrBegun + Reach /\ freeSince <= now
  BY <1>1 DEF ProberIsClose
<1>3. \A p \in probing : Timely(p)'
  BY <1>1 DEF ProberIsClose, Timely, Own, FreeOrBegun
<1>4. FreeOrBegun' = FreeOrBegun /\ (freeSince # None => FreeOrBegun \in Int /\ freeSince <= FreeOrBegun)
  BY <1>1 DEF FreeOrBegun
<1>5. CASE now < nextAllowed
  <2>1. probeAt' = now + ProbeInterval /\ probing' = probing
    BY <1>5 DEF Poll
  <2>2. freeSince # None => now + ProbeInterval <= FreeOrBegun + Reach
    BY <1>1, <1>2, <1>4, <1>5 DEF Reach
  <2> QED
    BY <1>1, <1>2, <1>3, <1>4, <2>1, <2>2 DEF ProberIsClose
<1>6. CASE ~(now < nextAllowed)
  <2>0. PICK q : q = [of |-> n, until |-> now + ProbeTimeout, free |-> freeSince # None]
    OBVIOUS
  <2>1. probeAt' = None /\ probing' = probing \union {q}
    BY <1>6, <2>0 DEF Poll
  <2>2. /\ q.of = n /\ q.until = now + ProbeTimeout /\ q.free = (freeSince # None)
    BY <2>0
  <2>3. freeSince # None => now + ProbeTimeout <= FreeOrBegun + Reach + ProbeTimeout
    BY <1>1, <1>2, <1>4 DEF Reach
  <2>4. Timely(q)'
    <3>1. /\ q.of \in Nat /\ q.of <= n' /\ status' # "RUNNING"
          /\ q.until \in Int /\ now' <= q.until /\ q.until <= now' + ProbeTimeout
      BY <1>1, <2>2
    <3>2. (q.free => freeSince' # None) /\ (freeSince' # None => q.free)
      BY <1>1, <2>2
    <3>3. freeSince' # None => q.until <= FreeOrBegun' + Reach + ProbeTimeout
      BY <1>1, <1>4, <2>2, <2>3
    <3>4. since' \in Int
      BY <1>1
    <3> QED
      BY <3>1, <3>2, <3>3, <3>4 DEF Timely
  <2>5. \A p \in probing' : Timely(p)'
    BY <1>3, <2>1, <2>4
  <2>6. daemon' = "up" /\ probeAt' = None
    BY <1>1, <2>1
  <2> QED
    BY <1>1, <1>2, <2>5, <2>6 DEF ProberIsClose
<1> QED
  BY <1>5, <1>6

(* A probe fails, its own prober's or a stray: the next one is allowed     *)
(* after the longest backing off, and its prober polls again.              *)
LEMMA ProbeFailures ==
  ASSUME IInv, ProberIsClose, daemon = "up", NEW p \in probing, ProbeFails(p)
  PROVE  ProberIsClose'
<1> USE ScheduleAssumption
<1>1. /\ UNCHANGED <<now, daemon, status, n, since, freeSince>> /\ ~p.free
      /\ probing' = probing \ {p}
      /\ probeAt' = IF Own(p) THEN now + ProbeInterval ELSE probeAt
      /\ Timely(p) /\ now \in Nat /\ n \in Nat
      /\ freeSince # None => freeSince \in Nat /\ freeSince <= now
  BY DEF ProbeFails, row, ProberIsClose, IInv, Typed
<1>2. \A q \in probing' : Timely(q)'
  BY <1>1 DEF ProberIsClose, Timely, Own, FreeOrBegun
<1>3. freeSince # None => now <= freeSince + ProbeTimeout
  BY <1>1 DEF Timely
<1>4. /\ failures' \in Nat /\ nextAllowed' \in Int
      /\ nextAllowed' <= (IF freeSince = None THEN now ELSE freeSince + ProbeTimeout) + ProbeMax
  <2>1. CASE failures' = 0 /\ nextAllowed' = 0
    BY <1>1, <2>1
  <2>2. CASE failures' = failures + 1 /\ nextAllowed' = now + BackoffDelay(failures + 1)
    <3>1. failures + 1 \in Nat
      BY DEF ProberIsClose
    <3>2. BackoffDelay(failures + 1) \in Int /\ BackoffDelay(failures + 1) <= ProbeMax
      BY <3>1, BackoffBounds
    <3> QED
      BY <1>1, <1>3, <2>2, <3>1, <3>2
  <2> QED
    BY <2>1, <2>2 DEF ProbeFails
<1>5. CASE Own(p)
  <2>1. status = "WAITING" /\ since \in Int /\ probeAt' = now + ProbeInterval
    BY <1>1, <1>5 DEF Own, Timely
  <2>2. freeSince # None => now + ProbeInterval <= FreeOrBegun + Reach
    BY <1>1, <1>3, <2>1 DEF FreeOrBegun, Reach
  <2>3. FreeOrBegun' = FreeOrBegun
    BY <1>1 DEF FreeOrBegun
  <2>4. /\ daemon' = "up" /\ status' = "WAITING" /\ since' \in Int /\ probeAt' \in Int
        /\ now' <= probeAt' /\ probeAt' <= now' + ProbeInterval
        /\ freeSince' # None => probeAt' <= FreeOrBegun' + Reach
    <3>1. daemon' = "up" /\ status' = "WAITING" /\ since' \in Int
      BY <1>1, <2>1
    <3>2. /\ probeAt' \in Int /\ now' <= probeAt' /\ probeAt' <= now' + ProbeInterval
      <4>1. now \in Nat /\ now' = now /\ ProbeInterval \in Nat
        BY <1>1
      <4> HIDE ScheduleAssumption
      <4> QED
        BY <2>1, <4>1
    <3>3. freeSince' # None => probeAt' <= FreeOrBegun' + Reach
      BY <1>1, <2>1, <2>2, <2>3
    <3> QED
      BY <3>1, <3>2, <3>3
  <2>5. failures' \in Nat /\ n' \in Nat /\ (freeSince' # None => freeSince' \in Nat /\ freeSince' <= now')
    BY <1>1, <1>4
  <2>6. /\ nextAllowed' \in Int
        /\ nextAllowed' <= (IF freeSince' = None THEN now' ELSE freeSince' + ProbeTimeout) + ProbeMax
    BY <1>1, <1>4
  <2> QED
    BY <1>2, <2>4, <2>5, <2>6 DEF ProberIsClose
<1>6. CASE ~Own(p)
  <2>1. FreeOrBegun' = FreeOrBegun /\ probeAt' = probeAt
    BY <1>1, <1>6 DEF FreeOrBegun
  <2> QED
    BY <1>1, <1>2, <1>4, <2>1 DEF ProberIsClose
<1> QED
  BY <1>5, <1>6

LEMMA ProberInductive ==
  ASSUME IInv, ProberIsClose, [Next]_vars
  PROVE  ProberIsClose'
<1> USE ScheduleAssumption
<1>0. now \in Nat /\ ProbeMax \in Nat /\ ProbeInterval \in Nat
  BY DEF IInv, Typed
<1>1. CASE Fire \/ Resume
  BY <1>1, ProberBegins DEF Fire, Resume
<1>2. CASE Pause \/ Finish
  BY <1>2, ProberLeaves DEF Pause, Finish
<1>3. CASE Exit
  <2>1. /\ UNCHANGED <<now, daemon, n, failures, nextAllowed, freeSince>>
        /\ daemon = "up" /\ status = "RUNNING"
        /\ \/ status' = "ENDED" /\ probing' = {} /\ UNCHANGED probeAt
           \/ /\ status' = "WAITING" /\ since' = now
              /\ probeAt' \in {None, now + ProbeInterval} /\ UNCHANGED probing
    BY <1>3 DEF Exit, Retry
  <2>2. probeAt = None
    BY <2>1 DEF ProberIsClose
  <2>3. CASE status' = "ENDED" /\ probing' = {} /\ UNCHANGED probeAt
    BY <2>1, <2>2, <2>3, ProberLeaves
  <2>4. CASE status' = "WAITING" /\ since' = now
             /\ probeAt' \in {None, now + ProbeInterval} /\ UNCHANGED probing
    <3>1. \A p \in probing : Timely(p)' /\ p.of < n
      BY <2>1, <2>4 DEF ProberIsClose, Timely, Own
    <3>2. freeSince # None => now + ProbeInterval <= FreeOrBegun' + Reach
      BY <1>0, <2>1, <2>4 DEF FreeOrBegun, Reach, ProberIsClose
    <3> QED
      BY <1>0, <2>1, <2>4, <3>1, <3>2 DEF ProberIsClose
  <2> QED
    BY <2>1, <2>3, <2>4
<1>4. CASE ProbeEnds
  <2>1. PICK p \in probing : ProbeFinds(p) \/ ProbeFails(p)
    BY <1>4 DEF ProbeEnds
  <2>2. CASE ProbeFails(p)
    BY <1>4, <2>2, ProbeFailures DEF ProbeEnds
  <2>3. CASE ProbeFinds(p)
    <3>1. failures' = 0 /\ nextAllowed' = 0 /\ probing' \subseteq probing
      BY <2>3 DEF ProbeFinds
    <3>2. CASE StartAttempt
      BY <3>1, <3>2, ProberBegins
    <3>3. CASE UNCHANGED <<now, daemon, row, since, probeAt, freeSince>>
      <4>1. \A q \in probing' : Timely(q)'
        BY <3>1, <3>3 DEF row, ProberIsClose, Timely, Own, FreeOrBegun
      <4>2. FreeOrBegun' = FreeOrBegun
        BY <3>3 DEF FreeOrBegun
      <4> QED
        BY <1>0, <3>1, <3>3, <4>1, <4>2 DEF row, ProberIsClose
    <3> QED
      BY <2>3, <3>2, <3>3 DEF ProbeFinds
  <2> QED
    BY <2>1, <2>2, <2>3
<1>5. CASE ProviderFree
  <2>1. /\ UNCHANGED <<now, daemon, status, n, since, probeAt, probing, failures, nextAllowed>>
        /\ freeSince = None /\ freeSince' = now
    BY <1>5 DEF ProviderFree, row, prober
  <2>2. \A p \in probing : Timely(p)'
    <3> SUFFICES ASSUME NEW p \in probing PROVE Timely(p)'
      OBVIOUS
    <3>1. Timely(p) /\ ~p.free
      BY <2>1 DEF ProberIsClose, Timely
    <3>2. since \in Int => now <= FreeOrBegun' /\ FreeOrBegun' \in Int
      BY <1>0, <2>1 DEF FreeOrBegun
    <3> QED
      BY <1>0, <2>1, <3>1, <3>2 DEF Timely, Own, Reach
  <2>3. since \in Int => now <= FreeOrBegun' /\ FreeOrBegun' \in Int
    BY <1>0, <2>1 DEF FreeOrBegun
  <2> QED
    BY <1>0, <2>1, <2>2, <2>3 DEF ProberIsClose, Reach
<1>6. CASE Tick
  <2>1. /\ UNCHANGED <<daemon, status, n, since, probeAt, probing, failures, nextAllowed, freeSince>>
        /\ now' = now + 1 /\ ~ProbeDue /\ \A p \in probing : now < p.until
    BY <1>6 DEF Tick, row, prober
  <2>2. \A p \in probing : Timely(p)'
    BY <1>0, <2>1 DEF ProberIsClose, Timely, Own, FreeOrBegun
  <2>3. FreeOrBegun' = FreeOrBegun
    BY <2>1 DEF FreeOrBegun
  <2> QED
    BY <1>0, <2>1, <2>2, <2>3 DEF ProberIsClose, ProbeDue
<1>7. CASE Crash
  <2>1. /\ UNCHANGED <<now, n, freeSince>> /\ probeAt' = None /\ probing' = {}
        /\ failures' = 0 /\ nextAllowed' = 0
    BY <1>7 DEF Crash, row
  <2> QED
    BY <1>0, <2>1 DEF ProberIsClose
<1>8. CASE Restart
  <2>1. /\ UNCHANGED <<now, n, since, probeAt, probing, failures, nextAllowed, freeSince>>
        /\ daemon = "down"
    BY <1>8 DEF Restart, prober, row
  <2> QED
    BY <2>1 DEF ProberIsClose
<1>9. CASE UNCHANGED vars
  BY <1>9 DEF vars, row, prober, ProberIsClose, Timely, Own, FreeOrBegun
<1>10. CASE Poll
  BY <1>10, ProbePolls
<1> QED
  BY <1>1, <1>2, <1>3, <1>4, <1>5, <1>6, <1>7, <1>8, <1>9, <1>10 DEF Next

(* A quota wait does not outlast the provider's return, or its own         *)
(* beginning, by more than the longest backing off, one poll and two       *)
(* probes, however many failures came before and whatever the probes of    *)
(* stopped probers do (daemon/probe.go, probe and backoffDelay;            *)
(* supervisor/probe.go, the prober's chained timers).                      *)
THEOREM AvailabilityIsAlwaysNoticed == Spec => []AvailabilityIsNoticed
<1>1. IInv /\ ProberIsClose /\ [Next]_vars => ProberIsClose'
  BY ProberInductive
<1>2. IInv /\ ProberIsClose => AvailabilityIsNoticed
  <2> SUFFICES ASSUME IInv, ProberIsClose, Probed, freeSince # None
               PROVE  now <= FreeOrBegun + ProbeMax + ProbeInterval + 2 * ProbeTimeout
    BY DEF AvailabilityIsNoticed, FreeOrBegun
  <2>1. now \in Int /\ freeSince \in Int
    BY DEF ProberIsClose, IInv, Typed
  <2>2. CASE probeAt # None
    BY <2>1, <2>2, ScheduleAssumption DEF ProberIsClose, Reach, FreeOrBegun
  <2>3. CASE \E p \in probing : Own(p)
    BY <2>1, <2>3, ScheduleAssumption DEF ProberIsClose, Timely, Reach, FreeOrBegun
  <2> QED
    BY <2>2, <2>3 DEF Probed
<1> QED
  BY <1>1, <1>2, ProberInit, Invariance, PTL DEF Spec

===============================================================================
