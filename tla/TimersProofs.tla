---------------------------- MODULE TimersProofs ----------------------------
(***************************************************************************)
(* Timers implements WakeTimer for every set of tasks and goroutines.      *)
(* The inductive invariant is TypeOK with ArmIsLive, which is what the     *)
(* identity check relies on: an idle goroutine is nobody's arm, and no     *)
(* goroutine is the arm of two tasks.                                      *)
(***************************************************************************)
EXTENDS Timers, TLAPS

IInv == TypeOK /\ ArmIsLive

LEMMA InitIInv == Init => IInv
BY TimersAssumption DEF Init, IInv, TypeOK, ArmIsLive, Locations

LEMMA NextIInv == IInv /\ [Next]_vars => IInv'
<1> SUFFICES ASSUME IInv, [Next]_vars PROVE IInv'
  OBVIOUS
<1> USE TimersAssumption DEF IInv, TypeOK, ArmIsLive, Locations
<1>1. ASSUME NEW t \in Tasks, NEW g \in Goroutines, Arm(t, g) PROVE IInv'
  <2>1. TypeOK'
    <3>1. active' \in [Tasks -> Goroutines \cup {NoTimer}] /\ owner' \in [Goroutines -> Tasks]
      BY <1>1 DEF Arm
    <3>2. pc' \in [Goroutines -> Locations]
      BY <1>1 DEF Arm
    <3>3. rt' \in [Goroutines -> {"running", "stopped", "fired"}]
      BY <1>1 DEF Arm, StopRT
    <3>4. cancelled' \in [Goroutines -> BOOLEAN]
      BY <1>1, Zenon DEF Arm, CloseCancel
    <3>. QED
      BY <3>1, <3>2, <3>3, <3>4
  <2>2. ArmIsLive'
    <3> SUFFICES ASSUME NEW u \in Tasks, active'[u] # NoTimer,
                        NEW h, h = active'[u]
                 PROVE  /\ owner'[h] = u /\ ~cancelled'[h]
                        /\ \/ pc'[h] = "select" /\ rt'[h] \in {"running", "fired"}
                           \/ pc'[h] = "expired"
      OBVIOUS
    <3>1. CASE u = t
      <4>1. h = g
        BY <1>1, <3>1 DEF Arm
      <4>. QED
        BY <1>1, <3>1, <4>1 DEF Arm, StopRT, CloseCancel
    <3>2. CASE u # t
      <4>1. h = active[u] /\ h \in Goroutines /\ h # NoTimer
        BY <1>1, <3>2 DEF Arm
      <4>2. /\ owner[h] = u /\ ~cancelled[h]
            /\ \/ pc[h] = "select" /\ rt[h] \in {"running", "fired"}
               \/ pc[h] = "expired"
        BY <4>1
      <4>3. h # g
        BY <1>1, <4>1, <4>2 DEF Arm
      <4>4. h \notin Discarded({t})
        BY <3>2, <4>1, <4>2 DEF Discarded
      <4>5. rt'[h] = rt[h]
        BY <1>1, <4>1, <4>3, <4>4 DEF Arm, StopRT
      <4>6. ~cancelled'[h]
        BY <1>1, <4>1, <4>2, <4>3, <4>4 DEF Arm, CloseCancel
      <4>. QED
        BY <1>1, <4>1, <4>2, <4>3, <4>5, <4>6 DEF Arm
    <3>. QED
      BY <3>1, <3>2
  <2>. QED
    BY <2>1, <2>2
<1>2. ASSUME NEW t \in Tasks, Cancel(t) PROVE IInv'
  BY <1>2 DEF Cancel, Discard, StopRT, CloseCancel, Discarded
<1>3. CASE Stop
  BY <1>3 DEF Stop, Discard, StopRT, CloseCancel, Discarded
<1>4. ASSUME NEW g \in Goroutines, Run(g) PROVE IInv'
  <2>1. CASE Expire(g)
    BY <2>1 DEF Expire
  <2>2. CASE TakeExpiry(g)
    BY <2>2 DEF TakeExpiry
  <2>3. CASE TakeCancel(g)
    BY <2>3 DEF TakeCancel
  <2>4. CASE Claim(g)
    BY <2>4 DEF Claim, IsCurrent
  <2>5. CASE Fire(g)
    BY <2>5 DEF Fire
  <2>. QED
    BY <1>4, <2>1, <2>2, <2>3, <2>4, <2>5 DEF Run
<1>5. CASE UNCHANGED vars
  BY <1>5 DEF vars
<1>. QED
  BY <1>1, <1>2, <1>3, <1>4, <1>5 DEF Next

\* The active map never holds a wake-up that nobody will deliver, for any
\* number of tasks and goroutines (timer.go:61-106).
THEOREM ArmIsLiveAlways == Spec => []ArmIsLive
<1>1. IInv => ArmIsLive
  BY DEF IInv
<1>. QED
  BY InitIInv, NextIInv, <1>1, PTL DEF Spec

-----------------------------------------------------------------------------
(***************************************************************************)
(* The refinement, one task at a time.                                     *)
(***************************************************************************)

LEMMA InitRefines == ASSUME NEW t \in Tasks, Init PROVE WT(t)!TimerInit
BY DEF Init, WT!TimerInit

LEMMA StepRefines ==
  ASSUME NEW t \in Tasks, IInv, [Next]_vars
  PROVE  WT(t)!TimerNext \/ UNCHANGED WT(t)!TimerVars
<1> USE TimersAssumption DEF IInv, TypeOK, ArmIsLive, Locations
<1> DEFINE F == {g \in Goroutines : pc[g] = "firing" /\ owner[g] = t}
<1>1. ASSUME NEW u \in Tasks, NEW g \in Goroutines, Arm(u, g)
      PROVE  WT(t)!TimerNext \/ UNCHANGED WT(t)!TimerVars
  <2>1. F' = F
    BY <1>1 DEF Arm
  <2>2. CASE u = t
    <3>1. g \notin F \cup {active[t]}
      BY <1>1 DEF Arm
    <3>2. active'[t] = g
      BY <1>1, <2>2 DEF Arm
    <3>3. WT(t)!ArmTimer(g)
      BY <2>1, <3>1, <3>2 DEF WT!ArmTimer
    <3>. QED
      BY <3>3 DEF WT!TimerNext
  <2>3. CASE u # t
    BY <1>1, <2>1, <2>3 DEF Arm, WT!TimerVars
  <2>. QED
    BY <2>2, <2>3
<1>2. ASSUME NEW S \in SUBSET Tasks, Discard(S)
      PROVE  WT(t)!TimerNext \/ UNCHANGED WT(t)!TimerVars
  <2>1. F' = F
    BY <1>2 DEF Discard
  <2>2. CASE t \in S
    BY <1>2, <2>1, <2>2 DEF Discard, WT!TimerNext, WT!CancelTimer
  <2>3. CASE t \notin S
    BY <1>2, <2>1, <2>3 DEF Discard, WT!TimerVars
  <2>. QED
    BY <2>2, <2>3
<1>3. ASSUME NEW g \in Goroutines, Run(g)
      PROVE  WT(t)!TimerNext \/ UNCHANGED WT(t)!TimerVars
  <2>1. CASE Expire(g)
    BY <2>1 DEF Expire, WT!TimerVars
  <2>2. CASE TakeExpiry(g)
    BY <2>2 DEF TakeExpiry, WT!TimerVars
  <2>3. CASE TakeCancel(g)
    BY <2>3 DEF TakeCancel, WT!TimerVars
  <2>4. CASE Claim(g)
    <3>1. CASE ~IsCurrent(g)
      BY <2>4, <3>1 DEF Claim, WT!TimerVars
    <3>2. CASE IsCurrent(g) /\ owner[g] = t
      <4>1. active[t] = g /\ active'[t] = NoTimer
        BY <2>4, <3>2 DEF Claim, IsCurrent
      <4>2. F' = F \cup {g}
        BY <2>4, <3>2 DEF Claim
      <4>3. WT(t)!ClaimTimer
        BY <4>1, <4>2 DEF WT!ClaimTimer
      <4>. QED
        BY <4>3 DEF WT!TimerNext
    <3>3. CASE IsCurrent(g) /\ owner[g] # t
      <4>1. F' = F /\ active'[t] = active[t]
        BY <2>4, <3>3 DEF Claim, IsCurrent
      <4>. QED
        BY <4>1 DEF WT!TimerVars
    <3>. QED
      BY <3>1, <3>2, <3>3
  <2>5. CASE Fire(g)
    <3>1. CASE owner[g] = t
      <4>1. g \in F /\ F' = F \ {g} /\ active'[t] = active[t]
        BY <2>5, <3>1 DEF Fire
      <4>2. WT(t)!DeliverFire(g)
        BY <4>1 DEF WT!DeliverFire
      <4>. QED
        BY <4>2 DEF WT!TimerNext
    <3>2. CASE owner[g] # t
      BY <2>5, <3>2 DEF Fire, WT!TimerVars
    <3>. QED
      BY <3>1, <3>2
  <2>. QED
    BY <1>3, <2>1, <2>2, <2>3, <2>4, <2>5 DEF Run
<1>4. CASE UNCHANGED vars
  BY <1>4 DEF vars, WT!TimerVars
<1>. QED
  BY <1>1, <1>2, <1>3, <1>4 DEF Next, Cancel, Stop

\* Whatever the interleaving of Arm, Cancel, Stop and the goroutines, each task
\* sees an abstract wake timer: at most one fire per arm, and only of an arm
\* that was current when its expiry was taken (timer.go:61-125).
THEOREM TimersImplementWakeTimer == Spec => ImplementsWakeTimer
<1>1. Init => \A t \in Tasks : WT(t)!TimerInit
  BY InitRefines
<1>2. IInv /\ [Next]_vars
        => [\A t \in Tasks : WT(t)!TimerNext \/ UNCHANGED WT(t)!TimerVars]_vars
  BY StepRefines
<1>. QED
  BY InitIInv, NextIInv, <1>1, <1>2, PTL DEF Spec, ImplementsWakeTimer
=============================================================================
