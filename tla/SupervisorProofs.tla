-------------------------- MODULE SupervisorProofs --------------------------
(***************************************************************************)
(* Proofs about Supervisor, for every set of clients, every policy and     *)
(* every bound.                                                            *)
(*                                                                         *)
(* IInv: types, the agreement of the tables, and that Supervisor implements*)
(* TaskLifecycle.  RowsAgree is not inductive: that the last row of a      *)
(* RUNNING task is the one an exit closes depends on s.currentAttempt, and *)
(* that a transaction is computed from the committed task depends on where *)
(* the supervisor is.  GoroutineInv says both.                             *)
(*                                                                         *)
(* LiveInv: what a waiting or running task is awaiting is on its way.  The *)
(* timer of an earlier wait must not pass for this one's (WakeInv), the    *)
(* child of the attempt that begins must be seen to be coming (SpawnedInv),*)
(* a task that does not wait must hold no prober (ProbeInv), a wait must be*)
(* timed until it is accounted (AccountInv), and a daemon that is down must*)
(* leave nothing behind (DownInv).                                         *)
(*                                                                         *)
(* BoundInv: whatever lets one more attempt begin is counted beside the    *)
(* attempts (Pending, Claims), against the policy's maximum and the resumes*)
(* and restarts that may exceed it.                                        *)
(*                                                                         *)
(* ReachInv, if nobody pauses: a task has one child at a time, because only*)
(* the last one can run or have its exit on its way (ChildInv, Channel), so*)
(* that the handle is its handle and the exit is the current attempt's     *)
(* (OpenInv).                                                              *)
(***************************************************************************)
EXTENDS Supervisor, FiniteSetTheorems, TLAPS

GoroutineInv ==
  /\ pc \in {"select", "killed"} => task = row
  /\ pc = "spawned" => /\ row.status \in {"PENDING", "WAITING", "PAUSED"}
                       /\ task.status = row.status /\ task.total = row.total
  /\ pc = "killed" => ~Terminal(row.status)
  /\ pc = "off" => cur = 0
  /\ pc = "select" /\ row.status = "RUNNING" => cur = row.total

IInv == TypeOK /\ RowsAgree /\ GoroutineInv

-----------------------------------------------------------------------------
\* What the helpers return.

LEMMA ToRow ==
  ASSUME NEW t \in Row, NEW s \in Statuses
  PROVE  /\ To(t, s) \in Row
         /\ To(t, s).status = s /\ To(t, s).total = t.total
         /\ To(t, s).wake = FALSE /\ To(t, s).waits = t.waits
BY DEF To, Row

LEMMA AccountRow ==
  ASSUME NEW t \in Row
  PROVE  /\ AccountWait(t) \in Row
         /\ AccountWait(t).status = t.status /\ AccountWait(t).total = t.total
BY DEF AccountWait, Row

LEMMA KillType == ProcessTypeOK => /\ KillHandle \in Seq(Proc)
                                   /\ Len(KillHandle) = Len(procs)
<1> SUFFICES ASSUME ProcessTypeOK PROVE KillHandle \in Seq(Proc) /\ Len(KillHandle) = Len(procs)
  OBVIOUS
<1>1. CASE handle # 0 /\ procs[handle].st = "alive"
  <2>1. handle \in 1 .. Len(procs) /\ procs[handle] \in Proc
    BY <1>1 DEF ProcessTypeOK
  <2>2. [procs[handle] EXCEPT !.st = "killed"] \in Proc
    BY <2>1 DEF Proc
  <2>. QED
    BY <1>1, <2>1, <2>2 DEF KillHandle, ProcessTypeOK
<1>2. CASE ~(handle # 0 /\ procs[handle].st = "alive")
  BY <1>2 DEF KillHandle, ProcessTypeOK
<1>. QED
  BY <1>1, <1>2

LEMMA ClosedType ==
  ASSUME StoreTypeOK, cur \in 0 .. Len(attempts), NEW o \in AllOutcomes
  PROVE  /\ Closed(o) \in Seq({"open", "INTERRUPTED"} \cup AllOutcomes)
         /\ Len(Closed(o)) = Len(attempts)
         /\ cur # 0 => Closed(o)[cur] = o
BY DEF Closed, StoreTypeOK

LEMMA EventType ==
  ASSUME NEW type \in EventTypes, NEW src \in Nat
  PROVE  Event(type, src) \in Events
BY DEF Event, Events

\* Posting keeps the channel within its capacity.
LEMMA PostType ==
  ASSUME SupervisorTypeOK, NEW e \in Events, Post(e)
  PROVE  events' \in Seq(Events) /\ Len(events') <= ChanCap
BY SupervisorAssumption DEF SupervisorTypeOK, Post

\* Receiving shortens it, and what Handle acts on is the committed task.
LEMMA TakeFacts ==
  ASSUME SupervisorTypeOK, NEW type \in EventTypes, Take(type)
  PROVE  /\ events' \in Seq(Events) /\ Len(events') <= ChanCap
         /\ pc = "select" /\ ~Terminal(task.status)
         /\ task.status \in Accepts[type]
BY SupervisorAssumption DEF SupervisorTypeOK, Take, Applies

-----------------------------------------------------------------------------
LEMMA InitIInv == Init => IInv
<1> SUFFICES ASSUME Init PROVE IInv
  OBVIOUS
<1>1. Event("start", 0) \in Events
  BY EventType DEF EventTypes
<1>2. StoreTypeOK /\ ProcessTypeOK
  BY DEF Init, StoreTypeOK, ProcessTypeOK, Row, Statuses
<1>3. SupervisorTypeOK
  <2>1. events \in Seq(Events) /\ Len(events) = 1
    BY <1>1 DEF Init
  <2>2. task \in Row /\ cur \in 0 .. Len(attempts)
    BY DEF Init, Row, Statuses
  <2>3. Len(events) <= ChanCap
    BY <2>1, SupervisorAssumption
  <2>4. pc = "select" /\ waitingSince = FALSE
    BY DEF Init
  <2>. QED
    BY <2>1, <2>2, <2>3, <2>4 DEF SupervisorTypeOK
<1>4. WakeUpTypeOK
  BY DEF Init, WakeUpTypeOK, TimerInit
<1>5. DaemonTypeOK
  BY SupervisorAssumption DEF Init, DaemonTypeOK
<1>6. RowsAgree /\ GoroutineInv
  BY DEF Init, RowsAgree, GoroutineInv
<1>. QED
  BY <1>2, <1>3, <1>4, <1>5, <1>6 DEF IInv, TypeOK

\* A failing call stays within its bound.
UsedType == [user : 0 .. MaxUser, resume : Nat,
             crash : 0 .. MaxCrashes, shutdown : 0 .. MaxShutdowns,
             fault : 0 .. MaxFaults, step : 0 .. MaxSteps]

LEMMA FaultType ==
  ASSUME DaemonTypeOK, Fault \/ PersistFails
  PROVE  used' \in UsedType
BY SupervisorAssumption DEF DaemonTypeOK, Fault, PersistFails, UsedType

\* An attempt exit or a user event that Handle acts on.
LEMMA ExitFacts ==
  ASSUME IInv, Take("attempt_exit")
  PROVE  /\ events' \in Seq(Events) /\ Len(events') <= ChanCap
         /\ pc = "select" /\ task = row /\ task \in Row
<1>1. "attempt_exit" \in EventTypes /\ SupervisorTypeOK
  BY DEF EventTypes, IInv, TypeOK
<1>2. events' \in Seq(Events) /\ Len(events') <= ChanCap /\ pc = "select"
  BY <1>1, TakeFacts
<1>. QED
  BY <1>1, <1>2 DEF IInv, GoroutineInv, SupervisorTypeOK

LEMMA UserFacts ==
  ASSUME IInv, NEW a \in AllUserActions, Take(a)
  PROVE  /\ events' \in Seq(Events) /\ Len(events') <= ChanCap
         /\ pc = "select" /\ task = row /\ ~Terminal(task.status)
<1>1. a \in EventTypes /\ SupervisorTypeOK
  BY DEF EventTypes, IInv, TypeOK
<1>2. events' \in Seq(Events) /\ Len(events') <= ChanCap /\ pc = "select"
      /\ ~Terminal(task.status)
  BY <1>1, TakeFacts
<1>. QED
  BY <1>1, <1>2 DEF IInv, GoroutineInv

\* A step that touches neither the tables nor the supervisor goroutine.
LEMMA Frame ==
  ASSUME IInv, UNCHANGED <<durable, goroutine>>,
         events' \in Seq(Events), Len(events') <= ChanCap
  PROVE  StoreTypeOK' /\ SupervisorTypeOK' /\ RowsAgree' /\ GoroutineInv'
<1>1. UNCHANGED <<row, attempts, pc, task, cur, waitingSince>>
  BY DEF durable, goroutine
<1>2. StoreTypeOK'
  BY <1>1 DEF IInv, TypeOK, StoreTypeOK
<1>3. SupervisorTypeOK'
  BY <1>1 DEF IInv, TypeOK, SupervisorTypeOK
<1>4. RowsAgree'
  BY <1>1 DEF IInv, RowsAgree
<1>5. GoroutineInv'
  BY <1>1 DEF IInv, GoroutineInv
<1>. QED
  BY <1>2, <1>3, <1>4, <1>5

LEMMA FrameSameEvents ==
  ASSUME IInv, UNCHANGED <<durable, goroutine, events>>
  PROVE  StoreTypeOK' /\ SupervisorTypeOK' /\ RowsAgree' /\ GoroutineInv'
<1>1. events' \in Seq(Events) /\ Len(events') <= ChanCap
  BY DEF IInv, TypeOK, SupervisorTypeOK
<1>. QED
  BY <1>1, Frame

-----------------------------------------------------------------------------
\* The supervisor goroutine, one lemma per action.

LEMMA IgnoreInv == ASSUME IInv, Ignore PROVE IInv'
<1>1. events' \in Seq(Events) /\ Len(events') <= ChanCap
  BY SupervisorAssumption DEF Ignore, IInv, TypeOK, SupervisorTypeOK
<1>2. StoreTypeOK' /\ SupervisorTypeOK' /\ RowsAgree' /\ GoroutineInv'
  BY <1>1, Frame DEF Ignore
<1>3. ProcessTypeOK' /\ WakeUpTypeOK' /\ DaemonTypeOK'
  BY DEF Ignore, IInv, TypeOK, ProcessTypeOK, WakeUpTypeOK, DaemonTypeOK, timers, probing
<1>. QED
  BY <1>2, <1>3 DEF IInv, TypeOK

\* What BeginAttempt leaves behind for the three actions built on it.
LEMMA BeginFacts ==
  ASSUME IInv, BeginAttempt
  PROVE  /\ events' \in Seq(Events) /\ Len(events') <= ChanCap
         /\ pc = "select" /\ task = row
         /\ task.status \in {"PENDING", "WAITING", "PAUSED"}
         /\ timer' \in Nat /\ firing' = firing
         /\ prober' \in Nat /\ probes' = probes
         /\ waitingSince' \in BOOLEAN
<1>1. SupervisorTypeOK /\ WakeUpTypeOK /\ (pc = "select" => task = row)
  BY DEF IInv, TypeOK, GoroutineInv
<1>2. CASE Take("start") /\ UNCHANGED <<timers, probing, waitingSince>>
  <2>1. "start" \in EventTypes /\ Accepts["start"] = {"PENDING"}
    BY DEF EventTypes, Accepts
  <2>2. /\ events' \in Seq(Events) /\ Len(events') <= ChanCap
        /\ pc = "select" /\ task.status = "PENDING"
    BY <1>1, <1>2, <2>1, TakeFacts
  <2>3. UNCHANGED <<timer, firing, prober, probes, waitingSince>>
    BY <1>2 DEF timers, probing
  <2>. QED
    BY <1>1, <2>2, <2>3 DEF SupervisorTypeOK, WakeUpTypeOK
<1>3. CASE \E w \in Wakes : Take(w) /\ CancelTimer /\ StopProber /\ waitingSince' = FALSE
  <2>1. PICK w \in Wakes : Take(w) /\ CancelTimer /\ StopProber /\ waitingSince' = FALSE
    BY <1>3
  <2>2. w \in EventTypes /\ Accepts[w] \subseteq {"WAITING", "PAUSED"}
    BY DEF EventTypes, AllUserActions, Wakes, Accepts
  <2>3. /\ events' \in Seq(Events) /\ Len(events') <= ChanCap
        /\ pc = "select" /\ task.status \in {"WAITING", "PAUSED"}
    BY <1>1, <2>1, <2>2, TakeFacts
  <2>4. timer' = 0 /\ firing' = firing /\ prober' = 0 /\ probes' = probes
    BY <2>1 DEF CancelTimer, StopProber
  <2>. QED
    BY <1>1, <2>1, <2>3, <2>4
<1>. QED
  BY <1>2, <1>3 DEF BeginAttempt

LEMMA SpawnInv == ASSUME IInv, Spawn PROVE IInv'
<1>1. /\ events' \in Seq(Events) /\ Len(events') <= ChanCap
      /\ task = row /\ task.status \in {"PENDING", "WAITING", "PAUSED"}
      /\ timer' \in Nat /\ firing' = firing
      /\ prober' \in Nat /\ probes' = probes /\ waitingSince' \in BOOLEAN
  BY BeginFacts DEF Spawn
<1>2. task \in Row /\ task.total \in Nat
  BY DEF IInv, TypeOK, SupervisorTypeOK, Row
<1>3. task' \in Row /\ task'.status = task.status /\ task'.total = task.total
  BY <1>2, AccountRow DEF Spawn
<1>4. StoreTypeOK'
  BY DEF Spawn, IInv, TypeOK, StoreTypeOK, durable
<1>5. ProcessTypeOK'
  <2>1. [no |-> task.total + 1, st |-> "alive"] \in Proc
    BY <1>2 DEF Proc
  <2>. QED
    BY <2>1 DEF Spawn, IInv, TypeOK, ProcessTypeOK
<1>6. SupervisorTypeOK'
  BY <1>1, <1>3 DEF Spawn, IInv, TypeOK, SupervisorTypeOK, durable
<1>7. WakeUpTypeOK'
  BY <1>1 DEF Spawn, IInv, TypeOK, WakeUpTypeOK
<1>8. DaemonTypeOK'
  BY DEF Spawn, IInv, TypeOK, DaemonTypeOK
<1>9. RowsAgree'
  BY DEF Spawn, IInv, TypeOK, RowsAgree, durable
<1>10. GoroutineInv'
  BY <1>1, <1>3 DEF Spawn, GoroutineInv, durable
<1>. QED
  BY <1>4, <1>5, <1>6, <1>7, <1>8, <1>9, <1>10 DEF IInv, TypeOK

LEMMA CommitSpawnInv == ASSUME IInv, CommitSpawn PROVE IInv'
<1>1. /\ task \in Row /\ task.total = row.total /\ row.total = Len(attempts)
      /\ attempts \in Seq({"open", "INTERRUPTED"} \cup AllOutcomes)
  BY DEF CommitSpawn, IInv, TypeOK, StoreTypeOK, SupervisorTypeOK, GoroutineInv, RowsAgree
<1>2. PICK n \in Row : /\ n.status = "RUNNING" /\ n.total = row.total + 1 /\ n.wake = FALSE
                       /\ row' = n /\ task' = n
  <2>1. To(task, "RUNNING") \in Row /\ To(task, "RUNNING").total = task.total
        /\ To(task, "RUNNING").wake = FALSE /\ To(task, "RUNNING").status = "RUNNING"
    BY <1>1, ToRow DEF Statuses
  <2>2. LET n == [To(task, "RUNNING") EXCEPT !.total = @ + 1]
        IN  n \in Row /\ n.status = "RUNNING" /\ n.total = row.total + 1 /\ n.wake = FALSE
    BY <1>1, <2>1 DEF Row
  <2>. QED
    BY <2>2 DEF CommitSpawn, Commit
<1>3. /\ attempts' \in Seq({"open", "INTERRUPTED"} \cup AllOutcomes)
      /\ Len(attempts') = Len(attempts) + 1 /\ attempts'[Len(attempts) + 1] = "open"
  BY <1>1 DEF CommitSpawn, Commit
<1>4. cur' = row.total + 1 /\ pc' = "select" /\ row.total \in Nat
  BY <1>1 DEF CommitSpawn
<1>5. StoreTypeOK'
  BY <1>2, <1>3 DEF StoreTypeOK
<1>6. ProcessTypeOK'
  BY DEF CommitSpawn, IInv, TypeOK, ProcessTypeOK
<1>7. SupervisorTypeOK'
  BY <1>1, <1>2, <1>3, <1>4 DEF CommitSpawn, IInv, TypeOK, SupervisorTypeOK
<1>8. WakeUpTypeOK'
  BY DEF CommitSpawn, IInv, TypeOK, WakeUpTypeOK, timers, probing
<1>9. DaemonTypeOK'
  BY DEF CommitSpawn, IInv, TypeOK, DaemonTypeOK
<1>10. RowsAgree'
  BY <1>1, <1>2, <1>3, <1>4 DEF RowsAgree
<1>11. GoroutineInv'
  BY <1>2, <1>4 DEF GoroutineInv
<1>. QED
  BY <1>5, <1>6, <1>7, <1>8, <1>9, <1>10, <1>11 DEF IInv, TypeOK

LEMMA CommitSpawnFailsInv == ASSUME IInv, CommitSpawnFails PROVE IInv'
<1>1. used' \in UsedType
  BY FaultType DEF CommitSpawnFails, IInv, TypeOK
<1>2. StoreTypeOK'
  BY DEF CommitSpawnFails, IInv, TypeOK, StoreTypeOK, durable, Fails
<1>3. ProcessTypeOK'
  BY KillType DEF CommitSpawnFails, IInv, TypeOK, ProcessTypeOK
<1>4. SupervisorTypeOK'
  BY DEF CommitSpawnFails, IInv, TypeOK, SupervisorTypeOK, durable, goroutine, Fails
<1>5. WakeUpTypeOK'
  BY DEF CommitSpawnFails, IInv, TypeOK, WakeUpTypeOK, timers, probing, Fails
<1>6. DaemonTypeOK'
  BY <1>1 DEF CommitSpawnFails, IInv, TypeOK, DaemonTypeOK, UsedType
<1>7. RowsAgree'
  BY DEF CommitSpawnFails, IInv, TypeOK, RowsAgree, durable, Fails
<1>8. GoroutineInv'
  BY DEF CommitSpawnFails, IInv, TypeOK, GoroutineInv, durable, goroutine, Fails
<1>. QED
  BY <1>2, <1>3, <1>4, <1>5, <1>6, <1>7, <1>8 DEF IInv, TypeOK

LEMMA SpawnFailsInv == ASSUME IInv, SpawnFails PROVE IInv'
<1>1. /\ events' \in Seq(Events) /\ Len(events') <= ChanCap
      /\ pc = "select" /\ task = row /\ task.status \in {"PENDING", "WAITING", "PAUSED"}
      /\ timer' \in Nat /\ firing' = firing
      /\ prober' \in Nat /\ probes' = probes /\ waitingSince' \in BOOLEAN
  BY BeginFacts DEF SpawnFails
<1>2. task \in Row /\ AccountWait(task) \in Row /\ AccountWait(task).total = task.total
  BY AccountRow DEF IInv, TypeOK, SupervisorTypeOK
<1>3. used' \in UsedType
  BY FaultType DEF SpawnFails, PersistFails, IInv, TypeOK
<1>4. \/ /\ Commit(To(AccountWait(task), "FAILED"), attempts) /\ due' = "early" /\ pc' = pc
      \/ Fails /\ task' = AccountWait(task) /\ due' = due
  BY DEF SpawnFails
<1>5. LET n == To(AccountWait(task), "FAILED")
      IN  n \in Row /\ n.status = "FAILED" /\ n.total = row.total /\ n.wake = FALSE
  BY <1>1, <1>2, ToRow DEF Statuses
<1>6. StoreTypeOK'
  BY <1>4, <1>5 DEF IInv, TypeOK, StoreTypeOK, Commit, Fails, durable
<1>7. ProcessTypeOK'
  BY DEF SpawnFails, IInv, TypeOK, ProcessTypeOK
<1>8. SupervisorTypeOK'
  BY <1>1, <1>2, <1>4, <1>5 DEF SpawnFails, IInv, TypeOK, SupervisorTypeOK, Commit, Fails, durable
<1>9. WakeUpTypeOK'
  BY <1>1, <1>4 DEF IInv, TypeOK, WakeUpTypeOK
<1>10. DaemonTypeOK'
  BY <1>3 DEF SpawnFails, IInv, TypeOK, DaemonTypeOK, UsedType
<1>11. RowsAgree'
  BY <1>1, <1>4, <1>5 DEF IInv, RowsAgree, Commit, Fails, durable
<1>12. GoroutineInv'
  BY <1>1, <1>4, <1>5 DEF SpawnFails, IInv, GoroutineInv, Commit, Fails, durable, Terminal
<1>. QED
  BY <1>6, <1>7, <1>8, <1>9, <1>10, <1>11, <1>12 DEF IInv, TypeOK

LEMMA FinishInv == ASSUME NEW s \in {"SUCCEEDED", "FAILED"}, IInv, Finish(s) PROVE IInv'
<1>1. /\ events' \in Seq(Events) /\ Len(events') <= ChanCap
      /\ pc = "select" /\ task = row /\ task \in Row /\ task.status = "RUNNING"
      /\ cur = row.total /\ row.total = Len(attempts) /\ cur # 0 /\ row.total \in Nat
  BY ExitFacts DEF Finish, IInv, RowsAgree, GoroutineInv, Row
<1>2. PICK o \in Outcomes : /\ s = "SUCCEEDED" => o = "SUCCESS"
                            /\ Commit(To(task, s), Closed(o))
  BY DEF Finish
<1>3. /\ Closed(o) \in Seq({"open", "INTERRUPTED"} \cup AllOutcomes)
      /\ Len(Closed(o)) = Len(attempts) /\ Closed(o)[cur] = o
  BY <1>1, ClosedType, SupervisorAssumption DEF IInv, TypeOK, SupervisorTypeOK
<1>4. /\ To(task, s) \in Row /\ To(task, s).status = s
      /\ To(task, s).total = row.total /\ To(task, s).wake = FALSE
  <2>1. s \in Statuses
    BY DEF Statuses
  <2>. QED
    BY <1>1, <2>1, ToRow
<1>5. StoreTypeOK'
  BY <1>2, <1>3, <1>4 DEF Commit, StoreTypeOK
<1>6. ProcessTypeOK'
  BY DEF Finish, IInv, TypeOK, ProcessTypeOK
<1>7. SupervisorTypeOK'
  BY <1>1, <1>2, <1>3, <1>4 DEF Finish, Commit, IInv, TypeOK, SupervisorTypeOK
<1>8. WakeUpTypeOK'
  BY DEF Finish, IInv, TypeOK, WakeUpTypeOK, timers, probing
<1>9. DaemonTypeOK'
  BY DEF Finish, IInv, TypeOK, DaemonTypeOK
<1>10. RowsAgree'
  BY <1>1, <1>2, <1>3, <1>4 DEF Commit, RowsAgree
<1>11. GoroutineInv'
  BY <1>1, <1>2, <1>4 DEF Finish, Commit, GoroutineInv
<1>. QED
  BY <1>5, <1>6, <1>7, <1>8, <1>9, <1>10, <1>11 DEF IInv, TypeOK

LEMMA ScheduleInv == ASSUME IInv, Schedule PROVE IInv'
<1>1. /\ events' \in Seq(Events) /\ Len(events') <= ChanCap
      /\ pc = "select" /\ task = row /\ task \in Row /\ task.status = "RUNNING"
      /\ cur = row.total /\ row.total = Len(attempts) /\ cur # 0 /\ row.total \in Nat
  BY ExitFacts DEF Schedule, IInv, RowsAgree, GoroutineInv, Row
<1>2. PICK o \in Outcomes :
        /\ Commit([task EXCEPT !.status = "WAITING", !.wake = TRUE], Closed(o))
        /\ \/ prober' = Wait /\ probes' = probes \cup {<<Wait, "polling">>}
           \/ UNCHANGED probing
  BY DEF Schedule
<1>3. /\ Closed(o) \in Seq({"open", "INTERRUPTED"} \cup AllOutcomes)
      /\ Len(Closed(o)) = Len(attempts)
  BY <1>1, ClosedType, SupervisorAssumption DEF IInv, TypeOK, SupervisorTypeOK
<1>4. /\ row' \in Row /\ task' = row' /\ row'.status = "WAITING"
      /\ row'.total = row.total /\ row'.wake = TRUE /\ attempts' = Closed(o)
  BY <1>1, <1>2 DEF Commit, Row, Statuses
<1>5. StoreTypeOK'
  BY <1>3, <1>4 DEF StoreTypeOK
<1>6. ProcessTypeOK'
  BY DEF Schedule, IInv, TypeOK, ProcessTypeOK
<1>7. SupervisorTypeOK'
  BY <1>1, <1>3, <1>4 DEF Schedule, IInv, TypeOK, SupervisorTypeOK
<1>8. WakeUpTypeOK'
  <2>1. Wait \in WaitNo
    BY <1>1 DEF Wait, WaitNo
  <2>2. timer' = Wait /\ firing' = firing /\ due' = "early"
    BY DEF Schedule, ArmTimer
  <2>. QED
    BY <1>2, <2>1, <2>2 DEF IInv, TypeOK, WakeUpTypeOK, WaitNo, probing
<1>9. DaemonTypeOK'
  BY DEF Schedule, IInv, TypeOK, DaemonTypeOK
<1>10. RowsAgree'
  BY <1>1, <1>3, <1>4 DEF RowsAgree
<1>11. GoroutineInv'
  BY <1>1, <1>4 DEF Schedule, GoroutineInv
<1>. QED
  BY <1>5, <1>6, <1>7, <1>8, <1>9, <1>10, <1>11 DEF IInv, TypeOK

LEMMA RecordPausedExitInv == ASSUME IInv, RecordPausedExit PROVE IInv'
<1>1. /\ events' \in Seq(Events) /\ Len(events') <= ChanCap
      /\ pc = "select" /\ task = row /\ task.status = "PAUSED"
  BY ExitFacts DEF RecordPausedExit
<1>2. PICK o \in Outcomes : Commit(task, Closed(o))
  BY DEF RecordPausedExit
<1>3. /\ Closed(o) \in Seq({"open", "INTERRUPTED"} \cup AllOutcomes)
      /\ Len(Closed(o)) = Len(attempts)
  BY ClosedType, SupervisorAssumption DEF IInv, TypeOK, SupervisorTypeOK
<1>4. StoreTypeOK'
  BY <1>1, <1>2, <1>3 DEF Commit, IInv, TypeOK, StoreTypeOK
<1>5. ProcessTypeOK'
  BY DEF RecordPausedExit, IInv, TypeOK, ProcessTypeOK
<1>6. SupervisorTypeOK'
  BY <1>1, <1>2, <1>3 DEF RecordPausedExit, Commit, IInv, TypeOK, SupervisorTypeOK
<1>7. WakeUpTypeOK'
  BY DEF RecordPausedExit, IInv, TypeOK, WakeUpTypeOK, timers, probing
<1>8. DaemonTypeOK'
  BY DEF RecordPausedExit, IInv, TypeOK, DaemonTypeOK
<1>9. RowsAgree'
  BY <1>1, <1>2, <1>3 DEF Commit, IInv, RowsAgree
<1>10. GoroutineInv'
  BY <1>1, <1>2 DEF RecordPausedExit, Commit, IInv, GoroutineInv
<1>. QED
  BY <1>4, <1>5, <1>6, <1>7, <1>8, <1>9, <1>10 DEF IInv, TypeOK

LEMMA ExitFailsInv == ASSUME IInv, ExitFails PROVE IInv'
<1>1. used' \in UsedType
  BY FaultType DEF ExitFails, IInv, TypeOK
<1>2. events' \in Seq(Events) /\ Len(events') <= ChanCap
  BY ExitFacts DEF ExitFails
<1>3. StoreTypeOK'
  BY DEF ExitFails, IInv, TypeOK, StoreTypeOK, durable, Fails
<1>4. ProcessTypeOK'
  BY DEF ExitFails, IInv, TypeOK, ProcessTypeOK, Fails
<1>5. SupervisorTypeOK'
  BY <1>2 DEF ExitFails, Fails, IInv, TypeOK, SupervisorTypeOK, durable
<1>6. WakeUpTypeOK'
  BY DEF ExitFails, IInv, TypeOK, WakeUpTypeOK, timers, probing, Fails
<1>7. DaemonTypeOK'
  BY <1>1 DEF ExitFails, IInv, TypeOK, DaemonTypeOK, UsedType
<1>8. RowsAgree'
  BY DEF ExitFails, IInv, TypeOK, RowsAgree, durable, Fails
<1>9. GoroutineInv'
  BY DEF ExitFails, IInv, TypeOK, GoroutineInv, durable, goroutine, Fails
<1>. QED
  BY <1>3, <1>4, <1>5, <1>6, <1>7, <1>8, <1>9 DEF IInv, TypeOK

LEMMA PauseInv == ASSUME IInv, Pause PROVE IInv'
<1>1. /\ events' \in Seq(Events) /\ Len(events') <= ChanCap
      /\ pc = "select" /\ task = row
  BY UserFacts DEF Pause, AllUserActions
<1>2. task \in Row /\ AccountWait(task) \in Row /\ AccountWait(task).total = task.total
  BY AccountRow DEF IInv, TypeOK, SupervisorTypeOK
<1>3. used' \in UsedType
  BY FaultType DEF Pause, IInv, TypeOK, DaemonTypeOK, UsedType
<1>4. \/ /\ Commit(To(AccountWait(task), "PAUSED"), attempts) /\ due' = "early" /\ pc' = pc
      \/ Fails /\ task' = task /\ due' = due
  BY DEF Pause
<1>5. LET n == To(AccountWait(task), "PAUSED")
      IN  n \in Row /\ n.status = "PAUSED" /\ n.total = row.total /\ n.wake = FALSE
  BY <1>1, <1>2, ToRow DEF Statuses
<1>6. StoreTypeOK'
  BY <1>4, <1>5 DEF IInv, TypeOK, StoreTypeOK, Commit, Fails, durable
<1>7. ProcessTypeOK'
  BY DEF Pause, IInv, TypeOK, ProcessTypeOK
<1>8. SupervisorTypeOK'
  BY <1>1, <1>2, <1>4, <1>5 DEF Pause, IInv, TypeOK, SupervisorTypeOK, Commit, Fails, durable
<1>9. WakeUpTypeOK'
  BY <1>4 DEF Pause, CancelTimer, StopProber, IInv, TypeOK, WakeUpTypeOK
<1>10. DaemonTypeOK'
  BY <1>3 DEF Pause, IInv, TypeOK, DaemonTypeOK, UsedType
<1>11. RowsAgree'
  BY <1>1, <1>4, <1>5 DEF IInv, RowsAgree, Commit, Fails, durable
<1>12. GoroutineInv'
  BY <1>1, <1>4, <1>5 DEF Pause, IInv, GoroutineInv, Commit, Fails, durable
<1>. QED
  BY <1>6, <1>7, <1>8, <1>9, <1>10, <1>11, <1>12 DEF IInv, TypeOK

LEMMA StopKillInv == ASSUME IInv, StopKill PROVE IInv'
<1>1. /\ events' \in Seq(Events) /\ Len(events') <= ChanCap
      /\ pc = "select" /\ task = row /\ ~Terminal(task.status)
  BY UserFacts DEF StopKill, AllUserActions
<1>2. used' \in UsedType
  BY FaultType DEF StopKill, PersistFails, IInv, TypeOK, DaemonTypeOK, UsedType
<1>3. pc' \in {"killed", "failed"} /\ UNCHANGED <<row, attempts, task, cur>>
  BY DEF StopKill, Fails, durable
<1>4. StoreTypeOK'
  BY <1>3 DEF IInv, TypeOK, StoreTypeOK
<1>5. ProcessTypeOK'
  BY KillType DEF StopKill, IInv, TypeOK, ProcessTypeOK
<1>6. SupervisorTypeOK'
  BY <1>1, <1>3 DEF StopKill, IInv, TypeOK, SupervisorTypeOK
<1>7. WakeUpTypeOK'
  BY DEF StopKill, CancelTimer, StopProber, IInv, TypeOK, WakeUpTypeOK
<1>8. DaemonTypeOK'
  BY <1>2 DEF StopKill, IInv, TypeOK, DaemonTypeOK, UsedType
<1>9. RowsAgree'
  BY <1>3 DEF IInv, RowsAgree
<1>10. GoroutineInv'
  BY <1>1, <1>3 DEF GoroutineInv
<1>. QED
  BY <1>4, <1>5, <1>6, <1>7, <1>8, <1>9, <1>10 DEF IInv, TypeOK

LEMMA CommitStopInv == ASSUME IInv, CommitStop PROVE IInv'
<1>1. task = row /\ task \in Row
  BY DEF CommitStop, IInv, TypeOK, SupervisorTypeOK, GoroutineInv
<1>2. used' \in UsedType
  BY FaultType DEF CommitStop, IInv, TypeOK, DaemonTypeOK, UsedType
<1>3. LET n == To(task, "STOPPED")
      IN  n \in Row /\ n.status = "STOPPED" /\ n.total = row.total /\ n.wake = FALSE
  BY <1>1, ToRow DEF Statuses
<1>4. \/ Commit(To(task, "STOPPED"), attempts) /\ pc' = "select" /\ due' = "early"
      \/ Fails /\ task' = task /\ due' = due
  BY DEF CommitStop
<1>5. StoreTypeOK'
  BY <1>3, <1>4 DEF IInv, TypeOK, StoreTypeOK, Commit, Fails, durable
<1>6. ProcessTypeOK'
  BY DEF CommitStop, IInv, TypeOK, ProcessTypeOK
<1>7. SupervisorTypeOK'
  BY <1>1, <1>3, <1>4 DEF CommitStop, IInv, TypeOK, SupervisorTypeOK, Commit, Fails, durable
<1>8. WakeUpTypeOK'
  BY <1>4 DEF CommitStop, IInv, TypeOK, WakeUpTypeOK, timers, probing
<1>9. DaemonTypeOK'
  BY <1>2 DEF CommitStop, IInv, TypeOK, DaemonTypeOK, UsedType
<1>10. RowsAgree'
  BY <1>1, <1>3, <1>4 DEF IInv, RowsAgree, Commit, Fails, durable
<1>11. GoroutineInv'
  BY <1>1, <1>3, <1>4 DEF IInv, GoroutineInv, Commit, Fails
<1>. QED
  BY <1>5, <1>6, <1>7, <1>8, <1>9, <1>10, <1>11 DEF IInv, TypeOK

LEMMA RunReturnsInv == ASSUME IInv, RunReturns PROVE IInv'
<1>1. StoreTypeOK'
  BY DEF RunReturns, IInv, TypeOK, StoreTypeOK, durable
<1>2. ProcessTypeOK'
  BY DEF RunReturns, IInv, TypeOK, ProcessTypeOK
<1>3. SupervisorTypeOK'
  <2>1. events' \in Seq(Events) /\ Len(events') = 0
    BY DEF RunReturns
  <2>2. cur' = 0 /\ task' = row /\ attempts' = attempts /\ pc' = "off" /\ waitingSince' = FALSE
    BY DEF RunReturns, durable
  <2>3. Len(attempts) \in Nat /\ row \in Row
    BY DEF IInv, TypeOK, StoreTypeOK
  <2>4. Len(events') <= ChanCap
    BY <2>1, SupervisorAssumption
  <2>5. attempts' = attempts
    BY <2>2
  <2>6. cur' \in 0 .. Len(attempts')
    BY <2>2, <2>3, <2>5
  <2>. QED
    BY <2>1, <2>2, <2>3, <2>4, <2>6 DEF SupervisorTypeOK
<1>4. WakeUpTypeOK'
  BY DEF RunReturns, IInv, TypeOK, WakeUpTypeOK, timers, probing
<1>5. DaemonTypeOK'
  BY DEF RunReturns, IInv, TypeOK, DaemonTypeOK
<1>6. RowsAgree'
  BY DEF RunReturns, IInv, TypeOK, RowsAgree, durable
<1>7. GoroutineInv'
  BY DEF RunReturns, IInv, TypeOK, GoroutineInv, durable, goroutine
<1>. QED
  BY <1>1, <1>2, <1>3, <1>4, <1>5, <1>6, <1>7 DEF IInv, TypeOK

-----------------------------------------------------------------------------
\* Children, timers, probers and clients.

LEMMA ProcStType ==
  ASSUME procs \in Seq(Proc), NEW p \in DOMAIN procs,
         NEW s \in {"alive", "killed", "exited", "cleared", "gone", "orphan"}
  PROVE  /\ [procs EXCEPT ![p].st = s] \in Seq(Proc)
         /\ Len([procs EXCEPT ![p].st = s]) = Len(procs)
<1>1. p \in 1 .. Len(procs) /\ procs[p] \in Proc
  OBVIOUS
<1>2. [procs[p] EXCEPT !.st = s] \in Proc
  BY <1>1 DEF Proc
<1>. QED
  BY <1>1, <1>2

LEMMA ChildExitInv == ASSUME NEW p \in DOMAIN procs, IInv, ChildExit(p) PROVE IInv'
<1>1. StoreTypeOK' /\ SupervisorTypeOK' /\ RowsAgree' /\ GoroutineInv'
  BY FrameSameEvents DEF ChildExit
<1>2. ProcessTypeOK'
  <2>1. PICK s \in {"gone", "exited"} : procs' = [procs EXCEPT ![p].st = s]
    BY DEF ChildExit
  <2>. QED
    BY <2>1, ProcStType DEF ChildExit, IInv, TypeOK, ProcessTypeOK
<1>3. WakeUpTypeOK'
  BY DEF ChildExit, IInv, TypeOK, WakeUpTypeOK, timers, probing
<1>4. DaemonTypeOK'
  BY DEF ChildExit, IInv, TypeOK, DaemonTypeOK
<1>. QED
  BY <1>1, <1>2, <1>3, <1>4 DEF IInv, TypeOK

LEMMA ReapInv == ASSUME NEW p \in DOMAIN procs, IInv, Reap(p) PROVE IInv'
<1>1. StoreTypeOK' /\ SupervisorTypeOK' /\ RowsAgree' /\ GoroutineInv'
  BY FrameSameEvents DEF Reap
<1>2. ProcessTypeOK'
  <2>1. procs \in Seq(Proc) /\ Len(procs) \in Nat
    BY DEF IInv, TypeOK, ProcessTypeOK
  <2>2. procs' \in Seq(Proc) /\ Len(procs') = Len(procs)
    BY <2>1, ProcStType DEF Reap
  <2>3. handle' = 0
    BY DEF Reap
  <2>. QED
    BY <2>1, <2>2, <2>3 DEF ProcessTypeOK
<1>3. WakeUpTypeOK'
  BY DEF Reap, IInv, TypeOK, WakeUpTypeOK, timers, probing
<1>4. DaemonTypeOK'
  BY DEF Reap, IInv, TypeOK, DaemonTypeOK
<1>. QED
  BY <1>1, <1>2, <1>3, <1>4 DEF IInv, TypeOK

LEMMA PostExitInv == ASSUME NEW p \in DOMAIN procs, IInv, PostExit(p) PROVE IInv'
<1>1. Event("attempt_exit", p) \in Events
  BY EventType DEF EventTypes, IInv, TypeOK, ProcessTypeOK
<1>2. events' \in Seq(Events) /\ Len(events') <= ChanCap
  BY <1>1, PostType DEF PostExit, IInv, TypeOK
<1>3. StoreTypeOK' /\ SupervisorTypeOK' /\ RowsAgree' /\ GoroutineInv'
  BY <1>2, Frame DEF PostExit
<1>4. ProcessTypeOK'
  BY ProcStType DEF PostExit, IInv, TypeOK, ProcessTypeOK
<1>5. WakeUpTypeOK'
  BY DEF PostExit, IInv, TypeOK, WakeUpTypeOK, timers, probing
<1>6. DaemonTypeOK'
  BY DEF PostExit, IInv, TypeOK, DaemonTypeOK
<1>. QED
  BY <1>3, <1>4, <1>5, <1>6 DEF IInv, TypeOK

LEMMA TickInv == ASSUME IInv, Tick PROVE IInv'
<1>1. StoreTypeOK' /\ SupervisorTypeOK' /\ RowsAgree' /\ GoroutineInv'
  BY FrameSameEvents DEF Tick
<1>2. ProcessTypeOK'
  BY DEF Tick, IInv, TypeOK, ProcessTypeOK
<1>3. WakeUpTypeOK'
  BY DEF Tick, IInv, TypeOK, WakeUpTypeOK, timers, probing
<1>4. DaemonTypeOK'
  BY DEF Tick, IInv, TypeOK, DaemonTypeOK
<1>. QED
  BY <1>1, <1>2, <1>3, <1>4 DEF IInv, TypeOK

LEMMA StepBackInv == ASSUME IInv, StepBack PROVE IInv'
<1>1. StoreTypeOK' /\ SupervisorTypeOK' /\ RowsAgree' /\ GoroutineInv'
  BY FrameSameEvents DEF StepBack
<1>2. ProcessTypeOK'
  BY DEF StepBack, IInv, TypeOK, ProcessTypeOK
<1>3. WakeUpTypeOK'
  BY DEF StepBack, IInv, TypeOK, WakeUpTypeOK, timers, probing
<1>4. DaemonTypeOK'
  BY SupervisorAssumption DEF StepBack, IInv, TypeOK, DaemonTypeOK
<1>. QED
  BY <1>1, <1>2, <1>3, <1>4 DEF IInv, TypeOK

LEMMA TimerExpiresInv == ASSUME IInv, TimerExpires PROVE IInv'
<1>1. StoreTypeOK' /\ SupervisorTypeOK' /\ RowsAgree' /\ GoroutineInv'
  BY FrameSameEvents DEF TimerExpires
<1>2. ProcessTypeOK'
  BY DEF TimerExpires, IInv, TypeOK, ProcessTypeOK
<1>3. WakeUpTypeOK'
  BY DEF TimerExpires, ClaimTimer, IInv, TypeOK, WakeUpTypeOK, WaitNo, probing
<1>4. DaemonTypeOK'
  BY DEF TimerExpires, IInv, TypeOK, DaemonTypeOK
<1>. QED
  BY <1>1, <1>2, <1>3, <1>4 DEF IInv, TypeOK

LEMMA PostTimerFireInv == ASSUME NEW w \in firing, IInv, PostTimerFire(w) PROVE IInv'
<1>1. Event("timer_fire", w) \in Events
  BY EventType DEF EventTypes, IInv, TypeOK, WakeUpTypeOK, WaitNo
<1>2. events' \in Seq(Events) /\ Len(events') <= ChanCap
  BY <1>1, PostType DEF PostTimerFire, IInv, TypeOK
<1>3. StoreTypeOK' /\ SupervisorTypeOK' /\ RowsAgree' /\ GoroutineInv'
  BY <1>2, Frame DEF PostTimerFire
<1>4. ProcessTypeOK'
  BY DEF PostTimerFire, IInv, TypeOK, ProcessTypeOK
<1>5. WakeUpTypeOK'
  BY DEF PostTimerFire, DeliverFire, IInv, TypeOK, WakeUpTypeOK, WaitNo, probing
<1>6. DaemonTypeOK'
  BY DEF PostTimerFire, IInv, TypeOK, DaemonTypeOK
<1>. QED
  BY <1>3, <1>4, <1>5, <1>6 DEF IInv, TypeOK

LEMMA ProbeSucceedsInv == ASSUME NEW w \in Waits, IInv, ProbeSucceeds(w) PROVE IInv'
<1>1. StoreTypeOK' /\ SupervisorTypeOK' /\ RowsAgree' /\ GoroutineInv'
  BY FrameSameEvents DEF ProbeSucceeds
<1>2. ProcessTypeOK'
  BY DEF ProbeSucceeds, IInv, TypeOK, ProcessTypeOK
<1>3. WakeUpTypeOK'
  <2>1. w \in WaitNo
    BY DEF Waits, IInv, TypeOK, WakeUpTypeOK
  <2>. QED
    BY <2>1 DEF ProbeSucceeds, IInv, TypeOK, WakeUpTypeOK, timers
<1>4. DaemonTypeOK'
  BY DEF ProbeSucceeds, IInv, TypeOK, DaemonTypeOK
<1>. QED
  BY <1>1, <1>2, <1>3, <1>4 DEF IInv, TypeOK

LEMMA PostAvailabilityInv == ASSUME NEW w \in Waits, IInv, PostAvailability(w) PROVE IInv'
<1>1. Event("availability_ok", w) \in Events
  <2>1. w \in WaitNo
    BY DEF Waits, IInv, TypeOK, WakeUpTypeOK
  <2>. QED
    BY <2>1, EventType DEF EventTypes, WaitNo
<1>2. events' \in Seq(Events) /\ Len(events') <= ChanCap
  <2>1. events \in Seq(Events) /\ Len(events) <= ChanCap
    BY DEF IInv, TypeOK, SupervisorTypeOK
  <2>2. \/ Len(events) < ChanCap /\ events' = Append(events, Event("availability_ok", w))
        \/ events' = events
    BY DEF PostAvailability
  <2>. QED
    BY <1>1, <2>1, <2>2, SupervisorAssumption
<1>3. StoreTypeOK' /\ SupervisorTypeOK' /\ RowsAgree' /\ GoroutineInv'
  BY <1>2, Frame DEF PostAvailability
<1>4. ProcessTypeOK'
  BY DEF PostAvailability, IInv, TypeOK, ProcessTypeOK
<1>5. WakeUpTypeOK'
  BY DEF PostAvailability, IInv, TypeOK, WakeUpTypeOK, timers, probing
<1>6. DaemonTypeOK'
  BY DEF PostAvailability, IInv, TypeOK, DaemonTypeOK
<1>. QED
  BY <1>3, <1>4, <1>5, <1>6 DEF IInv, TypeOK

LEMMA ProberEndsInv == ASSUME NEW w \in Waits, IInv, ProberEnds(w) PROVE IInv'
<1>1. StoreTypeOK' /\ SupervisorTypeOK' /\ RowsAgree' /\ GoroutineInv'
  BY FrameSameEvents DEF ProberEnds
<1>2. ProcessTypeOK'
  BY DEF ProberEnds, IInv, TypeOK, ProcessTypeOK
<1>3. WakeUpTypeOK'
  BY DEF ProberEnds, IInv, TypeOK, WakeUpTypeOK, timers, probing
<1>4. DaemonTypeOK'
  BY DEF ProberEnds, IInv, TypeOK, DaemonTypeOK
<1>. QED
  BY <1>1, <1>2, <1>3, <1>4 DEF IInv, TypeOK

LEMMA AcceptInv == ASSUME NEW c \in Clients, NEW a \in UserActions, IInv, Accept(c, a) PROVE IInv'
<1>1. StoreTypeOK' /\ SupervisorTypeOK' /\ RowsAgree' /\ GoroutineInv'
  BY FrameSameEvents DEF Accept
<1>2. ProcessTypeOK'
  BY DEF Accept, IInv, TypeOK, ProcessTypeOK
<1>3. WakeUpTypeOK'
  BY DEF Accept, IInv, TypeOK, WakeUpTypeOK, timers, probing
<1>4. DaemonTypeOK'
  <2>1. /\ used \in UsedType /\ used.user < MaxUser /\ MaxUser \in Nat
        /\ used' = [used EXCEPT !.user = @ + 1,
                                !.resume = IF a = "user_resume" THEN @ + 1 ELSE @]
    BY SupervisorAssumption DEF Accept, IInv, TypeOK, DaemonTypeOK, UsedType
  <2>2. used.user + 1 \in 0 .. MaxUser /\ used.resume + 1 \in Nat
    BY <2>1 DEF UsedType
  <2>3. used' \in UsedType
    <3>1. CASE a = "user_resume"
      BY <2>1, <2>2, <3>1 DEF UsedType
    <3>2. CASE a # "user_resume"
      BY <2>1, <2>2, <3>2 DEF UsedType
    <3> QED
      BY <3>1, <3>2
  <2> QED
    BY <2>3, SupervisorAssumption DEF Accept, IInv, TypeOK, DaemonTypeOK, UsedType
<1>. QED
  BY <1>1, <1>2, <1>3, <1>4 DEF IInv, TypeOK

LEMMA PostUserInv == ASSUME NEW c \in Clients, IInv, PostUser(c) PROVE IInv'
<1>1. Event(req[c], 0) \in Events
  BY EventType DEF PostUser, EventTypes, IInv, TypeOK, DaemonTypeOK
<1>2. events' \in Seq(Events) /\ Len(events') <= ChanCap
  BY <1>1, PostType DEF PostUser, IInv, TypeOK
<1>3. StoreTypeOK' /\ SupervisorTypeOK' /\ RowsAgree' /\ GoroutineInv'
  BY <1>2, Frame DEF PostUser
<1>4. ProcessTypeOK'
  BY DEF PostUser, IInv, TypeOK, ProcessTypeOK
<1>5. WakeUpTypeOK'
  BY DEF PostUser, IInv, TypeOK, WakeUpTypeOK, timers, probing
<1>6. DaemonTypeOK'
  BY DEF PostUser, IInv, TypeOK, DaemonTypeOK
<1>. QED
  BY <1>3, <1>4, <1>5, <1>6 DEF IInv, TypeOK

-----------------------------------------------------------------------------
\* The daemon.

LEMMA ShutdownInv == ASSUME IInv, Shutdown PROVE IInv'
<1>1. StoreTypeOK' /\ SupervisorTypeOK' /\ RowsAgree' /\ GoroutineInv'
  BY FrameSameEvents DEF Shutdown
<1>2. ProcessTypeOK'
  BY KillType DEF Shutdown, IInv, TypeOK, ProcessTypeOK
<1>3. WakeUpTypeOK'
  BY DEF Shutdown, IInv, TypeOK, WakeUpTypeOK, timers, probing
<1>4. DaemonTypeOK'
  <2>1. used' \in UsedType
    BY SupervisorAssumption DEF Shutdown, IInv, TypeOK, DaemonTypeOK, UsedType
  <2>. QED
    BY <2>1 DEF Shutdown, IInv, TypeOK, DaemonTypeOK, UsedType
<1>. QED
  BY <1>1, <1>2, <1>3, <1>4 DEF IInv, TypeOK

LEMMA BeginCloseInv == ASSUME IInv, BeginClose PROVE IInv'
<1>1. StoreTypeOK' /\ SupervisorTypeOK' /\ RowsAgree' /\ GoroutineInv'
  BY FrameSameEvents DEF BeginClose
<1>2. ProcessTypeOK'
  BY DEF BeginClose, IInv, TypeOK, ProcessTypeOK
<1>3. WakeUpTypeOK'
  BY DEF BeginClose, CancelTimer, IInv, TypeOK, WakeUpTypeOK, probing
<1>4. DaemonTypeOK'
  BY DEF BeginClose, IInv, TypeOK, DaemonTypeOK
<1>. QED
  BY <1>1, <1>2, <1>3, <1>4 DEF IInv, TypeOK

\* A daemon that has lost its memory satisfies the invariant whatever was in it.
LEMMA LoseMemoryFacts ==
  ASSUME IInv, LoseMemory, UNCHANGED <<row, attempts>>
  PROVE  /\ StoreTypeOK' /\ SupervisorTypeOK' /\ RowsAgree' /\ GoroutineInv'
         /\ daemon' = "down" /\ req' \in [Clients -> AllUserActions \cup {"none"}]
         /\ handle' = 0 /\ timer' = 0 /\ firing' = {} /\ prober' = 0 /\ probes' = {}
<1>1. StoreTypeOK' /\ RowsAgree'
  BY DEF IInv, TypeOK, StoreTypeOK, RowsAgree
<1>2. SupervisorTypeOK'
  <2>1. events' \in Seq(Events) /\ Len(events') = 0
    BY DEF LoseMemory
  <2>2. cur' = 0 /\ task' = row /\ pc' = "off" /\ waitingSince' = FALSE
    BY DEF LoseMemory
  <2>3. Len(attempts) \in Nat /\ row \in Row
    BY DEF IInv, TypeOK, StoreTypeOK
  <2>4. Len(events') <= ChanCap
    BY <2>1, SupervisorAssumption
  <2>5. attempts' = attempts
    OBVIOUS
  <2>6. cur' \in 0 .. Len(attempts')
    BY <2>2, <2>3, <2>5
  <2>. QED
    BY <2>1, <2>2, <2>3, <2>4, <2>6 DEF SupervisorTypeOK
<1>3. GoroutineInv'
  BY DEF LoseMemory, GoroutineInv
<1>. QED
  BY <1>1, <1>2, <1>3 DEF LoseMemory

LEMMA CloseReturnsInv == ASSUME IInv, CloseReturns PROVE IInv'
<1>1. /\ StoreTypeOK' /\ SupervisorTypeOK' /\ RowsAgree' /\ GoroutineInv'
      /\ daemon' = "down" /\ req' \in [Clients -> AllUserActions \cup {"none"}]
      /\ handle' = 0 /\ timer' = 0 /\ firing' = {} /\ prober' = 0 /\ probes' = {}
  BY LoseMemoryFacts DEF CloseReturns, durable
<1>2. ProcessTypeOK'
  BY <1>1 DEF CloseReturns, IInv, TypeOK, ProcessTypeOK
<1>3. WakeUpTypeOK'
  BY <1>1 DEF CloseReturns, IInv, TypeOK, WakeUpTypeOK
<1>4. DaemonTypeOK'
  BY <1>1 DEF CloseReturns, IInv, TypeOK, DaemonTypeOK
<1>. QED
  BY <1>1, <1>2, <1>3, <1>4 DEF IInv, TypeOK

LEMMA CrashInv == ASSUME IInv, Crash PROVE IInv'
<1>1. /\ StoreTypeOK' /\ SupervisorTypeOK' /\ RowsAgree' /\ GoroutineInv'
      /\ daemon' = "down" /\ req' \in [Clients -> AllUserActions \cup {"none"}]
      /\ handle' = 0 /\ timer' = 0 /\ firing' = {} /\ prober' = 0 /\ probes' = {}
  BY LoseMemoryFacts DEF Crash, durable
<1>2. ProcessTypeOK'
  <2>1. \A p \in 1 .. Len(procs) : procs[p] \in Proc
    BY DEF IInv, TypeOK, ProcessTypeOK
  <2>2. \A p \in 1 .. Len(procs) :
          [procs[p] EXCEPT !.st = IF @ \in {"alive", "orphan"} THEN "orphan" ELSE "gone"] \in Proc
    BY <2>1 DEF Proc
  <2>3. procs' = [p \in 1 .. Len(procs) |->
          [procs[p] EXCEPT !.st = IF @ \in {"alive", "orphan"} THEN "orphan" ELSE "gone"]]
    BY DEF Crash, IInv, TypeOK, ProcessTypeOK
  <2>4. procs' \in Seq(Proc) /\ Len(procs') = Len(procs) /\ Len(procs) \in Nat
    BY <2>2, <2>3 DEF IInv, TypeOK, ProcessTypeOK
  <2>. QED
    BY <1>1, <2>4 DEF ProcessTypeOK
<1>3. WakeUpTypeOK'
  BY <1>1 DEF Crash, IInv, TypeOK, WakeUpTypeOK
<1>4. DaemonTypeOK'
  <2>1. used' \in UsedType
    BY SupervisorAssumption DEF Crash, IInv, TypeOK, DaemonTypeOK, UsedType
  <2>. QED
    BY <1>1, <2>1 DEF DaemonTypeOK, UsedType
<1>. QED
  BY <1>1, <1>2, <1>3, <1>4 DEF IInv, TypeOK

\* recoverInterrupted rewrites one attempt row at most, and only its outcome.
LEMMA InterruptedType ==
  ASSUME StoreTypeOK
  PROVE  /\ Interrupted \in Seq({"open", "INTERRUPTED"} \cup AllOutcomes)
         /\ Len(Interrupted) = Len(attempts)
<1>1. /\ Len(attempts) \in Nat /\ DOMAIN attempts = 1 .. Len(attempts)
      /\ \A n \in 1 .. Len(attempts) : attempts[n] \in {"open", "INTERRUPTED"} \cup AllOutcomes
  BY DEF StoreTypeOK
<1>2. \A n \in 1 .. Len(attempts) :
        (IF n \in OpenAttempts /\ \A m \in OpenAttempts : n <= m
         THEN "INTERRUPTED" ELSE attempts[n]) \in {"open", "INTERRUPTED"} \cup AllOutcomes
  BY <1>1
<1>. QED
  BY <1>1, <1>2 DEF Interrupted

\* What each case of reconcileTask leaves behind.
LEMMA ReconcileFacts ==
  ASSUME IInv,
         \/ ReconcileRunning \/ ReconcileWaiting \/ ReconcilePending
         \/ ReconcilePaused \/ ReconcileNothing
  PROVE  /\ StoreTypeOK' /\ SupervisorTypeOK' /\ RowsAgree' /\ GoroutineInv'
         /\ due' \in {"early", "ripe", "due"} /\ timer' \in Nat /\ firing' = firing
         /\ used' \in UsedType
<1>1. /\ row \in Row /\ row.total = Len(attempts) /\ StoreTypeOK /\ Len(attempts) \in Nat
      /\ cur \in 0 .. Len(attempts) /\ waitingSince \in BOOLEAN
      /\ events \in Seq(Events) /\ Len(events) <= ChanCap
      /\ due \in {"early", "ripe", "due"} /\ timer \in Nat /\ used \in UsedType
      /\ RowsAgree
  BY DEF IInv, TypeOK, StoreTypeOK, SupervisorTypeOK, WakeUpTypeOK, DaemonTypeOK, UsedType,
         RowsAgree
<1>2. CASE ReconcileRunning
  <2>1. row' \in Row /\ row'.status = "WAITING" /\ row'.wake = TRUE /\ row'.total = row.total
    BY <1>1, <1>2 DEF ReconcileRunning, Row, Statuses
  <2>2. /\ attempts' \in Seq({"open", "INTERRUPTED"} \cup AllOutcomes)
        /\ Len(attempts') = Len(attempts)
    BY <1>1, <1>2, InterruptedType DEF ReconcileRunning
  <2>3. pc' = "select" /\ task' = row' /\ UNCHANGED <<cur, waitingSince, events, used>>
    BY <1>2 DEF ReconcileRunning, FreshRuntime
  <2>4. due' \in {"early", "due"} /\ timer' = row.total /\ firing' = firing
    BY <1>2 DEF ReconcileRunning, ArmTimer
  <2>5. StoreTypeOK'
    BY <2>1, <2>2 DEF StoreTypeOK
  <2>6. SupervisorTypeOK'
    BY <1>1, <2>1, <2>2, <2>3 DEF SupervisorTypeOK
  <2>7. RowsAgree'
    BY <1>1, <2>1, <2>2 DEF RowsAgree
  <2>8. GoroutineInv'
    BY <2>1, <2>3 DEF GoroutineInv
  <2>. QED
    BY <1>1, <2>3, <2>4, <2>5, <2>6, <2>7, <2>8
<1>3. CASE ReconcileWaiting \/ ReconcilePending \/ ReconcilePaused
  <2>1. /\ row' = row /\ attempts' = attempts /\ row.status # "RUNNING"
        /\ pc' = "select" /\ task' = row /\ UNCHANGED <<cur, waitingSince, used>>
    BY <1>3 DEF ReconcileWaiting, ReconcilePending, ReconcilePaused, FreshRuntime, durable
  <2>2. events' = events \/ events' = <<Event("start", 0)>>
    BY <1>3 DEF ReconcileWaiting, ReconcilePending, ReconcilePaused
  <2>3. Event("start", 0) \in Events
    BY EventType DEF EventTypes
  <2>4. events' \in Seq(Events) /\ Len(events') <= ChanCap
    <3>1. CASE events' = events
      BY <1>1, <3>1
    <3>2. CASE events' = <<Event("start", 0)>>
      <4>1. events' \in Seq(Events) /\ Len(events') = 1
        BY <2>3, <3>2
      <4>. QED
        BY <4>1, SupervisorAssumption
    <3>. QED
      BY <2>2, <3>1, <3>2
  <2>5. due' \in {"early", "ripe", "due"} /\ timer' \in Nat /\ firing' = firing
    BY <1>1, <1>3 DEF ReconcileWaiting, ReconcilePending, ReconcilePaused, ArmTimer, timers, Row
  <2>6. StoreTypeOK' /\ RowsAgree'
    BY <1>1, <2>1 DEF StoreTypeOK, RowsAgree
  <2>7. SupervisorTypeOK'
    BY <1>1, <2>1, <2>4 DEF SupervisorTypeOK
  <2>8. GoroutineInv'
    BY <2>1 DEF GoroutineInv
  <2>. QED
    BY <1>1, <2>1, <2>5, <2>6, <2>7, <2>8
<1>4. CASE ReconcileNothing
  <2>1. UNCHANGED <<durable, goroutine, events, timer, firing, due>>
    BY <1>4 DEF ReconcileNothing, timers
  <2>2. StoreTypeOK' /\ SupervisorTypeOK' /\ RowsAgree' /\ GoroutineInv'
    BY <2>1, FrameSameEvents
  <2>3. used' \in UsedType
    BY <1>1, <1>4, FaultType DEF ReconcileNothing, IInv, TypeOK
  <2>. QED
    BY <1>1, <2>1, <2>2, <2>3
<1>. QED
  BY <1>2, <1>3, <1>4

LEMMA RestartInv == ASSUME IInv, Restart PROVE IInv'
<1>1. /\ StoreTypeOK' /\ SupervisorTypeOK' /\ RowsAgree' /\ GoroutineInv'
      /\ due' \in {"early", "ripe", "due"} /\ timer' \in Nat /\ firing' = firing
      /\ used' \in UsedType
  BY ReconcileFacts DEF Restart
<1>2. ProcessTypeOK'
  BY DEF Restart, IInv, TypeOK, ProcessTypeOK
<1>3. WakeUpTypeOK'
  BY <1>1 DEF Restart, IInv, TypeOK, WakeUpTypeOK, probing
<1>4. DaemonTypeOK'
  BY <1>1 DEF Restart, IInv, TypeOK, DaemonTypeOK, UsedType
<1>. QED
  BY <1>1, <1>2, <1>3, <1>4 DEF IInv, TypeOK

-----------------------------------------------------------------------------
\* The theorems.

LEMMA NextIInv == IInv /\ [Next]_vars => IInv'
<1> SUFFICES ASSUME IInv, [Next]_vars PROVE IInv'
  OBVIOUS
<1>1. CASE SupervisorStep
  BY <1>1, IgnoreInv, SpawnInv, CommitSpawnInv, FinishInv, ScheduleInv, RecordPausedExitInv,
     PauseInv, StopKillInv, CommitStopInv, RunReturnsInv DEF SupervisorStep
<1>2. CASE SupervisorFault
  BY <1>2, CommitSpawnFailsInv, SpawnFailsInv, ExitFailsInv DEF SupervisorFault
<1>3. CASE \E p \in DOMAIN procs : ChildExit(p) \/ Reap(p) \/ PostExit(p)
  BY <1>3, ChildExitInv, ReapInv, PostExitInv
<1>4. CASE Tick \/ StepBack \/ TimerExpires \/ \E w \in firing : PostTimerFire(w)
  BY <1>4, TickInv, StepBackInv, TimerExpiresInv, PostTimerFireInv
<1>5. CASE \E w \in Waits : ProbeSucceeds(w) \/ PostAvailability(w) \/ ProberEnds(w)
  BY <1>5, ProbeSucceedsInv, PostAvailabilityInv, ProberEndsInv
<1>6. CASE \E c \in Clients : PostUser(c) \/ \E a \in UserActions : Accept(c, a)
  BY <1>6, PostUserInv, AcceptInv
<1>7. CASE Shutdown \/ BeginClose \/ CloseReturns \/ Crash \/ Restart
  BY <1>7, ShutdownInv, BeginCloseInv, CloseReturnsInv, CrashInv, RestartInv
<1>8. CASE UNCHANGED vars
  <2>1. UNCHANGED <<durable, goroutine, events>>
    BY <1>8 DEF vars, durable, goroutine
  <2>2. StoreTypeOK' /\ SupervisorTypeOK' /\ RowsAgree' /\ GoroutineInv'
    BY <2>1, FrameSameEvents
  <2>3. ProcessTypeOK' /\ WakeUpTypeOK' /\ DaemonTypeOK'
    BY <1>8 DEF vars, IInv, TypeOK, ProcessTypeOK, WakeUpTypeOK, DaemonTypeOK
  <2>. QED
    BY <2>2, <2>3 DEF IInv, TypeOK
<1>. QED
  BY <1>1, <1>2, <1>3, <1>4, <1>5, <1>6, <1>7, <1>8 DEF Next

\* IInv is an inductive invariant.
LEMMA AlwaysIInv == Spec => []IInv
<1>1. Init => IInv
  BY InitIInv
<1>2. IInv /\ [Next]_vars => IInv'
  BY NextIInv
<1>. QED
  BY <1>1, <1>2, PTL DEF Spec

\* Every variable keeps its type: the event channel its capacity, the runtime's
\* handle and s.currentAttempt denote a child and an attempt row that exist.
THEOREM TypeCorrect == Spec => []TypeOK
<1>1. IInv => TypeOK
  BY DEF IInv
<1>. QED
  BY <1>1, AlwaysIInv, PTL

\* The tasks row and the attempts rows agree in every reachable state, whatever
\* crashes, failed transactions and interleavings led there.
THEOREM RowsAlwaysAgree == Spec => []RowsAgree
<1>1. IInv => RowsAgree
  BY DEF IInv
<1>. QED
  BY <1>1, AlwaysIInv, PTL

\* Whenever the supervisor decides, it decides on the committed task.
THEOREM MemoryIsAlwaysStore == Spec => []MemoryIsStore
<1>1. IInv => MemoryIsStore
  BY DEF IInv, GoroutineInv, MemoryIsStore
<1>. QED
  BY <1>1, AlwaysIInv, PTL

-----------------------------------------------------------------------------
\* The lifecycle is implemented: every step is a lifecycle step or a stutter.

LStep == Lifecycle!LifecycleNext \/ UNCHANGED Lifecycle!LifecycleVars

\* Only a transaction changes what a client sees.
LEMMA LStutter == ASSUME row' = row PROVE LStep
BY DEF LStep, Lifecycle!LifecycleVars

\* The transitions of the supervisor goroutine.
LEMMA SupervisorRefines == ASSUME IInv, SupervisorStep PROVE LStep
<1>1. CASE Ignore \/ Spawn \/ StopKill \/ RunReturns
  <2>1. row' = row
    BY <1>1 DEF Ignore, Spawn, StopKill, RunReturns, Fails, durable
  <2>. QED
    BY <2>1, LStutter
<1>2. CASE CommitSpawn
  <2>1. /\ row.status \in {"PENDING", "WAITING", "PAUSED"}
        /\ task \in Row /\ task.total = row.total
    BY <1>2 DEF CommitSpawn, IInv, TypeOK, SupervisorTypeOK, GoroutineInv
  <2>2. row'.status = "RUNNING" /\ row'.total = row.total + 1
    BY <1>2, <2>1 DEF CommitSpawn, Commit, To, Row
  <2>3. Lifecycle!StartAttempt
    BY <2>1, <2>2 DEF Lifecycle!StartAttempt
  <2>. QED
    BY <2>3 DEF LStep, Lifecycle!LifecycleNext, Lifecycle!DocumentedNext
<1>3. CASE Schedule \/ \E s \in {"SUCCEEDED", "FAILED"} : Finish(s)
  <2>1. task = row /\ task \in Row /\ row.status = "RUNNING"
    BY <1>3, ExitFacts DEF Schedule, Finish
  <2>2. row'.status \in {"SUCCEEDED", "FAILED", "WAITING"} /\ row'.total = row.total
    BY <1>3, <2>1 DEF Schedule, Finish, Commit, To, Row
  <2>3. Lifecycle!EndAttempt
    BY <2>1, <2>2 DEF Lifecycle!EndAttempt
  <2>. QED
    BY <2>3 DEF LStep, Lifecycle!LifecycleNext, Lifecycle!DocumentedNext
<1>4. CASE RecordPausedExit
  <2>1. row' = row
    BY <1>4, ExitFacts DEF RecordPausedExit, Commit
  <2>. QED
    BY <2>1, LStutter
<1>5. CASE Pause
  <2>1. CASE Fails
    BY <2>1, LStutter DEF Fails, durable
  <2>2. CASE Commit(To(AccountWait(task), "PAUSED"), attempts)
    <3>1. /\ task = row /\ task \in Row /\ task.status \in {"RUNNING", "WAITING"}
      <4>1. "user_pause" \in EventTypes /\ Accepts["user_pause"] = {"RUNNING", "WAITING"}
        BY DEF EventTypes, AllUserActions, Accepts
      <4>2. SupervisorTypeOK /\ (pc = "select" => task = row)
        BY DEF IInv, TypeOK, GoroutineInv
      <4>3. pc = "select" /\ task.status \in {"RUNNING", "WAITING"}
        BY <1>5, <4>1, <4>2, TakeFacts DEF Pause
      <4>. QED
        BY <4>2, <4>3 DEF SupervisorTypeOK
    <3>2. row'.status = "PAUSED" /\ row'.total = row.total
      <4>1. AccountWait(task) \in Row /\ AccountWait(task).total = task.total
        BY <3>1, AccountRow
      <4>2. "PAUSED" \in Statuses
        BY DEF Statuses
      <4>. QED
        BY <2>2, <3>1, <4>1, <4>2, ToRow DEF Commit
    <3>3. Lifecycle!UserPause
      BY <3>1, <3>2 DEF Lifecycle!UserPause
    <3>. QED
      BY <3>3 DEF LStep, Lifecycle!LifecycleNext, Lifecycle!DocumentedNext
  <2>. QED
    BY <1>5, <2>1, <2>2 DEF Pause
<1>6. CASE CommitStop
  <2>1. CASE Fails
    BY <2>1, LStutter DEF Fails, durable
  <2>2. CASE Commit(To(task, "STOPPED"), attempts)
    <3>1. task = row /\ task \in Row /\ ~Terminal(row.status)
      BY <1>6 DEF CommitStop, IInv, TypeOK, SupervisorTypeOK, GoroutineInv
    <3>2. row'.status = "STOPPED" /\ row'.total = row.total
      BY <2>2, <3>1 DEF Commit, To, Row
    <3>3. row.status \in Lifecycle!Live
      BY <3>1 DEF Lifecycle!Live, Terminal, Row, Statuses
    <3>4. Lifecycle!UserStop
      BY <3>2, <3>3 DEF Lifecycle!UserStop
    <3>. QED
      BY <3>4 DEF LStep, Lifecycle!LifecycleNext, Lifecycle!DocumentedNext
  <2>. QED
    BY <1>6, <2>1, <2>2 DEF CommitStop
<1>. QED
  BY <1>1, <1>2, <1>3, <1>4, <1>5, <1>6 DEF SupervisorStep

\* The failures: only a Spawn that fails is visible.
LEMMA FaultRefines == ASSUME IInv, SupervisorFault PROVE LStep
<1>1. CASE CommitSpawnFails \/ ExitFails
  BY <1>1, LStutter DEF CommitSpawnFails, ExitFails, Fails, durable
<1>2. CASE SpawnFails
  <2>1. CASE Fails
    BY <2>1, LStutter DEF Fails, durable
  <2>2. CASE Commit(To(AccountWait(task), "FAILED"), attempts)
    <3>1. task = row /\ task.status \in {"PENDING", "WAITING", "PAUSED"}
      BY <1>2, BeginFacts DEF SpawnFails
    <3>2. AccountWait(task) \in Row /\ AccountWait(task).total = task.total
      BY AccountRow DEF IInv, TypeOK, SupervisorTypeOK
    <3>3. "FAILED" \in Statuses
      BY DEF Statuses
    <3>4. row'.status = "FAILED" /\ row'.total = row.total
      BY <2>2, <3>1, <3>2, <3>3, ToRow DEF Commit
    <3>5. Lifecycle!CannotStart
      BY <3>1, <3>4 DEF Lifecycle!CannotStart
    <3>. QED
      BY <3>5 DEF LStep, Lifecycle!LifecycleNext
  <2>. QED
    BY <1>2, <2>1, <2>2 DEF SpawnFails
<1>. QED
  BY <1>1, <1>2 DEF SupervisorFault

\* A restart that finds the task RUNNING ends its attempt.
LEMMA RestartRefines == ASSUME IInv, Restart PROVE LStep
<1>1. CASE ReconcileRunning
  <2>1. row \in Row
    BY DEF IInv, TypeOK, StoreTypeOK
  <2>2. row.status = "RUNNING" /\ row'.status = "WAITING" /\ row'.total = row.total
    BY <1>1, <2>1 DEF ReconcileRunning, Row
  <2>3. Lifecycle!EndAttempt
    BY <2>2 DEF Lifecycle!EndAttempt
  <2>. QED
    BY <2>3 DEF LStep, Lifecycle!LifecycleNext, Lifecycle!DocumentedNext
<1>2. CASE ReconcileWaiting \/ ReconcilePending \/ ReconcilePaused \/ ReconcileNothing
  BY <1>2, LStutter DEF ReconcileWaiting, ReconcilePending, ReconcilePaused, ReconcileNothing, durable
<1>. QED
  BY <1>1, <1>2 DEF Restart

LEMMA NextRefines == IInv /\ [Next]_vars => [Lifecycle!LifecycleNext]_(Lifecycle!LifecycleVars)
<1> SUFFICES ASSUME IInv, [Next]_vars PROVE LStep
  BY DEF LStep
<1>1. CASE SupervisorStep \/ SupervisorFault
  BY <1>1, SupervisorRefines, FaultRefines
<1>2. CASE \E p \in DOMAIN procs : ChildExit(p) \/ Reap(p) \/ PostExit(p)
  BY <1>2, LStutter DEF ChildExit, Reap, PostExit, durable
<1>3. CASE Tick \/ StepBack \/ TimerExpires \/ \E w \in firing : PostTimerFire(w)
  BY <1>3, LStutter DEF Tick, StepBack, TimerExpires, PostTimerFire, durable
<1>4. CASE \E w \in Waits : ProbeSucceeds(w) \/ PostAvailability(w) \/ ProberEnds(w)
  BY <1>4, LStutter DEF ProbeSucceeds, PostAvailability, ProberEnds, durable
<1>5. CASE \E c \in Clients : PostUser(c) \/ \E a \in UserActions : Accept(c, a)
  BY <1>5, LStutter DEF PostUser, Accept, durable
<1>6. CASE Shutdown \/ BeginClose \/ CloseReturns \/ Crash
  BY <1>6, LStutter DEF Shutdown, BeginClose, CloseReturns, Crash, durable
<1>7. CASE Restart
  BY <1>7, RestartRefines
<1>8. CASE UNCHANGED vars
  BY <1>8, LStutter DEF vars
<1>. QED
  BY <1>1, <1>2, <1>3, <1>4, <1>5, <1>6, <1>7, <1>8 DEF Next

\* What a client sees of a Task is its lifecycle: no late event, no restart and
\* no failure brings a finished task back, starts two attempts at once, or
\* takes a transition that is not in the table.
THEOREM SupervisorImplementsLifecycle == Spec => ImplementsLifecycle
<1>1. Init => Lifecycle!LifecycleInit
  BY DEF Init, Lifecycle!LifecycleInit
<1>2. IInv /\ [Next]_vars => [Lifecycle!LifecycleNext]_(Lifecycle!LifecycleVars)
  BY NextRefines
<1>. QED
  BY <1>1, <1>2, AlwaysIInv, PTL DEF Spec, ImplementsLifecycle, Lifecycle!LifecycleSpec

-----------------------------------------------------------------------------
\* Whether a channel holds an event.
Holds(s, e) == \E i \in DOMAIN s : s[i] = e

LEMMA HoldsTail ==
  ASSUME NEW s \in Seq(Events), s # <<>>, NEW e
  PROVE  /\ Holds(Tail(s), e) => Holds(s, e)
         /\ Holds(s, e) /\ Head(s) # e => Holds(Tail(s), e)
<1>1. /\ Len(s) \in Nat /\ DOMAIN s = 1 .. Len(s) /\ Len(s) > 0
      /\ DOMAIN Tail(s) = 1 .. (Len(s) - 1)
      /\ \A i \in 1 .. (Len(s) - 1) : Tail(s)[i] = s[i + 1]
  OBVIOUS
<1>2. Holds(Tail(s), e) => Holds(s, e)
  <2> SUFFICES ASSUME NEW i \in 1 .. (Len(s) - 1), s[i + 1] = e PROVE Holds(s, e)
    BY <1>1 DEF Holds
  <2>1. i + 1 \in DOMAIN s
    BY <1>1
  <2> QED
    BY <2>1 DEF Holds
<1>3. ASSUME NEW i \in DOMAIN s, s[i] = e, Head(s) # e PROVE Holds(Tail(s), e)
  <2>1. i # 1 /\ i \in 1 .. Len(s)
    BY <1>1, <1>3
  <2>2. i - 1 \in DOMAIN Tail(s) /\ Tail(s)[i - 1] = s[i]
    BY <1>1, <2>1
  <2> QED
    BY <1>3, <2>2 DEF Holds
<1> QED
  BY <1>2, <1>3 DEF Holds

LEMMA HoldsAppend ==
  ASSUME NEW s \in Seq(Events), NEW e \in Events, NEW f
  PROVE  Holds(Append(s, e), f) <=> Holds(s, f) \/ f = e
<1>1. /\ Len(s) \in Nat /\ DOMAIN s = 1 .. Len(s)
      /\ DOMAIN Append(s, e) = 1 .. (Len(s) + 1)
      /\ Append(s, e)[Len(s) + 1] = e
      /\ \A i \in 1 .. Len(s) : Append(s, e)[i] = s[i]
  OBVIOUS
<1>2. \A i \in 1 .. (Len(s) + 1) : i \in 1 .. Len(s) \/ i = Len(s) + 1
  BY <1>1
<1>3. Len(s) + 1 \in 1 .. (Len(s) + 1) /\ 1 .. Len(s) \subseteq 1 .. (Len(s) + 1)
  BY <1>1
<1> QED
  BY <1>1, <1>2, <1>3 DEF Holds

\* Receiving an event leaves the others in the channel.
LEMMA TakeHolds ==
  ASSUME SupervisorTypeOK, events # <<>>, events' = Tail(events)
  PROVE  /\ \A e : Holds(events', e) => Holds(events, e)
         /\ \A e : Holds(events, e) /\ Head(events) # e => Holds(events', e)
BY HoldsTail DEF SupervisorTypeOK

\* A post adds its event to them, or is dropped.
LEMMA PostHolds ==
  ASSUME SupervisorTypeOK, NEW e \in Events, Post(e)
  PROVE  /\ \A f : Holds(events', f) => Holds(events, f) \/ f = e
         /\ \A f : Holds(events, f) => Holds(events', f)
         /\ Holds(events', e) \/ pc = "off" \/ daemon = "closing"
<1>1. CASE pc # "off" /\ Len(events) < ChanCap /\ events' = Append(events, e)
  BY <1>1, HoldsAppend DEF SupervisorTypeOK
<1>2. CASE (pc = "off" \/ daemon = "closing") /\ UNCHANGED events
  BY <1>2
<1> QED
  BY <1>1, <1>2 DEF Post

-----------------------------------------------------------------------------
\* Nothing a task lives on is lost.

\* While a daemon is down its memory is empty, and it has been up before.
DownInv ==
  /\ daemon = "down" => /\ pc = "off" /\ timer = 0 /\ firing = {}
                        /\ prober = 0 /\ probes = {} /\ handle = 0
  /\ daemon # "up" => ~NotRestarted
  /\ daemon \in {"stopping", "closing"} => used.shutdown > 0
  /\ pc = "off" => events = <<>> /\ probes = {}

Fired(k) == k \in firing \/ Holds(events, Event("timer_fire", k))

\* A wait has a timer of its own: none is left from an earlier attempt's wait
\* that could be taken for it, and one that has expired did so in time.
WakeInv ==
  /\ row.status \in {"RUNNING", "WAITING"} => row.total > 0
  /\ used.step = 0 => due # "ripe"
  /\ pc # "off" => \A k \in WaitNo : timer = k \/ Fired(k) =>
                     /\ k <= task.total
                     /\ task.status = "RUNNING" => k < task.total
  /\ pc = "select" /\ task.status = "WAITING" /\ used.step = 0 /\ Fired(Wait) => due = "due"
  /\ WakeUpPending

\* The child of the attempt that begins is on its way to its exit.
SpawnedInv ==
  /\ pc = "spawned" /\ Serving =>
       \E p \in DOMAIN procs : procs[p].no = task.total + 1 /\ Undelivered(p)
  /\ ExitPending

\* A task that does not wait holds no prober.
ProbeInv ==
  /\ pc = "select" /\ task.status \in {"PENDING", "RUNNING"} => prober = 0
  /\ pc = "spawned" => prober = 0
  /\ QuotaWaitIsProbed

\* A wait is timed until it is accounted.
AccountInv ==
  NotRestarted =>
    /\ pc = "select" /\ task.status = "WAITING" => waitingSince
    /\ pc = "spawned" => task.waits = row.waits + (IF row.status = "WAITING" THEN 1 ELSE 0)

LiveInv == DownInv /\ WakeInv /\ SpawnedInv /\ ProbeInv /\ AccountInv

\* The clock is not set back and the daemon is not stopped.
SameUse == /\ used'.crash = used.crash /\ used'.shutdown = used.shutdown
           /\ used'.step = used.step

LEMMA FaultUse ==
  ASSUME DaemonTypeOK, UNCHANGED used \/ Fault \/ PersistFails
  PROVE  SameUse /\ used'.resume = used.resume
BY DEF DaemonTypeOK, Fault, PersistFails, SameUse

\* A step of the supervisor goroutine: it runs, so its daemon does.
LEMMA DownRuns ==
  ASSUME DownInv, pc # "off", daemon' = daemon, SameUse,
         pc' = "off" => events' = <<>> /\ probes' = {}
  PROVE  DownInv'
BY DEF DownInv, SameUse, NotRestarted

\* A step of another goroutine, or of a child.
LEMMA DownFrame ==
  ASSUME DownInv, daemon' = daemon, pc' = pc, SameUse,
         pc = "off" => events' = events /\ probes' \subseteq probes,
         daemon = "down" => /\ timer' = 0 /\ firing' = {} /\ prober' = 0
                            /\ probes' = {} /\ handle' = 0
  PROVE  DownInv'
BY DEF DownInv, SameUse, NotRestarted

\* Once the supervisor is neither ready nor starting a child, only the timers
\* that are left matter.
LEMMA LiveIdle ==
  ASSUME LiveInv, DownInv', pc' \notin {"select", "spawned"}, row' = row,
         used'.step = used.step, due' = due,
         pc' # "off" => /\ pc # "off" /\ task'.total = task.total
                        /\ task'.status = task.status
                        /\ \A k \in WaitNo : timer' = k \/ Fired(k)' => timer = k \/ Fired(k)
  PROVE  LiveInv'
BY DEF LiveInv, WakeInv, SpawnedInv, ProbeInv, AccountInv, WakeUpPending, ExitPending,
   QuotaWaitIsProbed, SameUse

\* A transaction that ends the task's run or its wait, and starts no other.
LEMMA LiveSettles ==
  ASSUME LiveInv, DownInv', pc # "off", pc' = "select", SameUse, task \in Row, task' \in Row,
         due' \in {due, "early"}, row' = task', task'.total = task.total,
         task'.status \in {"PAUSED", "SUCCEEDED", "FAILED", "STOPPED"},
         \A k \in WaitNo : timer' = k \/ Fired(k)' => timer = k \/ Fired(k)
  PROVE  LiveInv'
BY DEF LiveInv, WakeInv, SpawnedInv, ProbeInv, AccountInv, WakeUpPending, ExitPending,
   QuotaWaitIsProbed, SameUse

\* A step that touches neither the tables nor the supervisor goroutine.
LEMMA LiveFrame ==
  ASSUME LiveInv, DownInv', UNCHANGED <<row, attempts, pc, task, waitingSince, prober>>,
         used'.step = 0 => used.step = 0 /\ due' \in {due, "due"},
         NotRestarted' => NotRestarted, Serving' => Serving,
         \A k : timer' = k \/ Fired(k)' => timer = k \/ Fired(k) \/ k = 0,
         Fired(Wait)' /\ used.step = 0 => Fired(Wait) \/ due = "due",
         pc = "select" /\ Serving' /\ used'.step = 0 /\ (timer = Wait \/ Fired(Wait)) =>
           timer' = Wait \/ Fired(Wait)',
         Serving' => \A p \in DOMAIN procs : Undelivered(p) =>
           p \in DOMAIN procs' /\ procs'[p].no = procs[p].no /\ Undelivered(p)'
  PROVE  LiveInv'
<1>1. Wait' = Wait
  BY DEF Wait
<1>2. WakeUpPending'
  <2> SUFFICES ASSUME pc = "select", Serving', task.status = "WAITING", used'.step = 0
               PROVE  timer' = Wait \/ Fired(Wait)'
    BY <1>1 DEF WakeUpPending, Fired, Queued, Holds
  <2>1. timer = Wait \/ Fired(Wait)
    BY DEF LiveInv, WakeInv, WakeUpPending, Fired, Queued, Holds
  <2> QED
    BY <2>1
<1>3. WakeInv'
  <2>1. \A k \in WaitNo : timer' = k \/ Fired(k)' => timer = k \/ Fired(k)
    BY DEF WaitNo
  <2> QED
    BY <1>1, <1>2, <2>1 DEF LiveInv, WakeInv
<1>4. SpawnedInv'
  BY DEF LiveInv, SpawnedInv, ExitPending
<1>5. ProbeInv' /\ AccountInv'
  BY <1>1 DEF LiveInv, ProbeInv, AccountInv, QuotaWaitIsProbed
<1> QED
  BY <1>3, <1>4, <1>5 DEF LiveInv

\* What a handler has received, and what is left for the next.
LEMMA TakeLeaves ==
  ASSUME IInv, NEW type \in EventTypes, Take(type)
  PROVE  /\ pc = "select" /\ task = row /\ task \in Row /\ task.status \in Accepts[type]
         /\ \A k : Fired(k) => k \in firing \/ Holds(events, Event("timer_fire", k))
         /\ \A e : Holds(events', e) => Holds(events, e)
         /\ \A e : Holds(events, e) /\ e.type # type => Holds(events', e)
<1>1. SupervisorTypeOK /\ (pc = "select" => task = row)
  BY DEF IInv, TypeOK, GoroutineInv
<1>2. pc = "select" /\ task.status \in Accepts[type]
  BY <1>1, TakeFacts
<1>3. events # <<>> /\ events' = Tail(events) /\ Head(events).type = type
  BY DEF Take
<1>4. /\ \A e : Holds(events', e) => Holds(events, e)
      /\ \A e : Holds(events, e) /\ Head(events) # e => Holds(events', e)
  BY <1>1, <1>3, TakeHolds
<1> QED
  BY <1>1, <1>2, <1>3, <1>4 DEF Fired, SupervisorTypeOK

LEMMA IgnoreLive == ASSUME IInv, LiveInv, Ignore PROVE LiveInv'
<1>1. /\ UNCHANGED <<row, attempts, pc, task, waitingSince, due, timer, firing, prober, probes,
                     handle, procs, used, daemon>>
      /\ pc = "select" /\ events # <<>> /\ events' = Tail(events) /\ ~Applies(Head(events))
  BY DEF Ignore, timers, probing, durable, goroutine
<1>2. /\ \A e : Holds(events', e) => Holds(events, e)
      /\ \A e : Holds(events, e) /\ Head(events) # e => Holds(events', e)
  BY <1>1, TakeHolds DEF IInv, TypeOK
<1>3. DownInv'
  BY <1>1, DownFrame DEF LiveInv, DownInv, SameUse
<1>4. \A k : timer' = k \/ Fired(k)' => timer = k \/ Fired(k)
  BY <1>1, <1>2 DEF Fired
<1>5. /\ NotRestarted' => NotRestarted
      /\ Serving' => Serving
      /\ Wait' = Wait
  BY <1>1 DEF Wait, NotRestarted, Serving
<1>6. ASSUME task.status = "WAITING", used.step = 0, Serving PROVE timer' = Wait \/ Fired(Wait)'
  <2>1. timer = Wait \/ Fired(Wait)
    BY <1>1, <1>6 DEF LiveInv, WakeInv, WakeUpPending, Fired, Queued, Holds
  <2>2. CASE Holds(events, Event("timer_fire", Wait))
    <3>1. due = "due"
      BY <1>1, <1>6, <2>2 DEF LiveInv, WakeInv, Fired
    <3>2. Applies(Event("timer_fire", Wait))
      BY <1>6, <3>1 DEF Applies, Event, Accepts
    <3> QED
      BY <1>1, <1>2, <1>5, <2>2, <3>2 DEF Fired
  <2> QED
    BY <1>1, <1>5, <2>1, <2>2 DEF Fired
<1>7. ASSUME task.status = "RUNNING", NEW p \in DOMAIN procs, Undelivered(p)
      PROVE  Undelivered(p)'
  <2>1. Applies(Event("attempt_exit", p))
    BY <1>7 DEF Applies, Event, Accepts
  <2> QED
    BY <1>1, <1>2, <1>7, <2>1 DEF Undelivered, Queued, Holds
<1>8. WakeInv'
  <2>1. WakeUpPending'
    BY <1>1, <1>5, <1>6 DEF WakeUpPending, Fired, Queued, Holds
  <2>2. Fired(Wait)' => Fired(Wait)
    BY <1>1, <1>2, <1>5 DEF Fired
  <2> QED
    BY <1>1, <1>4, <1>5, <2>1, <2>2 DEF LiveInv, WakeInv
<1>9. SpawnedInv'
  BY <1>1, <1>5, <1>7 DEF LiveInv, SpawnedInv, ExitPending
<1>10. ProbeInv' /\ AccountInv'
  BY <1>1, <1>5 DEF LiveInv, ProbeInv, AccountInv, QuotaWaitIsProbed
<1> QED
  BY <1>3, <1>8, <1>9, <1>10 DEF LiveInv

LEMMA BeginLeaves ==
  ASSUME IInv, LiveInv, BeginAttempt
  PROVE  /\ pc = "select" /\ task = row /\ task \in Row
         /\ task.status \in {"PENDING", "WAITING", "PAUSED"}
         /\ timer' \in {0, timer} /\ firing' = firing /\ prober' = 0 /\ probes' = probes
         /\ \A e : Holds(events', e) => Holds(events, e)
<1>0. /\ "start" \in EventTypes /\ Accepts["start"] = {"PENDING"}
      /\ \A w \in Wakes : w \in EventTypes /\ Accepts[w] \subseteq {"WAITING", "PAUSED"}
  BY DEF EventTypes, AllUserActions, Accepts, Wakes
<1>1. CASE Take("start") /\ UNCHANGED <<timers, probing, waitingSince>>
  <2>1. pc = "select" /\ task = row /\ task \in Row /\ task.status = "PENDING"
        /\ \A e : Holds(events', e) => Holds(events, e)
    BY <1>0, <1>1, TakeLeaves
  <2> QED
    BY <1>1, <2>1 DEF LiveInv, ProbeInv, timers, probing
<1>2. CASE \E w \in Wakes : Take(w) /\ CancelTimer /\ StopProber /\ waitingSince' = FALSE
  <2>1. PICK w \in Wakes : Take(w) /\ CancelTimer /\ StopProber
    BY <1>2
  <2>2. pc = "select" /\ task = row /\ task \in Row /\ task.status \in {"WAITING", "PAUSED"}
        /\ \A e : Holds(events', e) => Holds(events, e)
    BY <1>0, <2>1, TakeLeaves
  <2> QED
    BY <2>1, <2>2 DEF CancelTimer, StopProber
<1> QED
  BY <1>1, <1>2 DEF BeginAttempt

LEMMA SpawnLive == ASSUME IInv, LiveInv, Spawn PROVE LiveInv'
<1>1. /\ pc = "select" /\ task = row /\ task \in Row
      /\ task.status \in {"PENDING", "WAITING", "PAUSED"}
      /\ timer' \in {0, timer} /\ firing' = firing /\ prober' = 0
      /\ \A e : Holds(events', e) => Holds(events, e)
  BY BeginLeaves DEF Spawn
<1>2. /\ row' = row /\ attempts' = attempts /\ task' = AccountWait(task) /\ pc' = "spawned"
      /\ UNCHANGED <<due, daemon, used>>
      /\ procs' = Append(procs, [no |-> task.total + 1, st |-> "alive"])
  BY DEF Spawn, durable
<1>3. /\ task' \in Row /\ task'.status = task.status /\ task'.total = task.total
      /\ NotRestarted => task'.waits = task.waits + (IF task.status = "WAITING" THEN 1 ELSE 0)
  BY <1>1, <1>2, AccountRow DEF AccountWait, LiveInv, AccountInv, Row
<1>4. DownInv'
  BY <1>1, <1>2, DownRuns DEF LiveInv, SameUse
<1>5. WakeInv'
  BY <1>1, <1>2, <1>3 DEF LiveInv, WakeInv, WakeUpPending, Fired, WaitNo
<1>6. SpawnedInv'
  <2>1. PICK q \in DOMAIN procs' : procs'[q] = [no |-> task.total + 1, st |-> "alive"]
    BY <1>2 DEF IInv, TypeOK, ProcessTypeOK
  <2>2. Undelivered(q)'
    BY <2>1 DEF Undelivered
  <2> QED
    BY <1>2, <1>3, <2>1, <2>2 DEF SpawnedInv, ExitPending
<1>7. ProbeInv' /\ AccountInv'
  BY <1>1, <1>2, <1>3 DEF ProbeInv, AccountInv, QuotaWaitIsProbed, NotRestarted
<1> QED
  BY <1>4, <1>5, <1>6, <1>7 DEF LiveInv

LEMMA CommitSpawnLive == ASSUME IInv, LiveInv, CommitSpawn PROVE LiveInv'
<1>1. /\ pc = "spawned" /\ pc' = "select" /\ due' = "early"
      /\ UNCHANGED <<procs, daemon, events, timer, firing, prober, used>>
  BY DEF CommitSpawn, timers, probing
<1>2. task \in Row /\ task.total = row.total
  BY <1>1 DEF IInv, TypeOK, SupervisorTypeOK, GoroutineInv
<1>3. /\ row' = task' /\ task'.status = "RUNNING" /\ task'.total = task.total + 1
  BY <1>2 DEF CommitSpawn, Commit, To, Row
<1>4. task.total \in Nat
  BY <1>2 DEF Row
<1>5. DownInv'
  BY <1>1, DownRuns DEF LiveInv, SameUse
<1>6. WakeInv'
  BY <1>1, <1>3, <1>4 DEF LiveInv, WakeInv, WakeUpPending, Fired, WaitNo
<1>7. SpawnedInv'
  BY <1>1, <1>3 DEF LiveInv, SpawnedInv, ExitPending, Serving, Undelivered, Queued
<1>8. ProbeInv' /\ AccountInv'
  BY <1>1, <1>3 DEF LiveInv, ProbeInv, AccountInv, QuotaWaitIsProbed
<1> QED
  BY <1>5, <1>6, <1>7, <1>8 DEF LiveInv

LEMMA SpawnFaultsLive ==
  ASSUME IInv, LiveInv, CommitSpawnFails \/ SpawnFails
  PROVE  LiveInv'
<1>0. SameUse
  BY FaultUse DEF IInv, TypeOK, CommitSpawnFails, SpawnFails
<1>1. CASE CommitSpawnFails
  <2>1. /\ row' = row /\ pc = "spawned" /\ pc' = "failed" /\ UNCHANGED <<due, daemon, task, events, timer, firing>>
    BY <1>1 DEF CommitSpawnFails, Fails, durable, timers
  <2>2. DownInv'
    BY <1>0, <2>1, DownRuns DEF LiveInv
  <2> QED
    BY <1>0, <2>1, <2>2, LiveIdle DEF Fired, SameUse
<1>2. CASE SpawnFails
  <2>1. /\ pc = "select" /\ task = row /\ task \in Row
        /\ timer' \in {0, timer} /\ firing' = firing
        /\ \A e : Holds(events', e) => Holds(events, e)
    BY <1>2, BeginLeaves DEF SpawnFails
  <2>2. AccountWait(task) \in Row /\ AccountWait(task).total = task.total
        /\ AccountWait(task).status = task.status
    BY <2>1, AccountRow
  <2>3. \A k \in WaitNo : timer' = k \/ Fired(k)' => timer = k \/ Fired(k)
    BY <2>1 DEF Fired, WaitNo
  <2>4. CASE Commit(To(AccountWait(task), "FAILED"), attempts) /\ due' = "early" /\ UNCHANGED pc
    <3>1. row' = task' /\ task' \in Row /\ task'.status = "FAILED" /\ task'.total = task.total
      BY <2>2, <2>4, ToRow DEF Commit, Statuses
    <3>2. DownInv'
      BY <1>0, <1>2, <2>1, <2>4, DownRuns DEF SpawnFails, LiveInv
    <3> QED
      BY <1>0, <2>1, <2>3, <2>4, <3>1, <3>2, LiveSettles
  <2>5. CASE Fails /\ task' = AccountWait(task) /\ UNCHANGED due
    <3>1. row' = row /\ pc' = "failed"
      BY <2>5 DEF Fails, durable
    <3>2. DownInv'
      BY <1>0, <1>2, <2>1, <3>1, DownRuns DEF SpawnFails, LiveInv
    <3> QED
      BY <1>0, <2>1, <2>2, <2>3, <2>5, <3>1, <3>2, LiveIdle DEF SameUse
  <2> QED
    BY <1>2, <2>4, <2>5 DEF SpawnFails
<1> QED
  BY <1>1, <1>2

\* No timer is armed anew.
LEMMA FewerTokens ==
  ASSUME timer' \in {0, timer}, firing' = firing,
         \A e : Holds(events', e) => Holds(events, e)
  PROVE  \A k \in WaitNo : timer' = k \/ Fired(k)' => timer = k \/ Fired(k)
BY DEF Fired, WaitNo

LEMMA FinishLive ==
  ASSUME IInv, LiveInv, NEW s \in {"SUCCEEDED", "FAILED"}, Finish(s)
  PROVE  LiveInv'
<1>1. /\ pc = "select" /\ task \in Row /\ \A e : Holds(events', e) => Holds(events, e)
  BY TakeLeaves DEF Finish, EventTypes
<1>2. /\ pc' = pc /\ UNCHANGED <<due, daemon, timer, firing, used>>
      /\ row' = To(task, s) /\ task' = To(task, s)
  BY DEF Finish, Commit, timers
<1>3. /\ task' \in Row /\ task'.status = s /\ task'.total = task.total
  <2>1. s \in Statuses
    BY DEF Statuses
  <2> QED
    BY <1>1, <1>2, <2>1, ToRow
<1>4. DownInv'
  BY <1>1, <1>2, DownRuns DEF LiveInv, SameUse
<1>5. \A k \in WaitNo : timer' = k \/ Fired(k)' => timer = k \/ Fired(k)
  BY <1>1, <1>2, FewerTokens
<1> QED
  BY <1>1, <1>2, <1>3, <1>4, <1>5, LiveSettles DEF SameUse

LEMMA ScheduleLive == ASSUME IInv, LiveInv, Schedule PROVE LiveInv'
<1>1. /\ pc = "select" /\ task = row /\ task \in Row /\ task.status = "RUNNING"
      /\ \A e : Holds(events', e) => Holds(events, e)
  BY TakeLeaves DEF Schedule, EventTypes
<1>2. /\ pc' = pc /\ timer' = Wait /\ firing' = firing /\ due' = "early"
      /\ waitingSince' = TRUE /\ UNCHANGED <<daemon, used, procs>>
  BY DEF Schedule, ArmTimer
<1>3. /\ row' = task' /\ task'.status = "WAITING" /\ task'.total = task.total /\ task.total \in Nat
  BY <1>1 DEF Schedule, Commit, Row
<1>4. Wait' = Wait /\ Wait = task.total /\ Serving' = Serving /\ task.total > 0
  BY <1>1, <1>2, <1>3 DEF Wait, Serving, LiveInv, WakeInv
<1>5. DownInv'
  BY <1>1, <1>2, DownRuns DEF LiveInv, SameUse
<1>6. WakeInv'
  <2>1. \A k : Fired(k)' => Fired(k)
    BY <1>1, <1>2 DEF Fired
  <2>2. \A k \in WaitNo : timer' = k \/ Fired(k)' => k <= task'.total
    BY <1>1, <1>2, <1>3, <1>4, <2>1 DEF LiveInv, WakeInv, WaitNo
  <2>3. ~Fired(Wait)'
    <3>1. Fired(Wait)' => Fired(Wait)
      BY <1>1, <1>2, <1>4 DEF Fired
    <3>2. Wait \in WaitNo /\ ~(Wait < task.total)
      BY <1>3, <1>4 DEF WaitNo
    <3> QED
      BY <1>1, <3>1, <3>2 DEF LiveInv, WakeInv
  <2>4. WakeUpPending'
    BY <1>2, <1>4 DEF WakeUpPending
  <2> QED
    BY <1>1, <1>2, <1>3, <1>4, <2>2, <2>3, <2>4 DEF WakeInv
<1>7. SpawnedInv'
  BY <1>1, <1>2, <1>3 DEF SpawnedInv, ExitPending
<1>8. ProbeInv'
  <2>1. cur = task.total /\ cur # 0 /\ cur \in 0 .. Len(attempts)
    BY <1>1, <1>4 DEF IInv, GoroutineInv, TypeOK, SupervisorTypeOK
  <2>2. prober = 0
    BY <1>1 DEF LiveInv, ProbeInv
  <2>3. PICK o \in Outcomes : /\ attempts' = Closed(o)
                              /\ o = "QUOTA_EXHAUSTED" /\ ProbeConfigured => prober' = Wait
    BY <2>2 DEF Schedule, Commit
  <2>4. attempts'[task.total] = o
    BY <2>1, <2>3, ClosedType, SupervisorAssumption DEF IInv, TypeOK
  <2> QED
    BY <1>1, <1>2, <1>3, <1>4, <2>3, <2>4 DEF ProbeInv, QuotaWaitIsProbed
<1>9. AccountInv'
  BY <1>1, <1>2 DEF AccountInv
<1> QED
  BY <1>5, <1>6, <1>7, <1>8, <1>9 DEF LiveInv

LEMMA PausedExitLive == ASSUME IInv, LiveInv, RecordPausedExit PROVE LiveInv'
<1>1. /\ pc = "select" /\ task = row /\ task \in Row /\ task.status = "PAUSED"
      /\ \A e : Holds(events', e) => Holds(events, e)
  BY TakeLeaves DEF RecordPausedExit, EventTypes
<1>2. /\ pc' = pc /\ row' = task /\ task' = task
      /\ UNCHANGED <<due, daemon, timer, firing, used>>
  BY DEF RecordPausedExit, Commit, timers
<1>3. DownInv'
  BY <1>1, <1>2, DownRuns DEF LiveInv, SameUse
<1>4. \A k \in WaitNo : timer' = k \/ Fired(k)' => timer = k \/ Fired(k)
  BY <1>1, <1>2, FewerTokens
<1> QED
  BY <1>1, <1>2, <1>3, <1>4, LiveSettles DEF SameUse

LEMMA ExitFailsLive == ASSUME IInv, LiveInv, ExitFails PROVE LiveInv'
<1>1. /\ pc = "select" /\ \A e : Holds(events', e) => Holds(events, e)
  BY TakeLeaves DEF ExitFails, EventTypes
<1>2. /\ pc' = "failed" /\ row' = row
      /\ UNCHANGED <<due, daemon, task, timer, firing>>
  BY DEF ExitFails, Fails, durable, timers
<1>3. SameUse
  BY FaultUse DEF IInv, TypeOK, ExitFails
<1>4. DownInv'
  BY <1>1, <1>2, <1>3, DownRuns DEF LiveInv
<1>5. \A k \in WaitNo : timer' = k \/ Fired(k)' => timer = k \/ Fired(k)
  BY <1>1, <1>2, FewerTokens
<1> QED
  BY <1>1, <1>2, <1>3, <1>4, <1>5, LiveIdle DEF SameUse

LEMMA PauseLive == ASSUME IInv, LiveInv, Pause PROVE LiveInv'
<1>1. /\ pc = "select" /\ task \in Row /\ \A e : Holds(events', e) => Holds(events, e)
  BY TakeLeaves DEF Pause, EventTypes, AllUserActions
<1>2. timer' = 0 /\ firing' = firing /\ daemon' = daemon
  BY DEF Pause, CancelTimer
<1>3. SameUse
  BY FaultUse DEF IInv, TypeOK, Pause
<1>4. \A k \in WaitNo : timer' = k \/ Fired(k)' => timer = k \/ Fired(k)
  BY <1>1, <1>2, FewerTokens
<1>5. CASE Commit(To(AccountWait(task), "PAUSED"), attempts) /\ due' = "early" /\ UNCHANGED pc
  <2>1. row' = task' /\ task' \in Row /\ task'.status = "PAUSED" /\ task'.total = task.total
    <3>1. /\ AccountWait(task) \in Row /\ AccountWait(task).total = task.total
          /\ "PAUSED" \in Statuses
      BY <1>1, AccountRow DEF Statuses
    <3>2. row' = To(AccountWait(task), "PAUSED") /\ task' = To(AccountWait(task), "PAUSED")
      BY <1>5 DEF Commit
    <3> QED
      BY <3>1, <3>2, ToRow
  <2>2. DownInv'
    BY <1>1, <1>2, <1>3, <1>5, DownRuns DEF LiveInv
  <2> QED
    BY <1>1, <1>3, <1>4, <1>5, <2>1, <2>2, LiveSettles
<1>6. CASE Fails /\ UNCHANGED <<task, due>>
  <2>1. row' = row /\ pc' = "failed"
    BY <1>6 DEF Fails, durable
  <2>2. DownInv'
    BY <1>1, <1>2, <1>3, <2>1, DownRuns DEF LiveInv
  <2> QED
    BY <1>1, <1>3, <1>4, <1>6, <2>1, <2>2, LiveIdle DEF SameUse
<1> QED
  BY <1>5, <1>6 DEF Pause

LEMMA StopKillLive == ASSUME IInv, LiveInv, StopKill PROVE LiveInv'
<1>1. /\ pc = "select" /\ \A e : Holds(events', e) => Holds(events, e)
  BY TakeLeaves DEF StopKill, EventTypes, AllUserActions
<1>2. /\ timer' = 0 /\ firing' = firing /\ row' = row
      /\ pc' \in {"killed", "failed"} /\ UNCHANGED <<daemon, due, task>>
  BY DEF StopKill, CancelTimer, Fails, durable
<1>3. SameUse
  BY FaultUse DEF IInv, TypeOK, StopKill
<1>4. DownInv'
  BY <1>1, <1>2, <1>3, DownRuns DEF LiveInv
<1>5. \A k \in WaitNo : timer' = k \/ Fired(k)' => timer = k \/ Fired(k)
  BY <1>1, <1>2, FewerTokens
<1> QED
  BY <1>1, <1>2, <1>3, <1>4, <1>5, LiveIdle DEF SameUse

LEMMA CommitStopLive == ASSUME IInv, LiveInv, CommitStop PROVE LiveInv'
<1>1. pc = "killed" /\ task \in Row /\ UNCHANGED <<daemon, events, timer, firing>>
  BY DEF CommitStop, IInv, TypeOK, SupervisorTypeOK, timers
<1>2. SameUse
  BY FaultUse DEF IInv, TypeOK, CommitStop
<1>3. \A k \in WaitNo : timer' = k \/ Fired(k)' => timer = k \/ Fired(k)
  BY <1>1, FewerTokens
<1>4. CASE Commit(To(task, "STOPPED"), attempts) /\ pc' = "select" /\ due' = "early"
  <2>1. row' = task' /\ task' \in Row /\ task'.status = "STOPPED" /\ task'.total = task.total
    BY <1>1, <1>4, ToRow DEF Commit, Statuses
  <2>2. DownInv'
    BY <1>1, <1>2, <1>4, DownRuns DEF LiveInv
  <2> QED
    BY <1>1, <1>2, <1>3, <1>4, <2>1, <2>2, LiveSettles
<1>5. CASE Fails /\ UNCHANGED <<task, due>>
  <2>1. row' = row /\ pc' = "failed"
    BY <1>5 DEF Fails, durable
  <2>2. DownInv'
    BY <1>1, <1>2, <2>1, DownRuns DEF LiveInv
  <2> QED
    BY <1>1, <1>2, <1>3, <1>5, <2>1, <2>2, LiveIdle DEF SameUse
<1> QED
  BY <1>4, <1>5 DEF CommitStop

LEMMA RunReturnsLive == ASSUME IInv, LiveInv, RunReturns PROVE LiveInv'
<1>1. /\ pc # "off" /\ pc' = "off" /\ events' = <<>> /\ probes' = {} /\ row' = row
      /\ UNCHANGED <<daemon, due, used>>
  BY DEF RunReturns, durable
<1>2. DownInv'
  BY <1>1, DownRuns DEF LiveInv, SameUse
<1> QED
  BY <1>1, <1>2, LiveIdle

\* A child's state changes, but not so that its exit is lost.
LEMMA ChildMoves ==
  ASSUME IInv, LiveInv, NEW p \in DOMAIN procs, ChildExit(p) \/ Reap(p) \/ PostExit(p)
  PROVE  LiveInv'
<1>1. /\ UNCHANGED <<row, attempts, pc, task, waitingSince, prober, probes, due, daemon,
                     timer, firing, used>>
      /\ handle' \in {0, handle}
  BY DEF ChildExit, Reap, PostExit, durable, goroutine, timers, probing
<1>2. procs \in Seq(Proc) /\ Event("attempt_exit", p) \in Events
  BY EventType DEF IInv, TypeOK, ProcessTypeOK, EventTypes
<1>3. events' = events \/ Post(Event("attempt_exit", p))
  BY DEF ChildExit, Reap, PostExit
<1>4. /\ \A e : Holds(events', e) => Holds(events, e) \/ e = Event("attempt_exit", p)
      /\ \A e : Holds(events, e) => Holds(events', e)
  BY <1>2, <1>3, PostHolds DEF IInv, TypeOK
<1>5. \A k : Fired(k)' <=> Fired(k)
  <2>1. \A k : Event("timer_fire", k) # Event("attempt_exit", p)
    BY DEF Event
  <2> QED
    BY <1>1, <1>4, <2>1 DEF Fired
<1>6. Wait' = Wait /\ (Fired(Wait)' <=> Fired(Wait)) /\ (NotRestarted' <=> NotRestarted)
      /\ (Serving' <=> Serving) /\ (Serving => daemon # "closing") /\ SameUse
  BY <1>1, <1>5 DEF Wait, NotRestarted, Serving, SameUse, Fired
<1>7. DownInv'
  <2>1. pc = "off" => events' = events
    BY <1>3 DEF Post
  <2> QED
    BY <1>1, <1>6, <2>1, DownFrame DEF LiveInv, DownInv
<1>8. ASSUME Serving, pc # "off", NEW q \in DOMAIN procs, Undelivered(q)
      PROVE  q \in DOMAIN procs' /\ procs'[q].no = procs[q].no /\ Undelivered(q)'
  <2>1. CASE ChildExit(p)
    BY <1>2, <1>8, <2>1 DEF ChildExit, Undelivered, Queued, Proc
  <2>2. CASE Reap(p)
    BY <1>2, <1>8, <2>2 DEF Reap, Undelivered, Queued, Proc
  <2>3. CASE PostExit(p)
    <3>1. q \in DOMAIN procs' /\ procs'[q].no = procs[q].no
          /\ (q # p => procs'[q] = procs[q])
      BY <1>2, <2>3 DEF PostExit, Proc
    <3>2. CASE q = p
      <4>1. Holds(events', Event("attempt_exit", p))
        BY <1>2, <1>6, <1>8, <2>3, PostHolds DEF PostExit, IInv, TypeOK
      <4> QED
        BY <3>1, <3>2, <4>1 DEF Undelivered, Queued, Holds
    <3>3. CASE q # p
      BY <1>4, <1>8, <3>1, <3>3 DEF Undelivered, Queued, Holds
    <3> QED
      BY <3>1, <3>2, <3>3
  <2> QED
    BY <2>1, <2>2, <2>3
<1>9. WakeInv'
  <2>1. WakeUpPending'
    BY <1>1, <1>6 DEF LiveInv, WakeInv, WakeUpPending, Fired, Queued, Holds
  <2> QED
    BY <1>1, <1>5, <1>6, <2>1 DEF LiveInv, WakeInv
<1>10. SpawnedInv'
  BY <1>1, <1>6, <1>8 DEF LiveInv, SpawnedInv, ExitPending
<1>11. ProbeInv' /\ AccountInv'
  BY <1>1, <1>6 DEF LiveInv, ProbeInv, AccountInv, QuotaWaitIsProbed
<1> QED
  BY <1>7, <1>9, <1>10, <1>11 DEF LiveInv

\* Time passes, and the timer expires.
LEMMA ClockLive ==
  ASSUME IInv, LiveInv, Tick \/ StepBack \/ TimerExpires
  PROVE  LiveInv'
<1>1. UNCHANGED <<row, attempts, pc, task, waitingSince, prober, probes, daemon, events,
                  procs, handle>>
  BY DEF Tick, StepBack, TimerExpires, durable, goroutine, probing
<1>2. /\ used' = used \/ used'.step # 0
      /\ used'.crash = used.crash /\ used'.shutdown = used.shutdown
  BY DEF Tick, StepBack, TimerExpires, IInv, TypeOK, DaemonTypeOK
<1>3. \/ timer' = timer /\ firing' = firing
      \/ timer # 0 /\ timer' = 0 /\ firing' = firing \cup {timer} /\ due' = due /\ due # "early"
  BY DEF Tick, StepBack, TimerExpires, ClaimTimer, timers
<1>4. used'.step = 0 => used.step = 0 /\ due' \in {due, "due"}
  BY DEF Tick, StepBack, TimerExpires, IInv, TypeOK, DaemonTypeOK, WakeUpTypeOK
<1>5. Wait' = Wait /\ (NotRestarted' <=> NotRestarted) /\ (Serving' <=> Serving)
  BY <1>1, <1>2 DEF Wait, NotRestarted, Serving
<1>6. DownInv'
  BY <1>1, <1>2, <1>3, <1>5 DEF LiveInv, DownInv
<1>7. \A k \in WaitNo : timer' = k \/ Fired(k)' <=> timer = k \/ Fired(k)
  BY <1>1, <1>3 DEF Fired, WaitNo
<1>8. WakeInv'
  <2>1. WakeUpPending'
    BY <1>1, <1>3, <1>4, <1>5 DEF LiveInv, WakeInv, WakeUpPending, Queued
  <2>2. used'.step = 0 => due' # "ripe"
    BY <1>4 DEF LiveInv, WakeInv
  <2>3. ASSUME pc = "select", task.status = "WAITING", used'.step = 0, Fired(Wait)' PROVE due' = "due"
    <3>1. Fired(Wait) \/ (due' = due /\ due # "early")
      BY <1>1, <1>3, <1>5, <2>3 DEF Fired
    <3> QED
      BY <1>4, <2>2, <2>3, <3>1 DEF LiveInv, WakeInv, IInv, TypeOK, WakeUpTypeOK
  <2> QED
    BY <1>1, <1>5, <1>7, <2>1, <2>2, <2>3 DEF LiveInv, WakeInv
<1>9. SpawnedInv'
  BY <1>1, <1>5 DEF LiveInv, SpawnedInv, ExitPending, Undelivered, Queued
<1>10. ProbeInv' /\ AccountInv'
  BY <1>1, <1>5 DEF LiveInv, ProbeInv, AccountInv, QuotaWaitIsProbed
<1> QED
  BY <1>6, <1>8, <1>9, <1>10 DEF LiveInv

\* The timer's callback posts its event, or is dropped.
LEMMA TimerFireLive ==
  ASSUME IInv, LiveInv, NEW w \in firing, PostTimerFire(w)
  PROVE  LiveInv'
<1>1. /\ UNCHANGED <<row, attempts, pc, task, waitingSince, prober, probes, due, daemon,
                     procs, handle, used, timer>>
      /\ firing' = firing \ {w} /\ Post(Event("timer_fire", w))
  BY DEF PostTimerFire, DeliverFire, durable, goroutine, probing
<1>2. Event("timer_fire", w) \in Events
  BY EventType DEF IInv, TypeOK, WakeUpTypeOK, WaitNo, EventTypes
<1>3. /\ \A e : Holds(events', e) => Holds(events, e) \/ e = Event("timer_fire", w)
      /\ \A e : Holds(events, e) => Holds(events', e)
      /\ Holds(events', Event("timer_fire", w)) \/ pc = "off" \/ daemon = "closing"
  BY <1>1, <1>2, PostHolds DEF IInv, TypeOK
<1>4. DownInv'
  <2>1. pc = "off" => events' = events
    BY <1>1 DEF Post
  <2> QED
    BY <1>1, <2>1, DownFrame DEF LiveInv, DownInv, SameUse
<1>5. Wait' = Wait /\ (NotRestarted' <=> NotRestarted) /\ (Serving' <=> Serving)
      /\ (Serving => daemon # "closing")
  BY <1>1 DEF Wait, NotRestarted, Serving
<1>6. \A k : Fired(k)' => Fired(k)
  <2>1. \A k : Event("timer_fire", k) = Event("timer_fire", w) => k = w
    BY DEF Event
  <2> QED
    BY <1>1, <1>3, <2>1 DEF Fired
<1>7. /\ Fired(Wait)' => Fired(Wait)
      /\ pc # "off" /\ Serving /\ Fired(Wait) => Fired(Wait)'
  BY <1>1, <1>3, <1>5, <1>6 DEF Fired
<1>8. Serving => \A p \in DOMAIN procs : Undelivered(p) =>
        p \in DOMAIN procs' /\ procs'[p].no = procs[p].no /\ Undelivered(p)'
  BY <1>1, <1>3 DEF Undelivered, Queued, Holds
<1> QED
  BY <1>1, <1>4, <1>5, <1>6, <1>7, <1>8, LiveFrame

\* A step that concerns neither a timer nor a child.
LEMMA QuietLive ==
  ASSUME LiveInv, SameUse,
         UNCHANGED <<row, attempts, pc, task, waitingSince, prober, due, daemon,
                     procs, handle, timer, firing>>,
         pc = "off" => events' = events /\ probes' \subseteq probes,
         \A e : Holds(events, e) => Holds(events', e),
         \A k : Holds(events', Event("timer_fire", k)) => Holds(events, Event("timer_fire", k))
  PROVE  LiveInv'
<1>1. DownInv'
  BY DownFrame DEF LiveInv, DownInv
<1>2. Wait' = Wait /\ (NotRestarted' <=> NotRestarted) /\ (Serving' <=> Serving)
      /\ used'.step = used.step
  BY DEF Wait, NotRestarted, Serving, SameUse
<1>3. /\ \A k : Fired(k)' => Fired(k)
      /\ Fired(Wait)' <=> Fired(Wait)
  BY <1>2 DEF Fired
<1>4. \A p \in DOMAIN procs : Undelivered(p) =>
        p \in DOMAIN procs' /\ procs'[p].no = procs[p].no /\ Undelivered(p)'
  BY DEF Undelivered, Queued, Holds
<1> QED
  BY <1>1, <1>2, <1>3, <1>4, LiveFrame

LEMMA ProberLive ==
  ASSUME IInv, LiveInv, NEW w \in Waits,
         ProbeSucceeds(w) \/ PostAvailability(w) \/ ProberEnds(w)
  PROVE  LiveInv'
<1>1. /\ UNCHANGED <<row, attempts, pc, task, waitingSince, prober, due, daemon,
                     procs, handle, timer, firing, used>>
      /\ pc # "off"
  BY DEF ProbeSucceeds, PostAvailability, ProberEnds, durable, goroutine, timers, LiveInv, DownInv
<1>2. events' = events \/ events' = Append(events, Event("availability_ok", w))
  BY DEF ProbeSucceeds, PostAvailability, ProberEnds
<1>3. Event("availability_ok", w) \in Events
  <2>1. w \in WaitNo
    BY DEF Waits, IInv, TypeOK, WakeUpTypeOK
  <2> QED
    BY <2>1, EventType DEF EventTypes, WaitNo
<1>4. /\ \A e : Holds(events, e) => Holds(events', e)
      /\ \A e : Holds(events', e) => Holds(events, e) \/ e = Event("availability_ok", w)
  <2>1. \A e : Holds(Append(events, Event("availability_ok", w)), e)
               <=> Holds(events, e) \/ e = Event("availability_ok", w)
    BY <1>3, HoldsAppend DEF IInv, TypeOK, SupervisorTypeOK
  <2> QED
    BY <1>2, <2>1
<1>5. \A k : Event("timer_fire", k) # Event("availability_ok", w)
  BY DEF Event
<1> QED
  BY <1>1, <1>4, <1>5, QuietLive DEF SameUse

LEMMA ClientLive ==
  ASSUME IInv, LiveInv, NEW c \in Clients,
         PostUser(c) \/ \E a \in UserActions : Accept(c, a)
  PROVE  LiveInv'
<1>1. /\ UNCHANGED <<row, attempts, pc, task, waitingSince, prober, due, daemon,
                     procs, handle, timer, firing, probes>>
  BY DEF PostUser, Accept, durable, goroutine, timers, probing
<1>0. SameUse
  BY DEF PostUser, Accept, SameUse, IInv, TypeOK, DaemonTypeOK
<1>2. CASE PostUser(c)
  <2>1. /\ Event(req[c], 0) \in Events
        /\ \A k : Event("timer_fire", k) # Event(req[c], 0)
    <3>1. req[c] \in AllUserActions
      BY <1>2 DEF PostUser, IInv, TypeOK, DaemonTypeOK
    <3>2. req[c] \in EventTypes /\ req[c] # "timer_fire"
      BY <3>1 DEF EventTypes, AllUserActions
    <3> QED
      BY <3>2, EventType DEF Event
  <2>2. /\ \A e : Holds(events', e) => Holds(events, e) \/ e = Event(req[c], 0)
        /\ \A e : Holds(events, e) => Holds(events', e)
    BY <1>2, <2>1, PostHolds DEF PostUser, IInv, TypeOK
  <2>3. pc = "off" => events' = events
    BY <1>2 DEF PostUser, Post
  <2> QED
    BY <1>0, <1>1, <2>1, <2>2, <2>3, QuietLive
<1>3. CASE \E a \in UserActions : Accept(c, a)
  <2>1. events' = events
    BY <1>3 DEF Accept
  <2> QED
    BY <1>0, <1>1, <2>1, QuietLive
<1> QED
  BY <1>2, <1>3

\* A daemon that is stopped may kill its child, and then its timers.
LEMMA StoppingLive == ASSUME IInv, LiveInv, Shutdown \/ BeginClose PROVE LiveInv'
<1>0. used.step \in Nat /\ used.shutdown \in Nat /\ used.crash \in Nat
  BY DEF IInv, TypeOK, DaemonTypeOK
<1>1. /\ UNCHANGED <<row, attempts, pc, task, waitingSince, prober, probes, due, events,
                     handle, firing>>
      /\ timer' = timer \/ timer' = 0
      /\ daemon \in {"up", "stopping"} /\ daemon' \in {"stopping", "closing"}
      /\ daemon' = "stopping" => timer' = timer
  BY DEF Shutdown, BeginClose, CancelTimer, durable, goroutine, timers, probing
<1>2. used'.step = used.step /\ used'.shutdown > 0
  <2>1. CASE Shutdown
    BY <1>0, <2>1 DEF Shutdown, IInv, TypeOK, DaemonTypeOK
  <2>2. CASE BeginClose
    BY <2>2 DEF BeginClose, LiveInv, DownInv
  <2> QED
    BY <2>1, <2>2
<1>6. Wait' = Wait /\ ~NotRestarted' /\ (Serving' => Serving /\ timer' = timer)
  BY <1>1, <1>2 DEF Wait, NotRestarted, Serving
<1>3. DownInv'
  BY <1>1, <1>2, <1>6 DEF LiveInv, DownInv
<1>4. /\ \A k : timer' = k \/ Fired(k)' => timer = k \/ Fired(k) \/ k = 0
      /\ Fired(Wait)' <=> Fired(Wait)
  BY <1>1, <1>6 DEF Fired
<1>5. \A p \in DOMAIN procs : Undelivered(p) =>
        p \in DOMAIN procs' /\ procs'[p].no = procs[p].no /\ Undelivered(p)'
  <2>1. procs \in Seq(Proc) /\ handle \in 0 .. Len(procs)
    BY DEF IInv, TypeOK, ProcessTypeOK
  <2>2. procs' = procs \/ (handle # 0 /\ procs' = [procs EXCEPT ![handle].st = "killed"])
    BY DEF Shutdown, BeginClose, KillHandle
  <2>3. ASSUME NEW p \in DOMAIN procs
        PROVE  /\ p \in DOMAIN procs' /\ procs'[p].no = procs[p].no
               /\ procs'[p].st \in {"killed", procs[p].st}
    <3>1. procs[p] \in Proc
      BY <2>1
    <3> QED
      BY <2>1, <2>2, <3>1 DEF Proc
  <2> QED
    BY <1>1, <2>3 DEF Undelivered, Queued
<1> QED
  BY <1>1, <1>2, <1>3, <1>4, <1>5, <1>6, LiveFrame

LEMMA DiesLive == ASSUME IInv, LiveInv, CloseReturns \/ Crash PROVE LiveInv'
<1>1. /\ row' = row /\ due' = due /\ pc' = "off" /\ daemon' = "down" /\ events' = <<>>
      /\ timer' = 0 /\ firing' = {} /\ prober' = 0 /\ probes' = {} /\ handle' = 0
  BY DEF CloseReturns, Crash, LoseMemory, durable
<1>2. used'.step = used.step /\ ~NotRestarted'
  BY DEF CloseReturns, Crash, NotRestarted, LiveInv, DownInv, IInv, TypeOK, DaemonTypeOK
<1>3. DownInv'
  BY <1>1, <1>2 DEF DownInv
<1> QED
  BY <1>1, <1>2, <1>3, LiveIdle

\* What a restart finds: nothing in the new daemon's memory.
LEMMA RestartLive == ASSUME IInv, LiveInv, Restart PROVE LiveInv'
<1>1. /\ pc = "off" /\ timer = 0 /\ firing = {} /\ prober = 0 /\ probes = {}
      /\ handle = 0 /\ events = <<>> /\ ~NotRestarted
      /\ UNCHANGED <<procs, prober, probes, handle>> /\ daemon' = "up"
  BY DEF Restart, LiveInv, DownInv, probing
<1>2. row \in Row /\ row.total \in Nat
  BY DEF IInv, TypeOK, StoreTypeOK, Row
<1>3. /\ firing' = {} /\ timer' \in {0, row.total}
      /\ events' \in {<<>>, <<Event("start", 0)>>}
  BY <1>1 DEF Restart, ReconcileRunning, ReconcileWaiting, ReconcilePending, ReconcilePaused,
     ReconcileNothing, ArmTimer, timers, FreshRuntime
<1>4. \A k : ~Fired(k)'
  <2>1. \A k, i : <<Event("start", 0)>>[1] # Event("timer_fire", k)
    BY DEF Event
  <2> QED
    BY <1>3, <2>1 DEF Fired, Holds
<1>5. used'.crash = used.crash /\ used'.shutdown = used.shutdown /\ used'.step = used.step
  BY DEF Restart, ReconcileRunning, ReconcileWaiting, ReconcilePending, ReconcilePaused,
     ReconcileNothing, Fault, IInv, TypeOK, DaemonTypeOK
<1>6. ~NotRestarted'
  BY <1>1, <1>5 DEF NotRestarted
<1>7. DownInv' <=> (pc' = "off" => events' = <<>>)
  BY <1>1, <1>6 DEF DownInv
<1>8. CASE ReconcileNothing
  <2>1. UNCHANGED <<row, pc, due, events>>
    BY <1>8 DEF ReconcileNothing, durable, goroutine
  <2> QED
    BY <1>1, <1>5, <1>7, <2>1, LiveIdle
<1>9. CASE ReconcileRunning \/ ReconcileWaiting
  <2>1. /\ pc' = "select" /\ task' = row' /\ row'.status = "WAITING" /\ row'.total = row.total
        /\ timer' = row.total /\ due' \in {"due", "early"}
    BY <1>2, <1>9 DEF ReconcileRunning, ReconcileWaiting, FreshRuntime, ArmTimer, Row, durable
  <2>2. row.total > 0 /\ Wait' = row.total
    BY <1>9, <2>1 DEF LiveInv, WakeInv, ReconcileRunning, ReconcileWaiting, Wait
  <2>3. WakeInv'
    <3>1. ~Fired(Wait)'
      BY <1>4, <2>2 DEF Fired
    <3>2. WakeUpPending'
      BY <2>1, <2>2 DEF WakeUpPending
    <3> QED
      BY <1>2, <1>4, <2>1, <2>2, <3>1, <3>2 DEF WakeInv
  <2>4. SpawnedInv' /\ ProbeInv' /\ AccountInv'
    BY <1>6, <2>1 DEF SpawnedInv, ExitPending, ProbeInv, QuotaWaitIsProbed, AccountInv
  <2> QED
    BY <1>7, <2>1, <2>3, <2>4 DEF LiveInv
<1>10. CASE ReconcilePending \/ ReconcilePaused
  <2>1. /\ pc' = "select" /\ task' = row /\ row' = row /\ row.status \in {"PENDING", "PAUSED"}
        /\ timer' = 0 /\ due' = due
    BY <1>1, <1>10 DEF ReconcilePending, ReconcilePaused, FreshRuntime, timers, durable
  <2>2. WakeInv'
    BY <1>4, <1>5, <2>1 DEF LiveInv, WakeInv, WakeUpPending, WaitNo
  <2>3. SpawnedInv' /\ ProbeInv' /\ AccountInv'
    BY <1>1, <1>6, <2>1 DEF SpawnedInv, ExitPending, ProbeInv, QuotaWaitIsProbed, AccountInv
  <2> QED
    BY <1>7, <2>1, <2>2, <2>3 DEF LiveInv
<1> QED
  BY <1>8, <1>9, <1>10 DEF Restart

LEMMA InitLive == Init => LiveInv
<1> SUFFICES ASSUME Init PROVE LiveInv
  OBVIOUS
<1>1. /\ pc = "select" /\ daemon = "up" /\ timer = 0 /\ firing = {} /\ prober = 0
      /\ task = row /\ row.status = "PENDING" /\ due = "early"
      /\ events = <<Event("start", 0)>>
  BY DEF Init, TimerInit
<1>2. \A k : ~Fired(k)
  BY <1>1 DEF Fired, Holds, Event
<1>3. DownInv /\ SpawnedInv /\ ProbeInv /\ AccountInv
  BY <1>1 DEF DownInv, SpawnedInv, ExitPending, ProbeInv, QuotaWaitIsProbed, AccountInv
<1>4. WakeInv
  BY <1>1, <1>2 DEF WakeInv, WakeUpPending, WaitNo
<1> QED
  BY <1>3, <1>4 DEF LiveInv

LEMMA NextLive == IInv /\ LiveInv /\ [Next]_vars => LiveInv'
<1> SUFFICES ASSUME IInv, LiveInv, [Next]_vars PROVE LiveInv'
  OBVIOUS
<1>1. CASE SupervisorStep
  BY <1>1, IgnoreLive, SpawnLive, CommitSpawnLive, FinishLive, ScheduleLive, PausedExitLive,
     PauseLive, StopKillLive, CommitStopLive, RunReturnsLive DEF SupervisorStep
<1>2. CASE SupervisorFault
  BY <1>2, SpawnFaultsLive, ExitFailsLive DEF SupervisorFault
<1>3. CASE \E p \in DOMAIN procs : ChildExit(p) \/ Reap(p) \/ PostExit(p)
  BY <1>3, ChildMoves
<1>4. CASE Tick \/ StepBack \/ TimerExpires \/ \E w \in firing : PostTimerFire(w)
  BY <1>4, ClockLive, TimerFireLive
<1>5. CASE \E w \in Waits : ProbeSucceeds(w) \/ PostAvailability(w) \/ ProberEnds(w)
  BY <1>5, ProberLive
<1>6. CASE \E c \in Clients : PostUser(c) \/ \E a \in UserActions : Accept(c, a)
  BY <1>6, ClientLive
<1>7. CASE Shutdown \/ BeginClose \/ CloseReturns \/ Crash \/ Restart
  BY <1>7, StoppingLive, DiesLive, RestartLive
<1>8. CASE UNCHANGED vars
  <2>1. /\ UNCHANGED <<row, attempts, pc, task, waitingSince, prober, due, daemon,
                       procs, handle, timer, firing, events, probes>>
        /\ SameUse
    BY <1>8 DEF vars, SameUse
  <2> QED
    BY <2>1, QuietLive
<1> QED
  BY <1>1, <1>2, <1>3, <1>4, <1>5, <1>6, <1>7, <1>8 DEF Next

LEMMA AlwaysLive == Spec => [](IInv /\ LiveInv)
<1>1. Init => IInv /\ LiveInv
  BY InitIInv, InitLive
<1>2. (IInv /\ LiveInv) /\ [Next]_vars => (IInv /\ LiveInv)'
  BY NextIInv, NextLive
<1> QED
  BY <1>1, <1>2, PTL DEF Spec

-----------------------------------------------------------------------------
\* The start of a task that has not begun is on its way.

\* A step that neither takes the event nor begins anything.
LEMMA KeepsStart ==
  ASSUME StartPending,
         pc' = "select" /\ task'.status = "PENDING" /\ Serving' =>
           pc = "select" /\ task.status = "PENDING" /\ Serving,
         Holds(events, Event("start", 0)) => Holds(events', Event("start", 0))
  PROVE  StartPending'
BY DEF StartPending, Queued, Holds

LEMMA StartSupervisor ==
  ASSUME IInv, StartPending, SupervisorStep \/ SupervisorFault
  PROVE  StartPending'
<1>1. /\ SupervisorTypeOK /\ (pc = "select" => task = row)
      /\ task \in Row /\ events \in Seq(Events)
  BY DEF IInv, TypeOK, GoroutineInv, SupervisorTypeOK
<1>2. CASE Ignore
  <2>1. /\ events # <<>> /\ ~Applies(Head(events)) /\ events' = Tail(events)
        /\ UNCHANGED <<pc, task, daemon>>
    BY <1>2 DEF Ignore, goroutine
  <2>2. ASSUME task.status = "PENDING" PROVE Head(events) # Event("start", 0)
    BY <2>1, <2>2 DEF Applies, Accepts, Event
  <2>3. CASE task.status = "PENDING"
    <3>1. Holds(events, Event("start", 0)) => Holds(events', Event("start", 0))
      BY <1>1, <2>1, <2>2, <2>3, HoldsTail
    <3> QED
      BY <2>1, <3>1, KeepsStart DEF Serving
  <2>4. CASE task.status # "PENDING"
    BY <2>1, <2>4 DEF StartPending
  <2> QED
    BY <2>3, <2>4
<1>3. CASE \/ Spawn \/ CommitSpawn \/ Schedule \/ RecordPausedExit \/ Pause \/ StopKill
           \/ CommitStop \/ RunReturns \/ CommitSpawnFails \/ SpawnFails \/ ExitFails
           \/ \E s \in {"SUCCEEDED", "FAILED"} : Finish(s)
  <2>1. \A s \in {"RUNNING", "PAUSED", "STOPPED", "FAILED", "SUCCEEDED"} :
          \A t \in {task, AccountWait(task)} : To(t, s).status = s
    BY <1>1 DEF To, AccountWait, Row
  <2>2. pc' = "select" => task'.status # "PENDING"
    <3>1. CASE Spawn \/ StopKill \/ RunReturns \/ CommitSpawnFails \/ ExitFails
      BY <3>1 DEF Spawn, StopKill, RunReturns, CommitSpawnFails, ExitFails, Fails
    <3>2. CASE CommitSpawn
      BY <1>1, <2>1, <3>2 DEF CommitSpawn, Commit, To, Row
    <3>3. CASE Schedule \/ RecordPausedExit
      BY <1>1, <3>3 DEF Schedule, RecordPausedExit, Commit, Row
    <3>4. CASE Pause \/ CommitStop \/ SpawnFails
      BY <2>1, <3>4 DEF Pause, CommitStop, SpawnFails, Commit, Fails
    <3>5. CASE \E s \in {"SUCCEEDED", "FAILED"} : Finish(s)
      BY <2>1, <3>5 DEF Finish, Commit
    <3> QED
      BY <1>3, <3>1, <3>2, <3>3, <3>4, <3>5
  <2> QED
    BY <2>2 DEF StartPending
<1> QED
  BY <1>2, <1>3 DEF SupervisorStep, SupervisorFault

LEMMA StartOthers ==
  ASSUME IInv, StartPending,
         \/ \E p \in DOMAIN procs : ChildExit(p) \/ Reap(p) \/ PostExit(p)
         \/ Tick \/ StepBack \/ TimerExpires \/ \E w \in firing : PostTimerFire(w)
         \/ \E w \in Waits : ProbeSucceeds(w) \/ PostAvailability(w) \/ ProberEnds(w)
         \/ \E c \in Clients : PostUser(c) \/ \E a \in UserActions : Accept(c, a)
         \/ Shutdown \/ BeginClose
  PROVE  StartPending'
<1>1. pc' = pc /\ task' = task /\ (Serving' => Serving)
  BY DEF ChildExit, Reap, PostExit, Tick, StepBack, TimerExpires, PostTimerFire, ProbeSucceeds,
     PostAvailability, ProberEnds, PostUser, Accept, Shutdown, BeginClose, goroutine, Serving
<1>2. events' = events \/ \E e : events' = Append(events, e)
  BY DEF ChildExit, Reap, PostExit, Tick, StepBack, TimerExpires, PostTimerFire, ProbeSucceeds,
     PostAvailability, ProberEnds, PostUser, Accept, Shutdown, BeginClose, Post
<1>3. ASSUME Holds(events, Event("start", 0)) PROVE Holds(events', Event("start", 0))
  <2>1. PICK i \in DOMAIN events : events[i] = Event("start", 0)
    BY <1>3 DEF Holds
  <2>2. i \in DOMAIN events' /\ events'[i] = events[i]
    BY <1>2, <2>1 DEF IInv, TypeOK, SupervisorTypeOK
  <2> QED
    BY <2>1, <2>2 DEF Holds
<1> QED
  BY <1>1, <1>3, KeepsStart

LEMMA StartRestarts ==
  ASSUME IInv, DownInv, StartPending, CloseReturns \/ Crash \/ Restart
  PROVE  StartPending'
<1>1. CASE CloseReturns \/ Crash
  BY <1>1 DEF CloseReturns, Crash, LoseMemory, StartPending
<1>2. CASE ReconcilePending /\ Restart
  BY <1>2 DEF ReconcilePending, StartPending, Queued
<1>3. CASE (ReconcileRunning \/ ReconcileWaiting \/ ReconcilePaused) /\ Restart
  <2>1. row \in Row
    BY DEF IInv, TypeOK, StoreTypeOK
  <2>2. task'.status # "PENDING"
    BY <1>3, <2>1 DEF ReconcileRunning, ReconcileWaiting, ReconcilePaused, FreshRuntime, Row
  <2> QED
    BY <2>2 DEF StartPending
<1>4. CASE ReconcileNothing /\ Restart
  <2>1. pc' = pc /\ events' = events /\ task' = task
    BY <1>4 DEF ReconcileNothing, goroutine
  <2>2. daemon = "down" => pc # "select"
    BY DEF DownInv
  <2> QED
    BY <1>4, <2>1, <2>2 DEF StartPending, Restart
<1> QED
  BY <1>1, <1>2, <1>3, <1>4 DEF Restart

LEMMA StartAlwaysPending == Spec => []StartPending
<1>1. Init => StartPending
  <2> SUFFICES ASSUME Init PROVE StartPending
    OBVIOUS
  <2>1. 1 \in DOMAIN events /\ events[1] = Event("start", 0)
    BY DEF Init
  <2> QED
    BY <2>1 DEF StartPending, Queued
<1>2. IInv /\ LiveInv /\ StartPending /\ [Next]_vars => StartPending'
  <2> SUFFICES ASSUME IInv, DownInv, StartPending, [Next]_vars PROVE StartPending'
    BY DEF LiveInv
  <2>1. CASE UNCHANGED vars
    BY <2>1 DEF vars, goroutine, StartPending, Serving, Queued
  <2> QED
    BY <2>1, StartSupervisor, StartOthers, StartRestarts DEF Next
<1> QED
  BY <1>1, <1>2, AlwaysLive, PTL DEF Spec

\* Whatever the interleaving of exits, timers, probes, clients, failures and
\* restarts, the start, the wake-up and the exit of the child that a task with a
\* supervisor lives on are on their way to it; the probing of a quota wait is,
\* as long as the daemon has not been restarted.
THEOREM AwaitedIsAlwaysComing == Spec => []AwaitedIsComing
<1>1. LiveInv /\ StartPending => AwaitedIsComing
  BY DEF LiveInv, WakeInv, SpawnedInv, ProbeInv, AwaitedIsComing
<1> QED
  BY <1>1, AlwaysLive, StartAlwaysPending, PTL

\* Only a transaction accounts a wait.
LEMMA SameRowCounts == ASSUME IInv, row' = row PROVE CountsWait
BY DEF CountsWait, IInv, TypeOK, StoreTypeOK, Row

\* What wake adds to a wait that is timed.
LEMMA AccountedRow ==
  ASSUME NEW t \in Row, NEW s \in Statuses, t.status = "WAITING" => waitingSince
  PROVE  To(AccountWait(t), s).waits = t.waits + (IF t.status = "WAITING" THEN 1 ELSE 0)
<1>1. AccountWait(t).waits = t.waits + (IF t.status = "WAITING" THEN 1 ELSE 0)
  BY DEF AccountWait, Row
<1>2. AccountWait(t) \in Row
  BY AccountRow
<1> QED
  BY <1>1, <1>2, ToRow

LEMMA NextCounts == IInv /\ LiveInv /\ [Next]_vars => [NotRestarted => CountsWait]_vars
<1> SUFFICES ASSUME IInv, LiveInv, [Next]_vars, NotRestarted PROVE CountsWait
  OBVIOUS
<1>0. row \in Row /\ row.waits \in Nat
  BY DEF IInv, TypeOK, StoreTypeOK, Row
<1>1. CASE Ignore \/ Spawn \/ StopKill \/ RunReturns \/ CommitSpawnFails \/ ExitFails
  <2>1. row' = row
    BY <1>1 DEF Ignore, Spawn, StopKill, RunReturns, CommitSpawnFails, ExitFails, Fails, durable
  <2> QED
    BY <2>1, SameRowCounts
<1>2. CASE CommitSpawn
  <2>1. /\ task \in Row /\ task.waits = row.waits + (IF row.status = "WAITING" THEN 1 ELSE 0)
    BY <1>2 DEF CommitSpawn, LiveInv, AccountInv, IInv, TypeOK, SupervisorTypeOK
  <2>2. row'.status = "RUNNING" /\ row'.waits = task.waits
    BY <1>2, <2>1 DEF CommitSpawn, Commit, To, Row
  <2> QED
    BY <2>1, <2>2 DEF CountsWait
<1>3. CASE SpawnFails \/ Pause
  <2>1. /\ pc = "select" /\ task = row
    BY <1>3, BeginFacts, UserFacts DEF SpawnFails, Pause, AllUserActions
  <2>2. CASE row' = row
    BY <2>2, SameRowCounts
  <2>3. CASE \E s \in {"PAUSED", "FAILED"} : row' = To(AccountWait(task), s)
    <3>1. PICK s \in {"PAUSED", "FAILED"} : row' = To(AccountWait(task), s)
      BY <2>3
    <3>2. s \in Statuses
      BY DEF Statuses
    <3>3. row.status = "WAITING" => waitingSince
      BY <2>1 DEF LiveInv, AccountInv
    <3>4. row'.status = s
      <4>1. AccountWait(row) \in Row
        BY <1>0, AccountRow
      <4> QED
        BY <2>1, <3>1, <3>2, <4>1, ToRow
    <3> QED
      <4>1. row'.waits = row.waits + (IF row.status = "WAITING" THEN 1 ELSE 0)
        BY <1>0, <2>1, <3>1, <3>2, <3>3, AccountedRow
      <4> QED
        BY <1>0, <3>4, <4>1 DEF CountsWait
  <2> QED
    BY <1>3, <2>2, <2>3 DEF SpawnFails, Pause, Commit, Fails, durable
<1>4. CASE Schedule \/ RecordPausedExit \/ \E s \in {"SUCCEEDED", "FAILED"} : Finish(s)
  <2>1. task = row
    BY <1>4, ExitFacts DEF Schedule, RecordPausedExit, Finish
  <2>2. row.status \in {"RUNNING", "PAUSED"} /\ row'.waits = row.waits
    BY <1>0, <1>4, <2>1 DEF Schedule, RecordPausedExit, Finish, Commit, To, Row
  <2> QED
    BY <1>0, <2>2 DEF CountsWait
<1>5. CASE CommitStop
  <2>1. task = row
    BY <1>5 DEF CommitStop, IInv, GoroutineInv
  <2>2. CASE row' = row
    BY <2>2, SameRowCounts
  <2>3. CASE row' = To(task, "STOPPED")
    <3>1. row'.status = "STOPPED" /\ row'.waits = row.waits
      BY <1>0, <2>1, <2>3, ToRow DEF Statuses
    <3> QED
      BY <1>0, <3>1 DEF CountsWait
  <2> QED
    BY <1>5, <2>2, <2>3 DEF CommitStop, Commit, Fails, durable
<1>6. CASE \E p \in DOMAIN procs : ChildExit(p) \/ Reap(p) \/ PostExit(p)
  BY <1>6, SameRowCounts DEF ChildExit, Reap, PostExit, durable
<1>7. CASE Tick \/ StepBack \/ TimerExpires \/ \E w \in firing : PostTimerFire(w)
  BY <1>7, SameRowCounts DEF Tick, StepBack, TimerExpires, PostTimerFire, durable
<1>8. CASE \E w \in Waits : ProbeSucceeds(w) \/ PostAvailability(w) \/ ProberEnds(w)
  BY <1>8, SameRowCounts DEF ProbeSucceeds, PostAvailability, ProberEnds, durable
<1>9. CASE \E c \in Clients : PostUser(c) \/ \E a \in UserActions : Accept(c, a)
  BY <1>9, SameRowCounts DEF PostUser, Accept, durable
<1>10. CASE Shutdown \/ BeginClose \/ CloseReturns \/ Crash
  BY <1>10, SameRowCounts DEF Shutdown, BeginClose, CloseReturns, Crash, durable
<1>11. ~Restart
  BY DEF Restart, LiveInv, DownInv
<1>12. CASE UNCHANGED vars
  BY <1>12, SameRowCounts DEF vars
<1> QED
  BY <1>1, <1>2, <1>3, <1>4, <1>5, <1>6, <1>7, <1>8, <1>9, <1>10, <1>11, <1>12
     DEF Next, SupervisorStep, SupervisorFault

\* As long as the daemon has not been restarted, every wait that ends in an
\* attempt, a pause or a failure is accounted once, and no other step counts.
THEOREM EveryWaitIsAccounted == Spec => WaitIsAccountedByOneDaemon
<1>1. (IInv /\ LiveInv) /\ [Next]_vars => [NotRestarted => CountsWait]_vars
  BY NextCounts
<1> QED
  BY <1>1, AlwaysLive, PTL DEF Spec, WaitIsAccountedByOneDaemon

-----------------------------------------------------------------------------
\* How many attempts a task can still make.

\* The resumes that users have asked for and that have not been handled.
Asking == {c \in Clients : req[c] = "user_resume"}
Resumes(s) == {i \in DOMAIN s : s[i].type = "user_resume"}
Pending == Cardinality(Asking) + Cardinality(Resumes(events))

One(claim) == IF claim THEN 1 ELSE 0

\* A task has a claim on one more attempt while it is bound for one; a daemon
\* that goes down may turn the attempt it leaves behind into another.
Claims == One(row.status \in {"PENDING", "WAITING"} \/ pc = "spawned")
          + One(daemon \in {"stopping", "closing"})
          + One(daemon = "down" /\ row.status = "RUNNING")

BoundInv ==
  /\ Pending <= used.resume
  /\ MaxAttempts # 0 =>
       row.total + Pending + Claims <= MaxAttempts + used.resume + used.crash + used.shutdown

LEMMA ResumesType ==
  ASSUME NEW s \in Seq(Events)
  PROVE  IsFiniteSet(Resumes(s)) /\ Cardinality(Resumes(s)) \in Nat
<1>1. Len(s) \in Nat /\ Resumes(s) \in SUBSET (1 .. Len(s))
  BY DEF Resumes
<1>2. IsFiniteSet(1 .. Len(s))
  BY <1>1, FS_Interval
<1> QED
  BY <1>1, <1>2, FS_Subset, FS_CardinalityType

LEMMA ResumesAppend ==
  ASSUME NEW s \in Seq(Events), NEW e \in Events
  PROVE  Cardinality(Resumes(Append(s, e)))
           = Cardinality(Resumes(s)) + One(e.type = "user_resume")
<1>1. /\ Len(s) \in Nat /\ DOMAIN s = 1 .. Len(s)
      /\ DOMAIN Append(s, e) = 1 .. (Len(s) + 1)
      /\ Append(s, e)[Len(s) + 1] = e
      /\ \A i \in 1 .. Len(s) : Append(s, e)[i] = s[i]
  OBVIOUS
<1>2. /\ 1 .. (Len(s) + 1) = (1 .. Len(s)) \cup {Len(s) + 1}
      /\ Len(s) + 1 \notin 1 .. Len(s)
  BY <1>1
<1>3. IsFiniteSet(Resumes(s)) /\ Cardinality(Resumes(s)) \in Nat
  BY ResumesType
<1>4. Len(s) + 1 \notin Resumes(s)
  BY <1>1, <1>2 DEF Resumes
<1>5. CASE e.type = "user_resume"
  <2>1. Resumes(Append(s, e)) = Resumes(s) \cup {Len(s) + 1}
    BY <1>1, <1>2, <1>5 DEF Resumes
  <2>2. Cardinality(Resumes(s) \cup {Len(s) + 1}) = Cardinality(Resumes(s)) + 1
    BY <1>3, <1>4, FS_AddElement
  <2> QED
    BY <1>5, <2>1, <2>2 DEF One
<1>6. CASE e.type # "user_resume"
  <2>1. Resumes(Append(s, e)) = Resumes(s)
    BY <1>1, <1>2, <1>6 DEF Resumes
  <2> QED
    BY <1>3, <1>6, <2>1 DEF One
<1> QED
  BY <1>5, <1>6

LEMMA ResumesTail ==
  ASSUME NEW s \in Seq(Events), s # <<>>
  PROVE  Cardinality(Resumes(Tail(s))) + One(Head(s).type = "user_resume")
           <= Cardinality(Resumes(s))
<1>1. /\ Len(s) \in Nat /\ DOMAIN s = 1 .. Len(s) /\ Len(s) > 0
      /\ Tail(s) \in Seq(Events) /\ DOMAIN Tail(s) = 1 .. (Len(s) - 1)
      /\ \A i \in 1 .. (Len(s) - 1) : Tail(s)[i] = s[i + 1]
      /\ Head(s) = s[1]
  OBVIOUS
<1>2. /\ IsFiniteSet(Resumes(s)) /\ Cardinality(Resumes(s)) \in Nat
      /\ Cardinality(Resumes(Tail(s))) \in Nat
  BY <1>1, ResumesType
<1>3. /\ IsFiniteSet(Resumes(s) \ {1})
      /\ Cardinality(Resumes(s) \ {1})
           = IF 1 \in Resumes(s) THEN Cardinality(Resumes(s)) - 1 ELSE Cardinality(Resumes(s))
  BY <1>2, FS_RemoveElement
<1>4. Cardinality(Resumes(Tail(s))) <= Cardinality(Resumes(s) \ {1})
  <2> DEFINE f == [i \in Resumes(Tail(s)) |-> i + 1]
  <2>1. \A i \in Resumes(Tail(s)) : i \in Nat /\ i + 1 \in Resumes(s) \ {1}
    BY <1>1 DEF Resumes
  <2>2. f \in Injection(Resumes(Tail(s)), Resumes(s) \ {1})
    BY <2>1 DEF Injection, IsInjective
  <2> QED
    BY <1>3, <2>2, FS_Injection
<1>5. 1 \in Resumes(s) <=> Head(s).type = "user_resume"
  BY <1>1 DEF Resumes
<1> QED
  BY <1>2, <1>3, <1>4, <1>5 DEF One

LEMMA AskingType == IsFiniteSet(Asking) /\ Cardinality(Asking) \in Nat
<1>1. IsFiniteSet(Clients) /\ Asking \in SUBSET Clients
  BY SupervisorAssumption DEF Asking
<1> QED
  BY <1>1, FS_Subset, FS_CardinalityType

LEMMA PendingType == IInv => Pending \in Nat
BY AskingType, ResumesType DEF Pending, IInv, TypeOK, SupervisorTypeOK

LEMMA CountTypes ==
  IInv => /\ Pending \in Nat /\ row.total \in Nat /\ Claims \in Nat
          /\ used.resume \in Nat /\ used.crash \in Nat /\ used.shutdown \in Nat
<1>1. IInv => row.total \in Nat
  BY DEF IInv, TypeOK, StoreTypeOK, Row
<1>2. IInv => used.resume \in Nat /\ used.crash \in Nat /\ used.shutdown \in Nat
  BY DEF IInv, TypeOK, DaemonTypeOK
<1> QED
  BY <1>1, <1>2, PendingType DEF Claims, One

\* Receiving an event, and posting one.
LEMMA PendingTake ==
  ASSUME IInv, events # <<>>, events' = Tail(events), req' = req
  PROVE  Pending' + One(Head(events).type = "user_resume") <= Pending
<1>1. events \in Seq(Events) /\ Tail(events) \in Seq(Events)
  BY DEF IInv, TypeOK, SupervisorTypeOK
<1>2. Asking' = Asking /\ Resumes(events)' = Resumes(Tail(events))
  BY DEF Asking, Resumes
<1>3. /\ Cardinality(Asking) \in Nat /\ Cardinality(Resumes(events)) \in Nat
      /\ Cardinality(Resumes(Tail(events))) \in Nat
  BY <1>1, AskingType, ResumesType
<1>4. Cardinality(Resumes(Tail(events))) + One(Head(events).type = "user_resume")
        <= Cardinality(Resumes(events))
  BY <1>1, ResumesTail
<1>5. Pending' = Cardinality(Asking) + Cardinality(Resumes(Tail(events)))
  BY <1>2 DEF Pending
<1> QED
  BY <1>3, <1>4, <1>5 DEF Pending, One

LEMMA PendingPost ==
  ASSUME IInv, NEW e \in Events, events' = events \/ events' = Append(events, e)
  PROVE  Cardinality(Resumes(events)')
           <= Cardinality(Resumes(events)) + One(e.type = "user_resume")
<1>1. events \in Seq(Events)
  BY DEF IInv, TypeOK, SupervisorTypeOK
<1>2. CASE events' = events
  <2>1. Resumes(events)' = Resumes(events)
    BY <1>2 DEF Resumes
  <2> QED
    BY <1>1, <2>1, ResumesType DEF One
<1>3. CASE events' = Append(events, e)
  <2>1. Resumes(events)' = Resumes(Append(events, e))
    BY <1>3 DEF Resumes
  <2>2. Cardinality(Resumes(Append(events, e)))
          = Cardinality(Resumes(events)) + One(e.type = "user_resume")
    BY <1>1, ResumesAppend
  <2> QED
    BY <1>1, <2>1, <2>2, ResumesType DEF One
<1> QED
  BY <1>2, <1>3

\* An attempt that is claimed, or a resume that is asked for, is paid for.
LEMMA Balance ==
  ASSUME IInv, IInv', BoundInv, NEW j \in Nat, NEW k \in Nat,
         Pending' <= Pending + j, used'.resume = used.resume + j,
         Claims' <= Claims + k, row'.total = row.total,
         used'.crash + used'.shutdown = used.crash + used.shutdown + k
  PROVE  BoundInv'
<1>1. PICK p \in Nat, c \in Nat : p = Pending /\ c = Claims
  BY CountTypes
<1>2. (Pending \in Nat /\ Claims \in Nat)'
  BY CountTypes, PTL
<1>3. PICK q \in Nat, d \in Nat : q = Pending' /\ d = Claims'
  BY <1>2
<1>4. q <= p + j /\ d <= c + k
  BY <1>1, <1>3
<1>5. /\ row.total \in Nat /\ MaxAttempts \in Nat
      /\ used.resume \in Nat /\ used.crash \in Nat /\ used.shutdown \in Nat
      /\ used'.resume \in Nat /\ used'.crash \in Nat /\ used'.shutdown \in Nat
  BY CountTypes, SupervisorAssumption DEF IInv, TypeOK, DaemonTypeOK
<1>6. p <= used.resume /\ (MaxAttempts # 0 =>
        row.total + p + c <= MaxAttempts + used.resume + used.crash + used.shutdown)
  BY <1>1 DEF BoundInv
<1>7. q <= used'.resume /\ (MaxAttempts # 0 =>
        row'.total + q + d <= MaxAttempts + used'.resume + used'.crash + used'.shutdown)
  BY <1>4, <1>5, <1>6
<1> QED
  BY <1>3, <1>7 DEF BoundInv

\* A step that neither asks for an attempt nor makes one.
LEMMA QuietBound ==
  ASSUME IInv, IInv', BoundInv, Pending' <= Pending, row'.total = row.total, daemon' = daemon,
         used'.crash = used.crash, used'.shutdown = used.shutdown, used'.resume = used.resume,
         row'.status \in {"PENDING", "WAITING"} \/ pc' = "spawned" =>
           row.status \in {"PENDING", "WAITING"} \/ pc = "spawned",
         daemon = "down" => row'.status = row.status
  PROVE  BoundInv'
<1>1. Claims' <= Claims
  BY DEF Claims, One
<1>2. PICK p \in Nat, c \in Nat : p = Pending /\ c = Claims
  BY CountTypes
<1>3. Pending' <= Pending + 0 /\ Claims' <= Claims + 0
  BY <1>1, <1>2
<1>4. used'.resume = used.resume + 0 /\ used'.crash + used'.shutdown = used.crash + used.shutdown + 0
  BY CountTypes
<1> QED
  BY <1>3, <1>4, Balance

\* What the supervisor receives is no longer pending.
LEMMA TakeBound ==
  ASSUME IInv, NEW type \in EventTypes, Take(type), req' = req
  PROVE  Pending' + One(type = "user_resume") <= Pending /\ Pending' <= Pending
<1>1. Pending' + One(type = "user_resume") <= Pending
  BY PendingTake DEF Take
<1>2. Pending' \in Nat
  <2>1. events' \in Seq(Events)
    BY TakeFacts DEF IInv, TypeOK
  <2>2. Asking' = Asking /\ Resumes(events)' = Resumes(events')
    BY DEF Asking, Resumes
  <2> QED
    BY <2>1, <2>2, AskingType, ResumesType DEF Pending
<1> QED
  BY <1>1, <1>2, PendingType DEF One

\* The transitions that end an attempt or a wait for good, and the failures.
LEMMA HandlersBound ==
  ASSUME IInv, IInv', LiveInv, BoundInv,
         \/ \E s \in {"SUCCEEDED", "FAILED"} : Finish(s)
         \/ RecordPausedExit \/ ExitFails \/ Pause \/ StopKill
  PROVE  BoundInv'
<1>1. PICK type \in {"attempt_exit", "user_pause", "user_stop"} : Take(type)
  BY DEF Finish, RecordPausedExit, ExitFails, Pause, StopKill
<1>2. type \in EventTypes /\ req' = req /\ daemon' = daemon
  BY DEF EventTypes, AllUserActions, Finish, RecordPausedExit, ExitFails, Pause, StopKill
<1>3. pc = "select" /\ task = row /\ task \in Row /\ daemon # "down"
  BY <1>1, <1>2, TakeLeaves DEF LiveInv, DownInv
<1>4. Pending' <= Pending
  BY <1>1, <1>2, TakeBound
<1>5. SameUse /\ used'.resume = used.resume
  BY FaultUse DEF Finish, RecordPausedExit, ExitFails, Pause, StopKill, IInv, TypeOK
<1>6. /\ row'.total = row.total /\ pc' # "spawned"
      /\ row'.status \in {row.status, "SUCCEEDED", "FAILED", "PAUSED"}
  <2>1. CASE \E s \in {"SUCCEEDED", "FAILED"} : Finish(s)
    BY <1>3, <2>1 DEF Finish, Commit, To, Row
  <2>2. CASE RecordPausedExit
    BY <1>3, <2>2 DEF RecordPausedExit, Commit
  <2>3. CASE ExitFails \/ StopKill
    BY <2>3 DEF ExitFails, StopKill, Fails, durable
  <2>4. CASE Pause
    <3>1. AccountWait(task) \in Row /\ AccountWait(task).total = task.total
      BY <1>3, AccountRow
    <3>2. To(AccountWait(task), "PAUSED").status = "PAUSED"
          /\ To(AccountWait(task), "PAUSED").total = task.total
      BY <3>1, ToRow DEF Statuses
    <3> QED
      <4>1. row' = row \/ row' = To(AccountWait(task), "PAUSED")
        BY <2>4 DEF Pause, Commit, Fails, durable
      <4>2. pc' = pc \/ pc' = "failed"
        BY <2>4 DEF Pause, Fails
      <4> QED
        BY <1>3, <3>2, <4>1, <4>2
  <2> QED
    BY <2>1, <2>2, <2>3, <2>4
<1> QED
  BY <1>2, <1>3, <1>4, <1>5, <1>6, QuietBound DEF SameUse

\* What does not handle an event, and Run's return, which drops them all.
LEMMA OtherStepsBound ==
  ASSUME IInv, IInv', LiveInv, BoundInv,
         Ignore \/ CommitSpawnFails \/ CommitStop \/ RunReturns
  PROVE  BoundInv'
<1>1. req' = req /\ daemon' = daemon /\ pc # "off" /\ daemon # "down"
  BY DEF Ignore, CommitSpawnFails, CommitStop, RunReturns, LiveInv, DownInv
<1>2. SameUse /\ used'.resume = used.resume
  BY FaultUse DEF Ignore, CommitSpawnFails, CommitStop, RunReturns, IInv, TypeOK
<1>3. Pending' <= Pending
  <2>1. CASE Ignore
    <3>1. Pending' + One(Head(events).type = "user_resume") <= Pending
      BY <1>1, <2>1, PendingTake DEF Ignore
    <3>2. Pending \in Nat
      BY CountTypes
    <3>3. (Pending \in Nat)'
      BY CountTypes, PTL
    <3>4. One(Head(events).type = "user_resume") \in Nat
      BY DEF One
    <3> QED
      BY <3>1, <3>2, <3>3, <3>4
  <2>2. CASE CommitSpawnFails \/ CommitStop
    <3>1. events' = events
      BY <2>2 DEF CommitSpawnFails, CommitStop
    <3>2. Pending' = Pending
      BY <1>1, <3>1 DEF Pending, Asking, Resumes
    <3> QED
      BY <3>2, PendingType
  <2>3. CASE RunReturns
    <3>1. Resumes(events)' = {} /\ Asking' = Asking
      BY <1>1, <2>3 DEF RunReturns, Resumes, Asking
    <3>2. Pending' = Cardinality(Asking) + 0
      BY <3>1, FS_EmptySet DEF Pending
    <3> QED
      BY <3>2, AskingType, ResumesType DEF Pending, IInv, TypeOK, SupervisorTypeOK
  <2> QED
    BY <2>1, <2>2, <2>3
<1>4. /\ row'.total = row.total
      /\ pc' # "spawned" \/ pc' = pc
      /\ row'.status \in {row.status, "STOPPED"}
  <2>1. CASE Ignore \/ CommitSpawnFails \/ RunReturns
    BY <2>1 DEF Ignore, CommitSpawnFails, RunReturns, Fails, durable, goroutine
  <2>2. CASE CommitStop
    <3>1. task = row /\ task \in Row
      BY <2>2 DEF CommitStop, IInv, TypeOK, SupervisorTypeOK, GoroutineInv
    <3>2. To(task, "STOPPED").status = "STOPPED" /\ To(task, "STOPPED").total = task.total
      BY <3>1, ToRow DEF Statuses
    <3>3. row' = row \/ row' = To(task, "STOPPED")
      BY <2>2 DEF CommitStop, Commit, Fails, durable
    <3>4. pc' \in {"select", "failed"}
      BY <2>2 DEF CommitStop, Fails
    <3> QED
      BY <3>1, <3>2, <3>3, <3>4
  <2> QED
    BY <2>1, <2>2
<1> QED
  BY <1>1, <1>2, <1>3, <1>4, QuietBound DEF SameUse

\* Only a task that a user resumes comes to a new attempt out of a pause.
LEMMA BeginBound ==
  ASSUME IInv, BeginAttempt, req' = req
  PROVE  /\ Pending' <= Pending
         /\ task.status \in {"PENDING", "WAITING"} \/ Pending' + 1 <= Pending
<1>1. PICK type \in {"start", "timer_fire", "availability_ok", "user_resume"} : Take(type)
  BY DEF BeginAttempt, Wakes
<1>2. type \in EventTypes
  BY DEF EventTypes, AllUserActions
<1>3. Pending' + One(type = "user_resume") <= Pending /\ Pending' <= Pending
  BY <1>1, <1>2, TakeBound
<1>4. task.status \in Accepts[type]
  BY <1>1, <1>2, TakeFacts DEF IInv, TypeOK
<1>5. type # "user_resume" => task.status \in {"PENDING", "WAITING"}
  BY <1>4 DEF Accepts
<1> QED
  BY <1>3, <1>5 DEF One

LEMMA SpawnBound ==
  ASSUME IInv, IInv', LiveInv, BoundInv, Spawn \/ SpawnFails
  PROVE  BoundInv'
<1>1. /\ Pending' <= Pending
      /\ task.status \in {"PENDING", "WAITING"} \/ Pending' + 1 <= Pending
  BY BeginBound DEF Spawn, SpawnFails
<1>2. /\ pc = "select" /\ task = row /\ task \in Row /\ daemon # "down" /\ daemon' = daemon
  BY BeginLeaves DEF Spawn, SpawnFails, LiveInv, DownInv
<1>3. SameUse /\ used'.resume = used.resume
  BY FaultUse DEF Spawn, SpawnFails, IInv, TypeOK
<1>4. CASE Spawn
  <2>1. row' = row /\ pc' = "spawned"
    BY <1>4 DEF Spawn, durable
  <2>2. PICK p \in Nat, c \in Nat : p = Pending /\ c = Claims
    BY CountTypes
  <2>3. (Pending \in Nat /\ Claims \in Nat)'
    BY CountTypes, PTL
  <2>4. PICK q \in Nat, d \in Nat : q = Pending' /\ d = Claims'
    BY <2>3
  <2>5. q <= p /\ (task.status \in {"PENDING", "WAITING"} \/ q + 1 <= p)
    BY <1>1, <2>2, <2>4
  <2>6. /\ Claims' <= Claims + 1
        /\ task.status \in {"PENDING", "WAITING"} => Claims' <= Claims
    BY <1>2, <2>1 DEF Claims, One
  <2>7. d <= c + 1 /\ (task.status \in {"PENDING", "WAITING"} => d <= c)
    BY <2>2, <2>4, <2>6
  <2>8. q + d <= p + c
    BY <2>5, <2>7
  <2>9. /\ row.total \in Nat /\ MaxAttempts \in Nat
        /\ used.resume \in Nat /\ used.crash \in Nat /\ used.shutdown \in Nat
    BY CountTypes, SupervisorAssumption
  <2>10. p <= used.resume /\ (MaxAttempts # 0 =>
           row.total + p + c <= MaxAttempts + used.resume + used.crash + used.shutdown)
    BY <2>2 DEF BoundInv
  <2>11. q <= used.resume /\ (MaxAttempts # 0 =>
           row.total + q + d <= MaxAttempts + used.resume + used.crash + used.shutdown)
    BY <2>5, <2>8, <2>9, <2>10
  <2>12. /\ row'.total = row.total /\ used'.resume = used.resume
         /\ used'.crash = used.crash /\ used'.shutdown = used.shutdown
    BY <1>3, <2>1 DEF SameUse
  <2> QED
    BY <2>4, <2>11, <2>12 DEF BoundInv
<1>5. CASE SpawnFails
  <2>1. AccountWait(task) \in Row /\ AccountWait(task).total = task.total
    BY <1>2, AccountRow
  <2>2. To(AccountWait(task), "FAILED").status = "FAILED"
        /\ To(AccountWait(task), "FAILED").total = task.total
    BY <2>1, ToRow DEF Statuses
  <2>3. row' = row \/ row' = To(AccountWait(task), "FAILED")
    BY <1>5 DEF SpawnFails, Commit, Fails, durable
  <2>4. pc' \in {pc, "failed"}
    BY <1>5 DEF SpawnFails, Fails
  <2> QED
    BY <1>1, <1>2, <1>3, <2>2, <2>3, <2>4, QuietBound DEF SameUse
<1> QED
  BY <1>4, <1>5

\* The claim becomes an attempt.
LEMMA CommitSpawnBound ==
  ASSUME IInv, IInv', LiveInv, BoundInv, CommitSpawn
  PROVE  BoundInv'
<1>1. /\ pc = "spawned" /\ pc' = "select" /\ daemon # "down"
      /\ UNCHANGED <<daemon, events, req, used>>
  BY DEF CommitSpawn, LiveInv, DownInv
<1>2. row'.status = "RUNNING" /\ row'.total = row.total + 1
  BY <1>1 DEF CommitSpawn, Commit, To, Row, IInv, TypeOK, SupervisorTypeOK, GoroutineInv
<1>3. Pending' = Pending
  BY <1>1 DEF Pending, Asking, Resumes
<1>4. Claims' + 1 = Claims
  BY <1>1, <1>2 DEF Claims, One
<1>5. (Pending \in Nat /\ Claims \in Nat)'
  BY CountTypes, PTL
<1> QED
  BY <1>1, <1>2, <1>3, <1>4, <1>5, CountTypes, SupervisorAssumption DEF BoundInv

\* A wait is begun only while the attempts are not used up.
LEMMA ScheduleBound ==
  ASSUME IInv, IInv', LiveInv, BoundInv, Schedule
  PROVE  BoundInv'
<1>1. /\ pc = "select" /\ task = row /\ task \in Row /\ daemon # "down"
  BY TakeLeaves DEF Schedule, EventTypes, LiveInv, DownInv
<1>2. Pending' <= Pending
  BY TakeBound DEF Schedule, EventTypes
<1>3. UNCHANGED <<daemon, used, pc>>
  BY DEF Schedule
<1>4. MaxAttempts # 0 => row.total < MaxAttempts
  <2>1. ~MaxAttemptsHit
    BY DEF Schedule, CapExceeded, MaxAttemptsHit
  <2> QED
    BY <1>1, <2>1, CountTypes, SupervisorAssumption DEF MaxAttemptsHit
<1>5. row'.total = row.total
  BY <1>1 DEF Schedule, Commit, Row
<1>6. Claims' <= 1 + One(daemon \in {"stopping", "closing"})
  BY <1>1, <1>3 DEF Claims, One
<1>7. One(daemon \in {"stopping", "closing"}) <= used.shutdown
  BY CountTypes DEF One, LiveInv, DownInv
<1>8. (Pending \in Nat /\ Claims \in Nat)'
  BY CountTypes, PTL
<1> QED
  BY <1>2, <1>3, <1>4, <1>5, <1>6, <1>7, <1>8, CountTypes, SupervisorAssumption DEF BoundInv, One

\* Children, timers and probers ask for nothing.
LEMMA EnvironmentBound ==
  ASSUME IInv, IInv', LiveInv, BoundInv,
         \/ \E p \in DOMAIN procs : ChildExit(p) \/ Reap(p) \/ PostExit(p)
         \/ Tick \/ StepBack \/ TimerExpires \/ \E w \in firing : PostTimerFire(w)
         \/ \E w \in Waits : ProbeSucceeds(w) \/ PostAvailability(w) \/ ProberEnds(w)
  PROVE  BoundInv'
<1>1. UNCHANGED <<row, pc, req, daemon>>
  BY DEF ChildExit, Reap, PostExit, Tick, StepBack, TimerExpires, PostTimerFire, ProbeSucceeds,
     PostAvailability, ProberEnds, durable, goroutine
<1>2. UNCHANGED <<used.resume, used.crash, used.shutdown>>
  <2>1. used' = used \/ StepBack
    BY DEF ChildExit, Reap, PostExit, Tick, TimerExpires, PostTimerFire, ProbeSucceeds,
       PostAvailability, ProberEnds
  <2> QED
    BY <2>1 DEF StepBack, IInv, TypeOK, DaemonTypeOK
<1>3. \E e \in Events : e.type # "user_resume" /\ (events' = events \/ events' = Append(events, e))
  <2>1. CASE \E p \in DOMAIN procs : ChildExit(p) \/ Reap(p) \/ PostExit(p)
    <3>1. PICK p \in DOMAIN procs : ChildExit(p) \/ Reap(p) \/ PostExit(p)
      BY <2>1
    <3>2. Event("attempt_exit", p) \in Events
      BY EventType DEF IInv, TypeOK, ProcessTypeOK, EventTypes
    <3> QED
      BY <3>1, <3>2 DEF ChildExit, Reap, PostExit, Post, Event
  <2>2. CASE Tick \/ StepBack \/ TimerExpires
    <3>1. Event("start", 0) \in Events
      BY EventType DEF EventTypes
    <3> QED
      BY <2>2, <3>1 DEF Tick, StepBack, TimerExpires, Event
  <2>3. CASE \E w \in firing : PostTimerFire(w)
    <3>1. PICK w \in firing : PostTimerFire(w)
      BY <2>3
    <3>2. Event("timer_fire", w) \in Events
      BY EventType DEF IInv, TypeOK, WakeUpTypeOK, WaitNo, EventTypes
    <3> QED
      BY <3>1, <3>2 DEF PostTimerFire, Post, Event
  <2>4. CASE \E w \in Waits : ProbeSucceeds(w) \/ PostAvailability(w) \/ ProberEnds(w)
    <3>1. PICK w \in Waits : ProbeSucceeds(w) \/ PostAvailability(w) \/ ProberEnds(w)
      BY <2>4
    <3>2. w \in WaitNo
      BY DEF Waits, IInv, TypeOK, WakeUpTypeOK
    <3>3. Event("availability_ok", w) \in Events
      BY <3>2, EventType DEF WaitNo, EventTypes
    <3> QED
      BY <3>1, <3>3 DEF ProbeSucceeds, PostAvailability, ProberEnds, Event
  <2> QED
    BY <2>1, <2>2, <2>3, <2>4
<1>4. PICK e \in Events :
        e.type # "user_resume" /\ (events' = events \/ events' = Append(events, e))
  BY <1>3
<1>5. Pending' <= Pending
  <2>1. Asking' = Asking
    BY <1>1 DEF Asking
  <2>2. Cardinality(Resumes(events)') <= Cardinality(Resumes(events)) + 0
    BY <1>4, PendingPost DEF One
  <2>3. Pending' = Cardinality(Asking) + Cardinality(Resumes(events)')
    BY <2>1 DEF Pending
  <2>4. Cardinality(Asking) \in Nat /\ Cardinality(Resumes(events)) \in Nat
    BY AskingType, ResumesType DEF IInv, TypeOK, SupervisorTypeOK
  <2>5. (events \in Seq(Events))'
    BY DEF IInv, TypeOK, SupervisorTypeOK
  <2>6. Cardinality(Resumes(events)') \in Nat
    BY <2>5, ResumesType
  <2> QED
    BY <2>2, <2>3, <2>4, <2>6 DEF Pending
<1> QED
  BY <1>1, <1>2, <1>5, QuietBound

\* A client's resume is pending from the moment it is accepted until it is
\* handled, in the client's handler or in the channel but never in both.
LEMMA AcceptBound ==
  ASSUME IInv, IInv', BoundInv, NEW c \in Clients, NEW a \in UserActions, Accept(c, a)
  PROVE  BoundInv'
<1> DEFINE more == One(a = "user_resume")
<1>1. /\ UNCHANGED <<row, pc, daemon, events>> /\ req' = [req EXCEPT ![c] = a] /\ req[c] = "none"
      /\ used'.resume = used.resume + more /\ more \in Nat
      /\ used'.crash = used.crash /\ used'.shutdown = used.shutdown
  BY DEF Accept, durable, goroutine, IInv, TypeOK, DaemonTypeOK, One
<1>2. IsFiniteSet(Asking) /\ Cardinality(Asking) \in Nat /\ (Cardinality(Asking) \in Nat)'
  BY AskingType, PTL
<1>3. (Cardinality(Asking))' <= Cardinality(Asking) + more
  <2>1. CASE a = "user_resume"
    <3>1. Asking' = Asking \cup {c} /\ c \notin Asking
      BY <1>1, <2>1 DEF Asking, IInv, TypeOK, DaemonTypeOK
    <3>2. Cardinality(Asking \cup {c}) = Cardinality(Asking) + 1
      BY <1>2, <3>1, FS_AddElement
    <3> QED
      BY <1>2, <2>1, <3>1, <3>2 DEF One
  <2>2. CASE a # "user_resume"
    <3>1. Asking' = Asking
      BY <1>1, <2>2 DEF Asking, IInv, TypeOK, DaemonTypeOK
    <3> QED
      BY <1>2, <2>2, <3>1 DEF One
  <2> QED
    BY <2>1, <2>2
<1>4. Resumes(events)' = Resumes(events)
  BY <1>1 DEF Resumes
<1>5. Cardinality(Resumes(events)) \in Nat
  BY ResumesType DEF IInv, TypeOK, SupervisorTypeOK
<1>6. Pending' = (Cardinality(Asking))' + Cardinality(Resumes(events))
  BY <1>4 DEF Pending
<1> HIDE DEF more
<1>7. Pending' <= Pending + more
  BY <1>1, <1>2, <1>3, <1>5, <1>6 DEF Pending
<1>8. Claims' <= Claims + 0
  <2>1. Claims' = Claims
    BY <1>1 DEF Claims
  <2>2. PICK k \in Nat : k = Claims
    BY CountTypes
  <2> QED
    BY <2>1, <2>2
<1>9. used'.crash + used'.shutdown = used.crash + used.shutdown + 0
  BY <1>1, CountTypes
<1> QED
  BY <1>1, <1>7, <1>8, <1>9, Balance

LEMMA PostUserBound ==
  ASSUME IInv, IInv', BoundInv, NEW c \in Clients, PostUser(c)
  PROVE  BoundInv'
<1>1. /\ UNCHANGED <<row, pc, daemon, used>> /\ req' = [req EXCEPT ![c] = "none"]
      /\ events' = events \/ events' = Append(events, Event(req[c], 0))
  BY DEF PostUser, Post, durable, goroutine
<1>2. Event(req[c], 0) \in Events /\ Event(req[c], 0).type = req[c]
  <2>1. req[c] \in EventTypes
    BY DEF PostUser, EventTypes, IInv, TypeOK, DaemonTypeOK
  <2> QED
    BY <2>1, EventType DEF Event
<1>3. Asking' = Asking \ {c} /\ (c \in Asking <=> req[c] = "user_resume")
  BY <1>1 DEF Asking, IInv, TypeOK, DaemonTypeOK
<1>4. Cardinality(Asking \ {c})
        = IF c \in Asking THEN Cardinality(Asking) - 1 ELSE Cardinality(Asking)
  BY AskingType, FS_RemoveElement
<1>5. Cardinality(Resumes(events)') <= Cardinality(Resumes(events)) + One(req[c] = "user_resume")
  BY <1>1, <1>2, PendingPost
<1>6. Cardinality(Asking) \in Nat /\ Cardinality(Resumes(events)) \in Nat
  BY AskingType, ResumesType DEF IInv, TypeOK, SupervisorTypeOK
<1>7. (events \in Seq(Events))'
  BY DEF IInv, TypeOK, SupervisorTypeOK
<1>8. Cardinality(Resumes(events)') \in Nat
  BY <1>7, ResumesType
<1>9. Pending' = Cardinality(Asking \ {c}) + Cardinality(Resumes(events)')
  BY <1>3 DEF Pending
<1>10. Pending' <= Pending
  BY <1>3, <1>4, <1>5, <1>6, <1>8, <1>9 DEF Pending, One
<1> QED
  BY <1>1, <1>10, QuietBound

\* A daemon that is gone has nothing pending, and has paid for one attempt.
LEMMA DaemonBound ==
  ASSUME IInv, IInv', LiveInv, BoundInv,
         Shutdown \/ BeginClose \/ CloseReturns \/ Crash
  PROVE  BoundInv'
<1>1. row' = row /\ daemon # "down"
  BY DEF Shutdown, BeginClose, CloseReturns, Crash, durable
<1>2. Pending' <= Pending
  <2>1. CASE Shutdown \/ BeginClose
    <3>1. UNCHANGED <<events, req>>
      BY <2>1 DEF Shutdown, BeginClose
    <3>2. Pending' = Pending
      BY <3>1 DEF Pending, Asking, Resumes
    <3> QED
      BY <3>2, PendingType
  <2>2. CASE CloseReturns \/ Crash
    <3>1. Resumes(events)' = {} /\ Asking' = {}
      BY <2>2 DEF CloseReturns, Crash, LoseMemory, Resumes, Asking
    <3>2. Pending' = 0
      BY <3>1, FS_EmptySet DEF Pending
    <3> QED
      BY <3>2, PendingType
  <2> QED
    BY <2>1, <2>2
<1>3. used'.resume = used.resume
  BY DEF Shutdown, BeginClose, CloseReturns, Crash, IInv, TypeOK, DaemonTypeOK
<1>4. PICK p \in Nat, c \in Nat : p = Pending /\ c = Claims
  BY CountTypes
<1>5. CASE Shutdown \/ Crash
  <2>1. used'.crash + used'.shutdown = used.crash + used.shutdown + 1
    BY <1>5, CountTypes DEF Shutdown, Crash, IInv, TypeOK, DaemonTypeOK
  <2>2. Claims' <= Claims + 1
    <3>1. CASE Shutdown
      BY <1>1, <3>1 DEF Shutdown, Claims, One, goroutine
    <3>2. CASE Crash
      BY <1>1, <3>2 DEF Crash, LoseMemory, Claims, One
    <3> QED
      BY <1>5, <3>1, <3>2
  <2>3. Pending' <= Pending + 0 /\ used'.resume = used.resume + 0 /\ row'.total = row.total
    BY <1>1, <1>2, <1>3, <1>4, CountTypes
  <2> QED
    BY <2>1, <2>2, <2>3, Balance
<1>6. CASE BeginClose \/ CloseReturns
  <2>1. used' = used
    BY <1>6 DEF BeginClose, CloseReturns
  <2>2. Claims' <= Claims
    <3>1. CASE BeginClose
      BY <1>1, <3>1 DEF BeginClose, Claims, One, goroutine
    <3>2. CASE CloseReturns
      BY <1>1, <3>2 DEF CloseReturns, LoseMemory, Claims, One
    <3> QED
      BY <1>6, <3>1, <3>2
  <2>3. /\ Pending' <= Pending + 0 /\ Claims' <= Claims + 0
        /\ used'.resume = used.resume + 0 /\ row'.total = row.total
        /\ used'.crash + used'.shutdown = used.crash + used.shutdown + 0
    BY <1>1, <1>2, <1>4, <2>1, <2>2, CountTypes
  <2> QED
    BY <2>3, Balance
<1> QED
  BY <1>5, <1>6

LEMMA RestartBound == ASSUME IInv, IInv', LiveInv, BoundInv, Restart PROVE BoundInv'
<1>1. /\ daemon = "down" /\ daemon' = "up" /\ pc = "off" /\ req' = req /\ events = <<>>
      /\ pc' \in {"off", "select"}
  BY DEF Restart, LiveInv, DownInv, ReconcileRunning, ReconcileWaiting, ReconcilePending,
     ReconcilePaused, ReconcileNothing, FreshRuntime, goroutine
<1>2. /\ row'.total = row.total
      /\ row'.status = row.status \/ (row.status = "RUNNING" /\ row'.status = "WAITING")
  <2>1. CASE ReconcileRunning
    <3>1. row \in Row
      BY DEF IInv, TypeOK, StoreTypeOK
    <3> QED
      BY <2>1, <3>1 DEF ReconcileRunning, Row
  <2>2. CASE ReconcileWaiting \/ ReconcilePending \/ ReconcilePaused \/ ReconcileNothing
    BY <2>2 DEF ReconcileWaiting, ReconcilePending, ReconcilePaused, ReconcileNothing, durable
  <2> QED
    BY <2>1, <2>2 DEF Restart
<1>3. used'.resume = used.resume /\ used'.crash = used.crash /\ used'.shutdown = used.shutdown
  BY DEF Restart, ReconcileRunning, ReconcileWaiting, ReconcilePending, ReconcilePaused,
     ReconcileNothing, Fault, IInv, TypeOK, DaemonTypeOK
<1>4. Pending' = Pending
  <2>1. events' \in {<<>>, <<Event("start", 0)>>}
    BY <1>1 DEF Restart, ReconcileRunning, ReconcileWaiting, ReconcilePending, ReconcilePaused,
       ReconcileNothing
  <2>2. Resumes(events') = {} /\ Resumes(events) = {}
    BY <1>1, <2>1 DEF Resumes, Event
  <2>3. Asking' = Asking /\ Resumes(events)' = Resumes(events')
    BY <1>1 DEF Asking, Resumes
  <2> QED
    BY <2>2, <2>3 DEF Pending
<1>5. Claims' <= Claims
  BY <1>1, <1>2 DEF Claims, One
<1>6. PICK p \in Nat, c \in Nat : p = Pending /\ c = Claims
  BY CountTypes
<1>7. /\ Pending' <= Pending + 0 /\ Claims' <= Claims + 0
      /\ used'.resume = used.resume + 0
      /\ used'.crash + used'.shutdown = used.crash + used.shutdown + 0
  BY <1>3, <1>4, <1>5, <1>6, CountTypes
<1> QED
  BY <1>2, <1>7, Balance

LEMMA NextBound == IInv /\ LiveInv /\ BoundInv /\ [Next]_vars => BoundInv'
<1> SUFFICES ASSUME IInv, LiveInv, BoundInv, [Next]_vars PROVE BoundInv'
  OBVIOUS
<1>0. IInv'
  BY NextIInv
<1>1. CASE SupervisorStep
  BY <1>0, <1>1, OtherStepsBound, SpawnBound, CommitSpawnBound, HandlersBound, ScheduleBound
     DEF SupervisorStep
<1>2. CASE SupervisorFault
  BY <1>0, <1>2, OtherStepsBound, SpawnBound, HandlersBound DEF SupervisorFault
<1>3. CASE \/ \E p \in DOMAIN procs : ChildExit(p) \/ Reap(p) \/ PostExit(p)
           \/ Tick \/ StepBack \/ TimerExpires \/ \E w \in firing : PostTimerFire(w)
           \/ \E w \in Waits : ProbeSucceeds(w) \/ PostAvailability(w) \/ ProberEnds(w)
  BY <1>0, <1>3, EnvironmentBound
<1>4. CASE \E c \in Clients : PostUser(c) \/ \E a \in UserActions : Accept(c, a)
  BY <1>0, <1>4, PostUserBound, AcceptBound
<1>5. CASE Shutdown \/ BeginClose \/ CloseReturns \/ Crash \/ Restart
  BY <1>0, <1>5, DaemonBound, RestartBound
<1>6. CASE UNCHANGED vars
  <2>1. Pending' = Pending
    BY <1>6 DEF vars, Pending, Asking, Resumes
  <2>2. Pending' <= Pending
    BY <2>1, PendingType
  <2> QED
    BY <1>0, <1>6, <2>2, QuietBound DEF vars
<1> QED
  BY <1>1, <1>2, <1>3, <1>4, <1>5, <1>6 DEF Next

LEMMA InitBound == Init => BoundInv
<1> SUFFICES ASSUME Init PROVE BoundInv
  OBVIOUS
<1>1. IInv /\ MaxAttempts \in Nat
  BY InitIInv, SupervisorAssumption
<1>2. Asking = {} /\ Resumes(events) = {}
  BY DEF Init, Asking, Resumes, Event
<1>3. Pending = 0
  BY <1>2, FS_EmptySet DEF Pending
<1>4. Claims = 1
  BY DEF Init, Claims, One
<1>5. row.total = 0 /\ used.resume = 0 /\ used.crash = 0 /\ used.shutdown = 0
  BY DEF Init
<1> QED
  BY <1>1, <1>3, <1>4, <1>5 DEF BoundInv

\* A task makes no more attempts than its limit, its users and the daemon's
\* restarts together allow, however their events overtake one another: a resume
\* is spent once, whether it is still with its client or already in the channel.
THEOREM AttemptsAreAlwaysBounded == Spec => []AttemptsAreBounded
<1>1. Init => IInv /\ LiveInv /\ BoundInv
  BY InitIInv, InitLive, InitBound
<1>2. (IInv /\ LiveInv /\ BoundInv) /\ [Next]_vars => (IInv /\ LiveInv /\ BoundInv)'
  BY NextIInv, NextLive, NextBound
<1>3. IInv /\ BoundInv => AttemptsAreBounded
  <2> SUFFICES ASSUME IInv, BoundInv, MaxAttempts # 0
               PROVE  row.total <= MaxAttempts + used.resume + used.crash + used.shutdown
    BY DEF AttemptsAreBounded
  <2>1. PICK p \in Nat, c \in Nat : p = Pending /\ c = Claims
    BY CountTypes
  <2>2. row.total + p + c <= MaxAttempts + used.resume + used.crash + used.shutdown
    BY <2>1 DEF BoundInv
  <2> QED
    BY <2>2, CountTypes, SupervisorAssumption
<1> QED
  BY <1>1, <1>2, <1>3, PTL DEF Spec

-----------------------------------------------------------------------------
\* As long as nobody pauses, a task has one child at a time.

NobodyPauses == "user_pause" \notin UserActions

NoneAlive == \A p \in DOMAIN procs : procs[p].st # "alive"
NoneUndelivered == \A p \in DOMAIN procs : ~Undelivered(p)

\* No pause is on its way.
NoPauseInv ==
  /\ row.status # "PAUSED" /\ task.status # "PAUSED"
  /\ \A c \in Clients : req[c] # "user_pause"

\* Nor in channel s, which holds one exit at most, that of a child that is gone.
Channel(s, children) ==
  \A i \in DOMAIN s :
    /\ s[i].type # "user_pause"
    /\ s[i].type = "attempt_exit" =>
         /\ s[i].src \in DOMAIN children /\ children[s[i].src].st = "gone"
         /\ \A j \in DOMAIN s : s[j].type = "attempt_exit" => i = j

\* Only the last child can still be running or have its exit on its way, and it
\* is the child of the attempt the supervisor waits for.
ChildInv ==
  /\ \A p \in DOMAIN procs : Undelivered(p) => p = Len(procs)
  /\ pc = "select" /\ ~Terminal(task.status) =>
       \A p \in DOMAIN procs :
         Undelivered(p) => task.status = "RUNNING" /\ procs[p].no = task.total
  /\ pc = "spawned" =>
       \A p \in DOMAIN procs : Undelivered(p) => procs[p].no = task.total + 1
  /\ daemon = "down" => \A p \in DOMAIN procs : procs[p].st \in {"gone", "orphan"}

\* Only a task that runs, or that was stopped while it ran, has an open attempt.
OpenInv == \A n \in DOMAIN attempts :
             attempts[n] = "open" => n = row.total /\ row.status \in {"RUNNING", "STOPPED"}

ReachInv == /\ NoPauseInv /\ Channel(events, procs) /\ ChildInv /\ OpenInv
            /\ pc = "killed" => NoneAlive
            /\ ChildIsInReach

LEMMA ChannelTail ==
  ASSUME NEW s \in Seq(Events), s # <<>>, NEW q, Channel(s, q)
  PROVE  /\ Channel(Tail(s), q)
         /\ Head(s).type = "attempt_exit" =>
              \A j \in DOMAIN Tail(s) : Tail(s)[j].type # "attempt_exit"
<1>1. /\ Len(s) \in Nat /\ DOMAIN s = 1 .. Len(s) /\ Len(s) > 0 /\ Head(s) = s[1]
      /\ DOMAIN Tail(s) = 1 .. (Len(s) - 1)
      /\ \A i \in 1 .. (Len(s) - 1) : Tail(s)[i] = s[i + 1]
  OBVIOUS
<1>2. \A i \in DOMAIN Tail(s) : i + 1 \in DOMAIN s /\ Tail(s)[i] = s[i + 1]
  BY <1>1
<1>3. Channel(Tail(s), q)
  <2> SUFFICES ASSUME NEW i \in DOMAIN Tail(s)
               PROVE  /\ Tail(s)[i].type # "user_pause"
                      /\ Tail(s)[i].type = "attempt_exit" =>
                           /\ Tail(s)[i].src \in DOMAIN q /\ q[Tail(s)[i].src].st = "gone"
                           /\ \A j \in DOMAIN Tail(s) : Tail(s)[j].type = "attempt_exit" => i = j
    BY DEF Channel
  <2>1. /\ s[i + 1].type # "user_pause"
        /\ s[i + 1].type = "attempt_exit" =>
             /\ s[i + 1].src \in DOMAIN q /\ q[s[i + 1].src].st = "gone"
             /\ \A j \in DOMAIN s : s[j].type = "attempt_exit" => i + 1 = j
    BY <1>2 DEF Channel
  <2>2. ASSUME s[i + 1].type = "attempt_exit",
               NEW j \in DOMAIN Tail(s), Tail(s)[j].type = "attempt_exit"
        PROVE  i = j
    <3>1. i + 1 = j + 1
      BY <1>2, <2>1, <2>2
    <3> QED
      BY <1>1, <3>1
  <2> QED
    BY <1>2, <2>1, <2>2
<1>4. ASSUME Head(s).type = "attempt_exit", NEW j \in DOMAIN Tail(s)
      PROVE  Tail(s)[j].type # "attempt_exit"
  <2>1. 1 \in DOMAIN s /\ j \in Nat /\ j > 0
    BY <1>1
  <2>2. s[j + 1].type = "attempt_exit" => 1 = j + 1
    BY <1>1, <1>2, <1>4, <2>1 DEF Channel
  <2> QED
    BY <1>2, <2>1, <2>2
<1> QED
  BY <1>3, <1>4

\* A post of anything but a pause or an exit.
LEMMA ChannelAppend ==
  ASSUME NEW s \in Seq(Events), NEW q, Channel(s, q), NEW e \in Events,
         e.type # "user_pause",
         e.type = "attempt_exit" =>
           /\ e.src \in DOMAIN q /\ q[e.src].st = "gone"
           /\ \A j \in DOMAIN s : s[j].type # "attempt_exit"
  PROVE  Channel(Append(s, e), q)
<1>1. /\ Len(s) \in Nat /\ DOMAIN s = 1 .. Len(s)
      /\ DOMAIN Append(s, e) = 1 .. (Len(s) + 1)
      /\ Append(s, e)[Len(s) + 1] = e
      /\ \A i \in 1 .. Len(s) : Append(s, e)[i] = s[i]
  OBVIOUS
<1>2. \A i \in DOMAIN Append(s, e) : i \in DOMAIN s \/ i = Len(s) + 1
  BY <1>1
<1> DEFINE t == Append(s, e)
<1>3. \A i \in DOMAIN s : t[i] = s[i]
  BY <1>1
<1>4. t[Len(s) + 1] = e
  BY <1>1
<1>5. \A i \in DOMAIN t : i \in DOMAIN s \/ i = Len(s) + 1
  BY <1>2
<1> HIDE DEF t
<1>6. Channel(t, q)
  BY <1>3, <1>4, <1>5 DEF Channel
<1> QED
  BY <1>6 DEF t

\* Children that are gone stay gone.
LEMMA ChannelSame ==
  ASSUME NEW s, NEW q, NEW r, Channel(s, q),
         \A p \in DOMAIN q : p \in DOMAIN r /\ (q[p].st = "gone" => r[p].st = "gone")
  PROVE  Channel(s, r)
BY DEF Channel

LEMMA ChannelEmpty == ASSUME NEW q PROVE Channel(<<>>, q)
BY DEF Channel

LEMMA ReceiveChannel ==
  ASSUME IInv, ReachInv, events # <<>>, events' = Tail(events),
         \A p \in DOMAIN procs :
           p \in DOMAIN procs' /\ (procs[p].st = "gone" => procs'[p].st = "gone")
  PROVE  /\ Channel(events', procs')
         /\ \A p : Holds(events', Event("attempt_exit", p)) => Holds(events, Event("attempt_exit", p))
<1>1. events \in Seq(Events) /\ SupervisorTypeOK
  BY DEF IInv, TypeOK, SupervisorTypeOK
<1>2. Channel(events', procs)
  BY <1>1, ChannelTail DEF ReachInv
<1>3. Channel(events', procs')
  BY <1>2, ChannelSame
<1> QED
  BY <1>1, <1>3, TakeHolds

\* No child is new, and none is on its way that was not.
FewerChildren ==
  /\ DOMAIN procs' = DOMAIN procs /\ Len(procs') = Len(procs)
  /\ \A p \in DOMAIN procs :
       /\ procs'[p].no = procs[p].no
       /\ procs'[p].st = "alive" => procs[p].st = "alive"
       /\ Undelivered(p)' => Undelivered(p)

\* Every step but the spawning of a child.
LEMMA ReachFrame ==
  ASSUME ReachInv, FewerChildren, NoPauseInv', Channel(events', procs'), OpenInv',
         handle' = handle \/ NoneAlive',
         pc' = "select" /\ ~Terminal(task'.status) =>
           \/ pc = "select" /\ ~Terminal(task.status)
                /\ task'.status = task.status /\ task'.total = task.total
           \/ pc = "spawned" /\ task'.status = "RUNNING" /\ task'.total = task.total + 1
           \/ NoneUndelivered',
         pc' = "spawned" => pc = "spawned" /\ task'.total = task.total,
         pc' = "killed" => pc = "killed" \/ NoneAlive',
         row'.status = "STOPPED" => row.status = "STOPPED" \/ NoneAlive',
         daemon' = "down" => \/ daemon = "down" /\ procs' = procs
                             \/ \A p \in DOMAIN procs' : procs'[p].st \in {"gone", "orphan"}
  PROVE  ReachInv'
<1>1. ChildInv'
  BY DEF ReachInv, FewerChildren, ChildInv, NoneUndelivered
<1>2. (pc = "killed" => NoneAlive)'
  BY DEF ReachInv, FewerChildren, NoneAlive
<1>3. ChildIsInReach'
  BY DEF ReachInv, FewerChildren, NoneAlive, ChildIsInReach, HandleIsLiveChild, StopKillsChild
<1> QED
  BY <1>1, <1>2, <1>3 DEF ReachInv

Exit(p) == Event("attempt_exit", p)

\* What is left of the children when some are killed and an event is received.
LEMMA SameChildren ==
  ASSUME IInv, procs' \in {procs, KillHandle},
         \A p : Holds(events', Exit(p)) => Holds(events, Exit(p))
  PROVE  /\ FewerChildren
         /\ \A p \in DOMAIN procs :
              p \in DOMAIN procs' /\ (procs[p].st = "gone" => procs'[p].st = "gone")
<1>1. procs \in Seq(Proc) /\ Len(procs) \in Nat /\ DOMAIN procs = 1 .. Len(procs)
  BY DEF IInv, TypeOK, ProcessTypeOK
<1>2. /\ DOMAIN procs' = DOMAIN procs /\ Len(procs') = Len(procs)
      /\ \A p \in DOMAIN procs :
           /\ procs'[p].no = procs[p].no
           /\ procs'[p].st # procs[p].st => procs[p].st = "alive" /\ procs'[p].st = "killed"
  <2>1. CASE procs' = procs
    BY <1>1, <2>1
  <2>2. CASE procs' = KillHandle /\ handle # 0 /\ procs[handle].st = "alive"
    BY <1>1, <2>2 DEF KillHandle, Proc
  <2>3. CASE procs' = KillHandle /\ ~(handle # 0 /\ procs[handle].st = "alive")
    BY <1>1, <2>3 DEF KillHandle
  <2> QED
    BY <2>1, <2>2, <2>3
<1>3. \A p \in DOMAIN procs : Undelivered(p)' => Undelivered(p)
  BY <1>1, <1>2 DEF Undelivered, Queued, Holds, Exit
<1> QED
  BY <1>1, <1>2, <1>3 DEF FewerChildren

\* A step that leaves the tables and the supervisor goroutine alone.
LEMMA ReachQuiet ==
  ASSUME ReachInv, FewerChildren, Channel(events', procs'),
         UNCHANGED <<row, attempts, pc, task>>,
         \A c \in Clients : req'[c] # "user_pause",
         handle' = handle \/ NoneAlive',
         daemon' = "down" => daemon = "down" /\ procs' = procs
  PROVE  ReachInv'
<1>1. NoPauseInv' /\ OpenInv'
  BY DEF ReachInv, NoPauseInv, OpenInv
<1>2. row'.status = "STOPPED" => row.status = "STOPPED"
  OBVIOUS
<1> QED
  BY <1>1, <1>2, ReachFrame

LEMMA IgnoreReach == ASSUME IInv, ReachInv, Ignore PROVE ReachInv'
<1>1. /\ UNCHANGED <<row, attempts, procs, pc, task, handle, req, daemon>>
      /\ events # <<>> /\ events' = Tail(events)
  BY DEF Ignore, durable, goroutine
<1>2. /\ Channel(events', procs')
      /\ \A p : Holds(events', Exit(p)) => Holds(events, Exit(p))
  BY <1>1, ReceiveChannel DEF Exit
<1>3. FewerChildren
  BY <1>1, <1>2, SameChildren
<1> QED
  BY <1>1, <1>2, <1>3, ReachQuiet DEF ReachInv, NoPauseInv

\* What a handler has received, and what that means for the children.
LEMMA TakeReach ==
  ASSUME IInv, ReachInv, NEW type \in EventTypes, Take(type),
         procs' \in {procs, KillHandle}
  PROVE  /\ pc = "select" /\ task = row /\ task \in Row /\ task.status \in Accepts[type]
         /\ ~Terminal(task.status) /\ type # "user_pause" /\ task.status # "PAUSED"
         /\ Channel(events', procs') /\ FewerChildren
         /\ task.status # "RUNNING" => NoneUndelivered
<1>1. /\ pc = "select" /\ task = row /\ task \in Row /\ task.status \in Accepts[type]
  BY TakeLeaves
<1>2. /\ ~Terminal(task.status) /\ events # <<>> /\ events' = Tail(events)
      /\ Head(events).type = type
  BY DEF Take
<1>3. \A p : Holds(events', Exit(p)) => Holds(events, Exit(p))
  BY <1>2, TakeHolds DEF IInv, TypeOK
<1>4. /\ FewerChildren
      /\ \A p \in DOMAIN procs :
           p \in DOMAIN procs' /\ (procs[p].st = "gone" => procs'[p].st = "gone")
  BY <1>3, SameChildren
<1>5. Channel(events', procs')
  BY <1>2, <1>4, ReceiveChannel
<1>6. type # "user_pause"
  <2>1. 1 \in DOMAIN events /\ Head(events) = events[1]
    BY <1>2 DEF IInv, TypeOK, SupervisorTypeOK
  <2> QED
    BY <1>2, <2>1 DEF ReachInv, Channel
<1>7. task.status # "PAUSED" /\ (task.status # "RUNNING" => NoneUndelivered)
  BY <1>1, <1>2 DEF ReachInv, NoPauseInv, ChildInv, NoneUndelivered
<1> QED
  BY <1>1, <1>2, <1>4, <1>5, <1>6, <1>7

\* An attempt begins when no child is left and no attempt is open.
LEMMA BeginReach ==
  ASSUME IInv, ReachInv, BeginAttempt, procs' \in {procs, KillHandle}
  PROVE  /\ pc = "select" /\ task = row /\ task \in Row /\ ~Terminal(task.status)
         /\ task.status \in {"PENDING", "WAITING"}
         /\ Channel(events', procs') /\ FewerChildren /\ NoneUndelivered
<1>0. /\ "start" \in EventTypes /\ Accepts["start"] = {"PENDING"}
      /\ \A w \in Wakes : w \in EventTypes /\ Accepts[w] \subseteq {"WAITING", "PAUSED"}
  BY DEF EventTypes, AllUserActions, Accepts, Wakes
<1>1. PICK w \in Wakes \cup {"start"} : Take(w)
  BY DEF BeginAttempt
<1>2. w \in EventTypes /\ Accepts[w] \subseteq {"PENDING", "WAITING", "PAUSED"}
  BY <1>0, <1>1
<1>3. /\ pc = "select" /\ task = row /\ task \in Row /\ task.status \in Accepts[w]
      /\ ~Terminal(task.status) /\ task.status # "PAUSED"
      /\ Channel(events', procs') /\ FewerChildren
      /\ task.status # "RUNNING" => NoneUndelivered
  BY <1>1, <1>2, TakeReach
<1> QED
  BY <1>2, <1>3

LEMMA SpawnReach == ASSUME IInv, LiveInv, ReachInv, Spawn PROVE ReachInv'
<1>1. /\ BeginAttempt /\ UNCHANGED <<row, attempts, daemon, req>>
      /\ procs' = Append(procs, [no |-> task.total + 1, st |-> "alive"])
      /\ handle' = Len(procs) + 1 /\ task' = AccountWait(task) /\ pc' = "spawned"
  BY DEF Spawn, durable
<1>2. PICK w \in Wakes \cup {"start"} : Take(w)
  BY <1>1 DEF BeginAttempt
<1>3. /\ w \in EventTypes /\ Accepts[w] \subseteq {"PENDING", "WAITING", "PAUSED"}
  BY <1>2 DEF EventTypes, AllUserActions, Accepts, Wakes
<1>4. /\ pc = "select" /\ task = row /\ task \in Row /\ task.status \in Accepts[w]
      /\ \A e : Holds(events', e) => Holds(events, e)
  BY <1>2, <1>3, TakeLeaves
<1>5. ~Terminal(task.status) /\ events # <<>> /\ events' = Tail(events)
  BY <1>2 DEF Take
<1>6. NoneUndelivered
  BY <1>3, <1>4, <1>5 DEF ReachInv, NoPauseInv, ChildInv, NoneUndelivered
<1>7. /\ Len(procs) \in Nat /\ DOMAIN procs = 1 .. Len(procs)
      /\ DOMAIN procs' = 1 .. (Len(procs) + 1) /\ Len(procs') = Len(procs) + 1
      /\ procs'[Len(procs) + 1] = [no |-> task.total + 1, st |-> "alive"]
      /\ \A p \in 1 .. Len(procs) : procs'[p] = procs[p]
  BY <1>1 DEF IInv, TypeOK, ProcessTypeOK
<1>8. Channel(events', procs')
  BY <1>5, <1>7, ReceiveChannel
<1>9. task'.status = task.status /\ task'.total = task.total
  BY <1>1, <1>4, AccountRow
<1>10. \A p \in DOMAIN procs' : Undelivered(p)' => p = Len(procs) + 1
  <2> SUFFICES ASSUME NEW p \in 1 .. Len(procs) PROVE ~Undelivered(p)'
    BY <1>7
  <2> QED
    BY <1>4, <1>6, <1>7 DEF NoneUndelivered, Undelivered, Queued, Holds
<1>11. ChildInv'
  <2>1. daemon' # "down" \/ pc = "off"
    BY <1>1, <1>4 DEF LiveInv, DownInv
  <2> QED
    BY <1>1, <1>4, <1>7, <1>9, <1>10, <2>1 DEF ChildInv
<1>12. NoPauseInv' /\ OpenInv'
  BY <1>1, <1>9 DEF ReachInv, NoPauseInv, OpenInv
<1>13. ChildIsInReach'
  BY <1>1, <1>3, <1>4, <1>7, <1>10 DEF ChildIsInReach, HandleIsLiveChild, StopKillsChild, Undelivered
<1> QED
  BY <1>1, <1>8, <1>11, <1>12, <1>13 DEF ReachInv

LEMMA CommitSpawnReach == ASSUME IInv, LiveInv, ReachInv, CommitSpawn PROVE ReachInv'
<1>1. /\ pc = "spawned" /\ pc' = "select" /\ UNCHANGED <<procs, daemon, events, handle, req>>
  BY DEF CommitSpawn
<1>2. /\ task \in Row /\ task.total = row.total /\ row.total = Len(attempts)
      /\ row.status \notin {"RUNNING", "STOPPED"}
  BY <1>1 DEF IInv, TypeOK, SupervisorTypeOK, GoroutineInv, RowsAgree
<1>3. /\ row' = task' /\ task'.status = "RUNNING" /\ task'.total = task.total + 1
      /\ attempts' = Append(attempts, "open")
  BY <1>2 DEF CommitSpawn, Commit, To, Row
<1>4. \A p : Holds(events', Exit(p)) => Holds(events, Exit(p))
  BY <1>1
<1>5. FewerChildren
  BY <1>1, <1>4, SameChildren
<1>6. Channel(events', procs') /\ NoPauseInv' /\ ~(daemon' = "down")
  BY <1>1, <1>3 DEF ReachInv, NoPauseInv, LiveInv, DownInv
<1>7. OpenInv'
  <2>1. /\ DOMAIN attempts' = 1 .. (Len(attempts) + 1) /\ Len(attempts) \in Nat
        /\ \A n \in 1 .. Len(attempts) : n \in DOMAIN attempts /\ attempts'[n] = attempts[n]
    BY <1>3 DEF IInv, TypeOK, StoreTypeOK
  <2> QED
    BY <1>2, <1>3, <2>1 DEF ReachInv, OpenInv
<1> QED
  BY <1>1, <1>3, <1>5, <1>6, <1>7, ReachFrame

LEMMA SpawnFaultsReach ==
  ASSUME IInv, LiveInv, ReachInv, CommitSpawnFails \/ SpawnFails
  PROVE  ReachInv'
<1>1. CASE CommitSpawnFails
  <2>1. /\ pc = "spawned" /\ pc' = "failed" /\ procs' = KillHandle
        /\ UNCHANGED <<row, attempts, task, daemon, events, handle, req>>
    BY <1>1 DEF CommitSpawnFails, Fails, durable
  <2>2. \A p : Holds(events', Exit(p)) => Holds(events, Exit(p))
    BY <2>1
  <2>3. /\ FewerChildren
        /\ \A p \in DOMAIN procs :
             p \in DOMAIN procs' /\ (procs[p].st = "gone" => procs'[p].st = "gone")
    BY <2>1, <2>2, SameChildren
  <2>4. Channel(events', procs')
    BY <2>1, <2>3, ChannelSame DEF ReachInv
  <2>5. NoPauseInv' /\ OpenInv' /\ ~(daemon' = "down")
    BY <2>1 DEF ReachInv, NoPauseInv, OpenInv, LiveInv, DownInv
  <2> QED
    BY <2>1, <2>3, <2>4, <2>5, ReachFrame
<1>2. CASE SpawnFails
  <2>1. /\ BeginAttempt /\ procs' \in {procs, KillHandle}
        /\ UNCHANGED <<procs, daemon, handle, req>>
    BY <1>2 DEF SpawnFails
  <2>2. /\ pc = "select" /\ task = row /\ task \in Row /\ ~Terminal(task.status)
        /\ task.status \in {"PENDING", "WAITING"}
        /\ Channel(events', procs') /\ FewerChildren /\ NoneUndelivered
    BY <2>1, BeginReach
  <2>3. AccountWait(task) \in Row /\ AccountWait(task).status = task.status
        /\ AccountWait(task).total = task.total
    BY <2>2, AccountRow
  <2>4. /\ attempts' = attempts /\ row'.status \in {"FAILED", task.status}
        /\ task'.status \in {"FAILED", task.status}
        /\ pc' = "failed" \/ Terminal(task'.status)
    <3>1. CASE Commit(To(AccountWait(task), "FAILED"), attempts) /\ due' = "early" /\ UNCHANGED pc
      <4>1. To(AccountWait(task), "FAILED").status = "FAILED"
        BY <2>3, ToRow DEF Statuses
      <4> QED
        BY <3>1, <4>1 DEF Commit, Terminal
    <3>2. CASE Fails /\ task' = AccountWait(task) /\ UNCHANGED due
      BY <2>2, <2>3, <3>2 DEF Fails, durable
    <3> QED
      BY <1>2, <3>1, <3>2 DEF SpawnFails
  <2>5. NoPauseInv' /\ OpenInv' /\ ~(daemon' = "down")
    BY <2>1, <2>2, <2>4 DEF ReachInv, NoPauseInv, OpenInv, LiveInv, DownInv
  <2>6. pc' \in {"select", "failed"} /\ row'.status # "STOPPED"
    BY <1>2, <2>2, <2>4 DEF SpawnFails, Fails
  <2> QED
    BY <2>1, <2>2, <2>4, <2>5, <2>6, ReachFrame
<1> QED
  BY <1>1, <1>2

\* The exit that is delivered is that of the attempt's child, and the last one.
LEMMA ExitReach ==
  ASSUME IInv, ReachInv, Take("attempt_exit"), procs' = procs
  PROVE  /\ pc = "select" /\ task = row /\ task \in Row /\ row.status = "RUNNING"
         /\ cur = row.total /\ cur \in DOMAIN attempts /\ attempts[cur] = "open"
         /\ procs[Head(events).src].no = row.total
         /\ Channel(events', procs') /\ FewerChildren
         /\ NoneUndelivered'
<1>1. /\ pc = "select" /\ task = row /\ task \in Row /\ task.status \in Accepts["attempt_exit"]
      /\ ~Terminal(task.status) /\ task.status # "PAUSED"
      /\ Channel(events', procs') /\ FewerChildren
  BY TakeReach DEF EventTypes
<1>2. row.status = "RUNNING"
  BY <1>1 DEF Accepts
<1>3. cur = row.total /\ cur \in DOMAIN attempts /\ attempts[cur] = "open"
  BY <1>1, <1>2 DEF IInv, TypeOK, StoreTypeOK, RowsAgree, GoroutineInv
<1>4. /\ events \in Seq(Events) /\ events # <<>> /\ events' = Tail(events)
      /\ Head(events).type = "attempt_exit"
  BY DEF Take, IInv, TypeOK, SupervisorTypeOK
<1>5. /\ 1 \in DOMAIN events /\ Head(events) = events[1] /\ Head(events) \in Events
  BY <1>4
<1> DEFINE last == Head(events).src
<1>6. last \in DOMAIN procs /\ procs[last].st = "gone"
  BY <1>4, <1>5 DEF ReachInv, Channel
<1>7. Head(events) = Event("attempt_exit", last)
  BY <1>4, <1>5 DEF Event, Events
<1>8. Undelivered(last)
  BY <1>5, <1>7 DEF Undelivered, Queued
<1>9. last = Len(procs) /\ procs[last].no = row.total
  BY <1>1, <1>6, <1>8 DEF ReachInv, ChildInv
<1>10. \A j \in DOMAIN events' : events'[j].type # "attempt_exit"
  BY <1>4, ChannelTail DEF ReachInv
<1>11. NoneUndelivered'
  <2> SUFFICES ASSUME NEW p \in DOMAIN procs, Undelivered(p)' PROVE FALSE
    BY DEF NoneUndelivered
  <2>1. Undelivered(p)
    BY <1>1 DEF FewerChildren
  <2>2. p = last
    BY <1>9, <2>1 DEF ReachInv, ChildInv
  <2> QED
    BY <1>6, <1>10, <2>2 DEF Undelivered, Queued, Event
<1> QED
  BY <1>1, <1>2, <1>3, <1>9, <1>11

\* With no child left, a transaction closes the attempt that was open.
LEMMA ClosedReach ==
  ASSUME IInv, LiveInv, ReachInv, Take("attempt_exit"), NEW o \in AllOutcomes,
         UNCHANGED <<procs, daemon, pc, handle, req>>,
         attempts' = Closed(o), row' = task', row'.status \in {"SUCCEEDED", "FAILED", "WAITING"}
  PROVE  ReachInv'
<1>1. /\ pc = "select" /\ cur = row.total /\ cur \in DOMAIN attempts /\ row \in Row
      /\ Channel(events', procs') /\ FewerChildren /\ NoneUndelivered'
  BY ExitReach
<1>2. cur # 0 /\ DOMAIN attempts' = DOMAIN attempts /\ attempts'[cur] = o
      /\ \A n \in DOMAIN attempts : n # cur => attempts'[n] = attempts[n]
  BY <1>1 DEF Closed, IInv, TypeOK, StoreTypeOK
<1>3. o # "open"
  BY DEF AllOutcomes
<1>4. OpenInv' /\ NoPauseInv' /\ ~(daemon' = "down")
  BY <1>1, <1>2, <1>3 DEF ReachInv, OpenInv, NoPauseInv, LiveInv, DownInv
<1> QED
  BY <1>1, <1>4, ReachFrame

LEMMA EndReach ==
  ASSUME IInv, LiveInv, ReachInv, Schedule \/ \E s \in {"SUCCEEDED", "FAILED"} : Finish(s)
  PROVE  ReachInv'
<1>1. /\ Take("attempt_exit") /\ UNCHANGED <<procs, daemon, pc, handle, req>>
      /\ \E o \in AllOutcomes : attempts' = Closed(o)
  BY SupervisorAssumption DEF Schedule, Finish, Commit
<1>2. task \in Row
  BY DEF IInv, TypeOK, SupervisorTypeOK
<1>3. row' = task' /\ row'.status \in {"SUCCEEDED", "FAILED", "WAITING"}
  BY <1>2 DEF Schedule, Finish, Commit, To, Row
<1> QED
  BY <1>1, <1>3, ClosedReach

\* Neither a paused exit nor a pause: nothing of the kind is on its way.
LEMMA NoPauseReach ==
  ASSUME IInv, LiveInv, ReachInv, RecordPausedExit \/ Pause \/ ExitFails
  PROVE  ReachInv'
<1>1. CASE RecordPausedExit
  <2>1. Take("attempt_exit") /\ task.status = "PAUSED"
    BY <1>1 DEF RecordPausedExit
  <2> QED
    BY <2>1 DEF ReachInv, NoPauseInv
<1>2. CASE Pause
  <2>1. Take("user_pause") /\ "user_pause" \in EventTypes /\ procs' \in {procs, KillHandle}
    BY <1>2 DEF Pause, EventTypes, AllUserActions
  <2> QED
    BY <2>1, TakeReach
<1>3. CASE ExitFails
  <2>1. /\ Take("attempt_exit") /\ pc' = "failed"
        /\ UNCHANGED <<row, attempts, task, procs, daemon, handle, req>>
    BY <1>3 DEF ExitFails, Fails, durable
  <2>2. Channel(events', procs') /\ FewerChildren /\ pc = "select"
    BY <2>1, ExitReach
  <2>3. OpenInv' /\ NoPauseInv' /\ ~(daemon' = "down")
    BY <2>1, <2>2 DEF ReachInv, OpenInv, NoPauseInv, LiveInv, DownInv
  <2> QED
    BY <2>1, <2>2, <2>3, ReachFrame
<1> QED
  BY <1>1, <1>2, <1>3

LEMMA StopReach ==
  ASSUME IInv, LiveInv, ReachInv, StopKill \/ CommitStop
  PROVE  ReachInv'
<1>1. CASE StopKill
  <2>1. /\ Take("user_stop") /\ "user_stop" \in EventTypes /\ pc' \in {"killed", "failed"}
        /\ procs' \in {procs, KillHandle}
        /\ UNCHANGED <<row, attempts, task, daemon, handle, req>>
    BY <1>1 DEF StopKill, Fails, durable, EventTypes, AllUserActions
  <2>2. /\ pc = "select" /\ ~Terminal(task.status) /\ task.status # "PAUSED"
        /\ Channel(events', procs') /\ FewerChildren
        /\ task.status # "RUNNING" => NoneUndelivered
    BY <2>1, TakeReach
  <2>3. pc' = "killed" => NoneAlive'
    <3>1. CASE task.status # "RUNNING"
      BY <2>2, <3>1 DEF FewerChildren, NoneAlive, NoneUndelivered, Undelivered
    <3>2. CASE task.status = "RUNNING" /\ pc' = "killed"
      <4>1. procs' = KillHandle
        BY <1>1, <3>2 DEF StopKill, Fails
      <4>2. \A p \in DOMAIN procs : procs[p].st = "alive" => p = handle
        BY DEF ReachInv, ChildIsInReach, HandleIsLiveChild
      <4>3. handle \in 0 .. Len(procs) /\ procs \in Seq(Proc)
        BY DEF IInv, TypeOK, ProcessTypeOK
      <4> QED
        BY <4>1, <4>2, <4>3 DEF NoneAlive, KillHandle, Proc
    <3> QED
      BY <3>1, <3>2
  <2>4. OpenInv' /\ NoPauseInv' /\ ~(daemon' = "down")
    BY <2>1, <2>2 DEF ReachInv, OpenInv, NoPauseInv, LiveInv, DownInv
  <2> QED
    BY <2>1, <2>2, <2>3, <2>4, ReachFrame
<1>2. CASE CommitStop
  <2>1. pc = "killed" /\ UNCHANGED <<procs, daemon, events, handle, req>>
    BY <1>2 DEF CommitStop
  <2>2. task = row /\ row \in Row /\ NoneAlive
    BY <2>1 DEF IInv, TypeOK, StoreTypeOK, GoroutineInv, ReachInv
  <2>3. \A p : Holds(events', Exit(p)) => Holds(events, Exit(p))
    BY <2>1
  <2>4. FewerChildren
    BY <2>1, <2>3, SameChildren
  <2>5. /\ attempts' = attempts /\ row'.status \in {"STOPPED", row.status}
        /\ task'.status \in {"STOPPED", row.status} /\ row'.total = row.total
        /\ row'.status = row.status \/ row'.status = "STOPPED"
        /\ pc' = "failed" \/ Terminal(task'.status)
        /\ pc' \in {"select", "failed"}
    BY <1>2, <2>2 DEF CommitStop, Commit, Fails, To, Row, durable, Terminal
  <2>6. OpenInv' /\ NoPauseInv' /\ ~(daemon' = "down") /\ Channel(events', procs')
    BY <2>1, <2>2, <2>5 DEF ReachInv, OpenInv, NoPauseInv, LiveInv, DownInv
  <2>7. NoneAlive'
    BY <2>1, <2>2 DEF NoneAlive
  <2> QED
    BY <2>1, <2>4, <2>5, <2>6, <2>7, ReachFrame
<1> QED
  BY <1>1, <1>2

\* The supervisor goroutine, or its whole process, ends.
LEMMA EndsReach ==
  ASSUME IInv, LiveInv, ReachInv, RunReturns \/ CloseReturns \/ Crash
  PROVE  ReachInv'
<1>1. /\ pc' = "off" /\ task' = row /\ events' = <<>> /\ row' = row /\ attempts' = attempts
      /\ \A c \in Clients : req'[c] # "user_pause"
  BY DEF RunReturns, CloseReturns, Crash, LoseMemory, durable, ReachInv, NoPauseInv
<1>2. OpenInv' /\ NoPauseInv' /\ Channel(events', procs')
  BY <1>1, ChannelEmpty DEF ReachInv, OpenInv, NoPauseInv
<1>3. \A p : ~Holds(events', Exit(p))
  BY <1>1 DEF Holds
<1>4. CASE RunReturns
  <2>1. UNCHANGED <<procs, daemon, handle>>
    BY <1>4 DEF RunReturns
  <2>2. FewerChildren
    BY <1>3, <2>1, SameChildren
  <2> QED
    BY <1>1, <1>2, <2>1, <2>2, ReachFrame
<1>5. CASE CloseReturns
  <2>1. procs' = procs /\ \A p \in DOMAIN procs : procs[p].st \in {"gone", "orphan"}
    BY <1>5 DEF CloseReturns, Waited
  <2>2. FewerChildren /\ NoneAlive'
    BY <1>3, <2>1, SameChildren DEF NoneAlive
  <2> QED
    BY <1>1, <1>2, <2>1, <2>2, ReachFrame
<1>6. CASE Crash
  <2>1. /\ Len(procs) \in Nat /\ DOMAIN procs = 1 .. Len(procs)
        /\ procs' = [p \in 1 .. Len(procs) |->
             [procs[p] EXCEPT !.st = IF @ \in {"alive", "orphan"} THEN "orphan" ELSE "gone"]]
        /\ \A p \in DOMAIN procs : procs[p] \in Proc
    BY <1>6 DEF Crash, IInv, TypeOK, ProcessTypeOK
  <2>2. /\ DOMAIN procs' = DOMAIN procs /\ Len(procs') = Len(procs)
        /\ \A p \in DOMAIN procs : procs'[p].no = procs[p].no /\ procs'[p].st \in {"gone", "orphan"}
    BY <2>1 DEF Proc
  <2>3. FewerChildren /\ NoneAlive'
    BY <1>3, <2>2 DEF FewerChildren, NoneAlive, Undelivered, Queued, Holds, Exit
  <2> QED
    BY <1>1, <1>2, <2>2, <2>3, ReachFrame
<1> QED
  BY <1>4, <1>5, <1>6

\* A child that moves on is no more undelivered than before.
LEMMA ChildFewer ==
  ASSUME IInv, NEW p \in DOMAIN procs,
         NEW st \in {"exited", "cleared", "gone"},
         procs' = [procs EXCEPT ![p].st = st],
         st = "gone" \/ Undelivered(p),
         \A q : Holds(events', Exit(q)) => Holds(events, Exit(q)) \/ (q = p /\ Undelivered(p))
  PROVE  /\ FewerChildren
         /\ \A q \in DOMAIN procs : q # p => procs'[q] = procs[q]
         /\ p \in DOMAIN procs' /\ procs'[p].st = st
<1>1. /\ DOMAIN procs' = DOMAIN procs /\ Len(procs') = Len(procs)
      /\ \A q \in DOMAIN procs : q # p => procs'[q] = procs[q]
      /\ procs'[p].st = st /\ procs'[p].no = procs[p].no
  <2>1. procs \in Seq(Proc) /\ procs[p] \in Proc
    BY DEF IInv, TypeOK, ProcessTypeOK
  <2>2. procs'[p] = [procs[p] EXCEPT !.st = st]
    BY <2>1
  <2> QED
    BY <2>1, <2>2 DEF Proc
<1>2. \A q \in DOMAIN procs : Undelivered(q)' => Undelivered(q)
  BY <1>1 DEF Undelivered, Queued, Holds, Exit
<1> QED
  BY <1>1, <1>2 DEF FewerChildren

\* Nothing happens to a child of which the daemon is down but its end.
LEMMA ReachDownFrame ==
  ASSUME ReachInv, FewerChildren, Channel(events', procs'),
         UNCHANGED <<row, attempts, pc, task, daemon>>,
         \A c \in Clients : req'[c] # "user_pause",
         handle' = handle \/ NoneAlive',
         \A p \in DOMAIN procs : procs[p].st \in {"gone", "orphan"} => procs'[p].st \in {"gone", "orphan"}
  PROVE  ReachInv'
<1>1. NoPauseInv' /\ OpenInv'
  BY DEF ReachInv, NoPauseInv, OpenInv
<1>2. daemon' = "down" => \A p \in DOMAIN procs' : procs'[p].st \in {"gone", "orphan"}
  BY DEF ReachInv, ChildInv, FewerChildren
<1> QED
  BY <1>1, <1>2, ReachFrame

LEMMA ChildReach ==
  ASSUME IInv, LiveInv, ReachInv,
         NEW p \in DOMAIN procs, ChildExit(p) \/ Reap(p) \/ PostExit(p)
  PROVE  ReachInv'
<1>0. /\ UNCHANGED <<row, attempts, pc, task, req, daemon>>
      /\ \A c \in Clients : req'[c] # "user_pause"
  BY DEF ChildExit, Reap, PostExit, durable, goroutine, ReachInv, NoPauseInv
<1>1. CASE ChildExit(p)
  <2>1. PICK st \in {"exited", "gone"} : /\ procs' = [procs EXCEPT ![p].st = st]
                                         /\ st = "gone" <=> procs[p].st = "orphan"
    BY <1>1 DEF ChildExit, IInv, TypeOK, ProcessTypeOK
  <2>2. events' = events /\ handle' = handle /\ procs[p].st \in {"alive", "killed", "orphan"}
    BY <1>1 DEF ChildExit
  <2>3. /\ FewerChildren
        /\ \A q \in DOMAIN procs : q # p => procs'[q] = procs[q]
        /\ p \in DOMAIN procs' /\ procs'[p].st = st
    BY <2>1, <2>2, ChildFewer DEF Undelivered
  <2>4. Channel(events', procs')
    BY <2>2, <2>3, ChannelSame DEF ReachInv, FewerChildren
  <2>5. \A q \in DOMAIN procs :
          procs[q].st \in {"gone", "orphan"} => procs'[q].st \in {"gone", "orphan"}
    BY <2>1, <2>2, <2>3
  <2>6. handle' = handle \/ NoneAlive'
    BY <2>2
  <2>7. FewerChildren
    BY <2>3
  <2> QED
    BY <1>0, <2>4, <2>5, <2>6, <2>7, ReachDownFrame
<1>2. CASE Reap(p)
  <2>1. /\ procs' = [procs EXCEPT ![p].st = "cleared"] /\ procs[p].st = "exited"
        /\ events' = events /\ handle' = 0
    BY <1>2 DEF Reap
  <2>2. /\ FewerChildren
        /\ \A q \in DOMAIN procs : q # p => procs'[q] = procs[q]
        /\ p \in DOMAIN procs' /\ procs'[p].st = "cleared"
    BY <2>1, ChildFewer DEF Undelivered
  <2>3. Channel(events', procs')
    BY <2>1, <2>2, ChannelSame DEF ReachInv, FewerChildren
  <2>4. NoneAlive'
    <3>1. Undelivered(p)
      BY <2>1 DEF Undelivered
    <3>2. \A q \in DOMAIN procs : procs[q].st = "alive" => q = p
      BY <3>1 DEF ReachInv, ChildInv, Undelivered
    <3> QED
      BY <2>2, <3>2 DEF FewerChildren, NoneAlive
  <2> QED
    BY <1>0, <2>1, <2>2, <2>3, <2>4, ReachDownFrame
<1>3. CASE PostExit(p)
  <2>1. /\ procs' = [procs EXCEPT ![p].st = "gone"] /\ procs[p].st = "cleared"
        /\ handle' = handle /\ Post(Exit(p)) /\ Undelivered(p)
    BY <1>3 DEF PostExit, Exit, Undelivered
  <2>2. p \in Nat /\ Exit(p) \in Events
    BY EventType DEF IInv, TypeOK, ProcessTypeOK, EventTypes, Exit
  <2>3. \A f : Holds(events', f) => Holds(events, f) \/ f = Exit(p)
    BY <2>1, <2>2, PostHolds DEF IInv, TypeOK
  <2>4. \A q : Holds(events', Exit(q)) => Holds(events, Exit(q)) \/ q = p
    BY <2>3 DEF Exit, Event
  <2>5. /\ FewerChildren
        /\ \A q \in DOMAIN procs : q # p => procs'[q] = procs[q]
        /\ p \in DOMAIN procs' /\ procs'[p].st = "gone"
    BY <2>1, <2>4, ChildFewer
  <2>6. Channel(events, procs')
    BY <2>5, ChannelSame DEF ReachInv, FewerChildren
  <2>7. events \in Seq(Events)
    BY DEF IInv, TypeOK, SupervisorTypeOK
  <2>8. \A j \in DOMAIN events : events[j].type # "attempt_exit"
    <3> SUFFICES ASSUME NEW j \in DOMAIN events, events[j].type = "attempt_exit" PROVE FALSE
      OBVIOUS
    <3>1. events[j].src \in DOMAIN procs /\ procs[events[j].src].st = "gone"
      BY DEF ReachInv, Channel
    <3>2. events[j] \in Events
      BY <2>7
    <3>3. Undelivered(events[j].src)
      BY <3>2 DEF Undelivered, Queued, Event, Events
    <3>4. events[j].src = p
      BY <2>1, <3>1, <3>3 DEF ReachInv, ChildInv
    <3> QED
      BY <2>1, <3>1, <3>4
  <2>9. /\ Exit(p).type = "attempt_exit" /\ Exit(p).src = p
    BY DEF Exit, Event
  <2>10. Channel(Append(events, Exit(p)), procs')
    BY <2>2, <2>5, <2>6, <2>7, <2>8, <2>9, ChannelAppend
  <2>11. Channel(events', procs')
    BY <2>1, <2>6, <2>10 DEF Post
  <2> QED
    BY <1>0, <2>1, <2>5, <2>11, ReachDownFrame
<1> QED
  BY <1>1, <1>2, <1>3

\* The clock, the timers, the probers and the clients: at most they post an
\* event that is neither an exit nor a pause.
LEMMA PostReach ==
  ASSUME IInv, ReachInv, UNCHANGED <<row, attempts, procs, pc, task, daemon, handle>>,
         \A c \in Clients : req'[c] # "user_pause",
         NEW e \in Events, e.type \notin {"attempt_exit", "user_pause"},
         events' = events \/ Post(e) \/ events' = Append(events, e)
  PROVE  ReachInv'
<1>1. events' = events \/ events' = Append(events, e)
  BY DEF Post
<1>2. events \in Seq(Events)
  BY DEF IInv, TypeOK, SupervisorTypeOK
<1>3. Channel(Append(events, e), procs)
  BY <1>2, ChannelAppend DEF ReachInv
<1>4. Channel(events', procs')
  BY <1>1, <1>3 DEF ReachInv
<1>5. \A f : Holds(Append(events, e), f) <=> Holds(events, f) \/ f = e
  BY <1>2, HoldsAppend
<1>6. ASSUME NEW q, Holds(events', Exit(q)) PROVE Holds(events, Exit(q))
  <2>1. Exit(q) # e
    BY DEF Exit, Event
  <2>2. CASE events' = Append(events, e)
    BY <1>5, <1>6, <2>1, <2>2
  <2>3. CASE events' = events
    BY <1>6, <2>3
  <2> QED
    BY <1>1, <2>2, <2>3
<1>7. FewerChildren
  BY <1>6, SameChildren
<1> QED
  BY <1>4, <1>7, ReachQuiet

LEMMA EnvironmentReach ==
  ASSUME IInv, ReachInv,
         \/ Tick \/ StepBack \/ TimerExpires \/ \E w \in firing : PostTimerFire(w)
         \/ \E w \in Waits : ProbeSucceeds(w) \/ PostAvailability(w) \/ ProberEnds(w)
         \/ UNCHANGED vars
  PROVE  ReachInv'
<1>1. /\ UNCHANGED <<row, attempts, procs, pc, task, daemon, handle, req>>
      /\ \A c \in Clients : req'[c] # "user_pause"
  BY DEF Tick, StepBack, TimerExpires, PostTimerFire, ProbeSucceeds, PostAvailability, ProberEnds,
         durable, goroutine, vars, ReachInv, NoPauseInv
<1>2. /\ firing \subseteq WaitNo /\ probes \subseteq WaitNo \X {"polling", "posting"}
  BY DEF IInv, TypeOK, WakeUpTypeOK
<1>3. CASE \E w \in firing : PostTimerFire(w)
  <2>1. PICK w \in firing : Post(Event("timer_fire", w))
    BY <1>3 DEF PostTimerFire
  <2>2. w \in Nat /\ "timer_fire" \in EventTypes
    BY <1>2 DEF WaitNo, EventTypes
  <2>3. Event("timer_fire", w) \in Events /\ Event("timer_fire", w).type = "timer_fire"
    BY <2>2, EventType DEF Event
  <2> QED
    BY <1>1, <2>1, <2>3, PostReach
<1>4. CASE \E w \in Waits : PostAvailability(w)
  <2>1. PICK w \in Waits : /\ <<w, "posting">> \in probes
                           /\ events' = events \/ events' = Append(events, Event("availability_ok", w))
    BY <1>4 DEF PostAvailability
  <2>2. w \in Nat /\ "availability_ok" \in EventTypes
    BY <1>2, <2>1 DEF WaitNo, EventTypes
  <2>3. Event("availability_ok", w) \in Events /\ Event("availability_ok", w).type = "availability_ok"
    BY <2>2, EventType DEF Event
  <2> QED
    BY <1>1, <2>1, <2>3, PostReach
<1>5. CASE events' = events
  <2>1. "start" \in EventTypes
    BY DEF EventTypes
  <2>2. Event("start", 0) \in Events /\ Event("start", 0).type = "start"
    BY <2>1, EventType DEF Event
  <2> QED
    BY <1>1, <1>5, <2>2, PostReach
<1> QED
  BY <1>3, <1>4, <1>5 DEF Tick, StepBack, TimerExpires, ProbeSucceeds, ProberEnds, vars

LEMMA ClientReach ==
  ASSUME NobodyPauses, IInv, ReachInv, NEW c \in Clients,
         PostUser(c) \/ \E a \in UserActions : Accept(c, a)
  PROVE  ReachInv'
<1>1. UNCHANGED <<row, attempts, procs, pc, task, daemon, handle>>
  BY DEF PostUser, Accept, durable, goroutine
<1>2. req \in [Clients -> AllUserActions \cup {"none"}] /\ \A d \in Clients : req[d] # "user_pause"
  BY DEF IInv, TypeOK, DaemonTypeOK, ReachInv, NoPauseInv
<1>3. \A d \in Clients : req'[d] # "user_pause"
  BY <1>2 DEF PostUser, Accept, NobodyPauses
<1>4. PICK a \in AllUserActions : a # "user_pause" /\ (events' = events \/ Post(Event(a, 0)))
  <2>1. CASE PostUser(c)
    BY <1>2, <2>1 DEF PostUser
  <2>2. CASE \E a \in UserActions : Accept(c, a)
    BY <2>2, SupervisorAssumption DEF Accept, AllUserActions
  <2> QED
    BY <2>1, <2>2
<1>5. a \in EventTypes /\ a # "attempt_exit"
  BY DEF EventTypes, AllUserActions
<1>6. Event(a, 0) \in Events /\ Event(a, 0).type \notin {"attempt_exit", "user_pause"}
  BY <1>4, <1>5, EventType DEF Event
<1> QED
  BY <1>1, <1>3, <1>4, <1>6, PostReach

LEMMA StoppingReach ==
  ASSUME IInv, ReachInv, Shutdown \/ BeginClose
  PROVE  ReachInv'
<1>1. /\ UNCHANGED <<row, attempts, pc, task, events, handle, req>>
      /\ daemon' # "down" /\ procs' \in {procs, KillHandle}
      /\ \A c \in Clients : req'[c] # "user_pause"
  BY DEF Shutdown, BeginClose, durable, goroutine, ReachInv, NoPauseInv
<1>2. \A p : Holds(events', Exit(p)) => Holds(events, Exit(p))
  BY <1>1
<1>3. /\ FewerChildren
      /\ \A p \in DOMAIN procs :
           p \in DOMAIN procs' /\ (procs[p].st = "gone" => procs'[p].st = "gone")
  BY <1>1, <1>2, SameChildren
<1>4. Channel(events', procs')
  BY <1>1, <1>3, ChannelSame DEF ReachInv
<1> QED
  BY <1>1, <1>3, <1>4, ReachQuiet

LEMMA RestartReach == ASSUME IInv, LiveInv, ReachInv, Restart PROVE ReachInv'
<1>1. /\ daemon = "down" /\ daemon' = "up" /\ UNCHANGED <<procs, handle, req>>
  BY DEF Restart
<1>2. /\ pc = "off" /\ events = <<>>
      /\ \A p \in DOMAIN procs : procs[p].st \in {"gone", "orphan"}
  BY <1>1 DEF LiveInv, DownInv, ReachInv, ChildInv
<1>3. NoneUndelivered
  BY <1>2 DEF NoneUndelivered, Undelivered, Queued
<1>4. events' = <<>> \/ events' = <<Event("start", 0)>>
  BY <1>2 DEF Restart, ReconcileRunning, ReconcileWaiting, ReconcilePending, ReconcilePaused,
              ReconcileNothing
<1>5. Channel(events', procs')
  <2>1. Event("start", 0).type = "start"
    BY DEF Event
  <2>2. \A i \in DOMAIN events' : events'[i].type = "start"
    BY <1>4, <2>1
  <2> QED
    BY <2>2 DEF Channel
<1>6. \A p : ~Holds(events', Exit(p))
  BY <1>4 DEF Holds, Exit, Event
<1>7. FewerChildren
  BY <1>1, <1>6, SameChildren
<1>8. /\ pc' \in {"off", "select"} /\ row'.status # "PAUSED"
      /\ task'.status # "PAUSED"
      /\ row'.status = row.status \/ row'.status = "WAITING"
  BY <1>2 DEF Restart, ReconcileRunning, ReconcileWaiting, ReconcilePending, ReconcilePaused,
         ReconcileNothing, FreshRuntime, durable, goroutine, ReachInv, NoPauseInv, IInv, TypeOK,
         StoreTypeOK, Row
<1>9. OpenInv'
  <2>1. CASE ReconcileRunning
    <3>1. \A n \in DOMAIN attempts : attempts[n] = "open" => n = row.total
      BY DEF ReachInv, OpenInv
    <3>2. row.total \in Nat
      BY DEF IInv, TypeOK, StoreTypeOK, Row
    <3>3. \A n \in DOMAIN attempts : Interrupted[n] # "open"
      <4> SUFFICES ASSUME NEW n \in DOMAIN attempts, attempts[n] = "open"
                   PROVE  \A m \in OpenAttempts : n <= m
        BY DEF Interrupted, OpenAttempts
      <4> QED
        BY <3>1, <3>2 DEF OpenAttempts
    <3>4. attempts' = Interrupted /\ DOMAIN Interrupted = DOMAIN attempts
      BY <2>1 DEF ReconcileRunning, Interrupted
    <3> QED
      BY <3>3, <3>4 DEF OpenInv
  <2>2. CASE UNCHANGED <<row, attempts>>
    BY <2>2 DEF ReachInv, OpenInv
  <2> QED
    BY <2>1, <2>2 DEF Restart, ReconcileWaiting, ReconcilePending, ReconcilePaused,
                      ReconcileNothing, durable
<1>10. NoPauseInv'
  BY <1>1, <1>8 DEF ReachInv, NoPauseInv
<1>11. row'.status = "STOPPED" => row.status = "STOPPED"
  BY <1>8
<1>12. /\ pc' # "spawned" /\ pc' # "killed" /\ daemon' # "down"
       /\ handle' = handle
  BY <1>1, <1>8
<1>13. NoneUndelivered'
  BY <1>3, <1>7 DEF FewerChildren, NoneUndelivered
<1> QED
  BY <1>5, <1>7, <1>9, <1>10, <1>11, <1>12, <1>13, ReachFrame

LEMMA InitReach == Init => ReachInv
<1> SUFFICES ASSUME Init PROVE ReachInv
  OBVIOUS
<1>1. /\ row.status = "PENDING" /\ task = row /\ procs = <<>> /\ attempts = <<>>
      /\ events = <<Event("start", 0)>> /\ pc = "select" /\ daemon = "up"
      /\ \A c \in Clients : req[c] = "none"
  BY DEF Init
<1>2. Event("start", 0).type = "start"
  BY DEF Event
<1>3. Channel(events, procs)
  <2>1. \A i \in DOMAIN events : events[i].type = "start"
    BY <1>1, <1>2
  <2> QED
    BY <2>1 DEF Channel
<1>4. NoPauseInv /\ OpenInv /\ ChildInv /\ ChildIsInReach
  BY <1>1 DEF NoPauseInv, OpenInv, ChildInv, ChildIsInReach, HandleIsLiveChild, StopKillsChild
<1> QED
  BY <1>1, <1>3, <1>4 DEF ReachInv

LEMMA NextReach == NobodyPauses => (IInv /\ LiveInv /\ ReachInv /\ [Next]_vars => ReachInv')
<1> SUFFICES ASSUME NobodyPauses, IInv, LiveInv, ReachInv, [Next]_vars PROVE ReachInv'
  OBVIOUS
<1>1. CASE SupervisorStep
  BY <1>1, IgnoreReach, SpawnReach, CommitSpawnReach, EndReach, NoPauseReach, StopReach, EndsReach
     DEF SupervisorStep
<1>2. CASE SupervisorFault
  BY <1>2, SpawnFaultsReach, NoPauseReach DEF SupervisorFault
<1>3. CASE \E p \in DOMAIN procs : ChildExit(p) \/ Reap(p) \/ PostExit(p)
  BY <1>3, ChildReach
<1>4. CASE \/ Tick \/ StepBack \/ TimerExpires \/ \E w \in firing : PostTimerFire(w)
           \/ \E w \in Waits : ProbeSucceeds(w) \/ PostAvailability(w) \/ ProberEnds(w)
           \/ UNCHANGED vars
  BY <1>4, EnvironmentReach
<1>5. CASE \E c \in Clients : PostUser(c) \/ \E a \in UserActions : Accept(c, a)
  BY <1>5, ClientReach
<1>6. CASE Shutdown \/ BeginClose \/ CloseReturns \/ Crash \/ Restart
  BY <1>6, StoppingReach, EndsReach, RestartReach
<1> QED
  BY <1>1, <1>2, <1>3, <1>4, <1>5, <1>6 DEF Next

LEMMA AlwaysReach == NobodyPauses => (Spec => [](IInv /\ LiveInv /\ ReachInv))
<1> SUFFICES ASSUME NobodyPauses PROVE Spec => [](IInv /\ LiveInv /\ ReachInv)
  OBVIOUS
<1>1. Init => IInv /\ LiveInv /\ ReachInv
  BY InitIInv, InitLive, InitReach
<1>2. (IInv /\ LiveInv /\ ReachInv) /\ [Next]_vars => (IInv /\ LiveInv /\ ReachInv)'
  BY NextIInv, NextLive, NextReach
<1> QED
  BY <1>1, <1>2, PTL DEF Spec

\* As long as nobody pauses, the runtime's handle denotes every live child of
\* this daemon, and a task that is STOPPED has none, in every order of exits,
\* resumes, stops, failures and restarts.
THEOREM ChildIsAlwaysInReach == NobodyPauses => (Spec => []ChildIsInReach)
<1> SUFFICES ASSUME NobodyPauses PROVE Spec => []ChildIsInReach
  OBVIOUS
<1>1. IInv /\ LiveInv /\ ReachInv => ChildIsInReach
  BY DEF ReachInv
<1>2. Spec => [](IInv /\ LiveInv /\ ReachInv)
  BY AlwaysReach
<1> QED
  BY <1>1, <1>2, PTL

\* The three parts of OutcomeClosesItsAttempt, for one step.
OutcomeStep ==
  \A n \in DOMAIN attempts :
    /\ attempts[n] # "open" => attempts'[n] = attempts[n]
    /\ attempts'[n] # attempts[n] /\ attempts'[n] # "INTERRUPTED" => procs[Head(events).src].no = n
    /\ attempts'[n] # attempts[n] /\ attempts'[n] = "INTERRUPTED" => n = row.total

LEMMA EndOutcome ==
  ASSUME IInv, ReachInv, Take("attempt_exit"), procs' = procs,
         NEW o \in AllOutcomes, attempts' = Closed(o)
  PROVE  OutcomeStep
<1>1. /\ cur = row.total /\ cur \in DOMAIN attempts /\ attempts[cur] = "open"
      /\ procs[Head(events).src].no = row.total
  BY ExitReach
<1>2. /\ attempts'[cur] = o /\ \A n \in DOMAIN attempts : n # cur => attempts'[n] = attempts[n]
  BY <1>1 DEF Closed, IInv, TypeOK, StoreTypeOK
<1>3. o # "INTERRUPTED"
  BY DEF AllOutcomes
<1> QED
  BY <1>1, <1>2, <1>3 DEF OutcomeStep

LEMMA NextOutcome == NobodyPauses => (IInv /\ ReachInv /\ [Next]_vars => OutcomeStep)
<1> SUFFICES ASSUME NobodyPauses, IInv, ReachInv, [Next]_vars PROVE OutcomeStep
  OBVIOUS
<1>0. ASSUME attempts' = attempts PROVE OutcomeStep
  BY <1>0 DEF OutcomeStep
<1>1. CASE \/ Ignore \/ Spawn \/ StopKill \/ RunReturns \/ CommitSpawnFails \/ ExitFails
           \/ \E p \in DOMAIN procs : ChildExit(p) \/ Reap(p) \/ PostExit(p)
           \/ Tick \/ StepBack \/ TimerExpires \/ \E w \in firing : PostTimerFire(w)
           \/ \E w \in Waits : ProbeSucceeds(w) \/ PostAvailability(w) \/ ProberEnds(w)
           \/ \E c \in Clients : PostUser(c) \/ \E a \in UserActions : Accept(c, a)
           \/ Shutdown \/ BeginClose \/ CloseReturns \/ Crash \/ UNCHANGED vars
  <2>1. attempts' = attempts
    BY <1>1 DEF Ignore, Spawn, StopKill, RunReturns, CommitSpawnFails, ExitFails, ChildExit, Reap,
         PostExit, Tick, StepBack, TimerExpires, PostTimerFire, ProbeSucceeds, PostAvailability,
         ProberEnds, PostUser, Accept, Shutdown, BeginClose, CloseReturns, Crash, durable, Fails, vars
  <2> QED
    BY <1>0, <2>1
<1>2. CASE SpawnFails \/ Pause \/ CommitStop
  <2>1. attempts' = attempts
    BY <1>2 DEF SpawnFails, Pause, CommitStop, Commit, Fails, durable
  <2> QED
    BY <1>0, <2>1
<1>3. CASE CommitSpawn
  <2>1. attempts' = Append(attempts, "open")
    BY <1>3 DEF CommitSpawn, Commit
  <2>2. \A n \in DOMAIN attempts : attempts'[n] = attempts[n]
    BY <2>1 DEF IInv, TypeOK, StoreTypeOK
  <2> QED
    BY <2>2 DEF OutcomeStep
<1>4. CASE Schedule \/ RecordPausedExit \/ \E s \in {"SUCCEEDED", "FAILED"} : Finish(s)
  <2>1. /\ Take("attempt_exit") /\ procs' = procs
        /\ \E o \in AllOutcomes : attempts' = Closed(o)
    BY <1>4, SupervisorAssumption DEF Schedule, RecordPausedExit, Finish, Commit
  <2> QED
    BY <2>1, EndOutcome
<1>5. CASE Restart
  <2>1. CASE ReconcileRunning
    <3>1. \A n \in DOMAIN attempts : attempts[n] = "open" => n = row.total
      BY DEF ReachInv, OpenInv
    <3>2. \A n \in DOMAIN attempts : attempts'[n] # attempts[n] =>
            attempts[n] = "open" /\ attempts'[n] = "INTERRUPTED"
      BY <2>1 DEF ReconcileRunning, Interrupted, OpenAttempts
    <3> QED
      BY <3>1, <3>2 DEF OutcomeStep
  <2>2. CASE attempts' = attempts
    BY <1>0, <2>2
  <2> QED
    BY <1>5, <2>1, <2>2 DEF Restart, ReconcileWaiting, ReconcilePending, ReconcilePaused,
                           ReconcileNothing, durable
<1> QED
  BY <1>1, <1>2, <1>3, <1>4, <1>5 DEF Next, SupervisorStep, SupervisorFault

\* As long as nobody pauses, an outcome is written once, in the row of the
\* attempt whose child exited, and an interruption in that of the attempt that
\* was interrupted: the supervisor's idea of its current attempt is never
\* another one's.
THEOREM OutcomesCloseTheirAttempts == NobodyPauses => (Spec => OutcomeClosesItsAttempt)
<1> SUFFICES ASSUME NobodyPauses PROVE Spec => OutcomeClosesItsAttempt
  OBVIOUS
<1>1. IInv /\ ReachInv /\ [Next]_vars =>
        /\ [\A n \in DOMAIN attempts : attempts[n] # "open" => attempts'[n] = attempts[n]]_vars
        /\ [\A n \in DOMAIN attempts :
              attempts'[n] # attempts[n] /\ attempts'[n] # "INTERRUPTED"
                => procs[Head(events).src].no = n]_vars
        /\ [\A n \in DOMAIN attempts :
              attempts'[n] # attempts[n] /\ attempts'[n] = "INTERRUPTED" => n = row.total]_vars
  BY NextOutcome DEF OutcomeStep
<1>2. Spec => [](IInv /\ LiveInv /\ ReachInv)
  BY AlwaysReach
<1> QED
  BY <1>1, <1>2, PTL DEF Spec, OutcomeClosesItsAttempt, ClosedAttemptIsFinal,
     ExitClosesItsAttempt, InterruptionClosesItsAttempt
=============================================================================
