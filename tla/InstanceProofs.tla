---------------------------- MODULE InstanceProofs ----------------------------
(***************************************************************************)
(* For any number of processes and commands, and any number of crashes: a  *)
(* daemon that can be reached is never doubled, and one that nobody has    *)
(* started past keeps its files.                                           *)
(***************************************************************************)
EXTENDS Instance, TLAPS

\* past the guard, and not gone
Past(d) == at[d] \in {"passed", "written", "recorded", "owns", "stale", "unbound",
                      "bound", "unsafe", "serving", "stopped", "closing", "closed"}

\* of two daemons past the guard one has passed the other unseen
PastUnseen == \A d, e \in Daemons : (d # e /\ Past(d) /\ Past(e)) => {d, e} \in unseen

\* a guard that pings one daemon has not seen any other
PingUnseen ==
  \A d, e \in Daemons :
    (d # e /\ at[d] = "pinging" /\ Past(e) /\ e # peer[d]) => {d, e} \in unseen

\* nobody has started, or ended, past this daemon
Unoverlapped(d) == \A e \in Daemons : {d, e} \notin unseen

\* such a daemon has its files at every stage of its start
HasFiles(d) ==
  /\ at[d] = "written" => tmp = d
  /\ at[d] \in {"recorded", "owns", "stale", "unbound", "bound", "serving"} => pid = d
  /\ at[d] \in {"bound", "serving"} => path = d
  /\ at[d] # "unsafe"
FilesKept == \A d \in Daemons : Unoverlapped(d) => HasFiles(d)

IInv == TypeOK /\ PastUnseen /\ PingUnseen /\ FilesKept

\* Nobody is past the guard when nothing has been started.
LEMMA InitIInv == Init => IInv
<1> SUFFICES ASSUME Init PROVE IInv
    OBVIOUS
<1>1. TypeOK
      BY InstanceAssumption DEF Init, TypeOK
<1>2. PastUnseen /\ PingUnseen /\ FilesKept
      BY DEF Init, PastUnseen, PingUnseen, FilesKept, Past, HasFiles
<1> QED BY <1>1, <1>2 DEF IInv

\* Every step keeps the types.
LEMMA TypeStep == TypeOK /\ [Next]_vars => TypeOK'
<1> SUFFICES ASSUME TypeOK, [Next]_vars PROVE TypeOK'
    OBVIOUS
<1> USE InstanceAssumption DEF TypeOK, files, commands, history
<1>1. ASSUME NEW d \in Daemons, Dial(d) \/ Refused(d) \/ PingFails(d)
      PROVE  TypeOK'
      BY <1>1 DEF Dial, Refused, PingFails, Step, Unseen, Dialable, Reaches
<1>2. ASSUME NEW d \in Daemons, WriteTmp(d) \/ RenamePid(d) \/ Reconcile(d) \/ StartFails(d)
      PROVE  TypeOK'
      BY <1>2 DEF WriteTmp, RenamePid, Reconcile, StartFails, Step
<1>3. ASSUME NEW d \in Daemons, LookAtPath(d) \/ RemoveStale(d) \/ Bind(d) \/ Chmod(d) \/ CloseUnsafe(d)
      PROVE  TypeOK'
      BY <1>3 DEF LookAtPath, RemoveStale, Bind, Chmod, CloseUnsafe, Step
<1>4. ASSUME NEW d \in Daemons, StopServing(d) \/ Signalled(d) \/ RemoveSocket(d)
                                \/ CloseReturns(d) \/ RemovePid(d) \/ Crash(d)
      PROVE  TypeOK'
      BY <1>4 DEF StopServing, Signalled, RemoveSocket, CloseReturns, RemovePid, Crash, Step
<1>5. ASSUME NEW c \in Starters, Connect(c) \/ SpawnDaemon(c) \/ WaitDial(c) \/ GiveUp(c)
      PROVE  TypeOK'
  <2>1. CASE SpawnDaemon(c)
    <3>1. PICK e \in Daemons : Step(e, "unborn", "born")
          BY <2>1 DEF SpawnDaemon, Fork
    <3> QED BY <2>1, <3>1 DEF SpawnDaemon, Goto, Step
  <2>2. CASE Connect(c) \/ WaitDial(c) \/ GiveUp(c)
        BY <2>2 DEF Connect, WaitDial, GiveUp, Goto
  <2> QED BY <1>5, <2>1, <2>2
<1>6. ASSUME NEW c \in Stoppers, AskToStop(c) \/ WaitGone(c) \/ GiveUp(c)
      PROVE  TypeOK'
      BY <1>6 DEF AskToStop, WaitGone, GiveUp, Goto, Dialable, Reaches
<1>7. CASE RunDirectly
  <2>1. PICK e \in Daemons : Step(e, "unborn", "born")
        BY <1>7 DEF RunDirectly, Fork
  <2> QED BY <1>7, <2>1 DEF RunDirectly, Step
<1>8. CASE UNCHANGED vars
      BY <1>8 DEF vars
<1> QED BY <1>1, <1>2, <1>3, <1>4, <1>5, <1>6, <1>7, <1>8 DEF Next, Run

\* The guard records every daemon it goes past.
LEMMA GuardSteps ==
  ASSUME IInv, NEW d \in Daemons, Dial(d) \/ Refused(d) \/ PingFails(d)
  PROVE  PastUnseen' /\ PingUnseen' /\ FilesKept'
<1> USE DEF IInv, TypeOK, Step, history
<1>1. /\ \A e \in Daemons \ {d} : at'[e] = at[e] /\ peer'[e] = peer[e]
      /\ unseen \subseteq unseen' /\ UNCHANGED files
      BY DEF Dial, Refused, PingFails
<1>2. FilesKept'
  <2>1. at'[d] \in {"passed", "pinging", "gone"}
        BY DEF Dial, Refused, PingFails
  <2>2. HasFiles(d)'
        BY <2>1 DEF HasFiles
  <2>3. ASSUME NEW e \in Daemons \ {d}, Unoverlapped(e)'
        PROVE  HasFiles(e)'
    <3>1. HasFiles(e)
          BY <1>1, <2>3 DEF FilesKept, Unoverlapped
    <3> QED BY <1>1, <3>1 DEF HasFiles, files
  <2> QED BY <2>2, <2>3 DEF FilesKept
<1>3. CASE Dial(d)
  <2>1. \A e \in Daemons \ {d} : Past(e) /\ path # e => {d, e} \in unseen'
        BY <1>3 DEF Dial, Unseen, Past, Alive, Reaches
  <2>2. PastUnseen'
        BY <1>1, <1>3, <2>1 DEF Dial, PastUnseen, Past, Dialable, Reaches, Listening, Unseen, Alive
  <2>3. PingUnseen'
        BY <1>1, <1>3, <2>1 DEF Dial, PingUnseen, Past, Unseen, Alive, Reaches, Listening
  <2> QED BY <1>2, <2>2, <2>3
<1>4. CASE PingFails(d)
  <2>1. PastUnseen'
        BY <1>1, <1>4 DEF PingFails, PastUnseen, PingUnseen, Past, Unseen, Alive, Reaches, Listening
  <2>2. PingUnseen'
        BY <1>1, <1>4 DEF PingFails, PingUnseen, Past, Unseen, Alive, Reaches, Listening
  <2> QED BY <1>2, <2>1, <2>2
<1>5. CASE Refused(d)
  <2>1. PastUnseen' /\ PingUnseen'
        BY <1>1, <1>5 DEF Refused, PastUnseen, PingUnseen, Past
  <2> QED BY <1>2, <2>1
<1> QED BY <1>3, <1>4, <1>5

\* A daemon past its guard only disturbs the files of those it overlaps with.
LEMMA DaemonSteps ==
  ASSUME IInv, NEW d \in Daemons,
         \/ WriteTmp(d) \/ RenamePid(d) \/ Reconcile(d) \/ StartFails(d)
         \/ LookAtPath(d) \/ RemoveStale(d) \/ Bind(d) \/ Chmod(d) \/ CloseUnsafe(d)
         \/ StopServing(d) \/ Signalled(d) \/ RemoveSocket(d)
         \/ CloseReturns(d) \/ RemovePid(d)
  PROVE  PastUnseen' /\ PingUnseen' /\ FilesKept'
<1> USE DEF IInv, TypeOK, history
<1>1. /\ Past(d) /\ \A e \in Daemons \ {d} : at'[e] = at[e]
      /\ at'[d] \notin {"born", "pinging"} /\ UNCHANGED <<peer, unseen>>
      BY DEF WriteTmp, RenamePid, Reconcile, StartFails, LookAtPath, RemoveStale, Bind, Chmod, CloseUnsafe,
             StopServing, Signalled, RemoveSocket, CloseReturns, RemovePid, Step, Past
<1>2. PastUnseen' /\ PingUnseen'
      BY <1>1 DEF PastUnseen, PingUnseen, Past
<1>3. ASSUME Unoverlapped(d)
      PROVE  HasFiles(d)'
  <2>1. HasFiles(d)
        BY <1>3 DEF FilesKept
  <2>2. CASE WriteTmp(d) \/ RenamePid(d) \/ Reconcile(d) \/ StartFails(d)
        BY <2>1, <2>2 DEF WriteTmp, RenamePid, Reconcile, StartFails, Step, HasFiles, files
  <2>3. CASE LookAtPath(d) \/ RemoveStale(d)
        BY <2>1, <2>3 DEF LookAtPath, RemoveStale, Step, HasFiles, files
  <2>4. CASE Bind(d) \/ Chmod(d)
        BY <2>1, <2>4, InstanceAssumption DEF Bind, Chmod, Step, HasFiles, files
  <2>5. CASE \/ CloseUnsafe(d) \/ StopServing(d) \/ Signalled(d) \/ RemoveSocket(d)
             \/ CloseReturns(d) \/ RemovePid(d)
        BY <2>5 DEF CloseUnsafe, StopServing, Signalled, RemoveSocket, CloseReturns,
                    RemovePid, Step, HasFiles
  <2> QED BY <2>2, <2>3, <2>4, <2>5
<1>4. ASSUME NEW e \in Daemons \ {d}, Unoverlapped(e)
      PROVE  HasFiles(e)'
  <2>1. ~Past(e)
        BY <1>1, <1>4 DEF PastUnseen, Unoverlapped
  <2> QED BY <1>1, <2>1 DEF HasFiles, Past
<1> QED BY <1>1, <1>2, <1>3, <1>4 DEF FilesKept, Unoverlapped

\* What is killed is past nothing any more, and touches no file.
LEMMA CrashSteps ==
  ASSUME IInv, NEW d \in Daemons, Crash(d)
  PROVE  PastUnseen' /\ PingUnseen' /\ FilesKept'
<1> USE DEF IInv, TypeOK, history
<1>1. /\ at'[d] = "gone" /\ \A e \in Daemons \ {d} : at'[e] = at[e] /\ peer'[e] = peer[e]
      /\ UNCHANGED <<files, unseen>>
      BY DEF Crash
<1>2. PastUnseen' /\ PingUnseen'
      BY <1>1 DEF PastUnseen, PingUnseen, Past
<1>3. ASSUME NEW e \in Daemons, Unoverlapped(e)
      PROVE  HasFiles(e)'
      BY <1>1, <1>3 DEF FilesKept, HasFiles, files
<1> QED BY <1>1, <1>2, <1>3 DEF FilesKept, Unoverlapped

\* A new process is before its guard, and the commands touch no file.
LEMMA OtherSteps ==
  ASSUME IInv,
         \/ RunDirectly
         \/ \E c \in Starters : Connect(c) \/ SpawnDaemon(c) \/ WaitDial(c) \/ GiveUp(c)
         \/ \E c \in Stoppers : AskToStop(c) \/ WaitGone(c) \/ GiveUp(c)
         \/ UNCHANGED vars
  PROVE  PastUnseen' /\ PingUnseen' /\ FilesKept'
<1> USE DEF IInv, TypeOK, history
<1>1. UNCHANGED <<files, peer, unseen>>
      BY DEF RunDirectly, Connect, SpawnDaemon, WaitDial, GiveUp, AskToStop, WaitGone, vars
<1>2. at' = at \/ Fork
      BY DEF RunDirectly, Connect, SpawnDaemon, WaitDial, GiveUp, AskToStop, WaitGone, vars
<1>3. \A e \in Daemons : at'[e] = at[e] \/ at'[e] = "born"
      BY <1>2 DEF Fork, Step
<1> QED BY <1>1, <1>3 DEF PastUnseen, PingUnseen, FilesKept, HasFiles, Unoverlapped, Past, files

\* The invariant is inductive.
LEMMA StepIInv == IInv /\ [Next]_vars => IInv'
<1> SUFFICES ASSUME IInv, [Next]_vars PROVE IInv'
    OBVIOUS
<1>1. TypeOK'
      BY TypeStep DEF IInv
<1>2. PastUnseen' /\ PingUnseen' /\ FilesKept'
      BY GuardSteps, DaemonSteps, CrashSteps, OtherSteps DEF Next, Run
<1> QED BY <1>1, <1>2 DEF IInv

(* The types hold in every reachable state.                                *)
THEOREM TypeCorrect == Spec => []TypeOK
<1>1. IInv => TypeOK
      BY DEF IInv
<1> QED BY InitIInv, StepIInv, <1>1, PTL DEF Spec

(* The guard of runDaemon: of two daemons that own the Tasks at the same   *)
(* time, one was not reachable when the guard of the other looked.         *)
THEOREM ReachableIsAlwaysAlone == Spec => []ReachableIsAlone
<1>1. IInv => ReachableIsAlone
      BY DEF IInv, PastUnseen, ReachableIsAlone, Owns, Past
<1> QED BY InitIInv, StepIInv, <1>1, PTL DEF Spec

(* The files of runDaemon, writePidFile and Listen: as long as no other    *)
(* daemon was started past it, the socket and the pid file of a serving    *)
(* daemon are its own.                                                     *)
THEOREM FilesAlwaysLeadToTheDaemon == Spec => []FilesLeadToTheDaemon
<1>1. IInv => FilesLeadToTheDaemon
      BY DEF IInv, FilesKept, HasFiles, Unoverlapped, FilesLeadToTheDaemon, Listening
<1> QED BY InitIInv, StepIInv, <1>1, PTL DEF Spec
===============================================================================
