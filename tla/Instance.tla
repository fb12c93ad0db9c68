------------------------------- MODULE Instance -------------------------------
(***************************************************************************)
(* The daemon as a process: the single-instance guard and the pid file of  *)
(* `defib daemon run' (internal/cli/daemon.go), its start and its end      *)
(* (cmd/defib/main.go), the socket file (ipc.Listen), the commands that    *)
(* start a daemon on demand (connect, waitDial) and `defib daemon stop'.   *)
(*                                                                         *)
(* The socket and the pid file are paths: whoever binds, writes or removes *)
(* one does so whatever it is by then.  A listener closes by removing its  *)
(* path first, as Go's does.                                               *)
(***************************************************************************)
EXTENDS Naturals

CONSTANTS
  Daemons,     \* processes of `defib daemon run', each started at most once
  Starters,    \* commands that connect and start a daemon on demand
  Stoppers,    \* commands that stop it
  NoOne,       \* no file, nobody
  Stale,       \* what an earlier daemon has left behind
  MaxEnds      \* bound of the crashes, signals and failed starts

ASSUME InstanceAssumption ==
  /\ NoOne \notin Daemons /\ Stale \notin Daemons /\ NoOne # Stale
  /\ Starters \cap Stoppers = {} /\ MaxEnds \in Nat

VARIABLES
  path,        \* daemon.sock: the listener it was bound to
  pid, tmp,    \* daemon.pid and daemon.pid.tmp: whose number they hold
  at,          \* how far each daemon is
  peer,        \* whom its guard is pinging
  asked,       \* daemons with a request in shutdownCh
  cmd,         \* how far each command is
  target,      \* the daemon a stop has been sent to
  \* History, read by properties only.
  unseen,      \* pairs of daemons one of which passed or dialled past the other
  ends,        \* the ends of processes that no stop asked for
  severed      \* a failing Listen has removed the socket of another daemon

files == <<path, pid, tmp>>
commands == <<cmd, target>>
history == <<unseen, ends, severed>>
vars == <<files, at, peer, asked, commands, history>>

Alive(d) == at[d] \notin {"unborn", "gone"}

(* A dial succeeds when the path leads to an open listener; a ping is      *)
(* answered when it is being served.                                       *)
Listening(d) == at[d] \in {"bound", "unsafe", "serving"}
Reaches(d) == path = d /\ Listening(d)
Dialable == \E d \in Daemons : Reaches(d)

(* Reconcile has built its supervisors, and Close has not cancelled them.  *)
Owns(d) == at[d] \in {"owns", "stale", "unbound", "bound", "unsafe", "serving", "stopped"}

Init ==
  /\ path \in {NoOne, Stale} /\ pid = path /\ tmp = NoOne
  /\ at = [d \in Daemons |-> "unborn"] /\ peer = [d \in Daemons |-> NoOne]
  /\ asked = {} /\ unseen = {} /\ ends = 0 /\ severed = FALSE
  /\ cmd = [c \in Starters \union Stoppers |-> "idle"]
  /\ target = [c \in Stoppers |-> NoOne]

-----------------------------------------------------------------------------
(* The guard.                                                              *)

Step(d, from, to) == at[d] = from /\ at' = [at EXCEPT ![d] = to]

(* A new process: which of the unborn is all the same.                     *)
Fork == LET d == CHOOSE e \in Daemons : at[e] = "unborn" IN Step(d, "unborn", "born")

(* The others that live, and that the path does not lead to.               *)
Unseen(d) == {{d, e} : e \in {f \in Daemons \ {d} : Alive(f) /\ ~Reaches(f)}}

Dial(d) ==
  /\ IF Dialable
     THEN Step(d, "born", "pinging") /\ peer' = [peer EXCEPT ![d] = path]
     ELSE Step(d, "born", "passed") /\ UNCHANGED peer
  /\ unseen' = unseen \union Unseen(d)
  /\ UNCHANGED <<files, asked, commands, ends, severed>>

\* Mutants: the refusal is only printed; the pid file's removal is deferred
\* before the guard.
RefusedGoesOn(d) ==
  /\ Step(d, "pinging", "passed") /\ at[peer[d]] = "serving"
  /\ peer' = [peer EXCEPT ![d] = NoOne]
  /\ UNCHANGED <<files, asked, commands, history>>
RefusedRemovesPid(d) ==
  /\ Step(d, "pinging", "gone") /\ at[peer[d]] = "serving"
  /\ peer' = [peer EXCEPT ![d] = NoOne] /\ pid' = NoOne
  /\ UNCHANGED <<path, tmp, asked, commands, history>>

(* The ping is answered: "daemon already running".                         *)
Refused(d) ==
  /\ Step(d, "pinging", "gone") /\ at[peer[d]] = "serving"
  /\ peer' = [peer EXCEPT ![d] = NoOne]
  /\ UNCHANGED <<files, asked, commands, history>>

(* The daemon that accepted the connection ends before it answers.         *)
PingFails(d) ==
  /\ Step(d, "pinging", "passed") /\ ~Listening(peer[d])
  /\ peer' = [peer EXCEPT ![d] = NoOne]
  /\ unseen' = unseen \union Unseen(d)
  /\ UNCHANGED <<files, asked, commands, ends, severed>>

(* writePidFile: every daemon writes the same temporary file, and the one  *)
(* that finds it renamed away fails.                                       *)
WriteTmp(d) ==
  /\ Step(d, "passed", "written") /\ tmp' = d
  /\ UNCHANGED <<path, pid, peer, asked, commands, history>>

RenamePid(d) ==
  /\ IF tmp = NoOne THEN Step(d, "written", "gone") /\ UNCHANGED pid
                    ELSE Step(d, "written", "recorded") /\ pid' = tmp
  /\ tmp' = NoOne
  /\ UNCHANGED <<path, peer, asked, commands, history>>

-----------------------------------------------------------------------------
(* main: Reconcile, then Listen.                                           *)

Reconcile(d) ==
  /\ Step(d, "recorded", "owns")
  /\ UNCHANGED <<files, peer, asked, commands, history>>

(* The configuration, the log, the database or Reconcile fails.            *)
StartFails(d) ==
  /\ at[d] \in {"recorded", "owns"} /\ ends < MaxEnds /\ ends' = ends + 1
  /\ at' = [at EXCEPT ![d] = "closing"]
  /\ UNCHANGED <<files, peer, asked, commands, unseen, severed>>

(* Listen: whatever is at the path is taken for stale and removed; when    *)
(* somebody else has removed it, or bound it again, Listen fails.          *)
LookAtPath(d) ==
  /\ Step(d, "owns", IF path = NoOne THEN "unbound" ELSE "stale")
  /\ UNCHANGED <<files, peer, asked, commands, history>>

RemoveNothing(d) == \* mutant
  /\ Step(d, "stale", "unbound")
  /\ UNCHANGED <<files, peer, asked, commands, history>>

RemoveStale(d) ==
  /\ Step(d, "stale", IF path = NoOne THEN "closing" ELSE "unbound")
  /\ path' = NoOne
  /\ UNCHANGED <<pid, tmp, peer, asked, commands, history>>

Bind(d) ==
  /\ IF path = NoOne THEN Step(d, "unbound", "bound") /\ path' = d
                     ELSE Step(d, "unbound", "closing") /\ UNCHANGED path
  /\ UNCHANGED <<pid, tmp, peer, asked, commands, history>>

(* The chmod of whatever is at the path by then; without it Listen closes  *)
(* the listener and fails.                                                 *)
Chmod(d) ==
  /\ Step(d, "bound", IF path = NoOne THEN "unsafe" ELSE "serving")
  /\ UNCHANGED <<files, peer, asked, commands, history>>

CloseUnsafe(d) ==
  /\ Step(d, "unsafe", "closing") /\ path' = NoOne
  /\ severed' = (severed \/ Dialable)
  /\ UNCHANGED <<pid, tmp, peer, asked, commands, unseen, ends>>

-----------------------------------------------------------------------------
(* The end.                                                                *)

\* Mutant: the connections are drained before the listener is closed.
StopServingWhenIdle(d) ==
  /\ d \in asked /\ \A c \in Stoppers : target[c] = d => cmd[c] # "waitGone"
  /\ Step(d, "serving", "stopped") /\ path' = NoOne
  /\ UNCHANGED <<pid, tmp, peer, asked, commands, history>>

(* The context is cancelled and Serve returns.                             *)
StopServing(d) ==
  /\ d \in asked
  /\ Step(d, "serving", "stopped") /\ path' = NoOne
  /\ UNCHANGED <<pid, tmp, peer, asked, commands, history>>

Signalled(d) ==
  /\ Step(d, "serving", "stopped") /\ path' = NoOne
  /\ ends < MaxEnds /\ ends' = ends + 1
  /\ UNCHANGED <<pid, tmp, peer, asked, commands, unseen, severed>>

(* os.Remove(sock), and Close begins.                                      *)
RemoveSocket(d) ==
  /\ Step(d, "stopped", "closing") /\ path' = NoOne
  /\ UNCHANGED <<pid, tmp, peer, asked, commands, history>>

(* Close returns when the last child has ended.                            *)
CloseReturns(d) ==
  /\ Step(d, "closing", "closed")
  /\ UNCHANGED <<files, peer, asked, commands, history>>

RemovePid(d) ==
  /\ Step(d, "closed", "gone") /\ pid' = NoOne
  /\ UNCHANGED <<path, tmp, peer, asked, commands, history>>

Crash(d) ==
  /\ Alive(d) /\ ends < MaxEnds /\ ends' = ends + 1
  /\ at' = [at EXCEPT ![d] = "gone"] /\ peer' = [peer EXCEPT ![d] = NoOne]
  /\ UNCHANGED <<files, asked, commands, unseen, severed>>

-----------------------------------------------------------------------------
(* The commands.                                                           *)

Goto(c, place) == cmd' = [cmd EXCEPT ![c] = place]

(* connect: dial, or spawn a daemon and dial until it answers; five seconds*)
(* are the limit.                                                          *)
Connect(c) ==
  /\ cmd[c] = "idle" /\ Dialable /\ Goto(c, "connected")
  /\ UNCHANGED <<files, at, peer, asked, target, history>>

SpawnDaemon(c) ==
  /\ cmd[c] = "idle" /\ ~Dialable /\ Goto(c, "waiting")
  /\ (\E d \in Daemons : at[d] = "unborn") /\ Fork
  /\ UNCHANGED <<files, peer, asked, target, history>>

WaitDial(c) ==
  /\ cmd[c] = "waiting" /\ Dialable /\ Goto(c, "connected")
  /\ UNCHANGED <<files, at, peer, asked, target, history>>

GiveUp(c) ==
  /\ cmd[c] \in {"waiting", "waitGone"} /\ Goto(c, "failed")
  /\ UNCHANGED <<files, at, peer, asked, target, history>>

(* daemon stop: dial, ask for the shutdown, and dial until nobody answers. *)
AskToStop(c) ==
  /\ cmd[c] = "idle"
  /\ IF Dialable
     THEN /\ asked' = asked \union {path} /\ target' = [target EXCEPT ![c] = path]
          /\ Goto(c, "waitGone")
     ELSE Goto(c, "failed") /\ UNCHANGED <<asked, target>>
  /\ UNCHANGED <<files, at, peer, history>>

WaitGone(c) ==
  /\ cmd[c] = "waitGone" /\ ~Dialable /\ Goto(c, "stopped")
  /\ UNCHANGED <<files, at, peer, asked, target, history>>

-----------------------------------------------------------------------------
Run(d) ==
  \/ Dial(d) \/ Refused(d) \/ PingFails(d) \/ WriteTmp(d) \/ RenamePid(d)
  \/ Reconcile(d) \/ LookAtPath(d) \/ RemoveStale(d) \/ Bind(d)
  \/ Chmod(d) \/ CloseUnsafe(d)
  \/ StopServing(d) \/ RemoveSocket(d) \/ RemovePid(d)

(* The service manager, or a user, runs the daemon itself.                 *)
RunDirectly ==
  /\ (\E d \in Daemons : at[d] = "unborn") /\ Fork
  /\ UNCHANGED <<files, peer, asked, commands, history>>

Next ==
  \/ \E d \in Daemons :
       Run(d) \/ StartFails(d) \/ Signalled(d) \/ CloseReturns(d) \/ Crash(d)
  \/ RunDirectly
  \/ \E c \in Starters : Connect(c) \/ SpawnDaemon(c) \/ WaitDial(c) \/ GiveUp(c)
  \/ \E c \in Stoppers : AskToStop(c) \/ WaitGone(c) \/ GiveUp(c)

Spec == Init /\ [][Next]_vars

(* Processes are scheduled.  Nothing makes a child end, so CloseReturns has*)
(* no fairness; nor has a timeout.                                         *)
Fairness ==
  /\ \A d \in Daemons : WF_vars(Run(d))
  /\ \A c \in Starters : WF_vars(WaitDial(c))
  /\ \A c \in Stoppers : WF_vars(WaitGone(c))

FairSpec == Spec /\ Fairness

-----------------------------------------------------------------------------
(* Properties.                                                             *)

TypeOK ==
  /\ path \in Daemons \union {NoOne, Stale}
  /\ pid \in Daemons \union {NoOne, Stale} /\ tmp \in Daemons \union {NoOne}
  /\ at \in [Daemons -> {"unborn", "born", "pinging", "passed", "written", "recorded",
                         "owns", "stale", "unbound", "bound", "unsafe", "serving",
                         "stopped", "closing", "closed", "gone"}]
  /\ peer \in [Daemons -> Daemons \union {NoOne}]
  /\ \A d \in Daemons : (peer[d] # NoOne) <=> (at[d] = "pinging")
  /\ asked \subseteq Daemons
  /\ cmd \in [Starters \union Stoppers ->
                {"idle", "waiting", "connected", "waitGone", "stopped", "failed"}]
  /\ target \in [Stoppers -> Daemons \union {NoOne}]
  /\ unseen \subseteq SUBSET Daemons

(* Two daemons run the Tasks of one database at the same time only if one  *)
(* of them, when its guard looked, had the other starting, stopping or cut *)
(* off from its path: a daemon that can be reached is never doubled.       *)
ReachableIsAlone ==
  \A d, e \in Daemons : (d # e /\ Owns(d) /\ Owns(e)) => {d, e} \in unseen

(* A daemon whose life overlapped with no other's unseen start or end keeps*)
(* its socket and its pid file for as long as it serves: a refused daemon  *)
(* touches neither.                                                        *)
FilesLeadToTheDaemon ==
  \A d \in Daemons :
    (Listening(d) /\ \A e \in Daemons : {d, e} \notin unseen) => path = d /\ pid = d

(* A command that starts a daemon reaches one, though other commands start *)
(* daemons at the same moment that replace each other's files, and         *)
(* whatever an earlier daemon has left; unless processes are being ended,  *)
(* or a failing Listen has taken another daemon's socket with it.          *)
StartFindsADaemon ==
  \A c \in Starters :
    (cmd[c] = "waiting") ~> (cmd[c] # "waiting" \/ ends > 0 \/ asked # {} \/ severed)

(* daemon stop sees the daemon it has asked go, though it keeps its own    *)
(* connection open meanwhile and children may run on; another daemon that  *)
(* has come up since is all that can hide it.                              *)
StopSeesItGone ==
  \A c \in Stoppers :
    (cmd[c] = "waitGone") ~>
      (cmd[c] # "waitGone" \/ \E d \in Daemons : d # target[c] /\ Reaches(d))

(* What the single-instance guard is for (cli/daemon.go:151,165).  The code*)
(* does not keep it: see `unseen'.                                         *)
OneDaemonOwns == \A d, e \in Daemons : (Owns(d) /\ Owns(e)) => d = e
===============================================================================
