# Verification of defib

This directory holds TLA+ specifications of defib (`src/`), TLC configurations
that check them on small instances, and TLAPS proofs of their main theorems.
defib is a daemon that runs AI command line tools as long-lived *Tasks*: it runs
the tool as a child process (an *Attempt*), decides from its output how the
attempt went, and, when a limit was hit, waits for it to clear and tries again,
across restarts of the daemon.

## 1. The system

| Component | Code | State it keeps | Operations |
|---|---|---|---|
| Supervisor | `internal/supervisor` | one per live Task: `task`, `currentAttempt`, `waitingSince`, `prober`, a bounded event channel | `Run`, `Handle` and its handlers (`spawnAttempt`, `attemptExit`, `recordPausedExit`, `wake`, `pause`, `stop`, `fail`, `persist`), the prober goroutine |
| Wake timers | `internal/scheduler/timer.go` | `active`: Task to arm; one goroutine per arm | `Arm`, `Cancel`, `Stop`, `wait` |
| Retry schedule | `internal/scheduler/wake.go`, `caps.go`, `daemon/policy.go`, `daemon/probe.go` | the policy of a runtime, the backing off of its probe | `NextWake`, `ExceededCap`, `buildPolicy`, `probeRunner.probe` |
| Daemon core | `internal/daemon/daemon.go` | `runtimes`: Task to `taskRuntime` (the handle of its child), root context, wait group | `startRuntime`, `spawn`, `spawnPTY`, `postEvent`, `onTimerFire`, `Close`, `StopAllChildren` |
| Recovery | `internal/daemon/reconcile.go` | none | `Reconcile`, `recoverInterrupted` |
| IPC methods | `internal/daemon/methods.go` | none | create, list, get, remove, pause, resume, stop, logs, attach, subscribe, input, resize, shutdown |
| Event bus | `internal/daemon/bus.go` | subscribers with bounded buffers | `publish`, `subscribe` |
| Interactive attach | `internal/daemon/interactive.go`, `cli/attach_interactive.go` | tail and subscribers of a PTY; the client's terminal and input pump | `Write`, `subscribe`, `Close`; attach, detach, type |
| Process runner | `internal/process` | a child, its capture goroutines, its killed flag | `Start`, `StartPTY`, `Wait`, `Kill`, log following |
| Detection | `internal/detect` | rules | `Merge`, `NewEngine`, `Classify`, extraction of reset times |
| Configuration | `internal/config` | files, environment | `Resolve` (layers), `Validate` |
| Store | `internal/store` | tables `tasks`, `attempts`, `events` | CRUD, transactions |
| IPC transport | `internal/ipc` | connections, in-flight requests | `Dial`, `Call`, `Stream`; `Listen`, `Serve`, `invoke`, senders |
| Daemon process | `cmd/defib/main.go`, `internal/cli/daemon.go` | socket, pid file, single-instance guard | run, start on demand, signal, stop |
| Commands | `internal/cli` | none, but for `config set`: the global file | start, attach, logs, config, task actions |
| Notifications, providers, logging, paths, service | the rest | none that a Task's life depends on | hooks, command lines, redaction |

**How they interact.** A client's request is checked against the row in the
store and then posted as an event to the Task's supervisor; the wake timer, the
prober and the goroutine that waits for the child post events to the same
bounded channel. Only the supervisor changes its Task. It does so by a
transaction that writes the `tasks` row, the `attempts` row and an `events` row
together, and replaces its copy in memory after the commit. The daemon's
runtime holds the handle of the child, which `stop` and `daemon.shutdown` kill.
After a restart `Reconcile` builds supervisors from the rows alone. After each
commit the supervisor publishes the transition on the event bus; the requests
that wait for the end of a Task (`remove --force`, `attach`, `logs --follow`)
subscribe to it and look at the store, in an order of their own.

A Task begins with `defib start`: the client resolves the configuration once to
build its overrides and to warn, finds or starts a daemon, and sends
`task.create`; the daemon resolves the configuration again, inserts the row with
a snapshot of it and starts the supervisor. A daemon is found by dialling a
socket in a known place; whoever starts removes what lies there and whoever
ends removes it again. The output of an interactive attempt goes through a
broadcast to the log and to the clients attached; those who fall behind lose
chunks, the log loses none.

**What is hard.** The order of events in the channel is arbitrary and they carry
no identity; the state a client was checked against may be gone when its event
is handled; a handler changes timers, probers and processes before the
transaction that may fail; children are in process groups of their own and
survive a crash of the daemon; channel sends block when it is full; a shutdown
waits for goroutines that wait for children; the bus drops what a full buffer
cannot take, and a waiter that looks and subscribes in the wrong order, or whose
timer races the cancellation, misses something; a viewer attaches while output
is being written and the child ends; several processes share one path for the
socket and one for the pid file; a request is given up while its answer is under
way; the client and the daemon resolve the same configuration from different
places. `PROJECT.json` lists every hazard
with its line.

**What makes each part correct.**

* Supervisor and daemon: the lifecycle of `docs/architecture.md` is followed; the
  two tables agree; the task in memory is the committed one; one child at a
  time, reachable by `stop`; every wait has a wake-up ahead and every running
  attempt an exit; outcomes go to the right row; attempts are bounded; waits and
  shutdowns end.
* Wake timers: at most one arm per Task, a fire belongs to the arm that was
  current, no goroutine is left behind.
* Schedule: the wake time is never past the deadline and never before a known
  reset; caps compare what they say; a provider that is back is noticed.
* Bus, attach, remove, follow: no waiter misses the terminal event; only a Task
  that is over is deleted; a follower sends every line.
* Interactive attach: a viewer sees a suffix of the tail followed by what its
  buffer could take, in order and once; nobody holds up the child; the log is
  whole when the exit is handled.
* Configuration and creation: a Task that was accepted has an owner and runs with
  the configuration it was accepted with; it runs unattended only as its user said.
* Detection: the matching rule of the highest priority decides.
* IPC: each request has its own answer, never two, and connections end.
* Daemon process: at most one daemon serves, and it can be found.

## 2. Modules

```
WakeTimer          abstract wake timer of one Task
  ^  implemented by            ^  instantiated by
Timers  <- MCTimers         Supervisor  <- MCSupervisor
  ^                            |   implements      ^
TimersProofs                TaskLifecycle      SupervisorProofs

Detection <- Config <- Creation <- MCCreation, CreationProofs
Interactive <- MCInteractive, InteractiveProofs      Ipc <- MCIpc, IpcProofs
Waiters  <- MCWaiters, WaitersProofs
Schedule <- MCSchedule, ScheduleProofs
Instance <- MCInstance, InstanceProofs
```

* **`WakeTimer`** – what `scheduler.Timers` promises one Task: `ArmTimer`,
  `CancelTimer`, `ClaimTimer` (the race with Cancel is won), `DeliverFire`.
* **`Timers`** – `timer.go` step by step: each critical section under `t.mu` is
  one action, the goroutine's `select` has one action per branch, the runtime
  timer expires by itself, and the identity check (`IsCurrent`) is a step of its
  own. An arm is named by its goroutine.
* **`TaskLifecycle`** – the states and transitions of a Task as a client sees
  them through the store: the table of `docs/architecture.md`, and
  `CannotStart`, which the code adds to it.
* **`Supervisor`** – one Task with everything that acts on it. It instantiates
  `WakeTimer` for its timer and implements `TaskLifecycle`. Tasks share the timer
  map and the database but no lifecycle state, so one Task is enough.
* **`Waiters`** – the event bus and the three requests that wait for the end of a
  Task. The Task itself is reduced to what they can see of it: it moves, ends or
  is stopped, each a commit followed by a publication.
* **`Schedule`** – when a Task is tried again, with a clock that counts and
  durations that wrap: the backoff, the jitter, the caps, the deadline as each
  daemon builds it and the probe's backing off. It is `Supervisor` with one event
  at a time and exact time.
* **`Interactive`** – one attempt on a pseudo-terminal, its capture, broadcast and
  log, and the clients attached to it.
* **`Detection`**, **`Config`** – the classification of an attempt and the layers
  of the configuration, as functions. Sorting and filtering are written as orders
  of places (`InOrder`), not with a recursive helper, so that theorems can be
  about them.
* **`Creation`** – from `defib start` to a supervised Task, with a daemon that may
  end anywhere and `config set` beside it. It EXTENDS `Config`, which EXTENDS
  `Detection`, and checks them on every configuration it meets.
* **`Ipc`** – one connection between a client and the daemon.
* **`Instance`** – daemon processes, their socket and pid file, and the commands
  that start and stop them.
* **`MC*`** – instances for TLC (with symmetry in `MCTimers` and `MCSupervisor`
  where no liveness depends on it); `MCSchedule` and `MCCreation` define the
  policies and configurations.
* **`*Proofs`** – theorems.

Interfaces between the modules: what `Supervisor` leaves open of time and caps
(`due`, `OtherCaps`) is exact in `Schedule`; what it takes for one call, a request
that is posted, is `Ipc`; that one daemon runs, which `Supervisor` and `Creation`
assume, is the subject of `Instance`.

### Supervisor: state

| Variable | Code |
|---|---|
| `row`, `attempts` | the `tasks` row (status, total_attempts, whether next_wake_at is set, number of waits in cumulative_wait_ms) and the `attempts` rows, each "open" or its outcome |
| `procs` | every child ever spawned: attempt number and `alive`, `killed` (signal sent), `exited`, `cleared` (`setProc(nil)` done, exit not yet posted), `gone`; `orphan` once its daemon has died |
| `due` | the wall clock against next_wake_at: `early`, `ripe` (the timer, on the monotonic clock, may expire but the wall clock says it is too soon), `due` |
| `daemon` | `up`, `stopping` (shutdown requested, `Serve` not yet returned), `closing` (root context cancelled), `down` |
| `pc` | the supervisor goroutine: waiting for an event, between Spawn and its transaction, between Kill and its transaction, returned with an error, or no runtime |
| `task`, `cur`, `waitingSince`, `prober`, `events` | the fields of `supervisor.Supervisor` |
| `handle` | `taskRuntime.proc`/`pty` |
| `timer`, `firing` | the Task's wake timer (see `WakeTimer`) |
| `probes` | prober goroutines |
| `req` | the action each client's request has been accepted for but not posted |
| `used` | how much of each bound has been used, and how many resumes were accepted |

### Supervisor: actions

| Action | Code |
|---|---|
| `Accept`, `PostUser` | `handleAction`: the check against the store, then `postEvent` |
| `Take`, `Ignore` | `Run` receives, `Handle` decides from status, event (and, for `timer_fire`, the clock) |
| `Spawn`, `CommitSpawn`, `CommitSpawnFails`, `SpawnFails` | `wake`/`spawnAttempt`, split where a crash, or another goroutine, can see the child without its row |
| `Finish`, `Schedule`, `RecordPausedExit`, `ExitFails` | `attemptExit`, `finish`, `recordPausedExit` and a failing transaction |
| `Pause`, `StopKill`, `CommitStop` | `pause`, `stop` |
| `RunReturns` | `Run` returns and the runtime is deleted |
| `ChildExit`, `Reap`, `PostExit` | the child, and the goroutine `spawn` starts to wait for it |
| `Tick`, `StepBack`, `TimerExpires`, `PostTimerFire` | the clock, `onTimerFire` |
| `ProbeSucceeds`, `PostAvailability`, `ProberEnds` | the prober's two selects |
| `Shutdown`, `BeginClose`, `CloseReturns`, `Crash`, `Restart` | `runDaemon`, `Close`, `Reconcile` of the Task |

A transaction writes both tables or neither, so it is one step. When it fails
the handler returns an error and `Run` ends; what the handler had done to
timers, probers and children by then stays done, as in the code.

### Waiters: state and actions

| Variable | Code |
|---|---|
| `status`, `unpublished` | the Task's row, and the event between `persist`'s commit and `Notify` |
| `stopPosted` | the `user_stop` that `remove --force` has posted |
| `child`, `written` | the followed attempt's child and the lines in its log |
| `subs`, `chan` | `bus.subs` and the subscribers' channels |
| `lost` | history: whose buffer was full when an end was published |
| `pc` | where each client's request is |
| `sel` | the selector an attacher typed |
| `read`, `cancelled` | what a follower has sent, and its `followCtx` |

| Action | Code |
|---|---|
| `Move`, `End`, `StopTask`, `Notify` | `persist`: commit, then `notifyFunc` |
| `NotifyOther` | the transitions of other Tasks |
| `WriteLine`, `ChildExit` | the child and its capture |
| `ResolveForRemove`, `PostStop`, `SubscribeToWait`, `CheckForRemove`, `WaitTerminal`, `Delete` | `handleRemove` with `waitTerminal` |
| `GetForAttach`, `SubscribeToEvents`, `StreamEvent` | `runAttach` with `handleSubscribe` |
| `ResolveForFollow`, `SubscribeToWait`, `CheckForFollow`, `Watch`, `ReadLog`, `WakeUp`, `EndFollow` | `handleLogs`, `followLogs` (its watching goroutine is `Watch`) and `process.follower` |

### Schedule: state and actions

| Variable | Code |
|---|---|
| `policy` | the retry section of the snapshot in `tasks.config_json` |
| `deadline` | `scheduler.Policy.Deadline`, built by `buildPolicy` when a runtime starts |
| `status`, `n`, `cum`, `wake` | the row: status, total_attempts, cumulative_wait_ms, next_wake_at |
| `since` | `waitingSince` |
| `probeAt`, `failures`, `nextAllowed` | the prober's timer and `probeRunner` |
| `probing` | the probes that run: the current prober's, and those of stopped probers that have not returned |
| `freeSince` | since when the provider has been available |
| `promised`, `waited`, `late`, `crashes` | history |

| Action | Code |
|---|---|
| `Exit` (`Retry`) | `attemptExit` with a retryable outcome: `NextWake`, `ExceededCap`, wait or fail |
| `Fire`, `Resume` | `wake` and `spawnAttempt` |
| `Pause`, `Finish` | `pause`; the ends of a Task |
| `Poll` | the prober's timer: `probe` backs off, or begins to run the command |
| `ProbeFinds`, `ProbeFails` | a probe returns after up to `ProbeTimeout`: available, and `wake` if a wait takes it; unavailable, or not to be run |
| `Tick`, `Crash`, `Restart` | time; a daemon ends and `Reconcile` takes the row over |

### Interactive: state and actions

| Variable | Code |
|---|---|
| `child`, `written`, `input` | the child, what it has written, and the terminal's input |
| `pty`, `capture`, `read` | `rt.pty`/`rt.bcast`; how far `PTYProc.capture` is |
| `tail`, `closed`, `subs`, `chan` | `ptyBroadcast` |
| `log`, `held` | the log file and `redactWriter.buf` |
| `exit` | the posted `attempt_exit` with the log as detection reads it |
| `handler`, `replay` | the `task.attach` handler of each viewer |
| `conn`, `open`, `view`, `pump`, `shown` | the viewer's stream, its place in `runInteractiveAttach`, its input pump, what it has rendered |

| Action | Code |
|---|---|
| `Spawn`, `CommitStart`, `HandleExit` | the supervisor and `spawnPTY` |
| `Broadcast`, `Persist`, `PersistFails`, `Drained`, `CloseBroadcast`, `CloseLog` | `capture`, `ptyBroadcast.Write`/`Close`, `redactWriter`, `teeWriteCloser` |
| `Reap`, `PostExit` | `cmd.Wait` after the capture; the goroutine that waits for the child |
| `Look`, `Subscribe`, `SendTail`, `SendChunk`, `EndStream` | `handleAttach` |
| `Poll`, `Attach`, `Receive`, `Detach` | the attaching client |
| `Type`, `InputWritten`, `InputRefused` | the input pump, `handleInput`, `WriteInput` |

### Creation, Ipc, Instance

| Module | State | Actions |
|---|---|---|
| `Creation` | the files and environments (`world`, `global`), where the daemon stands (`daemonDir`), each client's command line and its place in `start` or in `handleCreate` (`at`), what was resolved (`plan`), the rows and the runtimes (`tasks`, `runtimes`: functions of the ids that have one), posted starts | `Build`, `Warn`, `Connect`, `SpawnDaemon` (`cli/start.go`, `client.go`); `HandleResolve`, `CheckName`, `CreateTask`, `StartRuntime` (`handleCreate`); `Reconcile` within `RunDaemon`; `Set*` (`config set`: check, read, truncate, write, rename); `Crash` anywhere |
| `Ipc` | both ends of the connection, requests and responses in the socket, `serveConn`, the handler's senders, the client's call | `Send`, `Receive`, `Abort`, `ReadFails` (`Call`, `Stream`); `Scan*`, `Dispatch`, `Invoke` (and `InvokeReturns`, that of a handler nothing blocks), `Respond` (`serveConn`, `handleRequest`, `invoke`); `TakeEvent`, `SendChunk`, `SendFails` (handlers); `CancelOn*`, `CloseOnCancel` (the end of the daemon) |
| `Instance` | the paths `daemon.sock`, `daemon.pid`, `daemon.pid.tmp`, how far each process is | `Dial`, `Refused`, `PingFails` (guard); `WriteTmp`, `RenamePid`; `Reconcile`; `LookAtPath`, `RemoveStale`, `Bind`, `Chmod`, `CloseUnsafe` (`ipc.Listen`); `StopServing`, `RemoveSocket`, `CloseReturns`, `RemovePid`; `Connect`, `SpawnDaemon`, `WaitDial`; `AskToStop`, `WaitGone`; `Signalled`, `StartFails`, `Crash` |

### Abstractions

* Time is only `due` and the fact that a wait has begun: cumulative_wait_ms is
  the number of waits it accounts for. Whether a deadline or a total wait is
  exceeded is left open (`OtherCaps`).
* Any outcome in `Outcomes` may come out of an attempt. `RATE_LIMIT` stands for
  the retryable outcomes other than quota, which the supervisor does not tell
  apart.
* The events of the model carry the child or the wait they were made for, to
  state properties; no guard of the model reads it, as the code's events carry
  nothing.
* Looking up the runtime and sending to its channel are one step of `Post`. When
  a runtime is deleted its channel is emptied and `task` follows the row: nobody
  reads either any more.
* Interactive attempts use the PTY but the same runtime protocol. `remove
  --force` stops the Task like `stop` does.
* `StepBack` lets the clock be set back during any wait, though only a wake time
  without a monotonic reading (a parsed reset time, a row read from the store)
  is exposed.
* A transaction may still commit after `Close` has cancelled the context: it
  linearises before the cancellation.
* Errors that configuration alone decides (a policy that cannot be parsed) are
  left out, except that `Restart` may leave a Task without a supervisor.
* `Waiters` has one Task, one attempt whose log is followed, and one file of it
  (stdout and stderr are followed alike). Opening the log is part of
  `CheckForFollow`. A client that goes away, a daemon that ends and a supervisor
  that has died of a fault are not in it: the first two end a request from
  outside, the third is `Supervisor`'s subject. The logs stream that `attach`
  opens besides its events is a follower of its own; attach cuts it off when its
  event stream ends.
* `Schedule`: jitter is a number of quarters and any delay between the two ends
  may be drawn; durations wrap at `MaxDur` as an int64 does. Timers are punctual:
  that one may be late only delays an attempt, and `Supervisor` has late and
  reordered events. The attempt takes any time. The clock counts parts of a
  millisecond, `Milli` of them, as `cumulative_wait_ms` counts whole ones. A probe
  takes up to `ProbeTimeout`, and reads and writes its `probeRunner` in one step.
* `Interactive`: output is numbered by chunks, a chunk being what one `Write` is
  given; the tail is bounded in chunks, the code's in bytes. A chunk in `Partial`
  does not end a line. Window sizes and escape sequences are left out.
* `Detection`: a regular expression is the word it looks for; a time is a number, a
  time of day a number modulo `Day`, a duration a negative number.
* `Config`: one key of each sort (a provider's scalar, three typed scalars, the
  rules); a document is the function of the keys it sets.
* `Creation` reduces the supervisor to the statuses that recovery and the name
  check read, and takes `Instance`'s promise for granted. The clients stand in one
  directory, and so does a daemon that one of them has started; the service
  manager's stands elsewhere, where the same relative `--cwd` leads through
  directories of its own (`away`). Provider names a
  user adds by hand are in; the other sections of a provider are not.
* `Ipc`: a request is the number the client gives it, and its kind. Requests are
  well-formed JSON, as every client of the repository sends. The socket holds
  `SockCap` responses. A "wait" stands for `remove --force`, whose handler waits for
  an event, and an "input" for `task.input`, whose handler writes to a terminal.
* `Instance`: a listener closes by removing its path first, as Go's does. The
  database is not locked by a daemon, so it does not keep a second one out.

## 3. What is checked

All runs take less than three minutes each with two workers. `CHECK_DEADLOCK` is
off where everything may come to its end: a finished Task, answered requests,
ended processes, a clock at its bound.

| Run | Instance | Shows |
|---|---|---|
| `timers` | 2 tasks, 3 goroutines, two of which can serve the same task while the third serves the other | `ArmIsLive`, `EveryWaitEnds`; each task sees a `WakeTimer` (refinement) |
| `lifecycle` | 2 clients, all actions, 2 accepted requests, 3 attempts, 1 crash, 1 failing call, 1 clock step, channel of 3 | `RowsAgree`, `MemoryIsStore`, `AwaitedIsComing` (the start, the wake-up, the exit or the probe a Task lives on is on its way), `AttemptsAreBounded`, `WaitIsAccountedByOneDaemon`; the lifecycle is implemented (refinement) |
| `no_pause` | 2 clients that resume and stop, all outcomes, `on_unknown = fail`, `on_interrupt = resume_now`, other caps, channel of 3, 1 crash, 1 shutdown, 1 fault, 1 clock step | without pauses `ChildIsInReach` (one child, and the runtime holds it; `stop` kills it) and `OutcomeClosesItsAttempt` (outcomes are final and go to the right row, also when a crash interrupts an attempt) |
| `progress` | 1 client, all actions, channel of 1, 1 crash, 1 shutdown | an accepted stop stops, a Task ends or stays paused (so every wait ends), a shutdown completes |
| `waiters` | 1 remover, 1 attacher (by id or by prefix), 1 follower, 2 transitions, 1 event of another Task, 1 line, buffer of 2 | `NoMissedEnd`, `OnlyEndedIsDeleted`, `EveryWaiterReturns` |
| `schedule` | 5 policies (long backoff with a probe; total wait with full jitter; absolute deadline with and without `resume_now`; relative deadline with a total wait), 4 attempts, 9 instants, 2 to a millisecond, probes of up to 1, 2 crashes | `WakeInsideDeadline`, `ResetIsAwaited`, `LateAttemptsAreBounded`, `TotalWaitIsCapped`, `AvailabilityIsNoticed` |
| `interactive` | 2 viewers, one of which may stop reading, 3 chunks, the last without an end of line, tail of 2, buffers of 1, 1 keystroke, 1 failing write | `RenderedIsTheOutput` (in order, once, to the end), `ExitSeesWholeLog`, `AttemptEnds`, `BothEndsReturn` |
| `ipc` | 3 requests of 9 kinds, 2 senders with 2 chunks each, 2 responses in the socket | `OneTerminalResponse`, `EachCallItsAnswer`, `CallReturns`, `ShutdownEndsConnections` |
| `creation` | 2 clients, 6 command lines, one with a relative `--cwd`, 12 layerings, odd and unreadable values, project files that differ where client and daemon stand, every sequence of at most two of four user rules, 1 `config set`, 1 end of the daemon | `AcceptedIsOwned`, `RunsAsAccepted`, `ClassifiesAsDocumented`, `UnattendedIsWanted`, `NamesAreUnique`, `SettingsAreKept` |
| `instances` | 3 daemon processes, 1 command that starts one, 1 that stops one, 1 crash or signal | `ReachableIsAlone`, `FilesLeadToTheDaemon`, `StartFindsADaemon`, `StopSeesItGone` |

A property that is a conjunction (`AwaitedIsComing`, `ChildIsInReach`,
`OutcomeClosesItsAttempt`, `EveryWaiterReturns`, `RenderedIsTheOutput`,
`BothEndsReturn`, `EachCallItsAnswer`, `RunsAsAccepted`,
`ClassifiesAsDocumented`, `UnattendedIsWanted`) has its parts by name beside it;
the type invariants of `Interactive`, `Ipc` and `Creation` are among them, those of
the other modules are proved.

The bounds are the smallest at which the cases meet: two accepted requests allow
pause followed by resume, or two clients racing; three attempts allow two waits of
the same daemon, so that a timer, a prober or a fire of an earlier wait can meet a
later one; one crash allows every order of crash against Spawn, commit, Kill and
the posts; one slot in the channel makes every poster block. The code's channel
has room for 16 events; a channel that never fills behaves like a larger one. In
`Waiters` waiters share nothing but the Task, so one of each kind meets every
order; a buffer of two slots (the code has 64) overflows with three events. In
`Schedule` nine instants hold a deadline at 4, a wait before and one after it, a
crash in each, and a relative deadline that moves; two crashes move it twice. With
two readings of the clock to a millisecond every other wait loses one, and a wait
of a single reading counts for nothing; a wait of nine is longer than the longest
backing off, a poll and two probes, the one that has just missed the provider's
return and the one that finds it. In `Interactive` three chunks overflow a tail of
two and any buffer of one while a third viewer would add nothing: viewers share
only the broadcast. In `Ipc` a third request meets what a first and an aborted
second have left. In `Creation` two creates race for a name, and each
configuration differs from the default in the one or two layers that can disagree.
In `Instance` three processes are one that ends, one that starts beside it and one
that is refused. Clients are interchangeable and appear in no temporal property of
the runs that use the symmetry.

**Fairness.** In `Supervisor`, `Fairness` says that goroutines that can proceed do
(one weak fairness condition for each goroutine of the code: Go schedules runnable
goroutines), that time passes and timers expire, that a SIGKILLed process dies,
and that a daemon that is down is started again (by the service manager, or by the
next client, which starts it on demand). Failing calls, clock steps, crashes,
shutdowns and clients' requests get none. `ChildrenExit` is an assumption on the
supervised tool, not on this code: `progress` needs it because an attempt has no
time limit. In `Waiters` each handler's goroutines are scheduled and the Task ends
in the end: a child exits, a posted stop is handled. A sleeping follower has two
ready cases once its context is cancelled, and `select` picks among ready cases at
random, so that branch gets strong fairness. In `Interactive` the daemon's
goroutines are scheduled, the child writes what it has and exits when its terminal
lets it, and viewers read; one in `Idle` need not, nobody need type, detach or
read input. In `Ipc` the goroutines are scheduled and the client reads, unless it
is stalled in its callback; nothing makes a stream's events come, a call be made
or given up. A handler returns in the end only if it waits for nobody: the
fairness is that of `InvokeReturns`, which leaves out one that waits for an event
while the daemon runs (`waitTerminal`) and one in a write to a terminal at any
time (`WriteInput`, which does not look at the context). In `Instance` processes
are scheduled; `Close` need never return, as it waits for children, and no
time-out need fire.

**Mutants.** Every property of a passing run has a mutant, and every conjunction
several, an operator next to the definition it mutates that changes it the way a
plausible bug would: the identity check of a timer dropped, a cancel channel not
closed, the memory not replaced after a commit, a send that drops instead of
waiting, a restart that forgets the timer, an off-by-one in a cap, a replay sent
late, a panic recovered without an error, a snapshot resolved anew, a refusal
that only prints. TLC finds the property violated.

### Findings

Two runs state something the documentation or a comment says and TLC refutes it:

1. **`stop_after_paused_resume`** – `pause` lets the running child finish, but
   `resume` does not look whether it has: it starts a second child beside it and
   overwrites the runtime's only handle. A later `stop` kills one of the two and
   marks the Task STOPPED. (`docs/cli.md:105`)
2. **`unattended_flag_lost`** – `start --unattended=false` without `--provider`
   is turned into an override of the provider that the client takes for the
   default one; it does not read the project file for that, the daemon does. When
   that file sets another default provider and its `unattended`, the flag
   overrides the wrong provider and the Task runs unattended.
   (`cli/start.go:229-230`)

### Known limits

The models show more limits of the code. Each can be seen with a configuration
that is kept here, named in parentheses, or by changing one line of one.

* *The child of an interrupted attempt* (`MCInterruptedChildIsGone.cfg`). A child
  survives a crash of the daemon, and a shutdown too; recovery takes it for gone
  (`docs/architecture.md:435`) and schedules the next attempt in the same directory.
* *A wait that a restart interrupts* (`MCWaitAfterRestart.cfg`). `waitingSince` is
  neither persisted nor derived from the row, so a wait during which the daemon
  restarts is not counted towards `max_total_wait` (`docs/configuration.md:51`).
* *Attach that never returns* (`MCAttach.cfg`). `attach` looks at the Task's state
  first and subscribes afterwards (`cli/attach.go:35-37`), so an end in between is
  missed and the event stream never ends (`docs/cli.md:56`); `waitTerminal` and
  `followLogs` do it the other way round, and `NoMissedEnd` holds for them.
* *The last lines of a log* (`MCFollow.cfg`). A follower asleep at the end of the
  file when the Task ends is cancelled without another read: the lines written
  since its last one are never sent (`docs/cli.md:56-58`).
* *A log that cannot be written* (`MCStalledChild.cfg`). After a failed write the
  capture of a terminal returns, nothing drains it and the child blocks for ever,
  which the comments at `process/process.go:150` and `:163` rule out.
* *A client that disconnects* (`MCDisconnect.cfg`). Its handler notices when it next
  sends (`docs/architecture.md:315`, `methods.go:450`): one that waits for an event
  stays until there is one.
* *Two daemons* (`MCOneDaemon.cfg`). Two processes pass the guard together before
  either has bound the socket, or one starts while another, its socket gone, still
  waits for its children in `Close`: both run the Tasks of the database.
  `ReachableIsAlone` says that there is no third way. The one that ends removes the
  socket or the pid file of its successor.
* *The deadline moves* (`DeadlineIsFixed` as an invariant of `MCSchedule.cfg`). A
  relative deadline is measured from the moment a runtime builds its policy
  (`daemon/policy.go:40-44`), so each restart moves it, while
  `docs/architecture.md:245` has one `deadline_at`. An absolute one is kept, up to
  the attempts `LateAttemptsAreBounded` allows.
* *Sums that wrap* (`ResetDelays` up to 40 in `MCSchedule.cfg`). `cum + proposed` in
  `caps.go:44` wraps for a reset time centuries away, and the cap is not seen. The
  jitter is applied after `backoff_max`, so a delay may exceed it by the jitter.
* *Waits that are not counted.* A wait is added in whole milliseconds
  (`supervisor.go:284`, `:390`), so each loses a fraction of one, and one that a
  user's resume or pause ends within a millisecond counts for nothing. The time
  really spent waiting may exceed `max_total_wait` (`docs/configuration.md:51`) by
  these fractions; `TotalWaitIsCapped` grants them, and without
  `(n - 1) * (Milli - 1)` it fails.
* *A probe that outlives its prober.* `stopProber` does not end a probe that runs,
  and the next wait starts another prober on the same `probeRunner`, although
  `daemon/probe.go:50-52` says that one goroutine uses it and it needs no locking.
  The model has both probes, but takes each one's accesses to `failures` and
  `nextAllowed` as one step; what a data race may do beyond that is not modelled.
  * *Handlers that never return.* `remove --force` waits for the end of the Task
  for as long as the daemon runs, and `task.input` for the child to read, which
  even the end of the daemon does not interrupt. `CallReturns` and
  `ShutdownEndsConnections` except them.
* *Input to a child that does not read.* `task.input` blocks when the terminal's
  input is full, and with it the client's pump, which is also what reads the detach
  key: the viewer gets out with the end of the child. Input typed after the child's
  end cancels the attach, and output not yet rendered is lost.
* *Names.* Creates that overlap between `checkNameUnique` and the insert may take
  the same name (`docs/cli.md:41`); the name of an ended Task may be taken again,
  and the selector is then ambiguous.
* *A relative `--cwd`* (`MCRelativeCwd.cfg`). `start` sends it as it was given
  (`cli/start.go:65-79`) and each side makes it absolute in its own directory
  (`config/layer.go:116`), so the client does not resolve "the same config layers
  the daemon will" (`cli/start.go:239`): when a daemon that the service manager
  started finds another project file, the Task may run unattended without a
  warning. `UnattendedIsWanted` is about sides that have read the same one.
* *The daemon's environment.* A daemon started on demand inherits the environment
  of the command that started it, and `--config` only concerns the client: the
  warning of `start` is about another configuration then (`UnattendedIsWanted`
  excepts that).
* *`config set`.* Two at once share a temporary file and lose updates; the value
  is not validated, and one that `Validate` refuses makes later creates fail.
* *A create cut off.* When the daemon ends after the insert the client shows an
  error though the Task exists and will run.
* *The exit of another child.* `user_pause` in `MCNoPause.cfg`:
  `ExitClosesItsAttempt` fails. In the situation of finding 1 the exit of the
  first child is recorded as the outcome of the second attempt, because
  `attempt_exit` does not say which attempt it is about.
* *Attach by prefix.* `sel[c] # "prefix"` in `SubscribedAttachReturns` is
  needed: a subscription compares events with the selector as typed, so one made
  with an id prefix, which every other command accepts, matches nothing.
* *A waiter that falls behind.* `c \in lost` in the properties of `Waiters` is
  needed: a subscriber whose buffer is full when the end is published does not
  get it, and nothing looks at the store again.
* *A clock that is set back.* `used.step = 0` in `WakeUpPending` is needed: a
  `timer_fire` that comes before next_wake_at is dropped and nothing is armed in
  its place.
* *Shutdown waits for children.* `SPECIFICATION FairSpec` in `MCLiveness.cfg`:
  `ShutdownCompletes` fails. `Close` waits until the last child has exited by
  itself, although `daemon.shutdown` is documented to detach children.
* *Probes after a restart.* `QuotaWaitIsProbed` without `NotRestarted` fails:
  recovery re-arms the timer of a quota wait but does not start its prober.
* *Interruptions after a pause.* `user_pause` in `MCNoPause.cfg`:
  `InterruptionClosesItsAttempt` fails too. Recovery closes the first open row,
  which then is not the interrupted attempt's. * *Caps and recovery.* The bound of
  `AttemptsAreBounded` is reached: accepted resumes and recoveries are not subject
  to caps, each adds one attempt. Pauses and stops add none.
* *Late probes.* A probe that succeeds after its wait was cut short may wake the
  next wait, because `availability_ok` does not say which wait it is about.
* *A failed call.* When a transaction or a spawn fails the supervisor ends, and
  a Task that is not terminal has no owner until the next restart; requests on
  it are accepted and dropped. `progress` therefore has no failing calls.
* *FAILED without an attempt.* `CannotStart` is not in the documented table.

## 4. What is proved

Every safety property of the passing runs is a theorem, for every value of the
constants that satisfies `TimersAssumption`, `SupervisorAssumption`,
`WaitersAssumption`, `ScheduleAssumption`, `InstanceAssumption`,
`InteractiveAssumption`, `IpcAssumption`, or `DetectionAssumption`,
`ConfigAssumption`, `CreationAssumption` and `RulesAssumption`; TLC evaluates those
assumptions in the runs. They type the constants (an arm's name differs from "no
arm"; a channel has at least one slot; policies and bounds have their types; there
are finitely many clients; an attempt's exit code and a reset time are numbers).
`RulesAssumption` says of the data what Go's types and the literals of
`internal/provider` say: rules have their fields, and a provider's built-in rules
have known categories and names of their own. The user's rules may be any.

* **`TimersProofs`** – `ArmIsLiveAlways` and `TimersImplementWakeTimer`. The
  inductive invariant is `TypeOK /\ ArmIsLive`. `ArmIsLive` is what makes the
  refinement go through: the arm that a goroutine claims is its own task's, so
  the step is `ClaimTimer` of that task and a stutter of the others.
* **`SupervisorProofs`** – `TypeCorrect`, `RowsAlwaysAgree`,
  `MemoryIsAlwaysStore`, `SupervisorImplementsLifecycle`. `RowsAgree` is not
  inductive: `CommitSpawn` and `CommitStop` write what the supervisor decided in
  an earlier step, so the proof needs to know that the task in memory is, up to
  its accounting, still the row, what statuses each intermediate `pc` can have,
  and that `currentAttempt` is the last attempt or none. That is
  `GoroutineInv`, and `IInv == TypeOK /\ RowsAgree /\ GoroutineInv`. One lemma
  per group of actions shows that `IInv` is preserved; the refinement maps each
  action to a step of `TaskLifecycle` or a stutter under `IInv`.
* **`SupervisorProofs`, what a Task lives on** – `AwaitedIsAlwaysComing` and
  `EveryWaitIsAccounted`, from `LiveInv`. A pending Task has its start
  ahead because only the start and a stop move it, nobody drops what is in the
  channel while the supervisor runs, and `Reconcile` posts it again
  (`StartAlwaysPending`). That a wait has its timer, or a fire of it
  on the way that will not be dropped as early, needs that no timer or fire of an
  earlier wait is left that could pass for this one's (`WakeInv`); that a running
  attempt has its exit ahead needs that its child is seen to be coming from the
  spawn on, before the commit that makes the Task RUNNING (`SpawnedInv`); that a
  quota wait is probed needs that no prober outlives its wait (`ProbeInv`); that a
  wait is counted once needs `waitingSince` and the accounting of the uncommitted
  task to be known in between (`AccountInv`). A daemon that is down leaves
  nothing in memory (`DownInv`).
* **`SupervisorProofs`, the number of attempts** – `AttemptsAreAlwaysBounded`, from
  `BoundInv`: every resume still in a channel, every status from which an attempt
  can begin and every end of a daemon that leaves one to be repeated is counted
  beside the attempts already made (`Pending`, `Claims`); a pause or a stop is not.
  The bound itself is not
  inductive, as an attempt begins several steps after what entitles it to.
* **`SupervisorProofs`, one child** – `ChildIsAlwaysInReach` and
  `OutcomesCloseTheirAttempts`, of any configuration in which nobody pauses
  (`NobodyPauses`; with pauses both fail: finding 1 and *The exit of another
  child* above). `ReachInv` says that only the last child can be running or have
  its exit on its way, that it is the child of the attempt the supervisor waits for,
  that the channel holds at most one exit, and that an attempt is open only while
  its Task runs or has been stopped. No event says which attempt it is about; this
  is why that does no harm.
* **`WaitersProofs`** – `NoEndIsMissed` and `OnlyTheEndedIsDeleted`, for any
  number of waiters and any buffer. Neither is inductive: that a waiter still has
  the end ahead needs it to be subscribed from before its look at the store
  (`Subscribed`), and that only an ended Task is deleted needs every announced
  end to be true (`EndIsTrue`) and to stay so until the row is deleted
  (`DeletesEnded`). Their conjunction with `TypeOK` is `IInv`; the steps fall
  into four kinds by what they do to the channels (`PublishSteps`, `QuietSteps`,
  `EmptyingSteps`, `ReceivingSteps`), each a lemma.
* **`ScheduleProofs`** – `WakeAlwaysInsideDeadline`, `LateAttemptsAreAlwaysBounded`
  and `ResetIsAlwaysAwaited`, for every policy, any lengths and any number of
  crashes. `IInv` adds to them that the daemon's deadline is the Task's
  (`DeadlineKnown`), that a wait also ends before the deadline a later daemon will
  build (`WakeBeforeNext`, which a restart needs), that an attempt owed after the
  deadline is paid for by a crash (`LateIsPaid`), and how long a wait with a named
  end is (`PromiseKept`). How long a backoff is plays no part in these.
* **`ScheduleProofs`, waiting** – `AvailabilityIsAlwaysNoticed` and, of any
  policies whose sums of durations fit an int64 (`NothingOverflows`: the cap and a
  reset time with its buffer, or the cap and twice the longest backoff),
  `TotalWaitIsAlwaysCapped`. A sum that wraps would pass every cap, so the
  hypothesis is needed; durations are nanoseconds and the largest is 292 years.
  The cap holds because what the row has kept of the earlier waits and the
  proposed wait fit it together, and what it has lost is less than a millisecond
  for each (`WaitIsAccounted` with `Kept` and `Slack`; `Truncated` is the
  division). The prober's bound needs where it is while the provider is still
  unavailable, and that every probe that runs, a stopped prober's too, ends in
  time and leaves a backing off that began at most one probe after the provider's
  return (`ProberIsClose`, `Timely`). Both need that the backoffs, defined by
  recursion, are numbers. The library's induction theorems cannot be used for
  that, but `LeastNumber` can: a least exception is refuted, for the functions'
  existence (`IterationsExist`, `IterationsAgree`, `IterationIsDefined`) as for
  their values (`ScaledType`, `DoubledType`); `DelayBounds` and `BackoffBounds`
  follow.
* **`InstanceProofs`** – `TypeCorrect`, `ReachableIsAlwaysAlone` and
  `FilesAlwaysLeadToTheDaemon`, for any number of processes and commands. `IInv`
  adds what a daemon knows of the others when it has passed (`PastUnseen`,
  `PingUnseen`), and that what a daemon removes or replaces from then on is its own
  or an unseen one's (`FilesKept`).

* **`InteractiveProofs`** – `EveryViewerSeesTheOutput` and `ExitAlwaysSeesWholeLog`,
  for any number of viewers, any tail, buffers and amount of output. A chunk goes
  through the subscriber's buffer or the replayed tail, the connection and the
  screen; order must be known of all of them at once (`OrderInv`), and that nothing
  is missing at a normal end needs that, all along, what a viewer has not dropped is
  in one of them (`CoverInv`), which depends on where viewer and broadcast are
  (`PlaceInv`, `TailInv`). The log needs the place of the capture (`CaptureInv`).
* **`IpcProofs`** – `RequestsAreAnsweredOnce` (at most one terminal response,
  after the chunks; that there is one is the model-checked `CallReturns`) and
  `EachCallGetsItsAnswer`, for any senders and sequence of requests. Both rest on
  there being one request under way at a time, which nothing in the server
  enforces: the client does not ask again before the answer, and a call that ended
  without one leaves a connection of which an end is closed (`PlaceInv`). So what
  is in the socket belongs to the call that reads it (`DownInv`, `WireInv`), and
  one that found its terminal response has received all that came before it
  (`GotInv`).
* **`CreationProofs`** – `AcceptedTasksAreOwned`, `TasksRunAsAccepted`,
  `TasksAreClassifiedAsDocumented`, `UnattendedIsAlwaysWanted`,
  `NamesAreAlwaysUnique`, `SettingsAreAlwaysKept`, for any providers, rules,
  files, environments and command lines. `IInv` says that a row is the plan of its
  create and the plan what the layers its daemon has seen resolve to (`RowInv`,
  `ResolveInv`), which ties the runtime after any number of restarts to what was
  accepted (`SnapshotInv`), and the warning to the task when both sides have seen
  the same global file, project file and environment; that only a create between
  its insert and its runtime has a row nobody runs (`RuntimeInv`); that a name is
  claimed from its check on (`NamesInv`); that what `config set` has read is what
  the file still says when it is renamed (`FileInv`). The classification rests on
  lemmas about the operators alone: `InOrder` sorts (`InOrderSorts`,
  `ByPrioritySorts`), a merge keeps rules valid (`MergeKeepsRules`), sorting twice
  changes nothing (`SortedStaysSorted`: the engine sorts what `Merge` has sorted),
  the merged rules are the documented slots in order (`SlotsAreMerged`), so the
  first match is the slot that wins (`BestSlotDecides`); and the next clock time
  is ahead, at most a day, and at that time of day (`NextClockIsNext`).

**Only model-checked:** everything under fairness (the prover does not handle
`ENABLED`): `EveryWaitEnds`, `AcceptedStopStops`, `EveryTaskEnds`,
`ShutdownCompletes`, `EveryWaiterReturns`, `AttemptEnds`, `BothEndsReturn`,
`CallReturns`, `ShutdownEndsConnections`, `StartFindsADaemon`, `StopSeesItGone`.

## 5. What is not modelled, and the plan

Next, in this order:

1. The safety half of the liveness properties as theorems: that a step which is
   promised to be taken stays possible until it is (an accepted stop is not lost, a
   command of `start` keeps a daemon to find).
2. The capture of a headless child: two pipes, a limit on the output, `Kill` against
   `Wait`, a descendant that has left the process group and keeps a pipe open.
3. `Session`: how a session reference is adopted from the output and resumed.
4. The rows of `events`, the numbering of log files when an attempt number is used
   again after a failed commit.

Left out, with the reason:

* SQL, migrations, the single writer: a transaction is atomic, which is SQLite's
  promise and not this code's. * Rendering, tables, prompts, `list`, `get`,
  `daemon status`, `config get`: they read.
* Command lines and output formats of third-party tools, service files, redaction
  patterns, notification hooks, JSON and TOML: formatting that no Task state
  depends on.
* Parsing of durations, dates and regular expressions: the models start from what
  the parsers return.
* Ownership and permission checks of the socket: properties of the file system.
