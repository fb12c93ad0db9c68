------------------------------ MODULE Creation ------------------------------
(***************************************************************************)
(* From `defib start` to a supervised Task: the client builds its flags    *)
(* into overrides and warns of unattended mode (internal/cli/start.go),    *)
(* finds or starts a daemon, whose task.create resolves the configuration  *)
(* again, checks the name, inserts the row and starts the runtime          *)
(* (internal/daemon/methods.go, daemon.go); a daemon that starts restores  *)
(* the runtimes from the rows (reconcile.go).  `defib config set` rewrites *)
(* the global file meanwhile (internal/cli/config_cmd.go).                 *)
(*                                                                         *)
(* A client creates one Task, whose id is the client.  The supervisor is   *)
(* reduced to the statuses that recovery and the name check read; it is    *)
(* Supervisor.tla.  That at most one daemon runs is assumed, and that the  *)
(* clients stand in one directory; a daemon stands there too if a client   *)
(* started it, and elsewhere if the service manager did.                   *)
(***************************************************************************)
EXTENDS Config

CONSTANTS
  Clients,
  Worlds,         \* what the commands may meet and be: [global, other, dirs, away, env],
                  \* the files and environments, flags, the command lines of start, and
                  \* settings, the <<key, value>> pairs config set is called with
  ServiceEnv,     \* the environment of a daemon the service manager starts
  Registry,       \* the providers the daemon knows
  Interactive,    \* those that support interactive mode
  BuiltinRules,   \* their detection rules
  Inputs, Times,  \* attempts and instants the classification is judged on
  MaxSets,        \* bound of the calls of config set
  MaxCrashes      \* bound of the ends of the daemon

ASSUME CreationAssumption ==
  /\ IsFiniteSet(Clients) /\ Interactive \subseteq Registry
  /\ Registry = DOMAIN BuiltinRules /\ MaxSets \in Nat /\ MaxCrashes \in Nat
  /\ Inputs \subseteq Input /\ Times \subseteq Int

(* The built-in rules are well formed; the files have typed rules.         *)
ASSUME RulesAssumption ==
  /\ \A p \in Registry :
       /\ BuiltinRules[p] \in Seq(Rule) /\ EngineAccepts(BuiltinRules[p])
       /\ \A i, j \in DOMAIN BuiltinRules[p] :
            BuiltinRules[p][i].name = BuiltinRules[p][j].name => i = j
  /\ \A w \in Worlds :
       /\ RulesTyped(w.global) /\ RulesTyped(w.other)
       /\ \A dirs \in {w.dirs, w.away} :
            Len(dirs) \in Nat /\ \A d \in 1..Len(dirs) : RulesTyped(dirs[d])

VARIABLES
  world,          \* the project files, the --config file, the clients' environments
  global,         \* the daemon's config.toml
  tmp,            \* config.toml.tmp
  set,            \* config set: [at, key, value, draft]
  at,             \* how far each client's start has come
  flags,          \* its command line: [provider, mode, unattended, name, config,
                  \* relative, autostart], "" for a string flag that is not given;
                  \* relative when --cwd is a relative path
  overrides,      \* of its task.create
  warned,         \* it has printed the unattended warning
  plan,           \* what handleCreate has resolved for it: [cfg, provider, mode]
  up,             \* the daemon runs,
  daemonEnv,      \* with this environment,
  daemonDir,      \* in the clients' directory, "here", or in another, "away"
  tasks,          \* the tasks table, a function of the ids that have a row
  runtimes,       \* d.runtimes: [cfg, engine] for each id that has one
  posted,         \* Tasks with a start event in their supervisor's channel
  sets, crashes,  \* bounds
  \* History, read by properties only.
  clientSaw, daemonSaw,  \* the layers each side has resolved a create from
  overlapped             \* pairs of creates in handleCreate at once

files   == <<world, global, tmp, set, sets>>
client  == <<flags, overrides, warned>>
process == <<up, daemonEnv, daemonDir, crashes>>
daemon  == <<process, tasks, runtimes, posted>>
history == <<clientSaw, daemonSaw, overlapped>>
vars == <<files, at, client, plan, daemon, history>>

NoSet == [at |-> "idle", key |-> ProviderKey, value |-> "", draft |-> NoDoc]
Handling == {"sent", "resolved", "checked", "inserted"}
Terminal == {"SUCCEEDED"}

Init ==
  /\ \E w \in Worlds : world = w /\ global = w.global
  /\ tmp = NoDoc /\ set = NoSet /\ sets = 0
  /\ at = [c \in Clients |-> "start"]
  /\ flags = [c \in Clients |-> None]
  /\ overrides = [c \in Clients |-> <<>>]
  /\ warned = [c \in Clients |-> FALSE]
  /\ plan = [c \in Clients |-> None]
  /\ up = FALSE /\ daemonEnv = <<>> /\ daemonDir = "here" /\ crashes = 0
  /\ tasks = <<>> /\ runtimes = <<>> /\ posted = {} /\ overlapped = {}
  /\ clientSaw = [c \in Clients |-> None] /\ daemonSaw = [c \in Clients |-> None]

-----------------------------------------------------------------------------
(* The client.                                                             *)

(* The --cwd goes to both sides as it was given, and each side makes a     *)
(* relative one absolute in its own directory: the same path leads through *)
(* world.dirs here and through world.away from elsewhere.                  *)
ProjectIn(dirs) == FindProjectFile(dirs, Len(dirs))
Project(f, dir) ==
  ProjectIn(IF f.relative /\ dir = "away" THEN world.away ELSE world.dirs)
GlobalOf(f) == IF f.config = "other" THEN world.other ELSE global

(* resolveDefaultProvider: no project file is looked for.                  *)
ResolveDefaultProvider(c, f) == Resolve(GlobalOf(f), NoDoc, world.env[c], <<>>)

(* buildCreateParams: --unattended becomes an override of one provider.    *)
BuildCreateParams(c, f) ==
  LET default == ResolveDefaultProvider(c, f)
      name == IF f.provider # "" THEN f.provider ELSE default.cfg[ProviderKey]
  IN IF f.unattended = "" THEN [ok |-> TRUE, overrides |-> <<>>]
     ELSE [ok |-> f.provider # "" \/ default.ok,
           overrides |-> Only(UnattendedKey(name), f.unattended)]

Build(c) ==
  /\ at[c] = "start"
  /\ \E f \in world.flags :
       LET params == BuildCreateParams(c, f)
       IN /\ flags' = [flags EXCEPT ![c] = f]
          /\ overrides' = [overrides EXCEPT ![c] = params.overrides]
          /\ at' = [at EXCEPT ![c] = IF params.ok THEN "built" ELSE "failed"]
  /\ UNCHANGED <<files, warned, plan, daemon, history>>

(* unattendedEffective: the layers the daemon is expected to resolve.      *)
Unattended(cfg, name) ==
  UnattendedKey(name) \in DOMAIN cfg /\ cfg[UnattendedKey(name)] = "true"
\* mutant
UnattendedGlobally(c) ==
  LET r == Resolve(GlobalOf(flags[c]), NoDoc, world.env[c], overrides[c])
      name == IF flags[c].provider # "" THEN flags[c].provider ELSE r.cfg[ProviderKey]
  IN r.ok /\ Unattended(r.cfg, name)
UnattendedEffective(c) ==
  LET r == Resolve(GlobalOf(flags[c]), Project(flags[c], "here"), world.env[c], overrides[c])
      name == IF flags[c].provider # "" THEN flags[c].provider ELSE r.cfg[ProviderKey]
  IN r.ok /\ Unattended(r.cfg, name)

Warn(c) ==
  /\ at[c] = "built"
  /\ at' = [at EXCEPT ![c] = "warned"]
  /\ warned' = [warned EXCEPT ![c] = UnattendedEffective(c)]
  /\ clientSaw' = [clientSaw EXCEPT ![c] =
                    <<GlobalOf(flags[c]), Project(flags[c], "here"), world.env[c]>>]
  /\ UNCHANGED <<files, flags, overrides, plan, daemon, daemonSaw, overlapped>>

(* connect: dial, or start a daemon unless --no-autostart.                 *)
Connect(c) ==
  /\ at[c] = "warned" /\ up
  /\ at' = [at EXCEPT ![c] = "sent"]
  /\ UNCHANGED <<files, client, plan, daemon, history>>

ConnectFails(c) ==
  /\ at[c] = "warned" /\ ~up /\ ~flags[c].autostart
  /\ at' = [at EXCEPT ![c] = "failed"]
  /\ UNCHANGED <<files, client, plan, daemon, history>>

-----------------------------------------------------------------------------
(* The daemon's start and end.                                             *)

Active(t) == t \in DOMAIN tasks /\ tasks[t].status \notin Terminal

(* startRuntime: the engine comes from the provider's rules and the        *)
(* configuration's.                                                        *)
Rules(provider, cfg) == Merge(BuiltinRules[provider], cfg[RulesKey])
Runtime(task) ==
  [cfg |-> task.cfg, engine |-> NewEngine(Rules(task.provider, task.cfg))]

\* mutant
ResolvedAnew(task) == Resolve(global, ProjectIn(world.dirs), <<>>, <<>>).cfg
(* reconcileTask takes the configuration from the row's snapshot.          *)
SnapshotConfig(task) == task.cfg

Recovered(task) ==
  IF task.status = "RUNNING" THEN [task EXCEPT !.status = "WAITING"] ELSE task

\* mutant
ReconcileOnlyStarted ==
  /\ tasks' = [t \in DOMAIN tasks |-> Recovered(tasks[t])]
  /\ runtimes' = [t \in {u \in Clients : Active(u) /\ tasks[u].status # "PENDING"} |->
       Runtime(tasks[t])]
  /\ posted' = {}
(* Reconcile: every Task that has not ended is owned again; an interrupted *)
(* attempt waits, and a Task that was never started gets its start.        *)
Reconcile ==
  /\ tasks' = [t \in DOMAIN tasks |-> Recovered(tasks[t])]
  /\ runtimes' = [t \in {u \in Clients : Active(u)} |->
       Runtime([tasks[t] EXCEPT !.cfg = SnapshotConfig(tasks[t])])]
  /\ posted' = {t \in Clients : Active(t) /\ tasks[t].status = "PENDING"}

(* runDaemon: a configuration that does not resolve ends it at once.       *)
DaemonResolves(env) == Resolve(global, NoDoc, env, <<>>).ok

RunDaemon(env, dir) ==
  /\ ~up /\ DaemonResolves(env)
  /\ up' = TRUE /\ daemonEnv' = env /\ daemonDir' = dir
  /\ Reconcile
  /\ UNCHANGED <<files, at, client, plan, crashes, history>>

(* spawnDaemon: the daemon inherits the client's environment and directory.*)
SpawnDaemon(c) ==
  at[c] = "warned" /\ flags[c].autostart /\ RunDaemon(world.env[c], "here")

SpawnFails(c) ==
  /\ at[c] = "warned" /\ flags[c].autostart /\ ~up /\ ~DaemonResolves(world.env[c])
  /\ at' = [at EXCEPT ![c] = "failed"]
  /\ UNCHANGED <<files, client, plan, daemon, history>>

ServiceStarts == RunDaemon(ServiceEnv, "away")

(* The daemon ends at any step: its memory goes, and so do its calls.      *)
Crash ==
  /\ up /\ crashes < MaxCrashes
  /\ up' = FALSE /\ crashes' = crashes + 1
  /\ runtimes' = <<>> /\ posted' = {}
  /\ at' = [c \in Clients |-> IF at[c] \in Handling THEN "failed" ELSE at[c]]
  /\ UNCHANGED <<files, client, plan, daemonEnv, daemonDir, tasks, history>>

-----------------------------------------------------------------------------
(* handleCreate.  Every connection has a goroutine of its own, so the steps*)
(* of two calls interleave.                                                *)

Fail(c) ==
  /\ at' = [at EXCEPT ![c] = "failed"]
  /\ UNCHANGED <<plan, tasks, runtimes, posted, overlapped>>

(* registry.Get, and the mode the provider must support.                   *)
Supported(provider, mode) ==
  provider \in Registry /\ (mode = "interactive" => provider \in Interactive)

HandleResolve(c) ==
  LET project == Project(flags[c], daemonDir)
      r == Resolve(global, project, daemonEnv, overrides[c])
      provider == IF flags[c].provider # "" THEN flags[c].provider ELSE r.cfg[ProviderKey]
      mode == IF flags[c].mode # "" THEN flags[c].mode ELSE r.cfg[ModeKey]
  IN /\ up /\ at[c] = "sent"
     /\ IF r.ok /\ Validate(r.cfg) /\ Supported(provider, mode)
        THEN /\ plan' = [plan EXCEPT ![c] =
                          [cfg |-> r.cfg, provider |-> provider, mode |-> mode]]
             /\ at' = [at EXCEPT ![c] = "resolved"]
             /\ UNCHANGED <<tasks, runtimes, posted, overlapped>>
        ELSE Fail(c)
     /\ daemonSaw' = [daemonSaw EXCEPT ![c] = <<global, project, daemonEnv>>]
     /\ UNCHANGED <<files, client, process, clientSaw>>

(* checkNameUnique looks at the Tasks that have not ended; a Task without a*)
(* name is named after its id.                                             *)
NameOf(c) == IF flags[c].name # "" THEN flags[c].name ELSE c
\* mutant
NameIsRunning(name) ==
  \E t \in DOMAIN tasks : tasks[t].status = "RUNNING" /\ tasks[t].name = name
NameIsTaken(name) == \E t \in Clients : Active(t) /\ tasks[t].name = name

CheckName(c) ==
  /\ up /\ at[c] = "resolved"
  /\ IF NameIsTaken(NameOf(c)) THEN Fail(c)
     ELSE /\ at' = [at EXCEPT ![c] = "checked"]
          /\ overlapped' = overlapped \cup {{c, d} : d \in {e \in Clients : at[e] = "checked"}}
          /\ UNCHANGED <<plan, tasks, runtimes, posted>>
  /\ UNCHANGED <<files, client, process, clientSaw, daemonSaw>>

(* store.CreateTask: the row carries the resolved configuration.           *)
CreateTask(c) ==
  /\ up /\ at[c] = "checked"
  /\ at' = [at EXCEPT ![c] = "inserted"]
  /\ tasks' = Over(Only(c,
       [name |-> NameOf(c), provider |-> plan[c].provider, mode |-> plan[c].mode,
        cfg |-> plan[c].cfg, status |-> "PENDING"]), tasks)
  /\ UNCHANGED <<files, client, plan, process, runtimes, posted, history>>

CreateTaskFails(c) ==
  /\ up /\ at[c] = "checked"
  /\ Fail(c)
  /\ UNCHANGED <<files, client, process, clientSaw, daemonSaw>>

(* startRuntime, the start event, and the answer.                          *)
StartRuntime(c) ==
  /\ up /\ at[c] = "inserted"
  /\ at' = [at EXCEPT ![c] = "created"]
  /\ runtimes' = Over(Only(c, Runtime(tasks[c])), runtimes)
  /\ posted' = posted \cup {c}
  /\ UNCHANGED <<files, client, plan, process, tasks, history>>

(* The supervisor takes the start event; a Task ends, and its runtime goes.*)
Begins(t) ==
  /\ t \in posted
  /\ posted' = posted \ {t}
  /\ tasks' = [tasks EXCEPT ![t].status = "RUNNING"]
  /\ UNCHANGED <<files, at, client, plan, process, runtimes, history>>

Ends(t) ==
  /\ t \in DOMAIN runtimes /\ tasks[t].status \in {"RUNNING", "WAITING"}
  /\ tasks' = [tasks EXCEPT ![t].status = "SUCCEEDED"]
  /\ runtimes' = [u \in DOMAIN runtimes \ {t} |-> runtimes[u]]
  /\ UNCHANGED <<files, at, client, plan, process, posted, history>>

-----------------------------------------------------------------------------
(* config set, one at a time: the value is checked like an override, the   *)
(* file is read, changed, written beside itself and renamed.  os.WriteFile *)
(* truncates before it writes; the command may die after each step.        *)

SetStep(from, to) == set.at = from /\ set' = [set EXCEPT !.at = to]

SetCheck ==
  /\ set.at = "idle" /\ sets < MaxSets /\ sets' = sets + 1
  /\ \E s \in world.settings :
       set' = IF Resolve(global, NoDoc, <<>>, Only(s[1], s[2])).ok
              THEN [NoSet EXCEPT !.at = "checked", !.key = s[1], !.value = s[2]]
              ELSE NoSet
  /\ UNCHANGED <<world, global, tmp, at, client, plan, daemon, history>>

(* setDottedValue on the file's raw content.                               *)
SetRead ==
  /\ set.at = "checked"
  /\ set' = [set EXCEPT !.at = "read",
                        !.draft = Over(Only(set.key, set.value),
                                       IF global = NoDoc THEN <<>> ELSE global)]
  /\ UNCHANGED <<world, global, tmp, sets, at, client, plan, daemon, history>>

\* mutant
SetTruncateInPlace ==
  /\ SetStep("read", "truncated")
  /\ tmp' = <<>> /\ global' = <<>>
  /\ UNCHANGED <<world, sets, at, client, plan, daemon, history>>
SetTruncate ==
  /\ SetStep("read", "truncated")
  /\ tmp' = <<>>
  /\ UNCHANGED <<world, global, sets, at, client, plan, daemon, history>>

SetWrite ==
  /\ SetStep("truncated", "written")
  /\ tmp' = set.draft
  /\ UNCHANGED <<world, global, sets, at, client, plan, daemon, history>>

SetRename ==
  /\ set.at = "written"
  /\ global' = tmp /\ tmp' = NoDoc /\ set' = NoSet
  /\ UNCHANGED <<world, sets, at, client, plan, daemon, history>>

SetDies ==
  /\ set.at # "idle" /\ set' = NoSet
  /\ UNCHANGED <<world, global, tmp, sets, at, client, plan, daemon, history>>

-----------------------------------------------------------------------------
ClientStep(c) ==
  Build(c) \/ Warn(c) \/ Connect(c) \/ ConnectFails(c) \/ SpawnDaemon(c) \/ SpawnFails(c)
HandlerStep(c) ==
  \/ HandleResolve(c) \/ CheckName(c) \/ CreateTask(c) \/ CreateTaskFails(c)
  \/ StartRuntime(c)
SetterStep ==
  SetCheck \/ SetRead \/ SetTruncate \/ SetWrite \/ SetRename \/ SetDies

Next ==
  \/ \E c \in Clients : ClientStep(c) \/ HandlerStep(c) \/ Begins(c) \/ Ends(c)
  \/ ServiceStarts \/ Crash \/ SetterStep

Spec == Init /\ [][Next]_vars

-----------------------------------------------------------------------------
(* Properties.                                                             *)

(* The Tasks, the runtimes and the calls are what the code's types and the *)
(* order of handleCreate allow: no runtime and no start event without a    *)
(* daemon, none for a Task without a row or one that has ended.            *)
TypeOK ==
  /\ at \in [Clients -> {"start", "built", "warned", "created", "failed"} \cup Handling]
  /\ set.at \in {"idle", "checked", "read", "truncated", "written"}
  /\ DOMAIN tasks \subseteq Clients
  /\ \A t \in DOMAIN tasks :
       tasks[t].status \in {"PENDING", "RUNNING", "WAITING", "SUCCEEDED"}
  /\ \A t \in DOMAIN runtimes : up /\ Active(t)
  /\ \A t \in posted : t \in DOMAIN runtimes /\ tasks[t].status = "PENDING"
  /\ \A c \in Clients : at[c] \in Handling => up

(* A Task whose create was accepted is owned: while a daemon runs, every   *)
(* Task that has not ended has a runtime, and one that has not been started*)
(* has its start on the way, whatever step of its creation a crash cut off.*)
AcceptedIsOwned ==
  up => \A t \in Clients : Active(t) /\ at[t] # "inserted" =>
          /\ t \in DOMAIN runtimes
          /\ tasks[t].status = "PENDING" => t \in posted

(* Whatever the layers are, a row is only inserted for a configuration its *)
(* runtime starts from: Validate leaves no rule to the engine to refuse,   *)
(* and the provider the row names is known and supports the row's mode.    *)
AcceptedIsRunnable ==
  \A t \in DOMAIN tasks :
    /\ Supported(tasks[t].provider, tasks[t].mode)
    /\ EngineAccepts(Rules(tasks[t].provider, tasks[t].cfg))

(* A runtime works with the configuration its Task was created with, and   *)
(* with no other: an edit of a file and a restart in another environment   *)
(* change nothing (docs/architecture.md, the config snapshot).             *)
SnapshotSurvives ==
  \A t \in DOMAIN runtimes :
    /\ runtimes[t].cfg = plan[t].cfg
    /\ runtimes[t].engine = Rules(plan[t].provider, plan[t].cfg)

(* A runtime can run what was accepted, and runs nothing else.             *)
RunsAsAccepted == TypeOK /\ AcceptedIsRunnable /\ SnapshotSurvives

(* The verdict on an attempt is that of the rule docs/detection.md names:  *)
(* of the built-ins no user rule replaces, the last user rule of each      *)
(* built-in's name in its place and the others after them, the matching    *)
(* one of the highest priority, and of those the earliest.                 *)
Slots(builtin, user) ==
  {[slot |-> i, rule |-> builtin[i]] :
     i \in {j \in DOMAIN builtin : builtin[j].name \notin Names(user)}}
  \cup
  {[slot |-> CHOOSE i \in DOMAIN builtin : builtin[i].name = user[j].name,
    rule |-> user[j]] :
     j \in {k \in DOMAIN user :
            /\ user[k].name \in Names(builtin)
            /\ \A l \in k + 1..Len(user) : user[l].name # user[k].name}}
  \cup
  {[slot |-> Len(builtin) + j, rule |-> user[j]] :
     j \in {k \in DOMAIN user : user[k].name \notin Names(builtin)}}
Wins(s, matching) ==
  s \in matching /\ \A o \in matching :
    \/ o.rule.priority < s.rule.priority
    \/ o.rule.priority = s.rule.priority /\ s.slot <= o.slot
BestMatchDecides(engine, builtin, user, in) ==
  LET matching == {s \in Slots(builtin, user) : Matches(s.rule, in)}
      verdict == Classify(engine, in, 0)
  IN IF matching = {} THEN verdict.category = "UNKNOWN" /\ verdict.rule = ""
     ELSE \E s \in matching : Wins(s, matching)
            /\ verdict.category = s.rule.category /\ verdict.rule = s.rule.name
VerdictIsBestMatch ==
  \A t \in DOMAIN runtimes, in \in Inputs :
    BestMatchDecides(runtimes[t].engine, BuiltinRules[tasks[t].provider],
                     tasks[t].cfg[RulesKey], in)

(* A reset time is after the attempt's end, so a wait for it never begins  *)
(* in its past, and one given as a time of day is the next of its day.     *)
ResetIsNext ==
  \A t \in DOMAIN runtimes, in \in Inputs, now \in Times :
    LET verdict == Classify(runtimes[t].engine, in, now)
        matching == {s \in Slots(BuiltinRules[tasks[t].provider], tasks[t].cfg[RulesKey]) :
                       Matches(s.rule, in)}
    IN verdict.reset # None =>
         /\ verdict.reset > now
         /\ \A s \in matching :
              Wins(s, matching) /\ s.rule.extractor.kind = "clock_time" =>
                /\ verdict.reset <= now + Day
                /\ verdict.reset % Day = SourceOf(s.rule.extractor, in).reset % Day

(* Both parts of a classification, the verdict and the reset time.         *)
ClassifiesAsDocumented == VerdictIsBestMatch /\ ResetIsNext

(* --unattended given with --provider decides: the Task runs with that     *)
(* value whatever the files and the daemon's environment say.              *)
FlagReachesTheProvider ==
  \A t \in DOMAIN tasks : flags[t].provider # "" /\ flags[t].unattended # "" =>
    tasks[t].cfg[UnattendedKey(tasks[t].provider)] = flags[t].unattended

(* --unattended decides, with or without --provider.  The code does not    *)
(* keep this: without --provider the client looks for the default provider *)
(* without the project file, and overrides another provider's setting.     *)
UnattendedFlagIsObeyed ==
  \A t \in DOMAIN tasks : flags[t].unattended # "" =>
    tasks[t].cfg[UnattendedKey(tasks[t].provider)] = flags[t].unattended

(* A Task runs with approvals skipped only after its user was warned, as   *)
(* long as the client and the daemon have read the same global file,       *)
(* project file and environment.                                           *)
WarnedIfUnattended ==
  \A t \in DOMAIN tasks :
    clientSaw[t] = daemonSaw[t] /\ Unattended(tasks[t].cfg, tasks[t].provider) => warned[t]

(* The project file is the same without saying so, as both sides look for  *)
(* that of the Task's --cwd.  The code does not keep this: a relative --cwd*)
(* may lead a daemon that stands elsewhere to another project file.        *)
WarnedWhateverTheCwd ==
  \A t \in DOMAIN tasks :
    /\ clientSaw[t] # None /\ daemonSaw[t] # None
    /\ clientSaw[t][1] = daemonSaw[t][1] /\ clientSaw[t][3] = daemonSaw[t][3]
    /\ Unattended(tasks[t].cfg, tasks[t].provider)
    => warned[t]

(* A Task runs unattended only as its user said and was told.              *)
UnattendedIsWanted == FlagReachesTheProvider /\ WarnedIfUnattended

(* Two Tasks that have not ended have the same name only if their creates  *)
(* were between the check and the insert at the same time.                 *)
NamesAreUnique ==
  \A t, u \in Clients :
    t # u /\ Active(t) /\ Active(u) /\ tasks[t].name = tasks[u].name => {t, u} \in overlapped

(* config set keeps every setting the file had: no reader finds the file   *)
(* emptied or half written, and a command that dies changes nothing or all.*)
SettingsAreKept ==
  [][global # NoDoc => DOMAIN global \subseteq DOMAIN global']_vars
=============================================================================
