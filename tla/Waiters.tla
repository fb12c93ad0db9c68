------------------------------ MODULE Waiters ------------------------------
(***************************************************************************)
(* Who waits for the end of a Task: remove --force (handleRemove and       *)
(* waitTerminal), attach (runAttach and handleSubscribe) and logs --follow *)
(* (followLogs and process.follower), over the event bus                   *)
(* (src/internal/daemon/bus.go).  A transition is committed to the store   *)
(* and published afterwards; the bus drops what a full buffer cannot take, *)
(* so whether a waiter ends depends on the order of its subscription, its  *)
(* look at the store and the publication.                                  *)
(*                                                                         *)
(* One Task, followed in one of its attempts; every client sends one       *)
(* request.  The Task's own life is Supervisor.tla's; here it moves, ends  *)
(* or is stopped.                                                          *)
(***************************************************************************)
EXTENDS Naturals, Sequences

CONSTANTS
  Removers, Attachers, Followers, \* clients, by what they do
  Selectors,  \* how an attacher names the task: subset of id, name, prefix
  BufCap,     \* capacity of a subscriber's channel
  \* bounds on the environment:
  MaxMoves,   \* transitions of the task that do not end it
  MaxNoise,   \* events of other tasks
  MaxLines    \* lines the followed attempt writes

Clients == Removers \cup Attachers \cup Followers

AllSelectors == {"id", "name", "prefix"}

ASSUME WaitersAssumption ==
  /\ Removers \cap Attachers = {} /\ Removers \cap Followers = {}
  /\ Attachers \cap Followers = {}
  /\ Selectors \subseteq AllSelectors
  /\ BufCap \in Nat \ {0}
  /\ {MaxMoves, MaxNoise, MaxLines} \subseteq Nat

VARIABLES
  status,      \* the tasks row: "live", "done", "stopped", "deleted"
  unpublished, \* an event committed and not yet published, or "none"
  stopPosted,  \* a user_stop is on its way to the supervisor
  child,       \* the followed attempt's child: "running" or "exited"
  written,     \* lines in the attempt's log
  used,        \* moves and noise so far
  subs,        \* b.subs: who is subscribed
  chan,        \* their channels
  lost,        \* who has had an end dropped (history)
  pc,          \* where each client's request is
  sel,         \* the selector an attacher was given
  read,        \* lines a follower has sent
  cancelled    \* a follower's followCtx is cancelled

task == <<status, unpublished, stopPosted, child, written, used>>
bus == <<subs, chan, lost>>
client == <<pc, sel, read, cancelled>>
vars == <<status, unpublished, stopPosted, child, written, used, subs, chan, lost,
          pc, sel, read, cancelled>>

-----------------------------------------------------------------------------
Statuses == {"live", "done", "stopped", "deleted"}
TerminalButStopped == {"done"} \* mutant: STOPPED is forgotten
Terminal == {"done", "stopped"}
Published == {"move", "end", "noise"}  \* "noise" is about another task
Locations == {"start", "post", "subscribe", "check", "wait", "delete",
              "stream", "read", "sleep", "finished"}

TypeOK ==
  /\ status \in Statuses
  /\ unpublished \in {"none", "move", "end"}
  /\ stopPosted \in BOOLEAN
  /\ child \in {"running", "exited"}
  /\ written \in 0 .. MaxLines
  /\ used \in [moves : 0 .. MaxMoves, noise : 0 .. MaxNoise]
  /\ subs \subseteq Clients
  /\ chan \in [Clients -> Seq(Published)]
  /\ \A c \in Clients : Len(chan[c]) <= BufCap
  /\ lost \subseteq Clients
  /\ pc \in [Clients -> Locations]
  /\ sel \in [Attachers -> AllSelectors]
  /\ read \in [Followers -> 0 .. MaxLines]
  /\ cancelled \in [Followers -> BOOLEAN]

Init ==
  /\ status = "live" /\ unpublished = "none" /\ stopPosted = FALSE
  /\ child = "running" /\ written = 0
  /\ used = [moves |-> 0, noise |-> 0]
  /\ subs = {} /\ chan = [c \in Clients |-> <<>>] /\ lost = {}
  /\ pc = [c \in Clients |-> "start"]
  /\ sel \in [Attachers -> Selectors]
  /\ read = [c \in Followers |-> 0]
  /\ cancelled = [c \in Followers |-> FALSE]

-----------------------------------------------------------------------------
\* The bus

\* publish: one send per subscriber, dropped when its buffer is full.
Full(c) == Len(chan[c]) >= BufCap
Publish(e) ==
  /\ chan' = [c \in Clients |->
                IF c \in subs /\ ~Full(c) THEN Append(chan[c], e) ELSE chan[c]]
  /\ lost' = lost \cup (IF e = "end" THEN {c \in subs : Full(c)} ELSE {})
  /\ UNCHANGED subs

\* subscribe makes a fresh channel; unsubscribe removes and closes it.
Subscribe(c) == /\ subs' = subs \cup {c}
                /\ chan' = [chan EXCEPT ![c] = <<>>]
                /\ UNCHANGED lost
Unsubscribe(c) == /\ subs' = subs \ {c}
                  /\ chan' = [chan EXCEPT ![c] = <<>>]
                  /\ UNCHANGED lost

Receive(c) == /\ c \in subs /\ chan[c] # <<>>
              /\ chan' = [chan EXCEPT ![c] = Tail(@)]
              /\ UNCHANGED <<subs, lost>>

EndsOnAny(e) == e # "noise" \* mutant: any event of the task ends the wait

\* ev.TaskID == taskID && Terminal(ev.Status)
IsEnd(e) == e = "end"

\* Mutant: a full id does not match.
MatchesNameOnly(c, e) == e # "noise" /\ sel[c] = "name"

\* What a single-task subscription lets through: events whose id or name is
\* the selector itself.
Matches(c, e) == e # "noise" /\ sel[c] \in {"id", "name"}

-----------------------------------------------------------------------------
\* The task and its supervisor: persist commits, then notifies.

Commit(s, e) ==
  /\ status = "live" /\ unpublished = "none"
  /\ status' = s /\ unpublished' = e
  /\ UNCHANGED <<bus, client>>

Move == /\ used.moves < MaxMoves
        /\ used' = [used EXCEPT !.moves = @ + 1]
        /\ Commit("live", "move")
        /\ UNCHANGED <<stopPosted, child, written>>

\* SUCCEEDED or FAILED: only after the child's output has been drained.
End == /\ child = "exited"
       /\ Commit("done", "end")
       /\ UNCHANGED <<stopPosted, child, written, used>>

\* STOPPED: the child has been killed, its last output may still be drained.
StopTask == /\ stopPosted
            /\ Commit("stopped", "end")
            /\ UNCHANGED <<stopPosted, child, written, used>>

Notify == /\ unpublished # "none"
          /\ unpublished' = "none"
          /\ Publish(unpublished)
          /\ UNCHANGED <<status, stopPosted, child, written, used, client>>

NotifyOther == /\ used.noise < MaxNoise
               /\ used' = [used EXCEPT !.noise = @ + 1]
               /\ Publish("noise")
               /\ UNCHANGED <<status, unpublished, stopPosted, child, written, client>>

WriteLine == /\ child = "running" /\ written < MaxLines
             /\ written' = written + 1
             /\ UNCHANGED <<status, unpublished, stopPosted, child, used, bus, client>>

ChildExit == /\ child = "running"
             /\ child' = "exited"
             /\ UNCHANGED <<status, unpublished, stopPosted, written, used, bus, client>>

-----------------------------------------------------------------------------
\* remove --force

Goto(c, l) == pc' = [pc EXCEPT ![c] = l] /\ UNCHANGED <<sel, read, cancelled>>

ResolveForRemove(c) ==
  /\ pc[c] = "start"
  /\ \/ status = "live" /\ Goto(c, "post")
     \/ status \in Terminal /\ Goto(c, "delete")
     \/ status = "deleted" /\ Goto(c, "finished")
  /\ UNCHANGED <<task, bus>>

PostStop(c) ==
  /\ pc[c] = "post"
  /\ stopPosted' = TRUE
  /\ Goto(c, "subscribe")
  /\ UNCHANGED <<status, unpublished, child, written, used, bus>>

\* Mutant: the wait is not subscribed to the bus.
CheckOnly(c) == pc[c] = "subscribe" /\ Goto(c, "check") /\ UNCHANGED <<task, bus>>

\* waitTerminal and followLogs subscribe before they look at the store.
SubscribeToWait(c) ==
  /\ pc[c] = "subscribe"
  /\ Subscribe(c)
  /\ Goto(c, "check")
  /\ UNCHANGED task

CheckForRemove(c) ==
  /\ pc[c] = "check"
  /\ \/ status = "live" /\ Goto(c, "wait") /\ UNCHANGED bus
     \/ status \in Terminal /\ Goto(c, "delete") /\ Unsubscribe(c)
     \/ status = "deleted" /\ Goto(c, "finished") /\ Unsubscribe(c)
  /\ UNCHANGED task

WaitTerminal(c) ==
  /\ pc[c] = "wait" /\ chan[c] # <<>>
  /\ \/ /\ IsEnd(Head(chan[c]))
        /\ Goto(c, "delete") /\ Unsubscribe(c)
     \/ /\ ~IsEnd(Head(chan[c]))
        /\ Receive(c) /\ UNCHANGED client
  /\ UNCHANGED task

\* DeleteTask; a row that is gone already is an error of the request.
Delete(c) ==
  /\ pc[c] = "delete"
  /\ status' = "deleted"
  /\ Goto(c, "finished")
  /\ UNCHANGED <<unpublished, stopPosted, child, written, used, bus>>

Remove(c) == \/ ResolveForRemove(c) \/ PostStop(c) \/ SubscribeToWait(c)
             \/ CheckForRemove(c) \/ WaitTerminal(c) \/ Delete(c)

-----------------------------------------------------------------------------
\* attach: task.get, then events.subscribe on another connection

GetForAttach(c) ==
  /\ pc[c] = "start"
  /\ \/ status = "live" /\ Goto(c, "subscribe")
     \/ status # "live" /\ Goto(c, "finished")
  /\ UNCHANGED <<task, bus>>

SubscribeToEvents(c) ==
  /\ pc[c] = "subscribe"
  /\ Subscribe(c)
  /\ Goto(c, "stream")
  /\ UNCHANGED task

\* The handler forwards a matching event; the end of the task ends the stream.
StreamEvent(c) ==
  /\ pc[c] = "stream" /\ chan[c] # <<>>
  /\ LET e == Head(chan[c]) IN
       \/ /\ Matches(c, e) /\ IsEnd(e)
          /\ Goto(c, "finished") /\ Unsubscribe(c)
       \/ /\ ~(Matches(c, e) /\ IsEnd(e))
          /\ Receive(c) /\ UNCHANGED client
  /\ UNCHANGED task

Attach(c) == GetForAttach(c) \/ SubscribeToEvents(c) \/ StreamEvent(c)

-----------------------------------------------------------------------------
\* logs --follow

ResolveForFollow(c) ==
  /\ pc[c] = "start"
  /\ Goto(c, IF status = "deleted" THEN "finished" ELSE "subscribe")
  /\ UNCHANGED <<task, bus>>

\* After a look at the store the file is opened and read from its start.
CheckForFollow(c) ==
  /\ pc[c] = "check"
  /\ \/ /\ status = "deleted"
        /\ Goto(c, "finished") /\ Unsubscribe(c)
     \/ /\ status # "deleted"
        /\ pc' = [pc EXCEPT ![c] = "read"]
        /\ cancelled' = [cancelled EXCEPT ![c] = status \in Terminal]
        /\ UNCHANGED <<sel, read, bus>>
  /\ UNCHANGED task

Following(c) == pc[c] \in {"read", "sleep"}

\* The goroutine that watches for the end; once it is known, what it takes from
\* its channel changes nothing.
Watch(c) ==
  /\ Following(c) /\ ~cancelled[c]
  /\ Receive(c)
  /\ cancelled' = [cancelled EXCEPT ![c] = IsEnd(Head(chan[c]))]
  /\ UNCHANGED <<task, pc, sel, read>>

\* follower.Read: what there is, or sleep at the end of the file.
ReadLog(c) ==
  /\ pc[c] = "read"
  /\ \/ /\ read[c] < written
        /\ read' = [read EXCEPT ![c] = written]
        /\ UNCHANGED <<pc, sel, cancelled>>
     \/ /\ read[c] = written
        /\ Goto(c, "sleep")
  /\ UNCHANGED <<task, bus>>

\* The select between the poll timer and followCtx.
WakeUp(c) ==
  /\ pc[c] = "sleep"
  /\ Goto(c, "read")
  /\ UNCHANGED <<task, bus>>

EndFollow(c) ==
  /\ pc[c] = "sleep" /\ cancelled[c]
  /\ Goto(c, "finished") /\ Unsubscribe(c)
  /\ UNCHANGED task

Follow(c) == \/ ResolveForFollow(c) \/ SubscribeToWait(c) \/ CheckForFollow(c)
             \/ ReadLog(c) \/ WakeUp(c)

-----------------------------------------------------------------------------
Next ==
  \/ Move \/ End \/ StopTask \/ Notify \/ NotifyOther \/ WriteLine \/ ChildExit
  \/ \E c \in Removers : Remove(c)
  \/ \E c \in Attachers : Attach(c)
  \/ \E c \in Followers : Follow(c) \/ Watch(c) \/ EndFollow(c)

Spec == Init /\ [][Next]_vars

(***************************************************************************)
(* Fairness: the supervisor's goroutine and each handler's goroutines are  *)
(* scheduled.  A follower that sleeps wakes up by its poll timer or by its *)
(* context; when the latter is cancelled it stays ready, and select picks  *)
(* among ready cases at random, so it is taken in the end: strong          *)
(* fairness.  Nothing obliges the task to move or another one to publish.  *)
(* That the task ends (a stop is handled, the child exits) is              *)
(* Supervisor.tla's subject and assumed here.                              *)
(***************************************************************************)
FairSpec ==
  /\ Spec
  /\ WF_vars(ChildExit) /\ WF_vars(End) /\ WF_vars(StopTask) /\ WF_vars(Notify)
  /\ \A c \in Removers : WF_vars(Remove(c))
  /\ \A c \in Attachers : WF_vars(Attach(c))
  /\ \A c \in Followers : WF_vars(Follow(c)) /\ WF_vars(Watch(c)) /\ SF_vars(EndFollow(c))

-----------------------------------------------------------------------------
\* Properties

EndAhead(c) == \/ unpublished = "end"
               \/ \E i \in DOMAIN chan[c] : IsEnd(chan[c][i])
               \/ c \in lost

\* "Check after subscribing so a transition can't slip between"
\* (methods.go:676): a remover or follower that waits while the task is over
\* still has its end ahead, unless its own buffer overflowed
\* (methods.go:451-475, 671-697; bus.go:33-59).
NoMissedEnd ==
  \A c \in Removers \cup Followers :
    status # "live" /\ (pc[c] = "wait" \/ (c \in Followers /\ Following(c) /\ ~cancelled[c]))
      => c \in subs /\ EndAhead(c)

\* A task is deleted only once it is over: its supervisor cannot write to a row
\* that is gone, and its child is not left without a task (methods.go:374-402).
OnlyEndedIsDeleted == [][status' = "deleted" => status # "live"]_vars

\* What remains of a stopped task's output apart, a follower ends only after
\* it has sent every line the attempt wrote.
FollowIsComplete ==
  \A c \in Followers :
    pc[c] = "finished" /\ status = "done" => read[c] = written

\* remove --force returns, unless its buffer overflowed (methods.go:383-391).
RemoveReturns ==
  \A c \in Removers : pc[c] # "finished" ~> pc[c] = "finished" \/ c \in lost

\* logs --follow returns once the task is over, unless its buffer overflowed
\* (methods.go:451-504).
FollowReturns ==
  \A c \in Followers : pc[c] # "finished" ~> pc[c] = "finished" \/ c \in lost

\* An attach that was subscribed while the task lived ends with it, unless its
\* buffer overflowed or it named the task by a prefix (methods.go:506-533).
SubscribedAttachReturns ==
  \A c \in Attachers :
    pc[c] = "stream" /\ status = "live" /\ sel[c] # "prefix"
      ~> pc[c] = "finished" \/ c \in lost

\* Every request that waits for the end of a task returns, unless its buffer
\* overflowed or the code cannot see that it has been served.
EveryWaiterReturns == RemoveReturns /\ FollowReturns /\ SubscribedAttachReturns

\* "streams state-change events and live log lines until the Task reaches a
\* terminal state" (docs/cli.md:56-57), however it was named.
AttachReturns ==
  \A c \in Attachers : pc[c] # "finished" ~> pc[c] = "finished" \/ c \in lost
=============================================================================
