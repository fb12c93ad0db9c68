----------------------------- MODULE Interactive -----------------------------
(***************************************************************************)
(* One attempt of an interactive Task: the child on a pseudo-terminal and  *)
(* its capture (process/pty.go), the broadcast of its output and the log   *)
(* (daemon/interactive.go, logSink, redactWriter), the goroutine that posts*)
(* its exit (daemon.spawnPTY), the handlers of task.attach and task.input, *)
(* and the clients that attach (cli/attach_interactive.go).                *)
(*                                                                         *)
(* Output is numbered by chunks, a chunk being what one Write passes on.   *)
(* A client has two connections; that of the stream is the channel `conn'. *)
(***************************************************************************)
EXTENDS Integers, Sequences, FiniteSets

CONSTANTS
  Viewers,     \* attached clients
  Idle,        \* those that need not read: a suspended or stalled terminal
  MaxChunks,   \* how much the child writes
  Partial,     \* chunks that do not end a line
  MaxTail,     \* detect.scan_bytes, the bound of the tail
  SubCap,      \* buffer of a subscriber (256 in the code)
  ConnCap,     \* what a connection takes before a write blocks
  TermCap,     \* output the terminal holds before the child blocks
  InputCap,    \* input the terminal holds before a write blocks
  MaxTyped,    \* how often the users type
  MaxFaults    \* writes to the log file that fail

ASSUME InteractiveAssumption ==
  /\ Idle \subseteq Viewers /\ Partial \subseteq 1..MaxChunks
  /\ MaxChunks \in Nat /\ MaxTyped \in Nat /\ MaxFaults \in Nat
  /\ MaxTail \in Nat \ {0} /\ SubCap \in Nat \ {0} /\ ConnCap \in Nat \ {0}
  /\ TermCap \in Nat \ {0} /\ InputCap \in Nat \ {0}

VARIABLES
  row,        \* tasks.status: "PENDING", "RUNNING", or "OVER" (WAITING or ended)
  child,      \* "none", "alive" or "dead"
  written, read,  \* chunks the child has written, and the capture has read
  input,      \* input in the terminal
  pty,        \* whether the runtime has the terminal and the broadcast
  capture,    \* where capture() is
  tail, closed, subs, chan,  \* ptyBroadcast
  log, held,  \* the attempt's log file, and redactWriter.buf
  exit,       \* the attempt_exit event posted, if any, with the log as it was read
  handler,    \* where the handler of each task.attach is
  replay,     \* the tail it has to send first
  conn, open, \* the stream's connection: responses under way, still open
  view,       \* where each client is
  pump,       \* its input pump
  typed,      \* how often they have typed
  shown,      \* the chunks it has rendered
  \* History, read by properties only.
  from,       \* the first chunk of the tail at subscription
  dropped,    \* live chunks that found the subscriber's buffer full
  faults

Chunks == 1..MaxChunks

childVars == <<row, child, written, input>>
bcast == <<tail, closed, subs, chan>>
files == <<log, held, exit, faults>>
server == <<handler, replay, conn>>
client == <<open, view, pump, typed, shown>>
vars == <<childVars, read, pty, capture, bcast, files, server, client, from, dropped>>

Init ==
  /\ row = "PENDING" /\ child = "none" /\ written = 0 /\ read = 0 /\ input = 0
  /\ pty = FALSE /\ capture = "none"
  /\ tail = <<>> /\ closed = FALSE
  /\ subs = {} /\ chan = [v \in Viewers |-> <<>>]
  /\ log = <<>> /\ held = <<>> /\ exit = <<>> /\ faults = 0
  /\ handler = [v \in Viewers |-> "none"] /\ replay = [v \in Viewers |-> <<>>]
  /\ conn = [v \in Viewers |-> <<>>] /\ open = [v \in Viewers |-> FALSE]
  /\ view = [v \in Viewers |-> "poll"] /\ pump = [v \in Viewers |-> "off"]
  /\ typed = 0 /\ shown = [v \in Viewers |-> <<>>]
  /\ from = [v \in Viewers |-> 0] /\ dropped = [v \in Viewers |-> {}]

-----------------------------------------------------------------------------
(* The supervisor starts the attempt: spawnPTY, then the transaction.      *)
Spawn ==
  /\ row = "PENDING" /\ child = "none"
  /\ child' = "alive" /\ pty' = TRUE /\ capture' = "copy"
  /\ UNCHANGED <<row, written, read, input, bcast, files, server, client, from, dropped>>

CommitStart ==
  /\ row = "PENDING" /\ child # "none" /\ row' = "RUNNING"
  /\ UNCHANGED <<child, written, read, input, pty, capture, bcast, files, server,
                 client, from, dropped>>

(* The child, outside: it writes while the terminal has room, reads what is*)
(* typed when it likes, and exits.                                         *)
WriteOutput ==
  /\ child = "alive" /\ written < MaxChunks /\ written - read < TermCap
  /\ written' = written + 1
  /\ UNCHANGED <<row, child, read, input, pty, capture, bcast, files, server,
                 client, from, dropped>>

ReadInput ==
  /\ child = "alive" /\ input > 0 /\ input' = input - 1
  /\ UNCHANGED <<row, child, written, read, pty, capture, bcast, files, server,
                 client, from, dropped>>

Exits ==
  /\ child = "alive" /\ written = MaxChunks /\ child' = "dead"
  /\ UNCHANGED <<row, written, read, input, pty, capture, bcast, files, server,
                 client, from, dropped>>

(* A stop or a signal ends it anywhere.                                    *)
Killed ==
  /\ child = "alive" /\ written < MaxChunks /\ child' = "dead"
  /\ UNCHANGED <<row, written, read, input, pty, capture, bcast, files, server,
                 client, from, dropped>>

-----------------------------------------------------------------------------
(* capture: each chunk goes to the broadcast first and then to the log.    *)
BoundedTail(s) == IF Len(s) > MaxTail THEN SubSeq(s, Len(s) - MaxTail + 1, Len(s)) ELSE s

Full(v) == Len(chan[v]) = SubCap

\* Mutant: the write waits for the slowest subscriber.
BroadcastBlocking ==
  /\ capture = "copy" /\ read < written /\ \A v \in subs : ~Full(v)
  /\ read' = read + 1 /\ capture' = "log"
  /\ tail' = BoundedTail(Append(tail, read + 1))
  /\ chan' = [v \in Viewers |-> IF v \in subs THEN Append(chan[v], read + 1) ELSE chan[v]]
  /\ UNCHANGED <<childVars, pty, closed, subs, files, server, client, from, dropped>>

Broadcast ==
  /\ capture = "copy" /\ read < written
  /\ read' = read + 1 /\ capture' = "log"
  /\ tail' = BoundedTail(Append(tail, read + 1))
  /\ chan' = [v \in Viewers |-> IF v \in subs /\ ~Full(v) THEN Append(chan[v], read + 1)
                                ELSE chan[v]]
  /\ dropped' = [v \in Viewers |-> IF v \in subs /\ Full(v) THEN dropped[v] \union {read + 1}
                                   ELSE dropped[v]]
  /\ UNCHANGED <<childVars, pty, closed, subs, files, server, client, from>>

(* redactWriter.Write: whole lines go to the file, the rest is held.       *)
Persist ==
  /\ capture = "log" /\ capture' = "copy"
  /\ IF read \in Partial
     THEN held' = Append(held, read) /\ UNCHANGED log
     ELSE log' = log \o Append(held, read) /\ held' = <<>>
  /\ UNCHANGED <<childVars, read, pty, bcast, exit, faults, server, client, from, dropped>>

(* The file cannot be written: io.Copy returns, and without a limit on the *)
(* output, which spawn and spawnPTY never set, nothing drains the terminal *)
(* any more.                                                               *)
PersistFails ==
  /\ capture = "log" /\ read \notin Partial /\ faults < MaxFaults
  /\ faults' = faults + 1 /\ held' = <<>> /\ capture' = "close"
  /\ UNCHANGED <<childVars, read, pty, bcast, log, exit, server, client, from, dropped>>

Drained ==
  /\ capture = "copy" /\ read = written /\ child = "dead" /\ capture' = "close"
  /\ UNCHANGED <<childVars, read, pty, bcast, files, server, client, from, dropped>>

\* Mutant: the streams of the subscribers are not ended.
CloseBroadcastOnly ==
  /\ capture = "close" /\ capture' = "flush" /\ closed' = TRUE
  /\ UNCHANGED <<childVars, read, pty, tail, subs, chan, files, server, client, from, dropped>>

(* teeWriteCloser.Close: the broadcast ends every stream, ...              *)
CloseBroadcast ==
  /\ capture = "close" /\ capture' = "flush"
  /\ closed' = TRUE /\ subs' = {}
  /\ UNCHANGED <<childVars, read, pty, tail, chan, files, server, client, from, dropped>>

(* ... and the log sink writes the unterminated last line.                 *)
CloseLog ==
  /\ capture = "flush" /\ capture' = "reap"
  /\ log' = log \o held /\ held' = <<>>
  /\ UNCHANGED <<childVars, read, pty, bcast, exit, faults, server, client, from, dropped>>

\* Mutant: the capture counts as copied before it has closed its writer.
ReapEarly ==
  /\ capture \in {"close", "flush", "reap"} /\ child = "dead" /\ pty /\ pty' = FALSE
  /\ UNCHANGED <<childVars, read, capture, bcast, files, server, client, from, dropped>>

(* Wait returns once the capture has ended and the child is dead;          *)
(* setPTY(nil, nil); the tail of the log is read and attempt_exit posted.  *)
Reap ==
  /\ capture = "reap" /\ child = "dead" /\ pty /\ pty' = FALSE
  /\ UNCHANGED <<childVars, read, capture, bcast, files, server, client, from, dropped>>

PostExit ==
  /\ child = "dead" /\ ~pty /\ exit = <<>> /\ exit' = <<log>>
  /\ UNCHANGED <<childVars, read, pty, capture, bcast, log, held, faults, server,
                 client, from, dropped>>

HandleExit ==
  /\ exit # <<>> /\ row = "RUNNING" /\ row' = "OVER"
  /\ UNCHANGED <<child, written, read, input, pty, capture, bcast, files, server,
                 client, from, dropped>>

-----------------------------------------------------------------------------
(* handleAttach.  A write on a closed connection fails, one on a full one   *)
(* blocks.                                                                 *)
Data(chunks) == [kind |-> "data", data |-> chunks]
Final(kind) == [kind |-> kind, data |-> <<>>]   \* "done" or "error"

At(v, place) == handler' = [handler EXCEPT ![v] = place]

Respond(v, response, place) ==
  /\ IF ~open[v] THEN UNCHANGED conn
     ELSE Len(conn[v]) < ConnCap /\ conn' = [conn EXCEPT ![v] = Append(@, response)]
  /\ At(v, place)

(* liveInteractive and rt.interactive.                                     *)
Look(v) ==
  /\ handler[v] = "look"
  /\ IF pty THEN At(v, "subscribe") /\ UNCHANGED conn ELSE Respond(v, Final("error"), "returned")
  /\ UNCHANGED <<childVars, read, pty, capture, bcast, files, replay, client, from,
                 dropped>>

\* Mutant: a broadcast that is closed is subscribed to.
SubscribeAlways(v) ==
  /\ handler[v] = "subscribe" /\ At(v, "tail")
  /\ replay' = [replay EXCEPT ![v] = tail] /\ subs' = subs \union {v}
  /\ from' = [from EXCEPT ![v] = read - Len(tail) + 1]
  /\ UNCHANGED <<childVars, read, pty, capture, tail, closed, chan, files, conn,
                 client, dropped>>

(* bcast.subscribe: the tail is copied and the live chunks begin right     *)
(* after it.  The channel is nil when the child's output has ended.        *)
Subscribe(v) ==
  /\ handler[v] = "subscribe" /\ At(v, "tail")
  /\ replay' = [replay EXCEPT ![v] = tail]
  /\ subs' = IF closed THEN subs ELSE subs \union {v}
  /\ from' = [from EXCEPT ![v] = read - Len(tail) + 1]
  /\ UNCHANGED <<childVars, read, pty, capture, tail, closed, chan, files, conn,
                 client, dropped>>

(* The deferred unsubscribe.                                               *)
Unsubscribe(v) == subs' = subs \ {v} /\ chan' = [chan EXCEPT ![v] = <<>>]

\* Mutant: the tail is read when it is sent, after the live chunks have begun.
SendTailLate(v) ==
  /\ handler[v] = "tail" /\ replay' = [replay EXCEPT ![v] = <<>>]
  /\ IF tail # <<>> /\ ~open[v]
     THEN Unsubscribe(v) /\ At(v, "returned") /\ UNCHANGED conn
     ELSE /\ IF tail = <<>> THEN At(v, "stream") /\ UNCHANGED conn
             ELSE Respond(v, Data(tail), "stream")
          /\ UNCHANGED <<subs, chan>>
  /\ UNCHANGED <<childVars, read, pty, capture, tail, closed, files, client, from,
                 dropped>>

SendTail(v) ==
  /\ handler[v] = "tail" /\ replay' = [replay EXCEPT ![v] = <<>>]
  /\ IF replay[v] # <<>> /\ ~open[v]
     THEN Unsubscribe(v) /\ At(v, "returned") /\ UNCHANGED conn
     ELSE /\ IF replay[v] = <<>> THEN At(v, "stream") /\ UNCHANGED conn
             ELSE Respond(v, Data(replay[v]), "stream")
          /\ UNCHANGED <<subs, chan>>
  /\ UNCHANGED <<childVars, read, pty, capture, tail, closed, files, client, from,
                 dropped>>

SendChunk(v) ==
  /\ handler[v] = "stream" /\ chan[v] # <<>>
  /\ IF open[v]
     THEN /\ Respond(v, Data(<<Head(chan[v])>>), "stream")
          /\ chan' = [chan EXCEPT ![v] = Tail(@)] /\ UNCHANGED subs
     ELSE Unsubscribe(v) /\ At(v, "returned") /\ UNCHANGED conn
  /\ UNCHANGED <<childVars, read, pty, capture, tail, closed, files, replay, client,
                 from, dropped>>

\* Mutant: a closed stream ends before its buffer is empty.
EndStreamAtOnce(v) ==
  /\ handler[v] = "stream" /\ v \notin subs
  /\ Respond(v, Final("done"), "returned")
  /\ UNCHANGED <<childVars, read, pty, capture, bcast, files, replay, client, from,
                 dropped>>

(* The channel is closed, or was nil: the server sends the final response. *)
EndStream(v) ==
  /\ handler[v] = "stream" /\ chan[v] = <<>> /\ v \notin subs
  /\ Respond(v, Final("done"), "returned")
  /\ UNCHANGED <<childVars, read, pty, capture, bcast, files, replay, client, from,
                 dropped>>

Handle(v) == Look(v) \/ Subscribe(v) \/ SendTail(v) \/ SendChunk(v) \/ EndStream(v)

-----------------------------------------------------------------------------
(* The client.  waitInteractiveReady asks task.get until the Task runs, and*)
(* gives up when it has ended or ten seconds have passed.                  *)
Show(v, place) == view' = [view EXCEPT ![v] = place]

Poll(v) ==
  /\ view[v] = "poll"
  /\ Show(v, IF row = "RUNNING" THEN "ready" ELSE "gone")
  /\ UNCHANGED <<childVars, read, pty, capture, bcast, files, server, open, pump,
                 typed, shown, from, dropped>>

(* The second connection, the input pump and the request of the stream.    *)
Attach(v) ==
  /\ view[v] = "ready" /\ Show(v, "attached")
  /\ open' = [open EXCEPT ![v] = TRUE] /\ pump' = [pump EXCEPT ![v] = "reading"]
  /\ At(v, "look")
  /\ UNCHANGED <<childVars, read, pty, capture, bcast, files, conn, replay, typed,
                 shown, from, dropped>>

(* Stream: a chunk is rendered, "done" and an error end it.  When it       *)
(* returns, the connections are closed and the pump with them.             *)
Return(v, place) ==
  /\ Show(v, place)
  /\ open' = [open EXCEPT ![v] = FALSE] /\ pump' = [pump EXCEPT ![v] = "off"]

Receive(v) ==
  /\ view[v] = "attached" /\ conn[v] # <<>>
  /\ conn' = [conn EXCEPT ![v] = Tail(@)]
  /\ shown' = [shown EXCEPT ![v] = @ \o Head(conn[v]).data]
  /\ IF Head(conn[v]).kind = "data" THEN UNCHANGED <<open, view, pump>>
     ELSE Return(v, Head(conn[v]).kind)
  /\ UNCHANGED <<childVars, read, pty, capture, bcast, files, handler, replay, typed,
                 from, dropped>>

(* pumpInput: the detach key or the end of the input cancels the attach.   *)
Detach(v) ==
  /\ pump[v] = "reading" /\ Return(v, "left")
  /\ conn' = [conn EXCEPT ![v] = <<>>]
  /\ UNCHANGED <<childVars, read, pty, capture, bcast, files, handler, replay, typed,
                 shown, from, dropped>>

Type(v) ==
  /\ pump[v] = "reading" /\ typed < MaxTyped
  /\ pump' = [pump EXCEPT ![v] = "calling"] /\ typed' = typed + 1
  /\ UNCHANGED <<childVars, read, pty, capture, bcast, files, server, open, view,
                 shown, from, dropped>>

(* handleInput: written to the terminal, which blocks while it is full.    *)
InputWritten(v) ==
  /\ pump[v] = "calling" /\ pty /\ input < InputCap
  /\ input' = input + 1 /\ pump' = [pump EXCEPT ![v] = "reading"]
  /\ UNCHANGED <<row, child, written, read, pty, capture, bcast, files, server, open,
                 view, typed, shown, from, dropped>>

(* There is no terminal, or the child is gone: the pump gives up and takes *)
(* the output with it.                                                     *)
InputRefused(v) ==
  /\ pump[v] = "calling" /\ (~pty \/ child = "dead")
  /\ Return(v, "left") /\ conn' = [conn EXCEPT ![v] = <<>>]
  /\ UNCHANGED <<childVars, read, pty, capture, bcast, files, handler, replay, typed,
                 shown, from, dropped>>

Client(v) == Poll(v) \/ Attach(v) \/ Receive(v)
Pump(v) == InputWritten(v) \/ InputRefused(v)

-----------------------------------------------------------------------------
Supervise == Spawn \/ CommitStart \/ HandleExit
Capture == Broadcast \/ Persist \/ Drained \/ CloseBroadcast \/ CloseLog
Terminal == WriteOutput \/ Exits

Next ==
  \/ Supervise \/ Capture \/ PersistFails \/ Reap \/ PostExit
  \/ Terminal \/ ReadInput \/ Killed
  \/ \E v \in Viewers : Handle(v) \/ Client(v) \/ Pump(v) \/ Detach(v) \/ Type(v)

Spec == Init /\ [][Next]_vars

(* The daemon's goroutines are scheduled, the child writes what it has to  *)
(* write and exits when the terminal lets it, and the clients run, but a   *)
(* viewer in Idle need not read.                                           *)
Fairness ==
  /\ WF_vars(Supervise) /\ WF_vars(Capture) /\ WF_vars(Reap) /\ WF_vars(PostExit)
  /\ WF_vars(Terminal)
  /\ \A v \in Viewers : WF_vars(Handle(v))
  /\ \A v \in Viewers \ Idle : WF_vars(Client(v)) /\ WF_vars(Pump(v))

FairSpec == Spec /\ Fairness

-----------------------------------------------------------------------------
(* Properties.                                                             *)

TypeOK ==
  /\ row \in {"PENDING", "RUNNING", "OVER"}
  /\ child \in {"none", "alive", "dead"}
  /\ read \in 0..written /\ written \in 0..MaxChunks /\ written - read <= TermCap
  /\ input \in 0..InputCap /\ pty \in BOOLEAN /\ faults \in 0..MaxFaults
  /\ typed \in 0..MaxTyped
  /\ capture \in {"none", "copy", "log", "close", "flush", "reap"}
  /\ Len(tail) <= MaxTail /\ closed \in BOOLEAN /\ subs \subseteq Viewers
  /\ \A v \in Viewers :
       /\ Len(chan[v]) <= SubCap /\ Len(conn[v]) <= ConnCap
       /\ handler[v] \in {"none", "look", "subscribe", "tail", "stream", "returned"}
       /\ view[v] \in {"poll", "ready", "gone", "attached", "done", "error", "left"}
       /\ open[v] <=> view[v] = "attached"
       /\ pump[v] \in {"off", "reading", "calling"}
       /\ dropped[v] \subseteq Chunks

Rendered(v) == {shown[v][i] : i \in DOMAIN shown[v]}

(* What a viewer renders is in the order written and nothing appears twice,*)
(* also where the replayed tail meets the live output.                     *)
RenderedInOrder ==
  \A v \in Viewers : \A i, j \in DOMAIN shown[v] : i < j => shown[v][i] < shown[v][j]

(* A viewer whose stream has ended normally has rendered everything from   *)
(* its tail on that did not find its buffer full, up to the last chunk:    *)
(* the end of the child does not overtake its output.                      *)
EndedSeesTheRest ==
  \A v \in Viewers : view[v] = "done" =>
    {c \in from[v]..read : c \notin dropped[v]} \subseteq Rendered(v)

(* So a viewer renders the output: in order, once, and to its end.         *)
RenderedIsTheOutput == TypeOK /\ RenderedInOrder /\ EndedSeesTheRest

(* attempt_exit carries the whole log, an unterminated last line included, *)
(* and the log has everything the child wrote: no viewer can keep a chunk  *)
(* from it, and detection never sees a torn tail.                          *)
ExitSeesWholeLog ==
  (exit # <<>> /\ faults = 0) => exit = << [c \in 1..written |-> c] >>

(* Once started, the child gets rid of its output, exits, and its exit is  *)
(* handled, though a viewer may stop reading for ever: neither a full      *)
(* buffer nor a full connection holds up the terminal.  A log that cannot  *)
(* be written does, see NothingStallsTheChild.                             *)
AttemptEnds == (child = "alive") ~> (row = "OVER" \/ faults > 0)

(* An attach ends when the child's output ends, whatever its user does and *)
(* whatever the other viewers do.                                          *)
AttachReturns ==
  \A v \in Viewers \ Idle : (view[v] = "attached") ~> (view[v] # "attached")

(* No handler outlives its attempt: whether its client is reading, has     *)
(* detached or never learnt of the end, it returns and has unsubscribed.   *)
NoAbandonedHandler ==
  \A v \in Viewers \ Idle :
    (handler[v] # "none") ~> (handler[v] = "returned" /\ v \notin subs)

(* Both ends of an attach end with the attempt.                            *)
BothEndsReturn == AttachReturns /\ NoAbandonedHandler

(* process.go:150, the capture discards what it cannot pass on "so the     *)
(* child never blocks", and :163, "the pipe must still be drained" when    *)
(* the writer has failed.                                                  *)
NothingStallsTheChild == (child = "alive") ~> (row = "OVER")
===============================================================================
