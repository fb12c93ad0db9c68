--------------------------------- MODULE Ipc ---------------------------------
(***************************************************************************)
(* One connection between a client and the daemon (internal/ipc): the      *)
(* client's Call and Stream with their watch goroutine, the server's       *)
(* serveConn, handleRequest and invoke, the senders of a streaming handler,*)
(* and the end of the server's context (daemon.shutdown or a signal).      *)
(*                                                                         *)
(* A request is known by its number, the id the client gives it; what is in*)
(* it is its kind.  Every client of this repository sends well-formed JSON.*)
(***************************************************************************)
EXTENDS Integers, Sequences, FiniteSets

CONSTANTS
  Senders,    \* goroutines of a streaming handler (followLogs has one per file)
  Kinds,      \* what the client asks for, a subset of AllKinds
  MaxCalls,   \* bound of the requests on the connection
  MaxChunks,  \* bound of the chunks of one sender
  SockCap     \* responses the socket takes before a write blocks

AllKinds == {
  "single",    \* a handler that returns a result
  "fail",      \* ... an error
  "panic",     \* ... panics
  "shutdown",  \* daemon.shutdown
  "stream",    \* a handler that sends chunks until its events end
  "wait",      \* remove --force, which waits for the end of a Task
  "input",     \* task.input, whose write the terminal need not take
  "unknown",   \* a method nobody has registered
  "huge"}      \* a line longer than the scanner's buffer

ASSUME IpcAssumption ==
  /\ Kinds \subseteq AllKinds /\ IsFiniteSet(Senders) /\ Senders # {}
  /\ MaxCalls \in Nat /\ MaxChunks \in Nat /\ SockCap \in Nat \ {0}

VARIABLES
  ctx,            \* the server's context has not been cancelled
  asked,          \* a shutdown is in shutdownCh
  csock, ssock,   \* the two ends of the connection are open
  up, down,       \* requests and responses in the socket
  serve,          \* serveConn: "scan", "invoke", "respond" or "returned"
  req,            \* the request it handles, 0 for none
  sender,         \* the streaming handler's senders: "on", "sending", "ended" or
                  \* "failed"
  result,         \* what invoke has returned: "result", "nil" or "error"
  calls,          \* the kinds of the requests made so far
  call,           \* the client: "idle", "reading" or "stalled" (in onEvent)
  \* History, read by properties only.
  outcome,        \* how each call ended: "ok", "error", "aborted" or "lost"
  got,            \* chunks each call has received
  wire,           \* every response written
  handled         \* what became of each request: "result", "nil", "error", "panic"

socket == <<csock, ssock, up, down>>
server == <<ctx, asked, serve, req, sender, result>>
client == <<calls, call>>
history == <<outcome, got, wire, handled>>
vars == <<socket, server, client, history>>

Init ==
  /\ ctx = TRUE /\ asked = FALSE
  /\ csock = TRUE /\ ssock = TRUE /\ up = <<>> /\ down = <<>>
  /\ serve = "scan" /\ req = 0 /\ result = "nil"
  /\ sender = [s \in Senders |-> "ended"]
  /\ calls = <<>> /\ call = "idle"
  /\ outcome = <<>> /\ wire = <<>>
  /\ got = [i \in 1..MaxCalls |-> 0] /\ handled = [i \in 1..MaxCalls |-> "none"]

-----------------------------------------------------------------------------
(* The client.  A Client is used by one command, one request at a time.    *)

Return(how) == call' = "idle" /\ outcome' = Append(outcome, how)

(* send, and the write fails on a connection either side has closed.       *)
Send(kind) ==
  /\ call = "idle" /\ Len(calls) < MaxCalls
  /\ calls' = Append(calls, kind)
  /\ IF csock /\ ssock
     THEN up' = Append(up, Len(calls) + 1) /\ call' = "reading" /\ UNCHANGED outcome
     ELSE Return("lost") /\ UNCHANGED up
  /\ UNCHANGED <<csock, ssock, down, server, got, wire, handled>>

(* A response of the request's id ends the call, unless it is a chunk.     *)
Receive ==
  /\ call = "reading" /\ csock /\ down # <<>>
  /\ down' = Tail(down)
  /\ LET resp == Head(down)
     IN  IF resp.id # Len(calls) THEN UNCHANGED <<call, outcome, got>>
         ELSE IF resp.kind = "chunk"
         THEN got' = [got EXCEPT ![resp.id] = @ + 1] /\ UNCHANGED <<call, outcome>>
         ELSE Return(IF resp.kind = "error" THEN "error" ELSE "ok") /\ UNCHANGED got
  /\ UNCHANGED <<csock, ssock, up, server, calls, wire, handled>>

AbortKeepsConnection == \* mutant
  /\ call = "reading" /\ csock /\ down # <<>>
  /\ Head(down).id = Len(calls) /\ Head(down).kind = "chunk"
  /\ down' = Tail(down) /\ Return("aborted")
  /\ UNCHANGED <<csock, ssock, up, server, calls, got, wire, handled>>

(* onEvent fails: the connection is closed.                                *)
Abort ==
  /\ call = "reading" /\ csock /\ down # <<>>
  /\ Head(down).id = Len(calls) /\ Head(down).kind = "chunk"
  /\ csock' = FALSE /\ down' = <<>> /\ Return("aborted")
  /\ UNCHANGED <<ssock, up, server, calls, got, wire, handled>>

(* readErr: the connection is closed, here or there.                       *)
ReadFails ==
  /\ call = "reading" /\ (~csock \/ (~ssock /\ down = <<>>))
  /\ Return("lost")
  /\ UNCHANGED <<socket, server, calls, got, wire, handled>>

(* watch: the command's context is cancelled; or the command is over and   *)
(* closes its Client.                                                      *)
CloseClient ==
  /\ csock /\ csock' = FALSE /\ down' = <<>>
  /\ UNCHANGED <<ssock, up, server, client, history>>

(* What onEvent writes to does not take it.                                *)
Stall ==
  /\ call = "reading" /\ call' = "stalled"
  /\ UNCHANGED <<socket, server, calls, history>>

Proceed ==
  /\ call = "stalled" /\ call' = "reading"
  /\ UNCHANGED <<socket, server, calls, history>>

-----------------------------------------------------------------------------
(* The server.                                                             *)

Response(id, kind) == [id |-> id, kind |-> kind]

(* Stream.encode: on a connection that either end has closed the write     *)
(* fails, on a full one it blocks.                                         *)
Writable == csock /\ ssock
Encode(resp) ==
  /\ Len(down) < SockCap
  /\ down' = Append(down, resp) /\ wire' = Append(wire, resp)

EncodeOrFail(resp) == IF Writable THEN Encode(resp) ELSE UNCHANGED <<down, wire>>

(* scanner.Scan and handleRequest: a line that is too long ends the        *)
(* connection, a method without a handler is "not_found".                  *)
ScanHuge ==
  /\ serve = "scan" /\ ssock /\ up # <<>> /\ calls[Head(up)] = "huge"
  /\ up' = Tail(up) /\ ssock' = FALSE /\ serve' = "returned"
  /\ UNCHANGED <<csock, down, ctx, asked, req, sender, result, client, history>>

UnknownIgnored == \* mutant
  /\ serve = "scan" /\ ssock /\ up # <<>> /\ calls[Head(up)] = "unknown"
  /\ up' = Tail(up)
  /\ UNCHANGED <<csock, ssock, down, server, client, history>>

ScanUnknown ==
  /\ serve = "scan" /\ ssock /\ up # <<>> /\ calls[Head(up)] = "unknown"
  /\ up' = Tail(up) /\ handled' = [handled EXCEPT ![Head(up)] = "error"]
  /\ EncodeOrFail(Response(Head(up), "error"))
  /\ UNCHANGED <<csock, ssock, server, client, outcome, got>>

Dispatch ==
  /\ serve = "scan" /\ ssock /\ up # <<>> /\ calls[Head(up)] \notin {"huge", "unknown"}
  /\ up' = Tail(up) /\ serve' = "invoke" /\ req' = Head(up)
  /\ sender' = [s \in Senders |-> IF calls[Head(up)] = "stream" THEN "on" ELSE "ended"]
  /\ UNCHANGED <<csock, ssock, down, ctx, asked, result, client, history>>

(* The end of the connection is only noticed here, between two requests.   *)
ScanEnds ==
  /\ serve = "scan" /\ (~ssock \/ (~csock /\ up = <<>>))
  /\ serve' = "returned" /\ ssock' = FALSE
  /\ UNCHANGED <<csock, up, down, ctx, asked, req, sender, result, client, history>>

Sender(s, from, to) ==
  /\ serve = "invoke" /\ sender[s] = from /\ sender' = [sender EXCEPT ![s] = to]
  /\ UNCHANGED <<csock, ssock, up, ctx, asked, serve, req, result, client, outcome,
                 got, handled>>

Sent(id) == Cardinality({i \in DOMAIN wire : wire[i] = Response(id, "chunk")})

(* The handler has something to send: an event, a line, some output.       *)
TakeEvent(s) ==
  /\ Sender(s, "on", "sending") /\ Sent(req) < MaxChunks /\ UNCHANGED <<down, wire>>

\* Mutant: a chunk the socket has no room for is left out.
SendDropping(s) ==
  /\ Sender(s, "sending", "on") /\ Writable
  /\ wire' = Append(wire, Response(req, "chunk"))
  /\ down' = IF Len(down) < SockCap THEN Append(down, Response(req, "chunk")) ELSE down

(* Stream.Send, under writeMu.                                             *)
SendChunk(s) ==
  /\ Sender(s, "sending", "on") /\ Writable /\ Encode(Response(req, "chunk"))

SendFails(s) ==
  /\ Sender(s, "sending", "failed") /\ ~Writable /\ UNCHANGED <<down, wire>>

(* The events end, by themselves or because the context has been cancelled.*)
EventsEnd(s) == Sender(s, "on", "ended") /\ UNCHANGED <<down, wire>>

ContextEnds(s) == ~ctx /\ EventsEnd(s)

\* Mutant: a panic is recovered from without an error.
ReturnedForgetsPanic(did) == IF did = "panic" THEN "nil" ELSE did

(* invoke: a panic is an internal error.                                   *)
Returned(did) == IF did = "panic" THEN "error" ELSE did

(* What the handler of a request may do now; a streaming one waits for all *)
(* its senders and returns the first error.                                *)
HandlerDoes(id) ==
  CASE calls[id] = "stream" -> IF \E s \in Senders : sender[s] \in {"on", "sending"} THEN {}
                               ELSE IF \E s \in Senders : sender[s] = "failed" THEN {"error"}
                               ELSE {"nil"}
    [] calls[id] = "fail" -> {"error"}
    [] calls[id] = "panic" -> {"panic"}
    [] calls[id] \in {"wait", "input"} -> {"result", "error"}
    [] OTHER -> {"result"}

(* A handler that nothing need ever make return: the event that waitTerminal*)
(* waits for may not come, and only the end of the context ends its wait;  *)
(* WriteInput does not look at the context at all.                         *)
MayBlock(id) == calls[id] = "input" \/ (calls[id] = "wait" /\ ctx)

Invoke ==
  /\ serve = "invoke"
  /\ \E did \in HandlerDoes(req) :
       handled' = [handled EXCEPT ![req] = did] /\ result' = Returned(did)
  /\ serve' = "respond"
  /\ asked' = (asked \/ calls[req] = "shutdown")
  /\ UNCHANGED <<socket, ctx, req, sender, client, outcome, got, wire>>

InvokeReturns == serve = "invoke" /\ ~MayBlock(req) /\ Invoke

\* Mutant: no return after the error envelope.
RespondTwice ==
  /\ serve = "respond" /\ EncodeOrFail(Response(req, result))
  /\ IF result = "error" THEN result' = "nil" /\ UNCHANGED <<serve, req>>
     ELSE serve' = "scan" /\ req' = 0 /\ UNCHANGED result
  /\ UNCHANGED <<csock, ssock, up, ctx, asked, sender, client, outcome, got, handled>>

(* The terminal response; that it cannot be written is ignored.            *)
Respond ==
  /\ serve = "respond" /\ EncodeOrFail(Response(req, result))
  /\ serve' = "scan" /\ req' = 0
  /\ UNCHANGED <<csock, ssock, up, ctx, asked, sender, result, client, outcome, got,
                 handled>>

-----------------------------------------------------------------------------
(* The end of the daemon: main takes the request from shutdownCh, or a     *)
(* signal arrives.  Then the goroutine of each connection closes it.       *)
CancelOnRequest ==
  /\ ctx /\ asked /\ ctx' = FALSE
  /\ UNCHANGED <<socket, asked, serve, req, sender, result, client, history>>

CancelOnSignal ==
  /\ ctx /\ ctx' = FALSE
  /\ UNCHANGED <<socket, asked, serve, req, sender, result, client, history>>

CloseWhenIdle == \* mutant
  /\ ~ctx /\ ssock /\ serve = "scan" /\ ssock' = FALSE
  /\ UNCHANGED <<csock, up, down, server, client, history>>

CloseOnCancel ==
  /\ ~ctx /\ ssock /\ ssock' = FALSE
  /\ UNCHANGED <<csock, up, down, server, client, history>>

(* What the goroutines of a connection do without waiting for anyone but   *)
(* the socket.                                                             *)
Serve ==
  \/ ScanHuge \/ ScanUnknown \/ Dispatch \/ ScanEnds \/ InvokeReturns \/ Respond
  \/ \E s \in Senders : SendChunk(s) \/ SendFails(s) \/ ContextEnds(s)

Next ==
  \/ \E kind \in Kinds : Send(kind)
  \/ Receive \/ Abort \/ ReadFails \/ CloseClient \/ Stall \/ Proceed
  \/ Serve \/ Invoke \/ CancelOnRequest \/ CancelOnSignal \/ CloseOnCancel
  \/ \E s \in Senders : TakeEvent(s) \/ EventsEnd(s)

Spec == Init /\ [][Next]_vars

(* The goroutines are scheduled and the client reads.  Nothing makes a     *)
(* streaming handler's events come or end, a handler that may block return,*)
(* nor a stalled client proceed.                                           *)
Fairness ==
  /\ WF_vars(Serve) /\ WF_vars(CancelOnRequest) /\ WF_vars(CloseOnCancel)
  /\ WF_vars(Receive \/ ReadFails)

FairSpec == Spec /\ Fairness

-----------------------------------------------------------------------------
(* Properties.                                                             *)

TypeOK ==
  /\ {ctx, asked, csock, ssock} \subseteq BOOLEAN
  /\ calls \in Seq(Kinds) /\ Len(calls) <= MaxCalls
  /\ up \in Seq(1..MaxCalls) /\ Len(up) <= 1 /\ Len(down) <= SockCap
  /\ serve \in {"scan", "invoke", "respond", "returned"}
  /\ req \in 0..Len(calls) /\ (req = 0 <=> serve \in {"scan", "returned"})
  /\ sender \in [Senders -> {"on", "sending", "ended", "failed"}]
  /\ result \in {"result", "nil", "error"}
  /\ call \in {"idle", "reading", "stalled"}
  /\ Len(outcome) = Len(calls) - (IF call = "idle" THEN 0 ELSE 1)
  /\ handled \in [1..MaxCalls -> {"none", "result", "nil", "error", "panic"}]

(* What is written on a connection: the requests one after the other, of   *)
(* each the chunks first and nothing after its terminal response, of which *)
(* there is no second one (ipc.go:18-22, "exactly one terminal Response"), *)
(* also when two senders share the stream and one of them has failed.  That*)
(* there is one at all, while the connection lasts, is CallReturns.        *)
OneTerminalResponse ==
  \A i, j \in DOMAIN wire :
    i < j => /\ wire[i].id <= wire[j].id
             /\ wire[i].kind # "chunk" => wire[i].id < wire[j].id

(* A call that has succeeded was handled without an error, and one that has*)
(* failed with the daemon's error was not: no answer is taken for another  *)
(* request's, and a panic is never a success.                              *)
AnswerIsTheHandlers ==
  \A i \in DOMAIN outcome :
    /\ outcome[i] = "ok" => handled[i] \in {"result", "nil"}
    /\ outcome[i] = "error" => handled[i] \in {"error", "panic"}

(* A stream that has ended normally was received whole.                    *)
StreamIsWhole ==
  \A i \in DOMAIN outcome : (calls[i] = "stream" /\ outcome[i] = "ok") => got[i] = Sent(i)

(* The connection can be used again: between two calls nothing is left in  *)
(* it, or it is closed.                                                    *)
NothingLeftOver == (call = "idle" /\ csock /\ ssock) => (up = <<>> /\ down = <<>>)

(* So each call has its own answer, the whole of it, and nothing else.     *)
EachCallItsAnswer ==
  TypeOK /\ AnswerIsTheHandlers /\ StreamIsWhole /\ NothingLeftOver

(* A call whose handler waits for nobody returns, whatever is asked of the *)
(* daemon, and so does every call when the daemon ends.                    *)
CallReturns ==
  (call = "reading" /\ (~ctx \/ calls[Len(calls)] \notin {"stream", "wait", "input"}))
    ~> (call # "reading")

(* Once the context is cancelled every connection ends, though its client  *)
(* may not be reading and a handler be blocked in a write to it or wait for*)
(* an event; except one that a write to a terminal holds.                  *)
ShutdownEndsConnections ==
  ~ctx ~> (serve = "returned" \/ (serve = "invoke" /\ calls[req] = "input"))

(* docs/architecture.md:315, a stream ends when "the Client disconnects",  *)
(* and methods.go:450, "until ... the client goes away".                   *)
DisconnectEndsHandler == ~csock ~> serve = "returned"
=============================================================================
