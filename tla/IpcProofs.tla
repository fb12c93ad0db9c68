----------------------------- MODULE IpcProofs -----------------------------
(***************************************************************************)
(* What is written on a connection and what its client makes of it, for any*)
(* senders, any sequence of requests and any socket.                       *)
(*                                                                         *)
(* That a terminal response is the only one of its request, and that a call*)
(* takes its own, rest on there being one request under way at a time. The *)
(* server does not count: the client does not ask again before the answer, *)
(* and a call that ended without one leaves a connection of which an end is*)
(* closed, on which nothing is written any more (PlaceInv).  So what is in *)
(* the socket belongs to the call that reads it (DownInv), and a call that *)
(* found its terminal response has received all that was written before it *)
(* (GotInv).                                                               *)
(***************************************************************************)
EXTENDS Ipc, FiniteSetTheorems, TLAPS

Responses == [id : 1..MaxCalls, kind : {"chunk", "result", "nil", "error"}]

ServerTypeOK ==
  /\ ctx \in BOOLEAN /\ asked \in BOOLEAN /\ csock \in BOOLEAN /\ ssock \in BOOLEAN
  /\ up \in Seq(1..MaxCalls) /\ Len(up) <= 1
  /\ down \in Seq(Responses) /\ Len(down) <= SockCap
  /\ serve \in {"scan", "invoke", "respond", "returned"}
  /\ req \in 0..Len(calls) /\ (req = 0 <=> serve \in {"scan", "returned"})
  /\ sender \in [Senders -> {"on", "sending", "ended", "failed"}]
  /\ result \in {"result", "nil", "error"}

ClientTypeOK ==
  /\ calls \in Seq(Kinds) /\ Len(calls) <= MaxCalls
  /\ call \in {"idle", "reading", "stalled"}
  /\ outcome \in Seq({"ok", "error", "aborted", "lost"})
  /\ Len(outcome) = Len(calls) - (IF call = "idle" THEN 0 ELSE 1)
  /\ got \in [1..MaxCalls -> Nat]
  /\ wire \in Seq(Responses)
  /\ handled \in [1..MaxCalls -> {"none", "result", "nil", "error", "panic"}]

\* While both ends are open there is at most one request under way, the one the
\* client is waiting for.
PlaceInv ==
  /\ serve = "returned" => ~ssock
  /\ ~csock => down = <<>>
  /\ up # <<>> => req = 0 /\ up[1] <= Len(calls)
  /\ csock /\ ssock /\ up # <<>> => call # "idle" /\ up[1] = Len(calls)
  /\ csock /\ ssock /\ req # 0 => call # "idle" /\ req = Len(calls)

\* What is still to be answered has no terminal response yet.
WireInv ==
  /\ OneTerminalResponse
  /\ \A i \in DOMAIN wire :
       /\ wire[i].id <= Len(calls)
       /\ up # <<>> => wire[i].id < up[1]
       /\ req # 0 => wire[i].id <= req /\ (wire[i].kind # "chunk" => wire[i].id < req)

Agree(kind, did) ==
  /\ kind \in {"result", "nil"} => did \in {"result", "nil"}
  /\ kind = "error" => did \in {"error", "panic"}

\* A response says what became of its request, an outcome what its response said.
AnswerInv ==
  /\ \A i \in DOMAIN wire : Agree(wire[i].kind, handled[wire[i].id])
  /\ serve = "respond" => Agree(result, handled[req])
  /\ \A i \in DOMAIN outcome : outcome[i] \in {"ok", "error"} =>
       \E j \in DOMAIN wire : /\ wire[j].id = i /\ wire[j].kind # "chunk"
                              /\ outcome[i] = "error" <=> wire[j].kind = "error"

\* What is in the socket is the last of what was written, of the request the
\* client is waiting for.
DownInv ==
  /\ Len(down) <= Len(wire)
  /\ \A i \in DOMAIN down :
       /\ down[i] = wire[Len(wire) - Len(down) + i]
       /\ down[i].id = Len(calls)
       /\ down[i].kind # "chunk" => i = Len(down) /\ up = <<>> /\ req = 0
  /\ down # <<>> => call # "idle"

ChunksIn(w, m, id) == {i \in 1..m : w[i] = Response(id, "chunk")}

\* The client has received what was written and is no longer in the socket.
GotInv ==
  /\ csock /\ call # "idle" =>
       got[Len(calls)] = Cardinality(ChunksIn(wire, Len(wire) - Len(down), Len(calls)))
  /\ \A k \in 1..MaxCalls : k > Len(calls) => got[k] = 0
  /\ StreamIsWhole

IInv == /\ ServerTypeOK /\ ClientTypeOK
        /\ PlaceInv /\ WireInv /\ AnswerInv /\ DownInv /\ GotInv

-----------------------------------------------------------------------------
\* Counting chunks.

\* One response more is counted if it is a chunk of the request.
LEMMA ChunksGrow ==
  ASSUME NEW w, NEW m \in Nat, NEW id
  PROVE  /\ Cardinality(ChunksIn(w, m, id)) \in Nat
         /\ Cardinality(ChunksIn(w, m + 1, id))
              = IF w[m + 1] = Response(id, "chunk") THEN Cardinality(ChunksIn(w, m, id)) + 1
                ELSE Cardinality(ChunksIn(w, m, id))
<1> DEFINE C == ChunksIn(w, m, id)
           D == ChunksIn(w, m + 1, id)
<1>1. IsFiniteSet(1..m)
  BY FS_Interval
<1>2. C \subseteq 1..m
  BY DEF ChunksIn
<1>3. IsFiniteSet(C)
  BY <1>1, <1>2, FS_Subset
<1>4. Cardinality(C) \in Nat
  BY <1>3, FS_CardinalityType
<1>5. m + 1 \notin C
  BY <1>2
<1>6. \A i \in 1..(m + 1) : i \in 1..m \/ i = m + 1
  OBVIOUS
<1>7. 1..m \subseteq 1..(m + 1) /\ m + 1 \in 1..(m + 1)
  OBVIOUS
<1>8. CASE w[m + 1] = Response(id, "chunk")
  <2>1. D = C \union {m + 1}
    BY <1>6, <1>7, <1>8 DEF ChunksIn
  <2>2. Cardinality(C \union {m + 1}) = Cardinality(C) + 1
    BY <1>3, <1>5, FS_AddElement
  <2> QED
    BY <1>4, <1>8, <2>1, <2>2
<1>9. CASE w[m + 1] # Response(id, "chunk")
  <2>1. D = C
    BY <1>6, <1>7, <1>9 DEF ChunksIn
  <2> QED
    BY <1>4, <1>9, <2>1
<1> QED
  BY <1>8, <1>9

\* Only what is in the range counts.
LEMMA ChunksSame ==
  ASSUME NEW w, NEW x, NEW m \in Nat, NEW id, \A i \in 1..m : x[i] = w[i]
  PROVE  ChunksIn(x, m, id) = ChunksIn(w, m, id)
BY DEF ChunksIn

\* Sent counts the whole wire.
LEMMA SentIs ==
  ASSUME wire \in Seq(Responses), NEW id
  PROVE  Sent(id) = Cardinality(ChunksIn(wire, Len(wire), id))
<1>1. DOMAIN wire = 1..Len(wire)
  OBVIOUS
<1> QED
  BY <1>1 DEF Sent, ChunksIn

\* One element more at the end.
LEMMA AppendFacts ==
  ASSUME NEW S, NEW s \in Seq(S), NEW e \in S
  PROVE  /\ Append(s, e) \in Seq(S) /\ Len(Append(s, e)) = Len(s) + 1 /\ Len(s) \in Nat
         /\ Append(s, e)[Len(s) + 1] = e /\ Len(s) + 1 \in DOMAIN Append(s, e)
         /\ \A i \in DOMAIN s : i \in Nat /\ i <= Len(s) /\ i >= 1
                                /\ i \in DOMAIN Append(s, e) /\ Append(s, e)[i] = s[i]
         /\ \A i \in DOMAIN Append(s, e) : i \in DOMAIN s \/ i = Len(s) + 1
<1> DEFINE t == Append(s, e)
<1>1. /\ t \in Seq(S) /\ Len(t) = Len(s) + 1 /\ Len(s) \in Nat /\ t[Len(s) + 1] = e
      /\ DOMAIN s = 1..Len(s) /\ DOMAIN t = 1..(Len(s) + 1)
      /\ \A i \in 1..Len(s) : t[i] = s[i]
  OBVIOUS
<1>2. \A i \in 1..(Len(s) + 1) : i \in 1..Len(s) \/ i = Len(s) + 1
  BY <1>1
<1>3. 1..Len(s) \subseteq 1..(Len(s) + 1) /\ Len(s) + 1 \in 1..(Len(s) + 1)
  BY <1>1
<1> HIDE DEF t
<1> QED
  BY <1>1, <1>2, <1>3 DEF t

-----------------------------------------------------------------------------
\* The steps that neither write nor read anything.
LEMMA QuietInv ==
  ASSUME IInv,
         UNCHANGED <<csock, up, down, serve, req, result, calls, outcome, got, wire, handled>>,
         call' \in {"idle", "reading", "stalled"}, call' = "idle" <=> call = "idle",
         ctx' \in BOOLEAN, asked' \in BOOLEAN, ssock' \in BOOLEAN, ssock' => ssock,
         sender' \in [Senders -> {"on", "sending", "ended", "failed"}]
  PROVE  IInv'
<1>1. ServerTypeOK' /\ ClientTypeOK'
  BY DEF IInv, ServerTypeOK, ClientTypeOK
<1>2. PlaceInv'
  BY DEF IInv, PlaceInv
<1>3. WireInv' /\ AnswerInv'
  BY DEF IInv, WireInv, OneTerminalResponse, AnswerInv
<1>4. DownInv'
  BY DEF IInv, DownInv
<1>5. \A id : Sent(id)' = Sent(id)
  BY DEF Sent
<1>6. GotInv'
  BY <1>5 DEF IInv, GotInv, StreamIsWhole
<1> QED
  BY <1>1, <1>2, <1>3, <1>4, <1>6 DEF IInv

\* They are: stalling, the end of the context, and the events of the senders.
LEMMA QuietSteps ==
  ASSUME IInv,
         \/ Stall \/ Proceed \/ CancelOnRequest \/ CancelOnSignal \/ CloseOnCancel
         \/ \E s \in Senders : TakeEvent(s) \/ SendFails(s) \/ EventsEnd(s) \/ ContextEnds(s)
         \/ UNCHANGED vars
  PROVE  IInv'
<1>1. /\ ctx \in BOOLEAN /\ asked \in BOOLEAN /\ ssock \in BOOLEAN
      /\ sender \in [Senders -> {"on", "sending", "ended", "failed"}]
      /\ call \in {"idle", "reading", "stalled"}
  BY DEF IInv, ServerTypeOK, ClientTypeOK
<1>2. CASE Stall \/ Proceed
  <2>1. /\ UNCHANGED <<csock, up, down, serve, req, result, calls, outcome, got, wire, handled, ctx,
                       asked, ssock, sender>>
        /\ call' \in {"idle", "reading", "stalled"} /\ (call' = "idle" <=> call = "idle")
    BY <1>1, <1>2 DEF Stall, Proceed, socket, server, history
  <2> QED
    BY <1>1, <2>1, QuietInv
<1>3. CASE CancelOnRequest \/ CancelOnSignal
  <2>1. /\ UNCHANGED <<csock, up, down, serve, req, result, calls, outcome, got, wire, handled, call,
                       asked, ssock, sender>>
        /\ ctx' \in BOOLEAN
    BY <1>3 DEF CancelOnRequest, CancelOnSignal, socket, client, history
  <2> QED
    BY <1>1, <2>1, QuietInv
<1>4. CASE CloseOnCancel
  <2>1. /\ UNCHANGED <<csock, up, down, serve, req, result, calls, outcome, got, wire, handled, call,
                       asked, ctx, sender>>
        /\ ssock' = FALSE
    BY <1>4 DEF CloseOnCancel, server, client, history
  <2> QED
    BY <1>1, <2>1, QuietInv
<1>5. CASE \E s \in Senders : TakeEvent(s) \/ SendFails(s) \/ EventsEnd(s) \/ ContextEnds(s)
  <2>1. PICK s \in Senders : TakeEvent(s) \/ SendFails(s) \/ EventsEnd(s) \/ ContextEnds(s)
    BY <1>5
  <2>2. /\ UNCHANGED <<csock, up, down, serve, req, result, calls, outcome, got, wire, handled, call,
                       asked, ctx, ssock>>
        /\ sender' \in [Senders -> {"on", "sending", "ended", "failed"}]
    BY <1>1, <2>1 DEF TakeEvent, SendFails, EventsEnd, ContextEnds, Sender, client
  <2> QED
    BY <1>1, <2>2, QuietInv
<1>6. CASE UNCHANGED vars
  <2>1. UNCHANGED <<csock, up, down, serve, req, result, calls, outcome, got, wire, handled, call,
                    asked, ctx, ssock, sender>>
    BY <1>6 DEF vars, socket, server, client, history
  <2> QED
    BY <1>1, <2>1, QuietInv
<1> QED
  BY <1>2, <1>3, <1>4, <1>5, <1>6

\* A response is written, of the request the client is waiting for.
LEMMA EncodeStep ==
  ASSUME IInv, NEW r \in Responses, Encode(r), call # "idle", r.id = Len(calls),
         \A i \in DOMAIN wire : wire[i].kind # "chunk" => wire[i].id < r.id,
         \A i \in DOMAIN down : down[i].kind = "chunk",
         UNCHANGED <<csock, calls, call, got, outcome>>
  PROVE  /\ wire' \in Seq(Responses) /\ down' \in Seq(Responses) /\ Len(down') <= SockCap
         /\ \A i \in DOMAIN wire : i \in DOMAIN wire' /\ wire'[i] = wire[i]
         /\ \A i \in DOMAIN wire' : (i \in DOMAIN wire /\ wire'[i] = wire[i]) \/ wire'[i] = r
         /\ OneTerminalResponse'
         /\ Len(down') <= Len(wire')
         /\ \A i \in DOMAIN down' :
              /\ down'[i] = wire'[Len(wire') - Len(down') + i]
              /\ down'[i].id = Len(calls)
              /\ down'[i].kind # "chunk" => i = Len(down') /\ r.kind # "chunk"
         /\ GotInv'
<1>1. /\ wire \in Seq(Responses) /\ down \in Seq(Responses) /\ Len(down) <= Len(wire)
      /\ calls \in Seq(Kinds) /\ Len(down) <= SockCap
      /\ DownInv /\ WireInv /\ GotInv
  BY DEF IInv, ServerTypeOK, ClientTypeOK, DownInv
<1>2. down' = Append(down, r) /\ wire' = Append(wire, r) /\ Len(down) < SockCap
  BY DEF Encode
<1>3. /\ wire' \in Seq(Responses) /\ Len(wire') = Len(wire) + 1 /\ Len(wire) \in Nat
      /\ wire'[Len(wire) + 1] = r /\ Len(wire) + 1 \in DOMAIN wire'
      /\ \A i \in DOMAIN wire : i \in Nat /\ i <= Len(wire) /\ i >= 1
                                /\ i \in DOMAIN wire' /\ wire'[i] = wire[i]
      /\ \A i \in DOMAIN wire' : i \in DOMAIN wire \/ i = Len(wire) + 1
  BY <1>1, <1>2, AppendFacts
<1>4. /\ down' \in Seq(Responses) /\ Len(down') = Len(down) + 1 /\ Len(down) \in Nat
      /\ down'[Len(down) + 1] = r /\ Len(down) + 1 \in DOMAIN down'
      /\ \A i \in DOMAIN down : i \in Nat /\ i <= Len(down) /\ i >= 1
                                /\ i \in DOMAIN down' /\ down'[i] = down[i]
      /\ \A i \in DOMAIN down' : i \in DOMAIN down \/ i = Len(down) + 1
  BY <1>1, <1>2, AppendFacts
<1>5. Len(down') <= SockCap
  BY <1>2, <1>4, IpcAssumption
<1>6. OneTerminalResponse'
  <2> SUFFICES ASSUME NEW i \in DOMAIN wire', NEW j \in DOMAIN wire', i < j
               PROVE  /\ wire'[i].id <= wire'[j].id
                      /\ wire'[i].kind # "chunk" => wire'[i].id < wire'[j].id
    BY DEF OneTerminalResponse
  <2>1. i \in DOMAIN wire /\ wire'[i] = wire[i]
    BY <1>3
  <2>2. CASE j \in DOMAIN wire
    BY <1>1, <1>3, <2>1, <2>2 DEF WireInv, OneTerminalResponse
  <2>3. CASE j = Len(wire) + 1
    BY <1>1, <1>3, <2>1, <2>3 DEF WireInv
  <2> QED
    BY <1>3, <2>2, <2>3
<1>7. Len(wire') - Len(down') = Len(wire) - Len(down) /\ Len(wire) - Len(down) \in Nat
  BY <1>1, <1>3, <1>4
<1>8. ASSUME NEW i \in DOMAIN down'
      PROVE  /\ down'[i] = wire'[Len(wire') - Len(down') + i]
             /\ down'[i].id = Len(calls)
             /\ down'[i].kind # "chunk" => i = Len(down') /\ r.kind # "chunk"
  <2>1. CASE i \in DOMAIN down
    <3>1. down[i] = wire[Len(wire) - Len(down) + i] /\ down[i].id = Len(calls) /\ down'[i] = down[i]
      BY <1>1, <1>4, <2>1 DEF DownInv
    <3>2. Len(wire) - Len(down) + i \in 1..Len(wire)
      BY <1>3, <1>4, <1>7, <2>1
    <3>3. wire'[Len(wire) - Len(down) + i] = wire[Len(wire) - Len(down) + i]
      BY <1>1, <1>3, <3>2
    <3> QED
      BY <1>7, <2>1, <3>1, <3>3
  <2>2. CASE i = Len(down) + 1
    <3>1. Len(wire) - Len(down) + i = Len(wire) + 1
      BY <1>3, <1>4, <2>2
    <3> QED
      BY <1>3, <1>4, <1>7, <2>2, <3>1
  <2> QED
    BY <1>4, <2>1, <2>2
<1>9. GotInv'
  <2>1. \A id : ChunksIn(wire', Len(wire), id) = ChunksIn(wire, Len(wire), id)
    <3>1. \A i \in 1..Len(wire) : wire'[i] = wire[i]
      BY <1>1, <1>3
    <3> QED
      BY <1>3, <3>1, ChunksSame
  <2>2. ChunksIn(wire', Len(wire) - Len(down), Len(calls)) = ChunksIn(wire, Len(wire) - Len(down), Len(calls))
    <3>1. \A i \in 1..(Len(wire) - Len(down)) : wire'[i] = wire[i]
      BY <1>1, <1>3, <1>4
    <3> QED
      BY <1>7, <3>1, ChunksSame
  <2>3. ASSUME NEW id, id # Len(calls) PROVE Sent(id)' = Sent(id)
    <3>1. wire'[Len(wire) + 1] # Response(id, "chunk")
      BY <1>3, <2>3 DEF Response
    <3>2. Cardinality(ChunksIn(wire', Len(wire) + 1, id)) = Cardinality(ChunksIn(wire', Len(wire), id))
      BY <1>3, <3>1, ChunksGrow
    <3>3. Sent(id)' = Cardinality(ChunksIn(wire', Len(wire'), id))
      <4>1. DOMAIN wire' = 1..Len(wire')
        BY <1>3
      <4> QED
        BY <4>1 DEF Sent, ChunksIn
    <3>4. Sent(id) = Cardinality(ChunksIn(wire, Len(wire), id))
      BY <1>1, SentIs
    <3> QED
      BY <1>3, <2>1, <3>2, <3>3, <3>4
  <2>4. \A i \in DOMAIN outcome : i # Len(calls)
    <3>1. Len(outcome) = Len(calls) - 1 /\ outcome \in Seq({"ok", "error", "aborted", "lost"})
      BY DEF IInv, ClientTypeOK
    <3> QED
      BY <1>1, <3>1
  <2>5. StreamIsWhole'
    BY <1>1, <2>3, <2>4 DEF GotInv, StreamIsWhole
  <2> QED
    BY <1>1, <1>7, <2>2, <2>5 DEF GotInv
<1> QED
  BY <1>3, <1>4, <1>5, <1>6, <1>7, <1>8, <1>9

\* The first element, and the rest.
LEMMA HeadIsFirst ==
  ASSUME NEW S, NEW s \in Seq(S), s # <<>>
  PROVE  /\ Tail(s) \in Seq(S) /\ Len(Tail(s)) = Len(s) - 1 /\ Head(s) = s[1] /\ Head(s) \in S
         /\ Len(s) \in Nat /\ Len(s) >= 1 /\ 1 \in DOMAIN s
         /\ \A i \in DOMAIN Tail(s) : i \in Nat /\ i + 1 \in DOMAIN s /\ Tail(s)[i] = s[i + 1]
<1>1. /\ Tail(s) \in Seq(S) /\ Len(s) \in Nat /\ Len(s) > 0 /\ Head(s) = s[1]
      /\ DOMAIN s = 1..Len(s) /\ DOMAIN Tail(s) = 1..(Len(s) - 1)
      /\ \A i \in 1..(Len(s) - 1) : Tail(s)[i] = s[i + 1]
      /\ Len(Tail(s)) = Len(s) - 1
  OBVIOUS
<1>2. \A i \in DOMAIN Tail(s) : i \in Nat /\ i + 1 \in DOMAIN s /\ Tail(s)[i] = s[i + 1]
  BY <1>1
<1>3. 1 \in DOMAIN s /\ Head(s) \in S
  BY <1>1
<1> QED
  BY <1>1, <1>2, <1>3

\* The socket holds at most one request.
LEMMA UpHead ==
  ASSUME IInv, up # <<>>
  PROVE  /\ Head(up) = up[1] /\ Tail(up) = <<>> /\ <<>> \in Seq(1..MaxCalls) /\ Len(<<>>) = 0
         /\ up[1] \in 1..MaxCalls /\ up[1] <= Len(calls) /\ req = 0
         /\ Len(calls) \in Nat
<1>1. /\ up \in Seq(1..MaxCalls) /\ Len(up) <= 1 /\ up[1] <= Len(calls) /\ req = 0
      /\ calls \in Seq(Kinds)
  BY DEF IInv, ServerTypeOK, ClientTypeOK, PlaceInv
<1>2. Len(up) = 1 /\ up[1] \in 1..MaxCalls /\ Head(up) = up[1] /\ Len(Tail(up)) = 0
      /\ Tail(up) \in Seq(1..MaxCalls)
  <2>1. /\ Tail(up) \in Seq(1..MaxCalls) /\ Len(Tail(up)) = Len(up) - 1 /\ Head(up) = up[1]
        /\ Head(up) \in 1..MaxCalls /\ Len(up) \in Nat /\ Len(up) >= 1
    <3> DEFINE S == 1..MaxCalls
    <3>1. up \in Seq(S) /\ up # <<>>
      BY <1>1
    <3> HIDE DEF S
    <3>2. /\ Tail(up) \in Seq(S) /\ Len(Tail(up)) = Len(up) - 1 /\ Head(up) = up[1]
          /\ Head(up) \in S /\ Len(up) \in Nat /\ Len(up) >= 1
      BY <3>1, HeadIsFirst
    <3> QED
      BY <3>2 DEF S
  <2> QED
    BY <1>1, <2>1
<1>3. \A u \in Seq(1..MaxCalls) : Len(u) = 0 => u = <<>>
  OBVIOUS
<1>4. Tail(up) = <<>>
  BY <1>1, <1>2, <1>3
<1> QED
  BY <1>1, <1>2, <1>4

\* A request is over: its terminal response is written, or the connection is
\* closed.
LEMMA TerminalStep ==
  ASSUME IInv, NEW k \in 1..MaxCalls, NEW kind \in {"result", "nil", "error"},
         k <= Len(calls), k = req \/ (up # <<>> /\ k = up[1]),
         EncodeOrFail(Response(k, kind)), Agree(kind, handled'[k]),
         handled' \in [1..MaxCalls -> {"none", "result", "nil", "error", "panic"}],
         \A l \in 1..MaxCalls : l # k => handled'[l] = handled[l],
         up' = <<>>, req' = 0, serve' = "scan",
         UNCHANGED <<csock, ssock, ctx, asked, sender, result, calls, call, outcome, got>>
  PROVE  IInv'
<1> DEFINE r == Response(k, kind)
<1>1. r \in Responses /\ r.id = k /\ r.kind = kind /\ kind # "chunk"
  BY DEF Response, Responses
<1>2. /\ DownInv /\ WireInv /\ GotInv /\ AnswerInv /\ PlaceInv
      /\ wire \in Seq(Responses) /\ down \in Seq(Responses) /\ Len(down) <= SockCap
      /\ calls \in Seq(Kinds) /\ Len(calls) \in Nat
  <2>1. calls \in Seq(Kinds)
    BY DEF IInv, ClientTypeOK
  <2> QED
    BY <2>1 DEF IInv, ServerTypeOK, ClientTypeOK
<1>3. /\ \A i \in DOMAIN wire : wire[i].kind # "chunk" => wire[i].id < k
      /\ \A i \in DOMAIN down : down[i].kind = "chunk"
  BY <1>2 DEF WireInv, DownInv
<1>4. <<>> \in Seq(1..MaxCalls) /\ Len(<<>>) = 0 /\ 0 \in 0..Len(calls)
  BY <1>2
<1> HIDE DEF r
<1>5. /\ wire' \in Seq(Responses) /\ down' \in Seq(Responses) /\ Len(down') <= SockCap
      /\ \A i \in DOMAIN wire : i \in DOMAIN wire' /\ wire'[i] = wire[i]
      /\ \A i \in DOMAIN wire' : (i \in DOMAIN wire /\ wire'[i] = wire[i]) \/ wire'[i] = r
      /\ OneTerminalResponse'
      /\ Len(down') <= Len(wire')
      /\ \A i \in DOMAIN down' :
           /\ down'[i] = wire'[Len(wire') - Len(down') + i]
           /\ down'[i].id = Len(calls)
           /\ down'[i].kind # "chunk" => i = Len(down')
      /\ GotInv' /\ (~csock' => down' = <<>>) /\ (down' # <<>> => call # "idle")
  <2>1. CASE Writable
    <3>1. k = Len(calls) /\ call # "idle"
      BY <1>2, <2>1 DEF PlaceInv, Writable
    <3>2. Encode(r)
      BY <2>1 DEF EncodeOrFail, r
    <3>3. csock' /\ csock
      BY <2>1 DEF Writable
    <3> QED
      BY <1>1, <1>3, <3>1, <3>2, <3>3, EncodeStep
  <2>2. CASE ~Writable
    <3>1. wire' = wire /\ down' = down
      BY <2>2 DEF EncodeOrFail
    <3>2. OneTerminalResponse'
      BY <1>2, <3>1 DEF WireInv, OneTerminalResponse
    <3>3. \A id : Sent(id)' = Sent(id)
      BY <3>1 DEF Sent
    <3>4. GotInv'
      BY <1>2, <3>1, <3>3 DEF GotInv, StreamIsWhole
    <3> QED
      BY <1>2, <3>1, <3>2, <3>4 DEF DownInv, PlaceInv
  <2> QED
    BY <2>1, <2>2
<1>6. ServerTypeOK'
  BY <1>4, <1>5 DEF IInv, ServerTypeOK
<1>7. ClientTypeOK'
  BY <1>5 DEF IInv, ClientTypeOK
<1>8. PlaceInv'
  BY <1>5 DEF PlaceInv
<1>9. WireInv'
  BY <1>1, <1>2, <1>5 DEF WireInv
<1>10. AnswerInv'
  <2>1. ASSUME NEW i \in DOMAIN wire' PROVE Agree(wire'[i].kind, handled'[wire'[i].id])
    <3>1. CASE i \in DOMAIN wire /\ wire'[i] = wire[i]
      <4>1. wire[i] \in Responses /\ Agree(wire[i].kind, handled[wire[i].id])
        BY <1>2, <3>1 DEF AnswerInv
      <4>2. CASE wire[i].id = k
        <5>1. wire[i].kind = "chunk"
          BY <1>3, <3>1, <4>1, <4>2 DEF Responses
        <5> QED
          BY <3>1, <5>1 DEF Agree
      <4>3. CASE wire[i].id # k
        BY <3>1, <4>1, <4>3 DEF Responses
      <4> QED
        BY <4>2, <4>3
    <3>2. CASE wire'[i] = r
      BY <1>1, <3>2
    <3> QED
      BY <1>5, <3>1, <3>2
  <2>2. \A i \in DOMAIN outcome' : outcome'[i] \in {"ok", "error"} =>
          \E j \in DOMAIN wire' : /\ wire'[j].id = i /\ wire'[j].kind # "chunk"
                                  /\ outcome'[i] = "error" <=> wire'[j].kind = "error"
    BY <1>2, <1>5 DEF AnswerInv
  <2> QED
    BY <2>1, <2>2 DEF AnswerInv
<1>11. DownInv'
  BY <1>5 DEF DownInv
<1> QED
  BY <1>5, <1>6, <1>7, <1>8, <1>9, <1>10, <1>11 DEF IInv

\* A method without a handler.
LEMMA ScanUnknownInv == ASSUME IInv, ScanUnknown PROVE IInv'
<1>1. /\ serve = "scan" /\ up # <<>> /\ up' = Tail(up)
      /\ handled' = [handled EXCEPT ![Head(up)] = "error"]
      /\ EncodeOrFail(Response(Head(up), "error"))
      /\ UNCHANGED <<csock, ssock, ctx, asked, serve, req, sender, result, calls, call, outcome, got>>
  BY DEF ScanUnknown, server, client
<1>2. /\ Head(up) = up[1] /\ Tail(up) = <<>> /\ up[1] \in 1..MaxCalls /\ up[1] <= Len(calls)
      /\ req = 0
  BY <1>1, UpHead
<1>3. /\ handled' \in [1..MaxCalls -> {"none", "result", "nil", "error", "panic"}]
      /\ handled'[up[1]] = "error"
      /\ \A l \in 1..MaxCalls : l # up[1] => handled'[l] = handled[l]
  BY <1>1, <1>2 DEF IInv, ClientTypeOK
<1>4. Agree("error", handled'[up[1]])
  BY <1>3 DEF Agree
<1> QED
  BY <1>1, <1>2, <1>3, <1>4, TerminalStep

\* What the handler has returned.
LEMMA RespondInv == ASSUME IInv, Respond PROVE IInv'
<1>1. /\ serve = "respond" /\ EncodeOrFail(Response(req, result)) /\ serve' = "scan" /\ req' = 0
      /\ UNCHANGED <<csock, ssock, up, ctx, asked, sender, result, calls, call, outcome, got, handled>>
  BY DEF Respond, client
<1>2. /\ req \in 0..Len(calls) /\ req # 0 /\ Len(calls) <= MaxCalls /\ calls \in Seq(Kinds)
      /\ result \in {"result", "nil", "error"} /\ up = <<>>
      /\ handled \in [1..MaxCalls -> {"none", "result", "nil", "error", "panic"}]
  BY <1>1 DEF IInv, ServerTypeOK, ClientTypeOK, PlaceInv
<1>3. req \in 1..MaxCalls /\ req <= Len(calls)
  BY <1>2, IpcAssumption
<1>4. Agree(result, handled'[req])
  BY <1>1 DEF IInv, AnswerInv
<1>5. handled' \in [1..MaxCalls -> {"none", "result", "nil", "error", "panic"}]
      /\ \A l \in 1..MaxCalls : l # req => handled'[l] = handled[l]
  BY <1>1, <1>2
<1>6. up' = <<>>
  BY <1>1, <1>2
<1> QED
  BY <1>1, <1>2, <1>3, <1>4, <1>5, <1>6, TerminalStep

\* A sender writes a chunk; the terminal response is still to come.
LEMMA SendChunkInv == ASSUME IInv, NEW s \in Senders, SendChunk(s) PROVE IInv'
<1> DEFINE r == Response(req, "chunk")
<1>1. /\ serve = "invoke" /\ sender' = [sender EXCEPT ![s] = "on"] /\ csock /\ ssock /\ Encode(r)
      /\ UNCHANGED <<csock, ssock, up, ctx, asked, serve, req, result, calls, call, outcome, got,
                     handled>>
  BY DEF SendChunk, Sender, Writable, client
<1>2. /\ req \in 0..Len(calls) /\ req # 0 /\ Len(calls) <= MaxCalls /\ calls \in Seq(Kinds)
      /\ up = <<>> /\ req = Len(calls) /\ call # "idle"
      /\ DownInv /\ WireInv /\ AnswerInv /\ PlaceInv /\ wire \in Seq(Responses)
  BY <1>1 DEF IInv, ServerTypeOK, ClientTypeOK, PlaceInv
<1>3. r \in Responses /\ r.id = req /\ r.kind = "chunk"
  <2>1. req \in 1..MaxCalls
    BY <1>2, IpcAssumption
  <2> QED
    BY <2>1 DEF Response, Responses
<1>4. /\ \A i \in DOMAIN wire : wire[i].kind # "chunk" => wire[i].id < r.id
      /\ \A i \in DOMAIN down : down[i].kind = "chunk"
  BY <1>2, <1>3 DEF WireInv, DownInv
<1> HIDE DEF r
<1>5. /\ wire' \in Seq(Responses) /\ down' \in Seq(Responses) /\ Len(down') <= SockCap
      /\ \A i \in DOMAIN wire : i \in DOMAIN wire' /\ wire'[i] = wire[i]
      /\ \A i \in DOMAIN wire' : (i \in DOMAIN wire /\ wire'[i] = wire[i]) \/ wire'[i] = r
      /\ OneTerminalResponse'
      /\ Len(down') <= Len(wire')
      /\ \A i \in DOMAIN down' :
           /\ down'[i] = wire'[Len(wire') - Len(down') + i]
           /\ down'[i].id = Len(calls)
           /\ down'[i].kind # "chunk" => i = Len(down') /\ r.kind # "chunk"
      /\ GotInv'
  BY <1>1, <1>2, <1>3, <1>4, EncodeStep
<1>6. sender' \in [Senders -> {"on", "sending", "ended", "failed"}]
  BY <1>1 DEF IInv, ServerTypeOK
<1>7. ServerTypeOK'
  BY <1>1, <1>5, <1>6 DEF IInv, ServerTypeOK
<1>8. ClientTypeOK'
  BY <1>1, <1>5 DEF IInv, ClientTypeOK
<1>9. PlaceInv'
  BY <1>1, <1>2 DEF PlaceInv
<1>10. WireInv'
  BY <1>1, <1>2, <1>3, <1>5 DEF WireInv
<1>11. AnswerInv'
  <2>1. \A i \in DOMAIN wire' : Agree(wire'[i].kind, handled'[wire'[i].id])
    BY <1>1, <1>2, <1>3, <1>5 DEF AnswerInv, Agree
  <2>2. \A i \in DOMAIN outcome' : outcome'[i] \in {"ok", "error"} =>
          \E j \in DOMAIN wire' : /\ wire'[j].id = i /\ wire'[j].kind # "chunk"
                                  /\ outcome'[i] = "error" <=> wire'[j].kind = "error"
    BY <1>1, <1>2, <1>5 DEF AnswerInv
  <2> QED
    BY <1>1, <2>1, <2>2 DEF AnswerInv
<1>12. DownInv'
  BY <1>1, <1>2, <1>3, <1>5 DEF DownInv
<1> QED
  BY <1>5, <1>7, <1>8, <1>9, <1>10, <1>11, <1>12 DEF IInv

\* A request is taken from the socket.
LEMMA DispatchInv == ASSUME IInv, Dispatch PROVE IInv'
<1>1. /\ serve = "scan" /\ up # <<>> /\ up' = Tail(up) /\ serve' = "invoke" /\ req' = Head(up)
      /\ sender' = [s \in Senders |-> IF calls[Head(up)] = "stream" THEN "on" ELSE "ended"]
      /\ UNCHANGED <<csock, ssock, down, ctx, asked, result, calls, call, outcome, got, wire, handled>>
  BY DEF Dispatch, client, history
<1>2. /\ Head(up) = up[1] /\ Tail(up) = <<>> /\ <<>> \in Seq(1..MaxCalls) /\ Len(<<>>) = 0
      /\ up[1] \in 1..MaxCalls /\ up[1] <= Len(calls) /\ req = 0 /\ Len(calls) \in Nat
  BY <1>1, UpHead
<1>3. sender' \in [Senders -> {"on", "sending", "ended", "failed"}]
  BY <1>1
<1>4. up' = <<>> /\ req' = up[1] /\ req' \in 0..Len(calls) /\ req' # 0
  BY <1>1, <1>2, IpcAssumption
<1>5. ServerTypeOK'
  BY <1>1, <1>2, <1>3, <1>4 DEF IInv, ServerTypeOK
<1>6. ClientTypeOK'
  BY <1>1 DEF IInv, ClientTypeOK
<1>7. PlaceInv'
  BY <1>1, <1>4 DEF IInv, PlaceInv
<1>8. WireInv'
  <2>1. OneTerminalResponse'
    BY <1>1 DEF IInv, WireInv, OneTerminalResponse
  <2>2. ASSUME NEW i \in DOMAIN wire
        PROVE  /\ wire[i].id <= Len(calls)
               /\ wire[i].id <= req' /\ (wire[i].kind # "chunk" => wire[i].id < req')
    <3>1. wire[i] \in Responses
      BY DEF IInv, ClientTypeOK
    <3>2. wire[i].id \in 1..MaxCalls
      BY <3>1 DEF Responses
    <3>3. wire[i].id < up[1] /\ wire[i].id <= Len(calls)
      BY <1>1 DEF IInv, WireInv
    <3> QED
      BY <1>2, <1>4, <3>2, <3>3
  <2> QED
    BY <1>1, <1>4, <2>1, <2>2 DEF WireInv
<1>9. AnswerInv'
  BY <1>1 DEF IInv, AnswerInv
<1>10. DownInv'
  <2>1. \A i \in DOMAIN down : down[i].kind = "chunk"
    BY <1>1 DEF IInv, DownInv
  <2> QED
    BY <1>1, <2>1 DEF IInv, DownInv
<1>11. GotInv'
  <2>1. \A id : Sent(id)' = Sent(id)
    BY <1>1 DEF Sent
  <2> QED
    BY <1>1, <2>1 DEF IInv, GotInv, StreamIsWhole
<1> QED
  BY <1>5, <1>6, <1>7, <1>8, <1>9, <1>10, <1>11 DEF IInv

\* The server closes the connection.
LEMMA ScanEndsInv == ASSUME IInv, ScanEnds \/ ScanHuge PROVE IInv'
<1>1. /\ serve = "scan" /\ serve' = "returned" /\ ssock' = FALSE
      /\ up' = up \/ (up # <<>> /\ up' = Tail(up))
      /\ UNCHANGED <<csock, down, ctx, asked, req, sender, result, calls, call, outcome, got, wire,
                     handled>>
  BY DEF ScanEnds, ScanHuge, client, history
<1>2. up' = up \/ up' = <<>>
  BY <1>1, UpHead
<1>3. <<>> \in Seq(1..MaxCalls) /\ Len(<<>>) = 0 /\ req = 0
  BY <1>1 DEF IInv, ServerTypeOK
<1>4. ServerTypeOK' /\ ClientTypeOK'
  <2>1. up' \in Seq(1..MaxCalls) /\ Len(up') <= 1
    <3>1. up \in Seq(1..MaxCalls) /\ Len(up) <= 1
      BY DEF IInv, ServerTypeOK
    <3>2. CASE up' = up
      BY <3>1, <3>2
    <3>3. CASE up' = <<>>
      <4>1. Len(up') = 0
        BY <3>3
      <4> QED
        BY <1>3, <3>3, <4>1
    <3> QED
      BY <1>2, <3>2, <3>3
  <2> QED
    BY <1>1, <1>3, <2>1 DEF IInv, ServerTypeOK, ClientTypeOK
<1>5. PlaceInv'
  BY <1>1, <1>2, <1>3 DEF IInv, PlaceInv
<1>6. WireInv'
  BY <1>1, <1>2 DEF IInv, WireInv, OneTerminalResponse
<1>7. AnswerInv'
  BY <1>1 DEF IInv, AnswerInv
<1>8. DownInv'
  BY <1>1, <1>2, <1>3 DEF IInv, DownInv
<1>9. GotInv'
  <2>1. \A id : Sent(id)' = Sent(id)
    BY <1>1 DEF Sent
  <2> QED
    BY <1>1, <2>1 DEF IInv, GotInv, StreamIsWhole
<1> QED
  BY <1>4, <1>5, <1>6, <1>7, <1>8, <1>9 DEF IInv

\* The handler returns; its request has no terminal response yet.
LEMMA InvokeInv == ASSUME IInv, Invoke PROVE IInv'
<1>0. PICK did \in HandlerDoes(req) :
        handled' = [handled EXCEPT ![req] = did] /\ result' = Returned(did)
  BY DEF Invoke
<1>1. /\ serve = "invoke" /\ handled' = [handled EXCEPT ![req] = did]
      /\ result' = Returned(did) /\ serve' = "respond" /\ asked' = (asked \/ calls[req] = "shutdown")
      /\ UNCHANGED <<csock, ssock, up, down, ctx, req, sender, calls, call, outcome, got, wire>>
  BY <1>0 DEF Invoke, socket, client
<1>2. did \in {"result", "nil", "error", "panic"}
  BY DEF HandlerDoes
<1>3. result' \in {"result", "nil", "error"} /\ Agree(result', did)
  BY <1>1, <1>2 DEF Returned, Agree
<1>4. /\ req \in 0..Len(calls) /\ req # 0 /\ Len(calls) <= MaxCalls /\ calls \in Seq(Kinds)
      /\ handled \in [1..MaxCalls -> {"none", "result", "nil", "error", "panic"}]
      /\ wire \in Seq(Responses) /\ WireInv /\ AnswerInv
  BY <1>1 DEF IInv, ServerTypeOK, ClientTypeOK
<1>5. req \in 1..MaxCalls
  BY <1>4, IpcAssumption
<1>6. /\ handled' \in [1..MaxCalls -> {"none", "result", "nil", "error", "panic"}]
      /\ handled'[req] = did /\ \A l \in 1..MaxCalls : l # req => handled'[l] = handled[l]
  BY <1>1, <1>2, <1>4, <1>5
<1>7. asked' \in BOOLEAN
  BY <1>1 DEF IInv, ServerTypeOK
<1>8. ServerTypeOK' /\ ClientTypeOK'
  BY <1>1, <1>3, <1>6, <1>7 DEF IInv, ServerTypeOK, ClientTypeOK
<1>9. PlaceInv'
  BY <1>1 DEF IInv, PlaceInv
<1>10. WireInv'
  BY <1>1 DEF IInv, WireInv, OneTerminalResponse
<1>11. AnswerInv'
  <2>1. ASSUME NEW i \in DOMAIN wire PROVE Agree(wire[i].kind, handled'[wire[i].id])
    <3>1. wire[i] \in Responses /\ Agree(wire[i].kind, handled[wire[i].id])
      BY <1>4 DEF AnswerInv
    <3>2. wire[i].id \in 1..MaxCalls
      BY <3>1 DEF Responses
    <3>3. CASE wire[i].id = req
      <4>1. wire[i].kind = "chunk"
        BY <1>4, <1>5, <3>3 DEF WireInv
      <4> QED
        BY <4>1 DEF Agree
    <3>4. CASE wire[i].id # req
      BY <1>6, <3>1, <3>2, <3>4
    <3> QED
      BY <3>3, <3>4
  <2> QED
    BY <1>1, <1>3, <1>4, <1>6, <2>1 DEF AnswerInv
<1>12. DownInv'
  BY <1>1 DEF IInv, DownInv
<1>13. GotInv'
  <2>1. \A id : Sent(id)' = Sent(id)
    BY <1>1 DEF Sent
  <2> QED
    BY <1>1, <2>1 DEF IInv, GotInv, StreamIsWhole
<1> QED
  BY <1>8, <1>9, <1>10, <1>11, <1>12, <1>13 DEF IInv

-----------------------------------------------------------------------------
\* The client.

\* It closes the connection; what was in the socket is gone.
LEMMA CloseClientInv == ASSUME IInv, CloseClient PROVE IInv'
<1>1. /\ csock' = FALSE /\ down' = <<>>
      /\ UNCHANGED <<ssock, up, ctx, asked, serve, req, sender, result, calls, call, outcome, got,
                     wire, handled>>
  BY DEF CloseClient, server, client, history
<1>2. <<>> \in Seq(Responses) /\ Len(<<>>) = 0 /\ DOMAIN <<>> = {}
  OBVIOUS
<1>3. Len(down') <= SockCap /\ Len(wire) \in Nat
  BY <1>1, <1>2, IpcAssumption DEF IInv, ClientTypeOK
<1>4. ServerTypeOK' /\ ClientTypeOK'
  BY <1>1, <1>2, <1>3 DEF IInv, ServerTypeOK, ClientTypeOK
<1>5. PlaceInv'
  BY <1>1 DEF IInv, PlaceInv
<1>6. WireInv' /\ AnswerInv'
  BY <1>1 DEF IInv, WireInv, OneTerminalResponse, AnswerInv
<1>7. DownInv'
  BY <1>1, <1>2, <1>3 DEF DownInv
<1>8. GotInv'
  <2>1. \A id : Sent(id)' = Sent(id)
    BY <1>1 DEF Sent
  <2> QED
    BY <1>1, <2>1 DEF IInv, GotInv, StreamIsWhole
<1> QED
  BY <1>4, <1>5, <1>6, <1>7, <1>8 DEF IInv

\* A call ends without an answer, on a connection that is of no more use.
LEMMA LostStep ==
  ASSUME IInv, call # "idle", NEW how \in {"aborted", "lost"}, outcome' = Append(outcome, how),
         call' = "idle", down' = <<>>, csock' \in BOOLEAN, csock' => ~ssock,
         UNCHANGED <<ssock, up, ctx, asked, serve, req, sender, result, calls, got, wire, handled>>
  PROVE  IInv'
<1>1. <<>> \in Seq(Responses) /\ Len(<<>>) = 0 /\ DOMAIN <<>> = {}
  OBVIOUS
<1>2. Len(down') <= SockCap /\ Len(wire) \in Nat
  BY <1>1, IpcAssumption DEF IInv, ClientTypeOK
<1>3. /\ outcome \in Seq({"ok", "error", "aborted", "lost"}) /\ Len(outcome) = Len(calls) - 1
      /\ calls \in Seq(Kinds)
  BY DEF IInv, ClientTypeOK
<1>4. /\ outcome' \in Seq({"ok", "error", "aborted", "lost"}) /\ Len(outcome') = Len(calls)
      /\ \A i \in DOMAIN outcome' : (i \in DOMAIN outcome /\ outcome'[i] = outcome[i])
                                    \/ outcome'[i] = how
  <2>1. /\ Append(outcome, how) \in Seq({"ok", "error", "aborted", "lost"})
        /\ Len(Append(outcome, how)) = Len(outcome) + 1
        /\ Append(outcome, how)[Len(outcome) + 1] = how
        /\ \A i \in DOMAIN outcome : Append(outcome, how)[i] = outcome[i]
        /\ \A i \in DOMAIN Append(outcome, how) : i \in DOMAIN outcome \/ i = Len(outcome) + 1
    BY <1>3, AppendFacts
  <2>2. Len(outcome) + 1 = Len(calls)
    BY <1>3
  <2> QED
    BY <2>1, <2>2
<1>5. ServerTypeOK' /\ ClientTypeOK'
  <2>1. ServerTypeOK'
    BY <1>1, <1>2 DEF IInv, ServerTypeOK
  <2>2. Len(outcome') = Len(calls) - 0
    BY <1>3, <1>4
  <2> QED
    BY <1>4, <2>1, <2>2 DEF IInv, ClientTypeOK
<1>6. PlaceInv'
  BY DEF IInv, PlaceInv
<1>7. WireInv'
  BY DEF IInv, WireInv, OneTerminalResponse
<1>8. AnswerInv'
  BY <1>4 DEF IInv, AnswerInv
<1>9. DownInv'
  BY <1>1, <1>2 DEF DownInv
<1>10. GotInv'
  <2>1. \A id : Sent(id)' = Sent(id)
    BY DEF Sent
  <2> QED
    BY <1>4, <2>1 DEF IInv, GotInv, StreamIsWhole
<1> QED
  BY <1>5, <1>6, <1>7, <1>8, <1>9, <1>10 DEF IInv

\* onEvent fails, or the read.
LEMMA LostInv == ASSUME IInv, Abort \/ ReadFails PROVE IInv'
<1>1. /\ call = "reading" /\ call' = "idle" /\ csock \in BOOLEAN
      /\ UNCHANGED <<ssock, up, ctx, asked, serve, req, sender, result, calls, got, wire, handled>>
  BY DEF Abort, ReadFails, Return, socket, server, IInv, ServerTypeOK
<1>2. outcome' \in {Append(outcome, "aborted"), Append(outcome, "lost")}
  BY DEF Abort, ReadFails, Return
<1>3. ~csock => down = <<>>
  BY DEF IInv, PlaceInv
<1>4. down' = <<>> /\ (csock' => ~ssock) /\ csock' \in BOOLEAN
  <2>1. CASE Abort
    BY <2>1 DEF Abort
  <2>2. CASE ReadFails
    <3>1. (csock' <=> csock) /\ down' = down /\ (~csock \/ (~ssock /\ down = <<>>)) /\ csock' \in BOOLEAN
      BY <1>1, <2>2 DEF ReadFails, socket
    <3> QED
      BY <1>3, <3>1
  <2> QED
    BY <2>1, <2>2
<1>5. CASE outcome' = Append(outcome, "aborted")
  BY <1>1, <1>4, <1>5, LostStep
<1>6. CASE outcome' = Append(outcome, "lost")
  BY <1>1, <1>4, <1>6, LostStep
<1> QED
  BY <1>2, <1>5, <1>6

\* A response is received: the next chunk, or the answer.
LEMMA ReceiveInv == ASSUME IInv, Receive PROVE IInv'
<1> DEFINE h == Head(down)
           d == Tail(down)
           last == Len(calls)
           m == Len(wire) - Len(down)
<1>1. /\ call = "reading" /\ csock /\ down # <<>> /\ down' = d
      /\ IF h.id # last THEN UNCHANGED <<call, outcome, got>>
         ELSE IF h.kind = "chunk"
         THEN got' = [got EXCEPT ![h.id] = @ + 1] /\ UNCHANGED <<call, outcome>>
         ELSE /\ call' = "idle" /\ UNCHANGED got
              /\ outcome' = Append(outcome, IF h.kind = "error" THEN "error" ELSE "ok")
      /\ UNCHANGED <<csock, ssock, up, ctx, asked, serve, req, sender, result, calls, wire, handled>>
  BY DEF Receive, Return, server
<1>2. /\ DownInv /\ WireInv /\ GotInv /\ AnswerInv /\ PlaceInv
      /\ wire \in Seq(Responses) /\ down \in Seq(Responses) /\ Len(down) <= SockCap
      /\ calls \in Seq(Kinds) /\ last \in Nat /\ last <= MaxCalls
      /\ outcome \in Seq({"ok", "error", "aborted", "lost"}) /\ Len(outcome) = last - 1
      /\ got \in [1..MaxCalls -> Nat]
  <2>1. calls \in Seq(Kinds)
    BY DEF IInv, ClientTypeOK
  <2> QED
    BY <1>1, <2>1 DEF IInv, ServerTypeOK, ClientTypeOK
<1>3. /\ d \in Seq(Responses) /\ Len(d) = Len(down) - 1 /\ h = down[1] /\ h \in Responses
      /\ Len(down) \in Nat /\ Len(down) >= 1 /\ 1 \in DOMAIN down
      /\ \A i \in DOMAIN d : i \in Nat /\ i + 1 \in DOMAIN down /\ d[i] = down[i + 1]
  BY <1>1, <1>2, HeadIsFirst
<1>4. /\ h.id = last /\ h = wire[m + 1] /\ m \in Nat /\ Len(wire) \in Nat
      /\ m + 1 \in DOMAIN wire /\ last \in 1..MaxCalls
  <2>1. h.id = last /\ h = wire[m + 1] /\ Len(down) <= Len(wire)
    BY <1>2, <1>3 DEF DownInv
  <2>2. Len(wire) \in Nat /\ DOMAIN wire = 1..Len(wire)
    BY <1>2
  <2>3. h.id \in 1..MaxCalls
    BY <1>3 DEF Responses
  <2> QED
    BY <1>3, <2>1, <2>2, <2>3
<1>5. Len(wire) - Len(d) = m + 1
  BY <1>3, <1>4
<1>6. \A i \in DOMAIN outcome : i # last
  BY <1>2
<1>7. \A id : Sent(id)' = Sent(id)
  BY <1>1 DEF Sent
<1> HIDE DEF h, d, m, last
<1>8. WireInv'
  BY <1>1, <1>2 DEF WireInv, OneTerminalResponse, last
<1>9. ServerTypeOK'
  <2>1. Len(d) <= SockCap
    BY <1>2, <1>3, IpcAssumption
  <2> QED
    BY <1>1, <1>3, <2>1 DEF IInv, ServerTypeOK
<1>10. PlaceInv' \/ call' = "idle"
  BY <1>1, <1>2 DEF PlaceInv
<1>11. \A i \in DOMAIN d :
         /\ d[i] = wire[Len(wire) - Len(d) + i]
         /\ d[i].id = last
         /\ d[i].kind # "chunk" => i = Len(d) /\ up = <<>> /\ req = 0
  <2> TAKE i \in DOMAIN d
  <2>1. i \in Nat /\ i + 1 \in DOMAIN down /\ d[i] = down[i + 1]
    BY <1>3
  <2>2. /\ down[i + 1] = wire[m + (i + 1)] /\ down[i + 1].id = last
        /\ down[i + 1].kind # "chunk" => i + 1 = Len(down) /\ up = <<>> /\ req = 0
    BY <1>2, <2>1 DEF DownInv, m, last
  <2>3. m + (i + 1) = Len(wire) - Len(d) + i
    BY <1>4, <1>5, <2>1
  <2> QED
    BY <1>3, <2>1, <2>2, <2>3
<1>12. Len(d) <= Len(wire)
  BY <1>2, <1>3, <1>4 DEF DownInv
<1>13. CASE h.kind = "chunk"
  <2>1. got' = [got EXCEPT ![last] = @ + 1] /\ UNCHANGED <<call, outcome>>
    BY <1>1, <1>4, <1>13
  <2>2. got' \in [1..MaxCalls -> Nat] /\ got'[last] = got[last] + 1
    BY <1>2, <1>4, <2>1
  <2>3. ClientTypeOK'
    BY <1>1, <2>1, <2>2 DEF IInv, ClientTypeOK
  <2>4. PlaceInv'
    BY <1>1, <1>10, <2>1
  <2>5. AnswerInv'
    BY <1>1, <1>2, <2>1 DEF AnswerInv
  <2>6. DownInv'
    BY <1>1, <1>11, <1>12, <2>1 DEF DownInv, last
  <2>7. GotInv'
    <3>1. h = Response(last, "chunk")
      BY <1>3, <1>4, <1>13 DEF Responses, Response
    <3>2. Cardinality(ChunksIn(wire, m + 1, last)) = Cardinality(ChunksIn(wire, m, last)) + 1
      BY <1>4, <3>1, ChunksGrow
    <3>3. got[last] = Cardinality(ChunksIn(wire, m, last))
      BY <1>1, <1>2 DEF GotInv, m, last
    <3>4. got'[last] = Cardinality(ChunksIn(wire, Len(wire) - Len(d), last))
      BY <1>5, <2>2, <3>2, <3>3
    <3>5. \A k \in 1..MaxCalls : k # last => got'[k] = got[k]
      BY <1>2, <2>1
    <3>6. \A k \in 1..MaxCalls : k > last => got'[k] = 0
      BY <1>2, <1>4, <3>5 DEF GotInv, last
    <3>7. StreamIsWhole'
      <4> SUFFICES ASSUME NEW i \in DOMAIN outcome, calls[i] = "stream" /\ outcome[i] = "ok"
                   PROVE  got'[i] = Sent(i)
        BY <1>1, <1>7, <2>1 DEF StreamIsWhole
      <4>1. i \in 1..MaxCalls /\ i # last
        BY <1>2, <1>6, IpcAssumption
      <4> QED
        BY <1>2, <3>5, <4>1 DEF GotInv, StreamIsWhole
    <3> QED
      BY <1>1, <3>4, <3>6, <3>7 DEF GotInv, last
  <2> QED
    BY <1>8, <1>9, <2>3, <2>4, <2>5, <2>6, <2>7 DEF IInv
<1>14. CASE h.kind # "chunk"
  <2> DEFINE how == IF h.kind = "error" THEN "error" ELSE "ok"
  <2>1. call' = "idle" /\ outcome' = Append(outcome, how) /\ got' = got
    BY <1>1, <1>4, <1>14
  <2>2. up = <<>> /\ req = 0 /\ Len(d) = 0
    <3>1. 1 = Len(down) /\ up = <<>> /\ req = 0
      BY <1>2, <1>3, <1>14 DEF DownInv
    <3>2. Len(down) - 1 = 0
      BY <3>1
    <3> QED
      BY <1>3, <3>1, <3>2
  <2>3. d = <<>> /\ Len(wire) = m + 1
    <3>1. d = <<>>
      BY <1>3, <2>2
    <3>2. Len(wire) - 0 = m + 1
      BY <1>5, <2>2
    <3> QED
      BY <1>4, <3>1, <3>2
  <2>4. how \in {"ok", "error", "aborted", "lost"} /\ how \in {"ok", "error"}
        /\ (how = "error" <=> h.kind = "error")
    OBVIOUS
  <2> HIDE DEF how
  <2>5. /\ outcome' \in Seq({"ok", "error", "aborted", "lost"}) /\ Len(outcome') = Len(outcome) + 1
        /\ outcome'[Len(outcome) + 1] = how
        /\ \A i \in DOMAIN outcome : outcome'[i] = outcome[i]
        /\ \A i \in DOMAIN outcome' : i \in DOMAIN outcome \/ i = Len(outcome) + 1
    BY <1>2, <2>1, <2>4, AppendFacts
  <2>6. Len(outcome) + 1 = last
    BY <1>2
  <2>7. ClientTypeOK'
    <3>1. Len(outcome') = Len(calls') - 0
      BY <1>1, <1>2, <2>5, <2>6 DEF last
    <3> QED
      BY <1>1, <2>1, <2>5, <3>1 DEF IInv, ClientTypeOK
  <2>8. PlaceInv'
    BY <1>1, <1>2, <2>2, <2>3 DEF PlaceInv
  <2>9. AnswerInv'
    <3>1. ASSUME NEW i \in DOMAIN outcome', outcome'[i] \in {"ok", "error"}
          PROVE  \E j \in DOMAIN wire : /\ wire[j].id = i /\ wire[j].kind # "chunk"
                                        /\ outcome'[i] = "error" <=> wire[j].kind = "error"
      <4>1. CASE i \in DOMAIN outcome
        BY <1>2, <2>5, <3>1, <4>1 DEF AnswerInv
      <4>2. CASE i = last
        BY <1>4, <1>14, <2>4, <2>5, <2>6, <4>2
      <4> QED
        BY <2>5, <2>6, <4>1, <4>2
    <3> QED
      BY <1>1, <1>2, <3>1 DEF AnswerInv
  <2>10. DownInv'
    BY <1>1, <1>11, <1>12, <2>3 DEF DownInv, last
  <2>11. GotInv'
    <3>1. Sent(last) = got[last]
      <4>1. wire[m + 1] # Response(last, "chunk")
        BY <1>4, <1>14 DEF Response
      <4>2. Cardinality(ChunksIn(wire, m + 1, last)) = Cardinality(ChunksIn(wire, m, last))
        BY <1>4, <4>1, ChunksGrow
      <4>3. got[last] = Cardinality(ChunksIn(wire, m, last))
        BY <1>1, <1>2 DEF GotInv, m, last
      <4>4. Sent(last) = Cardinality(ChunksIn(wire, Len(wire), last))
        BY <1>2, SentIs
      <4> QED
        BY <2>3, <4>2, <4>3, <4>4
    <3>2. StreamIsWhole'
      BY <1>1, <1>2, <1>7, <2>1, <2>5, <2>6, <3>1 DEF GotInv, StreamIsWhole
    <3> QED
      BY <1>1, <1>2, <2>1, <3>2 DEF GotInv
  <2> QED
    BY <1>8, <1>9, <2>7, <2>8, <2>9, <2>10, <2>11 DEF IInv
<1> QED
  BY <1>13, <1>14

\* The next request: the server has answered all the others, or the connection
\* is closed and the call fails.
LEMMA SendInv == ASSUME IInv, NEW kind \in Kinds, Send(kind) PROVE IInv'
<1> DEFINE n == Len(calls)
<1>1. /\ call = "idle" /\ n < MaxCalls /\ calls' = Append(calls, kind)
      /\ IF csock /\ ssock
         THEN up' = Append(up, n + 1) /\ call' = "reading" /\ UNCHANGED outcome
         ELSE call' = "idle" /\ outcome' = Append(outcome, "lost") /\ UNCHANGED up
      /\ UNCHANGED <<csock, ssock, down, ctx, asked, serve, req, sender, result, got, wire, handled>>
  BY DEF Send, Return, server
<1>2. /\ DownInv /\ WireInv /\ GotInv /\ AnswerInv /\ PlaceInv
      /\ wire \in Seq(Responses) /\ calls \in Seq(Kinds) /\ req \in 0..n
      /\ outcome \in Seq({"ok", "error", "aborted", "lost"}) /\ Len(outcome) = n - 0
      /\ up \in Seq(1..MaxCalls) /\ Len(up) <= 1
      /\ (req = 0 <=> serve \in {"scan", "returned"})
  BY <1>1 DEF IInv, ServerTypeOK, ClientTypeOK
<1>3. /\ calls' \in Seq(Kinds) /\ Len(calls') = n + 1 /\ n \in Nat
      /\ \A i \in DOMAIN calls : calls'[i] = calls[i]
  BY <1>1, <1>2, AppendFacts
<1>4. down = <<>> /\ MaxCalls \in Nat /\ n + 1 \in 1..MaxCalls /\ Len(outcome) = n
  BY <1>1, <1>2, <1>3, IpcAssumption DEF DownInv
<1>5. \A i \in DOMAIN wire : wire[i].id \in 1..MaxCalls /\ wire[i].id <= n
  <2> TAKE i \in DOMAIN wire
  <2>1. wire[i] \in Responses
    BY <1>2
  <2> QED
    BY <1>2, <2>1 DEF WireInv, Responses
<1> HIDE DEF n
<1>6. OneTerminalResponse'
  BY <1>1, <1>2 DEF WireInv, OneTerminalResponse
<1>7. \A id : Sent(id)' = Sent(id)
  BY <1>1 DEF Sent
<1>8. \A i \in DOMAIN outcome : i \in DOMAIN calls /\ i # n + 1
  BY <1>2, <1>3, <1>4 DEF n
<1>9. ServerTypeOK' \/ up' # up
  BY <1>1, <1>2, <1>3 DEF IInv, ServerTypeOK, n
<1>10. DownInv'
  <2>1. Len(down) <= Len(wire) /\ \A i \in DOMAIN down : FALSE
    BY <1>2, <1>4 DEF DownInv
  <2> QED
    BY <1>1, <1>4, <2>1 DEF DownInv
<1>11. CASE csock /\ ssock
  <2>1. up' = Append(up, n + 1) /\ call' = "reading" /\ outcome' = outcome
    BY <1>1, <1>11 DEF n
  <2>2. up = <<>> /\ req = 0
    BY <1>1, <1>2, <1>11 DEF PlaceInv
  <2>3. up' \in Seq(1..MaxCalls) /\ Len(up') = 1 /\ up'[1] = n + 1 /\ up' # <<>>
    <3>1. up' = <<n + 1>>
      BY <2>1, <2>2
    <3> QED
      BY <1>4, <3>1
  <2>4. ServerTypeOK'
    <3>1. req' \in 0..Len(calls')
      BY <1>1, <1>3, <2>2
    <3> QED
      BY <1>1, <2>3, <3>1 DEF IInv, ServerTypeOK
  <2>5. ClientTypeOK'
    <3>1. Len(outcome') = Len(calls') - 1 /\ Len(calls') <= MaxCalls
      BY <1>3, <1>4, <2>1
    <3> QED
      BY <1>1, <1>3, <2>1, <3>1 DEF IInv, ClientTypeOK
  <2>6. PlaceInv'
    BY <1>1, <1>2, <1>3, <2>1, <2>2, <2>3 DEF PlaceInv
  <2>7. WireInv'
    <3>1. \A i \in DOMAIN wire : wire[i].id <= n + 1 /\ wire[i].id < n + 1
      BY <1>3, <1>5
    <3> QED
      BY <1>1, <1>3, <1>6, <2>2, <2>3, <3>1 DEF WireInv
  <2>8. AnswerInv'
    BY <1>1, <1>2, <2>1 DEF AnswerInv
  <2>9. GotInv'
    <3>1. ChunksIn(wire, Len(wire) - Len(down), n + 1) = {}
      <4>1. \A i \in 1..(Len(wire) - Len(down)) : i \in DOMAIN wire
        BY <1>2, <1>4
      <4>2. \A i \in DOMAIN wire : wire[i] # Response(n + 1, "chunk")
        BY <1>3, <1>5 DEF Response
      <4> QED
        BY <4>1, <4>2 DEF ChunksIn
    <3>2. Cardinality(ChunksIn(wire, Len(wire) - Len(down), n + 1)) = 0
      BY <3>1, FS_EmptySet
    <3>3. got[n + 1] = 0 /\ \A k \in 1..MaxCalls : k > n + 1 => got[k] = 0
      BY <1>2, <1>3, <1>4 DEF GotInv, n
    <3>4. StreamIsWhole'
      BY <1>1, <1>2, <1>3, <1>7, <1>8, <2>1 DEF GotInv, StreamIsWhole
    <3> QED
      BY <1>1, <1>3, <3>2, <3>3, <3>4 DEF GotInv
  <2> QED
    BY <1>10, <2>4, <2>5, <2>6, <2>7, <2>8, <2>9 DEF IInv
<1>12. CASE ~(csock /\ ssock)
  <2>1. up' = up /\ call' = "idle" /\ outcome' = Append(outcome, "lost")
    BY <1>1, <1>12
  <2>2. /\ outcome' \in Seq({"ok", "error", "aborted", "lost"}) /\ Len(outcome') = Len(outcome) + 1
        /\ outcome'[Len(outcome) + 1] = "lost"
        /\ \A i \in DOMAIN outcome : outcome'[i] = outcome[i]
        /\ \A i \in DOMAIN outcome' : i \in DOMAIN outcome \/ i = Len(outcome) + 1
    BY <1>2, <2>1, AppendFacts
  <2>3. ClientTypeOK'
    <3>1. Len(outcome') = Len(calls') - 0 /\ Len(calls') <= MaxCalls
      BY <1>3, <1>4, <2>2
    <3> QED
      BY <1>1, <1>3, <2>1, <2>2, <3>1 DEF IInv, ClientTypeOK
  <2>4. PlaceInv'
    <3>1. up # <<>> => up[1] <= n + 1
      <4>1. up # <<>> => up[1] <= n /\ up[1] \in 1..MaxCalls
        BY UpHead DEF n
      <4> QED
        BY <1>3, <4>1
    <3> QED
      BY <1>1, <1>2, <1>3, <1>12, <2>1, <3>1 DEF PlaceInv
  <2>5. WireInv'
    <3>1. \A i \in DOMAIN wire : wire[i].id <= n + 1
      BY <1>3, <1>5
    <3> QED
      BY <1>1, <1>2, <1>3, <1>6, <2>1, <3>1 DEF WireInv
  <2>6. AnswerInv'
    BY <1>1, <1>2, <2>1, <2>2 DEF AnswerInv
  <2>7. GotInv'
    <3>1. \A k \in 1..MaxCalls : k > n + 1 => got[k] = 0
      BY <1>2, <1>3, <1>4 DEF GotInv, n
    <3>2. StreamIsWhole'
      BY <1>1, <1>2, <1>3, <1>7, <1>8, <2>1, <2>2 DEF GotInv, StreamIsWhole
    <3> QED
      BY <1>1, <1>3, <2>1, <3>1, <3>2 DEF GotInv
  <2> QED
    BY <1>9, <1>10, <2>1, <2>3, <2>4, <2>5, <2>6, <2>7 DEF IInv
<1> QED
  BY <1>11, <1>12

-----------------------------------------------------------------------------

\* Nothing has been asked or answered.
LEMMA InitIInv == Init => IInv
<1> SUFFICES ASSUME Init PROVE IInv
  OBVIOUS
<1>1. /\ <<>> \in Seq(1..MaxCalls) /\ <<>> \in Seq(Responses) /\ <<>> \in Seq(Kinds)
      /\ <<>> \in Seq({"ok", "error", "aborted", "lost"}) /\ Len(<<>>) = 0 /\ DOMAIN <<>> = {}
      /\ 0 <= SockCap /\ 0 <= MaxCalls
  BY IpcAssumption
<1>2. ServerTypeOK
  <2>1. sender \in [Senders -> {"on", "sending", "ended", "failed"}]
    BY DEF Init
  <2>2. Len(up) <= 1 /\ Len(down) <= SockCap /\ req \in 0..Len(calls)
    BY <1>1 DEF Init
  <2>3. up \in Seq(1..MaxCalls) /\ down \in Seq(Responses)
    BY <1>1 DEF Init
  <2> QED
    BY <2>1, <2>2, <2>3 DEF Init, ServerTypeOK
<1>3. ClientTypeOK
  BY <1>1 DEF Init, ClientTypeOK
<1>4. PlaceInv /\ WireInv /\ AnswerInv /\ DownInv
  BY <1>1 DEF Init, PlaceInv, WireInv, OneTerminalResponse, AnswerInv, DownInv
<1>5. GotInv
  BY <1>1 DEF Init, GotInv, StreamIsWhole
<1> QED
  BY <1>2, <1>3, <1>4, <1>5 DEF IInv

\* Every step preserves the invariant.
LEMMA NextIInv == IInv /\ [Next]_vars => IInv'
<1> SUFFICES ASSUME IInv, [Next]_vars PROVE IInv'
  OBVIOUS
<1>1. CASE \E kind \in Kinds : Send(kind)
  BY <1>1, SendInv
<1>2. CASE Receive
  BY <1>2, ReceiveInv
<1>3. CASE Abort \/ ReadFails
  BY <1>3, LostInv
<1>4. CASE CloseClient
  BY <1>4, CloseClientInv
<1>5. CASE ScanHuge \/ ScanEnds
  BY <1>5, ScanEndsInv
<1>6. CASE ScanUnknown \/ Dispatch \/ Invoke \/ Respond
  BY <1>6, ScanUnknownInv, DispatchInv, InvokeInv, RespondInv
<1>7. CASE \E s \in Senders : SendChunk(s)
  BY <1>7, SendChunkInv
<1>8. CASE \/ Stall \/ Proceed \/ CancelOnRequest \/ CancelOnSignal \/ CloseOnCancel
           \/ \E s \in Senders : TakeEvent(s) \/ SendFails(s) \/ EventsEnd(s) \/ ContextEnds(s)
           \/ UNCHANGED vars
  BY <1>8, QuietSteps
<1> QED
  BY <1>1, <1>2, <1>3, <1>4, <1>5, <1>6, <1>7, <1>8 DEF Next, Serve, InvokeReturns

\* What the invariant says of the answers.
LEMMA IInvAnswers == IInv => EachCallItsAnswer
<1> SUFFICES ASSUME IInv PROVE EachCallItsAnswer
  OBVIOUS
<1>1. TypeOK
  <2>1. {ctx, asked, csock, ssock} \subseteq BOOLEAN
    BY DEF IInv, ServerTypeOK
  <2> QED
    BY <2>1 DEF IInv, ServerTypeOK, ClientTypeOK, TypeOK
<1>2. AnswerIsTheHandlers
  <2> SUFFICES ASSUME NEW i \in DOMAIN outcome
               PROVE  /\ outcome[i] = "ok" => handled[i] \in {"result", "nil"}
                      /\ outcome[i] = "error" => handled[i] \in {"error", "panic"}
    BY DEF AnswerIsTheHandlers
  <2> SUFFICES ASSUME outcome[i] \in {"ok", "error"}
               PROVE  /\ outcome[i] = "ok" => handled[i] \in {"result", "nil"}
                      /\ outcome[i] = "error" => handled[i] \in {"error", "panic"}
    OBVIOUS
  <2>1. PICK j \in DOMAIN wire : /\ wire[j].id = i /\ wire[j].kind # "chunk"
                                 /\ outcome[i] = "error" <=> wire[j].kind = "error"
    BY DEF IInv, AnswerInv
  <2>2. wire[j] \in Responses /\ Agree(wire[j].kind, handled[i])
    BY <2>1 DEF IInv, AnswerInv, ClientTypeOK
  <2>3. wire[j].kind \in {"result", "nil", "error"}
    BY <2>1, <2>2 DEF Responses
  <2> QED
    BY <2>1, <2>2, <2>3 DEF Agree
<1>3. StreamIsWhole
  BY DEF IInv, GotInv
<1>4. NothingLeftOver
  BY DEF IInv, PlaceInv, DownInv, NothingLeftOver
<1> QED
  BY <1>1, <1>2, <1>3, <1>4 DEF EachCallItsAnswer

\* On every connection the requests are answered one after the other, each with
\* its chunks first and nothing after its terminal response, which is the only
\* one, whichever sender writes and whenever either end closes.
THEOREM RequestsAreAnsweredOnce == Spec => []OneTerminalResponse
<1>1. IInv => OneTerminalResponse
  BY DEF IInv, WireInv
<1> QED
  BY <1>1, InitIInv, NextIInv, PTL DEF Spec

\* Every call gets its own answer, a stream that ended normally was received
\* whole, and a connection that can be used again is empty.
THEOREM EachCallGetsItsAnswer == Spec => []EachCallItsAnswer
<1>1. IInv => EachCallItsAnswer
  BY IInvAnswers
<1> QED
  BY <1>1, InitIInv, NextIInv, PTL DEF Spec
=============================================================================
