--------------------------- MODULE WaitersProofs ---------------------------
(***************************************************************************)
(* For any number of waiters, any buffer and any bound: no waiter misses   *)
(* the end of its task, and only a task that is over is deleted.           *)
(***************************************************************************)
EXTENDS Waiters, TLAPS

\* removers and followers are subscribed from before their look at the store
Subscribed ==
  \A c \in Removers \cup Followers :
    pc[c] \in {"check", "wait", "read", "sleep"} => c \in subs

\* an end is only announced of a task that is over
EndIsTrue ==
  /\ unpublished = "end" => status # "live"
  /\ \A c \in Clients : \A i \in DOMAIN chan[c] : IsEnd(chan[c][i]) => status # "live"

\* what is about to be deleted is over
DeletesEnded == \A c \in Clients : pc[c] = "delete" => status # "live"

IInv == TypeOK /\ Subscribed /\ EndIsTrue /\ DeletesEnded /\ NoMissedEnd

\* Initially nothing is announced, nobody waits and nothing is deleted.
LEMMA InitIInv == Init => IInv
<1> SUFFICES ASSUME Init PROVE IInv
    OBVIOUS
<1> USE WaitersAssumption DEF Init
<1>1. TypeOK
  <2>1. used \in [moves : 0 .. MaxMoves, noise : 0 .. MaxNoise] /\ written \in 0 .. MaxLines
        OBVIOUS
  <2>2. /\ chan \in [Clients -> Seq(Published)] /\ \A c \in Clients : Len(chan[c]) <= BufCap
        /\ read \in [Followers -> 0 .. MaxLines]
        OBVIOUS
  <2>3. /\ status \in Statuses /\ pc \in [Clients -> Locations]
        /\ sel \in [Attachers -> AllSelectors] /\ cancelled \in [Followers -> BOOLEAN]
        BY DEF Statuses, Locations
  <2> QED BY <2>1, <2>2, <2>3 DEF TypeOK
<1>2. Subscribed /\ EndIsTrue /\ DeletesEnded /\ NoMissedEnd
      BY DEF Subscribed, EndIsTrue, DeletesEnded, NoMissedEnd, Clients, Following
<1> QED BY <1>1, <1>2 DEF IInv

\* What publish does to one channel: it stays, or gets the event at its end.
LEMMA PublishOne ==
  ASSUME TypeOK, NEW e \in Published, Publish(e), NEW c \in Clients
  PROVE  /\ chan'[c] \in Seq(Published)
         /\ Len(chan'[c]) <= BufCap
         /\ \A i \in DOMAIN chan[c] : i \in DOMAIN chan'[c] /\ chan'[c][i] = chan[c][i]
         /\ \A i \in DOMAIN chan'[c] : chan'[c][i] = e \/ (i \in DOMAIN chan[c] /\ chan'[c][i] = chan[c][i])
         /\ e = "end" /\ c \in subs => c \in lost' \/ \E i \in DOMAIN chan'[c] : chan'[c][i] = e
<1> USE WaitersAssumption
<1>1. chan[c] \in Seq(Published) /\ Len(chan[c]) <= BufCap /\ Len(chan[c]) \in Nat
      BY DEF TypeOK
<1>2. CASE c \in subs /\ ~Full(c)
  <2>1. chan'[c] = Append(chan[c], e)
        BY <1>2 DEF Publish
  <2>2. Len(chan'[c]) = Len(chan[c]) + 1 /\ chan'[c][Len(chan[c]) + 1] = e
        BY <1>1, <2>1
  <2>3. Len(chan[c]) + 1 <= BufCap
        BY <1>1, <1>2 DEF Full
  <2> QED BY <1>1, <2>1, <2>2, <2>3
<1>3. CASE ~(c \in subs /\ ~Full(c))
  <2>1. chan'[c] = chan[c]
        BY <1>3 DEF Publish
  <2>2. e = "end" /\ c \in subs => c \in lost'
        BY <1>3 DEF Publish
  <2> QED BY <1>1, <2>1, <2>2
<1> QED BY <1>2, <1>3

\* What a receive does to one channel: it loses its head.
LEMMA TailOne ==
  ASSUME TypeOK, NEW c \in Clients, chan[c] # <<>>
  PROVE  /\ Tail(chan[c]) \in Seq(Published)
         /\ Len(Tail(chan[c])) <= BufCap
         /\ Head(chan[c]) = chan[c][1] /\ 1 \in DOMAIN chan[c]
         /\ \A i \in DOMAIN Tail(chan[c]) :
              i + 1 \in DOMAIN chan[c] /\ Tail(chan[c])[i] = chan[c][i + 1]
         /\ \A i \in DOMAIN chan[c] : i # 1 =>
              i - 1 \in DOMAIN Tail(chan[c]) /\ Tail(chan[c])[i - 1] = chan[c][i]
<1>1. chan[c] \in Seq(Published) /\ Len(chan[c]) <= BufCap /\ Len(chan[c]) \in Nat
      BY DEF TypeOK
<1>2. Len(chan[c]) # 0
      BY <1>1
<1> QED BY <1>1, <1>2, WaitersAssumption

\* A step that only commits leaves every channel and every request alone.
LEMMA TaskSteps ==
  ASSUME IInv, Move \/ End \/ StopTask \/ WriteLine \/ ChildExit
  PROVE  IInv'
<1> USE WaitersAssumption DEF Move, End, StopTask, WriteLine, ChildExit, Commit, bus, client
<1>1. TypeOK'
  <2>1. used' \in [moves : 0 .. MaxMoves, noise : 0 .. MaxNoise] /\ written' \in 0 .. MaxLines
        BY DEF IInv, TypeOK
  <2> QED BY <2>1 DEF IInv, TypeOK, Statuses
<1>2. Subscribed' /\ EndIsTrue' /\ DeletesEnded'
      BY DEF IInv, TypeOK, Statuses, Subscribed, EndIsTrue, DeletesEnded
<1>3. NoMissedEnd'
  <2>1. CASE End \/ StopTask
        BY <2>1 DEF IInv, NoMissedEnd, EndAhead, Following, Subscribed
  <2>2. CASE Move
        BY <2>2 DEF NoMissedEnd
  <2>3. CASE WriteLine \/ ChildExit
        BY <2>3 DEF IInv, NoMissedEnd, EndAhead, Following
  <2> QED BY <2>1, <2>2, <2>3
<1> QED BY <1>1, <1>2, <1>3 DEF IInv

\* A publication reaches every subscriber, or is lost to it.
LEMMA PublishSteps ==
  ASSUME IInv, Notify \/ NotifyOther
  PROVE  IInv'
<1> DEFINE e == IF Notify THEN unpublished ELSE "noise"
<1>1. /\ Publish(e) /\ e \in Published
      /\ e = "end" => unpublished = "end" /\ unpublished' = "none"
      /\ unpublished = "end" /\ unpublished' # "end" => e = "end"
      /\ unpublished' \in {"none", unpublished}
      /\ UNCHANGED <<status, stopPosted, child, written, client>>
      /\ used' \in [moves : 0 .. MaxMoves, noise : 0 .. MaxNoise]
  <2>1. CASE Notify
    <3>1. e = unpublished /\ e # "none" /\ unpublished' = "none" /\ Publish(e)
          BY <2>1 DEF Notify
    <3> QED BY <2>1, <3>1 DEF Notify, IInv, TypeOK, Published
  <2>2. CASE ~Notify
    <3>1. NotifyOther
          BY <2>2
    <3>2. e = "noise" /\ Publish(e) /\ unpublished' = unpublished
          BY <3>1, <2>2 DEF NotifyOther
    <3>3. used' \in [moves : 0 .. MaxMoves, noise : 0 .. MaxNoise]
      <4>1. used \in [moves : 0 .. MaxMoves, noise : 0 .. MaxNoise] /\ MaxNoise \in Nat
            BY WaitersAssumption DEF IInv, TypeOK
      <4>2. used' = [used EXCEPT !.noise = used.noise + 1] /\ used.noise < MaxNoise
            BY <3>1 DEF NotifyOther
      <4>3. used.noise + 1 \in 0 .. MaxNoise
            BY <4>1, <4>2
      <4> QED BY <4>1, <4>2, <4>3
    <3> QED BY <3>1, <3>2, <3>3 DEF NotifyOther, Published
  <2> QED BY <2>1, <2>2
<1> HIDE DEF e
<1>2. chan' \in [Clients -> Seq(Published)] /\ \A c \in Clients : Len(chan'[c]) <= BufCap
  <2>1. \A c \in Clients : chan'[c] \in Seq(Published) /\ Len(chan'[c]) <= BufCap
        BY <1>1, PublishOne DEF IInv
  <2>2. chan' = [c \in Clients |-> chan'[c]]
        BY <1>1 DEF Publish
  <2> QED BY <2>1, <2>2
<1>3. TypeOK'
  <2>1. subs' \subseteq Clients /\ lost' \subseteq Clients
        BY <1>1 DEF Publish, IInv, TypeOK
  <2> QED BY <1>1, <1>2, <2>1 DEF IInv, TypeOK, client
<1>4. Subscribed' /\ DeletesEnded'
      BY <1>1 DEF IInv, Subscribed, DeletesEnded, Publish, client
<1>5. EndIsTrue'
  <2>1. e = "end" => status # "live"
        BY <1>1 DEF IInv, EndIsTrue
  <2>2. ASSUME NEW c \in Clients, NEW i \in DOMAIN chan'[c], IsEnd(chan'[c][i])
        PROVE  status # "live"
        BY <1>1, <2>1, <2>2, PublishOne DEF IInv, EndIsTrue, IsEnd
  <2> QED BY <1>1, <2>2 DEF IInv, EndIsTrue, client
<1>6. NoMissedEnd'
  <2> SUFFICES ASSUME NEW c \in Removers \cup Followers, status # "live",
                      c \in subs, EndAhead(c)
               PROVE  c \in subs' /\ EndAhead(c)'
      BY <1>1 DEF IInv, NoMissedEnd, Following, client
  <2>0. c \in Clients
        BY DEF Clients
  <2>1. c \in subs'
        BY <1>1 DEF Publish
  <2>2. CASE e = "end"
    <3>1. c \in lost' \/ \E i \in DOMAIN chan'[c] : chan'[c][i] = e
          BY <1>1, <2>0, <2>2, PublishOne DEF IInv
    <3> QED BY <2>1, <2>2, <3>1 DEF EndAhead, IsEnd
  <2>3. CASE e # "end"
    <3>1. CASE unpublished = "end"
          BY <1>1, <2>1, <2>3, <3>1 DEF EndAhead
    <3>2. CASE c \in lost
          BY <1>1, <2>1, <3>2 DEF EndAhead, Publish
    <3>3. CASE \E i \in DOMAIN chan[c] : IsEnd(chan[c][i])
          BY <1>1, <2>0, <2>1, <3>3, PublishOne DEF EndAhead, IInv
    <3> QED BY <3>1, <3>2, <3>3 DEF EndAhead
  <2> QED BY <2>2, <2>3
<1> QED BY <1>3, <1>4, <1>5, <1>6 DEF IInv

\* A request that moves on without touching its channel or the task.
LEMMA QuietSteps ==
  ASSUME IInv, NEW c \in Clients, NEW l \in Locations,
         pc' = [pc EXCEPT ![c] = l],
         cancelled' \in [Followers -> BOOLEAN],
         \A f \in Followers : f # c => cancelled'[f] = cancelled[f],
         read' \in [Followers -> 0 .. MaxLines],
         stopPosted' \in BOOLEAN,
         UNCHANGED <<status, unpublished, child, written, used, sel, bus>>,
         l \in {"check", "wait", "read", "sleep"} =>
           pc[c] \in {"check", "wait", "read", "sleep"} \/ c \notin Removers \cup Followers,
         l = "delete" => status # "live",
         l = "wait" => status = "live",
         c \in Followers /\ l \in {"read", "sleep"} /\ ~cancelled'[c] /\ status # "live" =>
           pc[c] \in {"read", "sleep"} /\ ~cancelled[c]
  PROVE  IInv'
<1>1. TypeOK'
      BY DEF IInv, TypeOK, bus
<1>2. Subscribed' /\ EndIsTrue' /\ DeletesEnded'
      BY DEF IInv, TypeOK, Subscribed, EndIsTrue, DeletesEnded, bus
<1>3. NoMissedEnd'
  <2> SUFFICES ASSUME NEW d \in Removers \cup Followers, status # "live",
                      pc'[d] = "wait" \/ (d \in Followers /\ Following(d)' /\ ~cancelled'[d])
               PROVE  d \in subs /\ EndAhead(d)
      BY DEF NoMissedEnd, EndAhead, bus
  <2>1. pc[d] = "wait" \/ (d \in Followers /\ Following(d) /\ ~cancelled[d])
    <3>1. CASE d = c
          BY <3>1 DEF IInv, TypeOK, Following
    <3>2. CASE d # c
          BY <3>2 DEF IInv, TypeOK, Following
    <3> QED BY <3>1, <3>2
  <2> QED BY <2>1 DEF IInv, NoMissedEnd
<1> QED BY <1>1, <1>2, <1>3 DEF IInv

\* A request whose channel becomes empty: it joins the bus, or leaves it.
LEMMA EmptyingSteps ==
  ASSUME IInv, NEW c \in Clients, NEW l \in Locations,
         pc' = [pc EXCEPT ![c] = l],
         chan' = [chan EXCEPT ![c] = <<>>],
         \/ subs' = subs \cup {c}
         \/ subs' = subs \ {c} /\ l \notin {"check", "wait", "read", "sleep"},
         UNCHANGED <<task, lost, sel, read, cancelled>>,
         l \notin {"wait", "read", "sleep"},
         l = "delete" => status # "live"
  PROVE  IInv'
<1> USE WaitersAssumption
<1>1. TypeOK'
  <2>1. chan' \in [Clients -> Seq(Published)]
        BY DEF IInv, TypeOK
  <2>2. \A d \in Clients : Len(chan'[d]) <= BufCap
        BY DEF IInv, TypeOK
  <2> QED BY <2>1, <2>2 DEF IInv, TypeOK, task
<1>2. Subscribed' /\ DeletesEnded'
      BY DEF IInv, TypeOK, Subscribed, DeletesEnded, Clients, task
<1>3. EndIsTrue'
      BY DEF IInv, TypeOK, EndIsTrue, task
<1>4. NoMissedEnd'
      BY DEF IInv, TypeOK, NoMissedEnd, EndAhead, Following, Clients, task
<1> QED BY <1>1, <1>2, <1>3, <1>4 DEF IInv

\* A request that takes an event from its channel and goes on: it does not
\* wait for the end any more if that is what it took.
LEMMA ReceivingSteps ==
  ASSUME IInv, NEW c \in Clients, Receive(c),
         cancelled' \in [Followers -> BOOLEAN],
         \A f \in Followers : f # c => cancelled'[f] = cancelled[f],
         UNCHANGED <<task, pc, sel, read>>,
         c \in Removers \cup Followers =>
           \/ ~IsEnd(Head(chan[c])) /\ UNCHANGED cancelled
           \/ ~IsEnd(Head(chan[c])) /\ Following(c) /\ c \in Followers /\ ~cancelled[c]
           \/ pc[c] # "wait" /\ c \in Followers /\ cancelled'[c]
  PROVE  IInv'
<1> USE DEF Receive
<1>0. TypeOK /\ chan[c] # <<>>
      BY DEF IInv
<1>1. TypeOK'
  <2>1. chan' \in [Clients -> Seq(Published)]
        BY <1>0, TailOne DEF IInv, TypeOK
  <2>2. \A d \in Clients : Len(chan'[d]) <= BufCap
        BY <1>0, TailOne DEF IInv, TypeOK
  <2> QED BY <2>1, <2>2 DEF IInv, TypeOK, task
<1>2. Subscribed' /\ DeletesEnded'
      BY DEF IInv, Subscribed, DeletesEnded, task
<1>3. EndIsTrue'
  <2>1. ASSUME NEW d \in Clients, NEW i \in DOMAIN chan'[d], IsEnd(chan'[d][i])
        PROVE  status # "live"
    <3>1. CASE d # c
          BY <2>1, <3>1 DEF IInv, TypeOK, EndIsTrue
    <3>2. CASE d = c
      <4>1. chan'[d] = Tail(chan[c])
            BY <3>2 DEF IInv, TypeOK
      <4> QED BY <1>0, <2>1, <3>2, <4>1, TailOne DEF IInv, EndIsTrue
    <3> QED BY <3>1, <3>2
  <2> QED BY <2>1 DEF IInv, EndIsTrue, task
<1>4. NoMissedEnd'
  <2> SUFFICES ASSUME NEW d \in Removers \cup Followers, status # "live",
                      pc[d] = "wait" \/ (d \in Followers /\ Following(d) /\ ~cancelled'[d])
               PROVE  d \in subs /\ EndAhead(d)'
      BY DEF NoMissedEnd, Following, task
  <2>1. CASE d # c
    <3>1. d \in subs /\ EndAhead(d)
          BY <2>1 DEF IInv, NoMissedEnd
    <3>2. chan'[d] = chan[d]
          BY <2>1 DEF IInv, TypeOK, Clients
    <3> QED BY <3>1, <3>2 DEF EndAhead, task
  <2>2. CASE d = c
    <3>1. ~IsEnd(Head(chan[c])) /\ (pc[c] = "wait" \/ (c \in Followers /\ Following(c) /\ ~cancelled[c]))
          BY <2>2
    <3>2. EndAhead(c)
          BY <2>2, <3>1 DEF IInv, NoMissedEnd
    <3>3. chan'[c] = Tail(chan[c])
          BY DEF IInv, TypeOK
    <3>4. ASSUME NEW i \in DOMAIN chan[c], IsEnd(chan[c][i])
          PROVE  \E j \in DOMAIN chan'[c] : IsEnd(chan'[c][j])
      <4>1. i # 1
            BY <1>0, <3>1, <3>4, TailOne
      <4>2. \A k \in DOMAIN chan[c] : k # 1 =>
              k - 1 \in DOMAIN Tail(chan[c]) /\ Tail(chan[c])[k - 1] = chan[c][k]
            BY <1>0, TailOne
      <4>3. i - 1 \in DOMAIN Tail(chan[c]) /\ Tail(chan[c])[i - 1] = chan[c][i]
            BY <4>1, <4>2
      <4> QED BY <3>3, <3>4, <4>3
    <3> QED BY <2>2, <3>2, <3>4 DEF EndAhead, task
  <2> QED BY <2>1, <2>2
<1> QED BY <1>1, <1>2, <1>3, <1>4 DEF IInv

\* What is at the head of a channel and ends a wait says that the task is over.
LEMMA HeadIsTrue ==
  ASSUME IInv, NEW c \in Clients, chan[c] # <<>>, IsEnd(Head(chan[c]))
  PROVE  status # "live"
<1>1. Head(chan[c]) = chan[c][1] /\ 1 \in DOMAIN chan[c]
      BY TailOne DEF IInv
<1> QED BY <1>1 DEF IInv, EndIsTrue

\* waitTerminal and followLogs join the bus before their look at the store.
LEMMA SubscribeToWaitStep ==
  ASSUME IInv, NEW c \in Clients, SubscribeToWait(c)
  PROVE  IInv'
<1> "check" \in Locations
    BY DEF Locations
<1> QED BY EmptyingSteps DEF SubscribeToWait, Subscribe, Goto

\* Each step of remove --force.
LEMMA RemoveSteps ==
  ASSUME IInv, NEW c \in Removers, Remove(c)
  PROVE  IInv'
<1> USE WaitersAssumption
<1>0. /\ c \in Clients /\ c \notin Followers
      /\ {"finished", "post", "subscribe", "check", "wait", "delete"} \subseteq Locations
      /\ cancelled \in [Followers -> BOOLEAN] /\ read \in [Followers -> 0 .. MaxLines]
      /\ stopPosted \in BOOLEAN
      BY DEF Clients, Locations, IInv, TypeOK
<1>1. CASE ResolveForRemove(c)
      BY <1>0, <1>1, QuietSteps DEF ResolveForRemove, Goto, task, Terminal
<1>2. CASE PostStop(c)
      BY <1>0, <1>2, QuietSteps DEF PostStop, Goto
<1>3. CASE SubscribeToWait(c)
      BY <1>0, <1>3, SubscribeToWaitStep
<1>4. CASE CheckForRemove(c)
  <2>1. CASE status = "live" /\ Goto(c, "wait") /\ UNCHANGED bus
        BY <1>0, <1>4, <2>1, QuietSteps DEF CheckForRemove, Goto, task
  <2>2. CASE status \in Terminal /\ Goto(c, "delete") /\ Unsubscribe(c)
        BY <1>0, <1>4, <2>2, EmptyingSteps DEF CheckForRemove, Goto, Unsubscribe, Terminal
  <2>3. CASE Goto(c, "finished") /\ Unsubscribe(c)
        BY <1>0, <1>4, <2>3, EmptyingSteps DEF CheckForRemove, Goto, Unsubscribe
  <2> QED BY <1>4, <2>1, <2>2, <2>3 DEF CheckForRemove
<1>5. CASE WaitTerminal(c)
  <2>1. CASE IsEnd(Head(chan[c])) /\ Goto(c, "delete") /\ Unsubscribe(c)
    <3>1. status # "live"
          BY <1>0, <1>5, <2>1, HeadIsTrue DEF WaitTerminal
    <3> QED BY <1>0, <1>5, <2>1, <3>1, EmptyingSteps DEF WaitTerminal, Goto, Unsubscribe
  <2>2. CASE ~IsEnd(Head(chan[c])) /\ Receive(c) /\ UNCHANGED client
        BY <1>0, <1>5, <2>2, ReceivingSteps DEF WaitTerminal, client
  <2> QED BY <1>5, <2>1, <2>2 DEF WaitTerminal
<1>6. CASE Delete(c)
  <2>1. status # "live" /\ pc' = [pc EXCEPT ![c] = "finished"]
        BY <1>0, <1>6 DEF Delete, Goto, IInv, DeletesEnded
  <2>2. TypeOK'
        BY <1>0, <1>6, <2>1 DEF Delete, Goto, IInv, TypeOK, Statuses, bus
  <2>3. Subscribed' /\ EndIsTrue' /\ DeletesEnded'
        BY <1>6 DEF Delete, Goto, bus, IInv, TypeOK, Subscribed, EndIsTrue, DeletesEnded
  <2>4. NoMissedEnd'
        BY <1>0, <1>6, <2>1 DEF Delete, Goto, bus, IInv, TypeOK, NoMissedEnd, EndAhead,
           Following, Clients
  <2> QED BY <2>2, <2>3, <2>4 DEF IInv
<1> QED BY <1>1, <1>2, <1>3, <1>4, <1>5, <1>6 DEF Remove

\* Each step of attach.
LEMMA AttachSteps ==
  ASSUME IInv, NEW c \in Attachers, Attach(c)
  PROVE  IInv'
<1> USE WaitersAssumption
<1>0. /\ c \in Clients /\ c \notin Followers /\ c \notin Removers
      /\ {"finished", "subscribe", "stream"} \subseteq Locations
      /\ cancelled \in [Followers -> BOOLEAN] /\ read \in [Followers -> 0 .. MaxLines]
      /\ stopPosted \in BOOLEAN
      BY DEF Clients, Locations, IInv, TypeOK
<1>1. CASE GetForAttach(c)
      BY <1>0, <1>1, QuietSteps DEF GetForAttach, Goto, task
<1>2. CASE SubscribeToEvents(c)
      BY <1>0, <1>2, EmptyingSteps DEF SubscribeToEvents, Subscribe, Goto
<1>3. CASE StreamEvent(c)
  <2>1. CASE Goto(c, "finished") /\ Unsubscribe(c)
        BY <1>0, <1>3, <2>1, EmptyingSteps DEF StreamEvent, Goto, Unsubscribe
  <2>2. CASE Receive(c) /\ UNCHANGED client
        BY <1>0, <1>3, <2>2, ReceivingSteps DEF StreamEvent, client
  <2> QED BY <1>3, <2>1, <2>2 DEF StreamEvent
<1> QED BY <1>1, <1>2, <1>3 DEF Attach

\* Each step of logs --follow, its watcher included.
LEMMA FollowSteps ==
  ASSUME IInv, NEW c \in Followers, Follow(c) \/ Watch(c) \/ EndFollow(c)
  PROVE  IInv'
<1> USE WaitersAssumption
<1>0. /\ c \in Clients /\ c \notin Removers
      /\ {"finished", "subscribe", "check", "read", "sleep"} \subseteq Locations
      /\ cancelled \in [Followers -> BOOLEAN] /\ read \in [Followers -> 0 .. MaxLines]
      /\ stopPosted \in BOOLEAN /\ written \in 0 .. MaxLines
      /\ status \in Statuses /\ pc \in [Clients -> Locations]
      BY DEF Clients, Locations, IInv, TypeOK
<1>1. CASE ResolveForFollow(c)
      BY <1>0, <1>1, QuietSteps DEF ResolveForFollow, Goto, task
<1>2. CASE SubscribeToWait(c)
      BY <1>0, <1>2, SubscribeToWaitStep
<1>3. CASE CheckForFollow(c)
  <2>1. CASE Goto(c, "finished") /\ Unsubscribe(c)
        BY <1>0, <1>3, <2>1, EmptyingSteps DEF CheckForFollow, Goto, Unsubscribe
  <2>2. CASE /\ status # "deleted"
             /\ pc' = [pc EXCEPT ![c] = "read"]
             /\ cancelled' = [cancelled EXCEPT ![c] = status \in Terminal]
             /\ UNCHANGED <<sel, read, bus>>
    <3>1. status # "live" => cancelled'[c]
          BY <1>0, <2>2 DEF Statuses, Terminal
    <3>2. /\ cancelled' \in [Followers -> BOOLEAN]
          /\ \A f \in Followers : f # c => cancelled'[f] = cancelled[f]
          BY <1>0, <2>2
    <3> QED BY <1>0, <1>3, <2>2, <3>1, <3>2, QuietSteps DEF CheckForFollow, task
  <2> QED BY <1>3, <2>1, <2>2 DEF CheckForFollow
<1>4. CASE ReadLog(c)
  <2>1. CASE read' = [read EXCEPT ![c] = written] /\ UNCHANGED <<pc, sel, cancelled>>
    <3>1. pc' = [pc EXCEPT ![c] = "read"] /\ read' \in [Followers -> 0 .. MaxLines]
          BY <1>0, <1>4, <2>1 DEF ReadLog
    <3> QED BY <1>0, <1>4, <2>1, <3>1, QuietSteps DEF ReadLog, task
  <2>2. CASE Goto(c, "sleep")
        BY <1>0, <1>4, <2>2, QuietSteps DEF ReadLog, Goto, task
  <2> QED BY <1>4, <2>1, <2>2 DEF ReadLog
<1>5. CASE WakeUp(c)
      BY <1>0, <1>5, QuietSteps DEF WakeUp, Goto, task
<1>6. CASE Watch(c)
  <2>1. /\ Receive(c) /\ Following(c) /\ ~cancelled[c]
        /\ cancelled' \in [Followers -> BOOLEAN]
        /\ \A f \in Followers : f # c => cancelled'[f] = cancelled[f]
        /\ cancelled'[c] = IsEnd(Head(chan[c]))
        BY <1>0, <1>6 DEF Watch, IsEnd
  <2>2. pc[c] # "wait" /\ UNCHANGED <<task, pc, sel, read>>
        BY <1>6, <2>1 DEF Watch, Following
  <2> QED BY <1>0, <2>1, <2>2, ReceivingSteps
<1>7. CASE EndFollow(c)
      BY <1>0, <1>7, EmptyingSteps DEF EndFollow, Goto, Unsubscribe
<1> QED BY <1>1, <1>2, <1>3, <1>4, <1>5, <1>6, <1>7 DEF Follow

\* The invariant is inductive.
LEMMA StepIInv == IInv /\ [Next]_vars => IInv'
<1> SUFFICES ASSUME IInv, [Next]_vars PROVE IInv'
    OBVIOUS
<1>1. CASE Move \/ End \/ StopTask \/ WriteLine \/ ChildExit
      BY <1>1, TaskSteps
<1>2. CASE Notify \/ NotifyOther
      BY <1>2, PublishSteps
<1>3. CASE \E c \in Removers : Remove(c)
      BY <1>3, RemoveSteps
<1>4. CASE \E c \in Attachers : Attach(c)
      BY <1>4, AttachSteps
<1>5. CASE \E c \in Followers : Follow(c) \/ Watch(c) \/ EndFollow(c)
      BY <1>5, FollowSteps
<1>6. CASE UNCHANGED vars
      BY <1>6 DEF vars, IInv, TypeOK, Subscribed, EndIsTrue, DeletesEnded, NoMissedEnd,
         EndAhead, Following
<1> QED BY <1>1, <1>2, <1>3, <1>4, <1>5, <1>6 DEF Next

\* The inductive invariant holds in every reachable state.
LEMMA AlwaysIInv == Spec => []IInv
<1> QED BY InitIInv, StepIInv, PTL DEF Spec

\* For any number of removers, attachers and followers and any buffer: no
\* waiter of remove --force or logs --follow misses the end of its task, unless
\* its own buffer overflowed (methods.go:451-475, 671-697; bus.go:33-59).
THEOREM NoEndIsMissed == Spec => []NoMissedEnd
<1>1. IInv => NoMissedEnd
      BY DEF IInv
<1> QED BY <1>1, AlwaysIInv, PTL

\* However many clients remove a task at once, it is deleted only after its end
\* has been committed (methods.go:374-402).
THEOREM OnlyTheEndedIsDeleted == Spec => OnlyEndedIsDeleted
<1>1. IInv /\ [Next]_vars => [status' = "deleted" => status # "live"]_vars
  <2> SUFFICES ASSUME IInv, Next, status' = "deleted" PROVE status # "live"
      OBVIOUS
  <2> SUFFICES ASSUME status = "live" PROVE FALSE
      OBVIOUS
  <2>1. ~(Move \/ End \/ StopTask \/ WriteLine \/ ChildExit \/ Notify \/ NotifyOther)
        BY DEF Move, End, StopTask, WriteLine, ChildExit, Notify, NotifyOther, Commit
  <2>2. ASSUME NEW c \in Removers PROVE ~Remove(c)
    <3>1. ~Delete(c)
          BY DEF Delete, IInv, DeletesEnded, Clients
    <3> QED BY <3>1 DEF Remove, ResolveForRemove, PostStop, SubscribeToWait, CheckForRemove,
               WaitTerminal, task
  <2>3. ASSUME NEW c \in Attachers PROVE ~Attach(c)
        BY DEF Attach, GetForAttach, SubscribeToEvents, StreamEvent, task
  <2>4. ASSUME NEW c \in Followers PROVE ~(Follow(c) \/ Watch(c) \/ EndFollow(c))
        BY DEF Follow, ResolveForFollow, SubscribeToWait, CheckForFollow, ReadLog, WakeUp,
           Watch, EndFollow, task
  <2> QED BY <2>1, <2>2, <2>3, <2>4 DEF Next
<1> QED BY <1>1, AlwaysIInv, PTL DEF Spec, OnlyEndedIsDeleted
=============================================================================
