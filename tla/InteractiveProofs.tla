------------------------- MODULE InteractiveProofs -------------------------
(***************************************************************************)
(* What a viewer renders is the output, and the exit has the whole log, for*)
(* any number of viewers, any buffers and any amount of output.            *)
(*                                                                         *)
(* Neither property is inductive.  Order has to be known of all the places *)
(* a chunk passes through, one after the other: the screen, the connection,*)
(* the replayed tail, the subscriber's buffer (Ordered).  That nothing is  *)
(* missing at the end needs that, all along, what is neither dropped nor on*)
(* the screen is in one of those places (Covered), which the step from the *)
(* tail to the live chunks (SubscribeInv) and the end of the broadcast     *)
(* before that of the stream (PlaceInv) depend on.  The log needs the place*)
(* of the capture: what has been read is in the file, or held, or between. *)
(***************************************************************************)
EXTENDS Interactive, SequenceTheorems, TLAPS

\* What a sequence holds.
El(s) == {s[i] : i \in DOMAIN s}
Increasing(s) == \A i, j \in DOMAIN s : i < j => s[i] < s[j]
Below(S, T) == \A x \in S, y \in T : x < y

\* The chunks that a connection carries.
Carried(c) == UNION {El(c[k].data) : k \in DOMAIN c}
CarriedInOrder(c) ==
  /\ \A k \in DOMAIN c : Increasing(c[k].data)
  /\ \A k, l \in DOMAIN c : k < l => Below(El(c[k].data), El(c[l].data))

\* The way of a chunk to the screen: from the buffer of the subscriber or the
\* replayed tail to the connection, and from there to what is shown.
Ordered(screen, c, first, live) ==
  /\ Increasing(screen) /\ CarriedInOrder(c) /\ Increasing(first) /\ Increasing(live)
  /\ Below(El(screen), Carried(c) \union El(first) \union El(live))
  /\ Below(Carried(c), El(first) \union El(live))
  /\ Below(El(first), El(live))

Way(screen, c, first, live) == El(screen) \union Carried(c) \union El(first) \union El(live)
OnItsWay(v) == Way(shown[v], conn[v], replay[v], chan[v])

Count(n) == [c \in 1..n |-> c]

\* The log follows the capture, and the exit follows both.
CaptureInv ==
  /\ child = "none" => capture = "none" /\ ~pty
  /\ capture = "none" => child = "none"
  /\ child = "alive" => pty
  /\ child = "dead" /\ ~pty => capture = "reap"
  /\ capture = "log" => read > 0
  /\ faults = 0 =>
       /\ log \o held = Count(IF capture = "log" THEN read - 1 ELSE read)
       /\ capture \in {"close", "flush", "reap"} => child = "dead" /\ read = written
  /\ capture = "reap" => held = <<>>
  /\ exit # <<>> => exit = <<log>> /\ child = "dead" /\ ~pty

\* The tail is the last of what was read.
TailInv ==
  /\ Len(tail) <= read
  /\ \A i \in DOMAIN tail : tail[i] = read - Len(tail) + i
  /\ closed <=> capture \in {"flush", "reap"}
  /\ closed => subs = {}

\* Where a handler and its client are.
PlaceInv(v) ==
  /\ view[v] \in {"poll", "ready", "gone"} => handler[v] = "none"
  /\ handler[v] \in {"none", "look", "subscribe"} => shown[v] = <<>> /\ conn[v] = <<>>
  /\ handler[v] \notin {"tail", "stream"} => v \notin subs /\ chan[v] = <<>>
  /\ handler[v] # "tail" => replay[v] = <<>>
  /\ handler[v] \in {"tail", "stream"} => v \in subs \/ closed
  /\ ~open[v] => conn[v] = <<>>
  /\ \A k \in DOMAIN conn[v] : conn[v][k].kind # "data" =>
       k = Len(conn[v]) /\ conn[v][k].data = <<>> /\ handler[v] = "returned"

\* Nothing that was neither dropped nor rendered is missing on the way.
Covered(v) == {c \in from[v]..read : c \notin dropped[v]} \subseteq OnItsWay(v)

CoverInv(v) ==
  /\ open[v] /\ handler[v] \in {"tail", "stream"} => Covered(v)
  /\ \A k \in DOMAIN conn[v] : conn[v][k].kind = "done" => Covered(v) /\ closed
  /\ view[v] = "done" => Covered(v) /\ closed /\ handler[v] = "returned" /\ ~open[v]

OrderInv(v) ==
  /\ Ordered(shown[v], conn[v], replay[v], chan[v])
  /\ \A c \in OnItsWay(v) : c <= read

ViewerInv(v) == PlaceInv(v) /\ OrderInv(v) /\ CoverInv(v)

-----------------------------------------------------------------------------
\* Sequences of chunks.

\* One chunk more at the end.
LEMMA AppendFacts ==
  ASSUME NEW s \in Seq(Nat), NEW e \in Nat
  PROVE  /\ El(Append(s, e)) = El(s) \union {e}
         /\ Increasing(s) /\ Below(El(s), {e}) => Increasing(Append(s, e))
<1> DEFINE t == Append(s, e)
<1>1. /\ Len(s) \in Nat /\ DOMAIN s = 1 .. Len(s) /\ DOMAIN t = 1 .. (Len(s) + 1)
      /\ t[Len(s) + 1] = e /\ \A i \in 1 .. Len(s) : t[i] = s[i]
  OBVIOUS
<1>2. \A i \in DOMAIN t : i \in DOMAIN s \/ i = Len(s) + 1
  BY <1>1
<1>3. Len(s) + 1 \in DOMAIN t /\ DOMAIN s \subseteq DOMAIN t
  BY <1>1
<1>4. \A i \in DOMAIN s : i < Len(s) + 1
  BY <1>1
<1>5. \A i \in DOMAIN s : t[i] = s[i]
  BY <1>1
<1>6. t[Len(s) + 1] = e /\ \A i \in DOMAIN t : i \in Nat
  BY <1>1
<1> HIDE DEF t
<1>7. El(t) = El(s) \union {e}
  BY <1>2, <1>3, <1>5, <1>6 DEF El
<1>8. ASSUME Increasing(s), Below(El(s), {e}), NEW i \in DOMAIN t, NEW j \in DOMAIN t, i < j
      PROVE  t[i] < t[j]
  <2>1. i \in DOMAIN s
    BY <1>1, <1>8
  <2>2. CASE j \in DOMAIN s
    BY <1>5, <1>8, <2>1, <2>2 DEF Increasing
  <2>3. CASE j = Len(s) + 1
    BY <1>5, <1>6, <1>8, <2>1, <2>3 DEF Below, El
  <2> QED
    BY <1>2, <2>2, <2>3
<1> QED
  BY <1>7, <1>8 DEF Increasing, t

\* Two runs of chunks one after the other.
LEMMA ConcatFacts ==
  ASSUME NEW s \in Seq(Nat), NEW r \in Seq(Nat)
  PROVE  /\ El(s \o r) = El(s) \union El(r)
         /\ Increasing(s) /\ Increasing(r) /\ Below(El(s), El(r)) => Increasing(s \o r)
<1> DEFINE t == s \o r
<1>1. /\ Len(s) \in Nat /\ Len(r) \in Nat /\ DOMAIN s = 1 .. Len(s) /\ DOMAIN r = 1 .. Len(r)
      /\ DOMAIN t = 1 .. (Len(s) + Len(r))
      /\ \A i \in 1 .. (Len(s) + Len(r)) : t[i] = IF i <= Len(s) THEN s[i] ELSE r[i - Len(s)]
  OBVIOUS
<1>2. \A i \in DOMAIN t : \/ i \in DOMAIN s /\ t[i] = s[i]
                          \/ i - Len(s) \in DOMAIN r /\ t[i] = r[i - Len(s)] /\ i > Len(s)
  BY <1>1
<1>3. \A i \in DOMAIN s : i \in DOMAIN t /\ t[i] = s[i]
  BY <1>1
<1>4. \A i \in DOMAIN r : i + Len(s) \in DOMAIN t /\ t[i + Len(s)] = r[i]
  BY <1>1
<1>5. \A i \in DOMAIN t : i \in Nat
  BY <1>1
<1> HIDE DEF t
<1>6. El(t) = El(s) \union El(r)
  BY <1>2, <1>3, <1>4 DEF El
<1>7. ASSUME Increasing(s), Increasing(r), Below(El(s), El(r)),
             NEW i \in DOMAIN t, NEW j \in DOMAIN t, i < j
      PROVE  t[i] < t[j]
  <2>1. CASE i \in DOMAIN s /\ t[i] = s[i]
    <3>1. CASE j \in DOMAIN s /\ t[j] = s[j]
      BY <1>7, <2>1, <3>1 DEF Increasing
    <3>2. CASE j - Len(s) \in DOMAIN r /\ t[j] = r[j - Len(s)]
      BY <1>7, <2>1, <3>2 DEF Below, El
    <3> QED
      BY <1>2, <3>1, <3>2
  <2>2. CASE i - Len(s) \in DOMAIN r /\ t[i] = r[i - Len(s)] /\ i > Len(s)
    <3>1. j - Len(s) \in DOMAIN r /\ t[j] = r[j - Len(s)] /\ i - Len(s) < j - Len(s)
      BY <1>1, <1>2, <1>5, <1>7, <2>2
    <3> QED
      BY <1>7, <2>2, <3>1 DEF Increasing
  <2> QED
    BY <1>2, <2>1, <2>2
<1> QED
  BY <1>6, <1>7 DEF Increasing, t

\* The first element, and the rest shifted by one.
LEMMA TailFacts ==
  ASSUME NEW S, NEW s \in Seq(S), s # <<>>
  PROVE  /\ Tail(s) \in Seq(S) /\ Len(Tail(s)) = Len(s) - 1 /\ Head(s) = s[1]
         /\ 1 \in DOMAIN s /\ Len(s) \in Nat /\ Head(s) \in S
         /\ \A i \in DOMAIN Tail(s) : i \in Nat /\ i + 1 \in DOMAIN s /\ Tail(s)[i] = s[i + 1]
         /\ \A i \in DOMAIN s : i \in Nat /\ (i = 1 \/ (i - 1 \in DOMAIN Tail(s) /\ Tail(s)[i - 1] = s[i]))
<1>1. /\ Tail(s) \in Seq(S) /\ Len(s) \in Nat /\ Len(s) > 0 /\ Head(s) = s[1]
      /\ DOMAIN s = 1 .. Len(s) /\ DOMAIN Tail(s) = 1 .. (Len(s) - 1)
      /\ \A i \in 1 .. (Len(s) - 1) : Tail(s)[i] = s[i + 1]
      /\ Len(Tail(s)) = Len(s) - 1
  OBVIOUS
<1>2. 1 \in DOMAIN s /\ Head(s) \in S
  BY <1>1
<1>3. \A i \in DOMAIN Tail(s) : i \in Nat /\ i + 1 \in DOMAIN s /\ Tail(s)[i] = s[i + 1]
  BY <1>1
<1>4. ASSUME NEW i \in DOMAIN s, i # 1
      PROVE  i \in Nat /\ i - 1 \in DOMAIN Tail(s) /\ Tail(s)[i - 1] = s[i]
  <2>1. i \in Nat /\ i - 1 \in 1 .. (Len(s) - 1) /\ (i - 1) + 1 = i
    BY <1>1, <1>4
  <2> QED
    BY <1>1, <2>1
<1> QED
  BY <1>1, <1>2, <1>3, <1>4

\* The first chunk, and the rest.
LEMMA HeadFacts ==
  ASSUME NEW s \in Seq(Nat), s # <<>>
  PROVE  /\ El(s) = {Head(s)} \union El(Tail(s))
         /\ Increasing(s) => Increasing(Tail(s)) /\ Below({Head(s)}, El(Tail(s)))
<1>1. /\ Head(s) = s[1] /\ 1 \in DOMAIN s
      /\ \A i \in DOMAIN Tail(s) : i \in Nat /\ i + 1 \in DOMAIN s /\ Tail(s)[i] = s[i + 1]
      /\ \A i \in DOMAIN s : i \in Nat /\ (i = 1 \/ (i - 1 \in DOMAIN Tail(s) /\ Tail(s)[i - 1] = s[i]))
  BY TailFacts
<1>2. El(s) = {Head(s)} \union El(Tail(s))
  <2>1. ASSUME NEW i \in DOMAIN s PROVE s[i] \in {Head(s)} \union El(Tail(s))
    BY <1>1 DEF El
  <2>2. Head(s) \in El(s) /\ \A i \in DOMAIN Tail(s) : Tail(s)[i] \in El(s)
    BY <1>1 DEF El
  <2> QED
    BY <2>1, <2>2 DEF El
<1>3. \A i \in DOMAIN Tail(s) : 1 < i + 1
  OBVIOUS
<1>4. ASSUME Increasing(s), NEW i \in DOMAIN Tail(s), NEW j \in DOMAIN Tail(s), i < j
      PROVE  Tail(s)[i] < Tail(s)[j]
  <2>1. i + 1 < j + 1
    BY <1>1, <1>4
  <2> QED
    BY <1>1, <1>4, <2>1 DEF Increasing
<1>5. ASSUME Increasing(s), NEW i \in DOMAIN Tail(s)
      PROVE  Head(s) < Tail(s)[i]
  BY <1>1, <1>3, <1>5 DEF Increasing
<1> QED
  BY <1>2, <1>4, <1>5 DEF Increasing, Below, El

\* What a connection carries.

Response == [kind : {"data", "done", "error"}, data : Seq(Nat)]

\* A response is written, ...
LEMMA CarriedAppend ==
  ASSUME NEW c \in Seq(Response), NEW r \in Response
  PROVE  /\ Carried(Append(c, r)) = Carried(c) \union El(r.data)
         /\ CarriedInOrder(c) /\ Increasing(r.data) /\ Below(Carried(c), El(r.data))
              => CarriedInOrder(Append(c, r))
<1> DEFINE t == Append(c, r)
<1>1. /\ Len(c) \in Nat /\ DOMAIN c = 1 .. Len(c) /\ DOMAIN t = 1 .. (Len(c) + 1)
      /\ t[Len(c) + 1] = r /\ \A k \in 1 .. Len(c) : t[k] = c[k]
  OBVIOUS
<1>2. \A k \in DOMAIN t : k \in Nat /\ (k \in DOMAIN c \/ k = Len(c) + 1)
  BY <1>1
<1>3. /\ Len(c) + 1 \in DOMAIN t /\ t[Len(c) + 1] = r
      /\ \A k \in DOMAIN c : k \in DOMAIN t /\ t[k] = c[k]
  BY <1>1
<1>4. \A k, l \in DOMAIN t : k < l => k \in DOMAIN c
  BY <1>1
<1> HIDE DEF t
<1>5. Carried(t) = Carried(c) \union El(r.data)
  <2>1. \A k \in DOMAIN t : El(t[k].data) \subseteq Carried(c) \union El(r.data)
    BY <1>2, <1>3 DEF Carried
  <2>2. /\ El(r.data) \subseteq Carried(t)
        /\ \A k \in DOMAIN c : El(c[k].data) \subseteq Carried(t)
    BY <1>3 DEF Carried
  <2>3. Carried(c) \subseteq Carried(t)
    BY <2>2 DEF Carried
  <2>4. Carried(t) \subseteq Carried(c) \union El(r.data)
    <3> HIDE DEF t
    <3> SUFFICES ASSUME NEW k \in DOMAIN t, NEW x \in El(t[k].data)
                 PROVE  x \in Carried(c) \union El(r.data)
      BY DEF Carried
    <3> QED
      BY <2>1
  <2> QED
    BY <2>2, <2>3, <2>4
<1>6. ASSUME CarriedInOrder(c), Increasing(r.data), Below(Carried(c), El(r.data))
      PROVE  CarriedInOrder(t)
  <2>1. \A k \in DOMAIN t : Increasing(t[k].data)
    BY <1>2, <1>3, <1>6 DEF CarriedInOrder
  <2>2. ASSUME NEW k \in DOMAIN t, NEW l \in DOMAIN t, k < l
        PROVE  Below(El(t[k].data), El(t[l].data))
    <3>1. k \in DOMAIN c /\ t[k] = c[k]
      BY <1>3, <1>4, <2>2
    <3>2. CASE l \in DOMAIN c
      BY <1>3, <1>6, <2>2, <3>1, <3>2 DEF CarriedInOrder
    <3>3. CASE l = Len(c) + 1
      <4>1. El(t[k].data) \subseteq Carried(c)
        BY <3>1 DEF Carried
      <4> QED
        BY <1>3, <1>6, <3>3, <4>1 DEF Below
    <3> QED
      BY <1>2, <3>2, <3>3
  <2> QED
    BY <2>1, <2>2 DEF CarriedInOrder
<1> QED
  BY <1>5, <1>6 DEF t

\* ... and the first one is read.
LEMMA CarriedTail ==
  ASSUME NEW c \in Seq(Response), c # <<>>
  PROVE  /\ Carried(c) = El(Head(c).data) \union Carried(Tail(c))
         /\ CarriedInOrder(c) => /\ CarriedInOrder(Tail(c)) /\ Increasing(Head(c).data)
                                 /\ Below(El(Head(c).data), Carried(Tail(c)))
<1>1. /\ Head(c) = c[1] /\ 1 \in DOMAIN c
      /\ \A i \in DOMAIN Tail(c) : i \in Nat /\ i + 1 \in DOMAIN c /\ Tail(c)[i] = c[i + 1]
      /\ \A i \in DOMAIN c :
           i \in Nat /\ (i = 1 \/ (i - 1 \in DOMAIN Tail(c) /\ Tail(c)[i - 1] = c[i]))
      /\ \A i \in DOMAIN Tail(c) : 1 < i + 1
  BY TailFacts
<1> DEFINE t == Tail(c)
           h == Head(c)
<1> HIDE DEF t, h
<1>2. /\ h = c[1] /\ 1 \in DOMAIN c
      /\ \A i \in DOMAIN t : i \in Nat /\ i + 1 \in DOMAIN c /\ t[i] = c[i + 1] /\ 1 < i + 1
      /\ \A i \in DOMAIN c : i = 1 \/ (i - 1 \in DOMAIN t /\ t[i - 1] = c[i])
  BY <1>1 DEF t, h
<1>3. Carried(c) = El(h.data) \union Carried(t)
  <2>1. \A k \in DOMAIN c : El(c[k].data) \subseteq El(h.data) \union Carried(t)
    <3> SUFFICES ASSUME NEW k \in DOMAIN c, k # 1 PROVE El(c[k].data) \subseteq Carried(t)
      BY <1>2
    <3>1. k - 1 \in DOMAIN t /\ t[k - 1] = c[k]
      BY <1>2
    <3> QED
      BY <3>1 DEF Carried
  <2>2. El(h.data) \subseteq Carried(c)
    BY <1>2 DEF Carried
  <2>3. \A k \in DOMAIN t : El(t[k].data) \subseteq Carried(c)
    <3> TAKE k \in DOMAIN t
    <3>1. k + 1 \in DOMAIN c /\ t[k] = c[k + 1]
      BY <1>2
    <3> QED
      BY <3>1 DEF Carried
  <2>4. Carried(t) \subseteq Carried(c)
    <3> SUFFICES ASSUME NEW k \in DOMAIN t, NEW x \in El(t[k].data) PROVE x \in Carried(c)
      BY DEF Carried
    <3> QED
      BY <2>3
  <2>5. Carried(c) \subseteq El(h.data) \union Carried(t)
    <3> SUFFICES ASSUME NEW k \in DOMAIN c, NEW x \in El(c[k].data)
                 PROVE  x \in El(h.data) \union Carried(t)
      BY DEF Carried
    <3> QED
      BY <2>1
  <2> QED
    BY <2>2, <2>4, <2>5
<1>4. ASSUME CarriedInOrder(c)
      PROVE  CarriedInOrder(t) /\ Increasing(h.data) /\ Below(El(h.data), Carried(t))
  <2>1. Increasing(h.data) /\ \A k \in DOMAIN t : Increasing(t[k].data)
    BY <1>2, <1>4 DEF CarriedInOrder
  <2>2. \A k \in DOMAIN t : Below(El(h.data), El(t[k].data))
    BY <1>2, <1>4 DEF CarriedInOrder
  <2>3. Below(El(h.data), Carried(t))
    <3> SUFFICES ASSUME NEW x \in El(h.data), NEW k \in DOMAIN t, NEW y \in El(t[k].data)
                 PROVE  x < y
      BY DEF Below, Carried
    <3> QED
      BY <2>2 DEF Below
  <2>4. ASSUME NEW k \in DOMAIN t, NEW l \in DOMAIN t, k < l
        PROVE  Below(El(t[k].data), El(t[l].data))
    <3>1. k + 1 < l + 1
      BY <1>2, <2>4
    <3> QED
      BY <1>2, <1>4, <3>1 DEF CarriedInOrder
  <2> QED
    BY <2>1, <2>3, <2>4 DEF CarriedInOrder
<1> QED
  BY <1>3, <1>4 DEF t, h

-----------------------------------------------------------------------------
\* The steps of a chunk on its way keep the order and lose nothing.

\* An empty connection, an empty buffer.
LEMMA NothingCarried == Carried(<<>>) = {} /\ CarriedInOrder(<<>>) /\ El(<<>>) = {} /\ Increasing(<<>>)
BY DEF Carried, CarriedInOrder, El, Increasing

\* Chunks are numbers.
LEMMA WayType ==
  ASSUME NEW s \in Seq(Nat), NEW c \in Seq(Response), NEW r \in Seq(Nat), NEW b \in Seq(Nat)
  PROVE  Way(s, c, r, b) \subseteq Nat
<1>1. \A q \in Seq(Nat) : El(q) \subseteq Nat
  BY DEF El
<1>2. \A k \in DOMAIN c : El(c[k].data) \subseteq Nat
  <2> TAKE k \in DOMAIN c
  <2>1. c[k] \in Response
    OBVIOUS
  <2>2. c[k].data \in Seq(Nat)
    BY <2>1 DEF Response
  <2> QED
    BY <1>1, <2>2
<1>3. Carried(c) \subseteq Nat
  <2> SUFFICES ASSUME NEW k \in DOMAIN c, NEW x \in El(c[k].data) PROVE x \in Nat
    BY DEF Carried
  <2> QED
    BY <1>2
<1> QED
  BY <1>1, <1>3 DEF Way

\* The client renders what it receives.
LEMMA WayReceive ==
  ASSUME NEW s \in Seq(Nat), NEW c \in Seq(Response), NEW r \in Seq(Nat), NEW b \in Seq(Nat),
         c # <<>>, Ordered(s, c, r, b)
  PROVE  /\ Ordered(s \o Head(c).data, Tail(c), r, b)
         /\ Way(s \o Head(c).data, Tail(c), r, b) = Way(s, c, r, b)
<1> DEFINE d == Head(c).data
<1>1. d \in Seq(Nat)
  <2>1. Head(c) \in Response
    BY TailFacts
  <2> QED
    BY <2>1 DEF Response
<1>2. /\ Carried(c) = El(d) \union Carried(Tail(c))
      /\ CarriedInOrder(Tail(c)) /\ Increasing(d) /\ Below(El(d), Carried(Tail(c)))
  BY CarriedTail DEF Ordered
<1> HIDE DEF d
<1>3. Below(El(s), El(d))
  BY <1>2 DEF Ordered, Below
<1>4. El(s \o d) = El(s) \union El(d) /\ Increasing(s \o d)
  BY <1>1, <1>2, <1>3, ConcatFacts DEF Ordered
<1>5. Ordered(s \o d, Tail(c), r, b)
  BY <1>2, <1>4 DEF Ordered, Below
<1>6. Way(s \o d, Tail(c), r, b) = Way(s, c, r, b)
  BY <1>2, <1>4 DEF Way
<1> QED
  BY <1>5, <1>6 DEF d

\* The replayed tail is sent, ...
LEMMA WaySendTail ==
  ASSUME NEW s \in Seq(Nat), NEW c \in Seq(Response), NEW r \in Seq(Nat), NEW b \in Seq(Nat),
         Ordered(s, c, r, b)
  PROVE  /\ Ordered(s, Append(c, Data(r)), <<>>, b)
         /\ Way(s, Append(c, Data(r)), <<>>, b) = Way(s, c, r, b)
<1>1. Data(r) \in Response /\ Data(r).data = r
  BY DEF Data, Response
<1>2. /\ Carried(Append(c, Data(r))) = Carried(c) \union El(r)
      /\ CarriedInOrder(Append(c, Data(r)))
  <2>1. CarriedInOrder(c) /\ Increasing(Data(r).data) /\ Below(Carried(c), El(Data(r).data))
    BY <1>1 DEF Ordered, Below
  <2> QED
    BY <1>1, <2>1, CarriedAppend
<1> DEFINE n == Append(c, Data(r))
<1> HIDE DEF n
<1>3. Carried(n) = Carried(c) \union El(r) /\ CarriedInOrder(n)
  BY <1>2 DEF n
<1>4. Ordered(s, n, <<>>, b)
  BY <1>3, NothingCarried DEF Ordered, Below
<1>5. Way(s, n, <<>>, b) = Way(s, c, r, b)
  BY <1>3, NothingCarried DEF Way
<1> QED
  BY <1>4, <1>5 DEF n

\* ... then a live chunk, ...
LEMMA WaySendChunk ==
  ASSUME NEW s \in Seq(Nat), NEW c \in Seq(Response), NEW b \in Seq(Nat),
         b # <<>>, Ordered(s, c, <<>>, b)
  PROVE  /\ Ordered(s, Append(c, Data(<<Head(b)>>)), <<>>, Tail(b))
         /\ Way(s, Append(c, Data(<<Head(b)>>)), <<>>, Tail(b)) = Way(s, c, <<>>, b)
<1> DEFINE d == <<Head(b)>>
           n == Append(c, Data(d))
<1>1. Head(b) \in Nat /\ d \in Seq(Nat) /\ El(d) = {Head(b)} /\ Increasing(d)
  <2>1. Head(b) \in Nat
    BY TailFacts
  <2> QED
    BY <2>1 DEF El, Increasing
<1>2. El(b) = {Head(b)} \union El(Tail(b)) /\ Increasing(Tail(b)) /\ Below({Head(b)}, El(Tail(b)))
  BY HeadFacts DEF Ordered
<1>3. Data(d) \in Response /\ Data(d).data = d
  BY <1>1 DEF Data, Response
<1>4. Below(Carried(c), El(d))
  BY <1>1, <1>2 DEF Ordered, Below
<1>5. Carried(n) = Carried(c) \union {Head(b)} /\ CarriedInOrder(n)
  <2>1. CarriedInOrder(c) /\ Increasing(Data(d).data) /\ Below(Carried(c), El(Data(d).data))
    BY <1>1, <1>3, <1>4 DEF Ordered
  <2> QED
    BY <1>1, <1>3, <2>1, CarriedAppend
<1> HIDE DEF n, d
<1>6. Ordered(s, n, <<>>, Tail(b))
  BY <1>2, <1>5, NothingCarried DEF Ordered, Below
<1>7. Way(s, n, <<>>, Tail(b)) = Way(s, c, <<>>, b)
  BY <1>2, <1>5, NothingCarried DEF Way
<1> QED
  BY <1>6, <1>7 DEF n, d

\* ... or the final response.
LEMMA WaySendFinal ==
  ASSUME NEW s \in Seq(Nat), NEW c \in Seq(Response), NEW r \in Seq(Nat), NEW b \in Seq(Nat),
         NEW e \in Response, e.data = <<>>, Ordered(s, c, r, b)
  PROVE  /\ Ordered(s, Append(c, e), r, b)
         /\ Way(s, Append(c, e), r, b) = Way(s, c, r, b)
<1> DEFINE n == Append(c, e)
<1>1. Carried(n) = Carried(c) /\ CarriedInOrder(n)
  <2>1. CarriedInOrder(c) /\ Increasing(e.data) /\ Below(Carried(c), El(e.data))
    BY NothingCarried DEF Ordered, Below
  <2> QED
    BY <2>1, CarriedAppend, NothingCarried
<1> HIDE DEF n
<1>2. Ordered(s, n, r, b) /\ Way(s, n, r, b) = Way(s, c, r, b)
  BY <1>1 DEF Ordered, Way
<1> QED
  BY <1>2 DEF n

\* The next chunk is broadcast.
LEMMA WayBroadcast ==
  ASSUME NEW s \in Seq(Nat), NEW c \in Seq(Response), NEW r \in Seq(Nat), NEW b \in Seq(Nat),
         NEW n \in Nat, \A x \in Way(s, c, r, b) : x < n, Ordered(s, c, r, b)
  PROVE  /\ Ordered(s, c, r, Append(b, n))
         /\ Way(s, c, r, Append(b, n)) = Way(s, c, r, b) \union {n}
<1>1. Below(El(b), {n})
  BY DEF Below, Way
<1>2. El(Append(b, n)) = El(b) \union {n} /\ Increasing(Append(b, n))
  BY <1>1, AppendFacts DEF Ordered
<1> DEFINE a == Append(b, n)
<1> HIDE DEF a
<1>3. El(a) = El(b) \union {n} /\ Increasing(a)
  BY <1>2 DEF a
<1>4. Ordered(s, c, r, a)
  BY <1>3 DEF Ordered, Below, Way
<1>5. Way(s, c, r, a) = Way(s, c, r, b) \union {n}
  BY <1>3 DEF Way
<1> QED
  BY <1>4, <1>5 DEF a

\* What is discarded: the connection's content, or the subscriber's.
LEMMA WayDiscard ==
  ASSUME NEW s, NEW c, NEW r, NEW b, Ordered(s, c, r, b)
  PROVE  /\ Ordered(s, <<>>, r, b) /\ Way(s, <<>>, r, b) \subseteq Way(s, c, r, b)
         /\ Ordered(s, c, <<>>, <<>>) /\ Way(s, c, <<>>, <<>>) \subseteq Way(s, c, r, b)
BY NothingCarried DEF Ordered, Way, Below

\* An attach begins with the tail.
LEMMA WayBegin ==
  ASSUME NEW r, Increasing(r)
  PROVE  Ordered(<<>>, <<>>, r, <<>>) /\ Way(<<>>, <<>>, r, <<>>) = El(r)
BY NothingCarried DEF Ordered, Way, Below

-----------------------------------------------------------------------------
\* The inductive invariant.

ChildTypeOK ==
  /\ row \in {"PENDING", "RUNNING", "OVER"} /\ child \in {"none", "alive", "dead"}
  /\ read \in Nat /\ written \in 0 .. MaxChunks /\ read <= written /\ written - read <= TermCap
  /\ input \in 0 .. InputCap /\ typed \in 0 .. MaxTyped

CaptureTypeOK ==
  /\ pty \in BOOLEAN /\ closed \in BOOLEAN /\ subs \subseteq Viewers
  /\ capture \in {"none", "copy", "log", "close", "flush", "reap"}
  /\ tail \in Seq(Nat) /\ Len(tail) <= MaxTail
  /\ log \in Seq(Nat) /\ held \in Seq(Nat) /\ faults \in 0 .. MaxFaults

ViewerTypeOK ==
  /\ chan \in [Viewers -> Seq(Nat)] /\ replay \in [Viewers -> Seq(Nat)]
  /\ conn \in [Viewers -> Seq(Response)] /\ shown \in [Viewers -> Seq(Nat)]
  /\ handler \in [Viewers -> {"none", "look", "subscribe", "tail", "stream", "returned"}]
  /\ view \in [Viewers -> {"poll", "ready", "gone", "attached", "done", "error", "left"}]
  /\ pump \in [Viewers -> {"off", "reading", "calling"}] /\ open \in [Viewers -> BOOLEAN]
  /\ from \in [Viewers -> Int] /\ dropped \in [Viewers -> SUBSET Chunks]
  /\ \A v \in Viewers : /\ Len(chan[v]) <= SubCap /\ Len(conn[v]) <= ConnCap
                        /\ open[v] <=> view[v] = "attached"

IInv == /\ ChildTypeOK /\ CaptureTypeOK /\ ViewerTypeOK
        /\ CaptureInv /\ TailInv
        /\ \A v \in Viewers : ViewerInv(v)

\* A step that does not concern the viewers.
LEMMA QuietViewers ==
  ASSUME IInv, UNCHANGED <<read, closed, subs, chan, handler, replay, conn, open, view, pump, shown,
                           from, dropped>>
  PROVE  ViewerTypeOK' /\ \A v \in Viewers : ViewerInv(v)'
<1>1. ViewerTypeOK'
  BY DEF IInv, ViewerTypeOK
<1>2. ASSUME NEW v \in Viewers PROVE ViewerInv(v)'
  <2>1. ViewerInv(v)
    BY DEF IInv
  <2>2. OnItsWay(v)' = OnItsWay(v)
    BY DEF OnItsWay
  <2>3. PlaceInv(v)' /\ OrderInv(v)' /\ CoverInv(v)'
    BY <2>1, <2>2 DEF ViewerInv, PlaceInv, OrderInv, CoverInv, Covered
  <2> QED
    BY <2>3 DEF ViewerInv
<1> QED
  BY <1>1, <1>2

\* The child and the supervisor.
LEMMA ChildInvStep ==
  ASSUME IInv, \/ Spawn \/ CommitStart \/ WriteOutput \/ ReadInput \/ Exits \/ Killed \/ HandleExit
               \/ Reap \/ PostExit
  PROVE  IInv'
<1>1. UNCHANGED <<read, tail, closed, subs, chan, handler, replay, conn, open, view, pump, shown,
                  typed, from, dropped, log, held, faults>>
  BY DEF Spawn, CommitStart, WriteOutput, ReadInput, Exits, Killed, HandleExit, Reap, PostExit,
         childVars, bcast, files, server, client
<1>2. ViewerTypeOK' /\ \A v \in Viewers : ViewerInv(v)'
  BY <1>1, QuietViewers
<1>3. ChildTypeOK'
  BY <1>1, InteractiveAssumption
     DEF IInv, ChildTypeOK, Spawn, CommitStart, WriteOutput, ReadInput, Exits, Killed, HandleExit,
         Reap, PostExit, childVars
<1>4. CaptureTypeOK'
  BY <1>1 DEF IInv, CaptureTypeOK, Spawn, CommitStart, WriteOutput, ReadInput, Exits, Killed,
         HandleExit, Reap, PostExit, childVars
<1>5. TailInv'
  BY <1>1 DEF IInv, CaptureInv, TailInv, Spawn, CommitStart, WriteOutput, ReadInput, Exits, Killed,
         HandleExit, Reap, PostExit
<1>6. CaptureInv'
  <2>1. UNCHANGED <<log, held, faults, read>> /\ CaptureInv
    BY <1>1 DEF IInv
  <2>2. CASE Spawn
    BY <2>1, <2>2 DEF Spawn, CaptureInv, files
  <2>3. CASE CommitStart \/ HandleExit \/ ReadInput
    BY <2>1, <2>3 DEF CommitStart, HandleExit, ReadInput, CaptureInv, files, childVars
  <2>4. CASE WriteOutput
    BY <2>1, <2>4 DEF WriteOutput, CaptureInv, files
  <2>5. CASE Exits \/ Killed
    BY <2>1, <2>5 DEF Exits, Killed, CaptureInv, files
  <2>6. CASE Reap
    BY <2>1, <2>6 DEF Reap, CaptureInv, files, childVars
  <2>7. CASE PostExit
    BY <2>1, <2>7 DEF PostExit, CaptureInv, childVars
  <2> QED
    BY <2>2, <2>3, <2>4, <2>5, <2>6, <2>7
<1> QED
  BY <1>2, <1>3, <1>4, <1>5, <1>6 DEF IInv

-----------------------------------------------------------------------------
\* The capture.

\* The next chunk is put after what the log and the line buffer hold.
LEMMA CountNext ==
  ASSUME NEW s \in Seq(Nat), NEW h \in Seq(Nat), NEW n \in Nat, s \o h = Count(n)
  PROVE  s \o Append(h, n + 1) = Count(n + 1)
<1>1. s \o Append(h, n + 1) = Append(s \o h, n + 1)
  OBVIOUS
<1>2. Count(n) \in Seq(Nat) /\ Len(Count(n)) = n
  BY DEF Count
<1>3. Append(Count(n), n + 1) = Count(n + 1)
  BY DEF Count
<1> QED
  BY <1>1, <1>3

\* The log: a chunk is written or held, a write fails, the rest is flushed.
LEMMA PersistInv == ASSUME IInv, Persist \/ PersistFails \/ Drained \/ CloseLog PROVE IInv'
<1>1. UNCHANGED <<row, child, written, input, typed, read, pty, tail, closed, subs, chan, handler,
                  replay, conn, open, view, pump, shown, from, dropped, exit>>
  BY DEF Persist, PersistFails, Drained, CloseLog, childVars, bcast, files, server, client
<1>2. ViewerTypeOK' /\ \A v \in Viewers : ViewerInv(v)'
  BY <1>1, QuietViewers
<1>3. ChildTypeOK'
  BY <1>1 DEF IInv, ChildTypeOK
<1>4. CaptureTypeOK'
  <2>1. /\ read \in Nat /\ log \in Seq(Nat) /\ held \in Seq(Nat) /\ <<>> \in Seq(Nat)
        /\ faults \in 0 .. MaxFaults /\ MaxFaults \in Nat
    BY InteractiveAssumption DEF IInv, ChildTypeOK, CaptureTypeOK
  <2>2. Append(held, read) \in Seq(Nat)
    BY <2>1
  <2>3. log \o Append(held, read) \in Seq(Nat) /\ log \o held \in Seq(Nat)
    BY <2>1, <2>2
  <2>4. log' \in Seq(Nat) /\ held' \in Seq(Nat)
    BY <2>1, <2>2, <2>3 DEF Persist, PersistFails, Drained, CloseLog, files
  <2>5. faults' \in 0 .. MaxFaults /\ capture' \in {"copy", "close", "reap"}
    BY <2>1 DEF Persist, PersistFails, Drained, CloseLog, files
  <2> QED
    BY <1>1, <2>4, <2>5 DEF IInv, CaptureTypeOK
<1>5. TailInv'
  BY <1>1 DEF IInv, TailInv, Persist, PersistFails, Drained, CloseLog
<1>6. CaptureInv'
  <2>0. CaptureInv /\ CaptureTypeOK /\ read \in Nat
    BY DEF IInv, ChildTypeOK
  <2>1. CASE Persist
    <3>1. capture = "log" /\ capture' = "copy" /\ faults' = faults /\ exit = <<>>
      BY <2>0, <2>1 DEF Persist, CaptureInv
    <3>2. faults = 0 => log \o held = Count(read - 1) /\ read - 1 \in Nat
      BY <2>0, <3>1 DEF CaptureInv
    <3>3. faults = 0 => log \o Append(held, read) = Count(read)
      <4> SUFFICES ASSUME faults = 0 PROVE log \o Append(held, read) = Count(read)
        OBVIOUS
      <4>1. (read - 1) + 1 = read
        BY <2>0
      <4>2. log \o Append(held, (read - 1) + 1) = Count((read - 1) + 1)
        BY <2>0, <3>2, CountNext DEF CaptureTypeOK
      <4> QED
        BY <4>1, <4>2
    <3>4. log' \o held' = log \o Append(held, read)
      <4>1. CASE read \in Partial
        BY <2>1, <4>1 DEF Persist
      <4>2. CASE read \notin Partial
        <5>1. log' = log \o Append(held, read) /\ held' = <<>>
          BY <2>1, <4>2 DEF Persist
        <5>2. log' \in Seq(Nat)
          BY <1>4 DEF CaptureTypeOK
        <5> QED
          BY <5>1, <5>2
      <4> QED
        BY <4>1, <4>2
    <3> QED
      BY <1>1, <2>0, <3>1, <3>3, <3>4 DEF CaptureInv
  <2>2. CASE PersistFails
    BY <1>1, <2>0, <2>2 DEF PersistFails, CaptureInv, CaptureTypeOK
  <2>3. CASE Drained
    BY <1>1, <2>0, <2>3 DEF Drained, CaptureInv, files
  <2>4. CASE CloseLog
    <3>1. log' \o held' = log \o held
      BY <2>0, <2>4 DEF CloseLog, CaptureTypeOK
    <3> QED
      BY <1>1, <2>0, <2>4, <3>1 DEF CloseLog, CaptureInv
  <2> QED
    BY <2>1, <2>2, <2>3, <2>4
<1> QED
  BY <1>2, <1>3, <1>4, <1>5, <1>6 DEF IInv

\* The tail after a chunk has been read.
LEMMA NextTail ==
  ASSUME NEW t \in Seq(Nat), NEW n \in Nat, Len(t) <= n, Len(t) <= MaxTail,
         \A i \in DOMAIN t : t[i] = n - Len(t) + i
  PROVE  LET u == BoundedTail(Append(t, n + 1))
         IN  /\ u \in Seq(Nat) /\ Len(u) <= MaxTail /\ Len(u) <= n + 1
             /\ \A i \in DOMAIN u : u[i] = n + 1 - Len(u) + i
<1> DEFINE a == Append(t, n + 1)
<1>1. /\ a \in Seq(Nat) /\ Len(a) = Len(t) + 1 /\ Len(t) \in Nat
      /\ \A i \in 1 .. Len(a) : a[i] = n - Len(t) + i
  <2>1. /\ a \in Seq(Nat) /\ Len(a) = Len(t) + 1 /\ Len(t) \in Nat /\ DOMAIN t = 1 .. Len(t)
        /\ a[Len(t) + 1] = n + 1 /\ \A i \in 1 .. Len(t) : a[i] = t[i]
    OBVIOUS
  <2>2. \A i \in 1 .. (Len(t) + 1) : i \in 1 .. Len(t) \/ i = Len(t) + 1
    BY <2>1
  <2> QED
    BY <2>1, <2>2
<1>2. MaxTail \in Nat \ {0}
  BY InteractiveAssumption
<1> HIDE DEF a
<1>3. CASE Len(a) > MaxTail
  <2> DEFINE u == SubSeq(a, Len(a) - MaxTail + 1, Len(a))
  <2>1. Len(a) = MaxTail + 1
    BY <1>1, <1>2, <1>3
  <2>2. u = SubSeq(a, 2, Len(a))
    BY <1>2, <2>1
  <2>3. /\ u \in Seq(Nat) /\ Len(u) = Len(a) - 1 /\ DOMAIN u = 1 .. (Len(a) - 1)
        /\ \A i \in 1 .. (Len(a) - 1) : u[i] = a[i + 1]
    <3>1. \A i \in 2 .. Len(a) : a[i] \in Nat
      BY <1>1
    <3>2. Len(a) \in Int /\ 2 \in Int /\ 2 <= Len(a)
      BY <1>1, <1>2, <2>1
    <3>3. /\ u \in Seq(Nat) /\ Len(u) = Len(a) - 2 + 1
          /\ \A i \in 1 .. (Len(a) - 2 + 1) : u[i] = a[2 + i - 1]
      <4> HIDE DEF u
      <4> QED
        BY <2>2, <3>1, <3>2, SubSeqProperties
    <3> HIDE DEF u
    <3>4. Len(a) - 2 + 1 = Len(a) - 1 /\ \A i \in 1 .. (Len(a) - 1) : 2 + i - 1 = i + 1
      BY <1>1
    <3>5. DOMAIN u = 1 .. Len(u)
      BY <3>3
    <3> QED
      BY <3>3, <3>4, <3>5
  <2> HIDE DEF u
  <2>4. Len(u) <= MaxTail /\ Len(u) <= n + 1 /\ \A i \in DOMAIN u : u[i] = n + 1 - Len(u) + i
    BY <1>1, <1>2, <2>1, <2>3
  <2> QED
    BY <1>3, <2>3, <2>4 DEF BoundedTail, a, u
<1>4. CASE ~(Len(a) > MaxTail)
  <2>1. DOMAIN a = 1 .. Len(a)
    BY <1>1
  <2>2. Len(a) <= MaxTail /\ Len(a) <= n + 1 /\ \A i \in DOMAIN a : a[i] = n + 1 - Len(a) + i
    BY <1>1, <1>2, <1>4, <2>1
  <2> QED
    BY <1>1, <1>4, <2>2 DEF BoundedTail, a
<1> QED
  BY <1>3, <1>4

\* A chunk goes to the tail and to every subscriber that has room for it.
LEMMA BroadcastInv == ASSUME IInv, Broadcast PROVE IInv'
<1>1. /\ capture = "copy" /\ read < written /\ read' = read + 1 /\ capture' = "log"
      /\ tail' = BoundedTail(Append(tail, read + 1))
      /\ chan' = [v \in Viewers |-> IF v \in subs /\ ~Full(v) THEN Append(chan[v], read + 1)
                                    ELSE chan[v]]
      /\ dropped' = [v \in Viewers |-> IF v \in subs /\ Full(v) THEN dropped[v] \union {read + 1}
                                       ELSE dropped[v]]
  BY DEF Broadcast
<1>2. UNCHANGED <<row, child, written, input, typed, pty, closed, subs, handler, replay, conn,
                  open, view, pump, shown, from, log, held, exit, faults>>
  BY DEF Broadcast, childVars, files, server, client
<1>3. /\ read \in Nat /\ written \in 0 .. MaxChunks /\ MaxChunks \in Nat /\ ~closed
      /\ tail \in Seq(Nat) /\ Len(tail) <= read /\ Len(tail) <= MaxTail
  BY <1>1, InteractiveAssumption DEF IInv, ChildTypeOK, CaptureTypeOK, TailInv
<1>4. ChildTypeOK'
  BY <1>1, <1>2, <1>3, InteractiveAssumption DEF IInv, ChildTypeOK
<1>5. /\ tail' \in Seq(Nat) /\ Len(tail') <= MaxTail /\ Len(tail') <= read + 1
      /\ \A i \in DOMAIN tail' : tail'[i] = read + 1 - Len(tail') + i
  BY <1>1, <1>3, NextTail DEF IInv, TailInv
<1>6. CaptureTypeOK' /\ TailInv'
  BY <1>1, <1>2, <1>3, <1>5 DEF IInv, CaptureTypeOK, TailInv
<1>7. CaptureInv'
  BY <1>1, <1>2, <1>3 DEF IInv, CaptureInv
<1>8. ViewerTypeOK'
  <2>1. read + 1 \in Chunks /\ read + 1 \in Nat
    BY <1>1, <1>3 DEF Chunks
  <2>2. ASSUME NEW v \in Viewers
        PROVE  chan'[v] \in Seq(Nat) /\ Len(chan'[v]) <= SubCap /\ dropped'[v] \in SUBSET Chunks
    <3>1. chan[v] \in Seq(Nat) /\ Len(chan[v]) <= SubCap /\ dropped[v] \in SUBSET Chunks
      BY DEF IInv, ViewerTypeOK
    <3>2. CASE v \in subs /\ ~Full(v)
      <4>1. chan'[v] = Append(chan[v], read + 1) /\ dropped'[v] = dropped[v]
        BY <1>1, <3>2
      <4> QED
        BY <2>1, <3>1, <3>2, <4>1, InteractiveAssumption DEF Full
    <3>3. CASE v \in subs /\ Full(v)
      BY <1>1, <2>1, <3>1, <3>3
    <3>4. CASE v \notin subs
      BY <1>1, <3>1, <3>4
    <3> QED
      BY <3>2, <3>3, <3>4
  <2>3. chan' \in [Viewers -> Seq(Nat)] /\ dropped' \in [Viewers -> SUBSET Chunks]
    <3>1. DOMAIN chan' = Viewers /\ DOMAIN dropped' = Viewers
      BY <1>1
    <3>2. chan' = [v \in Viewers |-> chan'[v]] /\ dropped' = [v \in Viewers |-> dropped'[v]]
      BY <1>1
    <3> QED
      BY <2>2, <3>2
  <2> QED
    BY <1>2, <2>2, <2>3 DEF IInv, ViewerTypeOK
<1>9. ASSUME NEW v \in Viewers PROVE ViewerInv(v)'
  <2>1. /\ PlaceInv(v) /\ OrderInv(v) /\ CoverInv(v)
        /\ shown[v] \in Seq(Nat) /\ conn[v] \in Seq(Response)
        /\ replay[v] \in Seq(Nat) /\ chan[v] \in Seq(Nat) /\ from[v] \in Int
    BY DEF IInv, ViewerInv, ViewerTypeOK
  <2>2. /\ \A x \in OnItsWay(v) : x < read + 1
        /\ Ordered(shown[v], conn[v], replay[v], chan[v])
    <3>1. \A x \in OnItsWay(v) : x <= read
      BY <2>1 DEF OrderInv
    <3>2. \A x \in OnItsWay(v) : x \in Nat
      BY <2>1, WayType DEF OnItsWay
    <3> QED
      BY <1>3, <2>1, <3>1, <3>2 DEF OrderInv
  <2>3. \A c : c \in from[v] .. (read + 1) => c \in from[v] .. read \/ c = read + 1
    BY <1>3, <2>1
  <2>4. CASE v \in subs /\ ~Full(v)
    <3>1. chan'[v] = Append(chan[v], read + 1) /\ dropped'[v] = dropped[v]
      BY <1>1, <2>4
    <3>2. /\ Ordered(shown[v], conn[v], replay[v], Append(chan[v], read + 1))
          /\ Way(shown[v], conn[v], replay[v], Append(chan[v], read + 1))
               = OnItsWay(v) \union {read + 1}
      <4>1. read + 1 \in Nat
        BY <1>3
      <4> QED
        BY <2>1, <2>2, <4>1, WayBroadcast DEF OnItsWay
    <3>3. OnItsWay(v)' = OnItsWay(v) \union {read + 1}
      BY <1>2, <3>1, <3>2 DEF OnItsWay
    <3>4. OrderInv(v)'
      <4>1. \A x \in OnItsWay(v) \union {read + 1} : x <= read + 1
        <5>1. \A x \in OnItsWay(v) : x \in Nat
          BY <2>1, WayType DEF OnItsWay
        <5> QED
          BY <1>3, <2>2, <5>1
      <4> QED
        BY <1>1, <1>2, <3>1, <3>2, <3>3, <4>1 DEF OrderInv
    <3>5. Covered(v) => Covered(v)'
      BY <1>1, <1>2, <2>3, <3>1, <3>3 DEF Covered
    <3>6. PlaceInv(v)'
      BY <1>2, <2>1, <2>4 DEF PlaceInv
    <3>7. CoverInv(v)'
      BY <1>2, <1>3, <2>1, <3>5 DEF CoverInv
    <3> QED
      BY <3>4, <3>6, <3>7 DEF ViewerInv
  <2>5. CASE ~(v \in subs /\ ~Full(v))
    <3>1. chan'[v] = chan[v]
      BY <1>1, <2>5
    <3>2. OnItsWay(v)' = OnItsWay(v)
      BY <1>2, <3>1 DEF OnItsWay
    <3>3. OrderInv(v)'
      <4>1. \A x \in OnItsWay(v) : x \in Nat
        BY <2>1, WayType DEF OnItsWay
      <4> QED
        BY <1>1, <1>2, <1>3, <2>1, <3>1, <3>2, <4>1 DEF OrderInv
    <3>4. PlaceInv(v)'
      BY <1>2, <2>1, <3>1 DEF PlaceInv
    <3>5. handler[v] \in {"tail", "stream"} /\ Covered(v) => Covered(v)'
      <4> SUFFICES ASSUME handler[v] \in {"tail", "stream"}, Covered(v) PROVE Covered(v)'
        OBVIOUS
      <4>1. v \in subs /\ Full(v)
        BY <1>3, <2>1, <2>5 DEF PlaceInv
      <4>2. dropped'[v] = dropped[v] \union {read + 1}
        BY <1>1, <4>1
      <4> QED
        BY <1>1, <1>2, <2>3, <3>2, <4>2 DEF Covered
    <3>6. CoverInv(v)'
      BY <1>2, <1>3, <2>1, <3>5 DEF CoverInv
    <3> QED
      BY <3>3, <3>4, <3>6 DEF ViewerInv
  <2> QED
    BY <2>4, <2>5
<1> QED
  BY <1>4, <1>6, <1>7, <1>8, <1>9 DEF IInv

\* No stream gets any more; what is in the buffers stays on its way.
LEMMA CloseBroadcastInv == ASSUME IInv, CloseBroadcast PROVE IInv'
<1>1. /\ capture = "close" /\ capture' = "flush" /\ closed' = TRUE /\ subs' = {}
      /\ UNCHANGED <<row, child, written, input, typed, read, pty, tail, chan, handler, replay, conn,
                     open, view, pump, shown, from, dropped, log, held, exit, faults>>
  BY DEF CloseBroadcast, childVars, files, server, client
<1>2. ChildTypeOK' /\ CaptureTypeOK' /\ ViewerTypeOK'
  BY <1>1 DEF IInv, ChildTypeOK, CaptureTypeOK, ViewerTypeOK
<1>3. CaptureInv' /\ TailInv'
  BY <1>1 DEF IInv, CaptureInv, TailInv
<1>4. ASSUME NEW v \in Viewers PROVE ViewerInv(v)'
  <2>1. ViewerInv(v)
    BY DEF IInv
  <2>2. OnItsWay(v)' = OnItsWay(v)
    BY <1>1 DEF OnItsWay
  <2>3. PlaceInv(v)' /\ OrderInv(v)' /\ CoverInv(v)'
    BY <1>1, <2>1, <2>2 DEF ViewerInv, PlaceInv, OrderInv, CoverInv, Covered
  <2> QED
    BY <2>3 DEF ViewerInv
<1> QED
  BY <1>2, <1>3, <1>4 DEF IInv

-----------------------------------------------------------------------------
\* A step of one viewer.

\* The invariant holds for the others if it does for this one.
LEMMA ViewerStep ==
  ASSUME IInv, NEW v \in Viewers, ViewerTypeOK', ViewerInv(v)',
         UNCHANGED <<row, child, written, read, pty, capture, tail, closed, log, held, exit, faults,
                     dropped>>,
         input' \in 0 .. InputCap, typed' \in 0 .. MaxTyped,
         subs' \subseteq Viewers, closed => subs' = {},
         \A w \in Viewers : w # v =>
           /\ w \in subs' <=> w \in subs
           /\ chan'[w] = chan[w] /\ handler'[w] = handler[w] /\ replay'[w] = replay[w]
           /\ conn'[w] = conn[w] /\ open'[w] = open[w] /\ view'[w] = view[w]
           /\ shown'[w] = shown[w] /\ from'[w] = from[w]
  PROVE  IInv'
<1>1. ChildTypeOK' /\ CaptureTypeOK' /\ CaptureInv' /\ TailInv'
  BY DEF IInv, ChildTypeOK, CaptureTypeOK, CaptureInv, TailInv
<1>2. ASSUME NEW w \in Viewers, w # v PROVE ViewerInv(w)'
  <2>1. ViewerInv(w)
    BY DEF IInv
  <2>2. OnItsWay(w)' = OnItsWay(w)
    BY <1>2 DEF OnItsWay
  <2>3. PlaceInv(w)'
    BY <1>2, <2>1 DEF ViewerInv, PlaceInv
  <2>4. OrderInv(w)'
    BY <1>2, <2>1, <2>2 DEF ViewerInv, OrderInv
  <2>5. Covered(w)' = Covered(w)
    BY <1>2, <2>2 DEF Covered
  <2>6. CoverInv(w)'
    BY <1>2, <2>1, <2>5 DEF ViewerInv, CoverInv
  <2> QED
    BY <2>3, <2>4, <2>6 DEF ViewerInv
<1>3. \A w \in Viewers : ViewerInv(w)'
  BY <1>2
<1> QED
  BY <1>1, <1>3 DEF IInv

\* The types of what concerns a viewer, spelled out.
LEMMA ViewerTypes ==
  ASSUME IInv, NEW v \in Viewers
  PROVE  /\ shown[v] \in Seq(Nat) /\ conn[v] \in Seq(Response)
         /\ replay[v] \in Seq(Nat) /\ chan[v] \in Seq(Nat)
         /\ OnItsWay(v) \subseteq Nat /\ read \in Nat
         /\ Ordered(shown[v], conn[v], replay[v], chan[v]) /\ \A c \in OnItsWay(v) : c <= read
         /\ PlaceInv(v) /\ CoverInv(v)
<1>1. /\ shown[v] \in Seq(Nat) /\ conn[v] \in Seq(Response)
      /\ replay[v] \in Seq(Nat) /\ chan[v] \in Seq(Nat) /\ read \in Nat
  BY DEF IInv, ViewerTypeOK, ChildTypeOK
<1>2. OnItsWay(v) \subseteq Nat
  BY <1>1, WayType DEF OnItsWay
<1> QED
  BY <1>1, <1>2 DEF IInv, ViewerInv, OrderInv

\* The client, or its input pump, does something that moves no output.
LEMMA PollTypeInv ==
  ASSUME IInv, NEW v \in Viewers, Poll(v) \/ Type(v) \/ InputWritten(v)
  PROVE  IInv'
<1>1. UNCHANGED <<row, child, written, read, pty, capture, tail, closed, log, held, exit, faults,
                  dropped, subs, chan, handler, replay, conn, open, shown, from>>
  BY DEF Poll, Type, InputWritten, childVars, bcast, files, server
<1>2. view' \in [Viewers -> {"poll", "ready", "gone", "attached", "done", "error", "left"}]
      /\ pump' \in [Viewers -> {"off", "reading", "calling"}]
      /\ (view' = view \/ (view[v] = "poll" /\ view'[v] \in {"ready", "gone"}))
      /\ \A w \in Viewers : w # v => view'[w] = view[w]
  BY DEF IInv, ViewerTypeOK, Poll, Type, InputWritten, Show
<1>3. ViewerTypeOK'
  <2>1. \A w \in Viewers : open'[w] <=> view'[w] = "attached"
    BY <1>1, <1>2 DEF IInv, ViewerTypeOK
  <2> QED
    BY <1>1, <1>2, <2>1 DEF IInv, ViewerTypeOK
<1>4. input' \in 0 .. InputCap /\ typed' \in 0 .. MaxTyped
  BY InteractiveAssumption DEF IInv, ChildTypeOK, Poll, Type, InputWritten, childVars
<1>5. ViewerInv(v)'
  <2>1. ViewerInv(v)
    BY DEF IInv
  <2>2. OnItsWay(v)' = OnItsWay(v)
    BY <1>1 DEF OnItsWay
  <2>3. PlaceInv(v)'
    BY <1>1, <1>2, <2>1 DEF ViewerInv, PlaceInv
  <2>4. OrderInv(v)'
    BY <1>1, <2>1, <2>2 DEF ViewerInv, OrderInv
  <2>5. Covered(v)' = Covered(v)
    BY <1>1, <2>2 DEF Covered
  <2>6. CoverInv(v)'
    BY <1>1, <1>2, <2>1, <2>5 DEF ViewerInv, CoverInv
  <2> QED
    BY <2>3, <2>4, <2>6 DEF ViewerInv
<1>6. subs' \subseteq Viewers /\ (closed => subs' = {})
  BY <1>1 DEF IInv, CaptureTypeOK, TailInv
<1> QED
  BY <1>1, <1>2, <1>3, <1>4, <1>5, <1>6, ViewerStep

\* The stream is requested on a new connection.
LEMMA AttachInv == ASSUME IInv, NEW v \in Viewers, Attach(v) PROVE IInv'
<1>1. /\ view[v] = "ready" /\ view' = [view EXCEPT ![v] = "attached"]
      /\ open' = [open EXCEPT ![v] = TRUE] /\ pump' = [pump EXCEPT ![v] = "reading"]
      /\ handler' = [handler EXCEPT ![v] = "look"]
  BY DEF Attach, Show, At
<1>2. UNCHANGED <<row, child, written, input, typed, read, pty, capture, tail, closed, subs, chan,
                  log, held, exit, faults, conn, replay, shown, from, dropped>>
  BY DEF Attach, childVars, bcast, files
<1>3. ViewerTypeOK'
  BY <1>1, <1>2 DEF IInv, ViewerTypeOK
<1>4. view'[v] = "attached" /\ open'[v] = TRUE /\ handler'[v] = "look"
  BY <1>1 DEF IInv, ViewerTypeOK
<1>5. ViewerInv(v)'
  <2>1. ViewerInv(v)
    BY DEF IInv
  <2>2. OnItsWay(v)' = OnItsWay(v)
    BY <1>2 DEF OnItsWay
  <2>3. PlaceInv(v)'
    BY <1>1, <1>2, <1>4, <2>1 DEF ViewerInv, PlaceInv
  <2>4. OrderInv(v)'
    BY <1>2, <2>1, <2>2 DEF ViewerInv, OrderInv
  <2>5. conn'[v] = <<>>
    BY <1>1, <1>2, <2>1 DEF ViewerInv, PlaceInv
  <2>6. CoverInv(v)'
    BY <1>4, <2>5 DEF CoverInv
  <2> QED
    BY <2>3, <2>4, <2>6 DEF ViewerInv
<1>6. subs' \subseteq Viewers /\ (closed => subs' = {})
      /\ input' \in 0 .. InputCap /\ typed' \in 0 .. MaxTyped
  BY <1>2 DEF IInv, CaptureTypeOK, TailInv, ChildTypeOK
<1>7. \A w \in Viewers : w # v =>
        view'[w] = view[w] /\ open'[w] = open[w] /\ handler'[w] = handler[w]
  BY <1>1 DEF IInv, ViewerTypeOK
<1> QED
  BY <1>2, <1>3, <1>5, <1>6, <1>7, ViewerStep

-----------------------------------------------------------------------------
\* The handler of task.attach.

\* The server answers and the handler is over: with an error when there is
\* nothing to attach to, with "done" when the stream has ended.
LEMMA FinalStep ==
  ASSUME IInv, NEW v \in Viewers, NEW kind \in {"done", "error"},
         handler[v] \in {"look", "stream"}, chan[v] = <<>>, v \notin subs,
         Respond(v, Final(kind), "returned"),
         kind = "done" => closed /\ (open[v] => Covered(v)),
         UNCHANGED <<row, child, written, input, typed, read, pty, capture, tail, closed, subs, chan,
                     log, held, exit, faults, replay, open, view, pump, shown, from, dropped>>
  PROVE  IInv'
<1>1. /\ handler' = [handler EXCEPT ![v] = "returned"]
      /\ \/ ~open[v] /\ conn' = conn
         \/ /\ open[v] /\ Len(conn[v]) < ConnCap
            /\ conn' = [conn EXCEPT ![v] = Append(@, Final(kind))]
  BY DEF Respond, At
<1>2. /\ shown[v] \in Seq(Nat) /\ conn[v] \in Seq(Response) /\ replay[v] = <<>>
      /\ <<>> \in Seq(Nat) /\ read \in Nat
      /\ Ordered(shown[v], conn[v], replay[v], chan[v]) /\ \A c \in OnItsWay(v) : c <= read
      /\ PlaceInv(v) /\ CoverInv(v)
  BY ViewerTypes DEF PlaceInv
<1>3. Final(kind) \in Response /\ Final(kind).data = <<>> /\ Final(kind).kind = kind
  BY DEF Final, Response
<1>4. \A k \in DOMAIN conn[v] : conn[v][k].kind = "data"
  BY <1>2 DEF PlaceInv
<1>5. CASE ~open[v] /\ conn' = conn
  <2>1. conn[v] = <<>>
    BY <1>2, <1>5 DEF PlaceInv
  <2>2. ViewerTypeOK'
    BY <1>1, <1>5 DEF IInv, ViewerTypeOK
  <2>3. handler'[v] = "returned"
    BY <1>1 DEF IInv, ViewerTypeOK
  <2>4. view[v] # "done"
    BY <1>2 DEF CoverInv
  <2>5. OnItsWay(v)' = OnItsWay(v)
    BY <1>5 DEF OnItsWay
  <2>6. PlaceInv(v)'
    BY <1>2, <1>5, <2>1, <2>3 DEF PlaceInv
  <2>7. OrderInv(v)'
    BY <1>2, <1>5, <2>5 DEF OrderInv
  <2>8. CoverInv(v)'
    BY <1>5, <2>1, <2>3, <2>4 DEF CoverInv
  <2>9. \A w \in Viewers : w # v => handler'[w] = handler[w]
    BY <1>1 DEF IInv, ViewerTypeOK
  <2>10. subs' \subseteq Viewers /\ (closed => subs' = {})
         /\ input' \in 0 .. InputCap /\ typed' \in 0 .. MaxTyped
    BY DEF IInv, CaptureTypeOK, TailInv, ChildTypeOK
  <2>11. ViewerInv(v)'
    BY <2>6, <2>7, <2>8 DEF ViewerInv
  <2> QED
    BY <1>5, <2>2, <2>9, <2>10, <2>11, ViewerStep
<1>6. CASE /\ open[v] /\ Len(conn[v]) < ConnCap
           /\ conn' = [conn EXCEPT ![v] = Append(@, Final(kind))]
  <2> DEFINE n == Append(conn[v], Final(kind))
  <2>1. /\ n \in Seq(Response) /\ Len(n) = Len(conn[v]) + 1 /\ Len(conn[v]) \in Nat
        /\ n[Len(n)] = Final(kind) /\ Len(n) <= ConnCap
        /\ \A k \in DOMAIN n : k = Len(n) \/ (k \in DOMAIN conn[v] /\ n[k] = conn[v][k])
    <3>1. /\ n \in Seq(Response) /\ Len(n) = Len(conn[v]) + 1 /\ Len(conn[v]) \in Nat
          /\ n[Len(conn[v]) + 1] = Final(kind) /\ DOMAIN n = 1 .. (Len(conn[v]) + 1)
          /\ DOMAIN conn[v] = 1 .. Len(conn[v])
          /\ \A k \in 1 .. Len(conn[v]) : n[k] = conn[v][k]
      BY <1>2, <1>3
    <3>2. \A k \in 1 .. (Len(conn[v]) + 1) : k = Len(conn[v]) + 1 \/ k \in 1 .. Len(conn[v])
      BY <3>1
    <3> QED
      BY <1>6, <3>1, <3>2, InteractiveAssumption
  <2>2. /\ Ordered(shown[v], n, replay[v], chan[v])
        /\ Way(shown[v], n, replay[v], chan[v]) = OnItsWay(v)
    <3> DEFINE r == replay[v]
               b == chan[v]
    <3>1. r \in Seq(Nat) /\ b \in Seq(Nat)
      BY <1>2
    <3>2. Ordered(shown[v], conn[v], r, b)
      BY <1>2
    <3> HIDE DEF r, b
    <3>3. Ordered(shown[v], n, r, b) /\ Way(shown[v], n, r, b) = Way(shown[v], conn[v], r, b)
      BY <1>2, <1>3, <3>1, <3>2, WaySendFinal
    <3> QED
      BY <3>3 DEF OnItsWay, r, b
  <2> HIDE DEF n
  <2>3. conn' = [conn EXCEPT ![v] = n]
    BY <1>6 DEF n
  <2>4. conn'[v] = n /\ handler'[v] = "returned"
    BY <1>1, <2>3 DEF IInv, ViewerTypeOK
  <2>5. ViewerTypeOK'
    <3>1. conn' \in [Viewers -> Seq(Response)]
      BY <2>1, <2>3 DEF IInv, ViewerTypeOK
    <3>2. \A w \in Viewers : Len(conn'[w]) <= ConnCap
      BY <2>1, <2>3 DEF IInv, ViewerTypeOK
    <3> QED
      BY <1>1, <3>1, <3>2 DEF IInv, ViewerTypeOK
  <2>6. view[v] # "done"
    BY <1>2 DEF CoverInv
  <2>7. OnItsWay(v)' = OnItsWay(v)
    BY <2>2, <2>4 DEF OnItsWay
  <2>8. PlaceInv(v)'
    <3>1. /\ view'[v] = view[v] /\ shown'[v] = shown[v] /\ chan'[v] = chan[v]
          /\ replay'[v] = replay[v] /\ open'[v] = open[v] /\ subs' = subs
      OBVIOUS
    <3>2. view[v] \notin {"poll", "ready", "gone"}
      BY <1>2 DEF PlaceInv
    <3>3. \A k \in DOMAIN n : n[k].kind # "data" => k = Len(n) /\ n[k].data = <<>>
      BY <1>3, <1>4, <2>1
    <3> QED
      BY <1>2, <1>6, <2>4, <3>1, <3>2, <3>3 DEF PlaceInv
  <2>9. OrderInv(v)'
    BY <1>2, <2>2, <2>4, <2>7 DEF OrderInv
  <2>10. CoverInv(v)'
    <3>1. \A k \in DOMAIN n : n[k].kind = "done" => kind = "done"
      BY <1>3, <1>4, <2>1
    <3>2. kind = "done" => Covered(v)' /\ closed
      BY <1>6, <2>7 DEF Covered
    <3> QED
      BY <2>4, <2>6, <3>1, <3>2 DEF CoverInv
  <2>11. \A w \in Viewers : w # v => handler'[w] = handler[w] /\ conn'[w] = conn[w]
    BY <1>1, <2>3 DEF IInv, ViewerTypeOK
  <2>12. subs' \subseteq Viewers /\ (closed => subs' = {})
         /\ input' \in 0 .. InputCap /\ typed' \in 0 .. MaxTyped
    BY DEF IInv, CaptureTypeOK, TailInv, ChildTypeOK
  <2>13. ViewerInv(v)'
    BY <2>8, <2>9, <2>10 DEF ViewerInv
  <2> QED
    BY <2>5, <2>11, <2>12, <2>13, ViewerStep
<1> QED
  BY <1>1, <1>5, <1>6

\* The buffer is empty and the broadcast closed: everything is on its way.
LEMMA EndStreamInv == ASSUME IInv, NEW v \in Viewers, EndStream(v) PROVE IInv'
<1>1. /\ handler[v] = "stream" /\ chan[v] = <<>> /\ v \notin subs
      /\ Respond(v, Final("done"), "returned")
      /\ UNCHANGED <<row, child, written, input, typed, read, pty, capture, tail, closed, subs, chan,
                     log, held, exit, faults, replay, open, view, pump, shown, from, dropped>>
  BY DEF EndStream, childVars, bcast, files, client
<1>2. closed /\ (open[v] => Covered(v))
  BY <1>1 DEF IInv, ViewerInv, PlaceInv, CoverInv
<1> QED
  BY <1>1, <1>2, FinalStep

\* The handler looks for the runtime's terminal.
LEMMA LookInv == ASSUME IInv, NEW v \in Viewers, Look(v) PROVE IInv'
<1>1. /\ handler[v] = "look"
      /\ UNCHANGED <<row, child, written, input, typed, read, pty, capture, tail, closed, subs, chan,
                     log, held, exit, faults, replay, open, view, pump, shown, from, dropped>>
  BY DEF Look, childVars, bcast, files, client
<1>2. PlaceInv(v) /\ OrderInv(v) /\ CoverInv(v)
  BY DEF IInv, ViewerInv
<1>3. CASE pty
  <2>1. handler' = [handler EXCEPT ![v] = "subscribe"] /\ conn' = conn
    BY <1>3 DEF Look, At
  <2>2. ViewerTypeOK' /\ handler'[v] = "subscribe"
    BY <1>1, <2>1 DEF IInv, ViewerTypeOK
  <2>3. OnItsWay(v)' = OnItsWay(v)
    BY <1>1, <2>1 DEF OnItsWay
  <2>4. PlaceInv(v)'
    BY <1>1, <1>2, <2>1, <2>2 DEF PlaceInv
  <2>5. OrderInv(v)'
    BY <1>1, <1>2, <2>1, <2>3 DEF OrderInv
  <2>6. CoverInv(v)'
    BY <1>1, <1>2, <2>1, <2>2 DEF CoverInv, PlaceInv
  <2>7. ViewerInv(v)'
    BY <2>4, <2>5, <2>6 DEF ViewerInv
  <2>8. subs' \subseteq Viewers /\ (closed => subs' = {})
        /\ input' \in 0 .. InputCap /\ typed' \in 0 .. MaxTyped
    BY <1>1 DEF IInv, CaptureTypeOK, TailInv, ChildTypeOK
  <2>9. \A w \in Viewers : w # v => handler'[w] = handler[w]
    BY <2>1 DEF IInv, ViewerTypeOK
  <2> QED
    BY <1>1, <2>1, <2>2, <2>7, <2>8, <2>9, ViewerStep
<1>4. CASE ~pty
  <2>1. Respond(v, Final("error"), "returned")
    BY <1>4 DEF Look
  <2>2. chan[v] = <<>> /\ v \notin subs
    BY <1>1, <1>2 DEF PlaceInv
  <2> QED
    BY <1>1, <2>1, <2>2, FinalStep
<1> QED
  BY <1>3, <1>4

\* The tail begins the way of the stream; what comes after it is broadcast.
LEMMA SubscribeInv == ASSUME IInv, NEW v \in Viewers, Subscribe(v) PROVE IInv'
<1>1. /\ handler[v] = "subscribe" /\ handler' = [handler EXCEPT ![v] = "tail"]
      /\ replay' = [replay EXCEPT ![v] = tail]
      /\ subs' = IF closed THEN subs ELSE subs \union {v}
      /\ from' = [from EXCEPT ![v] = read - Len(tail) + 1]
      /\ UNCHANGED <<row, child, written, input, typed, read, pty, capture, tail, closed, chan, log,
                     held, exit, faults, conn, open, view, pump, shown, dropped>>
  BY DEF Subscribe, At, childVars, files, client
<1>2. PlaceInv(v) /\ CoverInv(v) /\ read \in Nat
  BY DEF IInv, ViewerInv, ChildTypeOK
<1>3. /\ tail \in Seq(Nat) /\ Len(tail) \in Nat /\ DOMAIN tail = 1 .. Len(tail) /\ Len(tail) <= read
      /\ \A i \in DOMAIN tail : tail[i] = read - Len(tail) + i
  <2>1. tail \in Seq(Nat)
    BY DEF IInv, CaptureTypeOK
  <2>2. Len(tail) \in Nat /\ DOMAIN tail = 1 .. Len(tail)
    BY <2>1
  <2> QED
    BY <2>1, <2>2 DEF IInv, TailInv
<1>4. Increasing(tail) /\ \A c \in El(tail) : c <= read
  BY <1>2, <1>3 DEF Increasing, El
<1>5. \A c \in (read - Len(tail) + 1) .. read : c \in El(tail)
  <2> TAKE c \in (read - Len(tail) + 1) .. read
  <2>1. c - read + Len(tail) \in DOMAIN tail /\ tail[c - read + Len(tail)] = c
    BY <1>2, <1>3
  <2> QED
    BY <2>1 DEF El
<1>6. /\ handler'[v] = "tail" /\ replay'[v] = tail /\ from'[v] = read - Len(tail) + 1
      /\ v \in subs' \/ closed
      /\ shown'[v] = <<>> /\ conn'[v] = <<>> /\ chan'[v] = <<>>
  BY <1>1, <1>2 DEF IInv, ViewerTypeOK, PlaceInv
<1>7. Ordered(<<>>, <<>>, tail, <<>>) /\ Way(<<>>, <<>>, tail, <<>>) = El(tail)
  BY <1>4, WayBegin
<1>8. OnItsWay(v)' = El(tail)
  BY <1>6, <1>7 DEF OnItsWay
<1>9. ViewerTypeOK'
  <2>1. replay' \in [Viewers -> Seq(Nat)] /\ from' \in [Viewers -> Int]
    <3>1. read - Len(tail) + 1 \in Int
      BY <1>2, <1>3
    <3> QED
      BY <1>1, <1>3, <3>1 DEF IInv, ViewerTypeOK
  <2> QED
    BY <1>1, <2>1 DEF IInv, ViewerTypeOK
<1>10. ViewerInv(v)'
  <2>1. view[v] \notin {"poll", "ready", "gone", "done"}
    BY <1>1, <1>2 DEF PlaceInv, CoverInv
  <2>2. PlaceInv(v)'
    BY <1>1, <1>6, <2>1 DEF PlaceInv
  <2>3. OrderInv(v)'
    BY <1>1, <1>4, <1>6, <1>7, <1>8 DEF OrderInv
  <2>4. Covered(v)'
    BY <1>1, <1>5, <1>6, <1>8 DEF Covered
  <2>5. CoverInv(v)'
    BY <1>1, <1>6, <2>1, <2>4 DEF CoverInv
  <2> QED
    BY <2>2, <2>3, <2>5 DEF ViewerInv
<1>11. /\ subs' \subseteq Viewers /\ (closed => subs' = {})
       /\ input' \in 0 .. InputCap /\ typed' \in 0 .. MaxTyped
  BY <1>1 DEF IInv, CaptureTypeOK, TailInv, ChildTypeOK
<1>12. \A w \in Viewers : w # v =>
         /\ w \in subs' <=> w \in subs
         /\ handler'[w] = handler[w] /\ replay'[w] = replay[w] /\ from'[w] = from[w]
  BY <1>1 DEF IInv, ViewerTypeOK
<1> QED
  BY <1>1, <1>9, <1>10, <1>11, <1>12, ViewerStep

\* The connection takes the tail, or a live chunk.
LEMMA DataStep ==
  ASSUME IInv, NEW v \in Viewers, NEW d \in Seq(Nat), NEW r \in Seq(Nat), NEW b \in Seq(Nat),
         handler[v] \in {"tail", "stream"}, open[v], Len(conn[v]) < ConnCap, Len(b) <= SubCap,
         r = <<>>,
         Ordered(shown[v], Append(conn[v], Data(d)), r, b),
         Way(shown[v], Append(conn[v], Data(d)), r, b) = OnItsWay(v),
         conn' = [conn EXCEPT ![v] = Append(@, Data(d))],
         handler' = [handler EXCEPT ![v] = "stream"],
         replay' = [replay EXCEPT ![v] = r], chan' = [chan EXCEPT ![v] = b],
         UNCHANGED <<row, child, written, input, typed, read, pty, capture, tail, closed, subs,
                     log, held, exit, faults, open, view, pump, shown, from, dropped>>
  PROVE  IInv'
<1> DEFINE n == Append(conn[v], Data(d))
<1>1. /\ PlaceInv(v) /\ CoverInv(v) /\ OrderInv(v) /\ conn[v] \in Seq(Response)
  BY DEF IInv, ViewerInv, ViewerTypeOK
<1>2. Data(d) \in Response /\ Data(d).kind = "data"
  BY DEF Data, Response
<1>3. \A k \in DOMAIN conn[v] : conn[v][k].kind = "data"
  BY <1>1 DEF PlaceInv
<1>4. /\ n \in Seq(Response) /\ Len(n) <= ConnCap
      /\ \A k \in DOMAIN n : n[k].kind = "data"
  <2>1. /\ n \in Seq(Response) /\ Len(n) = Len(conn[v]) + 1 /\ Len(conn[v]) \in Nat
        /\ n[Len(conn[v]) + 1] = Data(d) /\ DOMAIN n = 1 .. (Len(conn[v]) + 1)
        /\ DOMAIN conn[v] = 1 .. Len(conn[v])
        /\ \A k \in 1 .. Len(conn[v]) : n[k] = conn[v][k]
    BY <1>1, <1>2
  <2>2. \A k \in 1 .. (Len(conn[v]) + 1) : k = Len(conn[v]) + 1 \/ k \in 1 .. Len(conn[v])
    BY <2>1
  <2> HIDE DEF n
  <2>3. \A k \in DOMAIN n : n[k].kind = "data"
    BY <1>2, <1>3, <2>1, <2>2
  <2> QED
    BY <2>1, <2>3, InteractiveAssumption
<1>5. conn' = [conn EXCEPT ![v] = n] /\ Ordered(shown[v], n, r, b)
      /\ Way(shown[v], n, r, b) = OnItsWay(v)
  OBVIOUS
<1> HIDE DEF n
<1>6. conn'[v] = n /\ handler'[v] = "stream" /\ replay'[v] = r /\ chan'[v] = b
  BY <1>5 DEF IInv, ViewerTypeOK
<1>7. ViewerTypeOK'
  <2>1. conn' \in [Viewers -> Seq(Response)] /\ \A w \in Viewers : Len(conn'[w]) <= ConnCap
    <3>1. conn' \in [Viewers -> Seq(Response)]
      BY <1>4, <1>5 DEF IInv, ViewerTypeOK
    <3>2. \A w \in Viewers : conn'[w] = n \/ conn'[w] = conn[w]
      BY <1>5 DEF IInv, ViewerTypeOK
    <3>3. \A w \in Viewers : Len(conn[w]) <= ConnCap
      BY DEF IInv, ViewerTypeOK
    <3> QED
      BY <1>4, <3>1, <3>2, <3>3
  <2>2. chan' \in [Viewers -> Seq(Nat)] /\ \A w \in Viewers : Len(chan'[w]) <= SubCap
    BY DEF IInv, ViewerTypeOK
  <2>3. replay' \in [Viewers -> Seq(Nat)]
    BY DEF IInv, ViewerTypeOK
  <2> QED
    BY <2>1, <2>2, <2>3 DEF IInv, ViewerTypeOK
<1>8. ViewerInv(v)'
  <2>1. view[v] \notin {"poll", "ready", "gone", "done"}
    BY <1>1 DEF PlaceInv, CoverInv
  <2>2. OnItsWay(v)' = OnItsWay(v)
    BY <1>5, <1>6 DEF OnItsWay
  <2>3. PlaceInv(v)'
    BY <1>1, <1>4, <1>6, <2>1 DEF PlaceInv
  <2>4. OrderInv(v)'
    BY <1>1, <1>5, <1>6, <2>2 DEF OrderInv
  <2>5. Covered(v)' = Covered(v)
    BY <2>2 DEF Covered
  <2>6. CoverInv(v)'
    BY <1>1, <1>4, <1>6, <2>1, <2>5 DEF CoverInv
  <2> QED
    BY <2>3, <2>4, <2>6 DEF ViewerInv
<1>9. /\ subs' \subseteq Viewers /\ (closed => subs' = {})
      /\ input' \in 0 .. InputCap /\ typed' \in 0 .. MaxTyped
  BY DEF IInv, CaptureTypeOK, TailInv, ChildTypeOK
<1>10. \A w \in Viewers : w # v =>
         /\ handler'[w] = handler[w] /\ replay'[w] = replay[w] /\ conn'[w] = conn[w]
         /\ chan'[w] = chan[w]
  BY <1>5 DEF IInv, ViewerTypeOK
<1> QED
  BY <1>7, <1>8, <1>9, <1>10, ViewerStep

\* The connection is closed: the handler unsubscribes and is over.
LEMMA StopStep ==
  ASSUME IInv, NEW v \in Viewers, handler[v] \in {"tail", "stream"}, ~open[v],
         Unsubscribe(v), handler' = [handler EXCEPT ![v] = "returned"],
         replay' = [replay EXCEPT ![v] = <<>>],
         UNCHANGED <<row, child, written, input, typed, read, pty, capture, tail, closed, log, held,
                     exit, faults, conn, open, view, pump, shown, from, dropped>>
  PROVE  IInv'
<1>1. /\ PlaceInv(v) /\ CoverInv(v) /\ read \in Nat
      /\ Ordered(shown[v], conn[v], replay[v], chan[v]) /\ \A c \in OnItsWay(v) : c <= read
  BY ViewerTypes
<1>2. /\ subs' = subs \ {v} /\ chan' = [chan EXCEPT ![v] = <<>>]
      /\ chan'[v] = <<>> /\ handler'[v] = "returned" /\ replay'[v] = <<>>
      /\ conn'[v] = <<>> /\ conn[v] = <<>>
  BY <1>1 DEF Unsubscribe, PlaceInv, IInv, ViewerTypeOK
<1>3. ViewerTypeOK'
  <2>1. chan' \in [Viewers -> Seq(Nat)] /\ replay' \in [Viewers -> Seq(Nat)]
    BY <1>2 DEF IInv, ViewerTypeOK
  <2>2. \A w \in Viewers : chan'[w] = <<>> \/ chan'[w] = chan[w]
    BY <1>2 DEF IInv, ViewerTypeOK
  <2>3. \A w \in Viewers : Len(chan[w]) <= SubCap
    BY DEF IInv, ViewerTypeOK
  <2>4. \A w \in Viewers : Len(chan'[w]) <= SubCap
    BY <2>2, <2>3, InteractiveAssumption
  <2> QED
    BY <2>1, <2>4 DEF IInv, ViewerTypeOK
<1>4. ViewerInv(v)'
  <2>1. view[v] \notin {"poll", "ready", "gone", "done"}
    BY <1>1 DEF PlaceInv, CoverInv
  <2>2. /\ Ordered(shown[v], conn[v], <<>>, <<>>)
        /\ Way(shown[v], conn[v], <<>>, <<>>) \subseteq OnItsWay(v)
    BY <1>1, WayDiscard DEF OnItsWay
  <2>3. OnItsWay(v)' \subseteq OnItsWay(v)
    BY <1>2, <2>2 DEF OnItsWay
  <2>4. PlaceInv(v)'
    BY <1>1, <1>2, <2>1 DEF PlaceInv
  <2>5. OrderInv(v)'
    BY <1>1, <1>2, <2>2, <2>3 DEF OrderInv
  <2>6. CoverInv(v)'
    BY <1>2, <2>1 DEF CoverInv
  <2> QED
    BY <2>4, <2>5, <2>6 DEF ViewerInv
<1>5. /\ subs' \subseteq Viewers /\ (closed => subs' = {})
      /\ input' \in 0 .. InputCap /\ typed' \in 0 .. MaxTyped
  BY <1>2 DEF IInv, CaptureTypeOK, TailInv, ChildTypeOK
<1>6. \A w \in Viewers : w # v =>
         /\ w \in subs' <=> w \in subs
         /\ handler'[w] = handler[w] /\ replay'[w] = replay[w] /\ chan'[w] = chan[w]
  BY <1>2 DEF IInv, ViewerTypeOK
<1> QED
  BY <1>3, <1>4, <1>5, <1>6, ViewerStep

\* The tail is sent, if there is one and somebody to send it to.
LEMMA SendTailInv == ASSUME IInv, NEW v \in Viewers, SendTail(v) PROVE IInv'
<1>1. /\ handler[v] = "tail" /\ replay' = [replay EXCEPT ![v] = <<>>]
      /\ UNCHANGED <<row, child, written, input, typed, read, pty, capture, tail, closed, log, held,
                     exit, faults, open, view, pump, shown, from, dropped>>
  BY DEF SendTail, childVars, files, client
<1>2. /\ shown[v] \in Seq(Nat) /\ conn[v] \in Seq(Response)
      /\ replay[v] \in Seq(Nat) /\ chan[v] \in Seq(Nat)
      /\ Ordered(shown[v], conn[v], replay[v], chan[v]) /\ PlaceInv(v) /\ CoverInv(v) /\ OrderInv(v)
  BY ViewerTypes DEF IInv, ViewerInv
<1>3. CASE replay[v] # <<>> /\ ~open[v]
  <2>1. /\ Unsubscribe(v) /\ handler' = [handler EXCEPT ![v] = "returned"] /\ conn' = conn
    BY <1>3 DEF SendTail, At
  <2> QED
    BY <1>1, <1>3, <2>1, StopStep
<1>4. CASE replay[v] = <<>>
  <2>1. handler' = [handler EXCEPT ![v] = "stream"] /\ conn' = conn /\ subs' = subs /\ chan' = chan
    BY <1>4 DEF SendTail, At
  <2>2. replay' = replay
    BY <1>1, <1>4 DEF IInv, ViewerTypeOK
  <2>3. ViewerTypeOK' /\ handler'[v] = "stream"
    BY <1>1, <2>1, <2>2 DEF IInv, ViewerTypeOK
  <2>4. OnItsWay(v)' = OnItsWay(v)
    BY <1>1, <2>1, <2>2 DEF OnItsWay
  <2>5. PlaceInv(v)'
    BY <1>1, <1>2, <1>4, <2>1, <2>2, <2>3 DEF PlaceInv
  <2>6. OrderInv(v)'
    BY <1>1, <1>2, <2>1, <2>2, <2>4 DEF OrderInv
  <2>7. Covered(v)' = Covered(v)
    BY <1>1, <2>4 DEF Covered
  <2>8. CoverInv(v)'
    BY <1>1, <1>2, <2>1, <2>3, <2>7 DEF CoverInv
  <2>9. ViewerInv(v)'
    BY <2>5, <2>6, <2>8 DEF ViewerInv
  <2>10. /\ subs' \subseteq Viewers /\ (closed => subs' = {})
         /\ input' \in 0 .. InputCap /\ typed' \in 0 .. MaxTyped
    BY <1>1, <2>1 DEF IInv, CaptureTypeOK, TailInv, ChildTypeOK
  <2>11. \A w \in Viewers : w # v => handler'[w] = handler[w]
    BY <2>1 DEF IInv, ViewerTypeOK
  <2> QED
    BY <1>1, <2>1, <2>2, <2>3, <2>9, <2>10, <2>11, ViewerStep
<1>5. CASE replay[v] # <<>> /\ open[v]
  <2>1. /\ Respond(v, Data(replay[v]), "stream") /\ subs' = subs /\ chan' = chan
    BY <1>5 DEF SendTail
  <2>2. /\ Len(conn[v]) < ConnCap /\ conn' = [conn EXCEPT ![v] = Append(@, Data(replay[v]))]
        /\ handler' = [handler EXCEPT ![v] = "stream"]
    BY <1>5, <2>1 DEF Respond, At
  <2>3. chan' = [chan EXCEPT ![v] = chan[v]] /\ Len(chan[v]) <= SubCap
    BY <2>1 DEF IInv, ViewerTypeOK
  <2>4. /\ Ordered(shown[v], Append(conn[v], Data(replay[v])), <<>>, chan[v])
        /\ Way(shown[v], Append(conn[v], Data(replay[v])), <<>>, chan[v])
             = Way(shown[v], conn[v], replay[v], chan[v])
    BY <1>2, WaySendTail
  <2>5. Way(shown[v], Append(conn[v], Data(replay[v])), <<>>, chan[v]) = OnItsWay(v)
    BY <2>4 DEF OnItsWay
  <2>6. <<>> \in Seq(Nat) /\ handler[v] \in {"tail", "stream"} /\ open[v]
    BY <1>1, <1>5
  <2> QED
    BY <1>1, <1>2, <2>1, <2>2, <2>3, <2>4, <2>5, <2>6, DataStep
<1> QED
  BY <1>3, <1>4, <1>5

\* The oldest chunk in the buffer is sent.
LEMMA SendChunkInv == ASSUME IInv, NEW v \in Viewers, SendChunk(v) PROVE IInv'
<1>1. /\ handler[v] = "stream" /\ chan[v] # <<>>
      /\ UNCHANGED <<row, child, written, input, typed, read, pty, capture, tail, closed, log, held,
                     exit, faults, replay, open, view, pump, shown, from, dropped>>
  BY DEF SendChunk, childVars, files, client
<1>2. /\ shown[v] \in Seq(Nat) /\ conn[v] \in Seq(Response) /\ chan[v] \in Seq(Nat)
      /\ replay[v] = <<>> /\ Ordered(shown[v], conn[v], <<>>, chan[v])
      /\ OnItsWay(v) = Way(shown[v], conn[v], <<>>, chan[v])
  <2>1. replay[v] = <<>>
    BY <1>1, ViewerTypes DEF PlaceInv
  <2> QED
    BY <2>1, ViewerTypes DEF OnItsWay
<1>3. replay' = [replay EXCEPT ![v] = <<>>]
  BY <1>1, <1>2 DEF IInv, ViewerTypeOK
<1>4. CASE open[v]
  <2>1. /\ Respond(v, Data(<<Head(chan[v])>>), "stream") /\ subs' = subs
        /\ chan' = [chan EXCEPT ![v] = Tail(chan[v])]
    BY <1>4 DEF SendChunk
  <2>2. /\ Len(conn[v]) < ConnCap
        /\ conn' = [conn EXCEPT ![v] = Append(@, Data(<<Head(chan[v])>>))]
        /\ handler' = [handler EXCEPT ![v] = "stream"]
    BY <1>4, <2>1 DEF Respond, At
  <2>3. /\ Tail(chan[v]) \in Seq(Nat) /\ Len(Tail(chan[v])) <= SubCap /\ Head(chan[v]) \in Nat
    <3>1. /\ Tail(chan[v]) \in Seq(Nat) /\ Len(Tail(chan[v])) = Len(chan[v]) - 1
          /\ Head(chan[v]) \in Nat /\ Len(chan[v]) \in Nat
      BY <1>1, <1>2, TailFacts
    <3>2. Len(chan[v]) <= SubCap
      BY DEF IInv, ViewerTypeOK
    <3> QED
      BY <3>1, <3>2, InteractiveAssumption
  <2>4. /\ Ordered(shown[v], Append(conn[v], Data(<<Head(chan[v])>>)), <<>>, Tail(chan[v]))
        /\ Way(shown[v], Append(conn[v], Data(<<Head(chan[v])>>)), <<>>, Tail(chan[v]))
             = Way(shown[v], conn[v], <<>>, chan[v])
    BY <1>1, <1>2, WaySendChunk
  <2>5. Way(shown[v], Append(conn[v], Data(<<Head(chan[v])>>)), <<>>, Tail(chan[v])) = OnItsWay(v)
    BY <1>2, <2>4
  <2>6. /\ <<>> \in Seq(Nat) /\ handler[v] \in {"tail", "stream"} /\ open[v]
        /\ <<Head(chan[v])>> \in Seq(Nat)
    BY <1>1, <1>4, <2>3
  <2> QED
    BY <1>1, <1>3, <2>1, <2>2, <2>3, <2>4, <2>5, <2>6, DataStep
<1>5. CASE ~open[v]
  <2>1. /\ Unsubscribe(v) /\ handler' = [handler EXCEPT ![v] = "returned"] /\ conn' = conn
    BY <1>5 DEF SendChunk, At
  <2> QED
    BY <1>1, <1>3, <1>5, <2>1, StopStep
<1> QED
  BY <1>4, <1>5

-----------------------------------------------------------------------------
\* The client receives, or leaves.

\* A response is rendered; the final one ends the attach.
LEMMA ReceiveInv == ASSUME IInv, NEW v \in Viewers, Receive(v) PROVE IInv'
<1> DEFINE h == Head(conn[v])
           n == Tail(conn[v])
           s == shown[v] \o h.data
<1>1. /\ view[v] = "attached" /\ conn[v] # <<>>
      /\ conn' = [conn EXCEPT ![v] = n] /\ shown' = [shown EXCEPT ![v] = s]
      /\ UNCHANGED <<row, child, written, input, typed, read, pty, capture, tail, closed, subs, chan,
                     log, held, exit, faults, handler, replay, from, dropped>>
  BY DEF Receive, childVars, bcast, files
<1>2. /\ shown[v] \in Seq(Nat) /\ conn[v] \in Seq(Response)
      /\ replay[v] \in Seq(Nat) /\ chan[v] \in Seq(Nat)
      /\ Ordered(shown[v], conn[v], replay[v], chan[v]) /\ PlaceInv(v) /\ CoverInv(v) /\ OrderInv(v)
  BY ViewerTypes DEF IInv, ViewerInv
<1>3. /\ n \in Seq(Response) /\ Len(n) = Len(conn[v]) - 1 /\ h = conn[v][1]
      /\ 1 \in DOMAIN conn[v] /\ Len(conn[v]) \in Nat /\ h \in Response
      /\ \A i \in DOMAIN n : i \in Nat /\ i + 1 \in DOMAIN conn[v] /\ n[i] = conn[v][i + 1]
  BY <1>1, <1>2, TailFacts
<1>4. s \in Seq(Nat) /\ h.data \in Seq(Nat) /\ h.kind \in {"data", "done", "error"}
  <2>1. h.data \in Seq(Nat) /\ h.kind \in {"data", "done", "error"}
    BY <1>3 DEF Response
  <2> QED
    BY <1>2, <2>1
<1>5. /\ Ordered(s, n, replay[v], chan[v])
      /\ Way(s, n, replay[v], chan[v]) = Way(shown[v], conn[v], replay[v], chan[v])
  BY <1>1, <1>2, WayReceive
<1>6. /\ handler[v] \notin {"none", "look", "subscribe"} /\ open[v]
      /\ view[v] \notin {"poll", "ready", "gone", "done"}
  BY <1>1, <1>2 DEF PlaceInv
<1>7. IF h.kind = "data" THEN open' = open /\ view' = view /\ pump' = pump
      ELSE /\ view' = [view EXCEPT ![v] = h.kind] /\ open' = [open EXCEPT ![v] = FALSE]
           /\ pump' = [pump EXCEPT ![v] = "off"]
  BY DEF Receive, Return, Show
<1> HIDE DEF h, n, s
<1>8. conn'[v] = n /\ shown'[v] = s
  BY <1>1 DEF IInv, ViewerTypeOK
<1>9. OnItsWay(v)' = OnItsWay(v) /\ Covered(v)' = Covered(v)
  <2>1. OnItsWay(v)' = OnItsWay(v)
    BY <1>1, <1>5, <1>8 DEF OnItsWay
  <2> QED
    BY <1>1, <2>1 DEF Covered
<1>10. OrderInv(v)'
  BY <1>1, <1>2, <1>5, <1>8, <1>9 DEF OrderInv
<1>11. conn' \in [Viewers -> Seq(Response)] /\ shown' \in [Viewers -> Seq(Nat)]
  BY <1>1, <1>3, <1>4 DEF IInv, ViewerTypeOK
<1>12. \A w \in Viewers : Len(conn'[w]) <= ConnCap
  <2>1. \A w \in Viewers : conn'[w] = n \/ conn'[w] = conn[w]
    BY <1>1 DEF IInv, ViewerTypeOK
  <2>2. \A w \in Viewers : Len(conn[w]) <= ConnCap
    BY DEF IInv, ViewerTypeOK
  <2>3. Len(n) <= ConnCap
    BY <1>3, <2>2, InteractiveAssumption
  <2> QED
    BY <2>1, <2>2, <2>3
<1>13. /\ subs' \subseteq Viewers /\ (closed => subs' = {})
       /\ input' \in 0 .. InputCap /\ typed' \in 0 .. MaxTyped
  BY <1>1 DEF IInv, CaptureTypeOK, TailInv, ChildTypeOK
<1>14. \A w \in Viewers : w # v => conn'[w] = conn[w] /\ shown'[w] = shown[w]
  BY <1>1 DEF IInv, ViewerTypeOK
<1>15. CASE h.kind = "data"
  <2>1. open' = open /\ view' = view /\ pump' = pump
    BY <1>7, <1>15
  <2>2. ViewerTypeOK'
    BY <1>1, <1>11, <1>12, <2>1 DEF IInv, ViewerTypeOK
  <2>3. \A k \in DOMAIN n : n[k].kind # "data" =>
          k = Len(n) /\ n[k].data = <<>> /\ handler[v] = "returned"
    <3> SUFFICES ASSUME NEW k \in DOMAIN n, n[k].kind # "data"
                 PROVE  k = Len(n) /\ n[k].data = <<>> /\ handler[v] = "returned"
      OBVIOUS
    <3>1. k \in Nat /\ k + 1 \in DOMAIN conn[v] /\ n[k] = conn[v][k + 1]
      BY <1>3
    <3>2. k + 1 = Len(conn[v]) /\ n[k].data = <<>> /\ handler[v] = "returned"
      BY <1>2, <3>1 DEF PlaceInv
    <3> QED
      BY <1>3, <3>1, <3>2
  <2>4. PlaceInv(v)'
    BY <1>1, <1>2, <1>6, <1>8, <2>1, <2>3 DEF PlaceInv
  <2>5. \A k \in DOMAIN n : n[k].kind = "done" => Covered(v) /\ closed
    BY <1>2, <1>3 DEF CoverInv
  <2>6. CoverInv(v)'
    BY <1>1, <1>2, <1>6, <1>8, <1>9, <2>1, <2>5 DEF CoverInv
  <2>7. ViewerInv(v)'
    BY <1>10, <2>4, <2>6 DEF ViewerInv
  <2> QED
    BY <1>1, <1>13, <1>14, <2>1, <2>2, <2>7, ViewerStep
<1>16. CASE h.kind # "data"
  <2>1. /\ view' = [view EXCEPT ![v] = h.kind] /\ open' = [open EXCEPT ![v] = FALSE]
        /\ pump' = [pump EXCEPT ![v] = "off"]
    BY <1>7, <1>16
  <2>2. view'[v] = h.kind /\ open'[v] = FALSE /\ h.kind \in {"done", "error"}
    BY <1>4, <1>16, <2>1 DEF IInv, ViewerTypeOK
  <2>3. ViewerTypeOK'
    <3>1. view' \in [Viewers -> {"poll", "ready", "gone", "attached", "done", "error", "left"}]
          /\ pump' \in [Viewers -> {"off", "reading", "calling"}] /\ open' \in [Viewers -> BOOLEAN]
      BY <2>1, <2>2 DEF IInv, ViewerTypeOK
    <3>2. \A w \in Viewers : open'[w] <=> view'[w] = "attached"
      BY <2>1, <2>2 DEF IInv, ViewerTypeOK
    <3> QED
      BY <1>1, <1>11, <1>12, <3>1, <3>2 DEF IInv, ViewerTypeOK
  <2>4. 1 = Len(conn[v]) /\ handler[v] = "returned"
    BY <1>2, <1>3, <1>16 DEF PlaceInv
  <2>5. n = <<>>
    BY <1>3, <2>4
  <2>6. PlaceInv(v)'
    BY <1>1, <1>2, <1>8, <2>2, <2>4, <2>5 DEF PlaceInv
  <2>7. h.kind = "done" => Covered(v) /\ closed
    BY <1>2, <1>3 DEF CoverInv
  <2>8. CoverInv(v)'
    BY <1>1, <1>8, <1>9, <2>2, <2>4, <2>5, <2>7 DEF CoverInv
  <2>9. ViewerInv(v)'
    BY <1>10, <2>6, <2>8 DEF ViewerInv
  <2>10. \A w \in Viewers : w # v => view'[w] = view[w] /\ open'[w] = open[w]
    BY <2>1 DEF IInv, ViewerTypeOK
  <2> QED
    BY <1>1, <1>13, <1>14, <2>3, <2>9, <2>10, ViewerStep
<1> QED
  BY <1>15, <1>16

\* The client detaches, or its input is refused: the output is given up.
LEMMA LeaveInv == ASSUME IInv, NEW v \in Viewers, Detach(v) \/ InputRefused(v) PROVE IInv'
<1>1. /\ view' = [view EXCEPT ![v] = "left"] /\ open' = [open EXCEPT ![v] = FALSE]
      /\ pump' = [pump EXCEPT ![v] = "off"] /\ conn' = [conn EXCEPT ![v] = <<>>]
      /\ UNCHANGED <<row, child, written, input, typed, read, pty, capture, tail, closed, subs, chan,
                     log, held, exit, faults, handler, replay, shown, from, dropped>>
  BY DEF Detach, InputRefused, Return, Show, childVars, bcast, files
<1>2. /\ PlaceInv(v) /\ CoverInv(v) /\ OrderInv(v)
  BY DEF IInv, ViewerInv
<1>3. view'[v] = "left" /\ open'[v] = FALSE /\ conn'[v] = <<>>
  BY <1>1 DEF IInv, ViewerTypeOK
<1>4. ViewerTypeOK'
  <2>1. /\ view' \in [Viewers -> {"poll", "ready", "gone", "attached", "done", "error", "left"}]
        /\ pump' \in [Viewers -> {"off", "reading", "calling"}] /\ open' \in [Viewers -> BOOLEAN]
        /\ conn' \in [Viewers -> Seq(Response)]
    BY <1>1 DEF IInv, ViewerTypeOK
  <2>2. \A w \in Viewers : open'[w] <=> view'[w] = "attached"
    BY <1>1, <1>3 DEF IInv, ViewerTypeOK
  <2>3. \A w \in Viewers : conn'[w] = <<>> \/ conn'[w] = conn[w]
    BY <1>1 DEF IInv, ViewerTypeOK
  <2>4. \A w \in Viewers : Len(conn[w]) <= ConnCap
    BY DEF IInv, ViewerTypeOK
  <2>5. \A w \in Viewers : Len(conn'[w]) <= ConnCap
    BY <2>3, <2>4, InteractiveAssumption
  <2> QED
    BY <1>1, <2>1, <2>2, <2>5 DEF IInv, ViewerTypeOK
<1>5. /\ Ordered(shown[v], <<>>, replay[v], chan[v])
      /\ Way(shown[v], <<>>, replay[v], chan[v]) \subseteq OnItsWay(v)
  BY <1>2, WayDiscard DEF OrderInv, OnItsWay
<1>6. OnItsWay(v)' \subseteq OnItsWay(v)
  BY <1>1, <1>3, <1>5 DEF OnItsWay
<1>7. OrderInv(v)'
  BY <1>1, <1>2, <1>3, <1>5, <1>6 DEF OrderInv
<1>8. PlaceInv(v)'
  BY <1>1, <1>2, <1>3 DEF PlaceInv
<1>9. CoverInv(v)'
  BY <1>1, <1>3 DEF CoverInv
<1>10. ViewerInv(v)'
  BY <1>7, <1>8, <1>9 DEF ViewerInv
<1>11. /\ subs' \subseteq Viewers /\ (closed => subs' = {})
       /\ input' \in 0 .. InputCap /\ typed' \in 0 .. MaxTyped
  BY <1>1 DEF IInv, CaptureTypeOK, TailInv, ChildTypeOK
<1>12. \A w \in Viewers : w # v =>
         conn'[w] = conn[w] /\ view'[w] = view[w] /\ open'[w] = open[w]
  BY <1>1 DEF IInv, ViewerTypeOK
<1> QED
  BY <1>1, <1>4, <1>10, <1>11, <1>12, ViewerStep

-----------------------------------------------------------------------------

\* Nothing has been written and nobody is attached.
LEMMA InitIInv == Init => IInv
<1> SUFFICES ASSUME Init PROVE IInv
  OBVIOUS
<1>1. ChildTypeOK
  BY InteractiveAssumption DEF Init, ChildTypeOK
<1>2. CaptureTypeOK
  <2>1. <<>> \in Seq(Nat) /\ Len(<<>>) = 0 /\ 0 <= MaxTail /\ 0 \in 0 .. MaxFaults
    BY InteractiveAssumption
  <2> QED
    BY <2>1 DEF Init, CaptureTypeOK
<1>3. ViewerTypeOK
  BY InteractiveAssumption DEF Init, ViewerTypeOK
<1>4. CaptureInv
  <2>1. <<>> \o <<>> = Count(0)
    BY DEF Count
  <2> QED
    BY <2>1 DEF Init, CaptureInv
<1>5. TailInv
  BY DEF Init, TailInv
<1>6. ASSUME NEW v \in Viewers PROVE ViewerInv(v)
  <2>1. /\ shown[v] = <<>> /\ conn[v] = <<>> /\ replay[v] = <<>> /\ chan[v] = <<>>
        /\ handler[v] = "none" /\ view[v] = "poll" /\ ~open[v] /\ subs = {}
    BY DEF Init
  <2>2. Ordered(<<>>, <<>>, <<>>, <<>>) /\ Way(<<>>, <<>>, <<>>, <<>>) = {}
    BY WayBegin, NothingCarried
  <2>3. OnItsWay(v) = {}
    BY <2>1, <2>2 DEF OnItsWay
  <2>4. OrderInv(v)
    BY <2>1, <2>2, <2>3 DEF OrderInv
  <2>5. PlaceInv(v) /\ CoverInv(v)
    BY <2>1 DEF PlaceInv, CoverInv
  <2> QED
    BY <2>4, <2>5 DEF ViewerInv
<1> QED
  BY <1>1, <1>2, <1>3, <1>4, <1>5, <1>6 DEF IInv

\* A step of something else.
LEMMA StutterIInv == ASSUME IInv, UNCHANGED vars PROVE IInv'
<1>1. UNCHANGED <<row, child, written, input, typed, read, pty, capture, tail, closed, subs, chan,
                  log, held, exit, faults, handler, replay, conn, open, view, pump, shown, from,
                  dropped>>
  BY DEF vars, childVars, bcast, files, server, client
<1>2. ViewerTypeOK' /\ \A v \in Viewers : ViewerInv(v)'
  BY <1>1, QuietViewers
<1>3. ChildTypeOK' /\ CaptureTypeOK' /\ CaptureInv' /\ TailInv'
  BY <1>1 DEF IInv, ChildTypeOK, CaptureTypeOK, CaptureInv, TailInv
<1> QED
  BY <1>2, <1>3 DEF IInv

\* Every step preserves the invariant.
LEMMA NextIInv == IInv /\ [Next]_vars => IInv'
<1> SUFFICES ASSUME IInv, [Next]_vars PROVE IInv'
  OBVIOUS
<1>1. CASE Supervise \/ Terminal \/ ReadInput \/ Killed \/ Reap \/ PostExit
  BY <1>1, ChildInvStep DEF Supervise, Terminal
<1>2. CASE Broadcast
  BY <1>2, BroadcastInv
<1>3. CASE CloseBroadcast
  BY <1>3, CloseBroadcastInv
<1>4. CASE Persist \/ PersistFails \/ Drained \/ CloseLog
  BY <1>4, PersistInv
<1>5. ASSUME NEW v \in Viewers, Handle(v) PROVE IInv'
  BY <1>5, LookInv, SubscribeInv, SendTailInv, SendChunkInv, EndStreamInv DEF Handle
<1>6. ASSUME NEW v \in Viewers, Client(v) \/ Pump(v) \/ Detach(v) \/ Type(v) PROVE IInv'
  BY <1>6, PollTypeInv, AttachInv, ReceiveInv, LeaveInv DEF Client, Pump
<1>7. CASE UNCHANGED vars
  BY <1>7, StutterIInv
<1> QED
  BY <1>1, <1>2, <1>3, <1>4, <1>5, <1>6, <1>7 DEF Next, Capture

\* What the invariant says of a viewer, ...
LEMMA IInvRendered == IInv => RenderedIsTheOutput
<1> SUFFICES ASSUME IInv PROVE RenderedIsTheOutput
  OBVIOUS
<1>1. TypeOK
  <2>1. /\ row \in {"PENDING", "RUNNING", "OVER"} /\ child \in {"none", "alive", "dead"}
        /\ read \in 0..written /\ written \in 0..MaxChunks /\ written - read <= TermCap
        /\ input \in 0..InputCap /\ typed \in 0..MaxTyped
    BY InteractiveAssumption DEF IInv, ChildTypeOK
  <2>2. /\ pty \in BOOLEAN /\ faults \in 0..MaxFaults
        /\ capture \in {"none", "copy", "log", "close", "flush", "reap"}
        /\ Len(tail) <= MaxTail /\ closed \in BOOLEAN /\ subs \subseteq Viewers
    BY DEF IInv, CaptureTypeOK
  <2>3. \A v \in Viewers :
          /\ Len(chan[v]) <= SubCap /\ Len(conn[v]) <= ConnCap
          /\ handler[v] \in {"none", "look", "subscribe", "tail", "stream", "returned"}
          /\ view[v] \in {"poll", "ready", "gone", "attached", "done", "error", "left"}
          /\ open[v] <=> view[v] = "attached"
          /\ pump[v] \in {"off", "reading", "calling"}
          /\ dropped[v] \subseteq Chunks
    BY DEF IInv, ViewerTypeOK
  <2> QED
    BY <2>1, <2>2, <2>3 DEF TypeOK
<1>2. RenderedInOrder
  BY DEF IInv, ViewerInv, OrderInv, Ordered, Increasing, RenderedInOrder
<1>3. ASSUME NEW v \in Viewers, view[v] = "done"
      PROVE  {c \in from[v]..read : c \notin dropped[v]} \subseteq Rendered(v)
  <2>1. PlaceInv(v) /\ Covered(v) /\ handler[v] = "returned" /\ ~open[v]
    BY <1>3 DEF IInv, ViewerInv, CoverInv
  <2>2. conn[v] = <<>> /\ replay[v] = <<>> /\ chan[v] = <<>>
    BY <2>1 DEF PlaceInv
  <2>3. OnItsWay(v) = El(shown[v])
    BY <2>2, NothingCarried DEF OnItsWay, Way
  <2>4. El(shown[v]) = Rendered(v)
    BY DEF El, Rendered
  <2> QED
    BY <2>1, <2>3, <2>4 DEF Covered
<1>4. EndedSeesTheRest
  BY <1>3 DEF EndedSeesTheRest
<1> QED
  BY <1>1, <1>2, <1>4 DEF RenderedIsTheOutput

\* ... of the exit: all that was read is in the file, and all was read.
LEMMA IInvExit == IInv => ExitSeesWholeLog
<1> SUFFICES ASSUME IInv, exit # <<>>, faults = 0 PROVE exit = <<Count(written)>>
  BY DEF ExitSeesWholeLog, Count
<1>1. exit = <<log>> /\ capture = "reap" /\ held = <<>>
  BY DEF IInv, CaptureInv
<1>2. log \o held = Count(read) /\ read = written
  BY <1>1 DEF IInv, CaptureInv
<1>3. log \in Seq(Nat)
  BY DEF IInv, CaptureTypeOK
<1>4. log \o held = log
  BY <1>1, <1>3
<1> QED
  BY <1>1, <1>2, <1>4

\* In every behaviour a viewer renders the output in order and without
\* repetition, and one whose stream ended normally has rendered all of it from
\* its tail on except what found its buffer full.
THEOREM EveryViewerSeesTheOutput == Spec => []RenderedIsTheOutput
<1>1. IInv => RenderedIsTheOutput
  BY IInvRendered
<1> QED
  BY <1>1, InitIInv, NextIInv, PTL DEF Spec

\* Unless the log file could not be written, the exit that the supervisor
\* handles has the log of everything the child wrote.
THEOREM ExitAlwaysSeesWholeLog == Spec => []ExitSeesWholeLog
<1>1. IInv => ExitSeesWholeLog
  BY IInvExit
<1> QED
  BY <1>1, InitIInv, NextIInv, PTL DEF Spec
=============================================================================
