--------------------------- MODULE CreationProofs ---------------------------
(***************************************************************************)
(* Proofs about Creation, for any number of clients, any providers and     *)
(* rules, any files, environments and command lines, and any bounds.       *)
(*                                                                         *)
(* The invariant IInv has what the actions rely on and the properties do   *)
(* not say: that a row is the plan of its create, which is what the layers *)
(* its daemon has seen resolve to (RowInv, ResolveInv), so that a runtime  *)
(* can only run that plan, from its create as from a recovery, whatever the*)
(* files have become meanwhile (SnapshotInv); that only a create between   *)
(* its insert and its runtime has a row nobody runs, so that a crash or a  *)
(* recovery at any step leaves none behind (RuntimeInv); that a create     *)
(* claims its name from its check on, so that two that overlap there are   *)
(* the only ones that can share one (NamesInv); and that what a config set *)
(* has read is still what the file says when it is renamed (FileInv).      *)
(*                                                                         *)
(* How a Task is classified needs no state but its rules: the engine is the*)
(* merged rules in the order of priority, each in the place docs/          *)
(* detection.md gives it (a slot), so that its first match is the slot that*)
(* wins.                                                                   *)
(***************************************************************************)
EXTENDS Creation, FiniteSetTheorems, SequenceTheorems, TLAPS

-----------------------------------------------------------------------------
(* Detection: the order of rules, and what a merge of them keeps.          *)

\* A strict total order on S.
Orders(before, S) ==
  /\ \A i \in S : <<i, i>> \notin before
  /\ \A i, j \in S : i # j => <<i, j>> \in before \/ <<j, i>> \in before
  /\ \A i, j, k \in S : <<i, j>> \in before /\ <<j, k>> \in before => <<i, k>> \in before

(* InOrder lists a finite set once each, in the order.                     *)
LEMMA InOrderSorts ==
  ASSUME NEW S, IsFiniteSet(S), NEW before, Orders(before, S)
  PROVE  /\ Cardinality(S) \in Nat
         /\ \A k \in 1..Cardinality(S) : InOrder(S, before)[k] \in S
         /\ \A j \in S : \E k \in 1..Cardinality(S) : InOrder(S, before)[k] = j
         /\ \A k, l \in 1..Cardinality(S) :
              k < l => <<InOrder(S, before)[k], InOrder(S, before)[l]>> \in before
<1> DEFINE n == Cardinality(S)
           Below(j) == {i \in S : <<i, j>> \in before}
           rank == [j \in S |-> Cardinality(Below(j))]
           o == InOrder(S, before)
<1>n. n \in Nat
  BY FS_CardinalityType
<1>1. \A j \in S : IsFiniteSet(Below(j)) /\ Cardinality(Below(j)) \in Nat
  <2> SUFFICES ASSUME NEW j \in S
               PROVE  IsFiniteSet(Below(j)) /\ Cardinality(Below(j)) \in Nat
    OBVIOUS
  <2>1. Below(j) \in SUBSET S
    OBVIOUS
  <2> HIDE DEF Below
  <2> QED BY <2>1, FS_Subset, FS_CardinalityType
<1>2. ASSUME NEW i \in S, NEW j \in S, <<i, j>> \in before
      PROVE  Cardinality(Below(i)) < Cardinality(Below(j))
  <2>1. Below(i) \in SUBSET Below(j) /\ i \in Below(j) /\ i \notin Below(i)
    BY <1>2 DEF Orders
  <2>2. IsFiniteSet(Below(j))
    BY <1>1
  <2>3. Cardinality(Below(i)) \in Nat /\ Cardinality(Below(j)) \in Nat
    BY <1>1
  <2> HIDE DEF Below
  <2>4. Cardinality(Below(i)) <= Cardinality(Below(j))
    BY <2>1, <2>2, FS_Subset
  <2>5. Cardinality(Below(i)) # Cardinality(Below(j))
    BY <2>1, <2>2, FS_Subset
  <2> QED BY <2>3, <2>4, <2>5
<1>3. \A j \in S : rank[j] \in 0..n - 1
  <2> SUFFICES ASSUME NEW j \in S PROVE Cardinality(Below(j)) \in 0..n - 1
    OBVIOUS
  <2>1. Below(j) \in SUBSET S /\ j \notin Below(j)
    BY DEF Orders
  <2>2. Cardinality(Below(j)) \in Nat
    BY <1>1
  <2> HIDE DEF Below
  <2>3. Cardinality(Below(j)) <= n
    BY <2>1, FS_Subset
  <2>4. Cardinality(Below(j)) # n
    BY <2>1, FS_Subset
  <2> QED BY <1>n, <2>2, <2>3, <2>4
<1>4. \A i, j \in S : i # j => rank[i] # rank[j]
  <2> SUFFICES ASSUME NEW i \in S, NEW j \in S, i # j PROVE rank[i] # rank[j]
    OBVIOUS
  <2>1. Cardinality(Below(i)) \in Nat /\ Cardinality(Below(j)) \in Nat
    BY <1>1
  <2>2. CASE <<i, j>> \in before
    <3>1. Cardinality(Below(i)) < Cardinality(Below(j))
      BY <1>2, <2>2
    <3> HIDE DEF Below
    <3> QED BY <3>1, <2>1
  <2>3. CASE <<j, i>> \in before
    <3>1. Cardinality(Below(j)) < Cardinality(Below(i))
      BY <1>2, <2>3
    <3> HIDE DEF Below
    <3> QED BY <3>1, <2>1
  <2> QED BY <2>2, <2>3 DEF Orders
<1>5. \A k \in 1..n : \E j \in S : rank[j] = k - 1
  <2>1. rank \in Injection(S, 0..n - 1)
    <3>1. rank \in [S -> 0..n - 1]
      BY <1>3
    <3> HIDE DEF rank
    <3> QED BY <1>4, <3>1 DEF Injection, IsInjective
  <2>2. IsFiniteSet(0..n - 1) /\ Cardinality(0..n - 1) = n
    BY <1>n, FS_Interval
  <2>3. rank \in Surjection(S, 0..n - 1)
    <3> HIDE DEF rank
    <3> QED BY <2>1, <2>2, FS_Injection
  <2> HIDE DEF rank
  <2> QED BY <1>n, <2>3 DEF Surjection
<1>6. \A k \in 1..n : o[k] \in S /\ Cardinality(Below(o[k])) = k - 1
  <2> SUFFICES ASSUME NEW k \in 1..n
               PROVE  o[k] \in S /\ Cardinality(Below(o[k])) = k - 1
    OBVIOUS
  <2>1. PICK j \in S : Cardinality(Below(j)) = k - 1
    BY <1>5
  <2>2. o[k] = CHOOSE i \in S : Cardinality(Below(i)) = k - 1
    BY DEF InOrder
  <2> HIDE DEF Below, o
  <2> QED BY <2>1, <2>2
<1>7. \A j \in S : \E k \in 1..n : o[k] = j
  <2> SUFFICES ASSUME NEW j \in S PROVE \E k \in 1..n : o[k] = j
    OBVIOUS
  <2>1. rank[j] + 1 \in 1..n
    BY <1>n, <1>3
  <2>2. PICK k \in 1..n : k = rank[j] + 1
    BY <2>1
  <2>3. o[k] \in S /\ rank[o[k]] = rank[j]
    <3> HIDE DEF o
    <3>1. o[k] \in S /\ rank[o[k]] = k - 1
      BY <1>6
    <3> HIDE DEF rank
    <3> QED BY <3>1, <2>2, <1>3
  <2> HIDE DEF rank, o
  <2> QED BY <2>3, <1>4
<1>8. ASSUME NEW k \in 1..n, NEW l \in 1..n, k < l
      PROVE  <<o[k], o[l]>> \in before
  <2> HIDE DEF o
  <2>1. /\ o[k] \in S /\ Cardinality(Below(o[k])) = k - 1
        /\ o[l] \in S /\ Cardinality(Below(o[l])) = l - 1
    BY <1>6
  <2>2. o[k] # o[l]
    <3> HIDE DEF Below
    <3>1. k - 1 # l - 1
      BY <1>8, <1>n
    <3> QED BY <2>1, <3>1
  <2>3. ~(<<o[l], o[k]>> \in before)
    <3> SUFFICES ASSUME <<o[l], o[k]>> \in before PROVE FALSE
      OBVIOUS
    <3>1. Cardinality(Below(o[l])) < Cardinality(Below(o[k]))
      BY <1>2, <2>1
    <3> HIDE DEF Below
    <3> QED BY <3>1, <2>1, <1>8, <1>n
  <2> QED BY <2>1, <2>2, <2>3 DEF Orders
<1> QED
  <2>1. \A k \in 1..n : o[k] \in S
    BY <1>6
  <2> HIDE DEF Below, rank
  <2> QED BY <1>n, <2>1, <1>7, <1>8

(* In ascending order a place is its own number.                           *)
LEMMA InOrderOfNumbers ==
  ASSUME NEW n \in Nat, NEW k \in 1..n
  PROVE  Cardinality(1..n) = n /\ InOrder(1..n, Ascending(1..n))[k] = k
<1>1. \A j \in 1..n : {i \in 1..n : <<i, j>> \in Ascending(1..n)} = 1..j - 1
  BY DEF Ascending
<1>2. \A j \in 1..n : Cardinality(1..j - 1) = j - 1
  BY FS_Interval
<1>3. \A j \in 1..n : Cardinality({i \in 1..n : <<i, j>> \in Ascending(1..n)}) = j - 1
  BY <1>1, <1>2
<1>4. Cardinality(1..n) = n
  BY FS_Interval
<1>5. InOrder(1..n, Ascending(1..n))[k]
        = CHOOSE j \in 1..n : Cardinality({i \in 1..n : <<i, j>> \in Ascending(1..n)}) = k - 1
  BY <1>4 DEF InOrder
<1> DEFINE rank(j) == Cardinality({i \in 1..n : <<i, j>> \in Ascending(1..n)})
<1>6. \A j \in 1..n : rank(j) = j - 1
  BY <1>3
<1>7. InOrder(1..n, Ascending(1..n))[k] = CHOOSE j \in 1..n : rank(j) = k - 1
  BY <1>5
<1> HIDE DEF rank
<1> QED BY <1>4, <1>6, <1>7

(* Places and priorities can be compared.                                  *)
LEMMA PrioritiesAreNumbers ==
  ASSUME NEW rules \in Seq(Rule)
  PROVE  \A i \in DOMAIN rules : i \in Int /\ rules[i].priority \in Int
<1>1. \A i \in DOMAIN rules : i \in Int /\ rules[i] \in Rule
  OBVIOUS
<1>2. \A r \in Rule : r.priority \in Int
  BY DEF Rule
<1> QED BY <1>1, <1>2

(* Priority, then place, is a total order of the rules.                    *)
LEMMA PriorityOrders ==
  ASSUME NEW rules \in Seq(Rule)
  PROVE  Orders(PriorityOrder(rules), DOMAIN rules)
<1>1. \A i, j \in DOMAIN rules :
        <<i, j>> \in PriorityOrder(rules) <=> GoesBefore(rules, i, j)
  BY DEF PriorityOrder
<1>2. \A i \in DOMAIN rules : i \in Int /\ rules[i].priority \in Int
  BY PrioritiesAreNumbers
<1> QED BY <1>1, <1>2 DEF Orders, GoesBefore

(* ByPriority permutes its rules, and sorts them.                          *)
LEMMA ByPrioritySorts ==
  ASSUME NEW rules \in Seq(Rule)
  PROVE  /\ ByPriority(rules) \in Seq(Rule)
         /\ DOMAIN ByPriority(rules) = DOMAIN rules
         /\ \E o \in [DOMAIN rules -> DOMAIN rules] :
              /\ \A k \in DOMAIN rules : ByPriority(rules)[k] = rules[o[k]]
              /\ \A j \in DOMAIN rules : \E k \in DOMAIN rules : o[k] = j
              /\ \A k, l \in DOMAIN rules : k < l => GoesBefore(rules, o[k], o[l])
<1> DEFINE n == Len(rules)
           o == InOrder(1..n, PriorityOrder(rules))
<1>1. n \in Nat /\ DOMAIN rules = 1..n
  OBVIOUS
<1>2. IsFiniteSet(1..n) /\ Cardinality(1..n) = n
  BY <1>1, FS_Interval
<1>3. Orders(PriorityOrder(rules), 1..n)
  BY <1>1, PriorityOrders
<1>4. /\ \A k \in 1..n : o[k] \in 1..n
      /\ \A j \in 1..n : \E k \in 1..n : o[k] = j
      /\ \A k, l \in 1..n : k < l => <<o[k], o[l]>> \in PriorityOrder(rules)
  <2> DEFINE S == 1..n  before == PriorityOrder(rules)
  <2>1. IsFiniteSet(S) /\ Orders(before, S) /\ Cardinality(S) = n
    BY <1>2, <1>3
  <2>2. o = InOrder(S, before)
    OBVIOUS
  <2>3. /\ \A k \in 1..n : o[k] \in S
        /\ \A j \in S : \E k \in 1..n : o[k] = j
        /\ \A k, l \in 1..n : k < l => <<o[k], o[l]>> \in before
    <3> HIDE DEF S, before, o, n
    <3> QED BY <2>1, <2>2, InOrderSorts
  <2> QED BY <2>3
<1>5. ByPriority(rules) = [k \in 1..n |-> rules[o[k]]]
  BY <1>1 DEF ByPriority
<1>7. \A k, l \in 1..n : k < l => GoesBefore(rules, o[k], o[l])
  <2> HIDE DEF o
  <2> QED BY <1>4 DEF PriorityOrder
<1> HIDE DEF o
<1> DEFINE place == [k \in 1..n |-> o[k]]
<1>8. place \in [1..n -> 1..n]
  BY <1>4
<1>9. ByPriority(rules) \in Seq(Rule) /\ DOMAIN ByPriority(rules) = 1..n
  <2>1. \A k \in 1..n : rules[o[k]] \in Rule
    BY <1>1, <1>4
  <2> QED BY <1>1, <1>5, <2>1
<1>10. /\ \A k \in 1..n : ByPriority(rules)[k] = rules[place[k]]
       /\ \A j \in 1..n : \E k \in 1..n : place[k] = j
       /\ \A k, l \in 1..n : k < l => GoesBefore(rules, place[k], place[l])
  BY <1>4, <1>5, <1>7
<1> HIDE DEF n, place
<1> QED BY <1>1, <1>8, <1>9, <1>10

(* The sorted rules descend in priority.                                   *)
LEMMA ByPriorityIsSorted ==
  ASSUME NEW rules \in Seq(Rule)
  PROVE  \A k, l \in DOMAIN ByPriority(rules) :
           k < l => ByPriority(rules)[k].priority >= ByPriority(rules)[l].priority
<1> DEFINE e == ByPriority(rules)
<1>1. PICK o \in [DOMAIN rules -> DOMAIN rules] :
        /\ DOMAIN e = DOMAIN rules
        /\ \A k \in DOMAIN rules : e[k] = rules[o[k]]
        /\ \A k, l \in DOMAIN rules : k < l => GoesBefore(rules, o[k], o[l])
  BY ByPrioritySorts
<1>2. \A i \in DOMAIN rules : rules[i].priority \in Int
  BY PrioritiesAreNumbers
<1> HIDE DEF e
<1> QED
  <2> SUFFICES ASSUME NEW k \in DOMAIN rules, NEW l \in DOMAIN rules, k < l
               PROVE  e[k].priority >= e[l].priority
    BY <1>1 DEF e
  <2>1. o[k] \in DOMAIN rules /\ o[l] \in DOMAIN rules
    OBVIOUS
  <2>2. GoesBefore(rules, o[k], o[l])
    BY <1>1
  <2> QED BY <1>1, <1>2, <2>1, <2>2 DEF GoesBefore

(* What Merge has sorted NewEngine leaves as it is.                        *)
LEMMA SortedStaysSorted ==
  ASSUME NEW rules \in Seq(Rule)
  PROVE  ByPriority(ByPriority(rules)) = ByPriority(rules)
<1> DEFINE e == ByPriority(rules)
           n == Len(e)
<1>1. e \in Seq(Rule)
  BY ByPrioritySorts
<1>2. \A k, l \in DOMAIN e : k < l => e[k].priority >= e[l].priority
  BY ByPriorityIsSorted
<1> HIDE DEF e
<1>3. n \in Nat /\ DOMAIN e = 1..n
  BY <1>1
<1>4. \A i \in 1..n : e[i].priority \in Int
  BY <1>1, <1>3, PrioritiesAreNumbers
<1>5. PriorityOrder(e) = Ascending(1..n)
  <2>1. \A i, j \in 1..n : GoesBefore(e, i, j) <=> i < j
    BY <1>2, <1>3, <1>4 DEF GoesBefore
  <2> HIDE DEF n
  <2>2. \A p : p \in PriorityOrder(e) <=> p \in Ascending(1..n)
    BY <1>3, <2>1 DEF PriorityOrder, Ascending
  <2> QED BY <2>2
<1>6. ByPriority(e) = [k \in 1..n |-> e[InOrder(1..n, Ascending(1..n))[k]]]
  BY <1>3, <1>5 DEF ByPriority
<1>7. \A k \in 1..n : InOrder(1..n, Ascending(1..n))[k] = k
  <2> HIDE DEF n
  <2> QED BY <1>3, InOrderOfNumbers
<1> DEFINE o == InOrder(1..n, Ascending(1..n))
<1>8. ByPriority(e) = [k \in 1..n |-> e[o[k]]]
  BY <1>6
<1>9. \A k \in 1..n : o[k] = k
  BY <1>7
<1> HIDE DEF o, n
<1>10. ByPriority(e) = [k \in 1..n |-> e[k]]
  BY <1>8, <1>9
<1>11. e = [k \in 1..n |-> e[k]]
  BY <1>1, <1>3
<1> QED BY <1>10, <1>11 DEF e

(* < orders every set of numbers.                                          *)
LEMMA AscendingOrders ==
  ASSUME NEW S \in SUBSET Int
  PROVE  Orders(Ascending(S), S)
<1>1. \A i, j \in S : <<i, j>> \in Ascending(S) <=> i < j
  BY DEF Ascending
<1>2. \A i \in S : i \in Int
  OBVIOUS
<1> QED BY <1>1, <1>2 DEF Orders

(* A set of numbers that is finite and not empty has a least and a greatest.*)
LEMMA LeastAndGreatest ==
  ASSUME NEW S \in SUBSET Int, IsFiniteSet(S), S # {}
  PROVE  /\ \E m \in S : \A i \in S : m <= i
         /\ \E m \in S : \A i \in S : i <= m
<1> DEFINE o == InOrder(S, Ascending(S))
           n == Cardinality(S)
<1>1. /\ n \in Nat
      /\ \A k \in 1..n : o[k] \in S
      /\ \A j \in S : \E k \in 1..n : o[k] = j
      /\ \A k, l \in 1..n : k < l => <<o[k], o[l]>> \in Ascending(S)
  BY AscendingOrders, InOrderSorts
<1>2. n # 0
  BY FS_EmptySet
<1> HIDE DEF o, n
<1>3. \A k, l \in 1..n : k <= l => o[k] <= o[l]
  <2> SUFFICES ASSUME NEW k \in 1..n, NEW l \in 1..n, k <= l PROVE o[k] <= o[l]
    OBVIOUS
  <2>1. o[k] \in Int /\ o[l] \in Int
    BY <1>1
  <2>2. CASE k = l
    BY <2>1, <2>2
  <2>3. CASE k < l
    <3>1. <<o[k], o[l]>> \in Ascending(S)
      BY <1>1, <2>3
    <3> QED BY <2>1, <3>1 DEF Ascending
  <2> QED BY <1>1, <2>2, <2>3
<1>4. 1 \in 1..n /\ n \in 1..n
  BY <1>1, <1>2
<1>5. \A i \in S : o[1] <= i /\ i <= o[n]
  <2> SUFFICES ASSUME NEW i \in S PROVE o[1] <= i /\ i <= o[n]
    OBVIOUS
  <2>1. PICK k \in 1..n : o[k] = i
    BY <1>1
  <2>2. 1 <= k /\ k <= n
    BY <1>1
  <2> QED BY <1>3, <1>4, <2>1, <2>2
<1> QED BY <1>1, <1>4, <1>5

(* LastNamed is the last rule of its name.                                 *)
LEMMA LastNamedIsLast ==
  ASSUME NEW rules \in Seq(Rule), NEW name \in Names(rules)
  PROVE  \E i \in DOMAIN rules :
           /\ LastNamed(rules, name) = rules[i]
           /\ rules[i].name = name
           /\ \A j \in DOMAIN rules : rules[j].name = name => j <= i
<1> DEFINE S == {i \in DOMAIN rules : rules[i].name = name}
<1>1. S \in SUBSET Int /\ S # {}
  BY DEF Names
<1>2. IsFiniteSet(S)
  <2>1. DOMAIN rules = 1..Len(rules) /\ Len(rules) \in Nat
    OBVIOUS
  <2>2. IsFiniteSet(1..Len(rules))
    BY <2>1, FS_Interval
  <2>3. S \in SUBSET (1..Len(rules))
    BY <2>1
  <2> HIDE DEF S
  <2> QED BY <2>2, <2>3, FS_Subset
<1>3. PICK m \in S : \A i \in S : i <= m
  <2> HIDE DEF S
  <2> QED BY <1>1, <1>2, LeastAndGreatest
<1> DEFINE Last(i) == rules[i].name = name /\ \A j \in DOMAIN rules : rules[j].name = name => j <= i
<1>4. m \in DOMAIN rules /\ Last(m)
  BY <1>3
<1>5. LastNamed(rules, name) = rules[CHOOSE i \in DOMAIN rules : Last(i)]
  BY DEF LastNamed
<1> DEFINE last == CHOOSE i \in DOMAIN rules : Last(i)
<1>6. last \in DOMAIN rules /\ Last(last)
  <2> HIDE DEF Last
  <2> QED BY <1>4
<1> HIDE DEF last
<1>7. LastNamed(rules, name) = rules[last]
  BY <1>5 DEF last
<1> QED BY <1>6, <1>7

(* The user's rules of new names, in their order.                          *)
LEMMA AddedInOrder ==
  ASSUME NEW builtin \in Seq(Rule), NEW user \in Seq(Rule)
  PROVE  \E o \in [DOMAIN Added(builtin, user) -> AddedPlaces(builtin, user)] :
           /\ Added(builtin, user) \in Seq(Rule)
           /\ \A k \in DOMAIN Added(builtin, user) : Added(builtin, user)[k] = user[o[k]]
           /\ \A j \in AddedPlaces(builtin, user) :
                \E k \in DOMAIN Added(builtin, user) : o[k] = j
           /\ \A k, l \in DOMAIN Added(builtin, user) : k < l => o[k] < o[l]
<1> DEFINE S == AddedPlaces(builtin, user)
           o == InOrder(S, Ascending(S))
           n == Cardinality(S)
<1>1. S \subseteq DOMAIN user /\ S \in SUBSET Int
  BY DEF AddedPlaces
<1>2. IsFiniteSet(S)
  <2>1. DOMAIN user = 1..Len(user) /\ Len(user) \in Nat
    OBVIOUS
  <2>2. IsFiniteSet(1..Len(user))
    BY <2>1, FS_Interval
  <2> HIDE DEF S
  <2> QED BY <1>1, <2>1, <2>2, FS_Subset
<1>3. Added(builtin, user) = [k \in 1..n |-> user[o[k]]]
  BY DEF Added
<1> HIDE DEF S
<1>4. /\ n \in Nat
      /\ \A k \in 1..n : o[k] \in S
      /\ \A j \in S : \E k \in 1..n : o[k] = j
      /\ \A k, l \in 1..n : k < l => <<o[k], o[l]>> \in Ascending(S)
  BY <1>1, <1>2, AscendingOrders, InOrderSorts
<1> HIDE DEF o, n
<1>5. \A k, l \in 1..n : k < l => o[k] < o[l]
  BY <1>4 DEF Ascending
<1> DEFINE place == [k \in 1..n |-> o[k]]
<1>6. DOMAIN Added(builtin, user) = 1..n
  BY <1>3
<1>7. place \in [1..n -> S]
  BY <1>4
<1>8. Added(builtin, user) \in Seq(Rule)
  <2>1. \A k \in 1..n : user[o[k]] \in Rule
    BY <1>1, <1>4
  <2> QED BY <1>3, <1>4, <2>1
<1>9. /\ \A k \in 1..n : Added(builtin, user)[k] = user[place[k]]
      /\ \A j \in S : \E k \in 1..n : place[k] = j
      /\ \A k, l \in 1..n : k < l => place[k] < place[l]
  BY <1>3, <1>4, <1>5
<1> HIDE DEF place
<1> QED BY <1>6, <1>7, <1>8, <1>9 DEF S

(* A built-in's place holds it or the last user rule of its name.          *)
LEMMA ReplacedRules ==
  ASSUME NEW builtin \in Seq(Rule), NEW user \in Seq(Rule)
  PROVE  /\ Replaced(builtin, user) \in Seq(Rule)
         /\ DOMAIN Replaced(builtin, user) = DOMAIN builtin
         /\ \A i \in DOMAIN builtin :
              \/ /\ builtin[i].name \notin Names(user)
                 /\ Replaced(builtin, user)[i] = builtin[i]
              \/ \E j \in DOMAIN user :
                   /\ Replaced(builtin, user)[i] = user[j]
                   /\ user[j].name = builtin[i].name
                   /\ \A l \in DOMAIN user : user[l].name = builtin[i].name => l <= j
<1> DEFINE r == Replaced(builtin, user)
<1>1. \A i \in DOMAIN builtin :
        r[i] = IF builtin[i].name \in Names(user)
               THEN LastNamed(user, builtin[i].name) ELSE builtin[i]
  BY DEF Replaced
<1>2. r = [i \in 1..Len(builtin) |-> r[i]] /\ DOMAIN r = DOMAIN builtin
  BY DEF Replaced
<1> HIDE DEF r
<1>3. \A i \in DOMAIN builtin :
        \/ builtin[i].name \notin Names(user) /\ r[i] = builtin[i]
        \/ \E j \in DOMAIN user :
             /\ r[i] = user[j] /\ user[j].name = builtin[i].name
             /\ \A l \in DOMAIN user : user[l].name = builtin[i].name => l <= j
  <2> SUFFICES ASSUME NEW i \in DOMAIN builtin, builtin[i].name \in Names(user)
               PROVE  \E j \in DOMAIN user :
                        /\ r[i] = user[j] /\ user[j].name = builtin[i].name
                        /\ \A l \in DOMAIN user : user[l].name = builtin[i].name => l <= j
    BY <1>1
  <2> DEFINE name == builtin[i].name
  <2>1. name \in Names(user) /\ r[i] = LastNamed(user, name)
    BY <1>1
  <2> HIDE DEF name
  <2>2. PICK j \in DOMAIN user :
          /\ LastNamed(user, name) = user[j] /\ user[j].name = name
          /\ \A l \in DOMAIN user : user[l].name = name => l <= j
    BY <2>1, LastNamedIsLast
  <2> QED BY <2>1, <2>2 DEF name
<1>4. \A i \in 1..Len(builtin) : r[i] \in Rule
  <2> SUFFICES ASSUME NEW i \in DOMAIN builtin PROVE r[i] \in Rule
    OBVIOUS
  <2>1. builtin[i] \in Rule /\ \A j \in DOMAIN user : user[j] \in Rule
    OBVIOUS
  <2> QED BY <1>3, <2>1
<1>5. r \in Seq(Rule)
  BY <1>2, <1>4
<1> QED BY <1>2, <1>3, <1>5 DEF r

(* The rules before the sort: those in the places of the built-ins, then   *)
(* the added ones.                                                         *)
LEMMA MergedRules ==
  ASSUME NEW builtin \in Seq(Rule), NEW user \in Seq(Rule)
  PROVE  LET merged == Replaced(builtin, user) \o Added(builtin, user)
         IN /\ merged \in Seq(Rule)
            /\ DOMAIN merged = 1..Len(builtin) + Len(Added(builtin, user))
            /\ Len(builtin) \in Nat /\ Len(Added(builtin, user)) \in Nat
            /\ \A i \in DOMAIN merged :
                 merged[i] = IF i <= Len(builtin) THEN Replaced(builtin, user)[i]
                             ELSE Added(builtin, user)[i - Len(builtin)]
<1> DEFINE r == Replaced(builtin, user)
           a == Added(builtin, user)
<1>1. r \in Seq(Rule) /\ DOMAIN r = DOMAIN builtin
  BY ReplacedRules
<1>2. a \in Seq(Rule)
  BY AddedInOrder
<1> HIDE DEF r, a
<1>3. Len(r) = Len(builtin)
  BY <1>1
<1>4. r \o a \in Seq(Rule) /\ Len(r \o a) = Len(r) + Len(a)
  BY <1>1, <1>2
<1>5. \A i \in 1..Len(r) + Len(a) : (r \o a)[i] = IF i <= Len(r) THEN r[i] ELSE a[i - Len(r)]
  BY <1>1, <1>2
<1>6. DOMAIN (r \o a) = 1..Len(r) + Len(a)
  BY <1>4
<1> QED
  BY <1>2, <1>3, <1>4, <1>5, <1>6 DEF r, a

(* A merge of valid rules is valid, and sorted for NewEngine.              *)
LEMMA MergeKeepsRules ==
  ASSUME NEW builtin \in Seq(Rule), NEW user \in Seq(Rule),
         EngineAccepts(builtin), EngineAccepts(user)
  PROVE  /\ Merge(builtin, user) \in Seq(Rule)
         /\ EngineAccepts(Merge(builtin, user))
         /\ NewEngine(Merge(builtin, user)) = Merge(builtin, user)
<1> DEFINE r == Replaced(builtin, user)
           a == Added(builtin, user)
           merged == r \o a
<1>1. r \in Seq(Rule) /\ EngineAccepts(r)
  <2>1. \A i \in DOMAIN r : \/ r[i] = builtin[i] /\ i \in DOMAIN builtin
                            \/ \E j \in DOMAIN user : r[i] = user[j]
    BY ReplacedRules
  <2>2. r \in Seq(Rule)
    BY ReplacedRules
  <2> HIDE DEF r
  <2> QED BY <2>1, <2>2 DEF EngineAccepts
<1>2. a \in Seq(Rule) /\ EngineAccepts(a)
  <2>1. \A k \in DOMAIN a : \E j \in DOMAIN user : a[k] = user[j]
    <3>1. PICK o \in [DOMAIN a -> AddedPlaces(builtin, user)] :
            \A k \in DOMAIN a : a[k] = user[o[k]]
      BY AddedInOrder
    <3>2. AddedPlaces(builtin, user) \subseteq DOMAIN user
      BY DEF AddedPlaces
    <3> HIDE DEF a
    <3> QED BY <3>1, <3>2
  <2>2. a \in Seq(Rule)
    BY AddedInOrder
  <2> HIDE DEF a
  <2> QED BY <2>1, <2>2 DEF EngineAccepts
<1> HIDE DEF r, a
<1>3. merged \in Seq(Rule)
  BY <1>1, <1>2
<1>4. EngineAccepts(merged)
  <2> SUFFICES ASSUME NEW i \in DOMAIN merged PROVE merged[i].category \in Categories
    BY DEF EngineAccepts
  <2>1. CASE i \in 1..Len(r)
    <3>1. i \in DOMAIN r /\ merged[i] = r[i]
      BY <1>1, <1>2, <2>1
    <3> QED BY <1>1, <3>1 DEF EngineAccepts
  <2>2. CASE i \notin 1..Len(r)
    <3>1. i - Len(r) \in DOMAIN a /\ merged[i] = a[i - Len(r)]
      BY <1>1, <1>2, <2>2
    <3> HIDE DEF merged
    <3> QED BY <1>2, <3>1 DEF EngineAccepts
  <2> QED BY <2>1, <2>2
<1>5. Merge(builtin, user) = ByPriority(merged)
  BY DEF Merge, r, a
<1> HIDE DEF merged
<1>6. ByPriority(merged) \in Seq(Rule) /\ ByPriority(ByPriority(merged)) = ByPriority(merged)
  BY <1>3, ByPrioritySorts, SortedStaysSorted
<1>7. EngineAccepts(ByPriority(merged))
  <2>1. PICK o \in [DOMAIN merged -> DOMAIN merged] :
          /\ DOMAIN ByPriority(merged) = DOMAIN merged
          /\ \A k \in DOMAIN merged : ByPriority(merged)[k] = merged[o[k]]
    BY <1>3, ByPrioritySorts
  <2> QED BY <1>4, <2>1 DEF EngineAccepts
<1> QED BY <1>5, <1>6, <1>7 DEF NewEngine

-----------------------------------------------------------------------------
(* The slots of the documented order are the merged rules, in order, and    *)
(* the first rule of the engine that matches is the slot that wins.        *)

(* No two rules share a name.                                              *)
Distinct(rules) == \A i, j \in DOMAIN rules : rules[i].name = rules[j].name => i = j

(* The merged rules are the slots, in the order of their places.           *)
LEMMA SlotsAreMerged ==
  ASSUME NEW builtin \in Seq(Rule), NEW user \in Seq(Rule), Distinct(builtin)
  PROVE  LET merged == Replaced(builtin, user) \o Added(builtin, user)
         IN \E slot \in [DOMAIN merged -> Nat] :
              /\ \A i, j \in DOMAIN merged : i < j => slot[i] < slot[j]
              /\ \A i \in DOMAIN merged :
                   [slot |-> slot[i], rule |-> merged[i]] \in Slots(builtin, user)
              /\ \A s \in Slots(builtin, user) :
                   \E i \in DOMAIN merged : s = [slot |-> slot[i], rule |-> merged[i]]
<1> DEFINE r == Replaced(builtin, user)
           a == Added(builtin, user)
           merged == r \o a
           n == Len(builtin)
<1>1. /\ n \in Nat /\ Len(a) \in Nat /\ DOMAIN merged = 1..n + Len(a)
      /\ \A i \in DOMAIN merged : merged[i] = IF i <= n THEN r[i] ELSE a[i - n]
  BY MergedRules
<1>2. /\ DOMAIN builtin = 1..n
      /\ \A i \in DOMAIN builtin :
           \/ builtin[i].name \notin Names(user) /\ r[i] = builtin[i]
           \/ \E j \in DOMAIN user :
                /\ r[i] = user[j] /\ user[j].name = builtin[i].name
                /\ \A l \in DOMAIN user : user[l].name = builtin[i].name => l <= j
  BY ReplacedRules
<1>3. PICK o \in [DOMAIN a -> AddedPlaces(builtin, user)] :
        /\ a \in Seq(Rule)
        /\ \A k \in DOMAIN a : a[k] = user[o[k]]
        /\ \A j \in AddedPlaces(builtin, user) : \E k \in DOMAIN a : o[k] = j
        /\ \A k, l \in DOMAIN a : k < l => o[k] < o[l]
  BY AddedInOrder
<1>4. DOMAIN a = 1..Len(a)
  BY <1>3
<1>5. DOMAIN user = 1..Len(user) /\ Len(user) \in Nat
  OBVIOUS
<1> HIDE DEF r, a, merged, n
<1> DEFINE slot == [i \in DOMAIN merged |-> IF i <= n THEN i ELSE n + o[i - n]]
<1>6. \A i \in DOMAIN merged : i > n => i - n \in DOMAIN a
  BY <1>1, <1>4
<1>7. \A k \in DOMAIN a : /\ o[k] \in 1..Len(user)
                          /\ user[o[k]].name \notin Names(builtin)
  BY <1>3, <1>5 DEF AddedPlaces
<1>8. slot \in [DOMAIN merged -> Nat]
  BY <1>1, <1>5, <1>6, <1>7
<1>9. \A i, j \in DOMAIN merged : i < j => slot[i] < slot[j]
  <2> SUFFICES ASSUME NEW i \in DOMAIN merged, NEW j \in DOMAIN merged, i < j
               PROVE  slot[i] < slot[j]
    OBVIOUS
  <2>1. CASE j <= n
    BY <1>1, <2>1
  <2>2. CASE i <= n /\ j > n
    <3>1. slot[i] = i /\ slot[j] = n + o[j - n] /\ o[j - n] \in 1..Len(user)
      BY <1>1, <1>6, <1>7, <2>2
    <3> QED BY <1>1, <1>5, <2>2, <3>1
  <2>3. CASE i > n
    <3>1. /\ slot[i] = n + o[i - n] /\ o[i - n] \in 1..Len(user)
          /\ slot[j] = n + o[j - n] /\ o[j - n] \in 1..Len(user)
      BY <1>1, <1>6, <1>7, <2>3
    <3>2. i - n \in DOMAIN a /\ j - n \in DOMAIN a /\ i - n < j - n
      BY <1>1, <1>6, <2>3
    <3>3. o[i - n] < o[j - n]
      BY <1>3, <3>2
    <3> HIDE DEF slot
    <3> QED BY <1>1, <1>5, <3>1, <3>3
  <2> QED BY <1>1, <2>1, <2>2, <2>3
<1>10. ASSUME NEW i \in DOMAIN merged
       PROVE  [slot |-> slot[i], rule |-> merged[i]] \in Slots(builtin, user)
  <2>1. CASE i <= n
    <3>1. slot[i] = i /\ merged[i] = r[i] /\ i \in DOMAIN builtin
      BY <1>1, <1>2, <2>1
    <3>2. CASE builtin[i].name \notin Names(user) /\ r[i] = builtin[i]
      <4>1. i \in {j \in DOMAIN builtin : builtin[j].name \notin Names(user)}
        BY <3>1, <3>2
      <4> HIDE DEF slot
      <4> QED BY <3>1, <3>2, <4>1 DEF Slots
    <3>3. ASSUME NEW j \in DOMAIN user,
                 r[i] = user[j] /\ user[j].name = builtin[i].name
                 /\ \A l \in DOMAIN user : user[l].name = builtin[i].name => l <= j
          PROVE  [slot |-> slot[i], rule |-> merged[i]] \in Slots(builtin, user)
      <4>1. user[j].name \in Names(builtin)
        BY <3>1, <3>3 DEF Names
      <4>2. \A l \in j + 1..Len(user) : user[l].name # user[j].name
        BY <1>5, <3>3
      <4>3. i = CHOOSE k \in DOMAIN builtin : builtin[k].name = user[j].name
        BY <3>1, <3>3 DEF Distinct
      <4>4. j \in {k \in DOMAIN user :
                    /\ user[k].name \in Names(builtin)
                    /\ \A l \in k + 1..Len(user) : user[l].name # user[k].name}
        BY <4>1, <4>2
      <4> HIDE DEF slot
      <4>5. [slot |-> slot[i], rule |-> merged[i]]
              = [slot |-> CHOOSE k \in DOMAIN builtin : builtin[k].name = user[j].name,
                 rule |-> user[j]]
        BY <3>1, <3>3, <4>3
      <4> QED BY <4>4, <4>5 DEF Slots
    <3> QED BY <1>2, <3>1, <3>2, <3>3
  <2>2. CASE i > n
    <3>1. /\ slot[i] = n + o[i - n] /\ merged[i] = a[i - n] /\ i - n \in DOMAIN a
      BY <1>1, <1>6, <2>2
    <3>2. o[i - n] \in {k \in DOMAIN user : user[k].name \notin Names(builtin)}
      BY <1>5, <1>7, <3>1
    <3>3. merged[i] = user[o[i - n]]
      BY <1>3, <3>1
    <3> HIDE DEF slot
    <3> QED BY <3>1, <3>2, <3>3 DEF Slots, n
  <2> QED BY <1>1, <2>1, <2>2
<1>11. ASSUME NEW s \in Slots(builtin, user)
       PROVE  \E i \in DOMAIN merged : s = [slot |-> slot[i], rule |-> merged[i]]
  <2>1. CASE \E i \in DOMAIN builtin : /\ builtin[i].name \notin Names(user)
                                       /\ s = [slot |-> i, rule |-> builtin[i]]
    <3>1. PICK i \in DOMAIN builtin : /\ builtin[i].name \notin Names(user)
                                      /\ s = [slot |-> i, rule |-> builtin[i]]
      BY <2>1
    <3>2. i \in DOMAIN merged /\ slot[i] = i /\ merged[i] = r[i]
      BY <1>1, <1>2
    <3>3. r[i] = builtin[i]
      BY <1>2, <3>1 DEF Names
    <3> HIDE DEF slot
    <3> QED BY <3>1, <3>2, <3>3
  <2>2. CASE \E j \in DOMAIN user :
               /\ user[j].name \in Names(builtin)
               /\ \A l \in j + 1..Len(user) : user[l].name # user[j].name
               /\ s = [slot |-> CHOOSE i \in DOMAIN builtin : builtin[i].name = user[j].name,
                       rule |-> user[j]]
    <3>1. PICK j \in DOMAIN user :
               /\ user[j].name \in Names(builtin)
               /\ \A l \in j + 1..Len(user) : user[l].name # user[j].name
               /\ s = [slot |-> CHOOSE i \in DOMAIN builtin : builtin[i].name = user[j].name,
                       rule |-> user[j]]
      BY <2>2
    <3>2. PICK i \in DOMAIN builtin : i = CHOOSE k \in DOMAIN builtin : builtin[k].name = user[j].name
      BY <3>1 DEF Names
    <3>3. builtin[i].name = user[j].name
      BY <3>1, <3>2 DEF Names
    <3>4. i \in DOMAIN merged /\ slot[i] = i /\ merged[i] = r[i]
      BY <1>1, <1>2
    <3>5. builtin[i].name \in Names(user)
      BY <3>3 DEF Names
    <3>6. PICK k \in DOMAIN user :
            /\ r[i] = user[k] /\ user[k].name = builtin[i].name
            /\ \A l \in DOMAIN user : user[l].name = builtin[i].name => l <= k
      BY <1>2, <3>5
    <3>7. j <= k
      BY <3>3, <3>6
    <3>8. k \notin j + 1..Len(user)
      BY <3>1, <3>3, <3>6
    <3>9. k = j
      BY <1>5, <3>7, <3>8
    <3> HIDE DEF slot
    <3>10. s = [slot |-> i, rule |-> user[j]]
      BY <3>1, <3>2
    <3> QED BY <3>4, <3>6, <3>9, <3>10
  <2>3. CASE \E j \in DOMAIN user : /\ user[j].name \notin Names(builtin)
                                    /\ s = [slot |-> n + j, rule |-> user[j]]
    <3>1. PICK j \in DOMAIN user : /\ user[j].name \notin Names(builtin)
                                   /\ s = [slot |-> n + j, rule |-> user[j]]
      BY <2>3
    <3>2. PICK k \in DOMAIN a : o[k] = j
      BY <1>3, <3>1 DEF AddedPlaces
    <3>3. n + k \in DOMAIN merged /\ n + k > n /\ (n + k) - n = k
      BY <1>1, <1>4
    <3>4. slot[n + k] = n + j /\ merged[n + k] = a[k]
      BY <1>1, <3>2, <3>3
    <3>5. a[k] = user[j]
      BY <1>3, <3>2
    <3> HIDE DEF slot
    <3> QED BY <3>1, <3>3, <3>4, <3>5
  <2> QED BY <2>1, <2>2, <2>3 DEF Slots, n
<1> HIDE DEF slot
<1> QED BY <1>8, <1>9, <1>10, <1>11 DEF merged, r, a

(* The engine of a Task has the merged rules, sorted.                      *)
LEMMA EngineOrder ==
  ASSUME NEW builtin \in Seq(Rule), NEW user \in Seq(Rule)
  PROVE  LET merged == Replaced(builtin, user) \o Added(builtin, user)
             engine == NewEngine(Merge(builtin, user))
         IN \E o \in [DOMAIN merged -> DOMAIN merged] :
              /\ DOMAIN engine = DOMAIN merged
              /\ \A k \in DOMAIN merged : engine[k] = merged[o[k]]
              /\ \A j \in DOMAIN merged : \E k \in DOMAIN merged : o[k] = j
              /\ \A k, l \in DOMAIN merged : k < l => GoesBefore(merged, o[k], o[l])
<1> DEFINE merged == Replaced(builtin, user) \o Added(builtin, user)
<1>1. merged \in Seq(Rule)
  BY MergedRules
<1>2. Merge(builtin, user) = ByPriority(merged)
  BY DEF Merge
<1> HIDE DEF merged
<1>3. NewEngine(Merge(builtin, user)) = ByPriority(merged)
  BY <1>1, <1>2, SortedStaysSorted DEF NewEngine
<1>4. \E o \in [DOMAIN merged -> DOMAIN merged] :
        /\ DOMAIN ByPriority(merged) = DOMAIN merged
        /\ \A k \in DOMAIN merged : ByPriority(merged)[k] = merged[o[k]]
        /\ \A j \in DOMAIN merged : \E k \in DOMAIN merged : o[k] = j
        /\ \A k, l \in DOMAIN merged : k < l => GoesBefore(merged, o[k], o[l])
  BY <1>1, ByPrioritySorts
<1> QED BY <1>3, <1>4 DEF merged

(* The slots whose rule matches.                                           *)
MatchingSlots(builtin, user, in) == {s \in Slots(builtin, user) : Matches(s.rule, in)}

(* The verdict is that of the one slot that wins.                          *)
SlotDecides(engine, builtin, user, in, now) ==
  LET verdict == Classify(engine, in, now)
      matching == MatchingSlots(builtin, user, in)
  IN \/ /\ matching = {}
        /\ verdict = [category |-> "UNKNOWN", rule |-> "", reset |-> None]
     \/ \E s \in matching :
          /\ Wins(s, matching)
          /\ \A t \in matching : Wins(t, matching) => t = s
          /\ verdict = [category |-> s.rule.category, rule |-> s.rule.name,
                        reset |-> ExtractReset(s.rule.extractor, in, now)]

(* The verdict is that of the slot that wins, and there is one.            *)
LEMMA BestSlotDecides ==
  ASSUME NEW builtin \in Seq(Rule), NEW user \in Seq(Rule), Distinct(builtin),
         NEW in, NEW now
  PROVE  SlotDecides(NewEngine(Merge(builtin, user)), builtin, user, in, now)
<1> DEFINE merged == Replaced(builtin, user) \o Added(builtin, user)
           engine == NewEngine(Merge(builtin, user))
           matching == MatchingSlots(builtin, user, in)
           hits == {k \in DOMAIN engine : Matches(engine[k], in)}
           verdict == Classify(engine, in, now)
<1>1. merged \in Seq(Rule)
  BY MergedRules
<1>2. PICK slot \in [DOMAIN merged -> Nat] :
        /\ \A i, j \in DOMAIN merged : i < j => slot[i] < slot[j]
        /\ \A i \in DOMAIN merged :
             [slot |-> slot[i], rule |-> merged[i]] \in Slots(builtin, user)
        /\ \A s \in Slots(builtin, user) :
             \E i \in DOMAIN merged : s = [slot |-> slot[i], rule |-> merged[i]]
  BY SlotsAreMerged
<1>3. PICK o \in [DOMAIN merged -> DOMAIN merged] :
        /\ DOMAIN engine = DOMAIN merged
        /\ \A k \in DOMAIN merged : engine[k] = merged[o[k]]
        /\ \A j \in DOMAIN merged : \E k \in DOMAIN merged : o[k] = j
        /\ \A k, l \in DOMAIN merged : k < l => GoesBefore(merged, o[k], o[l])
  BY EngineOrder
<1>4. \A i \in DOMAIN merged : i \in Int /\ merged[i].priority \in Int
  <2> HIDE DEF merged
  <2> QED BY <1>1, PrioritiesAreNumbers
<1>5. DOMAIN merged = 1..Len(merged) /\ Len(merged) \in Nat
  <2> HIDE DEF merged
  <2> QED BY <1>1
<1> HIDE DEF merged, engine
<1>6. \A s : s \in matching <=>
        \E k \in hits : s = [slot |-> slot[o[k]], rule |-> engine[k]]
  <2>1. ASSUME NEW k \in hits
        PROVE  [slot |-> slot[o[k]], rule |-> engine[k]] \in matching
    <3>1. o[k] \in DOMAIN merged /\ engine[k] = merged[o[k]] /\ Matches(engine[k], in)
      BY <1>3
    <3> QED BY <1>2, <3>1 DEF MatchingSlots
  <2>2. ASSUME NEW s \in matching
        PROVE  \E k \in hits : s = [slot |-> slot[o[k]], rule |-> engine[k]]
    <3>1. PICK i \in DOMAIN merged : s = [slot |-> slot[i], rule |-> merged[i]]
      BY <1>2 DEF MatchingSlots
    <3>2. PICK k \in DOMAIN merged : o[k] = i
      BY <1>3
    <3>3. s.rule = engine[k] /\ Matches(s.rule, in)
      BY <1>3, <3>1, <3>2 DEF MatchingSlots
    <3> QED BY <1>3, <3>1, <3>2, <3>3
  <2> HIDE DEF matching, hits
  <2> QED BY <2>1, <2>2
<1>7. hits \in SUBSET Int /\ IsFiniteSet(hits)
  <2>1. IsFiniteSet(1..Len(merged))
    BY <1>5, FS_Interval
  <2>2. hits \in SUBSET (1..Len(merged))
    BY <1>3, <1>5
  <2> HIDE DEF hits
  <2>3. hits \in SUBSET Int
    BY <2>2
  <2> QED BY <2>1, <2>2, <2>3, FS_Subset
<1> HIDE DEF matching
<1>8. CASE hits = {}
  <2>1. verdict = [category |-> "UNKNOWN", rule |-> "", reset |-> None]
    BY <1>8 DEF Classify
  <2>2. matching = {}
    <3> HIDE DEF hits
    <3> QED BY <1>6, <1>8
  <2> QED BY <2>1, <2>2 DEF matching, engine, SlotDecides
<1>9. CASE hits # {}
  <2> DEFINE first == CHOOSE i \in hits : \A j \in hits : i <= j
             best == [slot |-> slot[o[first]], rule |-> engine[first]]
  <2>1. first \in hits /\ \A j \in hits : first <= j
    <3> HIDE DEF hits
    <3>1. \E i \in hits : \A j \in hits : i <= j
      BY <1>7, <1>9, LeastAndGreatest
    <3> QED BY <3>1
  <2>2. verdict = [category |-> engine[first].category, rule |-> engine[first].name,
                   reset |-> ExtractReset(engine[first].extractor, in, now)]
    BY <1>9 DEF Classify
  <2> HIDE DEF first
  <2>3. first \in DOMAIN merged /\ \A k \in hits : k \in DOMAIN merged
    BY <1>3, <2>1
  <2> HIDE DEF hits
  <2>4. best \in matching
    BY <1>6, <2>1
  <2>5. ASSUME NEW k \in hits, k # first
        PROVE  LET t == [slot |-> slot[o[k]], rule |-> engine[k]]
               IN \/ t.rule.priority < best.rule.priority
                  \/ t.rule.priority = best.rule.priority /\ best.slot < t.slot
    <3>1. first < k /\ k \in DOMAIN merged
      BY <1>4, <2>1, <2>3, <2>5
    <3>2. GoesBefore(merged, o[first], o[k])
      BY <1>3, <2>3, <3>1
    <3>3. o[first] \in DOMAIN merged /\ o[k] \in DOMAIN merged
      BY <2>3, <3>1
    <3>4. engine[first] = merged[o[first]] /\ engine[k] = merged[o[k]]
      BY <1>3, <2>3, <3>1
    <3>5. \/ merged[o[k]].priority < merged[o[first]].priority
          \/ merged[o[k]].priority = merged[o[first]].priority /\ o[first] < o[k]
      BY <1>4, <3>2, <3>3 DEF GoesBefore
    <3>6. o[first] < o[k] => slot[o[first]] < slot[o[k]]
      BY <1>2, <3>3
    <3> QED BY <3>4, <3>5, <3>6
  <2>6. slot[o[first]] \in Nat /\ \A k \in hits : slot[o[k]] \in Nat
    BY <2>3
  <2>7. /\ engine[first].priority \in Int
        /\ \A k \in hits : engine[k].priority \in Int
    BY <1>3, <1>4, <2>3
  <2>8. Wins(best, matching)
    <3> SUFFICES ASSUME NEW t \in matching
                 PROVE  \/ t.rule.priority < best.rule.priority
                        \/ t.rule.priority = best.rule.priority /\ best.slot <= t.slot
      BY <2>4 DEF Wins
    <3>1. PICK k \in hits : t = [slot |-> slot[o[k]], rule |-> engine[k]]
      BY <1>6
    <3>2. CASE k = first
      BY <2>6, <3>1, <3>2
    <3>3. CASE k # first
      BY <2>5, <2>6, <3>1, <3>3
    <3> QED BY <3>2, <3>3
  <2>9. ASSUME NEW t \in matching, Wins(t, matching) PROVE t = best
    <3>1. PICK k \in hits : t = [slot |-> slot[o[k]], rule |-> engine[k]]
      BY <1>6
    <3>2. \/ best.rule.priority < t.rule.priority
          \/ best.rule.priority = t.rule.priority /\ t.slot <= best.slot
      BY <2>4, <2>9 DEF Wins
    <3>3. k # first => \/ t.rule.priority < best.rule.priority
                       \/ t.rule.priority = best.rule.priority /\ best.slot < t.slot
      BY <2>5, <3>1
    <3>4. t.rule.priority \in Int /\ best.rule.priority \in Int
      BY <2>7, <3>1
    <3>5. t.slot \in Nat /\ best.slot \in Nat
      BY <2>6, <3>1
    <3>6. k = first
      <4> HIDE DEF best
      <4> QED BY <3>2, <3>3, <3>4, <3>5
    <3> QED BY <3>1, <3>6
  <2>10. verdict = [category |-> best.rule.category, rule |-> best.rule.name,
                    reset |-> ExtractReset(best.rule.extractor, in, now)]
    BY <2>2
  <2> HIDE DEF best, verdict
  <2>11. \E s \in matching :
           /\ Wins(s, matching)
           /\ \A t \in matching : Wins(t, matching) => t = s
           /\ verdict = [category |-> s.rule.category, rule |-> s.rule.name,
                         reset |-> ExtractReset(s.rule.extractor, in, now)]
    BY <2>4, <2>8, <2>9, <2>10
  <2> QED BY <2>11 DEF verdict, matching, engine, SlotDecides
<1> QED BY <1>8, <1>9

-----------------------------------------------------------------------------
(* The inductive invariant.                                                *)

Columns == {"name", "provider", "mode", "cfg", "status"}
Fields  == {"at", "key", "value", "draft"}

(* What the variables are made of.                                         *)
Shape ==
  /\ world \in Worlds
  /\ at \in [Clients -> {"start", "built", "warned", "created", "failed"} \cup Handling]
  /\ DOMAIN flags = Clients /\ DOMAIN overrides = Clients /\ DOMAIN warned = Clients
  /\ DOMAIN plan = Clients /\ DOMAIN clientSaw = Clients /\ DOMAIN daemonSaw = Clients

(* What a config set has read is what the file still says.                 *)
FileInv ==
  /\ RulesTyped(global)
  /\ DOMAIN set = Fields
  /\ set.at \in {"idle", "checked", "read", "truncated", "written"}
  /\ set.at # "idle" => set.key # RulesKey
  /\ set.at \in {"read", "truncated", "written"} =>
       /\ RulesTyped(set.draft)
       /\ global # NoDoc => DOMAIN global \subseteq DOMAIN set.draft
  /\ set.at = "written" => tmp = set.draft

\* A row is the plan of its create, which has come to the insert or further.
RowInv ==
  /\ DOMAIN tasks \subseteq Clients
  /\ \A t \in DOMAIN tasks :
       /\ DOMAIN tasks[t] = Columns
       /\ at[t] \in {"inserted", "created", "failed"}
       /\ tasks[t].status \in {"PENDING", "RUNNING", "WAITING", "SUCCEEDED"}
       /\ tasks[t].name = NameOf(t) /\ tasks[t].cfg = plan[t].cfg
       /\ tasks[t].provider = plan[t].provider /\ tasks[t].mode = plan[t].mode
  /\ \A c \in Clients : at[c] \in Handling => up

\* Whom the daemon runs; nobody knows a Task between its insert and its runtime.
RuntimeInv ==
  /\ \A t \in DOMAIN runtimes : up /\ Active(t)
  /\ \A t \in posted : t \in DOMAIN runtimes /\ tasks[t].status = "PENDING"
  /\ \A c \in Clients : at[c] = "inserted" =>
       /\ c \in DOMAIN tasks /\ tasks[c].status = "PENDING"
       /\ c \notin DOMAIN runtimes
  /\ AcceptedIsOwned

SnapshotInv ==
  \A t \in DOMAIN runtimes :
    /\ runtimes[t].cfg = plan[t].cfg
    /\ runtimes[t].engine = NewEngine(Rules(plan[t].provider, plan[t].cfg))

(* What each side has resolved, from the layers it has seen.               *)
Layers(saw, c) == Resolve(saw[1], saw[2], saw[3], overrides[c])
ProviderOf(c, cfg) == IF flags[c].provider # "" THEN flags[c].provider ELSE cfg[ProviderKey]
ClientKnows(c) ==
  LET r == Layers(clientSaw[c], c)
  IN warned[c] <=> r.ok /\ Unattended(r.cfg, ProviderOf(c, r.cfg))
DaemonKnows(c) ==
  LET r == Layers(daemonSaw[c], c)
  IN /\ r.ok /\ Validate(r.cfg) /\ r.cfg[RulesKey] \in Seq(Rule)
     /\ plan[c].cfg = r.cfg /\ plan[c].provider = ProviderOf(c, r.cfg)
     /\ Supported(plan[c].provider, plan[c].mode)
FlagKept(c) ==
  flags[c].provider # "" /\ flags[c].unattended # "" =>
    overrides[c] = Only(UnattendedKey(flags[c].provider), flags[c].unattended)
ResolveInv ==
  \A c \in Clients :
    /\ at[c] # "start" => FlagKept(c)
    /\ at[c] \in {"warned", "created"} \cup Handling \/ c \in DOMAIN tasks => ClientKnows(c)
    /\ at[c] \in {"resolved", "checked"} \/ c \in DOMAIN tasks => DaemonKnows(c)

(* A name is claimed from the check on.                                    *)
Claims(c) == Active(c) \/ at[c] = "checked"
NamesInv ==
  \A t, u \in Clients :
    t # u /\ Claims(t) /\ Claims(u) /\ NameOf(t) = NameOf(u) => {t, u} \in overlapped

(* The invariant.                                                          *)
IInv ==
  /\ Shape /\ FileInv /\ RowInv /\ RuntimeInv /\ SnapshotInv /\ ResolveInv /\ NamesInv

-----------------------------------------------------------------------------
(* Rows, layers and documents.                                             *)

(* A layer over another: its keys decide, the others are kept.             *)
LEMMA OverIs ==
  ASSUME NEW top, NEW bottom
  PROVE  /\ DOMAIN Over(top, bottom) = DOMAIN top \cup DOMAIN bottom
         /\ \A key \in DOMAIN top : Over(top, bottom)[key] = top[key]
         /\ \A key \in DOMAIN bottom :
              key \notin DOMAIN top => Over(top, bottom)[key] = bottom[key]
BY DEF Over

(* The document of one key.                                                *)
LEMMA OnlyIs ==
  ASSUME NEW key, NEW value
  PROVE  DOMAIN Only(key, value) = {key} /\ Only(key, value)[key] = value
BY DEF Only

(* A row whose status changes keeps its other columns.                     *)
LEMMA RowUpdate ==
  ASSUME NEW r, DOMAIN r = Columns, NEW s
  PROVE  LET q == [r EXCEPT !.status = s]
         IN /\ DOMAIN q = Columns /\ q.status = s /\ q.name = r.name
            /\ q.provider = r.provider /\ q.mode = r.mode /\ q.cfg = r.cfg
BY DEF Columns

(* reconcileTask's runtime is that of the row.                             *)
LEMMA SnapshotUpdate ==
  ASSUME NEW r, DOMAIN r = Columns
  PROVE  Runtime([r EXCEPT !.cfg = SnapshotConfig(r)]) = Runtime(r)
BY DEF Columns, Runtime, SnapshotConfig

(* Recovery changes the status of an interrupted row only.                 *)
LEMMA RecoveredIs ==
  ASSUME NEW r, DOMAIN r = Columns
  PROVE  LET q == Recovered(r)
         IN /\ DOMAIN q = Columns /\ q.name = r.name
            /\ q.provider = r.provider /\ q.mode = r.mode /\ q.cfg = r.cfg
            /\ q.status = IF r.status = "RUNNING" THEN "WAITING" ELSE r.status
BY RowUpdate DEF Recovered

(* The row that an insert adds.                                            *)
LEMMA NewRow ==
  ASSUME NEW c
  PROVE  LET r == [name |-> NameOf(c), provider |-> plan[c].provider, mode |-> plan[c].mode,
                   cfg |-> plan[c].cfg, status |-> "PENDING"]
         IN /\ DOMAIN r = Columns /\ r.name = NameOf(c) /\ r.provider = plan[c].provider
            /\ r.mode = plan[c].mode /\ r.cfg = plan[c].cfg /\ r.status = "PENDING"
BY DEF Columns

(* Nothing is in the empty function.                                       *)
LEMMA EmptyDomain == DOMAIN <<>> = {}
OBVIOUS

(* No key but detection.rules is that key.                                 *)
LEMMA KeysDiffer ==
  /\ RulesKey # ProviderKey /\ RulesKey # ModeKey /\ RulesKey # OnUnknownKey
  /\ \A p : UnattendedKey(p) # RulesKey
  /\ RulesKey # <<"missing">>
BY DEF RulesKey, ProviderKey, ModeKey, OnUnknownKey, UnattendedKey

(* Default() has no user rules.                                            *)
LEMMA DefaultRules == RulesKey \in DOMAIN Default /\ Default[RulesKey] = <<>>
BY KeysDiffer DEF Default

(* A file merged over a configuration with typed rules leaves typed rules. *)
LEMMA MergedFileRules ==
  ASSUME NEW cfg, NEW doc, RulesTyped(doc), RulesKey \in DOMAIN cfg,
         cfg[RulesKey] \in Seq(Rule)
  PROVE  /\ RulesKey \in DOMAIN MergeFile(cfg, doc)
         /\ MergeFile(cfg, doc)[RulesKey] \in Seq(Rule)
<1>1. /\ DOMAIN Over(doc, cfg) = DOMAIN doc \cup DOMAIN cfg
      /\ \A key \in DOMAIN doc : Over(doc, cfg)[key] = doc[key]
      /\ \A key \in DOMAIN cfg : key \notin DOMAIN doc => Over(doc, cfg)[key] = cfg[key]
  BY OverIs
<1> QED BY <1>1 DEF MergeFile, RulesTyped

(* Whatever the layers are, what Resolve returns has typed rules.          *)
LEMMA ResolvedRules ==
  ASSUME NEW g, NEW p, NEW env, NEW ov, RulesTyped(g), RulesTyped(p),
         Resolve(g, p, env, ov).ok
  PROVE  Resolve(g, p, env, ov).cfg[RulesKey] \in Seq(Rule)
<1> DEFINE merged == MergeFile(MergeFile(Default, g), p)
           known == [key \in DOMAIN env \cap ScalarKeys(merged) |-> env[key]]
<1>1. RulesKey \in DOMAIN merged /\ merged[RulesKey] \in Seq(Rule)
  <2>1. /\ RulesKey \in DOMAIN MergeFile(Default, g)
        /\ MergeFile(Default, g)[RulesKey] \in Seq(Rule)
    <3>1. <<>> \in Seq(Rule)
      OBVIOUS
    <3>2. RulesKey \in DOMAIN Default /\ Default[RulesKey] \in Seq(Rule)
      BY <3>1, DefaultRules
    <3> QED BY <3>2, MergedFileRules
  <2> QED BY <2>1, MergedFileRules
<1> HIDE DEF merged
<1>2. /\ DOMAIN ov \subseteq ScalarKeys(merged)
      /\ Resolve(g, p, env, ov).cfg = Over(ov, Over(known, merged))
  BY DEF Resolve, merged, Failed
<1>3. RulesKey \notin DOMAIN ov /\ RulesKey \notin DOMAIN known
  BY <1>2 DEF ScalarKeys
<1> HIDE DEF known
<1> DEFINE lower == Over(known, merged)
<1>4. RulesKey \in DOMAIN lower /\ lower[RulesKey] = merged[RulesKey]
  <2>1. /\ DOMAIN lower = DOMAIN known \cup DOMAIN merged
        /\ \A key \in DOMAIN merged : key \notin DOMAIN known => lower[key] = merged[key]
    BY OverIs
  <2> QED BY <1>1, <1>3, <2>1
<1> HIDE DEF lower
<1>5. \A key \in DOMAIN lower : key \notin DOMAIN ov => Over(ov, lower)[key] = lower[key]
  BY OverIs
<1>6. Resolve(g, p, env, ov).cfg = Over(ov, lower)
  BY <1>2 DEF lower
<1> QED BY <1>1, <1>3, <1>4, <1>5, <1>6

(* The overrides decide every key they name, and never name the rules.     *)
LEMMA OverridesWin ==
  ASSUME NEW g, NEW p, NEW env, NEW ov, Resolve(g, p, env, ov).ok
  PROVE  /\ RulesKey \notin DOMAIN ov
         /\ \A key \in DOMAIN ov : Resolve(g, p, env, ov).cfg[key] = ov[key]
<1> DEFINE merged == MergeFile(MergeFile(Default, g), p)
           known == [key \in DOMAIN env \cap ScalarKeys(merged) |-> env[key]]
           lower == Over(known, merged)
<1>1. DOMAIN ov \subseteq ScalarKeys(merged) /\ Resolve(g, p, env, ov).cfg = Over(ov, lower)
  BY DEF Resolve, Failed
<1> HIDE DEF merged, known, lower
<1>2. \A key \in DOMAIN ov : Over(ov, lower)[key] = ov[key]
  BY OverIs
<1> QED BY <1>1, <1>2 DEF ScalarKeys

(* A missing file has typed rules.                                         *)
LEMMA NoDocTyped == RulesTyped(NoDoc)
BY KeysDiffer DEF RulesTyped, NoDoc

-----------------------------------------------------------------------------
(* The shape of the state, and config set.                                 *)

(* At first the state has its shape.                                       *)
LEMMA ShapeInit == Init => Shape
BY DEF Init, Shape, Handling

(* At first config set is idle, and the file typed.                        *)
LEMMA FileInit == Init => FileInv
<1>1. DOMAIN NoSet = Fields /\ NoSet.at = "idle"
  BY DEF NoSet, Fields
<1> QED BY <1>1, RulesAssumption DEF Init, FileInv, RulesTyped

(* What a step of config set changes of the command's state.               *)
LEMMA SetUpdate ==
  ASSUME NEW r, DOMAIN r = Fields, NEW s, NEW d
  PROVE  LET q == [r EXCEPT !.at = s]
             w == [r EXCEPT !.at = s, !.draft = d]
         IN /\ DOMAIN q = Fields /\ q.at = s /\ q.key = r.key /\ q.value = r.value
            /\ q.draft = r.draft
            /\ DOMAIN w = Fields /\ w.at = s /\ w.key = r.key /\ w.draft = d
BY DEF Fields

(* Every step of config set keeps FileInv; the rename puts the draft in    *)
(* place.                                                                  *)
LEMMA SetterKeepsFile ==
  ASSUME FileInv, SetterStep
  PROVE  FileInv'
<1> USE DEF RulesTyped
<1>1. DOMAIN NoSet = Fields /\ NoSet.at = "idle"
  BY DEF NoSet, Fields
<1>2. CASE SetCheck
  <2>1. global' = global
    BY <1>2 DEF SetCheck
  <2>2. CASE set' = NoSet
    BY <1>1, <2>1, <2>2 DEF FileInv
  <2>3. ASSUME NEW s \in world.settings,
               Resolve(global, NoDoc, <<>>, Only(s[1], s[2])).ok,
               set' = [NoSet EXCEPT !.at = "checked", !.key = s[1], !.value = s[2]]
        PROVE  FileInv'
    <3>1. s[1] # RulesKey
      <4>1. s[1] \in DOMAIN Only(s[1], s[2])
        BY DEF Only
      <4> QED BY <2>3, <4>1, OverridesWin
    <3>2. DOMAIN set' = Fields /\ set'.at = "checked" /\ set'.key = s[1]
      BY <2>3 DEF NoSet, Fields
    <3> QED BY <2>1, <3>1, <3>2 DEF FileInv
  <2> QED BY <1>2, <2>2, <2>3 DEF SetCheck
<1>3. CASE SetRead
  <2> DEFINE base == IF global = NoDoc THEN <<>> ELSE global
             draft == Over(Only(set.key, set.value), base)
  <2>1. /\ set.at = "checked" /\ set.key # RulesKey /\ global' = global
        /\ set' = [set EXCEPT !.at = "read", !.draft = draft]
    BY <1>3 DEF SetRead, FileInv
  <2>2. /\ DOMAIN set' = Fields /\ set'.at = "read" /\ set'.key = set.key /\ set'.draft = draft
    <3> HIDE DEF draft
    <3> QED BY <2>1, SetUpdate DEF FileInv
  <2>3. DOMAIN Only(set.key, set.value) = {set.key}
    BY OnlyIs
  <2>4. /\ DOMAIN draft = DOMAIN Only(set.key, set.value) \cup DOMAIN base
        /\ \A key \in DOMAIN base :
             key \notin DOMAIN Only(set.key, set.value) => draft[key] = base[key]
    <3> HIDE DEF base
    <3> QED BY OverIs
  <2>5. RulesKey \in DOMAIN base => base = global
    BY EmptyDomain
  <2>6. RulesKey \in DOMAIN draft => draft[RulesKey] \in Seq(Rule)
    <3> HIDE DEF draft, base
    <3> QED BY <2>1, <2>3, <2>4, <2>5 DEF FileInv
  <2>7. global # NoDoc => DOMAIN global \subseteq DOMAIN draft
    <3> HIDE DEF draft
    <3> QED BY <2>4
  <2> HIDE DEF draft
  <2> QED BY <2>1, <2>2, <2>6, <2>7 DEF FileInv
<1>4. CASE SetTruncate
  <2>1. /\ set.at = "read" /\ global' = global /\ DOMAIN set' = Fields
        /\ set'.at = "truncated" /\ set'.key = set.key /\ set'.draft = set.draft
    BY <1>4, SetUpdate DEF SetTruncate, SetStep, FileInv
  <2> QED BY <2>1 DEF FileInv
<1>5. CASE SetWrite
  <2>1. /\ set.at = "truncated" /\ global' = global /\ DOMAIN set' = Fields
        /\ set'.at = "written" /\ set'.key = set.key /\ set'.draft = set.draft
    BY <1>5, SetUpdate DEF SetWrite, SetStep, FileInv
  <2>2. tmp' = set.draft
    BY <1>5 DEF SetWrite
  <2> QED BY <2>1, <2>2 DEF FileInv
<1>6. CASE SetRename
  BY <1>1, <1>6 DEF SetRename, FileInv
<1>7. CASE SetDies
  BY <1>1, <1>7 DEF SetDies, FileInv
<1> QED BY <1>2, <1>3, <1>4, <1>5, <1>6, <1>7 DEF SetterStep

(* Every step keeps Shape.                                                 *)
LEMMA ShapeNext ==
  ASSUME Shape, [Next]_vars
  PROVE  Shape'
<1>1. ASSUME NEW c \in Clients, Build(c) PROVE Shape'
  BY <1>1 DEF Build, Fail, Shape, Handling, files, client, daemon, history, process
<1>2. ASSUME NEW c \in Clients, Warn(c) PROVE Shape'
  BY <1>2 DEF Warn, Fail, Shape, Handling, files, client, daemon, history, process
<1>3. ASSUME NEW c \in Clients, Connect(c) PROVE Shape'
  BY <1>3 DEF Connect, Fail, Shape, Handling, files, client, daemon, history, process
<1>4. ASSUME NEW c \in Clients, ConnectFails(c) PROVE Shape'
  BY <1>4 DEF ConnectFails, Fail, Shape, Handling, files, client, daemon, history, process
<1>5. ASSUME NEW c \in Clients, SpawnDaemon(c) PROVE Shape'
  BY <1>5 DEF SpawnDaemon, RunDaemon, Shape, Handling, files, client, history
<1>6. ASSUME NEW c \in Clients, SpawnFails(c) PROVE Shape'
  BY <1>6 DEF SpawnFails, Fail, Shape, Handling, files, client, daemon, history, process
<1>7. ASSUME NEW c \in Clients, HandleResolve(c) PROVE Shape'
  BY <1>7 DEF HandleResolve, Fail, Shape, Handling, files, client, daemon, history, process
<1>8. ASSUME NEW c \in Clients, CheckName(c) PROVE Shape'
  BY <1>8 DEF CheckName, Fail, Shape, Handling, files, client, daemon, history, process
<1>9. ASSUME NEW c \in Clients, CreateTask(c) PROVE Shape'
  BY <1>9 DEF CreateTask, Fail, Shape, Handling, files, client, daemon, history, process
<1>10. ASSUME NEW c \in Clients, CreateTaskFails(c) PROVE Shape'
  BY <1>10 DEF CreateTaskFails, Fail, Shape, Handling, files, client, daemon, history, process
<1>11. ASSUME NEW c \in Clients, StartRuntime(c) PROVE Shape'
  BY <1>11 DEF StartRuntime, Fail, Shape, Handling, files, client, daemon, history, process
<1>12. ASSUME NEW c \in Clients, Begins(c) PROVE Shape'
  BY <1>12 DEF Begins, Fail, Shape, Handling, files, client, daemon, history, process
<1>13. ASSUME NEW c \in Clients, Ends(c) PROVE Shape'
  BY <1>13 DEF Ends, Fail, Shape, Handling, files, client, daemon, history, process
<1>14. CASE ServiceStarts
  BY <1>14 DEF ServiceStarts, RunDaemon, Shape, Handling, files, client, history
<1>15. CASE Crash
  BY <1>15 DEF Crash, Fail, Shape, Handling, files, client, daemon, history, process
<1>16. CASE SetterStep
  BY <1>16 DEF SetterStep, SetCheck, SetRead, SetTruncate, SetWrite, SetRename, SetDies, SetStep,
      Shape, Handling, client, daemon, process, history
<1>17. CASE UNCHANGED vars
  BY <1>17 DEF vars, Shape, Handling, files, client, daemon, history, process
<1> QED BY <1>1, <1>2, <1>3, <1>4, <1>5, <1>6, <1>7, <1>8, <1>9, <1>10, <1>11, <1>12, <1>13,
    <1>14, <1>15, <1>16, <1>17 DEF Next, ClientStep, HandlerStep

(* Every step keeps FileInv.                                               *)
LEMMA FileNext ==
  ASSUME Shape, FileInv, [Next]_vars
  PROVE  FileInv'
<1>1. ASSUME NEW c \in Clients, Build(c) PROVE FileInv'
  BY <1>1 DEF Build, FileInv, RulesTyped, files
<1>2. ASSUME NEW c \in Clients, Warn(c) PROVE FileInv'
  BY <1>2 DEF Warn, FileInv, RulesTyped, files
<1>3. ASSUME NEW c \in Clients, Connect(c) PROVE FileInv'
  BY <1>3 DEF Connect, FileInv, RulesTyped, files
<1>4. ASSUME NEW c \in Clients, ConnectFails(c) PROVE FileInv'
  BY <1>4 DEF ConnectFails, FileInv, RulesTyped, files
<1>5. ASSUME NEW c \in Clients, SpawnDaemon(c) PROVE FileInv'
  BY <1>5 DEF SpawnDaemon, RunDaemon, FileInv, RulesTyped, files
<1>6. ASSUME NEW c \in Clients, SpawnFails(c) PROVE FileInv'
  BY <1>6 DEF SpawnFails, FileInv, RulesTyped, files
<1>7. ASSUME NEW c \in Clients, HandleResolve(c) PROVE FileInv'
  BY <1>7 DEF HandleResolve, FileInv, RulesTyped, files, process
<1>8. ASSUME NEW c \in Clients, CheckName(c) PROVE FileInv'
  BY <1>8 DEF CheckName, FileInv, RulesTyped, files, process
<1>9. ASSUME NEW c \in Clients, CreateTask(c) PROVE FileInv'
  BY <1>9 DEF CreateTask, FileInv, RulesTyped, files, process
<1>10. ASSUME NEW c \in Clients, CreateTaskFails(c) PROVE FileInv'
  BY <1>10 DEF CreateTaskFails, FileInv, RulesTyped, files, process
<1>11. ASSUME NEW c \in Clients, StartRuntime(c) PROVE FileInv'
  BY <1>11 DEF StartRuntime, FileInv, RulesTyped, files, process
<1>12. ASSUME NEW c \in Clients, Begins(c) PROVE FileInv'
  BY <1>12 DEF Begins, FileInv, RulesTyped, files, process
<1>13. ASSUME NEW c \in Clients, Ends(c) PROVE FileInv'
  BY <1>13 DEF Ends, FileInv, RulesTyped, files, process
<1>14. CASE ServiceStarts
  BY <1>14 DEF ServiceStarts, RunDaemon, FileInv, RulesTyped, files
<1>15. CASE Crash
  BY <1>15 DEF Crash, FileInv, RulesTyped, files
<1>16. CASE SetterStep
  BY <1>16, SetterKeepsFile
<1>17. CASE UNCHANGED vars
  BY <1>17 DEF vars, FileInv, RulesTyped, files
<1> QED BY <1>1, <1>2, <1>3, <1>4, <1>5, <1>6, <1>7, <1>8, <1>9, <1>10, <1>11, <1>12, <1>13,
    <1>14, <1>15, <1>16, <1>17 DEF Next, ClientStep, HandlerStep

-----------------------------------------------------------------------------
(* The rows.                                                               *)

(* At first there is no row.                                               *)
LEMMA RowInit == Init => RowInv
BY EmptyDomain DEF Init, RowInv, Handling

(* A change of one status keeps the rows.                                  *)
LEMMA StatusKeepsRows ==
  ASSUME RowInv, NEW c \in DOMAIN tasks,
         NEW s \in {"PENDING", "RUNNING", "WAITING", "SUCCEEDED"},
         tasks' = [tasks EXCEPT ![c].status = s], UNCHANGED <<at, flags, plan, up>>
  PROVE  RowInv'
<1> DEFINE row == [tasks[c] EXCEPT !.status = s]
<1>1. DOMAIN tasks' = DOMAIN tasks /\ tasks'[c] = row
      /\ \A t \in DOMAIN tasks : t # c => tasks'[t] = tasks[t]
  OBVIOUS
<1>2. /\ DOMAIN row = Columns /\ row.status = s /\ row.name = tasks[c].name
      /\ row.provider = tasks[c].provider /\ row.mode = tasks[c].mode
      /\ row.cfg = tasks[c].cfg
  BY RowUpdate DEF RowInv
<1> HIDE DEF row
<1>3. \A t : NameOf(t)' = NameOf(t)
  BY DEF NameOf
<1> QED BY <1>1, <1>2, <1>3 DEF RowInv

(* A daemon that starts keeps the rows.                                    *)
LEMMA RunDaemonKeepsRows ==
  ASSUME RowInv, NEW env, NEW dir, RunDaemon(env, dir)
  PROVE  RowInv'
<1>1. UNCHANGED <<at, flags, plan>> /\ up'
  BY DEF RunDaemon, client
<1>2. tasks' = [t \in DOMAIN tasks |-> Recovered(tasks[t])]
  BY DEF RunDaemon, Reconcile
<1>3. ASSUME NEW t \in DOMAIN tasks
      PROVE  /\ DOMAIN tasks'[t] = Columns /\ tasks'[t].name = tasks[t].name
             /\ tasks'[t].provider = tasks[t].provider /\ tasks'[t].mode = tasks[t].mode
             /\ tasks'[t].cfg = tasks[t].cfg
             /\ tasks'[t].status \in {"PENDING", "RUNNING", "WAITING", "SUCCEEDED"}
  <2> DEFINE r == tasks[t]
  <2>1. DOMAIN r = Columns /\ r.status \in {"PENDING", "RUNNING", "WAITING", "SUCCEEDED"}
    BY DEF RowInv
  <2>2. tasks'[t] = Recovered(r)
    BY <1>2
  <2> HIDE DEF r
  <2>3. /\ DOMAIN tasks'[t] = Columns /\ tasks'[t].name = r.name
        /\ tasks'[t].provider = r.provider /\ tasks'[t].mode = r.mode
        /\ tasks'[t].cfg = r.cfg
        /\ tasks'[t].status \in {"PENDING", "RUNNING", "WAITING", "SUCCEEDED"}
    BY <2>1, <2>2, RecoveredIs
  <2> QED BY <2>3 DEF r
<1>4. DOMAIN tasks' = DOMAIN tasks
  BY <1>2
<1>5. \A t : NameOf(t)' = NameOf(t)
  BY <1>1 DEF NameOf
<1> QED BY <1>1, <1>3, <1>4, <1>5 DEF RowInv

(* Every step keeps RowInv.                                                *)
LEMMA RowNext ==
  ASSUME Shape, RowInv, RuntimeInv, [Next]_vars
  PROVE  RowInv'
<1>1. ASSUME NEW c \in Clients, Build(c) PROVE RowInv'
  <2>1. \A t \in DOMAIN tasks : t # c /\ flags'[t] = flags[t] /\ at'[t] = at[t]
    BY <1>1 DEF Build, Shape, RowInv
  <2>3. UNCHANGED <<tasks, plan, up>>
    BY <1>1 DEF Build, daemon, process
  <2>4. \A t \in DOMAIN tasks : NameOf(t)' = NameOf(t)
    BY <2>1 DEF NameOf
  <2>5. \A d \in Clients : at'[d] \in Handling => at[d] \in Handling
    BY <1>1 DEF Build, Shape, Handling
  <2> QED BY <2>1, <2>3, <2>4, <2>5 DEF RowInv
<1>2. ASSUME NEW c \in Clients, Warn(c) PROVE RowInv'
  <2>1. UNCHANGED <<flags, plan, up, tasks>>
    BY <1>2 DEF Warn, Fail, client, daemon, process
  <2>2. \A t \in DOMAIN tasks : at'[t] \in {"inserted", "created", "failed"}
    BY <1>2 DEF Warn, Fail, Shape, RowInv
  <2>3. \A d \in Clients : at'[d] \in Handling => up
    BY <1>2 DEF Warn, Fail, Shape, RowInv, Handling
  <2>4. \A t : NameOf(t)' = NameOf(t)
    BY <2>1 DEF NameOf
  <2> QED BY <2>1, <2>2, <2>3, <2>4 DEF RowInv
<1>3. ASSUME NEW c \in Clients, Connect(c) PROVE RowInv'
  <2>1. UNCHANGED <<flags, plan, up, tasks>>
    BY <1>3 DEF Connect, Fail, client, daemon, process
  <2>2. \A t \in DOMAIN tasks : at'[t] \in {"inserted", "created", "failed"}
    BY <1>3 DEF Connect, Fail, Shape, RowInv
  <2>3. \A d \in Clients : at'[d] \in Handling => up
    BY <1>3 DEF Connect, Fail, Shape, RowInv, Handling
  <2>4. \A t : NameOf(t)' = NameOf(t)
    BY <2>1 DEF NameOf
  <2> QED BY <2>1, <2>2, <2>3, <2>4 DEF RowInv
<1>4. ASSUME NEW c \in Clients, ConnectFails(c) PROVE RowInv'
  <2>1. UNCHANGED <<flags, plan, up, tasks>>
    BY <1>4 DEF ConnectFails, Fail, client, daemon, process
  <2>2. \A t \in DOMAIN tasks : at'[t] \in {"inserted", "created", "failed"}
    BY <1>4 DEF ConnectFails, Fail, Shape, RowInv
  <2>3. \A d \in Clients : at'[d] \in Handling => up
    BY <1>4 DEF ConnectFails, Fail, Shape, RowInv, Handling
  <2>4. \A t : NameOf(t)' = NameOf(t)
    BY <2>1 DEF NameOf
  <2> QED BY <2>1, <2>2, <2>3, <2>4 DEF RowInv
<1>5. ASSUME NEW c \in Clients, SpawnDaemon(c) PROVE RowInv'
  <2>1. RunDaemon(world.env[c], "here")
    BY <1>5 DEF SpawnDaemon
  <2> QED BY <2>1, RunDaemonKeepsRows
<1>6. ASSUME NEW c \in Clients, SpawnFails(c) PROVE RowInv'
  <2>1. UNCHANGED <<flags, plan, up, tasks>>
    BY <1>6 DEF SpawnFails, Fail, client, daemon, process
  <2>2. \A t \in DOMAIN tasks : at'[t] \in {"inserted", "created", "failed"}
    BY <1>6 DEF SpawnFails, Fail, Shape, RowInv
  <2>3. \A d \in Clients : at'[d] \in Handling => up
    BY <1>6 DEF SpawnFails, Fail, Shape, RowInv, Handling
  <2>4. \A t : NameOf(t)' = NameOf(t)
    BY <2>1 DEF NameOf
  <2> QED BY <2>1, <2>2, <2>3, <2>4 DEF RowInv
<1>7. ASSUME NEW c \in Clients, HandleResolve(c) PROVE RowInv'
  <2>1. \A t \in DOMAIN tasks : t # c /\ plan'[t] = plan[t] /\ at'[t] = at[t]
    BY <1>7 DEF HandleResolve, Fail, Shape, RowInv, process
  <2>2. UNCHANGED <<tasks, flags, up>> /\ up
    BY <1>7 DEF HandleResolve, Fail, client, process
  <2>3. \A t : NameOf(t)' = NameOf(t)
    BY <2>2 DEF NameOf
  <2> QED BY <2>1, <2>2, <2>3 DEF RowInv
<1>8. ASSUME NEW c \in Clients, CheckName(c) PROVE RowInv'
  <2>1. UNCHANGED <<flags, plan, up, tasks>>
    BY <1>8 DEF CheckName, Fail, client, daemon, process
  <2>2. \A t \in DOMAIN tasks : at'[t] \in {"inserted", "created", "failed"}
    BY <1>8 DEF CheckName, Fail, Shape, RowInv, process
  <2>3. \A d \in Clients : at'[d] \in Handling => up
    BY <1>8 DEF CheckName, Fail, Shape, RowInv, Handling, process
  <2>4. \A t : NameOf(t)' = NameOf(t)
    BY <2>1 DEF NameOf
  <2> QED BY <2>1, <2>2, <2>3, <2>4 DEF RowInv
<1>9. ASSUME NEW c \in Clients, CreateTask(c) PROVE RowInv'
  <2> DEFINE row == [name |-> NameOf(c), provider |-> plan[c].provider,
                     mode |-> plan[c].mode, cfg |-> plan[c].cfg, status |-> "PENDING"]
  <2>1. /\ UNCHANGED <<flags, plan, up>> /\ up
        /\ at' = [at EXCEPT ![c] = "inserted"] /\ tasks' = Over(Only(c, row), tasks)
    BY <1>9 DEF CreateTask, client, process
  <2>2. /\ DOMAIN row = Columns /\ row.name = NameOf(c) /\ row.provider = plan[c].provider
        /\ row.mode = plan[c].mode /\ row.cfg = plan[c].cfg /\ row.status = "PENDING"
    BY NewRow
  <2> HIDE DEF row
  <2>3. /\ DOMAIN tasks' = {c} \cup DOMAIN tasks /\ tasks'[c] = row
        /\ \A t \in DOMAIN tasks : t # c => tasks'[t] = tasks[t]
    <3>1. /\ DOMAIN Over(Only(c, row), tasks) = {c} \cup DOMAIN tasks
          /\ Over(Only(c, row), tasks)[c] = row
          /\ \A t \in DOMAIN tasks : t # c => Over(Only(c, row), tasks)[t] = tasks[t]
      BY DEF Over, Only
    <3> QED BY <2>1, <3>1
  <2>4. at'[c] = "inserted" /\ \A t \in DOMAIN tasks : t # c => at'[t] = at[t]
    BY <2>1 DEF Shape, RowInv
  <2>5. \A t : NameOf(t)' = NameOf(t)
    BY <2>1 DEF NameOf
  <2> QED BY <2>1, <2>2, <2>3, <2>4, <2>5 DEF RowInv
<1>10. ASSUME NEW c \in Clients, CreateTaskFails(c) PROVE RowInv'
  <2>1. UNCHANGED <<flags, plan, up, tasks>>
    BY <1>10 DEF CreateTaskFails, Fail, client, daemon, process
  <2>2. \A t \in DOMAIN tasks : at'[t] \in {"inserted", "created", "failed"}
    BY <1>10 DEF CreateTaskFails, Fail, Shape, RowInv, process
  <2>3. \A d \in Clients : at'[d] \in Handling => up
    BY <1>10 DEF CreateTaskFails, Fail, Shape, RowInv, Handling, process
  <2>4. \A t : NameOf(t)' = NameOf(t)
    BY <2>1 DEF NameOf
  <2> QED BY <2>1, <2>2, <2>3, <2>4 DEF RowInv
<1>11. ASSUME NEW c \in Clients, StartRuntime(c) PROVE RowInv'
  <2>1. UNCHANGED <<flags, plan, up, tasks>>
    BY <1>11 DEF StartRuntime, Fail, client, daemon, process
  <2>2. \A t \in DOMAIN tasks : at'[t] \in {"inserted", "created", "failed"}
    BY <1>11 DEF StartRuntime, Fail, Shape, RowInv, process
  <2>3. \A d \in Clients : at'[d] \in Handling => up
    BY <1>11 DEF StartRuntime, Fail, Shape, RowInv, Handling, process
  <2>4. \A t : NameOf(t)' = NameOf(t)
    BY <2>1 DEF NameOf
  <2> QED BY <2>1, <2>2, <2>3, <2>4 DEF RowInv
<1>12. ASSUME NEW c \in Clients, Begins(c) PROVE RowInv'
  <2>1. tasks' = [tasks EXCEPT ![c].status = "RUNNING"] /\ UNCHANGED <<at, flags, plan, up>>
    BY <1>12 DEF Begins, client, process
  <2>2. c \in DOMAIN tasks
    BY <1>12 DEF Begins, RuntimeInv, Active, process
  <2> QED BY <2>1, <2>2, StatusKeepsRows
<1>13. ASSUME NEW c \in Clients, Ends(c) PROVE RowInv'
  <2>1. tasks' = [tasks EXCEPT ![c].status = "SUCCEEDED"] /\ UNCHANGED <<at, flags, plan, up>>
    BY <1>13 DEF Ends, client, process
  <2>2. c \in DOMAIN tasks
    BY <1>13 DEF Ends, RuntimeInv, Active, process
  <2> QED BY <2>1, <2>2, StatusKeepsRows
<1>14. CASE ServiceStarts
  <2>1. RunDaemon(ServiceEnv, "away")
    BY <1>14 DEF ServiceStarts
  <2> QED BY <2>1, RunDaemonKeepsRows
<1>15. CASE Crash
  <2>1. UNCHANGED <<flags, plan, tasks>>
    BY <1>15 DEF Crash, client
  <2>2. \A d \in Clients : at'[d] = IF at[d] \in Handling THEN "failed" ELSE at[d]
    BY <1>15 DEF Crash
  <2>3. \A t \in DOMAIN tasks : at'[t] \in {"inserted", "created", "failed"}
    BY <2>2 DEF RowInv
  <2>4. \A d \in Clients : at'[d] \notin Handling
    BY <2>2 DEF Handling
  <2>5. \A t : NameOf(t)' = NameOf(t)
    BY <2>1 DEF NameOf
  <2> QED BY <2>1, <2>3, <2>4, <2>5 DEF RowInv
<1>16. CASE SetterStep
  <2>1. UNCHANGED <<at, flags, plan, up, tasks>>
    BY <1>16 DEF SetterStep, SetCheck, SetRead, SetTruncate, SetWrite, SetRename, SetDies,
        client, daemon, process
  <2> QED BY <2>1 DEF RowInv, NameOf
<1>17. CASE UNCHANGED vars
  <2>1. UNCHANGED <<at, flags, plan, up, tasks>>
    BY <1>17 DEF vars, client, daemon, process
  <2> QED BY <2>1 DEF RowInv, NameOf
<1> QED BY <1>1, <1>2, <1>3, <1>4, <1>5, <1>6, <1>7, <1>8, <1>9, <1>10, <1>11, <1>12, <1>13,
    <1>14, <1>15, <1>16, <1>17 DEF Next, ClientStep, HandlerStep

-----------------------------------------------------------------------------
(* The runtimes, and the configuration each runs.                          *)

(* At first there is no runtime.                                           *)
LEMMA RuntimeInit == Init => RuntimeInv /\ SnapshotInv
BY EmptyDomain DEF Init, RuntimeInv, SnapshotInv, AcceptedIsOwned

(* A step that changes neither rows nor runtimes keeps who is owned.       *)
LEMMA RuntimeFrame ==
  ASSUME RuntimeInv, UNCHANGED <<tasks, runtimes, posted, up>>,
         \A d \in Clients : at'[d] = "inserted" <=> at[d] = "inserted"
  PROVE  RuntimeInv'
<1>1. \A t : Active(t)' <=> Active(t)
  BY DEF Active
<1> QED BY <1>1 DEF RuntimeInv, AcceptedIsOwned

(* A daemon that starts owns every Task that has not ended, whatever it    *)
(* finds.                                                                  *)
LEMMA RunDaemonOwns ==
  ASSUME RowInv, NEW env, NEW dir, RunDaemon(env, dir)
  PROVE  RuntimeInv'
<1>1. /\ UNCHANGED at /\ up' /\ ~up
      /\ tasks' = [t \in DOMAIN tasks |-> Recovered(tasks[t])]
      /\ DOMAIN runtimes' = {u \in Clients : Active(u)}
      /\ posted' = {t \in Clients : Active(t) /\ tasks[t].status = "PENDING"}
  BY DEF RunDaemon, Reconcile
<1>2. ASSUME NEW t \in DOMAIN tasks
      PROVE  tasks'[t].status = IF tasks[t].status = "RUNNING" THEN "WAITING" ELSE tasks[t].status
  <2> DEFINE r == tasks[t]
  <2>1. DOMAIN r = Columns
    BY DEF RowInv
  <2>2. tasks'[t] = Recovered(r)
    BY <1>1
  <2> HIDE DEF r
  <2>3. tasks'[t].status = IF r.status = "RUNNING" THEN "WAITING" ELSE r.status
    BY <2>1, <2>2, RecoveredIs
  <2> QED BY <2>3 DEF r
<1>3. DOMAIN tasks' = DOMAIN tasks
  BY <1>1
<1>4. \A t : Active(t)' <=> Active(t)
  BY <1>2, <1>3 DEF Active, Terminal
<1>5. \A c \in Clients : at[c] # "inserted"
  BY <1>1 DEF RowInv, Handling
<1>6. \A t \in DOMAIN tasks : tasks'[t].status = "PENDING" <=> tasks[t].status = "PENDING"
  BY <1>2
<1>7. \A t \in Clients : Active(t) => t \in DOMAIN tasks
  BY DEF Active
<1> QED BY <1>1, <1>3, <1>4, <1>5, <1>6, <1>7 DEF RuntimeInv, AcceptedIsOwned

(* Every step keeps RuntimeInv.                                            *)
LEMMA RuntimeNext ==
  ASSUME Shape, RowInv, RuntimeInv, [Next]_vars
  PROVE  RuntimeInv'
<1>1. ASSUME NEW c \in Clients, Build(c) PROVE RuntimeInv'
  <2>1. UNCHANGED <<tasks, runtimes, posted, up>>
    BY <1>1 DEF Build, Fail, daemon, process
  <2>2. \A d \in Clients : at'[d] = "inserted" <=> at[d] = "inserted"
    BY <1>1 DEF Build, Fail, Shape
  <2> QED BY <2>1, <2>2, RuntimeFrame
<1>2. ASSUME NEW c \in Clients, Warn(c) PROVE RuntimeInv'
  <2>1. UNCHANGED <<tasks, runtimes, posted, up>>
    BY <1>2 DEF Warn, Fail, daemon, process
  <2>2. \A d \in Clients : at'[d] = "inserted" <=> at[d] = "inserted"
    BY <1>2 DEF Warn, Fail, Shape
  <2> QED BY <2>1, <2>2, RuntimeFrame
<1>3. ASSUME NEW c \in Clients, Connect(c) PROVE RuntimeInv'
  <2>1. UNCHANGED <<tasks, runtimes, posted, up>>
    BY <1>3 DEF Connect, Fail, daemon, process
  <2>2. \A d \in Clients : at'[d] = "inserted" <=> at[d] = "inserted"
    BY <1>3 DEF Connect, Fail, Shape
  <2> QED BY <2>1, <2>2, RuntimeFrame
<1>4. ASSUME NEW c \in Clients, ConnectFails(c) PROVE RuntimeInv'
  <2>1. UNCHANGED <<tasks, runtimes, posted, up>>
    BY <1>4 DEF ConnectFails, Fail, daemon, process
  <2>2. \A d \in Clients : at'[d] = "inserted" <=> at[d] = "inserted"
    BY <1>4 DEF ConnectFails, Fail, Shape
  <2> QED BY <2>1, <2>2, RuntimeFrame
<1>5. ASSUME NEW c \in Clients, SpawnDaemon(c) PROVE RuntimeInv'
  <2>1. RunDaemon(world.env[c], "here")
    BY <1>5 DEF SpawnDaemon
  <2> QED BY <2>1, RunDaemonOwns
<1>6. ASSUME NEW c \in Clients, SpawnFails(c) PROVE RuntimeInv'
  <2>1. UNCHANGED <<tasks, runtimes, posted, up>>
    BY <1>6 DEF SpawnFails, Fail, daemon, process
  <2>2. \A d \in Clients : at'[d] = "inserted" <=> at[d] = "inserted"
    BY <1>6 DEF SpawnFails, Fail, Shape
  <2> QED BY <2>1, <2>2, RuntimeFrame
<1>7. ASSUME NEW c \in Clients, HandleResolve(c) PROVE RuntimeInv'
  <2>1. UNCHANGED <<tasks, runtimes, posted, up>>
    BY <1>7 DEF HandleResolve, Fail, daemon, process
  <2>2. \A d \in Clients : at'[d] = "inserted" <=> at[d] = "inserted"
    BY <1>7 DEF HandleResolve, Fail, Shape, process
  <2> QED BY <2>1, <2>2, RuntimeFrame
<1>8. ASSUME NEW c \in Clients, CheckName(c) PROVE RuntimeInv'
  <2>1. UNCHANGED <<tasks, runtimes, posted, up>>
    BY <1>8 DEF CheckName, Fail, daemon, process
  <2>2. \A d \in Clients : at'[d] = "inserted" <=> at[d] = "inserted"
    BY <1>8 DEF CheckName, Fail, Shape, process
  <2> QED BY <2>1, <2>2, RuntimeFrame
<1>9. ASSUME NEW c \in Clients, CreateTask(c) PROVE RuntimeInv'
  <2> DEFINE row == [name |-> NameOf(c), provider |-> plan[c].provider,
                     mode |-> plan[c].mode, cfg |-> plan[c].cfg, status |-> "PENDING"]
  <2>1. /\ UNCHANGED <<runtimes, posted, up>> /\ up /\ at[c] = "checked"
        /\ at' = [at EXCEPT ![c] = "inserted"] /\ tasks' = Over(Only(c, row), tasks)
    BY <1>9 DEF CreateTask, process
  <2>2. row.status = "PENDING"
    OBVIOUS
  <2> HIDE DEF row
  <2>3. /\ DOMAIN tasks' = {c} \cup DOMAIN tasks /\ tasks'[c] = row
        /\ \A t \in DOMAIN tasks : t # c => tasks'[t] = tasks[t]
    BY <2>1 DEF Over, Only
  <2>4. at'[c] = "inserted" /\ \A t \in Clients : t # c => at'[t] = at[t]
    BY <2>1 DEF Shape
  <2>5. c \notin DOMAIN tasks /\ c \notin DOMAIN runtimes /\ c \notin posted
    BY <2>1 DEF RowInv, RuntimeInv, Active
  <2> QED BY <2>1, <2>2, <2>3, <2>4, <2>5 DEF RuntimeInv, AcceptedIsOwned, Active
<1>10. ASSUME NEW c \in Clients, CreateTaskFails(c) PROVE RuntimeInv'
  <2>1. UNCHANGED <<tasks, runtimes, posted, up>>
    BY <1>10 DEF CreateTaskFails, Fail, daemon, process
  <2>2. \A d \in Clients : at'[d] = "inserted" <=> at[d] = "inserted"
    BY <1>10 DEF CreateTaskFails, Fail, Shape, process
  <2> QED BY <2>1, <2>2, RuntimeFrame
<1>11. ASSUME NEW c \in Clients, StartRuntime(c) PROVE RuntimeInv'
  <2>1. /\ UNCHANGED <<tasks, up>> /\ up /\ at[c] = "inserted"
        /\ at' = [at EXCEPT ![c] = "created"] /\ posted' = posted \cup {c}
    BY <1>11 DEF StartRuntime, process
  <2>2. DOMAIN runtimes' = {c} \cup DOMAIN runtimes
    BY <1>11 DEF StartRuntime, Over, Only, process
  <2>3. at'[c] = "created" /\ \A t \in Clients : t # c => at'[t] = at[t]
    BY <2>1 DEF Shape
  <2>4. c \in DOMAIN tasks /\ tasks[c].status = "PENDING"
    BY <2>1 DEF RuntimeInv
  <2>5. Active(c)
    BY <2>4 DEF Active, Terminal
  <2> QED BY <2>1, <2>2, <2>3, <2>4, <2>5 DEF RuntimeInv, AcceptedIsOwned, Active
<1>12. ASSUME NEW c \in Clients, Begins(c) PROVE RuntimeInv'
  <2>1. /\ c \in DOMAIN runtimes /\ tasks[c].status = "PENDING" /\ c \in DOMAIN tasks
        /\ DOMAIN tasks[c] = Columns
    BY <1>12 DEF Begins, RuntimeInv, RowInv, Active, process
  <2>2. /\ DOMAIN tasks' = DOMAIN tasks /\ tasks'[c] = [tasks[c] EXCEPT !.status = "RUNNING"]
        /\ \A t \in DOMAIN tasks : t # c => tasks'[t] = tasks[t]
    <3>1. tasks' = [tasks EXCEPT ![c].status = "RUNNING"]
      BY <1>12 DEF Begins, process
    <3> QED BY <2>1, <3>1
  <2>8. \A t : Active(t) => t \in DOMAIN tasks
    BY DEF Active
  <2>3. tasks'[c].status = "RUNNING"
    BY <2>1, <2>2, RowUpdate
  <2>4. UNCHANGED <<at, runtimes, up>> /\ posted' = posted \ {c}
    BY <1>12 DEF Begins, process
  <2>5. Active(c)' /\ \A t : Active(t)' => Active(t)
    BY <2>1, <2>2, <2>3 DEF Active, Terminal
  <2>6. \A t : Active(t) => Active(t)'
    BY <2>2, <2>5 DEF Active
  <2>7. at[c] # "inserted"
    BY <2>1 DEF RuntimeInv
  <2>9. \A t \in DOMAIN runtimes' : up' /\ Active(t)'
    BY <2>4, <2>6 DEF RuntimeInv
  <2>10. \A t \in posted' : t \in DOMAIN runtimes' /\ tasks'[t].status = "PENDING"
    BY <2>2, <2>4, <2>8 DEF RuntimeInv
  <2>11. \A d \in Clients : at'[d] = "inserted" =>
           /\ d \in DOMAIN tasks' /\ tasks'[d].status = "PENDING"
           /\ d \notin DOMAIN runtimes'
    BY <2>2, <2>4, <2>7 DEF RuntimeInv
  <2>12. AcceptedIsOwned'
    BY <2>2, <2>3, <2>4, <2>5, <2>8 DEF RuntimeInv, AcceptedIsOwned
  <2> QED BY <2>9, <2>10, <2>11, <2>12 DEF RuntimeInv
<1>13. ASSUME NEW c \in Clients, Ends(c) PROVE RuntimeInv'
  <2>1. /\ c \in DOMAIN runtimes /\ c \in DOMAIN tasks /\ DOMAIN tasks[c] = Columns
        /\ tasks[c].status \in {"RUNNING", "WAITING"}
    BY <1>13 DEF Ends, RuntimeInv, RowInv, Active, process
  <2>2. /\ DOMAIN tasks' = DOMAIN tasks /\ tasks'[c] = [tasks[c] EXCEPT !.status = "SUCCEEDED"]
        /\ \A t \in DOMAIN tasks : t # c => tasks'[t] = tasks[t]
    <3>1. tasks' = [tasks EXCEPT ![c].status = "SUCCEEDED"]
      BY <1>13 DEF Ends, process
    <3> QED BY <2>1, <3>1
  <2>8. \A t : Active(t) => t \in DOMAIN tasks
    BY DEF Active
  <2>3. tasks'[c].status = "SUCCEEDED"
    BY <2>1, <2>2, RowUpdate
  <2>4. UNCHANGED <<at, posted, up>> /\ DOMAIN runtimes' = DOMAIN runtimes \ {c}
    BY <1>13 DEF Ends, process
  <2>5. ~Active(c)' /\ \A t : t # c => (Active(t)' <=> Active(t))
    BY <2>2, <2>3 DEF Active, Terminal
  <2>6. c \notin posted /\ at[c] # "inserted"
    BY <2>1 DEF RuntimeInv
  <2> QED BY <2>1, <2>2, <2>3, <2>4, <2>5, <2>6, <2>8 DEF RuntimeInv, AcceptedIsOwned
<1>14. CASE ServiceStarts
  <2>1. RunDaemon(ServiceEnv, "away")
    BY <1>14 DEF ServiceStarts
  <2> QED BY <2>1, RunDaemonOwns
<1>15. CASE Crash
  <2>1. ~up' /\ runtimes' = <<>> /\ posted' = {} /\ \A d \in Clients : at'[d] # "inserted"
    BY <1>15 DEF Crash, Handling
  <2> QED BY <2>1, EmptyDomain DEF RuntimeInv, AcceptedIsOwned
<1>16. CASE SetterStep
  <2>1. UNCHANGED <<at, tasks, runtimes, posted, up>>
    BY <1>16 DEF SetterStep, SetCheck, SetRead, SetTruncate, SetWrite, SetRename, SetDies, daemon, process
  <2> QED BY <2>1, RuntimeFrame
<1>17. CASE UNCHANGED vars
  <2>1. UNCHANGED <<at, tasks, runtimes, posted, up>>
    BY <1>17 DEF vars, daemon, process
  <2> QED BY <2>1, RuntimeFrame
<1> QED BY <1>1, <1>2, <1>3, <1>4, <1>5, <1>6, <1>7, <1>8, <1>9, <1>10, <1>11, <1>12, <1>13,
    <1>14, <1>15, <1>16, <1>17 DEF Next, ClientStep, HandlerStep

(* What a runtime must hold.                                               *)
IsSnapshot(runtime, t) ==
  /\ runtime.cfg = plan[t].cfg
  /\ runtime.engine = NewEngine(Rules(plan[t].provider, plan[t].cfg))

(* A runtime started from a row runs the plan of the row's create.         *)
LEMMA RuntimeIsSnapshot ==
  ASSUME RowInv, NEW t \in DOMAIN tasks
  PROVE  IsSnapshot(Runtime(tasks[t]), t)
<1>1. tasks[t].cfg = plan[t].cfg /\ tasks[t].provider = plan[t].provider
  BY DEF RowInv
<1> QED BY <1>1 DEF IsSnapshot, Runtime

(* So do the runtimes a daemon that starts restores.                       *)
LEMMA RunDaemonTakesSnapshots ==
  ASSUME RowInv, NEW env, NEW dir, RunDaemon(env, dir)
  PROVE  SnapshotInv'
<1>1. /\ UNCHANGED plan
      /\ runtimes' = [t \in {u \in Clients : Active(u)} |->
                       Runtime([tasks[t] EXCEPT !.cfg = SnapshotConfig(tasks[t])])]
  BY DEF RunDaemon, Reconcile
<1>2. SUFFICES ASSUME NEW t \in DOMAIN runtimes'
               PROVE  IsSnapshot(runtimes'[t], t)
  BY <1>1 DEF SnapshotInv, IsSnapshot
<1>3. t \in DOMAIN tasks
  BY <1>1 DEF Active
<1> DEFINE r == tasks[t]
<1>4. runtimes'[t] = Runtime([r EXCEPT !.cfg = SnapshotConfig(r)])
  BY <1>1
<1>5. DOMAIN r = Columns
  BY <1>3 DEF RowInv
<1>6. IsSnapshot(Runtime(r), t)
  BY <1>3, RuntimeIsSnapshot
<1> HIDE DEF r
<1>7. Runtime([r EXCEPT !.cfg = SnapshotConfig(r)]) = Runtime(r)
  BY <1>5, SnapshotUpdate
<1> QED BY <1>4, <1>6, <1>7

(* Every step keeps SnapshotInv.                                           *)
LEMMA SnapshotNext ==
  ASSUME Shape, RowInv, RuntimeInv, SnapshotInv, [Next]_vars
  PROVE  SnapshotInv'
<1>1. ASSUME NEW c \in Clients, Build(c) PROVE SnapshotInv'
  <2>1. UNCHANGED <<runtimes, plan>>
    BY <1>1 DEF Build, Fail, daemon, process
  <2> QED BY <2>1 DEF SnapshotInv
<1>2. ASSUME NEW c \in Clients, Warn(c) PROVE SnapshotInv'
  <2>1. UNCHANGED <<runtimes, plan>>
    BY <1>2 DEF Warn, Fail, daemon, process
  <2> QED BY <2>1 DEF SnapshotInv
<1>3. ASSUME NEW c \in Clients, Connect(c) PROVE SnapshotInv'
  <2>1. UNCHANGED <<runtimes, plan>>
    BY <1>3 DEF Connect, Fail, daemon, process
  <2> QED BY <2>1 DEF SnapshotInv
<1>4. ASSUME NEW c \in Clients, ConnectFails(c) PROVE SnapshotInv'
  <2>1. UNCHANGED <<runtimes, plan>>
    BY <1>4 DEF ConnectFails, Fail, daemon, process
  <2> QED BY <2>1 DEF SnapshotInv
<1>5. ASSUME NEW c \in Clients, SpawnDaemon(c) PROVE SnapshotInv'
  <2>1. RunDaemon(world.env[c], "here")
    BY <1>5 DEF SpawnDaemon
  <2> QED BY <2>1, RunDaemonTakesSnapshots
<1>6. ASSUME NEW c \in Clients, SpawnFails(c) PROVE SnapshotInv'
  <2>1. UNCHANGED <<runtimes, plan>>
    BY <1>6 DEF SpawnFails, Fail, daemon, process
  <2> QED BY <2>1 DEF SnapshotInv
<1>7. ASSUME NEW c \in Clients, HandleResolve(c) PROVE SnapshotInv'
  <2>1. UNCHANGED runtimes /\ at[c] = "sent"
    BY <1>7 DEF HandleResolve, Fail, process
  <2>2. c \notin DOMAIN runtimes
    BY <2>1 DEF RuntimeInv, RowInv, Active
  <2>3. \A t \in DOMAIN runtimes : plan'[t] = plan[t]
    BY <1>7, <2>2 DEF HandleResolve, Fail, Shape, RuntimeInv, RowInv, Active, process
  <2> QED BY <2>1, <2>3 DEF SnapshotInv
<1>8. ASSUME NEW c \in Clients, CheckName(c) PROVE SnapshotInv'
  <2>1. UNCHANGED <<runtimes, plan>>
    BY <1>8 DEF CheckName, Fail, daemon, process
  <2> QED BY <2>1 DEF SnapshotInv
<1>9. ASSUME NEW c \in Clients, CreateTask(c) PROVE SnapshotInv'
  <2>1. UNCHANGED <<runtimes, plan>>
    BY <1>9 DEF CreateTask, Fail, daemon, process
  <2> QED BY <2>1 DEF SnapshotInv
<1>10. ASSUME NEW c \in Clients, CreateTaskFails(c) PROVE SnapshotInv'
  <2>1. UNCHANGED <<runtimes, plan>>
    BY <1>10 DEF CreateTaskFails, Fail, daemon, process
  <2> QED BY <2>1 DEF SnapshotInv
<1>11. ASSUME NEW c \in Clients, StartRuntime(c) PROVE SnapshotInv'
  <2>1. /\ UNCHANGED plan /\ at[c] = "inserted"
        /\ runtimes' = Over(Only(c, Runtime(tasks[c])), runtimes)
    BY <1>11 DEF StartRuntime, process
  <2>2. /\ DOMAIN runtimes' = {c} \cup DOMAIN runtimes /\ runtimes'[c] = Runtime(tasks[c])
        /\ \A t \in DOMAIN runtimes : t # c => runtimes'[t] = runtimes[t]
    BY <2>1 DEF Over, Only
  <2>3. c \in DOMAIN tasks
    BY <2>1 DEF RuntimeInv
  <2>4. IsSnapshot(runtimes'[c], c)
    BY <2>2, <2>3, RuntimeIsSnapshot
  <2> QED BY <2>1, <2>2, <2>4 DEF SnapshotInv, IsSnapshot
<1>12. ASSUME NEW c \in Clients, Begins(c) PROVE SnapshotInv'
  <2>1. UNCHANGED <<runtimes, plan>>
    BY <1>12 DEF Begins, Fail, daemon, process
  <2> QED BY <2>1 DEF SnapshotInv
<1>13. ASSUME NEW c \in Clients, Ends(c) PROVE SnapshotInv'
  <2>1. /\ UNCHANGED plan
        /\ \A t \in DOMAIN runtimes' : t \in DOMAIN runtimes /\ runtimes'[t] = runtimes[t]
    BY <1>13 DEF Ends, process
  <2> QED BY <2>1 DEF SnapshotInv
<1>14. CASE ServiceStarts
  <2>1. RunDaemon(ServiceEnv, "away")
    BY <1>14 DEF ServiceStarts
  <2> QED BY <2>1, RunDaemonTakesSnapshots
<1>15. CASE Crash
  <2>1. runtimes' = <<>>
    BY <1>15 DEF Crash
  <2> QED BY <2>1, EmptyDomain DEF SnapshotInv
<1>16. CASE SetterStep
  <2>1. UNCHANGED <<runtimes, plan>>
    BY <1>16 DEF SetterStep, SetCheck, SetRead, SetTruncate, SetWrite, SetRename, SetDies, daemon, process
  <2> QED BY <2>1 DEF SnapshotInv
<1>17. CASE UNCHANGED vars
  <2>1. UNCHANGED <<runtimes, plan>>
    BY <1>17 DEF vars, Fail, daemon, process
  <2> QED BY <2>1 DEF SnapshotInv
<1> QED BY <1>1, <1>2, <1>3, <1>4, <1>5, <1>6, <1>7, <1>8, <1>9, <1>10, <1>11, <1>12, <1>13,
    <1>14, <1>15, <1>16, <1>17 DEF Next, ClientStep, HandlerStep

-----------------------------------------------------------------------------
(* What the two sides have resolved, and the names.                        *)

(* At first nothing is resolved and no name claimed.                       *)
LEMMA ResolveInit == Init => ResolveInv /\ NamesInv
BY EmptyDomain DEF Init, ResolveInv, NamesInv, Claims, Active, Handling

(* What the two sides know of one client.                                  *)
Knows(c) ==
  /\ at[c] # "start" => FlagKept(c)
  /\ at[c] \in {"warned", "created"} \cup Handling \/ c \in DOMAIN tasks => ClientKnows(c)
  /\ at[c] \in {"resolved", "checked"} \/ c \in DOMAIN tasks => DaemonKnows(c)

(* What a side has resolved stays resolved in a step that does not touch   *)
(* it.                                                                     *)
LEMMA KnowsFrame ==
  ASSUME ResolveInv, world' = world, NEW c \in Clients,
         /\ flags'[c] = flags[c] /\ overrides'[c] = overrides[c] /\ warned'[c] = warned[c]
         /\ plan'[c] = plan[c] /\ clientSaw'[c] = clientSaw[c] /\ daemonSaw'[c] = daemonSaw[c],
         c \in DOMAIN tasks' => c \in DOMAIN tasks,
         at[c] = "start" => at'[c] = "start",
         at'[c] \in {"warned", "created"} \cup Handling =>
           at[c] \in {"warned", "created"} \cup Handling,
         at'[c] \in {"resolved", "checked"} => at[c] \in {"resolved", "checked"}
  PROVE  Knows(c)'
<1>2. /\ Layers(clientSaw[c], c)' = Layers(clientSaw[c], c)
      /\ Layers(daemonSaw[c], c)' = Layers(daemonSaw[c], c)
  BY DEF Layers
<1>3. \A cfg : ProviderOf(c, cfg)' = ProviderOf(c, cfg)
  BY DEF ProviderOf
<1>4. FlagKept(c) => FlagKept(c)'
  BY DEF FlagKept
<1>5. ClientKnows(c) => ClientKnows(c)'
  BY <1>2, <1>3 DEF ClientKnows, Layers, ProviderOf
<1>6. DaemonKnows(c) => DaemonKnows(c)'
  BY <1>2, <1>3 DEF DaemonKnows, Layers, ProviderOf
<1>7. at'[c] # "start" => FlagKept(c)'
  BY <1>4 DEF ResolveInv
<1>8. at'[c] \in {"warned", "created"} \cup Handling \/ c \in DOMAIN tasks' => ClientKnows(c)'
  <2> HIDE DEF Handling
  <2> QED BY <1>5 DEF ResolveInv
<1>9. at'[c] \in {"resolved", "checked"} \/ c \in DOMAIN tasks' => DaemonKnows(c)'
  BY <1>6 DEF ResolveInv
<1>10. Handling' = Handling
  BY DEF Handling
<1> HIDE DEF Handling
<1> QED BY <1>7, <1>8, <1>9, <1>10 DEF Knows

(* The same of all clients at once.                                        *)
LEMMA ResolveFrame ==
  ASSUME ResolveInv, UNCHANGED <<world, flags, overrides, warned, plan, clientSaw, daemonSaw>>,
         DOMAIN tasks' \subseteq DOMAIN tasks,
         \A d \in Clients :
           /\ at[d] = "start" => at'[d] = "start"
           /\ at'[d] \in {"warned", "created"} \cup Handling =>
                at[d] \in {"warned", "created"} \cup Handling
           /\ at'[d] \in {"resolved", "checked"} => at[d] \in {"resolved", "checked"}
  PROVE  ResolveInv'
<1>1. \A c \in Clients : Knows(c)'
  BY KnowsFrame
<1> QED BY <1>1 DEF ResolveInv, Knows

(* A daemon that starts resolves nothing anew for the Tasks it finds.      *)
LEMMA RunDaemonResolves ==
  ASSUME ResolveInv, NEW env, NEW dir, RunDaemon(env, dir)
  PROVE  ResolveInv'
<1>1. UNCHANGED <<at, world, flags, overrides, warned, plan, clientSaw, daemonSaw>>
      /\ DOMAIN tasks' = DOMAIN tasks
  BY DEF RunDaemon, Reconcile, files, client, history
<1> QED BY <1>1, ResolveFrame

(* The flag becomes the one override.                                      *)
LEMMA BuildKeepsFlag ==
  ASSUME Shape, NEW c \in Clients, Build(c)
  PROVE  FlagKept(c)'
<1>1. PICK f \in world.flags :
        /\ flags'[c] = f
        /\ overrides'[c] = BuildCreateParams(c, f).overrides
  BY DEF Build, Shape
<1>2. f.provider # "" /\ f.unattended # "" =>
        BuildCreateParams(c, f).overrides = Only(UnattendedKey(f.provider), f.unattended)
  BY DEF BuildCreateParams
<1> QED BY <1>1, <1>2 DEF FlagKept

(* The warning is that of the layers the client has just read.             *)
LEMMA WarnKnows ==
  ASSUME Shape, NEW c \in Clients, Warn(c)
  PROVE  ClientKnows(c)'
<1> DEFINE g == GlobalOf(flags[c])
           p == Project(flags[c], "here")
           e == world.env[c]
<1>1. /\ warned'[c] = UnattendedEffective(c) /\ clientSaw'[c] = <<g, p, e>>
      /\ UNCHANGED <<world, flags, overrides>>
  BY DEF Warn, Shape, files
<1>2. UnattendedEffective(c) <=>
        LET r == Resolve(g, p, e, overrides[c])
        IN r.ok /\ Unattended(r.cfg, ProviderOf(c, r.cfg))
  BY DEF UnattendedEffective, ProviderOf
<1> HIDE DEF g, p, e
<1>4. clientSaw'[c][1] = g /\ clientSaw'[c][2] = p /\ clientSaw'[c][3] = e
  BY <1>1
<1>5. Layers(clientSaw[c], c)' = Resolve(g, p, e, overrides[c])
  BY <1>1, <1>4 DEF Layers
<1>6. \A cfg : ProviderOf(c, cfg)' = ProviderOf(c, cfg)
  BY <1>1 DEF ProviderOf
<1> QED BY <1>1, <1>2, <1>5, <1>6 DEF ClientKnows, Layers, ProviderOf

(* The project file that is found has typed rules.                         *)
LEMMA ProjectTyped ==
  ASSUME Shape, NEW f, NEW dir
  PROVE  RulesTyped(Project(f, dir))
<1> DEFINE dirs == IF f.relative /\ dir = "away" THEN world.away ELSE world.dirs
           n == Len(dirs)
           here == {d \in 1..n : dirs[d] # NoDoc}
<1>1. n \in Nat /\ \A d \in 1..n : RulesTyped(dirs[d])
  BY RulesAssumption DEF Shape
<1>2. CASE here = {}
  <2>1. Project(f, dir) = NoDoc
    BY <1>2 DEF Project, ProjectIn, FindProjectFile
  <2> QED BY <2>1, NoDocTyped
<1>3. CASE here # {}
  <2> DEFINE d == CHOOSE d \in here : \A e \in here : e <= d
  <2>1. Project(f, dir) = dirs[d]
    BY <1>3 DEF Project, ProjectIn, FindProjectFile
  <2>2. IsFiniteSet(1..n)
    BY <1>1, FS_Interval
  <2>3. here \in SUBSET (1..n)
    OBVIOUS
  <2> HIDE DEF here, n, dirs
  <2>4. here \in SUBSET Int
    BY <1>1, <2>3
  <2>5. IsFiniteSet(here)
    BY <2>2, <2>3, FS_Subset
  <2>6. \E m \in here : \A e \in here : e <= m
    BY <1>3, <2>4, <2>5, LeastAndGreatest
  <2>7. d \in here
    BY <2>6
  <2> HIDE DEF d
  <2> QED BY <1>1, <2>1, <2>3, <2>7
<1> QED BY <1>2, <1>3

(* What handleCreate accepts is what its layers resolve to.                *)
LEMMA HandleResolveKnows ==
  ASSUME Shape, FileInv, NEW c \in Clients, HandleResolve(c), at'[c] = "resolved"
  PROVE  DaemonKnows(c)'
<1> DEFINE project == Project(flags[c], daemonDir)
           r == Resolve(global, project, daemonEnv, overrides[c])
           provider == IF flags[c].provider # "" THEN flags[c].provider ELSE r.cfg[ProviderKey]
           mode == IF flags[c].mode # "" THEN flags[c].mode ELSE r.cfg[ModeKey]
<1>1. /\ r.ok /\ Validate(r.cfg) /\ Supported(provider, mode)
      /\ plan' = [plan EXCEPT ![c] = [cfg |-> r.cfg, provider |-> provider, mode |-> mode]]
  BY DEF HandleResolve, Fail, Shape, process
<1>2. /\ daemonSaw'[c] = <<global, project, daemonEnv>> /\ UNCHANGED <<world, flags, overrides>>
  BY DEF HandleResolve, Shape, files, client, process
<1>3. r.cfg[RulesKey] \in Seq(Rule)
  <2>1. RulesTyped(global) /\ RulesTyped(project)
    BY ProjectTyped DEF FileInv
  <2> QED BY <1>1, <2>1, ResolvedRules
<1>5. /\ daemonSaw'[c][1] = global /\ daemonSaw'[c][2] = project
      /\ daemonSaw'[c][3] = daemonEnv
  BY <1>2
<1>6. Layers(daemonSaw[c], c)' = r
  BY <1>2, <1>5 DEF Layers
<1>7. ProviderOf(c, r.cfg) = provider
  BY DEF ProviderOf
<1> HIDE DEF r, provider, mode
<1>8. /\ plan'[c].cfg = r.cfg /\ plan'[c].provider = provider /\ plan'[c].mode = mode
  BY <1>1 DEF Shape
<1>9. \A cfg : ProviderOf(c, cfg)' = ProviderOf(c, cfg)
  BY <1>2 DEF ProviderOf
<1> QED BY <1>1, <1>3, <1>6, <1>7, <1>8, <1>9 DEF DaemonKnows

(* Every step keeps ResolveInv.                                            *)
LEMMA ResolveNext ==
  ASSUME Shape, FileInv, RowInv, ResolveInv, [Next]_vars
  PROVE  ResolveInv'
<1>1. ASSUME NEW c \in Clients, Build(c) PROVE ResolveInv'
  <2>1. /\ at[c] = "start" /\ at'[c] \in {"built", "failed"}
        /\ UNCHANGED <<world, warned, plan, clientSaw, daemonSaw, tasks>>
    BY <1>1 DEF Build, files, daemon, history, Shape, process
  <2>2. \A d \in Clients : d # c =>
          at'[d] = at[d] /\ flags'[d] = flags[d] /\ overrides'[d] = overrides[d]
    BY <1>1 DEF Build, Shape
  <2>3. c \notin DOMAIN tasks
    BY <2>1 DEF RowInv
  <2>4. FlagKept(c)'
    BY <1>1, BuildKeepsFlag
  <2>5. at'[c] \notin {"warned", "created", "resolved", "checked"} \cup Handling
    BY <2>1 DEF Handling
  <2>6. Knows(c)'
    BY <2>1, <2>3, <2>4, <2>5 DEF Knows
  <2>7. ASSUME NEW d \in Clients, d # c PROVE Knows(d)'
    BY <2>1, <2>2, <2>7, KnowsFrame DEF ResolveInv
  <2> QED BY <2>6, <2>7 DEF ResolveInv, Knows
<1>2. ASSUME NEW c \in Clients, Warn(c) PROVE ResolveInv'
  <2>1. /\ at[c] = "built" /\ at'[c] = "warned"
        /\ UNCHANGED <<world, flags, overrides, plan, daemonSaw, tasks>>
    BY <1>2 DEF Warn, files, daemon, Shape, process
  <2>2. \A d \in Clients : d # c =>
          at'[d] = at[d] /\ warned'[d] = warned[d] /\ clientSaw'[d] = clientSaw[d]
    BY <1>2 DEF Warn, Shape
  <2>3. c \notin DOMAIN tasks
    BY <2>1 DEF RowInv
  <2>4. ClientKnows(c)'
    BY <1>2, WarnKnows
  <2>5. FlagKept(c)'
    BY <2>1 DEF ResolveInv, FlagKept
  <2>6. Knows(c)'
    BY <2>1, <2>3, <2>4, <2>5 DEF Knows
  <2>7. ASSUME NEW d \in Clients, d # c PROVE Knows(d)'
    BY <2>1, <2>2, <2>7, KnowsFrame DEF ResolveInv
  <2> QED BY <2>6, <2>7 DEF ResolveInv, Knows
<1>3. ASSUME NEW c \in Clients, Connect(c) PROVE ResolveInv'
  <2>1. UNCHANGED <<world, flags, overrides, warned, plan, clientSaw, daemonSaw>>
    BY <1>3 DEF Connect, Fail, files, client, history
  <2>2. DOMAIN tasks' \subseteq DOMAIN tasks
    BY <1>3 DEF Connect, Fail, daemon, process
  <2>3. \A d \in Clients :
          /\ at[d] = "start" => at'[d] = "start"
          /\ at'[d] \in {"warned", "created"} \cup Handling =>
               at[d] \in {"warned", "created"} \cup Handling
          /\ at'[d] \in {"resolved", "checked"} => at[d] \in {"resolved", "checked"}
    BY <1>3 DEF Connect, Fail, Shape, Handling
  <2> QED BY <2>1, <2>2, <2>3, ResolveFrame
<1>4. ASSUME NEW c \in Clients, ConnectFails(c) PROVE ResolveInv'
  <2>1. UNCHANGED <<world, flags, overrides, warned, plan, clientSaw, daemonSaw>>
    BY <1>4 DEF ConnectFails, Fail, files, client, history
  <2>2. DOMAIN tasks' \subseteq DOMAIN tasks
    BY <1>4 DEF ConnectFails, Fail, daemon, process
  <2>3. \A d \in Clients :
          /\ at[d] = "start" => at'[d] = "start"
          /\ at'[d] \in {"warned", "created"} \cup Handling =>
               at[d] \in {"warned", "created"} \cup Handling
          /\ at'[d] \in {"resolved", "checked"} => at[d] \in {"resolved", "checked"}
    BY <1>4 DEF ConnectFails, Fail, Shape, Handling
  <2> QED BY <2>1, <2>2, <2>3, ResolveFrame
<1>5. ASSUME NEW c \in Clients, SpawnDaemon(c) PROVE ResolveInv'
  <2>1. RunDaemon(world.env[c], "here")
    BY <1>5 DEF SpawnDaemon
  <2> QED BY <2>1, RunDaemonResolves
<1>6. ASSUME NEW c \in Clients, SpawnFails(c) PROVE ResolveInv'
  <2>1. UNCHANGED <<world, flags, overrides, warned, plan, clientSaw, daemonSaw>>
    BY <1>6 DEF SpawnFails, Fail, files, client, history
  <2>2. DOMAIN tasks' \subseteq DOMAIN tasks
    BY <1>6 DEF SpawnFails, Fail, daemon, process
  <2>3. \A d \in Clients :
          /\ at[d] = "start" => at'[d] = "start"
          /\ at'[d] \in {"warned", "created"} \cup Handling =>
               at[d] \in {"warned", "created"} \cup Handling
          /\ at'[d] \in {"resolved", "checked"} => at[d] \in {"resolved", "checked"}
    BY <1>6 DEF SpawnFails, Fail, Shape, Handling
  <2> QED BY <2>1, <2>2, <2>3, ResolveFrame
<1>7. ASSUME NEW c \in Clients, HandleResolve(c) PROVE ResolveInv'
  <2>1. /\ at[c] = "sent" /\ at'[c] \in {"resolved", "failed"}
        /\ UNCHANGED <<world, flags, overrides, warned, clientSaw, tasks>>
    BY <1>7 DEF HandleResolve, Fail, files, client, Shape, process
  <2>2. \A d \in Clients : d # c =>
          at'[d] = at[d] /\ plan'[d] = plan[d] /\ daemonSaw'[d] = daemonSaw[d]
    BY <1>7 DEF HandleResolve, Fail, Shape, process
  <2>3. c \notin DOMAIN tasks
    BY <2>1 DEF RowInv
  <2>4. at'[c] = "resolved" => DaemonKnows(c)'
    BY <1>7, HandleResolveKnows
  <2>5. FlagKept(c)' /\ ClientKnows(c)'
    <3>1. FlagKept(c) /\ ClientKnows(c)
      BY <2>1 DEF ResolveInv, Handling
    <3> QED BY <2>1, <3>1 DEF FlagKept, ClientKnows, Layers, ProviderOf
  <2>6. Knows(c)'
    BY <2>1, <2>3, <2>4, <2>5 DEF Knows
  <2>7. ASSUME NEW d \in Clients, d # c PROVE Knows(d)'
    BY <2>1, <2>2, <2>7, KnowsFrame DEF ResolveInv
  <2> QED BY <2>6, <2>7 DEF ResolveInv, Knows
<1>8. ASSUME NEW c \in Clients, CheckName(c) PROVE ResolveInv'
  <2>1. UNCHANGED <<world, flags, overrides, warned, plan, clientSaw, daemonSaw>>
    BY <1>8 DEF CheckName, Fail, files, client, history, process
  <2>2. DOMAIN tasks' \subseteq DOMAIN tasks
    BY <1>8 DEF CheckName, Fail, daemon, process
  <2>3. \A d \in Clients :
          /\ at[d] = "start" => at'[d] = "start"
          /\ at'[d] \in {"warned", "created"} \cup Handling =>
               at[d] \in {"warned", "created"} \cup Handling
          /\ at'[d] \in {"resolved", "checked"} => at[d] \in {"resolved", "checked"}
    BY <1>8 DEF CheckName, Fail, Shape, Handling, process
  <2> QED BY <2>1, <2>2, <2>3, ResolveFrame
<1>9. ASSUME NEW c \in Clients, CreateTask(c) PROVE ResolveInv'
  <2>1. /\ at[c] = "checked" /\ at'[c] = "inserted"
        /\ UNCHANGED <<world, flags, overrides, warned, plan, clientSaw, daemonSaw>>
    BY <1>9 DEF CreateTask, files, client, history, Shape, process
  <2>2. DOMAIN tasks' = {c} \cup DOMAIN tasks /\ \A d \in Clients : d # c => at'[d] = at[d]
    BY <1>9 DEF CreateTask, Over, Only, Shape, process
  <2>3. Knows(c)'
    <3>1. FlagKept(c) /\ ClientKnows(c) /\ DaemonKnows(c)
      BY <2>1 DEF ResolveInv, Handling
    <3> QED BY <2>1, <3>1 DEF Knows, FlagKept, ClientKnows, DaemonKnows, Layers, ProviderOf
  <2>4. ASSUME NEW d \in Clients, d # c PROVE Knows(d)'
    BY <2>1, <2>2, <2>4, KnowsFrame DEF ResolveInv
  <2> QED BY <2>3, <2>4 DEF ResolveInv, Knows
<1>10. ASSUME NEW c \in Clients, CreateTaskFails(c) PROVE ResolveInv'
  <2>1. UNCHANGED <<world, flags, overrides, warned, plan, clientSaw, daemonSaw>>
    BY <1>10 DEF CreateTaskFails, Fail, files, client, history, process
  <2>2. DOMAIN tasks' \subseteq DOMAIN tasks
    BY <1>10 DEF CreateTaskFails, Fail, daemon, process
  <2>3. \A d \in Clients :
          /\ at[d] = "start" => at'[d] = "start"
          /\ at'[d] \in {"warned", "created"} \cup Handling =>
               at[d] \in {"warned", "created"} \cup Handling
          /\ at'[d] \in {"resolved", "checked"} => at[d] \in {"resolved", "checked"}
    BY <1>10 DEF CreateTaskFails, Fail, Shape, Handling, process
  <2> QED BY <2>1, <2>2, <2>3, ResolveFrame
<1>11. ASSUME NEW c \in Clients, StartRuntime(c) PROVE ResolveInv'
  <2>1. UNCHANGED <<world, flags, overrides, warned, plan, clientSaw, daemonSaw>>
    BY <1>11 DEF StartRuntime, Fail, files, client, history, process
  <2>2. DOMAIN tasks' \subseteq DOMAIN tasks
    BY <1>11 DEF StartRuntime, Fail, daemon, process
  <2>3. \A d \in Clients :
          /\ at[d] = "start" => at'[d] = "start"
          /\ at'[d] \in {"warned", "created"} \cup Handling =>
               at[d] \in {"warned", "created"} \cup Handling
          /\ at'[d] \in {"resolved", "checked"} => at[d] \in {"resolved", "checked"}
    BY <1>11 DEF StartRuntime, Fail, Shape, Handling, process
  <2> QED BY <2>1, <2>2, <2>3, ResolveFrame
<1>12. ASSUME NEW c \in Clients, Begins(c) PROVE ResolveInv'
  <2>1. UNCHANGED <<world, flags, overrides, warned, plan, clientSaw, daemonSaw>>
    BY <1>12 DEF Begins, files, client, history, process
  <2>2. DOMAIN tasks' \subseteq DOMAIN tasks
    BY <1>12 DEF Begins, daemon, process
  <2>3. \A d \in Clients :
          /\ at[d] = "start" => at'[d] = "start"
          /\ at'[d] \in {"warned", "created"} \cup Handling =>
               at[d] \in {"warned", "created"} \cup Handling
          /\ at'[d] \in {"resolved", "checked"} => at[d] \in {"resolved", "checked"}
    BY <1>12 DEF Begins, Shape, Handling, process
  <2> QED BY <2>1, <2>2, <2>3, ResolveFrame
<1>13. ASSUME NEW c \in Clients, Ends(c) PROVE ResolveInv'
  <2>1. UNCHANGED <<world, flags, overrides, warned, plan, clientSaw, daemonSaw>>
    BY <1>13 DEF Ends, files, client, history, process
  <2>2. DOMAIN tasks' \subseteq DOMAIN tasks
    BY <1>13 DEF Ends, daemon, process
  <2>3. \A d \in Clients :
          /\ at[d] = "start" => at'[d] = "start"
          /\ at'[d] \in {"warned", "created"} \cup Handling =>
               at[d] \in {"warned", "created"} \cup Handling
          /\ at'[d] \in {"resolved", "checked"} => at[d] \in {"resolved", "checked"}
    BY <1>13 DEF Ends, Shape, Handling, process
  <2> QED BY <2>1, <2>2, <2>3, ResolveFrame
<1>14. CASE ServiceStarts
  <2>1. RunDaemon(ServiceEnv, "away")
    BY <1>14 DEF ServiceStarts
  <2> QED BY <2>1, RunDaemonResolves
<1>15. CASE Crash
  <2>1. UNCHANGED <<world, flags, overrides, warned, plan, clientSaw, daemonSaw>>
    BY <1>15 DEF Crash, Fail, files, client, history
  <2>2. DOMAIN tasks' \subseteq DOMAIN tasks
    BY <1>15 DEF Crash, Fail, daemon, process
  <2>3. \A d \in Clients :
          /\ at[d] = "start" => at'[d] = "start"
          /\ at'[d] \in {"warned", "created"} \cup Handling =>
               at[d] \in {"warned", "created"} \cup Handling
          /\ at'[d] \in {"resolved", "checked"} => at[d] \in {"resolved", "checked"}
    BY <1>15 DEF Crash, Fail, Shape, Handling
  <2> QED BY <2>1, <2>2, <2>3, ResolveFrame
<1>16. CASE SetterStep
  <2>1. UNCHANGED <<world, flags, overrides, warned, plan, clientSaw, daemonSaw>>
    BY <1>16 DEF SetterStep, SetCheck, SetRead, SetTruncate, SetWrite, SetRename, SetDies,
        client, history
  <2>2. DOMAIN tasks' \subseteq DOMAIN tasks
    BY <1>16 DEF SetterStep, SetCheck, SetRead, SetTruncate, SetWrite, SetRename, SetDies, daemon, process
  <2>3. \A d \in Clients :
          /\ at[d] = "start" => at'[d] = "start"
          /\ at'[d] \in {"warned", "created"} \cup Handling =>
               at[d] \in {"warned", "created"} \cup Handling
          /\ at'[d] \in {"resolved", "checked"} => at[d] \in {"resolved", "checked"}
    BY <1>16 DEF SetterStep, SetCheck, SetRead, SetTruncate, SetWrite, SetRename, SetDies, Shape,
        Handling
  <2> QED BY <2>1, <2>2, <2>3, ResolveFrame
<1>17. CASE UNCHANGED vars
  <2>1. UNCHANGED <<world, flags, overrides, warned, plan, clientSaw, daemonSaw>>
    BY <1>17 DEF vars, files, client, history
  <2>2. DOMAIN tasks' \subseteq DOMAIN tasks
    BY <1>17 DEF vars, daemon, process
  <2>3. \A d \in Clients :
          /\ at[d] = "start" => at'[d] = "start"
          /\ at'[d] \in {"warned", "created"} \cup Handling =>
               at[d] \in {"warned", "created"} \cup Handling
          /\ at'[d] \in {"resolved", "checked"} => at[d] \in {"resolved", "checked"}
    BY <1>17 DEF vars, Shape, Handling
  <2> QED BY <2>1, <2>2, <2>3, ResolveFrame
<1> QED BY <1>1, <1>2, <1>3, <1>4, <1>5, <1>6, <1>7, <1>8, <1>9, <1>10, <1>11, <1>12, <1>13,
    <1>14, <1>15, <1>16, <1>17 DEF Next, ClientStep, HandlerStep

(* A step after which no new Task claims a name keeps NamesInv.            *)
LEMMA NamesFrame ==
  ASSUME NamesInv, UNCHANGED <<flags, overlapped>>, \A d \in Clients : Claims(d)' => Claims(d)
  PROVE  NamesInv'
<1>1. \A t : NameOf(t)' = NameOf(t)
  BY DEF NameOf
<1> QED BY <1>1 DEF NamesInv

(* A daemon that starts gives no Task a name.                              *)
LEMMA RunDaemonNames ==
  ASSUME RowInv, NamesInv, NEW env, NEW dir, RunDaemon(env, dir)
  PROVE  NamesInv'
<1>1. /\ UNCHANGED <<at, flags, overlapped>>
      /\ tasks' = [t \in DOMAIN tasks |-> Recovered(tasks[t])]
  BY DEF RunDaemon, Reconcile, client, history
<1>2. ASSUME NEW t \in DOMAIN tasks
      PROVE  tasks'[t].status = IF tasks[t].status = "RUNNING" THEN "WAITING" ELSE tasks[t].status
  <2> DEFINE r == tasks[t]
  <2>1. DOMAIN r = Columns
    BY DEF RowInv
  <2>2. tasks'[t] = Recovered(r)
    BY <1>1
  <2> HIDE DEF r
  <2>3. tasks'[t].status = IF r.status = "RUNNING" THEN "WAITING" ELSE r.status
    BY <2>1, <2>2, RecoveredIs
  <2> QED BY <2>3 DEF r
<1>3. DOMAIN tasks' = DOMAIN tasks
  BY <1>1
<1>4. \A d \in Clients : Claims(d)' => Claims(d)
  BY <1>1, <1>2, <1>3 DEF Claims, Active, Terminal
<1> QED BY <1>1, <1>4, NamesFrame

(* Every step keeps NamesInv.                                              *)
LEMMA NamesNext ==
  ASSUME Shape, RowInv, RuntimeInv, NamesInv, [Next]_vars
  PROVE  NamesInv'
<1>1. ASSUME NEW c \in Clients, Build(c) PROVE NamesInv'
  <2>1. at[c] = "start" /\ at'[c] # "checked" /\ UNCHANGED <<tasks, overlapped>>
    BY <1>1 DEF Build, daemon, history, Shape, process
  <2>2. \A d \in Clients : d # c => at'[d] = at[d] /\ flags'[d] = flags[d]
    BY <1>1 DEF Build, Shape
  <2>3. ~Claims(c)'
    BY <2>1 DEF Claims, Active, RowInv
  <2>4. \A d \in Clients : d # c => (Claims(d)' => Claims(d)) /\ NameOf(d)' = NameOf(d)
    BY <2>1, <2>2 DEF Claims, Active, NameOf
  <2> QED BY <2>1, <2>3, <2>4 DEF NamesInv
<1>2. ASSUME NEW c \in Clients, Warn(c) PROVE NamesInv'
  <2>1. UNCHANGED <<flags, overlapped>>
    BY <1>2 DEF Warn
  <2>2. UNCHANGED tasks
    BY <1>2 DEF Warn, Fail, daemon, process
  <2>3. \A d \in Clients : at'[d] = "checked" => at[d] = "checked"
    BY <1>2 DEF Warn, Fail, Shape
  <2>4. \A d \in Clients : Claims(d)' => Claims(d)
    BY <2>2, <2>3 DEF Claims, Active
  <2> QED BY <2>1, <2>4, NamesFrame
<1>3. ASSUME NEW c \in Clients, Connect(c) PROVE NamesInv'
  <2>1. UNCHANGED <<flags, overlapped>>
    BY <1>3 DEF Connect, Fail, client, history
  <2>2. UNCHANGED tasks
    BY <1>3 DEF Connect, Fail, daemon, process
  <2>3. \A d \in Clients : at'[d] = "checked" => at[d] = "checked"
    BY <1>3 DEF Connect, Fail, Shape
  <2>4. \A d \in Clients : Claims(d)' => Claims(d)
    BY <2>2, <2>3 DEF Claims, Active
  <2> QED BY <2>1, <2>4, NamesFrame
<1>4. ASSUME NEW c \in Clients, ConnectFails(c) PROVE NamesInv'
  <2>1. UNCHANGED <<flags, overlapped>>
    BY <1>4 DEF ConnectFails, Fail, client, history
  <2>2. UNCHANGED tasks
    BY <1>4 DEF ConnectFails, Fail, daemon, process
  <2>3. \A d \in Clients : at'[d] = "checked" => at[d] = "checked"
    BY <1>4 DEF ConnectFails, Fail, Shape
  <2>4. \A d \in Clients : Claims(d)' => Claims(d)
    BY <2>2, <2>3 DEF Claims, Active
  <2> QED BY <2>1, <2>4, NamesFrame
<1>5. ASSUME NEW c \in Clients, SpawnDaemon(c) PROVE NamesInv'
  <2>1. RunDaemon(world.env[c], "here")
    BY <1>5 DEF SpawnDaemon
  <2> QED BY <2>1, RunDaemonNames
<1>6. ASSUME NEW c \in Clients, SpawnFails(c) PROVE NamesInv'
  <2>1. UNCHANGED <<flags, overlapped>>
    BY <1>6 DEF SpawnFails, Fail, client, history
  <2>2. UNCHANGED tasks
    BY <1>6 DEF SpawnFails, Fail, daemon, process
  <2>3. \A d \in Clients : at'[d] = "checked" => at[d] = "checked"
    BY <1>6 DEF SpawnFails, Fail, Shape
  <2>4. \A d \in Clients : Claims(d)' => Claims(d)
    BY <2>2, <2>3 DEF Claims, Active
  <2> QED BY <2>1, <2>4, NamesFrame
<1>7. ASSUME NEW c \in Clients, HandleResolve(c) PROVE NamesInv'
  <2>1. UNCHANGED <<flags, overlapped>>
    BY <1>7 DEF HandleResolve, Fail, client, process
  <2>2. UNCHANGED tasks
    BY <1>7 DEF HandleResolve, Fail, daemon, process
  <2>3. \A d \in Clients : at'[d] = "checked" => at[d] = "checked"
    BY <1>7 DEF HandleResolve, Fail, Shape, process
  <2>4. \A d \in Clients : Claims(d)' => Claims(d)
    BY <2>2, <2>3 DEF Claims, Active
  <2> QED BY <2>1, <2>4, NamesFrame
<1>8. ASSUME NEW c \in Clients, CheckName(c) PROVE NamesInv'
  <2>1. UNCHANGED <<flags, tasks>> /\ at[c] = "resolved"
    BY <1>8 DEF CheckName, Fail, client, process
  <2>2. \A d : NameOf(d)' = NameOf(d) /\ (Active(d)' <=> Active(d))
    BY <2>1 DEF NameOf, Active
  <2>3. CASE NameIsTaken(NameOf(c))
    <3>1. UNCHANGED overlapped /\ \A d \in Clients : at'[d] = "checked" => at[d] = "checked"
      BY <1>8, <2>3 DEF CheckName, Fail, Shape, process
    <3>2. \A d \in Clients : Claims(d)' => Claims(d)
      BY <2>2, <3>1 DEF Claims
    <3> QED BY <2>1, <3>1, <3>2, NamesFrame
  <2>4. CASE ~NameIsTaken(NameOf(c))
    <3>1. /\ overlapped' = overlapped \cup {{c, d} : d \in {e \in Clients : at[e] = "checked"}}
          /\ \A d \in Clients : d # c /\ at'[d] = "checked" => at[d] = "checked"
      BY <1>8, <2>4 DEF CheckName, Shape, process
    <3>2. \A d \in Clients : d # c /\ Claims(d)' => Claims(d)
      BY <2>2, <3>1 DEF Claims
    <3>3. ASSUME NEW d \in Clients, d # c, Claims(d), NameOf(d) = NameOf(c)
          PROVE  {c, d} \in overlapped'
      <4>1. ~Active(d)
        <5>1. Active(d) => tasks[d].name = NameOf(d)
          BY DEF Active, RowInv
        <5> QED BY <2>4, <3>3, <5>1 DEF NameIsTaken
      <4>2. at[d] = "checked"
        BY <3>3, <4>1 DEF Claims
      <4> QED BY <3>1, <4>2
    <3>4. SUFFICES ASSUME NEW t \in Clients, NEW u \in Clients, t # u, Claims(t)', Claims(u)',
                          NameOf(t) = NameOf(u)
                   PROVE  {t, u} \in overlapped'
      BY <2>2 DEF NamesInv
    <3>5. CASE t = c
      BY <3>2, <3>3, <3>4, <3>5
    <3>6. CASE u = c
      <4>1. {u, t} \in overlapped'
        BY <3>2, <3>3, <3>4, <3>6
      <4>2. {u, t} = {t, u}
        OBVIOUS
      <4> QED BY <4>1, <4>2
    <3>7. CASE t # c /\ u # c
      <4>1. {t, u} \in overlapped
        BY <3>2, <3>4, <3>7 DEF NamesInv
      <4> QED BY <3>1, <4>1
    <3> QED BY <3>5, <3>6, <3>7
  <2> QED BY <2>3, <2>4
<1>9. ASSUME NEW c \in Clients, CreateTask(c) PROVE NamesInv'
  <2>1. UNCHANGED <<flags, overlapped>> /\ at[c] = "checked"
    BY <1>9 DEF CreateTask, client, history, process
  <2>2. /\ DOMAIN tasks' = {c} \cup DOMAIN tasks
        /\ \A t \in DOMAIN tasks : t # c => tasks'[t] = tasks[t]
    BY <1>9 DEF CreateTask, Over, Only, process
  <2>3. \A d \in Clients : d # c => at'[d] = at[d]
    BY <1>9 DEF CreateTask, Shape, process
  <2>4. \A d \in Clients : Claims(d)' => Claims(d)
    BY <2>1, <2>2, <2>3 DEF Claims, Active
  <2> QED BY <2>1, <2>4, NamesFrame
<1>10. ASSUME NEW c \in Clients, CreateTaskFails(c) PROVE NamesInv'
  <2>1. UNCHANGED <<flags, overlapped>>
    BY <1>10 DEF CreateTaskFails, Fail, client, history, process
  <2>2. UNCHANGED tasks
    BY <1>10 DEF CreateTaskFails, Fail, daemon, process
  <2>3. \A d \in Clients : at'[d] = "checked" => at[d] = "checked"
    BY <1>10 DEF CreateTaskFails, Fail, Shape, process
  <2>4. \A d \in Clients : Claims(d)' => Claims(d)
    BY <2>2, <2>3 DEF Claims, Active
  <2> QED BY <2>1, <2>4, NamesFrame
<1>11. ASSUME NEW c \in Clients, StartRuntime(c) PROVE NamesInv'
  <2>1. UNCHANGED <<flags, overlapped>>
    BY <1>11 DEF StartRuntime, Fail, client, history, process
  <2>2. UNCHANGED tasks
    BY <1>11 DEF StartRuntime, Fail, daemon, process
  <2>3. \A d \in Clients : at'[d] = "checked" => at[d] = "checked"
    BY <1>11 DEF StartRuntime, Fail, Shape, process
  <2>4. \A d \in Clients : Claims(d)' => Claims(d)
    BY <2>2, <2>3 DEF Claims, Active
  <2> QED BY <2>1, <2>4, NamesFrame
<1>12. ASSUME NEW c \in Clients, Begins(c) PROVE NamesInv'
  <2>1. UNCHANGED <<flags, overlapped, at>> /\ tasks' = [tasks EXCEPT ![c].status = "RUNNING"]
    BY <1>12 DEF Begins, client, history, process
  <2>2. c \in DOMAIN tasks /\ tasks[c].status \notin Terminal
    BY <1>12 DEF Begins, RuntimeInv, Active, process
  <2>3. \A t : Active(t)' => Active(t)
    BY <2>1, <2>2 DEF Active
  <2>4. \A d \in Clients : Claims(d)' => Claims(d)
    BY <2>1, <2>3 DEF Claims
  <2> QED BY <2>1, <2>4, NamesFrame
<1>13. ASSUME NEW c \in Clients, Ends(c) PROVE NamesInv'
  <2>1. UNCHANGED <<flags, overlapped, at>> /\ tasks' = [tasks EXCEPT ![c].status = "SUCCEEDED"]
    BY <1>13 DEF Ends, client, history, process
  <2>2. c \in DOMAIN tasks /\ tasks[c].status \notin Terminal
    BY <1>13 DEF Ends, RuntimeInv, Active, process
  <2>3. \A t : Active(t)' => Active(t)
    BY <2>1, <2>2 DEF Active
  <2>4. \A d \in Clients : Claims(d)' => Claims(d)
    BY <2>1, <2>3 DEF Claims
  <2> QED BY <2>1, <2>4, NamesFrame
<1>14. CASE ServiceStarts
  <2>1. RunDaemon(ServiceEnv, "away")
    BY <1>14 DEF ServiceStarts
  <2> QED BY <2>1, RunDaemonNames
<1>15. CASE Crash
  <2>1. UNCHANGED <<flags, overlapped>>
    BY <1>15 DEF Crash, Fail, client, history
  <2>2. UNCHANGED tasks
    BY <1>15 DEF Crash, Fail, daemon, process
  <2>3. \A d \in Clients : at'[d] = "checked" => at[d] = "checked"
    BY <1>15 DEF Crash, Fail, Shape
  <2>4. \A d \in Clients : Claims(d)' => Claims(d)
    BY <2>2, <2>3 DEF Claims, Active
  <2> QED BY <2>1, <2>4, NamesFrame
<1>16. CASE SetterStep
  <2>1. UNCHANGED <<flags, overlapped>>
    BY <1>16 DEF SetterStep, SetCheck, SetRead, SetTruncate, SetWrite, SetRename, SetDies,
        client, history
  <2>2. UNCHANGED tasks
    BY <1>16 DEF SetterStep, SetCheck, SetRead, SetTruncate, SetWrite, SetRename, SetDies, daemon, process
  <2>3. \A d \in Clients : at'[d] = "checked" => at[d] = "checked"
    BY <1>16 DEF SetterStep, SetCheck, SetRead, SetTruncate, SetWrite, SetRename, SetDies, Shape
  <2>4. \A d \in Clients : Claims(d)' => Claims(d)
    BY <2>2, <2>3 DEF Claims, Active
  <2> QED BY <2>1, <2>4, NamesFrame
<1>17. CASE UNCHANGED vars
  <2>1. UNCHANGED <<flags, overlapped>>
    BY <1>17 DEF vars, client, history
  <2>2. UNCHANGED tasks
    BY <1>17 DEF vars, daemon, process
  <2>3. \A d \in Clients : at'[d] = "checked" => at[d] = "checked"
    BY <1>17 DEF vars, Shape
  <2>4. \A d \in Clients : Claims(d)' => Claims(d)
    BY <2>2, <2>3 DEF Claims, Active
  <2> QED BY <2>1, <2>4, NamesFrame
<1> QED BY <1>1, <1>2, <1>3, <1>4, <1>5, <1>6, <1>7, <1>8, <1>9, <1>10, <1>11, <1>12, <1>13,
    <1>14, <1>15, <1>16, <1>17 DEF Next, ClientStep, HandlerStep

-----------------------------------------------------------------------------
(* What follows from the invariant.                                        *)

(* The merge of the rules of an accepted configuration is a valid, sorted  *)
(* engine.                                                                 *)
LEMMA RulesRunnable ==
  ASSUME NEW p \in Registry, NEW cfg, cfg[RulesKey] \in Seq(Rule), Validate(cfg)
  PROVE  /\ BuiltinRules[p] \in Seq(Rule) /\ Distinct(BuiltinRules[p])
         /\ EngineAccepts(Rules(p, cfg)) /\ NewEngine(Rules(p, cfg)) = Rules(p, cfg)
<1> DEFINE builtin == BuiltinRules[p]
           user == cfg[RulesKey]
<1>1. builtin \in Seq(Rule) /\ EngineAccepts(builtin) /\ Distinct(builtin)
  BY RulesAssumption DEF Distinct
<1>2. user \in Seq(Rule) /\ EngineAccepts(user)
  BY DEF Validate, ValidRule, EngineAccepts
<1>3. Rules(p, cfg) = Merge(builtin, user)
  BY DEF Rules
<1> HIDE DEF user, builtin
<1>4. EngineAccepts(Merge(builtin, user)) /\ NewEngine(Merge(builtin, user)) = Merge(builtin, user)
  BY <1>1, <1>2, MergeKeepsRules
<1> QED BY <1>1, <1>3, <1>4 DEF builtin

(* What an extractor reads is a number or nothing.                         *)
LEMMA SourceReset ==
  ASSUME NEW extractor, NEW in \in Input
  PROVE  SourceOf(extractor, in).reset \in Int \cup {None}
<1>1. in.stdout.reset \in Int \cup {None} /\ in.stderr.reset \in Int \cup {None}
  BY DEF Input, Stream
<1> QED BY <1>1 DEF SourceOf, Joined

(* Division with remainder.                                                *)
LEMMA Division ==
  ASSUME NEW d \in Nat \ {0}, NEW a \in Int
  PROVE  \E q \in Int, r \in 0..d - 1 : a = d * q + r /\ a % d = r
<1>1. a \div d \in Int /\ a % d \in 0..d - 1
  OBVIOUS
<1>2. a = d * (a \div d) + (a % d)
  OBVIOUS
<1> QED BY <1>1, <1>2

(* The remainder is unique.                                                *)
LEMMA Remainder ==
  ASSUME NEW d \in Nat \ {0}, NEW q \in Int, NEW r \in 0..d - 1, NEW a \in Int,
         a = d * q + r
  PROVE  a % d = r
BY SMTT(30)

(* A period later the remainder is the same.                               *)
LEMMA NextPeriod ==
  ASSUME NEW d \in Nat \ {0}, NEW b \in Int
  PROVE  (b + d) % d = b % d
<1>1. PICK q \in Int, r \in 0..d - 1 : b = d * q + r /\ b % d = r
  BY Division
<1> DEFINE p == q + 1
           c == b + d
<1>2. p \in Int /\ c \in Int /\ c = d * p + r
  <2>1. d * (q + 1) = d * q + d
    BY SMTT(20)
  <2> QED BY <1>1, <2>1
<1> HIDE DEF p, c
<1>3. c % d = r
  BY <1>2, Remainder
<1> QED BY <1>1, <1>3 DEF c

(* Today's instant of a time of day is within a day of now, and so is      *)
(* tomorrow's.                                                             *)
LEMMA SameTimeOfDay ==
  ASSUME NEW d \in Nat \ {0}, NEW a \in Int, NEW t \in Int
  PROVE  LET b == a - (a % d) + (t % d)
         IN /\ b \in Int /\ a - d < b /\ b < a + d
            /\ b % d = t % d /\ (b + d) % d = t % d
<1> DEFINE q == a % d
           s == t % d
           b == a - q + s
<1>1. q \in 0..d - 1 /\ s \in 0..d - 1
  OBVIOUS
<1>2. b % d = s
  BY SMTT(30)
<1> HIDE DEF q, s
<1>3. b \in Int /\ a - d < b /\ b < a + d
  BY <1>1
<1> HIDE DEF b
<1>4. (b + d) % d = b % d
  BY <1>3, NextPeriod
<1> QED BY <1>2, <1>3, <1>4 DEF b, q, s

(* The next clock time is after now, at most a day later, at that time of  *)
(* day.                                                                    *)
LEMMA NextClockIsNext ==
  ASSUME NEW tod \in Int, NEW now \in Int
  PROVE  LET next == NextClockOccurrence(tod, now)
         IN /\ next \in Int /\ now < next /\ next <= now + Day
            /\ next % Day = tod % Day
<1> DEFINE today == now - (now % Day) + (tod % Day)
<1>1. Day \in Nat \ {0}
  BY DetectionAssumption
<1>2. /\ today \in Int /\ now - Day < today /\ today < now + Day
      /\ today % Day = tod % Day /\ (today + Day) % Day = tod % Day
  BY <1>1, SameTimeOfDay
<1>3. NextClockOccurrence(tod, now) = IF today > now THEN today ELSE today + Day
  BY DEF NextClockOccurrence
<1> HIDE DEF today
<1>4. CASE today > now
  BY <1>1, <1>2, <1>3, <1>4
<1>5. CASE ~(today > now)
  <2>1. today <= now
    BY <1>2, <1>5
  <2>2. /\ today + Day \in Int /\ now < today + Day /\ today + Day <= now + Day
    BY <1>1, <1>2, <2>1
  <2> QED BY <1>2, <1>3, <1>5, <2>2
<1> QED BY <1>4, <1>5

(* A reset time that is not ignored is after now.                          *)
LEMMA ExtractedReset ==
  ASSUME NEW extractor, NEW in \in Input, NEW now \in Int,
         ExtractReset(extractor, in, now) # None
  PROVE  LET reset == ExtractReset(extractor, in, now)
         IN /\ reset > now
            /\ extractor.kind = "clock_time" =>
                 /\ reset <= now + Day
                 /\ reset % Day = SourceOf(extractor, in).reset % Day
<1> DEFINE raw == SourceOf(extractor, in).reset
           instant == ParseReset(extractor.kind, raw, now)
<1>1. raw \in Int
  BY SourceReset DEF ExtractReset
<1>2. ExtractReset(extractor, in, now) = instant /\ ~(instant <= now)
  BY DEF ExtractReset
<1> HIDE DEF raw
<1>3. NextClockOccurrence(raw, now) \in Int
  BY <1>1, NextClockIsNext
<1>4. instant \in Int
  BY <1>1, <1>3 DEF ParseReset
<1>5. extractor.kind = "clock_time" => instant = NextClockOccurrence(raw, now)
  BY DEF ParseReset
<1> HIDE DEF instant
<1>6. extractor.kind = "clock_time" => instant <= now + Day /\ instant % Day = raw % Day
  BY <1>1, <1>5, NextClockIsNext
<1> QED BY <1>2, <1>4, <1>6 DEF raw

-----------------------------------------------------------------------------
(* What a runtime runs was accepted by its create.                         *)
LEMMA RuntimeKnown ==
  ASSUME IInv, NEW t \in DOMAIN runtimes
  PROVE  /\ t \in Clients /\ t \in DOMAIN tasks /\ DaemonKnows(t)
         /\ tasks[t].cfg = plan[t].cfg /\ tasks[t].provider = plan[t].provider
         /\ runtimes[t].cfg = plan[t].cfg
         /\ runtimes[t].engine = NewEngine(Rules(plan[t].provider, plan[t].cfg))
<1>1. t \in Clients /\ t \in DOMAIN tasks
  BY DEF IInv, RuntimeInv, Active, RowInv
<1> QED BY <1>1 DEF IInv, RowInv, SnapshotInv, ResolveInv

(* An accepted plan has an engine.                                         *)
LEMMA PlanRunnable ==
  ASSUME NEW c, DaemonKnows(c)
  PROVE  LET builtin == BuiltinRules[plan[c].provider]
             rules == Rules(plan[c].provider, plan[c].cfg)
         IN /\ builtin \in Seq(Rule) /\ Distinct(builtin)
            /\ plan[c].cfg[RulesKey] \in Seq(Rule)
            /\ EngineAccepts(rules) /\ NewEngine(rules) = rules
<1> DEFINE p == plan[c].provider
           cfg == plan[c].cfg
<1>1. p \in Registry /\ cfg[RulesKey] \in Seq(Rule) /\ Validate(cfg)
  BY DEF DaemonKnows, Supported
<1> HIDE DEF p, cfg
<1>2. /\ BuiltinRules[p] \in Seq(Rule) /\ Distinct(BuiltinRules[p])
      /\ EngineAccepts(Rules(p, cfg)) /\ NewEngine(Rules(p, cfg)) = Rules(p, cfg)
  BY <1>1, RulesRunnable
<1> QED BY <1>1, <1>2 DEF p, cfg

(* IInv implies RunsAsAccepted.                                            *)
LEMMA InvRuns == IInv => RunsAsAccepted
<1> SUFFICES ASSUME IInv PROVE RunsAsAccepted
  OBVIOUS
<1>1. TypeOK
  BY DEF IInv, Shape, FileInv, RowInv, RuntimeInv, TypeOK
<1>2. AcceptedIsRunnable
  <2> SUFFICES ASSUME NEW t \in DOMAIN tasks
               PROVE  /\ Supported(tasks[t].provider, tasks[t].mode)
                      /\ EngineAccepts(Rules(tasks[t].provider, tasks[t].cfg))
    BY DEF AcceptedIsRunnable
  <2>1. /\ t \in Clients /\ tasks[t].provider = plan[t].provider
        /\ tasks[t].mode = plan[t].mode /\ tasks[t].cfg = plan[t].cfg
    BY DEF IInv, RowInv
  <2>2. DaemonKnows(t)
    BY <2>1 DEF IInv, ResolveInv
  <2>3. EngineAccepts(Rules(plan[t].provider, plan[t].cfg))
    BY <2>2, PlanRunnable
  <2>4. Supported(plan[t].provider, plan[t].mode)
    BY <2>2 DEF DaemonKnows
  <2> QED BY <2>1, <2>3, <2>4
<1>3. SnapshotSurvives
  <2> SUFFICES ASSUME NEW t \in DOMAIN runtimes
               PROVE  /\ runtimes[t].cfg = plan[t].cfg
                      /\ runtimes[t].engine = Rules(plan[t].provider, plan[t].cfg)
    BY DEF SnapshotSurvives
  <2>1. /\ DaemonKnows(t) /\ runtimes[t].cfg = plan[t].cfg
        /\ runtimes[t].engine = NewEngine(Rules(plan[t].provider, plan[t].cfg))
    BY RuntimeKnown
  <2>2. NewEngine(Rules(plan[t].provider, plan[t].cfg)) = Rules(plan[t].provider, plan[t].cfg)
    BY <2>1, PlanRunnable
  <2> QED BY <2>1, <2>2
<1> QED BY <1>1, <1>2, <1>3 DEF RunsAsAccepted

(* Every runtime classifies by the winning slot.                           *)
LEMMA RuntimeDecides ==
  ASSUME IInv, NEW t \in DOMAIN runtimes, NEW in, NEW now
  PROVE  SlotDecides(runtimes[t].engine, BuiltinRules[tasks[t].provider],
                     tasks[t].cfg[RulesKey], in, now)
<1> DEFINE builtin == BuiltinRules[tasks[t].provider]
           user == tasks[t].cfg[RulesKey]
<1>1. /\ DaemonKnows(t) /\ tasks[t].cfg = plan[t].cfg /\ tasks[t].provider = plan[t].provider
      /\ runtimes[t].engine = NewEngine(Rules(plan[t].provider, plan[t].cfg))
  BY RuntimeKnown
<1>2. builtin \in Seq(Rule) /\ Distinct(builtin) /\ user \in Seq(Rule)
  BY <1>1, PlanRunnable
<1>3. runtimes[t].engine = NewEngine(Merge(builtin, user))
  BY <1>1 DEF Rules
<1> HIDE DEF builtin, user
<1>4. SlotDecides(NewEngine(Merge(builtin, user)), builtin, user, in, now)
  BY <1>2, BestSlotDecides
<1> QED BY <1>3, <1>4 DEF builtin, user

(* The fields of a verdict.                                                *)
LEMMA VerdictFields ==
  ASSUME NEW v, NEW category, NEW rule, NEW reset,
         v = [category |-> category, rule |-> rule, reset |-> reset]
  PROVE  v.category = category /\ v.rule = rule /\ v.reset = reset
OBVIOUS

(* Deciding by the winning slot is what the documented verdict asks for.   *)
LEMMA VerdictOfTheBest ==
  ASSUME NEW engine, NEW builtin, NEW user, NEW in,
         SlotDecides(engine, builtin, user, in, 0)
  PROVE  BestMatchDecides(engine, builtin, user, in)
<1> DEFINE matching == MatchingSlots(builtin, user, in)
           verdict == Classify(engine, in, 0)
<1>1. \/ /\ matching = {}
         /\ verdict = [category |-> "UNKNOWN", rule |-> "", reset |-> None]
      \/ \E s \in matching :
           /\ Wins(s, matching)
           /\ verdict = [category |-> s.rule.category, rule |-> s.rule.name,
                         reset |-> ExtractReset(s.rule.extractor, in, 0)]
  BY DEF SlotDecides
<1>2. BestMatchDecides(engine, builtin, user, in)
        <=> IF matching = {} THEN verdict.category = "UNKNOWN" /\ verdict.rule = ""
            ELSE \E s \in matching : Wins(s, matching)
                   /\ verdict.category = s.rule.category /\ verdict.rule = s.rule.name
  BY DEF BestMatchDecides, MatchingSlots
<1> HIDE DEF matching, verdict
<1>3. CASE matching = {}
  <2>1. verdict = [category |-> "UNKNOWN", rule |-> "", reset |-> None]
    BY <1>1, <1>3, Zenon
  <2>2. verdict.category = "UNKNOWN" /\ verdict.rule = ""
    BY <2>1, VerdictFields
  <2> QED BY <1>2, <1>3, <2>2
<1>4. CASE matching # {}
  <2>1. PICK s \in matching :
          /\ Wins(s, matching)
          /\ verdict = [category |-> s.rule.category, rule |-> s.rule.name,
                        reset |-> ExtractReset(s.rule.extractor, in, 0)]
    BY <1>1, <1>4, Zenon
  <2> DEFINE category == s.rule.category
             rule == s.rule.name
             reset == ExtractReset(s.rule.extractor, in, 0)
  <2>2. verdict.category = category /\ verdict.rule = rule
    <3>1. verdict = [category |-> category, rule |-> rule, reset |-> reset]
      BY <2>1
    <3> HIDE DEF category, rule, reset
    <3> QED BY <3>1, VerdictFields
  <2>3. \E o \in matching : Wins(o, matching)
          /\ verdict.category = o.rule.category /\ verdict.rule = o.rule.name
    BY <2>1, <2>2
  <2> QED BY <1>2, <1>4, <2>3
<1> QED BY <1>3, <1>4

(* ResetIsNext, of one engine and one attempt.                             *)
ResetIsAhead(engine, builtin, user, in, now) ==
  LET verdict == Classify(engine, in, now)
      matching == MatchingSlots(builtin, user, in)
  IN /\ verdict.reset > now
     /\ \A s \in matching :
          Wins(s, matching) /\ s.rule.extractor.kind = "clock_time" =>
            /\ verdict.reset <= now + Day
            /\ verdict.reset % Day = SourceOf(s.rule.extractor, in).reset % Day

(* The reset time is that of the winning rule.                             *)
LEMMA ResetOfTheBest ==
  ASSUME NEW engine, NEW builtin, NEW user, NEW in \in Input, NEW now \in Int,
         SlotDecides(engine, builtin, user, in, now),
         Classify(engine, in, now).reset # None
  PROVE  ResetIsAhead(engine, builtin, user, in, now)
<1> DEFINE matching == MatchingSlots(builtin, user, in)
           verdict == Classify(engine, in, now)
<1>1. \/ /\ matching = {}
         /\ verdict = [category |-> "UNKNOWN", rule |-> "", reset |-> None]
      \/ \E s \in matching :
           /\ Wins(s, matching)
           /\ \A o \in matching : Wins(o, matching) => o = s
           /\ verdict = [category |-> s.rule.category, rule |-> s.rule.name,
                         reset |-> ExtractReset(s.rule.extractor, in, now)]
  BY DEF SlotDecides
<1>2. verdict.reset # None
  OBVIOUS
<1> HIDE DEF matching, verdict
<1>3. \E s \in matching :
        /\ \A o \in matching : Wins(o, matching) => o = s
        /\ verdict.reset = ExtractReset(s.rule.extractor, in, now)
  <2>1. ~(verdict = [category |-> "UNKNOWN", rule |-> "", reset |-> None])
    BY <1>2, VerdictFields
  <2>2. PICK s \in matching :
           /\ \A o \in matching : Wins(o, matching) => o = s
           /\ verdict = [category |-> s.rule.category, rule |-> s.rule.name,
                         reset |-> ExtractReset(s.rule.extractor, in, now)]
    BY <1>1, <2>1
  <2> DEFINE category == s.rule.category
             rule == s.rule.name
             reset == ExtractReset(s.rule.extractor, in, now)
  <2>3. verdict.reset = reset
    <3>1. verdict = [category |-> category, rule |-> rule, reset |-> reset]
      BY <2>2
    <3> HIDE DEF category, rule, reset
    <3> QED BY <3>1, VerdictFields
  <2> QED BY <2>2, <2>3
<1>4. PICK s \in matching :
        /\ \A o \in matching : Wins(o, matching) => o = s
        /\ verdict.reset = ExtractReset(s.rule.extractor, in, now)
  BY <1>3
<1> DEFINE extractor == s.rule.extractor
<1>5. ExtractReset(extractor, in, now) # None
  BY <1>2, <1>4
<1> HIDE DEF extractor
<1>6. /\ ExtractReset(extractor, in, now) > now
      /\ extractor.kind = "clock_time" =>
           /\ ExtractReset(extractor, in, now) <= now + Day
           /\ ExtractReset(extractor, in, now) % Day = SourceOf(extractor, in).reset % Day
  BY <1>5, ExtractedReset
<1>7. /\ verdict.reset > now
      /\ s.rule.extractor.kind = "clock_time" =>
           /\ verdict.reset <= now + Day
           /\ verdict.reset % Day = SourceOf(s.rule.extractor, in).reset % Day
  BY <1>4, <1>6 DEF extractor
<1>8. /\ verdict.reset > now
      /\ \A o \in matching :
           Wins(o, matching) /\ o.rule.extractor.kind = "clock_time" =>
             /\ verdict.reset <= now + Day
             /\ verdict.reset % Day = SourceOf(o.rule.extractor, in).reset % Day
  BY <1>4, <1>7
<1> QED BY <1>8 DEF matching, verdict, ResetIsAhead

(* IInv implies ClassifiesAsDocumented.                                    *)
LEMMA InvClassifies == IInv => ClassifiesAsDocumented
<1> SUFFICES ASSUME IInv PROVE ClassifiesAsDocumented
  OBVIOUS
<1>1. VerdictIsBestMatch
  <2> SUFFICES ASSUME NEW t \in DOMAIN runtimes, NEW in \in Inputs
               PROVE  BestMatchDecides(runtimes[t].engine, BuiltinRules[tasks[t].provider],
                                       tasks[t].cfg[RulesKey], in)
    BY DEF VerdictIsBestMatch
  <2>1. SlotDecides(runtimes[t].engine, BuiltinRules[tasks[t].provider],
                    tasks[t].cfg[RulesKey], in, 0)
    BY RuntimeDecides
  <2> QED BY <2>1, VerdictOfTheBest
<1>2. ResetIsNext
  <2> SUFFICES ASSUME NEW t \in DOMAIN runtimes, NEW in \in Inputs, NEW now \in Times,
                      Classify(runtimes[t].engine, in, now).reset # None
               PROVE  ResetIsAhead(runtimes[t].engine, BuiltinRules[tasks[t].provider],
                                   tasks[t].cfg[RulesKey], in, now)
    BY DEF ResetIsNext, ResetIsAhead, MatchingSlots
  <2> DEFINE engine == runtimes[t].engine
             builtin == BuiltinRules[tasks[t].provider]
             user == tasks[t].cfg[RulesKey]
  <2>1. in \in Input /\ now \in Int
    BY CreationAssumption
  <2>2. SlotDecides(engine, builtin, user, in, now)
    BY RuntimeDecides
  <2>3. Classify(engine, in, now).reset # None
    OBVIOUS
  <2> HIDE DEF engine, builtin, user
  <2>4. ResetIsAhead(engine, builtin, user, in, now)
    BY <2>1, <2>2, <2>3, ResetOfTheBest
  <2> QED BY <2>4 DEF engine, builtin, user
<1> QED BY <1>1, <1>2 DEF ClassifiesAsDocumented

(* The layers leave the overrides alone.                                   *)
OverridesKept(saw, c) ==
  \A k \in DOMAIN overrides[c] : Layers(saw, c).cfg[k] = overrides[c][k]

(* Whatever layers were seen, the overrides decide.                        *)
LEMMA LayersOverridden ==
  ASSUME NEW saw, NEW c, Layers(saw, c).ok
  PROVE  OverridesKept(saw, c)
<1> DEFINE g == saw[1]
           p == saw[2]
           env == saw[3]
           ov == overrides[c]
<1>1. Layers(saw, c) = Resolve(g, p, env, ov)
  BY DEF Layers
<1> HIDE DEF g, env, ov, p
<1>2. Resolve(g, p, env, ov).ok
  BY <1>1
<1>3. \A k \in DOMAIN ov : Resolve(g, p, env, ov).cfg[k] = ov[k]
  BY <1>2, OverridesWin
<1> QED BY <1>1, <1>3 DEF ov, OverridesKept

(* IInv implies UnattendedIsWanted.                                        *)
LEMMA InvWanted == IInv => UnattendedIsWanted
<1> SUFFICES ASSUME IInv PROVE UnattendedIsWanted
  OBVIOUS
<1>1. ASSUME NEW t \in DOMAIN tasks
      PROVE  /\ FlagKept(t) /\ ClientKnows(t) /\ DaemonKnows(t)
             /\ tasks[t].cfg = plan[t].cfg /\ tasks[t].provider = plan[t].provider
  <2>1. t \in Clients /\ at[t] # "start"
    BY DEF IInv, RowInv
  <2> QED BY <2>1 DEF IInv, RowInv, ResolveInv
<1>2. FlagReachesTheProvider
  <2> SUFFICES ASSUME NEW t \in DOMAIN tasks, flags[t].provider # "", flags[t].unattended # ""
               PROVE  tasks[t].cfg[UnattendedKey(tasks[t].provider)] = flags[t].unattended
    BY DEF FlagReachesTheProvider
  <2> DEFINE key == UnattendedKey(flags[t].provider)
             r == Layers(daemonSaw[t], t)
  <2>1. overrides[t] = Only(key, flags[t].unattended)
    BY <1>1 DEF FlagKept
  <2>2. r.ok /\ plan[t].cfg = r.cfg /\ plan[t].provider = flags[t].provider
    BY <1>1 DEF DaemonKnows, ProviderOf
  <2>3. \A k \in DOMAIN overrides[t] : r.cfg[k] = overrides[t][k]
    <3>1. OverridesKept(daemonSaw[t], t)
      BY <2>2, LayersOverridden
    <3> QED BY <3>1 DEF OverridesKept
  <2>4. tasks[t].cfg = r.cfg /\ UnattendedKey(tasks[t].provider) = key
    BY <1>1, <2>2
  <2> HIDE DEF key, r
  <2>5. key \in DOMAIN overrides[t] /\ overrides[t][key] = flags[t].unattended
    BY <2>1 DEF Only
  <2> QED BY <2>3, <2>4, <2>5
<1>3. WarnedIfUnattended
  <2> SUFFICES ASSUME NEW t \in DOMAIN tasks, clientSaw[t] = daemonSaw[t],
                      Unattended(tasks[t].cfg, tasks[t].provider)
               PROVE  warned[t]
    BY DEF WarnedIfUnattended
  <2> DEFINE r == Layers(clientSaw[t], t)
  <2>1. Layers(daemonSaw[t], t) = r
    BY DEF Layers
  <2>2. r.ok /\ tasks[t].cfg = r.cfg /\ tasks[t].provider = ProviderOf(t, r.cfg)
    BY <1>1, <2>1 DEF DaemonKnows
  <2>3. warned[t] <=> r.ok /\ Unattended(r.cfg, ProviderOf(t, r.cfg))
    BY <1>1 DEF ClientKnows
  <2> HIDE DEF r
  <2>4. Unattended(r.cfg, ProviderOf(t, r.cfg))
    BY <2>2
  <2> QED BY <2>2, <2>3, <2>4
<1> QED BY <1>2, <1>3 DEF UnattendedIsWanted

(* IInv implies NamesAreUnique.                                            *)
LEMMA InvNames == IInv => NamesAreUnique
BY DEF IInv, NamesInv, RowInv, Claims, Active, NamesAreUnique

(* A step of the program keeps every key of the file.                      *)
LEMMA FileGrows ==
  ASSUME FileInv, [Next]_vars
  PROVE  global # NoDoc => DOMAIN global \subseteq DOMAIN global'
<1>1. CASE SetRename
  BY <1>1 DEF SetRename, FileInv
<1>2. CASE SetterStep /\ ~SetRename
  <2>1. UNCHANGED global
    BY <1>2 DEF SetterStep, SetCheck, SetRead, SetTruncate, SetWrite, SetDies
  <2> QED BY <2>1
<1>3. CASE UNCHANGED files
  BY <1>3 DEF files
<1>4. SetterStep \/ UNCHANGED files
  <2>1. CASE UNCHANGED vars
    BY <2>1 DEF vars
  <2>2. ASSUME NEW c \in Clients, ClientStep(c) PROVE UNCHANGED files
    BY <2>2 DEF ClientStep, Build, Warn, Connect, ConnectFails, SpawnDaemon, SpawnFails,
                RunDaemon
  <2>3. ASSUME NEW c \in Clients, HandlerStep(c) PROVE UNCHANGED files
    BY <2>3 DEF HandlerStep, HandleResolve, CheckName, CreateTask, CreateTaskFails, StartRuntime, process
  <2>4. ASSUME NEW c \in Clients, Begins(c) \/ Ends(c) PROVE UNCHANGED files
    BY <2>4 DEF Begins, Ends, process
  <2>5. CASE ServiceStarts \/ Crash
    BY <2>5 DEF ServiceStarts, RunDaemon, Crash
  <2> QED BY <2>1, <2>2, <2>3, <2>4, <2>5 DEF Next
<1> QED BY <1>1, <1>2, <1>3, <1>4

-----------------------------------------------------------------------------
(* The invariant is inductive, and the theorems.                           *)

(* IInv holds in every state.                                              *)
LEMMA Inductive == Spec => []IInv
<1>1. Init => IInv
  BY ShapeInit, FileInit, RowInit, RuntimeInit, ResolveInit DEF IInv
<1>2. IInv /\ [Next]_vars => IInv'
  <2> SUFFICES ASSUME IInv, [Next]_vars PROVE IInv'
    OBVIOUS
  <2>1. /\ Shape /\ FileInv /\ RowInv /\ RuntimeInv /\ SnapshotInv /\ ResolveInv /\ NamesInv
    BY DEF IInv
  <2>2. Shape' /\ FileInv'
    BY <2>1, ShapeNext, FileNext
  <2>3. RowInv' /\ RuntimeInv'
    BY <2>1, RowNext, RuntimeNext
  <2>4. SnapshotInv' /\ ResolveInv' /\ NamesInv'
    BY <2>1, SnapshotNext, ResolveNext, NamesNext
  <2> QED BY <2>2, <2>3, <2>4 DEF IInv
<1> QED BY <1>1, <1>2, PTL DEF Spec

(* AcceptedIsOwned: while a daemon runs, every Task whose create was       *)
(* accepted and that has not ended has a runtime, and its start is on the  *)
(* way if it has not begun (handleCreate and Reconcile, at whatever step a *)
(* crash came).                                                            *)
THEOREM AcceptedTasksAreOwned == Spec => []AcceptedIsOwned
<1>1. IInv => AcceptedIsOwned
  BY DEF IInv, RuntimeInv
<1> QED BY Inductive, <1>1, PTL

(* RunsAsAccepted: the tables are what handleCreate's order allows, a row  *)
(* is only inserted for a configuration its engine and provider accept, and*)
(* a runtime runs exactly that configuration, from the create as from a    *)
(* recovery after any edits of the files (the config snapshot).            *)
THEOREM TasksRunAsAccepted == Spec => []RunsAsAccepted
BY Inductive, InvRuns, PTL

(* ClassifiesAsDocumented: the verdict of any Task's engine on any attempt *)
(* is that of the winning rule of docs/detection.md, whatever the built-in *)
(* and the user's rules, their names and priorities, and a reset time is   *)
(* after the attempt, a clock time the next of its day (merge.go,          *)
(* engine.go, reset.go).                                                   *)
THEOREM TasksAreClassifiedAsDocumented == Spec => []ClassifiesAsDocumented
BY Inductive, InvClassifies, PTL

(* UnattendedIsWanted: --unattended with --provider reaches the row of its *)
(* Task whatever the other layers say, and a Task that runs unattended was *)
(* warned of if both sides saw the same layers (buildCreateParams,         *)
(* unattendedEffective, handleCreate).                                     *)
THEOREM UnattendedIsAlwaysWanted == Spec => []UnattendedIsWanted
BY Inductive, InvWanted, PTL

(* NamesAreUnique: two Tasks that have not ended share a name only if their*)
(* creates were between the check and the insert at once (checkNameUnique).*)
THEOREM NamesAreAlwaysUnique == Spec => []NamesAreUnique
BY Inductive, InvNames, PTL

(* SettingsAreKept: no step of config set, nor its death at any step, takes*)
(* a setting from the file (setDottedValue, the rename in config_cmd.go).  *)
THEOREM SettingsAreAlwaysKept == Spec => SettingsAreKept
<1>1. IInv => FileInv
  BY DEF IInv
<1>2. FileInv /\ [Next]_vars => [global # NoDoc => DOMAIN global \subseteq DOMAIN global']_vars
  BY FileGrows
<1> QED BY Inductive, <1>1, <1>2, PTL DEF Spec, SettingsAreKept
=============================================================================
