----------------------------- MODULE Detection ------------------------------
(***************************************************************************)
(* internal/detect: the merge of a provider's rules with the user's, the   *)
(* engine that classifies an attempt, and the reset time it extracts.      *)
(*                                                                         *)
(* A regular expression is the word it looks for, "" for none; a stream is *)
(* the set of the words found in it, and what its reset expression would   *)
(* capture first (None for nothing).  Times are numbers, Day is a day.     *)
(***************************************************************************)
EXTENDS Integers, Sequences, FiniteSets

CONSTANTS None, Day

ASSUME DetectionAssumption == Day \in Nat \ {0} /\ None \notin Int

Categories == {"SUCCESS", "RATE_LIMIT", "QUOTA_EXHAUSTED", "SESSION_LIMIT",
               "TRANSIENT_ERROR", "FATAL_ERROR", "UNKNOWN"}

Rule ==
  [name : STRING, category : STRING, priority : Int, exit : SUBSET Int,
   stdout : STRING, stderr : STRING, any : STRING,
   extractor : [source : STRING, kind : STRING]]

Names(rules) == {rules[i].name : i \in DOMAIN rules}

(* The elements of a set in an order, given as a set of pairs: the place of*)
(* an element is the number of those that go before it.                    *)
InOrder(S, before) ==
  [k \in 1..Cardinality(S) |->
     CHOOSE j \in S : Cardinality({i \in S : <<i, j>> \in before}) = k - 1]
Ascending(S) == {p \in S \X S : p[1] < p[2]}

(* sort.SliceStable by descending priority.                                *)
GoesBefore(rules, i, j) ==
  \/ rules[i].priority > rules[j].priority
  \/ rules[i].priority = rules[j].priority /\ i < j
PriorityOrder(rules) ==
  {p \in (DOMAIN rules) \X (DOMAIN rules) : GoesBefore(rules, p[1], p[2])}
ByPriority(rules) ==
  LET order == InOrder(DOMAIN rules, PriorityOrder(rules))
  IN [k \in DOMAIN rules |-> rules[order[k]]]

(* userByName: the last user rule of a name.                               *)
LastNamed(rules, name) ==
  rules[CHOOSE i \in DOMAIN rules :
          /\ rules[i].name = name
          /\ \A j \in DOMAIN rules : rules[j].name = name => j <= i]

\* mutant
MergeBehind(builtin, user) ==
  ByPriority(SelectSeq(builtin, LAMBDA rule : rule.name \notin Names(user)) \o user)
(* Merge: a user rule replaces the built-in of its name in its place, the  *)
(* others follow the built-ins.                                            *)
Replaced(builtin, user) ==
  [i \in DOMAIN builtin |->
     IF builtin[i].name \in Names(user)
     THEN LastNamed(user, builtin[i].name) ELSE builtin[i]]
AddedPlaces(builtin, user) == {j \in DOMAIN user : user[j].name \notin Names(builtin)}
Added(builtin, user) ==
  LET places == AddedPlaces(builtin, user)
      order  == InOrder(places, Ascending(places))
  IN [k \in 1..Cardinality(places) |-> user[order[k]]]
Merge(builtin, user) == ByPriority(Replaced(builtin, user) \o Added(builtin, user))

(* NewEngine: an unknown category is an error.                             *)
EngineAccepts(rules) == \A i \in DOMAIN rules : rules[i].category \in Categories
NewEngine(rules) == ByPriority(rules)

-----------------------------------------------------------------------------
(* Classification.                                                         *)

Stream == [words : SUBSET STRING, reset : Int \cup {None}]
Input == [exit : Int, stdout : Stream, stderr : Stream]

Joined(in) ==
  [words |-> in.stdout.words \cup in.stderr.words,
   reset |-> IF in.stdout.reset # None THEN in.stdout.reset ELSE in.stderr.reset]

Finds(word, stream) == word = "" \/ word \in stream.words

(* matches: every condition that is there holds.                           *)
Matches(rule, in) ==
  /\ rule.exit = {} \/ in.exit \in rule.exit
  /\ Finds(rule.stdout, in.stdout)
  /\ Finds(rule.stderr, in.stderr)
  /\ Finds(rule.any, Joined(in))

(* nextClockOccurrence: the next instant after now with that time of day.  *)
NextClockOccurrence(tod, now) ==
  LET today == now - (now % Day) + (tod % Day)
  IN IF today > now THEN today ELSE today + Day

(* parseReset, by the extractor's kind.                                    *)
ParseReset(kind, raw, now) ==
  CASE kind = "clock_time" -> NextClockOccurrence(raw, now)
    [] kind \in {"relative_duration", "http_retry_after"} -> now + raw
    [] OTHER -> raw

(* extractReset: a time that is not after now is ignored.                  *)
SourceOf(extractor, in) ==
  CASE extractor.source = "stdout" -> in.stdout
    [] extractor.source = "stderr" -> in.stderr
    [] OTHER -> Joined(in)
\* mutant
ExtractAnyReset(extractor, in, now) ==
  LET raw == SourceOf(extractor, in).reset
  IN IF extractor.source = "none" \/ raw = None THEN None
     ELSE ParseReset(extractor.kind, raw, now)
ExtractReset(extractor, in, now) ==
  LET raw == SourceOf(extractor, in).reset
      at  == ParseReset(extractor.kind, raw, now)
  IN IF extractor.source = "none" \/ raw = None \/ at <= now THEN None ELSE at

(* Classify: the first rule of the engine that matches.                    *)
Classify(engine, in, now) ==
  LET matching == {i \in DOMAIN engine : Matches(engine[i], in)}
      first    == CHOOSE i \in matching : \A j \in matching : i <= j
  IN IF matching = {} THEN [category |-> "UNKNOWN", rule |-> "", reset |-> None]
     ELSE [category |-> engine[first].category, rule |-> engine[first].name,
           reset |-> ExtractReset(engine[first].extractor, in, now)]
=============================================================================
