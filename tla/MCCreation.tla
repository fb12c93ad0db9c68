----------------------------- MODULE MCCreation -----------------------------
(***************************************************************************)
(* Creation on a small instance: the layers are chosen one interesting     *)
(* value at a time, the user's rules all sequences of at most two.         *)
(***************************************************************************)
EXTENDS Creation, TLC

NoExtractor == [source |-> "none", kind |-> ""]
NewRule(name, category, priority, exit, any) ==
  [name |-> name, category |-> category, priority |-> priority, exit |-> exit,
   stdout |-> "", stderr |-> "", any |-> any, extractor |-> NoExtractor]

MCBuiltinRules == [p \in {"p", "q"} |->
  IF p = "p"
  THEN <<NewRule("ok", "SUCCESS", 1, {0}, ""),
         [NewRule("limit", "RATE_LIMIT", 2, {}, "limit") EXCEPT
            !.extractor = [source |-> "any", kind |-> "clock_time"]]>>
  ELSE <<[NewRule("net", "TRANSIENT_ERROR", 1, {1}, "") EXCEPT
            !.stderr = "net",
            !.extractor = [source |-> "stderr", kind |-> "relative_duration"]]>>]

UserRules ==
  {NewRule("limit", "FATAL_ERROR", 1, {}, "limit"),
   NewRule("limit", "QUOTA_EXHAUSTED", 3, {1}, ""),
   NewRule("mine", "FATAL_ERROR", 2, {}, "limit"),
   NewRule("other", "UNKNOWN", 2, {0}, "")}
BadRule == NewRule("bad", "LATER", 1, {}, "")

NewStream(words, reset) == [words |-> words, reset |-> reset]
MCInputs ==
  {[exit |-> exit, stdout |-> out, stderr |-> err] :
     exit \in {0, 1},
     out \in {NewStream({}, None), NewStream({"limit"}, 2)},
     err \in {NewStream({}, None), NewStream({"net"}, -1), NewStream({"limit", "net"}, 3)}}

On(p) == UnattendedKey(p) :> "true"

Flag == [provider |-> "", mode |-> "", unattended |-> "", name |-> "",
         config |-> "default", relative |-> FALSE, autostart |-> TRUE]
Named == [Flag EXCEPT !.name = "n"]
AllFlags ==
  {Named, [Flag EXCEPT !.unattended = "false"],
   [Flag EXCEPT !.provider = "q", !.unattended = "true", !.mode = "interactive"],
   [Flag EXCEPT !.config = "other", !.autostart = FALSE],
   [Flag EXCEPT !.provider = "p", !.unattended = "false", !.name = "n"]}

Plain == [global |-> NoDoc, other |-> NoDoc, dirs |-> <<NoDoc, NoDoc>>, away |-> <<NoDoc>>,
          env |-> [c \in Clients |-> <<>>], flags |-> AllFlags, settings |-> {}]

LayerWorlds ==
  {[Plain EXCEPT !.global = g, !.dirs = d] :
     g \in {NoDoc, On("p"), ProviderKey :> "q"},
     d \in {<<NoDoc, NoDoc>>, <<On("q"), NoDoc>>, <<On("q"), <<>>>>,
            <<NoDoc, On("q") @@ (ProviderKey :> "q")>>}}
OddWorlds ==
  {[Plain EXCEPT !.global = OnUnknownKey :> "later"],
   [Plain EXCEPT !.global = UnattendedKey("p") :> "maybe"],
   [Plain EXCEPT !.global = On("new") @@ (ProviderKey :> "new")],
   [Plain EXCEPT !.other = On("p")],
   [Plain EXCEPT !.dirs[2] = ModeKey :> "interactive"],
   [Plain EXCEPT !.env = [c \in Clients |-> On("p")]],
   [Plain EXCEPT !.env["c1"] = On("p")]}
RuleWorlds ==
  {[Plain EXCEPT !.dirs[2] = RulesKey :> rules, !.flags = {Named}] :
     rules \in [1..2 -> UserRules] \cup {<<r>> : r \in UserRules} \cup {<<BadRule>>}}
SetWorlds ==
  {[Plain EXCEPT !.global = g, !.flags = {Named},
                 !.settings = {<<UnattendedKey("p"), "true">>, <<UnattendedKey("p"), "maybe">>}] :
     g \in {NoDoc, ProviderKey :> "q"}}

(* The environment is the service's, so only the project files differ.     *)
AwayWorlds ==
  {[Plain EXCEPT !.dirs[2] = here, !.away[1] = away, !.env = [c \in Clients |-> On("q")],
                 !.flags = {[Named EXCEPT !.relative = TRUE], Flag}] :
     here \in {NoDoc, On("p")}, away \in {NoDoc, On("p")}}

MCWorlds == LayerWorlds \cup OddWorlds \cup RuleWorlds \cup SetWorlds \cup AwayWorlds
MCServiceEnv == On("q")
=============================================================================
