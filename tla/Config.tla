------------------------------- MODULE Config -------------------------------
(***************************************************************************)
(* internal/config: how a configuration is resolved from its layers, and   *)
(* which configurations Validate accepts.                                  *)
(*                                                                         *)
(* A document (a file, the environment, the flags) is a function from some *)
(* of the keys to values; a configuration has a value for every key.  The  *)
(* keys kept are one of each sort: strings at the top (default_provider,   *)
(* default_mode), one that Validate restricts (retry.on_unknown), a boolean*)
(* of a provider's table (unattended) and the one array (detection.rules). *)
(***************************************************************************)
EXTENDS Integers, Sequences, FiniteSets, Detection

CONSTANTS
  BuiltinProviders,   \* the provider tables of Default()
  FirstProvider       \* its default_provider

ASSUME ConfigAssumption ==
  IsFiniteSet(BuiltinProviders) /\ FirstProvider \in BuiltinProviders

ProviderKey   == <<"default_provider">>
ModeKey       == <<"default_mode">>
OnUnknownKey  == <<"retry", "on_unknown">>
RulesKey      == <<"detection", "rules">>
UnattendedKey(p) == <<"providers", p, "unattended">>

IsUnattended(key) == key[1] = "providers"

(* config.Default.                                                         *)
Default ==
  [key \in {ProviderKey, ModeKey, OnUnknownKey, RulesKey}
             \cup {UnattendedKey(p) : p \in BuiltinProviders} |->
     CASE key = ProviderKey  -> FirstProvider
       [] key = ModeKey      -> "headless"
       [] key = OnUnknownKey -> "retry"
       [] key = RulesKey     -> <<>>
       [] OTHER              -> "false"]

-----------------------------------------------------------------------------
(* Layers.                                                                 *)

Over(top, bottom) ==
  [key \in DOMAIN top \cup DOMAIN bottom |->
     IF key \in DOMAIN top THEN top[key] ELSE bottom[key]]
Only(key, value) == [k \in {key} |-> value]

(* A file that is not there is the document NoDoc.                         *)
NoDoc == [key \in {<<"missing">>} |-> ""]

(* A document that has rules has them typed: TOML would not decode others. *)
RulesTyped(doc) == RulesKey \in DOMAIN doc => doc[RulesKey] \in Seq(Rule)

(* mergeFile: keys absent from the file keep their value; a provider's     *)
(* table is merged key by key and may be new, an array is replaced.        *)
MergeFile(cfg, doc) == IF doc = NoDoc THEN cfg ELSE Over(doc, cfg)

(* findProjectFile: the file of the nearest directory, its own or an       *)
(* ancestor; an empty file hides those above it.  dirs[1] is the root.     *)
FindProjectFile(dirs, cwd) ==
  LET here == {d \in 1..cwd : dirs[d] # NoDoc}
  IN IF here = {} THEN NoDoc ELSE dirs[CHOOSE d \in here : \A e \in here : e <= d]

(* scalarSetters: every key but the arrays, of the tables known by then.   *)
ScalarKeys(cfg) == DOMAIN cfg \ {RulesKey}

(* setScalar: a boolean must parse.                                        *)
Parses(key, raw) == IsUnattended(key) => raw \in {"true", "false"}
WellTyped(doc) == \A key \in DOMAIN doc : key # RulesKey => Parses(key, doc[key])

Failed == [ok |-> FALSE, cfg |-> Default]

\* mutant
ResolveEnvLast(global, project, env, overrides) ==
  LET merged == MergeFile(MergeFile(Default, global), project)
      known  == [key \in DOMAIN env \cap ScalarKeys(merged) |-> env[key]]
  IN IF /\ WellTyped(global) /\ WellTyped(project) /\ WellTyped(known)
        /\ DOMAIN overrides \subseteq ScalarKeys(merged)
        /\ WellTyped(overrides)
     THEN [ok |-> TRUE, cfg |-> Over(known, Over(overrides, merged))]
     ELSE Failed
(* config.Resolve: defaults, the global file, the project file, the        *)
(* environment's scalars, then the overrides, which must name scalar keys. *)
Resolve(global, project, env, overrides) ==
  LET merged == MergeFile(MergeFile(Default, global), project)
      known  == [key \in DOMAIN env \cap ScalarKeys(merged) |-> env[key]]
  IN IF /\ WellTyped(global) /\ WellTyped(project) /\ WellTyped(known)
        /\ DOMAIN overrides \subseteq ScalarKeys(merged)
        /\ WellTyped(overrides)
     THEN [ok |-> TRUE, cfg |-> Over(overrides, Over(known, merged))]
     ELSE Failed

(* Validate: what the rest of the daemon takes for granted.                *)
\* mutant
AnyRule(rule) == TRUE
ValidRule(rule) == rule.category \in Categories
Validate(cfg) ==
  /\ cfg[ModeKey] \in {"headless", "interactive"}
  /\ cfg[OnUnknownKey] \in {"retry", "fail"}
  /\ \A i \in DOMAIN cfg[RulesKey] : ValidRule(cfg[RulesKey][i])
=============================================================================
