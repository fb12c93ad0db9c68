CONSTANTS
  None = None
  Day = 5
  BuiltinProviders = {"p", "q"}
  FirstProvider = "p"
  Clients = {"c1", "c2"}
  Worlds <- MCWorlds
  ServiceEnv <- MCServiceEnv
  Registry = {"p", "q"}
  Interactive = {"q"}
  BuiltinRules <- MCBuiltinRules
  Inputs <- MCInputs
  Times = {0, 2, 7}
  MaxSets = 1
  MaxCrashes = 1
SPECIFICATION Spec
INVARIANTS
  UnattendedFlagIsObeyed
\* When every command has returned nothing is left to do.
CHECK_DEADLOCK FALSE
