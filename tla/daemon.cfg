SPECIFICATION FairSpec
CONSTANTS
  Conns = {c1}
  Envs <- MCEnvs
  Headers <- MCHeaders
  Tokens = {"right", "wrong"}
  Procs = {"StreamEvents", "GetNotifications", "Notify"}
  Times = {0, 50}
INVARIANTS RunsAsConfigured ServedAreTrusted ClosedUnderHandlerHasCause ExitIsOrderly
PROPERTIES ProcessEnds
