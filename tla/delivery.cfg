SPECIFICATION FairSpec
CONSTANTS
  Sends = {s1, s2}
  Dests <- MCDests
  Settings <- MCSettings
INVARIANTS ReceiptsAreTrue TakenYetFailedHasCause WireIsAddressed
PROPERTIES SendReturns
CHECK_DEADLOCK FALSE
