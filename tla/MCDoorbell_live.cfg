\* As MCDoorbell.cfg, for one port and no listener that throws, under fairness.
CONSTANTS
  SqCap = 2
  CqCap = 3
  MostEvents = 1
  Ports = {1}
  IdMod = 4
  Tags <- MCTags
  HostPort = 0
  None = None
  ListenersThrow = FALSE
  MaxSubmissions = 3
  MaxCalls = 2
SPECIFICATION MCFairSpec
INVARIANTS NoWakeLost
PROPERTIES KeepsContract OperationsReturn LeftoversApplied
CHECK_DEADLOCK FALSE
