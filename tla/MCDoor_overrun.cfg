\* As MCDoor.cfg: what the door says of its reserve.
CONSTANTS
  SqCap = 2
  CqCap = 4
  MostEvents = 2
  Tags <- MCTags
  HostPort = 0
  None = None
  MaxSubmissions = 3
SPECIFICATION MCSpec
INVARIANT TurnOutputFits
CHECK_DEADLOCK FALSE
