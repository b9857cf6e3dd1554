\* Two submissions waiting, three completions: a turn may leave one for the
\* next.  Sends and calls on two ports, and listeners that throw.
CONSTANTS
  SqCap = 2
  CqCap = 3
  MostEvents = 1
  Ports = {0, 1}
  IdMod = 4
  Tags <- MCTags
  HostPort = 0
  None = None
  ListenersThrow = TRUE
  MaxSubmissions = 3
  MaxCalls = 1
SPECIFICATION MCSpec
INVARIANTS OwnReply NoProtocolError
PROPERTIES BoundaryHolds
CHECK_DEADLOCK FALSE
