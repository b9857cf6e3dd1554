\* Two submissions waiting at most, three in all, each leaving up to three completions.
CONSTANTS
  SqCap = 2
  CqCap = 4
  MostEvents = 2
  Tags <- MCTags
  HostPort = 0
  None = None
  MaxSubmissions = 3
SPECIFICATION MCSpec
INVARIANTS TypeOK AppliedInOrderOnce ExactlyOneReply RoomKept
PROPERTY DrainNeverOverruns
CHECK_DEADLOCK FALSE
