\* Three callers of two calls each, two hostcalls, under fairness.
CONSTANTS
  c1 = c1
  c2 = c2
  c3 = c3
  a1 = a1
  Callers <- MCCallers
  Answerers <- MCAnswerers
  None = None
  MaxCalls = 2
  MaxHostcalls = 2
SPECIFICATION FairSpec
INVARIANTS TypeOK OneSideRuns LentStands NoSelfWait
PROPERTIES OwnAnswer CallsEnd
CHECK_DEADLOCK FALSE
