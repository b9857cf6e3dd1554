\* Two names, records of up to one word of their own: what the host says of its reading.
CONSTANTS
  AreaWords = 5
  Contents = {"a","b"}
  OwnWords = {0,1}
  Leaves = {2}
  AbortSize = 1
SPECIFICATION RecordsSpec
INVARIANT RecordsRunOnce
CHECK_DEADLOCK FALSE
