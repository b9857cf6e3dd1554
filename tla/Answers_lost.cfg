\* Two tickets: what the host says of a lost device.
CONSTANTS
  MaxAsks = 2
  MaxTextures = 2
  MostOps = 2
SPECIFICATION AnswersSpec
INVARIANT LossTold
CHECK_DEADLOCK FALSE
