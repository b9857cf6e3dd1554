CONSTANTS
  Most = 3
  GenMod = 3
  Vals = {"a"}
  AreaWords = 5
  Contents = {"a", "b"}
  OwnWords = {0, 1}
  Leaves = {2}
  AbortSize = 1
  MaxOpens = 3
  RingRoom = 1
  RefusesWrites = FALSE
  Frames = {"f1", "f2", "f3"}
  ParkRoom = 2
  MaxWait = 1
  NoAwaiter = "none"
  Steps = 2
  Offs = 1
  MaxIds = 3
  LastPhase = 1
  HeldBack <- MCHeldBack
  Quota = 3
  Slack = 1
  MaxCost = 1
  PassCap = 2
  Cap = 2
  PosMod = 8
  Msgs = {m1, m2}
  Pkts = {p1, p2}
  Oversize = Oversize
  None = None
  MaxAsks = 2
  MaxTextures = 2
  MostOps = 2
  GenerationMod = 8
  MaxLate = 2
  MaxAhead = 2
  FirstHandle = 5
  MaxHandles = 9
  Formats = {1, 2}
  Sizes = {1, 2}
  Latency = 2
SPECIFICATION Spec
INVARIANTS FilesAgree AnswersLand WindowsKept CommandsRead
PROPERTIES NamesKept RecordsRunWhole AnswersWait WakesOnce StepsRunOnce
PROPERTIES BoundedQueue
CHECK_DEADLOCK FALSE
