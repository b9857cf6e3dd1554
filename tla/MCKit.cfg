CONSTANTS
  Slots = {slot1, slot2}
  Lasting = {"buffer"}
  Passes = {"pass"}
  Encoders = {}
  Views = {"view"}
  StreamRoom = 5
  MakeWords = 3
  CallWords = 2
  MinLog2 = 2
  MaxLog2 = 5
  LinkBytes = 1
  EndAt = 22
  Requests = {1, 5, 9, 20}
  AllocSizes = {1, 3, 4}
  Aligns = {1, 2}
  MinClassLog2 = 0
  MinSlotsLog2 = 2
  RunBytes = 2
  HeadCount = 4
  MostLive = 5
  BufferSizes = {15, 40, 88}
  Leaves <- MCLeaves
  WideLeaves <- MCWideLeaves
  MostNodes = 3
  MostKids = 3
  Damages = {0, 1, 16}
SPECIFICATION Spec
INVARIANTS HostKeepsPace BlocksTile RunsAgree HoldWhatWasPut FormatsRead
INVARIANTS TextsDecode JsonRead
SYMMETRY SlotsAlike
CHECK_DEADLOCK FALSE
