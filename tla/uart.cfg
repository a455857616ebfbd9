SPECIFICATION Spec
CONSTANTS
  AccessTime = 2
  PollSlice = 3
  ResetTime = 4
  FIFO_DEPTH = 2
  Chars = {"S", "C"}
INVARIANTS TypeOK RxHasData Announced
PROPERTY ResponseLevel
