SPECIFICATION Spec
CONSTANTS
  AccessTime = 14
  SysTime = 12
  SramTime = 4
  PollSlice = 12
  ResetTime = 6
  Pins = {1, 2}
  FIFO_DEPTH = 16
  Chars = {"S", "C", "I"}
  Scratches = {0, 1}
  Loads = {8}
  ResetLoad = 15
  Cells = {0, 4, 4092}
  WordBits = 4
  OvfCount = 12
  CmpWord = 2
  LateWord = 10
INVARIANTS NoTestFails OneInterrupt EveryLineReachesNvic OnlyTimerLinesLeft
PROPERTIES AllTestsPass ResponseShowsDevices
