SPECIFICATION Spec
CONSTANTS
  AccessTime = 2
  PollSlice = 3
  ResetTime = 4
  Pins = {1, 2}
INVARIANTS TypeOK LevelPending
PROPERTY ResponseLevel
