SPECIFICATION FairSpec
CONSTANTS
  AccessTime = 7
  SysTime = 6
  Scratches = {0, 1}
  PollSlice = 3
  ResetTime = 3
  Loads = {0, 1, 3}
  ResetLoad = 4
  MaxAccess = 7
INVARIANTS TypeOK OnTime SettledOutputs RequestIsRecorded
PROPERTIES NotEarly HangIsNoticed HangIsLatched
