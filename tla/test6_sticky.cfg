SPECIFICATION TestSpec
CONSTANTS
  PollSlice = 28
  WordBits = 4
  OvfCount = 12
  GuestWords = {}
  MaxAccess = 0
  CmpWord = 2
  LateWord = 10
PROPERTY OverflowSticks
