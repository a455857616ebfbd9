SPECIFICATION FairSpec
CONSTANTS
  PollSlice = 2
  WordBits = 3
  OvfCount = 5
  GuestWords = {4, 5, 7}
  MaxAccess = 3
INVARIANTS TypeOK ReadsHeldWord StoresOnce SettledPins
PROPERTIES ResponseIrqs CompareIsPosted OverflowIsPosted
