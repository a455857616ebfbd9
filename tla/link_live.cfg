SPECIFICATION FairSpec
CONSTANTS
  timer = timer
  Irqs = {timer}
  Frags = 2
  Backlog = 1
  Sigpipes = {"default", "ignored"}
  MaxAccess = 3
  MaxConns = 3
  MaxFaults = 3
PROPERTIES AccessReturns ClosedIsReleased
CHECK_DEADLOCK FALSE
