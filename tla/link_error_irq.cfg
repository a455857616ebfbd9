SPECIFICATION Spec
CONSTANTS
  timer = timer
  Irqs = {timer}
  Frags = 2
  Backlog = 1
  Sigpipes = {"default"}
  MaxAccess = 2
  MaxConns = 3
  MaxFaults = 3
INVARIANT IrqsAfterEveryCompletedAccess
CHECK_DEADLOCK FALSE
