SPECIFICATION Spec
CONSTANTS
  timer = timer
  Irqs = {timer}
  Frags = 2
  Backlog = 1
  Sigpipes = {"default", "ignored"}
  MaxAccess = 4
  MaxConns = 3
  MaxFaults = 3
INVARIANTS TypeOK MatchedResponse WholeRequests
PROPERTY ImplementsRpc
CHECK_DEADLOCK FALSE
