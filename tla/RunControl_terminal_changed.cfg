SPECIFICATION Spec
CONSTANTS
  Clients = {c1, c2}
  Ops = {"cancel"}
  Actions = {"safe", "done"}
  MaxSteps = 1
  MaxRequests = 1
CHECK_DEADLOCK FALSE
PROPERTY TerminalRunUnchanged
