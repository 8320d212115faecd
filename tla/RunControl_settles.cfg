SPECIFICATION FairSpec
CONSTANTS
  Clients = {c1, c2}
  Ops = {"cancel", "reject", "retry_step", "restart"}
  Actions = {"safe", "gated", "done", "extract", "answer"}
  MaxSteps = 2
  MaxRequests = 3
CHECK_DEADLOCK FALSE
PROPERTY RunSettles
