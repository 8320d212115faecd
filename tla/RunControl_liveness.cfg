SPECIFICATION FairSpec
CONSTANTS
  Clients = {c1, c2}
  Ops = {"pause", "resume", "cancel", "take_control", "release_control", "approve", "reject", "retry", "retry_step", "restart"}
  Actions = {"gated", "answer"}
  MaxSteps = 2
  MaxRequests = 3
CHECK_DEADLOCK FALSE
PROPERTY UnheldTaskEnds
