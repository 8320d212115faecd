SPECIFICATION Spec
CONSTANTS
  Clients = {c1, c2}
  Ops = {"pause", "resume", "cancel", "take_control", "release_control", "approve", "reject", "retry", "retry_step", "restart"}
  Actions = {"safe", "gated", "done", "extract", "answer"}
  MaxSteps = 2
  MaxRequests = 4
SYMMETRY Symmetry
CHECK_DEADLOCK FALSE
INVARIANTS
  TypeOK
  HeldRunIsLeftAlone
  ApprovalHasWaiter
  SpentWithinGrants
PROPERTY KeepsPromise
