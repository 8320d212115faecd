SPECIFICATION Spec
CONSTANTS
  Clients = {c1, c2}
  Ops = {"approve"}
  Actions = {"gated"}
  MaxSteps = 2
  MaxRequests = 2
CHECK_DEADLOCK FALSE
INVARIANT ExecutesOnlyGranted
