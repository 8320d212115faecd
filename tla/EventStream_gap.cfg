\* No faults and no replay limit: an event is published before the socket
\* subscribes and committed after it has read the replay.
SPECIFICATION StreamSpec
CONSTANTS
  Requests <- MCRequests
  Worker = Worker
  Idle = Idle
  Nobody = Nobody
  Genesis = Genesis
  Interval = 3
  MaxEvents = 3
  MaxFaults = 0
  ReplayLimit = 3
  Window = 3
INVARIANTS
  StreamHasNoGap
CHECK_DEADLOCK FALSE
