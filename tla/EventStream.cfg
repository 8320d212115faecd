\* Four events, replayed two at a time to a page that shows two; one rollback
\* or restart.
SPECIFICATION StreamSpec
CONSTANTS
  Requests <- MCRequests
  Worker = Worker
  Idle = Idle
  Nobody = Nobody
  Genesis = Genesis
  Interval = 3
  MaxEvents = 4
  MaxFaults = 1
  ReplayLimit = 2
  Window = 2
INVARIANTS
  StreamTypeOK
  SentInOrder
  MissedOnlyInFlight
  StoppedPageIsTrue
PROPERTIES
  PageCatchesUp
  PageEndsTrue
CHECK_DEADLOCK FALSE
