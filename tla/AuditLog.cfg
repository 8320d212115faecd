\* Two requests, the worker and the idle timer write at most five events, two
\* of which may be rolled back or cut off by a restart.
SPECIFICATION AuditSpec
CONSTANTS
  r1 = r1
  r2 = r2
  Requests <- MCRequests
  Worker = Worker
  Idle = Idle
  Nobody = Nobody
  Genesis = Genesis
  Interval = 3
  MaxEvents = 5
  MaxFaults = 2
INVARIANTS
  TypeOK
  ChainIntact
  FinalEventsSigned
  UnsealedOnlyWhenLate
PROPERTY RowsAreLedger
CHECK_DEADLOCK FALSE
