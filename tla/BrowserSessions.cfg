\* Three runs, two slots, two profiles; the Compose service serves p1, may be
\* started and stopped by the controller, and Chromium and commits may fail.
SPECIFICATION FairSpec
CONSTANTS
  r1 = r1
  r2 = r2
  r3 = r3
  p1 = p1
  p2 = p2
  NoRun = NoRun
  Runs <- MCRuns
  Profiles <- MCProfiles
  ProfileOf <- MCProfileOf
  MaxConcurrentRuns = 2
  ComposeControl = TRUE
  StopOnIdle = TRUE
  Served = {p1}
  DetachNow = {r2}
  Flaky <- MCFlaky
  Faults = {"attach", "commit"}
  MaxStarts = 4
INVARIANTS
  TypeOK
  StoppedOnlyByShutdown
  NobodyForgotten
PROPERTIES
  ImplementsLease
  EveryTaskEnds
  AttachmentSettles
CHECK_DEADLOCK FALSE
