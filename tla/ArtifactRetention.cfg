\* Three artifacts of two contents in a sampled and an unsampled group, two
\* runs of the job, one fault; every second old artifact is kept.
SPECIFICATION Spec
CONSTANTS
  k1 = k1
  k2 = k2
  Keys <- MCKeys
  Groups = {"screenshot", "download"}
  Sampled = {"screenshot"}
  KeepEvery = 2
  MaxRows = 3
  MaxJobs = 2
  MaxFaults = 1
SYMMETRY Symmetry
INVARIANTS
  TypeOK
  BlobLostOnlyToRace
  OldestKept
  OrphanOnlyFromFault
CHECK_DEADLOCK FALSE
