\* Three releases boot together, every fault.
CONSTANTS
  p1 = p1
  p2 = p2
  p3 = p3
  v1 = v1
  v2 = v2
  Procs = {p1, p2, p3}
  NoProc = NoProc
  Versions = {v1, v2}
  NoVersion = NoVersion
  Files <- MCFiles
  Faults = TRUE
SPECIFICATION FairSpec
INVARIANTS
  TypeOK
  ExactlyOnce
  CheckStaysValid
  ServingMigrated
  InOrder
PROPERTIES
  EveryBootEnds
