\* Requests of one address over two windows, every fault.
CONSTANTS
  r1 = r1
  r2 = r2
  a1 = a1
  Requests = {r1, r2}
  Addresses = {a1}
  Limit = 1
  W = 2
  Lag = 1
  MaxTime = 2
  MaxAsked = 2
  Faults = TRUE
SPECIFICATION FairSpec
INVARIANTS
  TypeOK
  WindowLimit
  RetryLeavesWindow
  RefusedOnlyWhenFull
PROPERTIES
  CountersExpire
