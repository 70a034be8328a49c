\* Two requests with one key, no faults.
CONSTANTS
  r1 = r1
  r2 = r2
  k = k
  c = c
  bad = bad
  Requests = {r1, r2}
  Keys = {k}
  NoKey = NoKey
  CustomCodes = {c}
  InvalidCodes = {}
  NoCode = NoCode
  MaxId = 2
  Polls = 1
  LockTTL = 2
  SlowCreates = FALSE
  Forgets = FALSE
  RedisFaults = FALSE
  PgFaults = FALSE
  Crashes = FALSE
SPECIFICATION Spec
INVARIANTS
  OneLinkPerKey
