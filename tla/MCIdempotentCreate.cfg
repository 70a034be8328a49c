\* Concurrent creates with the same key, every fault.
CONSTANTS
  r1 = r1
  r2 = r2
  k = k
  c = c
  bad = bad
  Requests = {r1, r2}
  Keys = {k}
  NoKey = NoKey
  CustomCodes = {c, bad}
  InvalidCodes = {bad}
  NoCode = NoCode
  MaxId = 2
  Polls = 2
  LockTTL = 2
  SlowCreates = TRUE
  Forgets = TRUE
  RedisFaults = TRUE
  PgFaults = TRUE
  Crashes = TRUE
SPECIFICATION FairSpec
INVARIANTS
  TypeOK
  RecordAuthentic
  RecordedNeverRecreated
  OneOwner
PROPERTIES
  EveryRequestAnswered
  KeyFreed
