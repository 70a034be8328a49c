\* Two workers, two events, a code that changes links: Redis restarts and delivers again.
CONSTANTS
  w1 = w1
  w2 = w2
  a = a
  Workers = {w1, w2}
  MaxEvent = 2
  BatchSize = 2
  Codes = {a}
  NoCode = NoCode
  EventCodes = {a, NoCode}
  EventRefs = {TRUE}
  MaxId = 2
  RedisFaults = FALSE
  PgFaults = TRUE
  Crashes = TRUE
  Restarts = TRUE
SPECIFICATION Spec
SYMMETRY MCSymmetry
INVARIANTS
  AtMostOnce
  LossNeedsFailure
  RefsWithinTotal
PROPERTIES
  ImplementsLedger
