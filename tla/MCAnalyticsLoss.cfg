\* A worker that dies between the claim and the count.
CONSTANTS
  w1 = w1
  w2 = w2
  a = a
  Workers = {w1}
  MaxEvent = 1
  BatchSize = 1
  Codes = {a}
  NoCode = NoCode
  EventCodes = {a}
  EventRefs = {FALSE}
  MaxId = 1
  RedisFaults = FALSE
  PgFaults = FALSE
  Crashes = TRUE
  Restarts = FALSE
SPECIFICATION FairSpec
PROPERTIES
  AtLeastOnce
