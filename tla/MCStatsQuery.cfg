\* Links come and go while their clicks are counted and their statistics read.
CONSTANTS
  w1 = w1
  a = a
  b = b
  Workers = {w1}
  MaxEvent = 2
  BatchSize = 2
  Codes = {a, b}
  NoCode = NoCode
  EventCodes = {a, NoCode}
  EventRefs = {TRUE, FALSE}
  MaxId = 2
  RedisFaults = TRUE
  PgFaults = TRUE
  Crashes = TRUE
  Restarts = FALSE
SPECIFICATION QuerySpec
INVARIANTS
  CountsOfStoredLinks
  DaysCoverTotal
PROPERTIES
  EveryEventDealtWith
