\* Two clicks, every fault, and Redis may hang under the server.
CONSTANTS
  w1 = w1
  a = a
  Workers = {w1}
  MaxEvent = 3
  BatchSize = 2
  Codes = {a}
  NoCode = NoCode
  EventCodes = {a}
  EventRefs = {TRUE}
  MaxId = 2
  RedisFaults = TRUE
  PgFaults = TRUE
  Crashes = TRUE
  Restarts = FALSE
  BufferSize = 1
  MaxClick = 2
  MaxInFlight = 2
  ServerFaults = TRUE
  ServerCrashes = TRUE
SPECIFICATION FairPipeline
INVARIANTS
  PipelineTypeOK
  CountersTruthful
  ClicksConserved
PROPERTIES
  RedirectNeverStalls
  EveryClickSettled
