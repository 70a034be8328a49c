\* Two concurrent requests, every fault: eventual disappearance.
CONSTANTS
  r1 = r1
  r2 = r2
  a = a
  b = b
  Requests = {r1, r2}
  Codes = {a, b}
  CustomCodes = {b}
  NoCode = NoCode
  MaxId = 2
  EncodeBase62 <- MCEncodeBase62
  CacheTTL = 1
  Lifetimes = {Forever}
  Forever = Forever
  RedisFaults = TRUE
  PgFaults = TRUE
  Crashes = TRUE
  Snapshots = TRUE
SPECIFICATION FairSpec
PROPERTIES
  DeletedFadesOut
  DeadStaysDead
