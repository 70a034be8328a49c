\* Nothing fails.
CONSTANTS
  r1 = r1
  r2 = r2
  a = a
  b = b
  Requests = {r1, r2}
  Codes = {a, b}
  CustomCodes = {b}
  NoCode = NoCode
  MaxId = 2
  EncodeBase62 <- MCEncodeBase62
  CacheTTL = 1
  Lifetimes = {Forever}
  Forever = Forever
  RedisFaults = FALSE
  PgFaults = FALSE
  Crashes = FALSE
  Snapshots = FALSE
SPECIFICATION Spec
INVARIANTS
  GeneratedCodesNeverCollide
