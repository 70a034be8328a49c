\* Two concurrent requests, every fault: safety.
CONSTANTS
  r1 = r1
  r2 = r2
  a = a
  b = b
  Requests = {r1, r2}
  Codes = {a, b}
  CustomCodes = {b}
  NoCode = NoCode
  MaxId = 2
  EncodeBase62 <- MCEncodeBase62
  CacheTTL = 1
  Lifetimes = {Forever, 2}
  Forever = Forever
  RedisFaults = TRUE
  PgFaults = TRUE
  Crashes = TRUE
  Snapshots = FALSE
SPECIFICATION Spec
SYMMETRY MCSymmetry
INVARIANTS
  TypeOK
  OneLiveRowPerCode
  MappingAuthentic
  ExpiredNeverServed
PROPERTIES
  ImplementsRegistry
