\* Every part of a create's input at the edges of what is accepted.
CONSTANTS
  Base = 3
  BufLen = 3
  MaxUint = 20
  Power <- MCPower
  MaxURL = 4
  Prefix = 2
  Growths <- MCGrowths
  Half = 32
  Units <- MCUnits
  MaxExpiry = 24
  MaxKey = 2
  MinCode = 3
  MaxCode = 32
  CodeInputs <- MCCodeInputs
SPECIFICATION InputSpec
INVARIANTS
  TypeOK
  BufferSuffices
  Decodable
  HiddenCodesRefused
CHECK_DEADLOCK FALSE
