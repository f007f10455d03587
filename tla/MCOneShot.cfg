SPECIFICATION Spec
CONSTANTS
  a = a
  b = b
  c = c
  d = d
  Blocks = {a, b, c, d}
  NoBal = "no bal"
  BalOf <- MCBalOf
  RequestsOf <- MCRequestsOf
  EngineConfigured = TRUE
  Guests = {g1, g2}
INVARIANTS
  FetchTypeOK
  RequestsAreTheBlocks
  BalErrIsRight
  ExitCodeIsVerdict
  DumpIsVector
PROPERTIES
  Ends
CHECK_DEADLOCK FALSE
