SPECIFICATION FetchSpec
CONSTANTS
  a = a
  b = b
  c = c
  d = d
  Blocks = {a, b, c, d}
  NoBal = "no bal"
  BalOf <- MCBalOf
  RequestsOf <- MCRequestsOf
  EngineConfigured = TRUE
INVARIANT
  WitnessIsTheBlocks
CHECK_DEADLOCK FALSE
