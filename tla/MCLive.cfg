SPECIFICATION Spec
CONSTANTS
  Urls = {u1}
  MaxHeight = 3
  HeadsCap = 1
  ProbeRetryMax = 1
  RobinRange = 2
  Guests = {g1, g2}
  capacity = 4
  Faulty = TRUE
INVARIANTS
  ResultsOrdered
  NoStragglers
  BlocksComplete
  MetricsMatchResults
SYMMETRY Symmetry
CHECK_DEADLOCK FALSE
