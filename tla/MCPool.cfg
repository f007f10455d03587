SPECIFICATION PoolSpec
CONSTANTS
  Urls = {u1, u2}
  MaxHeight = 4
  HeadsCap = 2
  ProbeRetryMax = 2
  RobinRange = 4
INVARIANTS
  PoolTypeOK
  HeadsOrdered
  NewestAccountedFor
  NodesUsable
PROPERTIES
  PoolEnds
