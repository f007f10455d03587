SPECIFICATION Spec
CONSTANTS
  MaxRows = 3
  Identities <- MCIdentities
  Fates <- MCFates
  Decimal <- MCDecimal
  Word = 8
  Exact = 4
  Collated <- MCCollated
  MaxChartUnits = 2
  Targets = {"zisk", "openvm"}
  Columns = {"unit", "total"}
  Queries = {{2, 5}}
INVARIANTS
  TablesPartition
  RowsInOrder
  StatsAreRight
  NoMissingElement
  ViewFollowsControls
CHECK_DEADLOCK FALSE
