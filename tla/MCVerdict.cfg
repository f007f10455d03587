SPECIFICATION Spec
CONSTANTS
  NumUnits = 1
  RootSize = 1
  RegionSize = 3
  DefaultZiskMaxSteps = 2
  MaxStepsFlags <- MCMaxStepsFlags
  MaxWork = 3
CHECK_DEADLOCK FALSE
INVARIANT ToolsAgree
INVARIANT PassIsEarned
INVARIANT CutRunsAreErrors
