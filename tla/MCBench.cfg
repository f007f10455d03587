SPECIFICATION Spec
CONSTANTS
  NumFiles = 3
  MaxUnits = 2
  parallelism = 2
INVARIANTS
  ProgressSane
  ResultsAreSequential
PROPERTIES
  ImplementsParallelMap
  Terminates
