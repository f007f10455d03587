SPECIFICATION Spec
CONSTANTS
  Results = {ok, fail}
  Readers = {r1, r2}
  capacity = 3
  NoResult = NoResult
INVARIANTS
  TypeOK
  CopyIsSnapshot
PROPERTY
  ImplementsBoundedLog
