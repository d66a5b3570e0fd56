SPECIFICATION Spec
CONSTANT Paths = {first, second}
INVARIANTS
  TypeOK
  OutputsNeedReadInputs
  MissingInputIsRefused
  StatsAfterMatching
  WrittenUnlessFailed
\* A run that has ended stays ended.
CHECK_DEADLOCK FALSE
