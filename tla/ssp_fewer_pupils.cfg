SPECIFICATION FairSpec
CONSTANTS
  NumPupils = 2
  NumStudents = 3
  CostValues = {1, 2, 3}
  Scale = 2
  IntMax = 31
  OverflowOutcomes <- MCOverflowOutcomes
INVARIANTS
  TypeOK
  FlowIsMatching
  FlowIsMaximum
  CostWithinRounding
PROPERTIES
  Termination
CHECK_DEADLOCK FALSE
