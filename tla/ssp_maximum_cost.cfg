SPECIFICATION Spec
CONSTANTS
  NumPupils = 2
  NumStudents = 2
  CostValues = {1, 2, 3}
  Scale = 2
  IntMax = 31
  OverflowOutcomes <- MCOverflowOutcomes
INVARIANTS
  ReturnsMaximumCostMatching
CHECK_DEADLOCK FALSE
