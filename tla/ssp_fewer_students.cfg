SPECIFICATION Spec
CONSTANTS
  NumPupils = 3
  NumStudents = 2
  CostValues <- MCCostsWithNegative
  Scale = 2
  IntMax = 31
  OverflowOutcomes <- MCOverflowOutcomes
INVARIANTS
  NeverNegativeEdge
  ReachedPotentialsFit
PROPERTIES
  CoveredForever
  ImplementsRounds
CHECK_DEADLOCK FALSE
