SPECIFICATION Spec
CONSTANTS
  NumPupils = 3
  NumStudents = 3
  Scale = 1
  CandidateEdges <- MCPathOfFive
  CostValues = {1, 4, 5}
INVARIANTS
  ReturnsMaximumCostMatching
CHECK_DEADLOCK FALSE
