SPECIFICATION FairSpec
CONSTANTS
  NumPupils = 3
  NumStudents = 3
  Scale = 2
  CandidateEdges <- MCPathAndCycle
  CostValues <- MCHalves
INVARIANTS
  TypeOK
  FoundCycleIsNegative
  FlowKeepsItsValue
  BestFromHeuristicSize
PROPERTIES
  Termination
CHECK_DEADLOCK FALSE
