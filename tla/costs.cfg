SPECIFICATION Spec
CONSTANTS
  NumPupils = 2
  NumStudents = 2
  PupilData <- MCPupilData
  StudentData <- MCStudentData
  Shares <- MCShares
  Whole = 4
INVARIANTS
  TypeOK
  CostsAreBalanced
  BalancingNeverInflates
  BetterStaysBetter
CHECK_DEADLOCK FALSE
