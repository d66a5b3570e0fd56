SPECIFICATION Spec
CONSTANTS
  NumPupils = 2
  NumStudents = 2
  PupilData <- MCPupilData
  StudentData <- MCStudentData
  Shares <- MCShares
  Whole = 4
INVARIANTS
  SharesAreReached
CHECK_DEADLOCK FALSE
