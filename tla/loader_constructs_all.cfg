SPECIFICATION Spec
CONSTANTS
  PupilEntries <- MCPupils
  StudentEntries <- MCStudents
  PupilFiles <- MCPupilFiles
  StudentFiles <- MCStudentFiles
  Filters <- MCFilters
  Subjects <- MCSubjects
  UnknownOutcomes <- MCUnknownOutcomes
  Window = 2
  SizeModulus = 16
  UnsignedModulus = 32
  GradeModulus = 16
INVARIANTS
  ConstructsAll
CHECK_DEADLOCK FALSE
