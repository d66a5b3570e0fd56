SPECIFICATION Spec
CONSTANTS
  NumPupils = 2
  NumStudents = 2
  Subjects = {"Deutsch", "Mathematik"}
  Requests <- MCRequests
  Offers <- MCOffers
  Matchings <- MCMatchings
  UintModulus = 16
INVARIANTS
  TypeOK
  ErrorIffInvalid
  SubjectsAddUp
  UncoveredIsExact
  FulfilledFitsOffered
  WrapsOnlyByRepeatedOffers
CHECK_DEADLOCK FALSE
