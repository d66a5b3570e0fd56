SPECIFICATION Spec
CONSTANT Paths = {first, second}
INVARIANT MatchingIsWritten
CHECK_DEADLOCK FALSE
