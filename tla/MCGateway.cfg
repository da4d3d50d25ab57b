SPECIFICATION Spec
CONSTANTS
  Off = Off
INVARIANTS
  VerdictIsSafe
  StreamIsWhole
  LoopIsHonest
PROPERTIES
  NoCandidateIsTrue
CHECK_DEADLOCK FALSE
