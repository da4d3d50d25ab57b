SPECIFICATION Spec
CONSTANTS
  c1 = c1
  Off = Off
PROPERTIES
  EveryRequestEnds
CHECK_DEADLOCK FALSE
