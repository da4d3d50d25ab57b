SPECIFICATION Spec
CONSTANTS
  Off = Off
INVARIANTS
  ReportsAreExact
  QueriesAreExact
CHECK_DEADLOCK FALSE
