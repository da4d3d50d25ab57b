SPECIFICATION SuiteSpec
CONSTANTS
  Keys = {1}
  Rules = {1}
  Owner <- OneKey
  PeriodicRules = {1}
  Limits = {2}
  Periods = {1, 2}
  Costs <- SomeCosts
  Requests = {q1}
  MaxInt64 = 2
  MaxUint64 = 4
  BatchLimit = 1
  MaxTime = 1
  q1 = q1
  q2 = q2
  Off = Off
INVARIANTS
  StoredIsPast
  CleanIsDurable
  RestartPossible
  RetryTimeIsExact
PROPERTIES
  SpendingIsHonest
