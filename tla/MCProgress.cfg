SPECIFICATION SuiteSpec
CONSTANTS
  Rules = {u1}
  Callers = {s1}
  QueueCapacity = 1
  BatchSize = 2
  MaxStat = 0
  MaxEvents = 2
  MaxMarks = 1
  c1 = c1
  p1 = p1
  p2 = p2
  q1 = q1
  a1 = a1
  g1 = g1
  Off = Off
PROPERTIES
  EverythingSettles
  ImplementsSink
CHECK_DEADLOCK FALSE
