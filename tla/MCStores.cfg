SPECIFICATION SuiteSpec
CONSTANTS
  Rules = {u1, u2, u3}
  Callers = {c1, c2}
  QueueCapacity = 1
  BatchSize = 2
  MaxStat = 1
  MaxEvents = 2
  MaxMarks = 1
  r1 = r1
  r2 = r2
  r3 = r3
  t1 = t1
  t2 = t2
  Off = Off
INVARIANTS
  Accounted
  CountersAreExact
  StopMeansDrained
  NoLostWake
  ObeysItsRevision
  ExecutorIsHonest
PROPERTIES
  LateIsHarmless
