SPECIFICATION Spec
CONSTANTS
  c1 = c1
  c2 = c2
  c3 = c3
  p1 = p1
  p2 = p2
  p3 = p3
  a1 = a1
  a2 = a2
  g1 = g1
  g2 = g2
  Off = Off
SYMMETRY Symmetric
INVARIANTS
  ReadyIsUnspent
  NoAutomaticReplay
  ServedIsDurable
  StagesAreUsedOnce
PROPERTIES
  HealthyIsKept
CHECK_DEADLOCK FALSE
