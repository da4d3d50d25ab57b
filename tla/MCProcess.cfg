SPECIFICATION Spec
CONSTANTS
  n1 = n1
  n2 = n2
  r1 = r1
  o1 = o1
  o2 = o2
  p1 = p1
  p2 = p2
  p3 = p3
  plain = plain
  own = own
  page = page
  call = call
  call2 = call2
  socket = socket
  k1 = k1
  k2 = k2
  d1 = d1
  d2 = d2
  c1 = c1
  c2 = c2
  a1 = a1
  a2 = a2
  Off = Off
INVARIANTS
  OwnershipSurvives
  MemoryAgreesWithDatabase
  LeaseIsLive
  CleanStopIsQuiet
  OperationsAreExact
PROPERTIES
  NothingIsUndone
CHECK_DEADLOCK FALSE
