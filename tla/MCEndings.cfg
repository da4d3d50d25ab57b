SPECIFICATION Spec
CONSTANTS
  c1 = c1
  p1 = p1
  p2 = p2
  plain = plain
  own = own
  page = page
  call = call
  socket = socket
  k1 = k1
  k2 = k2
  d1 = d1
  Off = Off
PROPERTIES
  EverythingEnds
CHECK_DEADLOCK FALSE
