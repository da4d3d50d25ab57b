SPECIFICATION Spec
CONSTANTS
  c1 = c1
  c2 = c2
  c3 = c3
  Off = Off
SYMMETRY Symmetric
INVARIANTS
  CallsSettleOnce
  TurnsAreSerial
PROPERTIES
  NoSwitch
CHECK_DEADLOCK FALSE
