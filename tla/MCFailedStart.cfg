SPECIFICATION Spec
CONSTANTS
  Natives = {n1, n2}
  Responses = {r1}
  Owners = {o1, o2}
  MaxStarts = 3
  MaxFaults = 0
  MayFail = {"start"}
INVARIANT OwnershipSurvives
CHECK_DEADLOCK FALSE
