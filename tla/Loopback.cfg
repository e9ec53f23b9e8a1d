SPECIFICATION Spec
CONSTANTS
  Node = {n1, n2}
  Ref = {r1, r2}
  NoSession = NoSession
  lciStart = 2
  lciEnd = 3
  KernelLCIs = {1, 4}
SYMMETRY MCSymmetry
CHECK_DEADLOCK FALSE
INVARIANTS TypeOK ReservedIsInUse
PROPERTIES CallsStayWhole
