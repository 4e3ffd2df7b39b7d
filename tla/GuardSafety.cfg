SPECIFICATION Spec
CONSTANTS
  None = None
  Pods = {p1, p2}
  Replies = {"jsonTrue", "jsonFalse", "failed"}
  Ports = {0, 1}
  Override = 0
  MinScales = {None, 2}
  Workers = {w1, w2}
  Lagging = {"ksvc"}
  MaxErrors = 2
  MaxOps = 2
  MaxFaults = 0
INVARIANTS
  TypeOK
  ErrorCountExact
SYMMETRY Symmetry
CHECK_DEADLOCK FALSE
