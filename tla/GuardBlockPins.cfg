SPECIFICATION Spec
CONSTANTS
  None = None
  Pods = {p1}
  Replies = {"jsonTrue", "jsonFalse"}
  Ports = {1}
  Override = 0
  MinScales = {0}
  Workers = {w1, w2}
  Lagging = {}
  MaxErrors = 2
  MaxOps = 2
  MaxFaults = 0
INVARIANT BlockPins
CHECK_DEADLOCK FALSE
