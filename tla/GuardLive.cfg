SPECIFICATION FairSpec
CONSTANTS
  None = None
  Pods = {p1, p2}
  Replies = {"affirmative", "otherText"}
  Ports = {1}
  Override = 0
  MinScales = {0, 2}
  Workers = {w1, w2}
  Lagging = {"cr", "ksvc"}
  MaxErrors = 2
  MaxOps = 1
  MaxFaults = 1
PROPERTY MinScaleConverges
PROPERTY KeepsToLane
CHECK_DEADLOCK FALSE
