SPECIFICATION FairSpec
CONSTANTS
  None = None
  MaxReplicas = 2
  Specs = {s1}
  Lagging = {}
  MaxCRs = 1
  MaxOps = 0
  MaxFaults = 1
PROPERTY ReplicasHeldUntilRelease
CHECK_DEADLOCK FALSE
