SPECIFICATION FairSpec
CONSTANTS
  None = None
  MaxReplicas = 2
  Specs = {s1}
  Lagging = {}
  MaxCRs = 2
  MaxOps = 2
  MaxFaults = 0
PROPERTY ReadoptionCompletes
CHECK_DEADLOCK FALSE
