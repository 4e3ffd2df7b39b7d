SPECIFICATION FairSpec
CONSTANTS
  None = None
  MaxReplicas = 1
  Specs = {s1}
  Lagging = {}
  MaxCRs = 2
  MaxOps = 3
  MaxFaults = 0
INVARIANT TypeOK
PROPERTY AdoptionCompletes
PROPERTY ReleaseCompletes
CHECK_DEADLOCK FALSE
