SPECIFICATION Spec
CONSTANTS
  None = None
  MaxReplicas = 2
  Specs = {s1}
  Lagging = {"cr", "svc", "ksvc"}
  MaxCRs = 2
  MaxOps = 2
  MaxFaults = 0
PROPERTY ServiceHeldUntilRelease
PROPERTY ReplicasHeldUntilRelease
PROPERTY ReleaseRestoresReplicas
CHECK_DEADLOCK FALSE
