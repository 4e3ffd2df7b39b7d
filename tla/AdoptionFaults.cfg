SPECIFICATION Spec
CONSTANTS
  None = None
  MaxReplicas = 2
  Specs = {s1}
  Lagging = {"cr", "dep"}
  MaxCRs = 2
  MaxOps = 2
  MaxFaults = 1
INVARIANT KSvcHasGuardian
PROPERTY DeploymentLast
PROPERTY TakenServiceRemembered
PROPERTY ImplementsHandoff
CHECK_DEADLOCK FALSE
