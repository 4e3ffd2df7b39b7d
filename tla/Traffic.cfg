SPECIFICATION FairSpec
CONSTANTS
  None = None
  Service = "app"
  Namespace = "prod"
  VSRefs <- MCVSRefs
  DRRefs <- MCDRRefs
  VSSpecs <- MCVSSpecs
  DRSpecs <- MCDRSpecs
  ServicePort = 1
  LivePorts = {2}
  Lag = TRUE
  MaxOps = 2
  MaxFaults = 1
INVARIANT TypeOK
INVARIANT OriginalsKeptUnlessLost
INVARIANT ObservedRoutesExact
PROPERTY ReleaseRestores
PROPERTY Adapts
PROPERTY TrafficReleased
CHECK_DEADLOCK FALSE
