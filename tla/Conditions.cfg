SPECIFICATION FairSpec
CONSTANTS
  None = None
  Stages = {"getSource", "listPods", "translate", "getService", "deleteService",
            "traffic", "apply", "readBack", "ready", "quiesce", "flush"}
  Replies = {"jsonTrue", "jsonFalse", "failed"}
  Services = {"plain", "refused"}
  MinScale = 0
  Threshold = 2
  Lag = TRUE
  MaxOps = 2
  MaxSinks = 1
  MaxFaults = 1
INVARIANT TypeOK
 
PROPERTY DegradedEarned
PROPERTY Recovers
CHECK_DEADLOCK FALSE
