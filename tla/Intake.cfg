SPECIFICATION MCSpec
CONSTANTS
  None = None
  Templates <- MCTemplates
  Annotations <- MCAnnotations
  MaxOps = 2
  MaxFaults = 1
INVARIANT TypeOK
INVARIANT KSvcWellFormed
INVARIANT AdmissionAgrees
PROPERTY KSvcFollows
 
PROPERTY RefusalShown
CHECK_DEADLOCK FALSE
