SPECIFICATION MCSpec
CONSTANTS
  None = None
  Calls = {1, 2, 3}
  Namespaces = {n1}
  KSvcs = {1, 2}
  MaxInFlight = 1
  MaxFailures = 2
INVARIANT TypeOK
INVARIANT InFlightBound
INVARIANT PendingHasFlusher
INVARIANT FlushedAtMostOnce
INVARIANT OnlySupersededDropped
PROPERTY StopDrainsWorkers
PROPERTY ImplementsQueue
PROPERTY ImplementsLane
PROPERTY DecisionSettles
PROPERTY StopReturns
CHECK_DEADLOCK FALSE
