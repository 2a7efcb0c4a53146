CONSTANTS
  e1 = e1
  n1 = n1
  p1 = p1
  Jobs <- MixedJobs
  KindOf <- MixedKinds
  Outcomes <- MixedOutcomes
  NativeConfigured = TRUE
  Workers = {w1, w2}
  QueueSize = 2
  LeaseTicks = 1
  BusyTicks = 1
  MaxDelay = 1
  AttemptCap = 1
  MaxFaults = 1
SYMMETRY WorkerSymmetry
SPECIFICATION Spec
INVARIANTS TypeOK AcceptedNotLost QueueBounded ExclusiveUnlessOverrun 
PROPERTY DeletedStaysDeleted
