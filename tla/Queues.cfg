CONSTANTS
  w1 = w1  w2 = w2  w3 = w3
  e1 = e1  n1 = n1  p1 = p1  p2 = p2  none = none
  Items = {i1, i2, i3}
  NoItem = none
  Workers = {w1, w2}
  QueueSize = 2
  AlertQueueSize = 1
  Clients = {c1, c2}
  MaxEvents = 6
  Limit = 2
  TrimInterval = 2
  Poison = {1}
  MaxFaults = 2
  ClaimedKinds <- MCKinds
  Requests <- MCRequests
  NoKey = none
  Procs = {p1, p2}
  JSWorkers <- MCJSWorkers
  JSPoison <- MCPoison
  MaxDeliver = 2
  JSMaxFaults = 1
SPECIFICATION MCSpec
INVARIANTS QueueTypes ChannelKeepsItems SkippedOnlyAfterRequeue BacklogBounded
  StreamSettlesOwnJob
PROPERTY QueuesProgress
