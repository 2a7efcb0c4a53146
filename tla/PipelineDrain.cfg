CONSTANTS
  NoItem = none
  Items = {i1, i2}
  Workers = {w1}
  QueueSize = 2
  AlertQueueSize = 1
SPECIFICATION PLSpec
INVARIANT DrainedWhenStopped
CHECK_DEADLOCK FALSE
