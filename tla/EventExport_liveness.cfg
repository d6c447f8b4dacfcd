\* A plane that stops and starts; no request is abandoned.
SPECIFICATION FairSpec
CONSTANTS
  x1 = x1
  w1 = w1
  w2 = w2
  Executions = {x1, x2}
  Writers = {w1, w2}
  Owners <- MCOwners
  MaxStage = 2
  Pinned = {2}
  Requests = {r1, r2}
  BatchSize = 1
  MaxPending = 3
  MaxAbandoned = 0
  MaxCrashes = 0
CHECK_DEADLOCK FALSE
PROPERTY
  QueueDrains
