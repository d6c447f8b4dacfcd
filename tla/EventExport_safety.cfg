\* Overlapping requests, crashes of the plane, a queue that fills up.
SPECIFICATION Spec
CONSTANTS
  x1 = x1
  w1 = w1
  w2 = w2
  Executions = {x1, x2}
  Writers = {w1, w2}
  Owners <- MCOwners
  MaxStage = 2
  Pinned = {2}
  Requests = {r1, r2}
  BatchSize = 2
  MaxPending = 2
  MaxAbandoned = 1
  MaxCrashes = 1
SYMMETRY MCSymmetry
CHECK_DEADLOCK FALSE
INVARIANTS
  PipelineInv
  ExportedIsDurable
  PublishedOnce
  QueueBounded
  ExportedIsVisible
PROPERTY
  NeverShowsThePast
