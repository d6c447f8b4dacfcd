\* Two threads, two executions, a clock that ticks.
SPECIFICATION Spec
CONSTANTS
  x1 = x1
  w1 = w1
  w2 = w2
  Executions = {x1, x2}
  Writers = {w1, w2}
  Owners <- MCOwners
  Starter <- MCStarter
  MaxEvents = 5
  MaxTime = 3
CHECK_DEADLOCK FALSE
INVARIANTS
  OneTree
  ReadInOrder
