\* Threads that share one store object.
SPECIFICATION Spec
CONSTANTS
  t1 = t1
  t2 = t2
  c1 = c1
  Threads = {t1, t2}
  Connections = {c1}
  ConnectionOf <- MCOneConnection
  Executions = {e1}
  NoTransaction = NoTransaction
CHECK_DEADLOCK FALSE
INVARIANT
  ConsumedOnce
