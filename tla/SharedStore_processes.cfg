\* Processes that share the ledger file.
SPECIFICATION Spec
CONSTANTS
  t1 = t1
  t2 = t2
  c1 = c1
  Threads = {t1, t2, t3}
  Connections = {t1, t2, t3}
  ConnectionOf <- MCOwnConnection
  Executions = {e1}
  NoTransaction = NoTransaction
SYMMETRY MCSymmetry
CHECK_DEADLOCK FALSE
INVARIANTS
  StoreInv
  ConsumedOnce
  AnswersHold
  LeftOpenIsEmpty
PROPERTY
  ImplementsDecisions
