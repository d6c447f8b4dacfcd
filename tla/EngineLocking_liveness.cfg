\* Executions settle, but for those whose call met a locked store.
SPECIFICATION LockingSpec
CONSTANTS
  e1 = e1
  e2 = e2
  k1 = k1
  Threads = {t1, t2}
  Executions = {e1, e2}
  Keys = {k1}
  NoKey = NoKey
  KeyOf <- MCOneKey
  Params = {p1}
  None = None
  ApprovalMode <- MCMixedModes
  OnError = "fail_open"
CHECK_DEADLOCK FALSE
PROPERTY
  EveryExecutionSettles
