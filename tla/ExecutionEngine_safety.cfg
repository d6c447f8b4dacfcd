\* Two executions under one key, two threads that may die anywhere.
SPECIFICATION Spec
CONSTANTS
  e1 = e1
  e2 = e2
  k1 = k1
  Threads = {t1, t2, t3}
  Executions = {e1, e2}
  Keys = {k1}
  NoKey = NoKey
  KeyOf <- MCSharedKey
  Params = {p1, p2}
  None = None
  ApprovalMode <- MCMixedModes
  OnError = "fail_closed"
SYMMETRY MCSymmetry
CHECK_DEADLOCK FALSE
INVARIANTS
  EngineInv
  AtMostOneCall
  OneCallPerKey
  CallsAuthorised
  CallsWithRecordedParameters
  StoppedNeverCalled
  ApprovalMatchesExecution
  LedgerTellsOutcome
  CallIsLoggedFirst
  ReplayIsTruthful
PROPERTY
  ImplementsContract
