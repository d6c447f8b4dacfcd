\* Three overlapping requests and a crash.
SPECIFICATION Spec
CONSTANTS
  root = root
  ann = ann
  home = home
  ops = ops
  c1 = c1
  k1 = k1
  Nobody = Nobody
  Requests = {r1, r2, r3}
  Cookies = {c1}
  Users = {root, ann}
  Teams = {home, ops}
  DefaultTeam = home
  Tokens = {k1}
  Calls <- MCCalls
  InitialDbs <- MCInitialDbs
  Ageing = {c1}
  MaxRunning = 2
  MaxCrashes = 1
SYMMETRY MCSymmetry
CHECK_DEADLOCK FALSE
INVARIANTS
  AccessInv
  OneSetUp
  NoDanglingRows
  SignedOutStaysOut
  AuditTellsChanges
PROPERTY
  RoleChangeTakesHold
