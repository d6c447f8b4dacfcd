\* Overlapping registrations of policies and agents, and a crash.
SPECIFICATION Spec
CONSTANTS
  v1 = v1
  v2 = v2
  b1 = b1
  b2 = b2
  a1 = a1
  None = None
  Latest = Latest
  NoPolicy = NoPolicy
  Requests = {r1, r2, r3}
  Versions = {v1, v2}
  Bundles = {b1, b2}
  Agents = {a1}
  Calls <- MCCalls
  InitialDbs <- MCInitialDbs
  MaxRunning = 2
  MaxCrashes = 1
SYMMETRY MCSymmetry
CHECK_DEADLOCK FALSE
INVARIANTS
  RegistryInv
  HashIdentifiesBundle
  AnsweredIsDurable
