\* Two streams, two destinations or a full buffer, overlapping handlers, and a fault.
SPECIFICATION Spec
CONSTANTS
  e1 = e1
  a1 = a1
  a2 = a2
  s1 = s1
  s2 = s2
  Streams = {s1, s2}
  ReplayLimit = 2
  MaxFaults = 1
  Events = {e1, a1, a2}
  Announcements = {a1, a2}
  TypeOf <- MCTypeOf
  Destinations = 2
  Subscribed <- MCSubscribed
  Audiences <- MCAudiences
  MaxRunning = 2
CHECK_DEADLOCK FALSE
INVARIANTS
  DeliveriesAccountedFor
PROPERTIES
  NothingSkipped
  StreamsCatchUp
