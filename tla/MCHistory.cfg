SPECIFICATION Spec
CONSTANTS
  Ids <- FiveIds
  Addrs = {a1, a2}
  a1 = a1
  a2 = a2
  NULL = NULL
  Lifetime = 1
  Threshold = 1
  Odd <- Parity
  Calls <- Mixed
  MaxTime = 1
INVARIANTS
  TypeOK
  TreeSound
  ListSound
PROPERTIES
  ImplementsMap
  StaysSeen
CHECK_DEADLOCK FALSE
