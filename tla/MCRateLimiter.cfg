SPECIFICATION Spec
CONSTANTS
  a1 = a1
  a2 = a2
  r1 = r1
  r2 = r2
  IP = {a1, a2}
  Request = {r1, r2}
  Full = 2
  Cost = 1
  Idle = 3
  MaxDelay = 1
  MaxTime = 6
  MaxGen = 2
  NoLimiter = NoLimiter
CHECK_DEADLOCK FALSE
SYMMETRY Symmetry
INVARIANTS TypeOK IdleIsFull RateBound
PROPERTY ImplementsBucket
