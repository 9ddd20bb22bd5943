CONSTANTS
  Changes = {a1, a2, a3}
  Drains = {d1, d2}
  MaxAttempts = 2
  Capacity = 2
  DeadCapacity = 1
  MaxCrashes = 0
  MaxStoreFaults = 1
  MaxLostAnswers = 1
CHECK_DEADLOCK FALSE
SPECIFICATION Spec
SYMMETRY Symmetry
INVARIANTS TypeOK QueueSound AtMostTwice
PROPERTY ImplementsOutbox
