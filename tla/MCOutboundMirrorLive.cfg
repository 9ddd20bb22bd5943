CONSTANTS
  Changes = {a1, a2}
  Drains = {d1}
  MaxAttempts = 2
  Capacity = 2
  DeadCapacity = 2
  MaxCrashes = 1
  MaxStoreFaults = 1
  MaxLostAnswers = 1
CHECK_DEADLOCK FALSE
SPECIFICATION FairSpec
PROPERTY Settles
