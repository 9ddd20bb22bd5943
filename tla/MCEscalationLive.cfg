CONSTANTS
  Escalations = {e1, e2}
  Clicks = {c1}
  Sweeps = {s1}
  MaxCrashes = 0
  MaxStoreFaults = 1
  MaxInvokeFaults = 0
  MaxLostAnswers = 0
CHECK_DEADLOCK FALSE
SPECIFICATION FairSpec
INVARIANT IndexExact
PROPERTIES CallsReturn OverdueHandled
