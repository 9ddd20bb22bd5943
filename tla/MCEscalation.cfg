CONSTANTS
  Escalations = {e1}
  Clicks = {c1, c2}
  Sweeps = {s1, s2}
  MaxCrashes = 1
  MaxStoreFaults = 1
  MaxInvokeFaults = 1
  MaxLostAnswers = 1
CHECK_DEADLOCK FALSE
SPECIFICATION Spec
SYMMETRY Symmetry
INVARIANTS ReplyOnce CardTruth ReplyNotLost DefaultOnce
PROPERTY ImplementsLedger
