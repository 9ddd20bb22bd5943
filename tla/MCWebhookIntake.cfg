CONSTANTS
  Events = {e1, e2, x}
  Enabled = {e1, e2}
  Attempts = {a1, a2}
  SeenCapacity = 1
  MaxTimeouts = 1
  MaxDuplicates = 1
  MaxFaults = 1
  MaxCrashes = 1
CHECK_DEADLOCK FALSE
SPECIFICATION FairSpec
INVARIANTS FailuresAnswered RoutedOnce
PROPERTY AllRouted
