CONSTANTS
  Events = {e1}
  Enabled = {e1}
  Attempts = {a1, a2}
  SeenCapacity = 2
  MaxTimeouts = 1
  MaxDuplicates = 0
  MaxFaults = 1
  MaxCrashes = 0
CHECK_DEADLOCK FALSE
SPECIFICATION Spec
INVARIANT NeverDropped
