CONSTANTS
  Events = {e1, e2}
  Day = 3
  DigestHour = 1
  Horizon = 5
  MaxFailures = 1
  MaxFaults = 0
CHECK_DEADLOCK FALSE
SPECIFICATION DigestSpec
INVARIANT OutageDropsNothing
