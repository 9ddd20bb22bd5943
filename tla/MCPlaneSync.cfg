CONSTANTS
  Items = {i1, i2}
  Projects = {p1, p2}
  Syncs = {s1, s2}
  Overlap = FALSE
  MaxIssues = 4
  MaxFaults = 2
CHECK_DEADLOCK FALSE
SPECIFICATION Spec
SYMMETRY Symmetry
INVARIANTS TypeOK NoDuplicate MappingSound
PROPERTY SyncTakesEffect
