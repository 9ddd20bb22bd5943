CONSTANTS
  Items = {i1}
  Projects = {p1}
  Syncs = {s1, s2}
  Overlap = TRUE
  MaxIssues = 2
  MaxFaults = 0
CHECK_DEADLOCK FALSE
SPECIFICATION Spec
SYMMETRY Symmetry
INVARIANT NoDuplicate
