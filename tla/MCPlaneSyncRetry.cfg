CONSTANTS
  Items = {i1}
  Projects = {p1}
  Syncs = {s1}
  Overlap = FALSE
  MaxIssues = 1
  MaxFaults = 1
CHECK_DEADLOCK FALSE
SPECIFICATION Spec
SYMMETRY Symmetry
PROPERTY RetryConverges
