CONSTANTS
  Items = {i1, i2, i3}
  PerPage = 1
  MaxPages = 2
  Webhooks = TRUE
  MaxTime = 3
  MaxDeletes = 1
  MaxHalts = 1
  ToolCalls = {k1, k2}
  Projects = {j1}
  MaxCallFaults = 2
  NumTicks = 6
  Interval = 6
  MaxRun = 4
  HistoryLimit = 1
  MaxJobFaults = 1
CHECK_DEADLOCK FALSE
SPECIFICATION PlaneSpec
INVARIANTS PlaneTypeOK NothingSkipped JobOrderly AnswersTrue
PROPERTY Healed
