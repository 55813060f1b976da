SPECIFICATION FairSpec
CONSTANTS
  c1 = c1
  c2 = c2
  Cpus = {c1, c2}
  Workloads <- MCWorkloads
  LineBytes = 2
  ReportBytes = 2
  Depth = 2
  None = None
INVARIANTS LossNeedsRaw ReportIsOwn
PROPERTIES LinesWhole ReportsEnd
CHECK_DEADLOCK FALSE
