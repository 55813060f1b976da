CONSTANTS
  Cpus = {c1, c2, c3}
  None = None
  Uninit = Uninit
  MaxWrites = 4
SPECIFICATION CellFairSpec
INVARIANTS InitOnce OneValue MutualExclusion NoLostUpdates
PROPERTIES ReadyIsStable CallersReturn SomeoneEnters
