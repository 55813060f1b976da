CONSTANTS
  PoolPages = 32
  Pool = 496
  Sections <- MCSections
  RamLists <- MCRam
  Loads <- MCLoads
  BootText = 262272
  BootBss = 262273
  Vas <- MCVas
  Watch <- MCWatch
  Fault = Fault
SPECIFICATION Spec
INVARIANT DaifKept
CHECK_DEADLOCK FALSE
