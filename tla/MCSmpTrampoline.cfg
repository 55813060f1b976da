CONSTANTS
  Mpidrs <- MCMpidrs
  PrimaryReg <- MCPrimaryReg
  PsciNodes <- MCOnePsci
  Codes <- MCCodes
  Area <- MCArea
  PERCPU_MAX = 8
  PercpuStart = 40
  PercpuEnd = 48
  CPU_DATA = 42
  NodeLists <- MCOneList
  MaxCpus = 8
  Width = 4
  Stacks = 3
  Root = Root
  Idmap = Idmap
  Zero = Zero
SPECIFICATION Spec
INVARIANT TrampolineUnreferenced
CHECK_DEADLOCK FALSE
