CONSTANTS
  Mpidrs <- MCMpidrs
  PrimaryReg <- MCPrimaryReg
  PsciNodes <- MCPsci
  Codes <- MCCodes
  Area <- MCArea
  PERCPU_MAX = 8
  PercpuStart = 40
  PercpuEnd = 48
  CPU_DATA = 42
  NodeLists <- MCNodeLists
  MaxCpus = 4
  Width = 3
  Stacks = 3
  Root = Root
  Idmap = Idmap
  Zero = Zero
SPECIFICATION FairSpec
INVARIANTS UpMeansAllOnline OneAtATime OwnContext FailureIsPrecise
PROPERTIES BringUpEnds
CHECK_DEADLOCK FALSE
