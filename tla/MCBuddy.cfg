CONSTANTS
  NrFrames = 9
  MaxOrder = 3
  Size <- MCSize
  Donations <- MCDonations
  None = None
SPECIFICATION FairSpec
INVARIANTS BlocksDisjoint BlocksAligned NoLostFrames ListsExact Accounting NoFalseExhaustion
PROPERTIES ImplementsPool OperationsEnd
