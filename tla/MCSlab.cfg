CONSTANTS
  CPUs = {c1, c2}
  PageSize = 4
  NPages = 2
  Blocks = {1, 2}
  Classes <- MCClasses
  Layouts <- MCLayouts
  MaxLive = 3
  None = None
  Data = Data
SPECIFICATION FairSpec
INVARIANTS NoOverlap NothingLost FitsLayout
PROPERTIES CallsReturn
CHECK_DEADLOCK FALSE
