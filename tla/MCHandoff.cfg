CONSTANTS
  PageSize = 4
  NrRegions = 4
  MemoryArgs <- MCMemory
  ReserveArgs <- MCReserve
  AllocArgs <- MCAlloc
  MemoryLists <- MCLists
  Image <- MCImage
  BootBss <- MCBss
  Dtbs <- MCDtbs
  InfoSize = 1
  None = None
SPECIFICATION MCSpec
INVARIANTS HolesExact FreeIsUsable AllocHighest DonationsMeetContract EveryFrameAccountedFor MemmapFits
CHECK_DEADLOCK FALSE
