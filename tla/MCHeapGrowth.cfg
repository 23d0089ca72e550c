SPECIFICATION Spec
CONSTANTS
  Layouts <- MCTightLayouts
  HeapStart = 128
  InitPages = 2
  SparePages = 3
  PageSize = 64
  MaxLive = 3
  MaxWear = 0
PROPERTY ImplementsAllocator
CHECK_DEADLOCK FALSE
