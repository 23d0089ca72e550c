SPECIFICATION Spec
CONSTANTS
  Layouts <- MCLayouts
  HeapStart = 128
  InitPages = 4
  SparePages = 3
  PageSize = 64
  MaxLive = 3
  MaxWear = 2
INVARIANT NeverShared
CHECK_DEADLOCK FALSE
