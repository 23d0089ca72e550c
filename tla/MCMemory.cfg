CONSTANTS
  PageSize = 2
  MaxReserved = 6
  PAGE_ENTRIES = 8
  Trees <- MCTrees
  DtbAt <- MCDtb
  ImagePages = 5
  Elfs <- MCElfs
  Procs = {p1, p2}
  BrkSteps <- MCBrk
  MmapLens <- MCMmap
  HeapGrowths = 1
  UserCalls = 3
  Buffers <- MCBuffers
SYMMETRY MCSym
SPECIFICATION Spec
CHECK_DEADLOCK FALSE
INVARIANTS MTypeOK FramesOwnedOnce ReservedUntouched WalkMatches Isolated ProcessImage
PROPERTY CopyLands
