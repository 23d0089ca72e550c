CONSTANTS
  Procs = {p1, p2}
  Archives <- MCArchives
  Ext2Nodes <- MCExt2
  Ext2Block = 2
  Paths <- MCPaths
  Program <- MCProgram
  Sizes = {2, 3}
  MaxFd = 4
  MaxCalls = 4
SPECIFICATION Spec
CHECK_DEADLOCK FALSE
SYMMETRY MCSym
INVARIANTS LookupMatchesMounts DescriptorsExact
