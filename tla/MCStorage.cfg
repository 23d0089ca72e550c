CONSTANTS
  Mbr <- MCMbr
  CacheSectors = 4
  LbaRange = 100
  SectorSize = 3
  MIN_BLOCK_SIZE = 6
  BlockSize = 6
  Header = 2
  NDIR_BLOCKS = 2
  Ptrs = 2
  InodesPerGroup = 4
  InodesPerBlock = 2
  Groups <- MCGroups
  MaxGroups = 2
  MagicAt <- MCMagic
  JournalInum = 3
  PtrsAt <- MCPtrs
  InodesAt <- MCInodes
  DirAt <- MCDir
  Users = {u1, u2}
  FsInit = fs
  Null = Null
  Names = {"b", "zz"}
  Seeks = {24, 36}
  Sizes = {10}
  CACHE_CAPACITY = 2
  INODE_CACHE_CAPACITY = 2
  MaxJobs = 3
  MaxErrors = 1
  FailFor = {fs, u1}
SPECIFICATION Spec
CHECK_DEADLOCK FALSE
INVARIANTS ReadDelivers LookupFinds StampedeBounded
PROPERTIES CacheBounded KernelYields
