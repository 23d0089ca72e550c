-------------------------------- MODULE Ext2 --------------------------------
(***************************************************************************)
(* An ext2 volume on a partition: where things are (src/fs/ext2, src/block *)
(* /partition.rs).  A block is some sectors; get_block reads CacheSectors  *)
(* of them from the block's first.  What a block holds is looked up by the *)
(* place of that sector on the disk.                                       *)
(***************************************************************************)
EXTENDS Integers, Sequences, FiniteSets

CONSTANTS Mbr,            \* [valid, entries]: entries are [type, lba_start, num_sectors]
          CacheSectors,   \* CACHE_BLOCK_SIZE in sectors
          LbaRange,       \* 2^32: sector numbers of a disk request wrap there
          SectorSize,     \* bytes of a sector (BLOCK_SIZE of the drivers)
          MIN_BLOCK_SIZE, BlockSize,      \* bytes of the smallest block, and of a block
          Header,         \* bytes of a directory entry before its name
          NDIR_BLOCKS, Ptrs,              \* direct pointers; pointers per block
          InodesPerGroup, InodesPerBlock, \* of the superblock
          Groups, MaxGroups,              \* inode table block of each group; MAX_GROUPS_IN_BUFFER
          MagicAt,        \* disk sectors that hold SUPER_MAGIC where a superblock has it
          JournalInum,                    \* 0 for none
          PtrsAt,         \* disk sector -> its pointers
          InodesAt,       \* disk sector -> its inodes, [len, blocks]
          DirAt           \* disk sector -> offset -> [ino, rec_len, name, name_len]

Inode == [len : Nat, blocks : [1..(NDIR_BLOCKS + 2) -> Nat]]
Record == [ino : Nat, rec_len : Nat, name : STRING, name_len : Nat]

\* A partition ends below LbaRange.  DirAt gives the records that a block's
\* record lengths lead to, from offset 0 to the first length of zero.
ASSUME Ext2Assumption ==
  /\ Mbr.valid \in BOOLEAN
  /\ Mbr.entries \in [1..4 -> [type : Nat, lba_start : Nat, num_sectors : Nat]]
  /\ \A i \in 1..4 : Mbr.entries[i].lba_start + Mbr.entries[i].num_sectors <= LbaRange
  /\ CacheSectors \in Nat \ {0} /\ LbaRange \in Nat \ {0} /\ BlockSize \in Nat \ {0}
  /\ SectorSize \in Nat \ {0} /\ MIN_BLOCK_SIZE \in Nat /\ BlockSize % SectorSize = 0
  /\ Header \in Nat \ {0} /\ NDIR_BLOCKS \in Nat /\ Ptrs \in Nat \ {0}
  /\ InodesPerGroup \in Nat \ {0} /\ InodesPerBlock \in Nat \ {0}
  /\ Groups \in Seq(Nat) /\ MaxGroups \in Nat /\ JournalInum \in Nat
  /\ \A at \in DOMAIN PtrsAt : PtrsAt[at] \in [1..Ptrs -> Nat]
  /\ \A at \in DOMAIN InodesAt : InodesAt[at] \in [1..InodesPerBlock -> Inode]
  /\ \A at \in DOMAIN DirAt :
       /\ DOMAIN DirAt[at] \subseteq Nat /\ 0 \in DOMAIN DirAt[at]
       /\ \A x \in DOMAIN DirAt[at] :
            /\ DirAt[at][x] \in Record
            /\ \A y \in DOMAIN DirAt[at] : y > x =>
                 /\ DirAt[at][x].rec_len > 0 /\ x + DirAt[at][x].rec_len <= y
                 /\ x + DirAt[at][x].rec_len \in DOMAIN DirAt[at]

RootInode == 2
\* The superblock is at byte 1024; the group descriptors are in the next block.
SuperblockSector == MIN_BLOCK_SIZE \div SectorSize
GdtSector == (IF BlockSize = MIN_BLOCK_SIZE THEN 2 * MIN_BLOCK_SIZE ELSE BlockSize) \div SectorSize

block_to_sector(block_num) == (block_num * BlockSize) \div SectorSize

\* parse_mbr: the entries in use, with their numbers.
parse_mbr(mbr) ==
  LET used == {i \in 1..4 : ~(mbr.entries[i].type = 0 /\ mbr.entries[i].num_sectors = 0)}
  IN IF ~mbr.valid THEN {}
     ELSE {[number |-> i, lba_start |-> mbr.entries[i].lba_start,
            num_sectors |-> mbr.entries[i].num_sectors] : i \in used}

\* PartitionVolume::read_blocks of one cache block: refused, or the place on disk.
InBounds(part, lba) == lba + CacheSectors <= part.num_sectors
DiskLba(part, lba) == (part.lba_start + lba) % LbaRange

\* Where an inode is; a sector of -1 is InvalidInput.
inode_location(ino) ==
  LET group == (ino - 1) \div InodesPerGroup
      local == (ino - 1) % InodesPerGroup
  IN IF ino = 0 \/ group >= Len(Groups) THEN [sector |-> -1, slot |-> 0]
     ELSE [sector |-> block_to_sector(Groups[group + 1] + local \div InodesPerBlock),
           slot |-> local % InodesPerBlock]

NoName == ""
PtrIn(at, i) == IF at \in DOMAIN PtrsAt THEN PtrsAt[at][i + 1] ELSE 0
InodeIn(at, i) == IF at \in DOMAIN InodesAt THEN InodesAt[at][i + 1]
                  ELSE [len |-> 0, blocks |-> [j \in 1..(NDIR_BLOCKS + 2) |-> 0]]
EntryIn(at, off) == IF at \in DOMAIN DirAt /\ off \in DOMAIN DirAt[at] THEN DirAt[at][off]
                    ELSE [ino |-> 0, rec_len |-> 0, name |-> NoName, name_len |-> 0]

-----------------------------------------------------------------------------
(***************************************************************************)
(* The reference: the volume read without a cache, as flat lists.          *)
(***************************************************************************)
\* The disk sector a block begins at, and whether get_block, which reads
\* CacheSectors from there, would leave the partition.
SectorOf(part, ptr) == part.lba_start + ptr * (BlockSize \div SectorSize)
OnEdge(part, ptr) == ptr * (BlockSize \div SectorSize) + CacheSectors > part.num_sectors

PointersOf(part, ptr) == IF ptr = 0 THEN [i \in 1..Ptrs |-> 0]
                         ELSE [i \in 1..Ptrs |-> PtrIn(SectorOf(part, ptr), i - 1)]

AllBlocks(part, inode) ==
  [k \in 1..(NDIR_BLOCKS + Ptrs + Ptrs * Ptrs) |->
     LET i == k - NDIR_BLOCKS
         j == k - NDIR_BLOCKS - Ptrs - 1
     IN IF i < 1 THEN inode.blocks[k]
        ELSE IF i <= Ptrs THEN PointersOf(part, inode.blocks[NDIR_BLOCKS + 1])[i]
        ELSE PointersOf(part, PointersOf(part, inode.blocks[NDIR_BLOCKS + 2])[j \div Ptrs + 1])
               [(j % Ptrs) + 1]]

\* Block k of a file and the pointer blocks it is reached through; whether one
\* of them is out of get_block's reach.
PathTo(part, inode, k) ==
  LET j == k - NDIR_BLOCKS - Ptrs - 1 IN
  {AllBlocks(part, inode)[k]} \cup
  (IF k <= NDIR_BLOCKS THEN {}
   ELSE IF k <= NDIR_BLOCKS + Ptrs THEN {inode.blocks[NDIR_BLOCKS + 1]}
   ELSE {inode.blocks[NDIR_BLOCKS + 2],
         PointersOf(part, inode.blocks[NDIR_BLOCKS + 2])[j \div Ptrs + 1]})
Barred(part, inode, k) == \E ptr \in PathTo(part, inode, k) : OnEdge(part, ptr)

\* Byte b of a file, and the first byte that is not there: a hole or the end.
ByteAt(part, inode, b) ==
  <<SectorOf(part, AllBlocks(part, inode)[b \div BlockSize + 1]), b % BlockSize>>

FirstMissing(part, inode, from) ==
  LET all == AllBlocks(part, inode)
      gone == {b \in from..(inode.len - 1) : b \div BlockSize + 1 > Len(all)
                                             \/ all[b \div BlockSize + 1] = 0}
  IN IF gone = {} THEN inode.len ELSE CHOOSE b \in gone : \A c \in gone : b <= c

\* The block of an inode's table that the inode is in, and the inode there.
InodeBlock(ino) == Groups[(ino - 1) \div InodesPerGroup + 1]
                   + ((ino - 1) % InodesPerGroup) \div InodesPerBlock
InodeOf(part, ino) == InodeIn(SectorOf(part, InodeBlock(ino)),
                              ((ino - 1) % InodesPerGroup) % InodesPerBlock)

\* A record that lookup compares with the name.
Comparable(e, x) == e.rec_len > 0 /\ e.ino # 0 /\ e.name_len > 0 /\ x + Header + e.name_len <= BlockSize

\* The entries of a directory that lookup may find.
EntriesOf(part, inode) ==
  UNION {LET at == SectorOf(part, AllBlocks(part, inode)[k]) IN
         IF AllBlocks(part, inode)[k] # 0 /\ at \in DOMAIN DirAt
         THEN {DirAt[at][x] : x \in {y \in DOMAIN DirAt[at] : Comparable(DirAt[at][y], y)}}
         ELSE {} : k \in DOMAIN AllBlocks(part, inode)}

\* A directory without structural damage: its blocks lie before the first hole
\* and within its length, their records within the block, and the inodes they
\* name exist.  Deleted, unnamed and overlong entries, and records of length
\* zero, are allowed.
Intact(part, inode) ==
  \A k \in DOMAIN AllBlocks(part, inode) :
    LET at == SectorOf(part, AllBlocks(part, inode)[k]) IN
    AllBlocks(part, inode)[k] # 0 =>
      /\ k * BlockSize <= inode.len
      /\ \A j \in 1..k : AllBlocks(part, inode)[j] # 0
      /\ at \in DOMAIN DirAt => \A x \in DOMAIN DirAt[at] :
           /\ x + DirAt[at][x].rec_len <= BlockSize
           /\ Comparable(DirAt[at][x], x) => inode_location(DirAt[at][x].ino).sector # -1
=============================================================================
