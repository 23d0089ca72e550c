--------------------------- MODULE StorageLemmas ---------------------------
(***************************************************************************)
(* What the calls of the ext2 driver do with the blocks they get, for      *)
(* every volume: a read delivers the bytes of the file, a lookup misses no *)
(* entry.  StorageProofs shows that they get the right blocks.             *)
(***************************************************************************)
EXTENDS Ext2Calls, Lru, FiniteSetLaws, TLAPS

-----------------------------------------------------------------------------
(***************************************************************************)
(* What holds of a call at every moment.                                   *)
(***************************************************************************)
Buf == [id : Nat, at : Nat]
Pcs == {"idle", "get", "wait", "scan", "inode", "gotinode", "done"}
Ops == {"none", "mount", "lookup", "read"}
Stages == {"none", "super", "gdt", "journal", "indirect", "double", "level2", "data", "inode"}
Pointers == [1..(NDIR_BLOCKS + 2) -> Nat] \cup {<<>>}
Outputs == Seq(Nat \X Nat)
Results == {"none", "Ok", "Err", "NotFound"}
SomeName == STRING \cup {NoName}
Call == [pc : Pcs, op : Ops, stage : Stages, need : Nat, got : Buf, l1 : Buf, dir : Buf,
         blocks : Pointers, idx : Nat, boff : Nat, bytes : Nat, len : Nat, name : SomeName,
         ino : Nat, start : Nat, size : Nat, out : Outputs, res : Results, ioerr : BOOLEAN]

Total == NDIR_BLOCKS + Ptrs + Ptrs * Ptrs
At(p, lba) == p.lba_start + lba
BlockOf(p, inode, i) == AllBlocks(p, inode)[i + 1]
HoleAt(p, inode, i) == i >= Total \/ BlockOf(p, inode, i) = 0

\* What resolve_block_ptr is fetching for block r.idx of the inode.
Aim(p, inode, r) ==
  /\ r.stage \in {"indirect", "double", "level2", "data"}
  /\ r.stage = "data" => ~HoleAt(p, inode, r.idx) /\ r.need = block_to_sector(BlockOf(p, inode, r.idx))
  /\ r.stage = "indirect" => /\ NDIR_BLOCKS <= r.idx /\ r.idx < NDIR_BLOCKS + Ptrs
                             /\ inode.blocks[NDIR_BLOCKS + 1] # 0
                             /\ r.need = block_to_sector(inode.blocks[NDIR_BLOCKS + 1])
  /\ r.stage \in {"double", "level2"} =>
       /\ NDIR_BLOCKS + Ptrs <= r.idx /\ r.idx < Total
       /\ inode.blocks[NDIR_BLOCKS + 2] # 0
  /\ r.stage = "double" => r.need = block_to_sector(inode.blocks[NDIR_BLOCKS + 2])
  /\ r.stage = "level2" =>
       /\ PtrIn(SectorOf(p, inode.blocks[NDIR_BLOCKS + 2]), DoubleIdx(r) \div Ptrs) # 0
       /\ r.need = block_to_sector(PtrIn(SectorOf(p, inode.blocks[NDIR_BLOCKS + 2]), DoubleIdx(r) \div Ptrs))

\* The bytes a read has delivered so far.
Delivered(p, inode, r) ==
  /\ Len(r.out) <= r.size
  /\ \A i \in 1..Len(r.out) :
       /\ r.start + i - 1 < inode.len
       /\ ~HoleAt(p, inode, (r.start + i - 1) \div BlockSize)
       /\ r.out[i] = ByteAt(p, inode, r.start + i - 1)

ReadJob(p, inode, r) ==
  LET off == r.start + Len(r.out) IN
  /\ r.pc \in {"get", "wait", "done"}
  /\ r.blocks = inode.blocks /\ r.len = inode.len
  /\ Delivered(p, inode, r)
  /\ r.pc \in {"get", "wait"} => /\ Len(r.out) < r.size /\ off < r.len
                                 /\ r.idx = off \div BlockSize
                                 /\ Aim(p, inode, r)
  /\ r.pc = "done" => r.res \in {"Ok", "Err"}
  /\ r.pc = "done" /\ r.res = "Ok" =>
       Len(r.out) = r.size \/ off >= r.len \/ HoleAt(p, inode, off \div BlockSize)

\* Entry x of block i of the directory has the name.
NameAt(p, inode, name, i, x) ==
  /\ i \in 0..(Total - 1) /\ BlockOf(p, inode, i) # 0
  /\ SectorOf(p, BlockOf(p, inode, i)) \in DOMAIN DirAt
  /\ x \in DOMAIN DirAt[SectorOf(p, BlockOf(p, inode, i))]
  /\ LET e == DirAt[SectorOf(p, BlockOf(p, inode, i))][x] IN Comparable(e, x) /\ e.name = name

Named(p, inode, name, ino) ==
  \E i \in 0..(Total - 1), x \in 0..(BlockSize - 1) :
    /\ NameAt(p, inode, name, i, x)
    /\ DirAt[SectorOf(p, BlockOf(p, inode, i))][x].ino = ino

\* The name is in no block before i, and in block i not before offset b.
Seen(p, inode, r, i, b) == 
  \A j \in 0..(Total - 1), x \in 0..(BlockSize - 1) : NameAt(p, inode, r.name, j, x) => j > i \/ (j = i /\ x >= b)

ReadsInode(r) == r.pc = "gotinode" \/ (r.pc \in {"get", "wait"} /\ r.stage = "inode")

\* The inode's block is the one that is fetched.
InodeAim(p, r) ==
  /\ inode_location(r.ino).sector # -1
  /\ r.pc # "gotinode" => r.need = inode_location(r.ino).sector
  /\ r.pc = "gotinode" => r.got.at = At(p, inode_location(r.ino).sector)

\* Why a name that is there is not found.
Stopped(p, inode, r) ==
  \/ r.ioerr
  \/ \E k \in 1..Total : Barred(p, inode, k)
  \/ \E ino \in Nat : Named(p, inode, r.name, ino) /\ OnEdge(p, InodeBlock(ino))

Absent(p, inode, name) ==
  \A j \in 0..(Total - 1), x \in 0..(BlockSize - 1) : ~NameAt(p, inode, name, j, x)

LookupJob(p, inode, r) ==
  LET intact == Intact(p, inode) IN
  /\ r.pc # "idle" /\ r.blocks = inode.blocks /\ r.len = inode.len
  /\ r.pc \in {"get", "wait"} /\ r.stage # "inode" =>
       /\ Aim(p, inode, r)
       /\ intact => Seen(p, inode, r, r.idx, 0) /\ r.bytes <= r.idx * BlockSize
  /\ r.pc = "scan" /\ r.boff >= BlockSize /\ intact =>
       Seen(p, inode, r, r.idx, 0) /\ r.bytes <= r.idx * BlockSize
  /\ r.pc = "scan" /\ r.boff < BlockSize =>
       /\ ~HoleAt(p, inode, r.idx) /\ r.dir.at = SectorOf(p, BlockOf(p, inode, r.idx))
       /\ intact => /\ Seen(p, inode, r, r.idx, r.boff)
                    /\ r.bytes <= r.idx * BlockSize + r.boff
                    /\ r.dir.at \in DOMAIN DirAt =>
                         r.boff \in DOMAIN DirAt[r.dir.at] \/ \A x \in DOMAIN DirAt[r.dir.at] : x < r.boff
  /\ r.pc = "inode" \/ ReadsInode(r) => Named(p, inode, r.name, r.ino)
  /\ ReadsInode(r) => InodeAim(p, r)
  /\ r.pc = "done" => r.res \in {"Ok", "NotFound"}
  /\ r.pc = "done" /\ r.res = "NotFound" /\ intact => Absent(p, inode, r.name) \/ Stopped(p, inode, r)

MountJob(p, r) ==
  /\ r.pc \in {"get", "wait", "gotinode", "done"}
  /\ r.pc \in {"get", "wait"} => r.stage \in {"super", "gdt", "journal", "inode"}
  /\ ReadsInode(r) => r.ino = RootInode /\ InodeAim(p, r)

Job(p, r) ==
  /\ r.op = "none" => r = Idle
  /\ r.op = "read" => ReadJob(p, InodeOf(p, r.ino), r)
  /\ r.op = "lookup" => LookupJob(p, InodeOf(p, RootInode), r)
  /\ r.op = "mount" => MountJob(p, r)

\* A failed read has its reason.
ErrorCause(p, r) == r.op = "read" /\ r.pc = "done" /\ r.res = "Err" =>
  r.ioerr \/ Barred(p, InodeOf(p, r.ino), (r.start + Len(r.out)) \div BlockSize + 1)

-----------------------------------------------------------------------------
(***************************************************************************)
(* The records of calls.                                                   *)
(***************************************************************************)
(* No thread holds a buffer at first. *)
LEMMA NoBufType == NoBuf \in Buf
BY Zenon DEF NoBuf, Buf

\* What a call keeps to its end.
Same(r, s) ==
  /\ s.op = r.op /\ s.blocks = r.blocks /\ s.len = r.len /\ s.name = r.name
  /\ s.start = r.start /\ s.size = r.size /\ s.out = r.out /\ s.ino = r.ino
  /\ s.ioerr = r.ioerr

(* Fetch asks for a block and drops the one the call had. *)
LEMMA FetchEffect ==
  ASSUME NEW r \in Call, NEW stage \in Stages, NEW lba \in Nat, NEW s, s = Fetch(r, stage, lba)
  PROVE  /\ s \in Call /\ s.pc = "get" /\ s.stage = stage /\ s.need = lba
         /\ Same(r, s)
         /\ s.idx = r.idx /\ s.boff = r.boff /\ s.bytes = r.bytes
<1>1. "get" \in Pcs
  BY Zenon DEF Pcs
<1> QED
  BY <1>1, NoBufType, Zenon DEF Fetch, Call, Same

(* Done ends a call and drops every buffer. *)
LEMMA DoneEffect ==
  ASSUME NEW r \in Call, NEW res \in Results, NEW s, s = Done(r, res)
  PROVE  /\ s \in Call /\ s.pc = "done" /\ s.res = res
         /\ Same(r, s)
<1>1. "done" \in Pcs
  BY Zenon DEF Pcs
<1> QED
  BY <1>1, NoBufType, Zenon DEF Done, Call, Same

(* Division with remainder. *)
LEMMA DivFacts ==
  ASSUME NEW j \in Nat, NEW n \in Nat \ {0}
  PROVE  /\ j \div n \in Nat /\ j % n \in 0..(n - 1)
         /\ j < n * n => j \div n \in 0..(n - 1)
<1>1. PICK q \in Int : q = j \div n /\ q >= 0
  OBVIOUS
<1>2. PICK m \in Int : m = j % n /\ m >= 0 /\ m < n
  OBVIOUS
<1>3. j = q * n + m
  BY <1>1, <1>2
<1>4. ASSUME j < n * n PROVE q < n
  <2> SUFFICES ASSUME q >= n PROVE FALSE
    BY <1>1
  <2>1. PICK d \in Nat : q = n + d
    <3>1. q - n \in Nat
      BY <1>1
    <3> QED
      BY <1>1, <3>1
  <2>2. q * n = n * n + d * n
    BY <2>1
  <2>3. PICK x \in Nat, y \in Nat : x = n * n /\ y = d * n
    BY <2>1
  <2> QED
    BY <1>2, <1>3, <1>4, <2>2, <2>3
<1>5. q \in Nat /\ m \in 0..(n - 1)
  BY <1>1, <1>2
<1>6. j < n * n => q \in 0..(n - 1)
  BY <1>1, <1>4
<1> QED
  BY <1>1, <1>2, <1>5, <1>6, Zenon

(* Quotient and remainder are unique. *)
LEMMA DivUnique ==
  ASSUME NEW n \in Nat \ {0}, NEW a \in Int, NEW b \in Int, NEW x \in 0..(n - 1), NEW y \in 0..(n - 1),
         a * n + x = b * n + y
  PROVE  a = b /\ x = y
<1>1. \A c, d \in Int, u, v \in 0..(n - 1) : c > d => c * n + u # d * n + v
  <2> SUFFICES ASSUME NEW c \in Int, NEW d \in Int, NEW u \in 0..(n - 1), NEW v \in 0..(n - 1),
                      c > d, c * n + u = d * n + v
               PROVE  FALSE
    BY Zenon
  <2>1. PICK e \in Nat : c = d + 1 + e
    <3>1. c - d - 1 \in Nat /\ c = d + 1 + (c - d - 1)
      OBVIOUS
    <3> QED
      BY <3>1, Zenon
  <2>2. c * n = d * n + n + e * n
    BY <2>1
  <2>3. PICK z \in Int, w \in Nat : z = d * n /\ w = e * n
    BY <2>1
  <2> QED
    BY <2>2, <2>3
<1>2. a = b
  BY <1>1
<1>3. PICK z \in Int : z = a * n /\ z = b * n
  BY <1>2
<1> QED
  BY <1>2, <1>3

(* A block begins at a whole number of sectors. *)
LEMMA SectorFacts ==
  ASSUME NEW b \in Nat
  PROVE  /\ block_to_sector(b) \in Nat /\ block_to_sector(b) = b * (BlockSize \div SectorSize)
         /\ \A p : At(p, block_to_sector(b)) = SectorOf(p, b)
<1>1. BlockSize \in Nat /\ SectorSize \in Nat \ {0} /\ BlockSize % SectorSize = 0
  BY Ext2Assumption
<1>2. PICK k \in Nat : k = BlockSize \div SectorSize /\ BlockSize = k * SectorSize
  <2>1. BlockSize \div SectorSize \in Nat
    BY <1>1, DivFacts, Zenon
  <2> QED
    BY <1>1, <2>1
<1>3. PICK m \in Nat : m = b * BlockSize
  BY <1>1
<1>4. PICK q \in Int, x \in 0..(SectorSize - 1) : q = m \div SectorSize /\ m = q * SectorSize + x
  BY <1>1
<1>5. PICK n \in Nat : n = b * k
  BY <1>2
<1>6. m = n * SectorSize + 0
  <2>1. m = b * (k * SectorSize)
    BY <1>2, <1>3, Zenon
  <2>2. b * (k * SectorSize) = (b * k) * SectorSize
    BY <1>1
  <2>3. PICK z \in Nat : z = n * SectorSize
    BY <1>1
  <2> QED
    BY <1>5, <2>1, <2>2, <2>3
<1>7. 0 \in 0..(SectorSize - 1)
  BY <1>1
<1>8. q = n
  BY <1>1, <1>4, <1>6, <1>7, DivUnique
<1>9. block_to_sector(b) = n
  BY <1>3, <1>4, <1>8, Zenon DEF block_to_sector
<1> QED
  BY <1>2, <1>5, <1>9, Zenon DEF At, SectorOf

(* The sectors the mount begins with. *)
LEMMA FirstSectors == SuperblockSector \in Nat /\ GdtSector \in Nat
<1>1. MIN_BLOCK_SIZE \in Nat /\ BlockSize \in Nat /\ SectorSize \in Nat \ {0}
  BY Ext2Assumption, Zenon
<1>2. PICK n \in Nat : n = IF BlockSize = MIN_BLOCK_SIZE THEN 2 * MIN_BLOCK_SIZE ELSE BlockSize
  BY <1>1
<1>3. MIN_BLOCK_SIZE \div SectorSize \in Nat /\ n \div SectorSize \in Nat
  BY <1>1, <1>2, DivFacts, Zenon
<1> QED
  BY <1>2, <1>3, Zenon DEF SuperblockSector, GdtSector

(* The partition lies on the disk, so a sector within it is where it seems *)
(* to be: no sector number wraps.                                          *)
LEMMA PartFacts ==
  ASSUME NEW p \in parse_mbr(Mbr)
  PROVE  /\ p.lba_start \in Nat /\ p.num_sectors \in Nat
         /\ \A lba \in Nat : At(p, lba) \in Nat
         /\ \A lba \in Nat : InBounds(p, lba) => DiskLba(p, lba) = At(p, lba)
         /\ \A b \in Nat : InBounds(p, block_to_sector(b)) \/ OnEdge(p, b)
<1>1. PICK i \in 1..4 : p = [number |-> i, lba_start |-> Mbr.entries[i].lba_start,
                             num_sectors |-> Mbr.entries[i].num_sectors]
  BY Zenon DEF parse_mbr
<1>2. /\ Mbr.entries[i] \in [type : Nat, lba_start : Nat, num_sectors : Nat]
      /\ Mbr.entries[i].lba_start + Mbr.entries[i].num_sectors <= LbaRange
  BY Ext2Assumption, Zenon
<1>3. PICK a \in Nat, n \in Nat : a = p.lba_start /\ n = p.num_sectors /\ a + n <= LbaRange
  BY <1>1, <1>2, Zenon
<1>4. LbaRange \in Nat \ {0} /\ CacheSectors \in Nat \ {0}
  BY Ext2Assumption, Zenon
<1>5. ASSUME NEW lba \in Nat, InBounds(p, lba) PROVE DiskLba(p, lba) = At(p, lba)
  <2>1. lba + CacheSectors <= n
    BY <1>3, <1>5, Zenon DEF InBounds
  <2>2. a + lba < LbaRange /\ a + lba \in Nat
    BY <1>3, <1>4, <2>1
  <2>3. (a + lba) % LbaRange = a + lba
    BY <1>4, <2>2
  <2> QED
    BY <1>3, <2>3, Zenon DEF DiskLba, At
<1>6. ASSUME NEW b \in Nat, ~InBounds(p, block_to_sector(b)) PROVE OnEdge(p, b)
  <2>1. PICK k \in Nat : k = block_to_sector(b) /\ k = b * (BlockSize \div SectorSize)
    BY SectorFacts, Zenon
  <2>2. ~(k + CacheSectors <= n)
    BY <1>3, <1>6, <2>1, Zenon DEF InBounds
  <2>3. k + CacheSectors > n
    BY <1>3, <1>4, <2>2
  <2> QED
    BY <1>3, <2>1, <2>3, Zenon DEF OnEdge
<1>7. \A lba \in Nat : At(p, lba) \in Nat
  BY <1>3 DEF At
<1> QED
  BY <1>3, <1>5, <1>6, <1>7, Zenon

(* A pointer in a block, and through a pointer block. *)
LEMMA PtrFacts ==
  ASSUME NEW p, NEW i \in 0..(Ptrs - 1)
  PROVE  /\ \A at : PtrIn(at, i) \in Nat
         /\ \A ptr : PointersOf(p, ptr)[i + 1] = IF ptr = 0 THEN 0 ELSE PtrIn(SectorOf(p, ptr), i)
<1>1. Ptrs \in Nat /\ i + 1 \in 1..Ptrs /\ (i + 1) - 1 = i
  BY Ext2Assumption
<1>2. \A at : PtrIn(at, i) \in Nat
  BY <1>1, Ext2Assumption DEF PtrIn
<1>3. \A ptr : PointersOf(p, ptr)[i + 1] = IF ptr = 0 THEN 0 ELSE PtrIn(SectorOf(p, ptr), i)
  BY <1>1, Zenon DEF PointersOf
<1> QED
  BY <1>2, <1>3, Zenon

(* The sizes of a volume. *)
LEMMA SizeFacts ==
  /\ NDIR_BLOCKS \in Nat /\ Ptrs \in Nat \ {0} /\ Ptrs * Ptrs \in Nat
  /\ BlockSize \in Nat \ {0} /\ Header \in Nat \ {0}
  /\ Total \in Nat /\ Total = NDIR_BLOCKS + Ptrs + Ptrs * Ptrs
<1>1. /\ NDIR_BLOCKS \in Nat /\ Ptrs \in Nat /\ Ptrs \in Nat \ {0}
      /\ BlockSize \in Nat \ {0} /\ Header \in Nat \ {0}
  BY Ext2Assumption, Zenon
<1>2. \A n \in Nat : n * n \in Nat
  OBVIOUS
<1>3. PICK q \in Nat : q = Ptrs * Ptrs
  BY <1>1, <1>2, Zenon
<1> QED
  BY <1>1, <1>3 DEF Total

(* The pointers of an inode. *)
LEMMA InodeFacts ==
  ASSUME NEW inode \in Inode
  PROVE  /\ inode.len \in Nat /\ inode.blocks \in Pointers
         /\ \A i \in 0..(NDIR_BLOCKS + 1) : inode.blocks[i + 1] \in Nat
<1>1. inode.len \in Nat /\ inode.blocks \in [1..(NDIR_BLOCKS + 2) -> Nat] /\ NDIR_BLOCKS \in Nat
  BY Ext2Assumption, Zenon DEF Inode
<1>2. \A i \in 0..(NDIR_BLOCKS + 1) : i + 1 \in 1..(NDIR_BLOCKS + 2)
  BY <1>1
<1> QED
  BY <1>1, <1>2, Zenon DEF Pointers

(* The block that the flat list of the reference has at a place, by the    *)
(* level of pointers it is reached through.                                *)
LEMMA BlockCases ==
  ASSUME NEW p, NEW inode, NEW i \in 0..(Total - 1)
  PROVE  BlockOf(p, inode, i) =
           IF i < NDIR_BLOCKS THEN inode.blocks[i + 1]
           ELSE IF i - NDIR_BLOCKS < Ptrs
           THEN PointersOf(p, inode.blocks[NDIR_BLOCKS + 1])[(i - NDIR_BLOCKS) + 1]
           ELSE PointersOf(p, PointersOf(p, inode.blocks[NDIR_BLOCKS + 2])
                                [((i - NDIR_BLOCKS - Ptrs) \div Ptrs) + 1])
                  [((i - NDIR_BLOCKS - Ptrs) % Ptrs) + 1]
<1>1. NDIR_BLOCKS \in Nat /\ Ptrs \in Nat \ {0} /\ Ptrs * Ptrs \in Nat /\ Total \in Nat
  BY SizeFacts, Zenon
<1>2. PICK k \in Int : k = i + 1 /\ k \in 1..Total
  BY <1>1
<1>3. BlockOf(p, inode, i) =
        IF k - NDIR_BLOCKS < 1 THEN inode.blocks[k]
        ELSE IF k - NDIR_BLOCKS <= Ptrs
        THEN PointersOf(p, inode.blocks[NDIR_BLOCKS + 1])[k - NDIR_BLOCKS]
        ELSE PointersOf(p, PointersOf(p, inode.blocks[NDIR_BLOCKS + 2])
                             [(k - NDIR_BLOCKS - Ptrs - 1) \div Ptrs + 1])
               [((k - NDIR_BLOCKS - Ptrs - 1) % Ptrs) + 1]
  BY <1>2, Zenon DEF BlockOf, AllBlocks, Total
<1>4. /\ k - NDIR_BLOCKS = (i - NDIR_BLOCKS) + 1
      /\ k - NDIR_BLOCKS - Ptrs - 1 = i - NDIR_BLOCKS - Ptrs
      /\ k - NDIR_BLOCKS < 1 <=> i < NDIR_BLOCKS
      /\ k - NDIR_BLOCKS <= Ptrs <=> i - NDIR_BLOCKS < Ptrs
  BY <1>1, <1>2
<1> QED
  BY <1>2, <1>3, <1>4, Zenon

(* Through the indirect block. *)
LEMMA BlockIndirect ==
  ASSUME NEW p, NEW inode, NEW i \in 0..(Total - 1),
         NDIR_BLOCKS <= i, i < NDIR_BLOCKS + Ptrs
  PROVE  /\ i - NDIR_BLOCKS \in 0..(Ptrs - 1)
         /\ inode.blocks[NDIR_BLOCKS + 1] = 0 => BlockOf(p, inode, i) = 0
         /\ inode.blocks[NDIR_BLOCKS + 1] # 0 =>
              BlockOf(p, inode, i) = PtrIn(SectorOf(p, inode.blocks[NDIR_BLOCKS + 1]), i - NDIR_BLOCKS)
<1>1. NDIR_BLOCKS \in Nat /\ Ptrs \in Nat \ {0} /\ Total \in Nat
  BY SizeFacts, Zenon
<1>2. PICK m \in 0..(Ptrs - 1) : m = i - NDIR_BLOCKS /\ ~(i < NDIR_BLOCKS) /\ m < Ptrs
  BY <1>1
<1>3. PICK one : one = inode.blocks[NDIR_BLOCKS + 1]
  BY Zenon
<1>4. BlockOf(p, inode, i) = PointersOf(p, one)[m + 1]
  BY <1>2, <1>3, BlockCases, Zenon
<1>5. PointersOf(p, one)[m + 1] = IF one = 0 THEN 0 ELSE PtrIn(SectorOf(p, one), m)
  BY PtrFacts, Zenon
<1> QED
  BY <1>2, <1>3, <1>4, <1>5, Zenon

(* Through the double indirect block. *)
LEMMA BlockDouble ==
  ASSUME NEW p, NEW inode, NEW i \in 0..(Total - 1), NDIR_BLOCKS + Ptrs <= i
  PROVE  /\ (i - NDIR_BLOCKS - Ptrs) \div Ptrs \in 0..(Ptrs - 1)
         /\ (i - NDIR_BLOCKS - Ptrs) % Ptrs \in 0..(Ptrs - 1)
         /\ inode.blocks[NDIR_BLOCKS + 2] = 0 => BlockOf(p, inode, i) = 0
         /\ inode.blocks[NDIR_BLOCKS + 2] # 0 => \E ptr :
              /\ ptr = PtrIn(SectorOf(p, inode.blocks[NDIR_BLOCKS + 2]), (i - NDIR_BLOCKS - Ptrs) \div Ptrs)
              /\ BlockOf(p, inode, i) =
                   IF ptr = 0 THEN 0 ELSE PtrIn(SectorOf(p, ptr), (i - NDIR_BLOCKS - Ptrs) % Ptrs)
<1>1. NDIR_BLOCKS \in Nat /\ Ptrs \in Nat \ {0} /\ Ptrs * Ptrs \in Nat /\ Total \in Nat
  BY SizeFacts, Zenon
<1>2. PICK j \in Nat : /\ j = i - NDIR_BLOCKS - Ptrs /\ j < Ptrs * Ptrs
                       /\ ~(i < NDIR_BLOCKS) /\ ~(i - NDIR_BLOCKS < Ptrs)
  BY <1>1, SizeFacts
<1>3. PICK a \in 0..(Ptrs - 1) : a = j \div Ptrs
  BY <1>1, <1>2, DivFacts, Zenon
<1>4. PICK b \in 0..(Ptrs - 1) : b = j % Ptrs
  BY <1>1, <1>2, DivFacts, Zenon
<1>5. PICK two : two = inode.blocks[NDIR_BLOCKS + 2]
  BY Zenon
<1>6. BlockOf(p, inode, i) = PointersOf(p, PointersOf(p, two)[a + 1])[b + 1]
  BY <1>2, <1>3, <1>4, <1>5, BlockCases, Zenon
<1>7. PICK q : q = IF two = 0 THEN 0 ELSE PtrIn(SectorOf(p, two), a)
  BY Zenon
<1>8. PointersOf(p, two)[a + 1] = q
  BY <1>7, PtrFacts, Zenon
<1>9. PointersOf(p, q)[b + 1] = IF q = 0 THEN 0 ELSE PtrIn(SectorOf(p, q), b)
  BY PtrFacts, Zenon
<1> QED
  BY <1>2, <1>3, <1>4, <1>5, <1>6, <1>7, <1>8, <1>9, Zenon

(* Every pointer of the flat list is a number. *)
LEMMA BlockNat ==
  ASSUME NEW p, NEW inode \in Inode, NEW i \in 0..(Total - 1)
  PROVE  BlockOf(p, inode, i) \in Nat
<1>1. NDIR_BLOCKS \in Nat /\ Ptrs \in Nat \ {0} /\ Total \in Nat
  BY SizeFacts, Zenon
<1>2. CASE i < NDIR_BLOCKS
  <2>1. i \in 0..(NDIR_BLOCKS + 1)
    BY <1>1, <1>2
  <2> QED
    BY <1>2, <2>1, BlockCases, InodeFacts, Zenon
<1>3. CASE NDIR_BLOCKS <= i /\ i < NDIR_BLOCKS + Ptrs
  <2>1. PICK m \in 0..(Ptrs - 1) : m = i - NDIR_BLOCKS
    BY <1>3, BlockIndirect, Zenon
  <2>2. BlockOf(p, inode, i) = 0
        \/ BlockOf(p, inode, i) = PtrIn(SectorOf(p, inode.blocks[NDIR_BLOCKS + 1]), m)
    BY <1>3, <2>1, BlockIndirect, Zenon
  <2>3. \A at : PtrIn(at, m) \in Nat
    BY PtrFacts, Zenon
  <2> QED
    BY <2>2, <2>3
<1>4. CASE NDIR_BLOCKS + Ptrs <= i
  <2>1. PICK m \in 0..(Ptrs - 1) : m = (i - NDIR_BLOCKS - Ptrs) % Ptrs
    BY <1>4, BlockDouble, Zenon
  <2>2. BlockOf(p, inode, i) = 0 \/ \E ptr : BlockOf(p, inode, i) = PtrIn(SectorOf(p, ptr), m)
    <3>1. CASE inode.blocks[NDIR_BLOCKS + 2] = 0
      BY <1>4, <3>1, BlockDouble, Zenon
    <3>2. CASE inode.blocks[NDIR_BLOCKS + 2] # 0
      <4>1. PICK ptr : BlockOf(p, inode, i) = IF ptr = 0 THEN 0 ELSE PtrIn(SectorOf(p, ptr), m)
        BY <1>4, <2>1, <3>2, BlockDouble, Zenon
      <4> QED
        BY <4>1, Zenon
    <3> QED
      BY <3>1, <3>2, Zenon
  <2>3. \A at : PtrIn(at, m) \in Nat
    BY PtrFacts, Zenon
  <2> QED
    BY <2>2, <2>3
<1> QED
  BY <1>1, <1>2, <1>3, <1>4

(* The data block that is fetched is the one the flat list has. *)
LEMMA AimData ==
  ASSUME NEW p, NEW inode \in Inode, NEW r, r.idx \in Nat, Aim(p, inode, r), r.stage = "data",
         r.got.at = At(p, r.need)
  PROVE  ~HoleAt(p, inode, r.idx) /\ r.got.at = SectorOf(p, BlockOf(p, inode, r.idx))
<1>1. ~HoleAt(p, inode, r.idx) /\ r.need = block_to_sector(BlockOf(p, inode, r.idx))
  BY Zenon DEF Aim
<1>2. r.idx \in 0..(Total - 1)
  BY <1>1, SizeFacts DEF HoleAt
<1> QED
  BY <1>1, <1>2, BlockNat, SectorFacts, Zenon

(* Letting go of the first pointer block. *)
LEMMA LetGo ==
  ASSUME NEW r \in Call, NEW s, s = [r EXCEPT !.l1 = NoBuf]
  PROVE  s \in Call /\ Same(r, s) /\ s.idx = r.idx /\ s.boff = r.boff /\ s.bytes = r.bytes
BY NoBufType, Zenon DEF Call, Same

(* A hole ends the call, without an error. *)
LEMMA HoleEffect ==
  ASSUME NEW r \in Call, NEW s, s = Hole(r)
  PROVE  /\ s \in Call /\ Same(r, s) /\ s.pc = "done"
         /\ s.res = IF r.op = "read" THEN "Ok" ELSE "NotFound"
<1>1. PICK res \in Results : res = IF r.op = "read" THEN "Ok" ELSE "NotFound"
  BY Zenon DEF Results
<1>2. s = Done(r, res)
  BY <1>1, Zenon DEF Hole
<1> QED
  BY <1>1, <1>2, DoneEffect

\* Either a block is fetched on the way to block r.idx, or that is a hole.
Resolved(p, inode, r, s) ==
  /\ s \in Call /\ Same(r, s)
  /\ \/ s.pc = "get" /\ Aim(p, inode, s) /\ s.idx = r.idx /\ s.bytes = r.bytes
     \/ /\ s.pc = "done" /\ HoleAt(p, inode, r.idx)
        /\ s.res = IF r.op = "read" THEN "Ok" ELSE "NotFound"

(* The last pointer on the way is that of the block. *)
LEMMA ToBlockOK ==
  ASSUME NEW p, NEW inode, NEW r \in Call, r.idx < Total, NEW b \in Nat,
         b = BlockOf(p, inode, r.idx), NEW s, s = ToBlock(r, b)
  PROVE  Resolved(p, inode, r, s)
<1>1. CASE b = 0
  <2>1. s = Hole(r)
    BY <1>1, Zenon DEF ToBlock
  <2>2. HoleAt(p, inode, r.idx)
    BY <1>1, Zenon DEF HoleAt
  <2> QED
    BY <2>1, <2>2, HoleEffect, Zenon DEF Resolved
<1>2. CASE b # 0
  <2>1. PICK q \in Call : /\ q = [r EXCEPT !.l1 = NoBuf] /\ Same(r, q) /\ q.idx = r.idx
                          /\ q.boff = r.boff /\ q.bytes = r.bytes
    BY LetGo, Zenon
  <2>2. s = Fetch(q, "data", block_to_sector(b)) /\ block_to_sector(b) \in Nat
    BY <1>2, <2>1, SectorFacts, Zenon DEF ToBlock
  <2>3. "data" \in Stages
    BY Zenon DEF Stages
  <2>4. /\ s \in Call /\ s.pc = "get" /\ s.stage = "data" /\ s.need = block_to_sector(b) /\ Same(q, s)
        /\ s.idx = q.idx /\ s.boff = q.boff /\ s.bytes = q.bytes
    BY <2>2, <2>3, FetchEffect
  <2>5. Same(r, s)
    BY <2>1, <2>4 DEF Same
  <2>6. r.idx \in Nat /\ Total \in Nat
    BY SizeFacts, Zenon DEF Call
  <2>7. ~HoleAt(p, inode, s.idx)
    BY <1>2, <2>1, <2>4, <2>6 DEF HoleAt
  <2>8. Aim(p, inode, s)
    BY <1>2, <2>1, <2>4, <2>7, Zenon DEF Aim
  <2> QED
    BY <2>1, <2>4, <2>5, <2>8, Zenon DEF Resolved
<1> QED
  BY <1>1, <1>2, Zenon

(* resolve_block_ptr begins. *)
LEMMA ResolveOK ==
  ASSUME NEW p, NEW inode \in Inode, NEW r \in Call, r.blocks = inode.blocks,
         NEW s, s = Resolve(r)
  PROVE  Resolved(p, inode, r, s)
<1>1. /\ NDIR_BLOCKS \in Nat /\ Ptrs \in Nat \ {0} /\ Total \in Nat /\ Ptrs * Ptrs \in Nat
      /\ Total = NDIR_BLOCKS + Ptrs + Ptrs * Ptrs
  BY SizeFacts, Zenon
<1>2. r.idx \in Nat
  BY Zenon DEF Call
<1>3. /\ 0 \in 0..(NDIR_BLOCKS + 1) /\ NDIR_BLOCKS \in 0..(NDIR_BLOCKS + 1)
      /\ NDIR_BLOCKS + 1 \in 0..(NDIR_BLOCKS + 1) /\ NDIR_BLOCKS + 1 + 1 = NDIR_BLOCKS + 2
  BY <1>1
<1>4. PICK one \in Nat : one = inode.blocks[NDIR_BLOCKS + 1]
  BY <1>3, InodeFacts, Zenon
<1>5. PICK two \in Nat : two = inode.blocks[NDIR_BLOCKS + 2]
  BY <1>3, InodeFacts, Zenon
<1>6. "indirect" \in Stages /\ "double" \in Stages
  BY Zenon DEF Stages
<1>10. PICK first \in Nat, second \in Nat : first = block_to_sector(one) /\ second = block_to_sector(two)
  BY SectorFacts, Zenon
<1>7. CASE r.idx < NDIR_BLOCKS
  <2>1. r.idx \in 0..(NDIR_BLOCKS + 1) /\ r.idx \in 0..(Total - 1) /\ r.idx < Total
    BY <1>1, <1>2, <1>7
  <2>2. PICK b \in Nat : b = inode.blocks[r.idx + 1]
    BY <2>1, InodeFacts, Zenon
  <2>3. b = BlockOf(p, inode, r.idx)
    BY <1>7, <2>1, <2>2, BlockCases, Zenon
  <2>4. s = ToBlock(r, b)
    BY <1>7, <2>2, Zenon DEF Resolve
  <2> QED
    BY <2>1, <2>3, <2>4, ToBlockOK, Zenon
<1>8. CASE NDIR_BLOCKS <= r.idx /\ r.idx < NDIR_BLOCKS + Ptrs
  <2>1. r.idx \in 0..(Total - 1) /\ ~(r.idx < NDIR_BLOCKS) /\ r.idx - NDIR_BLOCKS < Ptrs
    BY <1>1, <1>2, <1>8
  <2>2. s = IF one = 0 THEN Hole(r) ELSE Fetch(r, "indirect", first)
    BY <1>4, <1>10, <2>1, Zenon DEF Resolve
  <2>3. CASE one = 0
    <3>1. BlockOf(p, inode, r.idx) = 0
      BY <1>4, <1>8, <2>1, <2>3, BlockIndirect, Zenon
    <3> QED
      BY <2>2, <2>3, <3>1, HoleEffect, Zenon DEF Resolved, HoleAt
  <2>4. CASE one # 0
    <3>1. /\ s \in Call /\ s.pc = "get" /\ s.stage = "indirect" /\ s.need = first
          /\ Same(r, s) /\ s.idx = r.idx /\ s.bytes = r.bytes
      BY <1>6, <2>2, <2>4, FetchEffect
    <3>2. Aim(p, inode, s)
      BY <1>4, <1>8, <1>10, <2>4, <3>1, Zenon DEF Aim
    <3> QED
      BY <3>1, <3>2, Zenon DEF Resolved
  <2> QED
    BY <2>3, <2>4, Zenon
<1>9. CASE r.idx >= NDIR_BLOCKS + Ptrs
  <2>1. ~(r.idx < NDIR_BLOCKS) /\ ~(r.idx - NDIR_BLOCKS < Ptrs)
    BY <1>1, <1>2, <1>9
  <2>2. s = IF r.idx - NDIR_BLOCKS - Ptrs < Ptrs * Ptrs /\ two # 0
            THEN Fetch(r, "double", second) ELSE Hole(r)
    BY <1>5, <1>10, <2>1, Zenon DEF Resolve
  <2>3. CASE r.idx >= Total
    <3>1. ~(r.idx - NDIR_BLOCKS - Ptrs < Ptrs * Ptrs)
      BY <1>1, <1>2, <2>3
    <3> QED
      BY <2>2, <2>3, <3>1, HoleEffect, Zenon DEF Resolved, HoleAt
  <2>4. CASE r.idx < Total /\ two = 0
    <3>1. r.idx \in 0..(Total - 1)
      BY <1>1, <1>2, <2>4
    <3>2. BlockOf(p, inode, r.idx) = 0
      BY <1>5, <1>9, <2>4, <3>1, BlockDouble, Zenon
    <3> QED
      BY <2>2, <2>4, <3>2, HoleEffect, Zenon DEF Resolved, HoleAt
  <2>5. CASE r.idx < Total /\ two # 0
    <3>1. r.idx - NDIR_BLOCKS - Ptrs < Ptrs * Ptrs
      BY <1>1, <1>2, <2>5
    <3>2. /\ s \in Call /\ s.pc = "get" /\ s.stage = "double" /\ s.need = second
          /\ Same(r, s) /\ s.idx = r.idx /\ s.bytes = r.bytes
      BY <1>6, <2>2, <2>5, <3>1, FetchEffect
    <3>3. Aim(p, inode, s)
      BY <1>1, <1>2, <1>5, <1>9, <1>10, <2>5, <3>2, Zenon DEF Aim
    <3> QED
      BY <3>2, <3>3, Zenon DEF Resolved
  <2> QED
    BY <1>1, <1>2, <2>3, <2>4, <2>5
<1> QED
  BY <1>1, <1>2, <1>7, <1>8, <1>9

(* resolve_block_ptr goes on with the pointer block it has. *)
LEMMA UseResolved ==
  ASSUME NEW p, NEW inode \in Inode, NEW r \in Call, Aim(p, inode, r), r.stage # "data",
         r.got.at = At(p, r.need), NEW s, s = Use(r)
  PROVE  Resolved(p, inode, r, s)
<1>1. /\ NDIR_BLOCKS \in Nat /\ Ptrs \in Nat \ {0} /\ Total \in Nat /\ Ptrs * Ptrs \in Nat
      /\ Total = NDIR_BLOCKS + Ptrs + Ptrs * Ptrs
  BY SizeFacts, Zenon
<1>2. PICK i \in Nat : i = r.idx
  BY Zenon DEF Call
<1>3. "level2" \in Stages /\ r.got \in Buf
  BY Zenon DEF Stages, Call
<1>8. NDIR_BLOCKS \in 0..(NDIR_BLOCKS + 1) /\ NDIR_BLOCKS + 1 \in 0..(NDIR_BLOCKS + 1)
      /\ NDIR_BLOCKS + 1 + 1 = NDIR_BLOCKS + 2
  BY <1>1
<1>4. PICK one \in Nat : one = inode.blocks[NDIR_BLOCKS + 1]
  BY <1>8, InodeFacts, Zenon
<1>5. PICK two \in Nat : two = inode.blocks[NDIR_BLOCKS + 2]
  BY <1>8, InodeFacts, Zenon
<1>6. CASE r.stage = "indirect"
  <2>1. r.got.at = SectorOf(p, one) /\ one # 0 /\ NDIR_BLOCKS <= i /\ i < NDIR_BLOCKS + Ptrs
    BY <1>2, <1>4, <1>6, SectorFacts, Zenon DEF Aim
  <2>2. i \in 0..(Total - 1) /\ i < Total
    BY <1>1, <2>1
  <2>3. /\ i - NDIR_BLOCKS \in 0..(Ptrs - 1)
        /\ BlockOf(p, inode, i) = PtrIn(SectorOf(p, one), i - NDIR_BLOCKS)
    BY <1>4, <2>1, <2>2, BlockIndirect
  <2>4. PICK b : b = PtrIn(SectorOf(p, one), i - NDIR_BLOCKS)
    BY Zenon
  <2>5. b \in Nat
    BY <2>3, <2>4, PtrFacts, Zenon
  <2>6. s = ToBlock(r, b)
    BY <1>2, <1>6, <2>1, <2>4, Zenon DEF Use
  <2> QED
    BY <1>2, <2>2, <2>3, <2>4, <2>5, <2>6, ToBlockOK, Zenon
<1>7. CASE r.stage \in {"double", "level2"}
  <2>1. NDIR_BLOCKS + Ptrs <= i /\ i < Total /\ two # 0
    BY <1>2, <1>5, <1>7, Zenon DEF Aim
  <2>2. i \in 0..(Total - 1)
    BY <1>1, <2>1
  <2>3. PICK j : j = i - NDIR_BLOCKS - Ptrs /\ j = DoubleIdx(r)
    BY <1>2, Zenon DEF DoubleIdx
  <2>4. j \div Ptrs \in 0..(Ptrs - 1) /\ j % Ptrs \in 0..(Ptrs - 1)
    BY <2>1, <2>2, <2>3, BlockDouble, Zenon
  <2>5. PICK ptr : /\ ptr = PtrIn(SectorOf(p, two), j \div Ptrs)
                   /\ BlockOf(p, inode, i) = IF ptr = 0 THEN 0 ELSE PtrIn(SectorOf(p, ptr), j % Ptrs)
    BY <1>5, <2>1, <2>2, <2>3, BlockDouble
  <2>6. ptr \in Nat
    BY <2>4, <2>5, PtrFacts, Zenon
  <2>7. CASE r.stage = "double"
    <3>1. r.got.at = SectorOf(p, two)
      BY <1>5, <2>7, SectorFacts, Zenon DEF Aim
    <3>2. s = IF ptr = 0 THEN Hole(r) ELSE Fetch([r EXCEPT !.l1 = r.got], "level2", block_to_sector(ptr))
      BY <2>3, <2>5, <2>7, <3>1, Zenon DEF Use
    <3>3. CASE ptr = 0
      BY <1>2, <2>5, <3>2, <3>3, HoleEffect, Zenon DEF Resolved, HoleAt
    <3>4. CASE ptr # 0
      <4>1. PICK q : q = [r EXCEPT !.l1 = r.got]
        BY Zenon
      <4>2. q \in Call /\ Same(r, q) /\ q.idx = r.idx /\ q.bytes = r.bytes
        BY <1>3, <4>1, Zenon DEF Call, Same
      <4>3. s = Fetch(q, "level2", block_to_sector(ptr)) /\ block_to_sector(ptr) \in Nat
        BY <2>6, <3>2, <3>4, <4>1, SectorFacts, Zenon
      <4>4. /\ s \in Call /\ s.pc = "get" /\ s.stage = "level2" /\ s.need = block_to_sector(ptr)
            /\ Same(q, s) /\ s.idx = q.idx /\ s.bytes = q.bytes
        BY <1>3, <2>6, <4>2, <4>3, FetchEffect
      <4>5. Same(r, s)
        BY <4>2, <4>4, Zenon DEF Same
      <4>6. DoubleIdx(s) = j
        BY <1>2, <2>3, <4>2, <4>4, Zenon DEF DoubleIdx
      <4>7. Aim(p, inode, s)
        BY <1>2, <1>5, <2>1, <2>5, <3>4, <4>2, <4>4, <4>6, Zenon DEF Aim
      <4> QED
        BY <4>2, <4>4, <4>5, <4>7, Zenon DEF Resolved
    <3> QED
      BY <3>3, <3>4, Zenon
  <2>8. CASE r.stage = "level2"
    <3>0. r.need = block_to_sector(ptr) /\ ptr # 0
      BY <1>5, <2>3, <2>5, <2>8, Zenon DEF Aim
    <3>1. r.got.at = SectorOf(p, ptr) /\ ptr # 0
      BY <2>6, <3>0, SectorFacts, Zenon
    <3>2. PICK b : b = PtrIn(SectorOf(p, ptr), j % Ptrs)
      BY Zenon
    <3>3. b \in Nat /\ b = BlockOf(p, inode, i)
      BY <2>4, <2>5, <3>1, <3>2, PtrFacts, Zenon
    <3>4. s = ToBlock(r, b)
      BY <2>3, <2>8, <3>1, <3>2, Zenon DEF Use
    <3> QED
      BY <1>2, <2>1, <3>3, <3>4, ToBlockOK, Zenon
  <2> QED
    BY <1>7, <2>7, <2>8, Zenon
<1> QED
  BY <1>6, <1>7, Zenon DEF Aim

(* What is fetched on the way to a block is on the reference's path to it, *)
(* so when it is refused the path leads to the partition's edge.           *)
LEMMA AimBarred ==
  ASSUME NEW p \in parse_mbr(Mbr), NEW inode \in Inode, NEW r \in Call, Aim(p, inode, r),
         ~InBounds(p, r.need)
  PROVE  r.idx + 1 \in 1..Total /\ Barred(p, inode, r.idx + 1)
<1>1. /\ NDIR_BLOCKS \in Nat /\ Ptrs \in Nat \ {0} /\ Total \in Nat
      /\ Total = NDIR_BLOCKS + Ptrs + Ptrs * Ptrs /\ Ptrs * Ptrs \in Nat
  BY SizeFacts, Zenon
<1>2. PICK i \in Nat : i = r.idx
  BY Zenon DEF Call
<1>3. PICK k \in Nat : k = i + 1 /\ k - NDIR_BLOCKS - Ptrs - 1 = i - NDIR_BLOCKS - Ptrs
  BY <1>1
<1>4. SUFFICES ASSUME NEW ptr \in Nat, i < Total, ptr \in PathTo(p, inode, k),
                      r.need = block_to_sector(ptr)
               PROVE  r.idx + 1 \in 1..Total /\ Barred(p, inode, r.idx + 1)
  <2> SUFFICES \E ptr \in Nat : i < Total /\ ptr \in PathTo(p, inode, k) /\ r.need = block_to_sector(ptr)
    BY Zenon
  <2>1. NDIR_BLOCKS \in 0..(NDIR_BLOCKS + 1) /\ NDIR_BLOCKS + 1 \in 0..(NDIR_BLOCKS + 1)
        /\ NDIR_BLOCKS + 1 + 1 = NDIR_BLOCKS + 2
    BY <1>1
  <2>2. PICK one \in Nat : one = inode.blocks[NDIR_BLOCKS + 1]
    BY <2>1, InodeFacts, Zenon
  <2>3. PICK two \in Nat : two = inode.blocks[NDIR_BLOCKS + 2]
    BY <2>1, InodeFacts, Zenon
  <2>4. CASE r.stage = "data"
    <3>1. r.need = block_to_sector(BlockOf(p, inode, i)) /\ ~(i >= Total)
      BY <1>2, <2>4, Zenon DEF Aim, HoleAt
    <3>2. i < Total /\ i \in 0..(Total - 1)
      BY <1>1, <3>1
    <3> QED
      BY <1>3, <3>1, <3>2, BlockNat, Zenon DEF PathTo, BlockOf
  <2>5. CASE r.stage = "indirect"
    <3>1. r.need = block_to_sector(one) /\ NDIR_BLOCKS <= i /\ i < NDIR_BLOCKS + Ptrs
      BY <1>2, <2>2, <2>5, Zenon DEF Aim
    <3>2. ~(k <= NDIR_BLOCKS) /\ k <= NDIR_BLOCKS + Ptrs /\ i < Total
      BY <1>1, <1>3, <3>1
    <3> QED
      BY <2>2, <3>1, <3>2, Zenon DEF PathTo
  <2>6. CASE r.stage \in {"double", "level2"}
    <3>1. NDIR_BLOCKS + Ptrs <= i /\ i < Total /\ two # 0
      BY <1>2, <2>3, <2>6, Zenon DEF Aim
    <3>2. ~(k <= NDIR_BLOCKS) /\ ~(k <= NDIR_BLOCKS + Ptrs) /\ i \in 0..(Total - 1)
      BY <1>1, <1>3, <3>1
    <3>3. PICK a \in 0..(Ptrs - 1) : a = (i - NDIR_BLOCKS - Ptrs) \div Ptrs
      BY <3>1, <3>2, BlockDouble, Zenon
    <3>4. PICK q : q = PtrIn(SectorOf(p, two), a)
      BY Zenon
    <3>5. q \in Nat /\ q = PointersOf(p, two)[a + 1]
      BY <3>1, <3>4, PtrFacts, Zenon
    <3>6. two \in PathTo(p, inode, k) /\ q \in PathTo(p, inode, k)
      BY <1>3, <2>3, <3>2, <3>3, <3>5, Zenon DEF PathTo
    <3>7. r.need = block_to_sector(two) \/ r.need = block_to_sector(q)
      BY <1>2, <2>3, <2>6, <3>3, <3>4, Zenon DEF Aim, DoubleIdx
    <3> QED
      BY <3>1, <3>5, <3>6, <3>7, Zenon
  <2> QED
    BY <2>4, <2>5, <2>6, Zenon DEF Aim
<1>5. OnEdge(p, ptr)
  BY <1>4, PartFacts, Zenon
<1>6. k \in 1..Total
  BY <1>1, <1>3, <1>4
<1> QED
  BY <1>2, <1>3, <1>4, <1>5, <1>6, Zenon DEF Barred

-----------------------------------------------------------------------------
(***************************************************************************)
(* Reading.                                                                *)
(***************************************************************************)
(* Bytes of one block. *)
LEMMA SameBlock ==
  ASSUME NEW off \in Nat, NEW n \in Nat \ {0}, NEW d \in Nat, (off % n) + d < n
  PROVE  (off + d) \div n = off \div n /\ (off + d) % n = (off % n) + d
<1>1. PICK a \in Int, x \in 0..(n - 1) : a = off \div n /\ x = off % n /\ off = a * n + x
  OBVIOUS
<1>2. PICK m \in Nat : m = off + d
  OBVIOUS
<1>3. PICK b \in Int, y \in 0..(n - 1) : b = m \div n /\ y = m % n /\ m = b * n + y
  OBVIOUS
<1>4. PICK z \in 0..(n - 1) : z = x + d
  <2>1. x + d < n
    BY <1>1, Zenon
  <2>2. x + d \in 0..(n - 1)
    BY <2>1
  <2> QED
    BY <2>2, Zenon
<1>5. PICK u \in Int, v \in Int : u = a * n /\ v = b * n
  OBVIOUS
<1>6. a * n + z = b * n + y
  <2>1. off = u + x /\ m = v + y
    BY <1>1, <1>3, <1>5, Zenon
  <2>2. u + z = v + y
    BY <1>2, <1>4, <2>1
  <2> QED
    BY <1>5, <2>2, Zenon
<1>7. a = b /\ z = y
  BY <1>6, DivUnique
<1> QED
  BY <1>1, <1>2, <1>3, <1>4, <1>7, Zenon

\* A call of read that goes on or ends well.
Reading(p, inode, r, s) ==
  /\ s \in Call /\ s.op = "read" /\ s.ino = r.ino
  /\ ReadJob(p, inode, s)
  /\ s.pc = "get" \/ (s.pc = "done" /\ s.res = "Ok")

(* The head of read's loop. *)
LEMMA ReadLoopOK ==
  ASSUME NEW p, NEW inode \in Inode, NEW r \in Call, r.op = "read",
         r.blocks = inode.blocks, r.len = inode.len, Delivered(p, inode, r),
         NEW off \in Nat, off = r.start + Len(r.out), NEW s, s = ReadLoop(r, off)
  PROVE  Reading(p, inode, r, s)
<1>1. BlockSize \in Nat \ {0} /\ Total \in Nat
  BY SizeFacts, Zenon
<1>2. /\ Len(r.out) \in Nat /\ r.start \in Nat /\ r.size \in Nat /\ r.len \in Nat
      /\ "Ok" \in Results
  BY DEF Call, Outputs, Results
<1>3. CASE Len(r.out) < r.size /\ off < r.len
  <2>1. PICK i \in Nat : i = off \div BlockSize
    BY <1>1, DivFacts, Zenon
  <2>2. PICK q : q = [r EXCEPT !.idx = i]
    BY Zenon
  <2>3. q \in Call /\ Same(r, q) /\ q.idx = i
    BY <2>2, Zenon DEF Call, Same
  <2>4. s = Resolve(q)
    BY <1>3, <2>1, <2>2, Zenon DEF ReadLoop
  <2>5. q.blocks = inode.blocks /\ q.op = "read"
    BY <2>3, Zenon DEF Same
  <2>6. Resolved(p, inode, q, s)
    BY <2>3, <2>4, <2>5, ResolveOK, Zenon
  <2>7. /\ s \in Call /\ s.op = "read" /\ s.blocks = r.blocks /\ s.len = r.len /\ s.start = r.start
        /\ s.size = r.size /\ s.out = r.out /\ s.ino = r.ino
    BY <2>3, <2>5, <2>6, Zenon DEF Resolved, Same
  <2>8. Delivered(p, inode, s)
    BY <2>7 DEF Delivered
  <2>9. CASE s.pc = "get" /\ Aim(p, inode, s) /\ s.idx = q.idx
    <3>1. ReadJob(p, inode, s)
      BY <1>3, <2>1, <2>3, <2>7, <2>8, <2>9, Zenon DEF ReadJob
    <3> QED
      BY <2>7, <2>9, <3>1, Zenon DEF Reading
  <2>10. CASE s.pc = "done" /\ HoleAt(p, inode, q.idx) /\ s.res = "Ok"
    <3>1. ReadJob(p, inode, s)
      BY <2>1, <2>3, <2>7, <2>8, <2>10, Zenon DEF ReadJob
    <3> QED
      BY <2>7, <2>10, <3>1, Zenon DEF Reading
  <2> QED
    BY <2>5, <2>6, <2>9, <2>10, Zenon DEF Resolved
<1>4. CASE ~(Len(r.out) < r.size /\ off < r.len)
  <2>1. s = Done(r, "Ok")
    BY <1>4, Zenon DEF ReadLoop
  <2>2. s \in Call /\ s.pc = "done" /\ s.res = "Ok" /\ Same(r, s)
    BY <1>2, <2>1, DoneEffect, Zenon
  <2>3. /\ s.op = "read" /\ s.blocks = r.blocks /\ s.len = r.len /\ s.start = r.start
        /\ s.size = r.size /\ s.out = r.out /\ s.ino = r.ino
    BY <2>2, Zenon DEF Same
  <2>4. Delivered(p, inode, s)
    BY <2>3, Zenon DEF Delivered
  <2>5. Len(r.out) = r.size \/ off >= r.len
    BY <1>2, <1>4 DEF Delivered
  <2>6. ReadJob(p, inode, s)
    BY <2>2, <2>3, <2>4, <2>5, Zenon DEF ReadJob
  <2> QED
    BY <2>2, <2>3, <2>6, Zenon DEF Reading
<1> QED
  BY <1>3, <1>4, Zenon

(* Two sequences joined. *)
LEMMA Joined ==
  ASSUME NEW S, NEW s \in Seq(S), NEW t \in Seq(S)
  PROVE  /\ s \o t \in Seq(S) /\ Len(s \o t) = Len(s) + Len(t)
         /\ \A i \in 1..Len(s) : (s \o t)[i] = s[i]
         /\ \A i \in 1..Len(t) : (s \o t)[Len(s) + i] = t[i]
OBVIOUS

(* How much of a block is copied: at least a byte, and none that is not    *)
(* asked for, of another block or past the end of the file.                *)
LEMMA CopyLenFacts ==
  ASSUME NEW r, NEW off \in Nat, NEW have \in Nat, have = Len(r.out), r.size \in Nat, r.len \in Nat,
         have < r.size, off < r.len, NEW n, n = CopyLen(r, off)
  PROVE  n \in Nat /\ n > 0 /\ (off % BlockSize) + n <= BlockSize /\ n <= r.len - off /\ n <= r.size - have
<1>1. PICK m \in Nat : m = off % BlockSize /\ m < BlockSize /\ BlockSize \in Nat
  <2>1. BlockSize \in Nat \ {0}
    BY SizeFacts, Zenon
  <2>2. off % BlockSize \in 0..(BlockSize - 1)
    BY <2>1, DivFacts, Zenon
  <2> QED
    BY <2>1, <2>2
<1>2. PICK a \in Nat, b \in Nat : a = r.len - off /\ b = r.size - have /\ a > 0 /\ b > 0
  OBVIOUS
<1>3. n = LET room == BlockSize - m
              left == IF a <= b THEN a ELSE b
          IN IF room <= left THEN room ELSE left
  BY <1>1, <1>2, Zenon DEF CopyLen
<1>4. n \in Nat /\ n > 0 /\ m + n <= BlockSize /\ n <= a /\ n <= b
  BY <1>1, <1>2, <1>3
<1> QED
  BY <1>1, <1>2, <1>4, Zenon

(* The bytes of a block are those the file has there. *)
LEMMA CopyOK ==
  ASSUME NEW p \in parse_mbr(Mbr), NEW inode \in Inode, NEW r \in Call, r.op = "read", r.stage = "data",
         r.pc = "get" \/ r.pc = "wait",
         ReadJob(p, inode, r), r.got.at = At(p, r.need), NEW s, s = CopyBlock(r)
  PROVE  Reading(p, inode, r, s)
<1>1. BlockSize \in Nat \ {0} /\ Total \in Nat
  BY SizeFacts, Zenon
<1>2. PICK have \in Nat : have = Len(r.out)
  BY DEF Call, Outputs
<1>3. /\ r.start \in Nat /\ r.size \in Nat /\ r.len \in Nat /\ r.out \in Seq(Nat \X Nat)
      /\ r.idx \in Nat /\ r.need \in Nat
  BY Zenon DEF Call, Outputs
<1>4. PICK off \in Nat : off = r.start + have
  BY <1>3
<1>5. /\ r.blocks = inode.blocks /\ r.len = inode.len /\ Delivered(p, inode, r)
      /\ have < r.size /\ off < r.len /\ r.idx = off \div BlockSize /\ Aim(p, inode, r)
  BY <1>2, <1>4, Zenon DEF ReadJob
<1>6. PICK n \in Nat : /\ n = CopyLen(r, off)
                       /\ n > 0 /\ (off % BlockSize) + n <= BlockSize /\ n <= r.len - off /\ n <= r.size - have
  BY <1>2, <1>3, <1>5, CopyLenFacts, Zenon
<1>7. PICK m \in 0..(BlockSize - 1) : m = off % BlockSize
  BY <1>1, DivFacts, Zenon
<1>8. PICK at \in Nat : at = r.got.at /\ at = SectorOf(p, BlockOf(p, inode, r.idx)) /\ ~HoleAt(p, inode, r.idx)
  <2>1. r.got.at = SectorOf(p, BlockOf(p, inode, r.idx)) /\ ~HoleAt(p, inode, r.idx)
    BY <1>3, <1>5, AimData, Zenon
  <2>2. r.got.at \in Nat
    BY <1>3, PartFacts, Zenon
  <2> QED
    BY <2>1, <2>2, Zenon
<1>9. PICK new : new = [i \in 1..n |-> <<at, m + i - 1>>]
  BY Zenon
<1>10. new \in Seq(Nat \X Nat) /\ Len(new) = n
  <2>1. \A i \in 1..n : m + i - 1 \in Nat
    BY <1>1
  <2>2. \A i \in 1..n : <<at, m + i - 1>> \in Nat \X Nat
    BY <2>1, Zenon
  <2> QED
    BY <1>9, <2>2
<1>11. PICK out : out = r.out \o new
  BY Zenon
<1>12. /\ out \in Seq(Nat \X Nat) /\ Len(out) = have + n
       /\ \A i \in 1..have : out[i] = r.out[i]
       /\ \A i \in 1..n : out[have + i] = new[i]
  <2>1. PICK old \in Seq(Nat \X Nat) : old = r.out /\ Len(old) = have
    BY <1>2, <1>3, Zenon
  <2>2. /\ old \o new \in Seq(Nat \X Nat) /\ Len(old \o new) = have + n
        /\ \A i \in 1..have : (old \o new)[i] = old[i]
        /\ \A i \in 1..n : (old \o new)[have + i] = new[i]
    <3>1. PICK S : S = Nat \X Nat
      BY Zenon
    <3>2. old \in Seq(S) /\ new \in Seq(S)
      BY <1>10, <2>1, <3>1, Zenon
    <3>3. /\ old \o new \in Seq(S) /\ Len(old \o new) = Len(old) + Len(new)
          /\ \A i \in 1..Len(old) : (old \o new)[i] = old[i]
          /\ \A i \in 1..Len(new) : (old \o new)[Len(old) + i] = new[i]
      <4> HIDE <3>1
      <4> QED
        BY <3>2, Joined
    <3> QED
      BY <1>10, <2>1, <3>1, <3>3, Zenon
  <2> QED
    BY <1>11, <2>1, <2>2, Zenon
<1>13. PICK q : q = [r EXCEPT !.out = out, !.got = NoBuf]
  BY Zenon
<1>14. /\ q \in Call /\ q.op = "read" /\ q.blocks = r.blocks /\ q.len = r.len /\ q.start = r.start
       /\ q.size = r.size /\ q.out = out /\ q.ino = r.ino
  <2>1. out \in Outputs
    BY <1>12, Zenon DEF Outputs
  <2> QED
    BY <1>13, <2>1, NoBufType, Zenon DEF Call
<1>15. s = ReadLoop(q, off + n)
  BY <1>2, <1>4, <1>6, <1>7, <1>8, <1>9, <1>11, <1>13, Zenon DEF CopyBlock
<1>16. ASSUME NEW k \in 1..n
       PROVE  /\ off + k - 1 < inode.len
              /\ ~HoleAt(p, inode, (off + k - 1) \div BlockSize)
              /\ new[k] = ByteAt(p, inode, off + k - 1)
  <2>1. PICK d \in Nat : d = k - 1 /\ m + d < BlockSize /\ off + k - 1 = off + d /\ m + k - 1 = m + d
    <3>1. m \in Int /\ n \in Int /\ off % BlockSize = m /\ m + n <= BlockSize
      BY <1>6, <1>7
    <3> QED
      BY <1>1, <3>1
  <2>2. (off + d) \div BlockSize = r.idx /\ (off + d) % BlockSize = m + d
    BY <1>1, <1>5, <1>7, <2>1, SameBlock, ZenonT(30)
  <2>3. off + k - 1 < inode.len
    BY <1>3, <1>5, <1>6
  <2>4. ByteAt(p, inode, off + d) = <<at, m + d>>
    BY <1>8, <2>2, Zenon DEF ByteAt, BlockOf
  <2> QED
    BY <1>8, <1>9, <2>1, <2>2, <2>3, <2>4, Zenon
<1>17. Delivered(p, inode, q)
  <2>0. Len(q.out) = have + n /\ q.size = r.size /\ q.start = r.start
    BY <1>12, <1>14, Zenon
  <2>1. Len(q.out) <= q.size
    BY <1>3, <1>6, <2>0
  <2>2. ASSUME NEW i \in 1..Len(q.out)
        PROVE  /\ q.start + i - 1 < inode.len
               /\ ~HoleAt(p, inode, (q.start + i - 1) \div BlockSize)
               /\ q.out[i] = ByteAt(p, inode, q.start + i - 1)
    <3>1. CASE i <= have
      <4>0. i \in 1..have
        BY <2>0, <3>1
      <4>1. i \in 1..Len(r.out) /\ out[i] = r.out[i]
        BY <1>2, <1>12, <4>0, Zenon
      <4> QED
        BY <1>5, <1>14, <4>1, Zenon DEF Delivered
    <3>2. CASE i > have
      <4>1. PICK k \in 1..n : i = have + k
        <5>1. i - have \in 1..n /\ i = have + (i - have)
          BY <2>0, <3>2
        <5> QED
          BY <5>1, Zenon
      <4>2. q.start + i - 1 = off + k - 1
        BY <1>3, <1>4, <1>14, <4>1
      <4> QED
        BY <1>12, <1>14, <1>16, <4>1, <4>2, Zenon
    <3> QED
      BY <2>0, <3>1, <3>2
  <2> QED
    BY <2>1, <2>2, Zenon DEF Delivered
<1>18. PICK next \in Nat : next = off + n /\ next = q.start + Len(q.out)
  <2>0. Len(q.out) = have + n /\ q.start = r.start
    BY <1>12, <1>14, Zenon
  <2>3. off + n \in Nat
    OBVIOUS
  <2>1. off + n \in Nat /\ q.start + Len(q.out) = r.start + (have + n)
    BY <2>0, <2>3, Zenon
  <2>2. r.start + (have + n) = off + n
    BY <1>3, <1>4
  <2> QED
    BY <2>1, <2>2, Zenon
<1>19. Reading(p, inode, q, s)
  BY <1>5, <1>14, <1>15, <1>17, <1>18, ReadLoopOK, Zenon
<1> QED
  BY <1>14, <1>19, Zenon DEF Reading

-----------------------------------------------------------------------------
(***************************************************************************)
(* Looking up a name.                                                      *)
(***************************************************************************)
(* The records of a directory block follow one another. *)
LEMMA DirFacts ==
  ASSUME NEW at \in DOMAIN DirAt, NEW x \in DOMAIN DirAt[at]
  PROVE  /\ x \in Nat /\ DirAt[at][x] \in Record
         /\ \A y \in DOMAIN DirAt[at] : y > x =>
              /\ DirAt[at][x].rec_len > 0 /\ x + DirAt[at][x].rec_len <= y
              /\ x + DirAt[at][x].rec_len \in DOMAIN DirAt[at]
BY Ext2Assumption, Zenon

(* What is read at an offset: a record, or zeros where there is none. *)
LEMMA EntryFacts ==
  ASSUME NEW at, NEW off, NEW e, e = EntryIn(at, off)
  PROVE  /\ e.ino \in Nat /\ e.rec_len \in Nat /\ e.name_len \in Nat
         /\ e.ino # 0 \/ e.rec_len # 0 =>
              at \in DOMAIN DirAt /\ off \in DOMAIN DirAt[at] /\ e = DirAt[at][off]
<1>1. CASE at \in DOMAIN DirAt /\ off \in DOMAIN DirAt[at]
  <2>1. e = DirAt[at][off] /\ DirAt[at][off] \in Record
    BY <1>1, DirFacts, Zenon DEF EntryIn
  <2> QED
    BY <1>1, <2>1, Zenon DEF Record
<1>2. CASE ~(at \in DOMAIN DirAt /\ off \in DOMAIN DirAt[at])
  BY <1>2, Zenon DEF EntryIn
<1> QED
  BY <1>1, <1>2, Zenon

(* A directory without damage, block by block. *)
LEMMA IntactFacts ==
  ASSUME NEW p, NEW inode, Intact(p, inode), NEW i \in 0..(Total - 1), BlockOf(p, inode, i) # 0
  PROVE  /\ (i + 1) * BlockSize <= inode.len
         /\ \A j \in 0..i : BlockOf(p, inode, j) # 0
         /\ SectorOf(p, BlockOf(p, inode, i)) \in DOMAIN DirAt =>
              \A x \in DOMAIN DirAt[SectorOf(p, BlockOf(p, inode, i))] :
                LET e == DirAt[SectorOf(p, BlockOf(p, inode, i))][x] IN
                /\ x + e.rec_len <= BlockSize
                /\ Comparable(e, x) => inode_location(e.ino).sector # -1
<1>1. Total \in Nat
  BY SizeFacts, Zenon
<1>2. PICK k \in Nat : k = i + 1
  BY <1>1
<1>3. DOMAIN AllBlocks(p, inode) = 1..Total /\ k \in 1..Total
  BY <1>1, <1>2 DEF AllBlocks, Total
<1>4. PICK b : b = AllBlocks(p, inode)[k] /\ b # 0 /\ b = BlockOf(p, inode, i)
  BY <1>2, Zenon DEF BlockOf
<1>5. /\ k * BlockSize <= inode.len
      /\ \A j \in 1..k : AllBlocks(p, inode)[j] # 0
      /\ SectorOf(p, b) \in DOMAIN DirAt => \A x \in DOMAIN DirAt[SectorOf(p, b)] :
           /\ x + DirAt[SectorOf(p, b)][x].rec_len <= BlockSize
           /\ Comparable(DirAt[SectorOf(p, b)][x], x) =>
                inode_location(DirAt[SectorOf(p, b)][x].ino).sector # -1
  BY <1>3, <1>4, Zenon DEF Intact
<1>6. \A j \in 0..i : j + 1 \in 1..k
  BY <1>1, <1>2
<1> QED
  BY <1>2, <1>4, <1>5, <1>6, Zenon DEF BlockOf

(* Multiples of the block size. *)
LEMMA Multiples ==
  ASSUME NEW i \in Nat, NEW j \in Nat, NEW n \in Nat
  PROVE  /\ i * n \in Nat /\ (i + 1) * n = i * n + n
         /\ i <= j => i * n <= j * n
<1>1. i * n \in Nat /\ (i + 1) * n = i * n + n
  OBVIOUS
<1>2. ASSUME i <= j PROVE i * n <= j * n
  <2>1. PICK d \in Nat : j = i + d
    <3>1. j - i \in Nat /\ j = i + (j - i)
      BY <1>2
    <3> QED
      BY <3>1, Zenon
  <2>2. j * n = i * n + d * n
    BY <2>1
  <2>3. PICK x \in Nat, y \in Nat : x = i * n /\ y = d * n
    BY <2>1
  <2> QED
    BY <2>2, <2>3
<1> QED
  BY <1>1, <1>2, Zenon

(* A hole, or the end of its length, ends a directory without damage. *)
LEMMA NoMore ==
  ASSUME NEW p, NEW inode \in Inode, NEW r, r.idx \in Nat, Intact(p, inode),
         Seen(p, inode, r, r.idx, 0),
         HoleAt(p, inode, r.idx) \/ inode.len <= r.idx * BlockSize
  PROVE  Absent(p, inode, r.name)
<1> SUFFICES ASSUME NEW j \in 0..(Total - 1), NEW x \in 0..(BlockSize - 1), NameAt(p, inode, r.name, j, x)
             PROVE  FALSE
  BY Zenon DEF Absent
<1>1. BlockSize \in Nat \ {0} /\ Total \in Nat /\ inode.len \in Nat
  BY SizeFacts, InodeFacts, Zenon
<1>2. PICK i \in Nat : i = r.idx
  BY Zenon
<1>3. j >= i /\ j \in Nat
  BY <1>1, <1>2 DEF Seen
<1>4. BlockOf(p, inode, j) # 0
  BY Zenon DEF NameAt
<1>5. (j + 1) * BlockSize <= inode.len /\ \A k \in 0..j : BlockOf(p, inode, k) # 0
  BY <1>4, IntactFacts, Zenon
<1>6. CASE HoleAt(p, inode, i)
  <2>1. i \in 0..j /\ ~(i >= Total)
    BY <1>1, <1>3
  <2> QED
    BY <1>5, <1>6, <2>1, Zenon DEF HoleAt
<1>7. CASE inode.len <= i * BlockSize
  <2>1. (j + 1) * BlockSize = j * BlockSize + BlockSize /\ i * BlockSize <= j * BlockSize
    BY <1>1, <1>3, Multiples, Zenon
  <2>2. PICK a \in Nat, b \in Nat : a = i * BlockSize /\ b = j * BlockSize
    BY <1>1, <1>3, Multiples, Zenon
  <2> QED
    BY <1>1, <1>5, <1>7, <2>1, <2>2
<1> QED
  BY <1>2, <1>6, <1>7, Zenon

(* The name is not in this block from here on: the next one is looked at.  *)
LEMMA NextBlock ==
  ASSUME NEW p, NEW inode, NEW r, NEW s, s.name = r.name, NEW i \in Nat, NEW b \in Nat,
         Seen(p, inode, r, i, b),
         \A x \in 0..(BlockSize - 1) : NameAt(p, inode, r.name, i, x) => ~(x >= b)
  PROVE  Seen(p, inode, s, i + 1, 0)
<1> SUFFICES ASSUME NEW j \in 0..(Total - 1), NEW x \in 0..(BlockSize - 1), NameAt(p, inode, s.name, j, x)
             PROVE  j > i + 1 \/ (j = i + 1 /\ x >= 0)
  BY Zenon DEF Seen
<1>1. Total \in Nat /\ BlockSize \in Nat
  BY SizeFacts, Zenon
<1>2. j > i \/ (j = i /\ x >= b)
  BY Zenon DEF Seen
<1>3. j > i
  BY <1>2, Zenon
<1> QED
  BY <1>1, <1>3

\* A lookup after a step of its scan.
Scanning(p, inode, r, s) ==
  /\ s \in Call /\ s.op = "lookup" /\ s.name = r.name
  /\ LookupJob(p, inode, s)
  /\ \/ s.pc \in {"scan", "inode"}
     \/ s.pc = "get" /\ s.stage # "inode"
     \/ s.pc = "done" /\ s.res = "NotFound"

(* The next block of the directory, or its end. *)
LEMMA ScanResolved ==
  ASSUME NEW p, NEW inode \in Inode, NEW r \in Call, r.op = "lookup",
         r.blocks = inode.blocks, r.len = inode.len,
         Intact(p, inode) => Seen(p, inode, r, r.idx, 0) /\ r.bytes <= r.idx * BlockSize,
         NEW s, Resolved(p, inode, r, s)
  PROVE  Scanning(p, inode, r, s)
<1>1. /\ s \in Call /\ s.op = "lookup" /\ s.name = r.name /\ s.blocks = inode.blocks
      /\ s.len = inode.len /\ r.idx \in Nat
  BY Zenon DEF Resolved, Same, Call
<1>2. CASE s.pc = "get" /\ Aim(p, inode, s) /\ s.idx = r.idx /\ s.bytes = r.bytes
  <2>1. s.stage # "inode"
    BY <1>2, Zenon DEF Aim
  <2>2. Intact(p, inode) => Seen(p, inode, s, s.idx, 0) /\ s.bytes <= s.idx * BlockSize
    BY <1>1, <1>2, Zenon DEF Seen
  <2>3. LookupJob(p, inode, s)
    BY <1>1, <1>2, <2>1, <2>2, Zenon DEF LookupJob, ReadsInode
  <2> QED
    BY <1>1, <1>2, <2>1, <2>3, Zenon DEF Scanning
<1>3. CASE s.pc = "done" /\ HoleAt(p, inode, r.idx) /\ s.res = "NotFound"
  <2>1. Intact(p, inode) => Absent(p, inode, r.name)
    BY <1>1, <1>3, NoMore, Zenon
  <2>2. LookupJob(p, inode, s)
    BY <1>1, <1>3, <2>1, Zenon DEF LookupJob, ReadsInode
  <2> QED
    BY <1>1, <1>3, <2>2, Zenon DEF Scanning
<1> QED
  BY <1>2, <1>3, Zenon DEF Resolved

(* The block is left for the next one. *)
LEMMA LeaveBlock ==
  ASSUME NEW p, NEW inode, NEW r \in Call, NEW s \in Call, s.op = "lookup", s.name = r.name,
         s.blocks = inode.blocks, s.len = inode.len, s.pc = "scan", s.boff = BlockSize,
         Intact(p, inode) => Seen(p, inode, s, s.idx, 0) /\ s.bytes <= s.idx * BlockSize
  PROVE  Scanning(p, inode, r, s)
<1>1. s.boff >= BlockSize /\ ~(s.boff < BlockSize)
  BY SizeFacts
<1>2. LookupJob(p, inode, s)
  BY <1>1, Zenon DEF LookupJob, ReadsInode
<1> QED
  BY <1>2, Zenon DEF Scanning

\* A scan within a block without damage.
Within(p, inode, r) ==
  /\ Seen(p, inode, r, r.idx, r.boff)
  /\ r.bytes <= r.idx * BlockSize + r.boff
  /\ r.dir.at \in DOMAIN DirAt =>
       r.boff \in DOMAIN DirAt[r.dir.at] \/ \A x \in DOMAIN DirAt[r.dir.at] : x < r.boff

(* Nothing that can be compared follows a record of length zero, nor lies  *)
(* where no header fits.                                                   *)
LEMMA BlockEnds ==
  ASSUME NEW p, NEW inode, NEW r \in Call, NEW i \in Nat, i = r.idx, NEW b \in Nat, b = r.boff,
         r.dir.at = SectorOf(p, BlockOf(p, inode, i)), Within(p, inode, r),
         NEW e, e = EntryIn(r.dir.at, b),
         b + Header > BlockSize \/ e.rec_len = 0,
         NEW x \in 0..(BlockSize - 1), NameAt(p, inode, r.name, i, x)
  PROVE  ~(x >= b)
<1>1. BlockSize \in Nat \ {0} /\ Header \in Nat \ {0}
  BY SizeFacts, Zenon
<1>2. SUFFICES ASSUME x >= b PROVE FALSE
  BY Zenon
<1>3. PICK at : at = r.dir.at
  BY Zenon
<1>4. at \in DOMAIN DirAt /\ x \in DOMAIN DirAt[at] /\ Comparable(DirAt[at][x], x)
  BY <1>3, Zenon DEF NameAt
<1>5. x \in Nat /\ DirAt[at][x] \in Record
  BY <1>4, DirFacts, Zenon
<1>6. DirAt[at][x].rec_len > 0 /\ x + Header + DirAt[at][x].name_len <= BlockSize
      /\ DirAt[at][x].name_len \in Nat
  BY <1>4, <1>5, Zenon DEF Comparable, Record
<1>7. CASE b + Header > BlockSize
  BY <1>1, <1>2, <1>5, <1>6, <1>7
<1>8. CASE e.rec_len = 0
  <2>1. ~\A y \in DOMAIN DirAt[at] : y < b
    BY <1>2, <1>4, <1>5
  <2>2. b \in DOMAIN DirAt[at]
    BY <1>3, <1>4, <2>1, Zenon DEF Within
  <2>3. e = DirAt[at][b]
    BY <1>3, <1>4, <2>2, Zenon DEF EntryIn
  <2>4. CASE x = b
    BY <1>6, <1>8, <2>3, <2>4
  <2>5. CASE x > b
    <3>1. DirAt[at][b].rec_len > 0
      BY <1>4, <2>2, <2>5, DirFacts, Zenon
    <3> QED
      BY <1>8, <2>3, <3>1
  <2> QED
    BY <1>2, <1>5, <2>4, <2>5
<1> QED
  BY <1>7, <1>8, Zenon

(* One round of the directory scan. *)
LEMMA DirStepOK ==
  ASSUME NEW p, NEW inode \in Inode, NEW r \in Call, r.op = "lookup", r.pc = "scan",
         LookupJob(p, inode, r), NEW s, s = DirStep(r)
  PROVE  Scanning(p, inode, r, s)
<1>1. BlockSize \in Nat \ {0} /\ Header \in Nat \ {0} /\ Total \in Nat /\ inode.len \in Nat
  BY SizeFacts, InodeFacts, Zenon
<1>2. r.blocks = inode.blocks /\ r.len = inode.len
  BY Zenon DEF LookupJob
<1>3. PICK i \in Nat, b \in Nat, y \in Nat : i = r.idx /\ b = r.boff /\ y = r.bytes
  BY Zenon DEF Call
<1>4. i * BlockSize \in Nat /\ (i + 1) * BlockSize = i * BlockSize + BlockSize
  BY <1>1, Multiples, Zenon
<1>5. PICK e : e = EntryIn(r.dir.at, r.boff)
  BY Zenon
<1>6. PICK next : next = [r EXCEPT !.bytes = r.bytes + e.rec_len, !.boff = r.boff + e.rec_len]
  BY Zenon
<1>7. /\ e.ino \in Nat /\ e.rec_len \in Nat /\ e.name_len \in Nat
      /\ e.ino # 0 \/ e.rec_len # 0 => /\ r.dir.at \in DOMAIN DirAt /\ b \in DOMAIN DirAt[r.dir.at]
                                       /\ e = DirAt[r.dir.at][b]
  BY <1>3, <1>5, EntryFacts
<1>8. /\ next \in Call /\ next.op = "lookup" /\ next.name = r.name /\ next.blocks = r.blocks
      /\ next.len = r.len /\ next.pc = "scan" /\ next.idx = i /\ next.dir = r.dir
      /\ next.bytes = y + e.rec_len /\ next.boff = b + e.rec_len
  <2>1. y + e.rec_len \in Nat /\ b + e.rec_len \in Nat
    BY <1>7
  <2> QED
    BY <1>3, <1>6, <2>1, Zenon DEF Call
<1>9. s = IF r.boff >= BlockSize
          THEN IF r.bytes >= r.len THEN Done(r, "NotFound") ELSE Resolve(r)
          ELSE IF r.boff + Header > BlockSize \/ e.rec_len = 0
          THEN [r EXCEPT !.idx = @ + 1, !.boff = BlockSize]
          ELSE IF e.ino # 0 /\ e.name_len # 0 /\ r.boff + Header + e.name_len <= BlockSize
                  /\ e.name = r.name
          THEN [next EXCEPT !.ino = e.ino, !.pc = "inode"]
          ELSE IF next.boff >= BlockSize \/ next.bytes >= r.len
          THEN [next EXCEPT !.idx = @ + 1, !.boff = BlockSize] ELSE next
  BY <1>5, <1>6 DEF DirStep
<1>10. CASE b >= BlockSize
  <2>1. Intact(p, inode) => Seen(p, inode, r, r.idx, 0) /\ r.bytes <= r.idx * BlockSize
    BY <1>3, <1>10, Zenon DEF LookupJob
  <2>2. CASE y >= r.len
    <3>1. s = Done(r, "NotFound") /\ "NotFound" \in Results
      BY <1>3, <1>9, <1>10, <2>2, Zenon DEF Results
    <3>2. s \in Call /\ s.pc = "done" /\ s.res = "NotFound" /\ Same(r, s)
      BY <3>1, DoneEffect, Zenon
    <3>3. s.op = "lookup" /\ s.name = r.name /\ s.blocks = inode.blocks /\ s.len = inode.len
      BY <1>2, <3>2, Zenon DEF Same
    <3>4. ASSUME Intact(p, inode)
          PROVE  Absent(p, inode, r.name)
      <4>1. inode.len <= r.idx * BlockSize
        BY <1>1, <1>2, <1>3, <1>4, <2>1, <2>2, <3>4
      <4> QED
        BY <1>3, <2>1, <3>4, <4>1, NoMore, Zenon
    <3>5. LookupJob(p, inode, s)
      BY <3>2, <3>3, <3>4, Zenon DEF LookupJob, ReadsInode
    <3> QED
      BY <3>2, <3>3, <3>5, Zenon DEF Scanning
  <2>3. CASE ~(y >= r.len)
    <3>1. s = Resolve(r)
      BY <1>3, <1>9, <1>10, <2>3, Zenon
    <3>2. Resolved(p, inode, r, s)
      BY <1>2, <3>1, ResolveOK, Zenon
    <3> QED
      BY <1>2, <2>1, <3>2, ScanResolved, Zenon
  <2> QED
    BY <2>2, <2>3, Zenon
<1>11. ASSUME b < BlockSize PROVE Scanning(p, inode, r, s)
  <2>0. ~(b >= BlockSize)
    BY <1>1, <1>11
  <2>1. /\ i \in 0..(Total - 1) /\ BlockOf(p, inode, i) # 0 /\ r.dir.at = SectorOf(p, BlockOf(p, inode, i))
        /\ ~HoleAt(p, inode, i)
        /\ Intact(p, inode) => Within(p, inode, r)
    <3>1. /\ ~HoleAt(p, inode, i) /\ r.dir.at = SectorOf(p, BlockOf(p, inode, i))
          /\ Intact(p, inode) => Within(p, inode, r)
      BY <1>3, <1>11, Zenon DEF LookupJob, Within
    <3>2. ~(i >= Total) /\ BlockOf(p, inode, i) # 0
      BY <3>1, Zenon DEF HoleAt
    <3> QED
      BY <1>1, <3>1, <3>2
  <2>2. CASE b + Header > BlockSize \/ e.rec_len = 0
    <3>1. s = [r EXCEPT !.idx = @ + 1, !.boff = BlockSize]
      BY <1>3, <1>9, <2>0, <2>2, Zenon
    <3>2. i + 1 \in Nat
      OBVIOUS
    <3>3. /\ s \in Call /\ s.op = "lookup" /\ s.name = r.name /\ s.blocks = r.blocks /\ s.len = r.len
          /\ s.pc = "scan" /\ s.boff = BlockSize /\ s.bytes = y /\ s.idx = i + 1
      BY <1>1, <1>3, <3>1, <3>2, ZenonT(30) DEF Call
    <3>4. ASSUME Intact(p, inode)
          PROVE  Seen(p, inode, s, s.idx, 0) /\ s.bytes <= s.idx * BlockSize
      <4>1. \A x \in 0..(BlockSize - 1) : NameAt(p, inode, r.name, i, x) => ~(x >= b)
        BY <1>3, <1>5, <2>1, <2>2, <3>4, BlockEnds, Zenon
      <4>2. Seen(p, inode, r, i, b) /\ y <= i * BlockSize + b
        BY <1>3, <2>1, <3>4, Zenon DEF Within
      <4>3. Seen(p, inode, s, i + 1, 0)
        BY <3>3, <4>1, <4>2, NextBlock, Zenon
      <4>4. y <= (i + 1) * BlockSize
        BY <1>1, <1>4, <1>11, <4>2
      <4> QED
        BY <3>3, <4>3, <4>4, Zenon
    <3> QED
      BY <1>2, <3>3, <3>4, LeaveBlock, Zenon
  <2>3. ASSUME ~(b + Header > BlockSize \/ e.rec_len = 0) PROVE Scanning(p, inode, r, s)
    <3>1. /\ r.dir.at \in DOMAIN DirAt /\ b \in DOMAIN DirAt[r.dir.at] /\ e = DirAt[r.dir.at][b]
          /\ e.rec_len > 0
      BY <1>7, <2>3
    <3> DEFINE same == /\ e.ino # 0 /\ e.name_len # 0
                       /\ b + Header + e.name_len <= BlockSize /\ e.name = r.name
    <3>2. e.name_len # 0 <=> e.name_len > 0
      <4> e.name_len \in Nat
        BY <1>7, Zenon
      <4> QED
        OBVIOUS
    <3>3. same <=> Comparable(e, b) /\ e.name = r.name
      BY <3>1, <3>2, Zenon DEF Comparable
    <3>4. same <=> NameAt(p, inode, r.name, i, b)
      BY <2>1, <3>1, <3>3, Zenon DEF NameAt
    <3>5. s = IF same THEN [next EXCEPT !.ino = e.ino, !.pc = "inode"]
              ELSE IF next.boff >= BlockSize \/ next.bytes >= r.len
              THEN [next EXCEPT !.idx = @ + 1, !.boff = BlockSize] ELSE next
      BY <1>3, <1>9, <2>0, <2>3, Zenon
    <3> HIDE DEF same
    <3>6. CASE same
      <4>1. s = [next EXCEPT !.ino = e.ino, !.pc = "inode"] /\ "inode" \in Pcs
        BY <3>5, <3>6, Zenon DEF Pcs
      <4>2. /\ s \in Call /\ s.op = "lookup" /\ s.name = r.name /\ s.blocks = r.blocks /\ s.len = r.len
            /\ s.pc = "inode" /\ s.ino = e.ino
        <5>1. e.ino \in Nat
          BY <1>7, Zenon
        <5> QED
          BY <1>8, <4>1, <5>1, ZenonT(30) DEF Call
      <4>3. b \in 0..(BlockSize - 1)
        BY <1>1, <1>11
      <4>4. Named(p, inode, s.name, s.ino)
        BY <2>1, <3>1, <3>4, <3>6, <4>2, <4>3, Zenon DEF Named
      <4>5. LookupJob(p, inode, s)
        BY <1>2, <4>2, <4>4, Zenon DEF LookupJob, ReadsInode
      <4> QED
        BY <4>2, <4>5, Zenon DEF Scanning
    <3>7. ASSUME ~same, Intact(p, inode)
          PROVE  /\ \A x \in 0..(BlockSize - 1) : NameAt(p, inode, r.name, i, x) => x < b \/ x >= b + e.rec_len
                 /\ b + e.rec_len <= BlockSize /\ y <= i * BlockSize + b
                 /\ (i + 1) * BlockSize <= inode.len
                 /\ \/ b + e.rec_len \in DOMAIN DirAt[r.dir.at]
                    \/ \A x \in DOMAIN DirAt[r.dir.at] : x < b + e.rec_len
      <4>1. /\ (i + 1) * BlockSize <= inode.len
            /\ b + e.rec_len <= BlockSize
        BY <2>1, <3>1, <3>7, IntactFacts, Zenon
      <4>2. y <= i * BlockSize + b
        BY <1>3, <2>1, <3>7, Zenon DEF Within
      <4>3. ASSUME NEW x \in DOMAIN DirAt[r.dir.at], x > b
            PROVE  x >= b + e.rec_len /\ b + e.rec_len \in DOMAIN DirAt[r.dir.at]
        <5>1. b + e.rec_len <= x /\ b + e.rec_len \in DOMAIN DirAt[r.dir.at] /\ x \in Nat
          BY <3>1, <4>3, DirFacts, Zenon
        <5> QED
          BY <1>7, <5>1, Zenon
      <4>4. \A x \in 0..(BlockSize - 1) : NameAt(p, inode, r.name, i, x) => x < b \/ x >= b + e.rec_len
        <5> SUFFICES ASSUME NEW x \in 0..(BlockSize - 1), NameAt(p, inode, r.name, i, x)
                     PROVE  x < b \/ x >= b + e.rec_len
          BY Zenon
        <5>1. x # b
          BY <3>4, <3>7, Zenon
        <5>2. x \in DOMAIN DirAt[r.dir.at]
          BY <2>1, Zenon DEF NameAt
        <5>3. x \in Int /\ b \in Int
          BY <1>1
        <5>4. x < b \/ x > b
          BY <5>1, <5>3
        <5> QED
          BY <4>3, <5>2, <5>4, Zenon
      <4>5. \/ b + e.rec_len \in DOMAIN DirAt[r.dir.at]
            \/ \A x \in DOMAIN DirAt[r.dir.at] : x < b + e.rec_len
        <5> SUFFICES ASSUME NEW x \in DOMAIN DirAt[r.dir.at], ~(x < b + e.rec_len)
                     PROVE  b + e.rec_len \in DOMAIN DirAt[r.dir.at]
          BY Zenon
        <5>1. x \in Nat
          BY <3>1, DirFacts, Zenon
        <5>2. x > b
          BY <1>7, <3>1, <5>1
        <5> QED
          BY <4>3, <5>2, Zenon
      <4> QED
        BY <4>1, <4>2, <4>4, <4>5, Zenon
    <3>8. CASE ~same /\ (next.boff >= BlockSize \/ next.bytes >= r.len)
      <4>1. s = [next EXCEPT !.idx = @ + 1, !.boff = BlockSize]
        BY <3>5, <3>8, Zenon
      <4>2. /\ s \in Call /\ s.op = "lookup" /\ s.name = r.name /\ s.blocks = r.blocks /\ s.len = r.len
            /\ s.pc = "scan" /\ s.boff = BlockSize /\ s.bytes = y + e.rec_len /\ s.idx = i + 1
        <5>1. i + 1 \in Nat
          OBVIOUS
        <5> QED
          BY <1>1, <1>8, <4>1, <5>1, ZenonT(30) DEF Call
      <4>3. ASSUME Intact(p, inode)
            PROVE  Seen(p, inode, s, s.idx, 0) /\ s.bytes <= s.idx * BlockSize
        <5>0. /\ \A x \in 0..(BlockSize - 1) : NameAt(p, inode, r.name, i, x) => x < b \/ x >= b + e.rec_len
              /\ b + e.rec_len <= BlockSize /\ y <= i * BlockSize + b /\ (i + 1) * BlockSize <= inode.len
          BY <3>7, <3>8, <4>3, Zenon
        <5>1. b + e.rec_len >= BlockSize
          <6>1. PICK n \in Nat, w \in Nat : n = e.rec_len /\ w = i * BlockSize
            BY <1>4, <1>7, Zenon
          <6>2. b + n >= BlockSize \/ y + n >= inode.len
            BY <1>2, <1>8, <3>8, <6>1, Zenon
          <6>3. y <= w + b /\ w + BlockSize <= inode.len
            BY <1>4, <5>0, <6>1, Zenon
          <6> QED
            BY <1>1, <6>1, <6>2, <6>3
        <5>2. \A x \in 0..(BlockSize - 1) : NameAt(p, inode, r.name, i, x) => ~(x >= b)
          <6>1. PICK n \in Nat : n = e.rec_len /\ b + n >= BlockSize
            BY <1>7, <5>1, Zenon
          <6>2. \A x \in 0..(BlockSize - 1) : ~(x >= b + n) /\ (x < b => ~(x >= b))
            BY <1>1, <6>1
          <6> QED
            BY <5>0, <6>1, <6>2, Zenon
        <5>3. Seen(p, inode, r, i, b)
          BY <1>3, <2>1, <4>3, Zenon DEF Within
        <5>4. Seen(p, inode, s, i + 1, 0)
          BY <4>2, <5>2, <5>3, NextBlock, Zenon
        <5>5. y + e.rec_len <= (i + 1) * BlockSize
          BY <1>1, <1>4, <1>7, <5>0
        <5> QED
          BY <4>2, <5>4, <5>5, Zenon
      <4> QED
        BY <1>2, <4>2, <4>3, LeaveBlock, Zenon
    <3>9. CASE ~same /\ ~(next.boff >= BlockSize \/ next.bytes >= r.len)
      <4>1. s = next
        BY <3>5, <3>9, Zenon
      <4>2. s.boff < BlockSize /\ ~(s.boff >= BlockSize)
        BY <1>1, <1>7, <1>8, <3>9, <4>1
      <4>3. ASSUME Intact(p, inode) PROVE Within(p, inode, s)
        <5>1. s.bytes <= s.idx * BlockSize + s.boff
          <6>1. y <= i * BlockSize + b
            BY <3>7, <3>9, <4>3, Zenon
          <6>2. PICK n \in Nat, w \in Nat : n = e.rec_len /\ w = i * BlockSize
            BY <1>4, <1>7, Zenon
          <6>3. y + n <= w + (b + n)
            BY <6>1, <6>2
          <6> QED
            BY <1>8, <4>1, <6>2, <6>3, Zenon
        <5>2. Seen(p, inode, s, s.idx, s.boff)
          <6> SUFFICES ASSUME NEW j \in 0..(Total - 1), NEW x \in 0..(BlockSize - 1),
                              NameAt(p, inode, s.name, j, x)
                       PROVE  j > s.idx \/ (j = s.idx /\ x >= s.boff)
            BY Zenon DEF Seen
          <6>1. Seen(p, inode, r, i, b) /\ s.name = r.name
            BY <1>3, <1>8, <2>1, <4>1, <4>3, Zenon DEF Within
          <6>2. j > i \/ (j = i /\ x >= b)
            BY <6>1, Zenon DEF Seen
          <6>3. j = i => x < b \/ x >= b + e.rec_len
            BY <3>7, <3>9, <4>3, <6>1, Zenon
          <6> QED
            BY <1>1, <1>8, <4>1, <6>2, <6>3
        <5>3. s.dir.at \in DOMAIN DirAt =>
                s.boff \in DOMAIN DirAt[s.dir.at] \/ \A x \in DOMAIN DirAt[s.dir.at] : x < s.boff
          BY <1>8, <3>7, <3>9, <4>1, <4>3, Zenon
        <5> QED
          BY <5>1, <5>2, <5>3, Zenon DEF Within
      <4>4. ~HoleAt(p, inode, s.idx) /\ s.dir.at = SectorOf(p, BlockOf(p, inode, s.idx))
        BY <1>8, <2>1, <4>1, Zenon
      <4>5. LookupJob(p, inode, s)
        BY <1>2, <1>8, <4>1, <4>2, <4>3, <4>4, Zenon DEF LookupJob, ReadsInode, Within
      <4> QED
        BY <1>8, <4>1, <4>5, Zenon DEF Scanning
    <3> QED
      BY <3>6, <3>8, <3>9, Zenon
  <2> QED
    BY <2>2, <2>3, Zenon
<1> QED
  BY <1>1, <1>10, <1>11

-----------------------------------------------------------------------------
(***************************************************************************)
(* Inodes and the mount.                                                   *)
(***************************************************************************)
(* Where an inode is, if anywhere. *)
LEMMA LocationFacts ==
  ASSUME NEW ino \in Nat
  PROVE  /\ inode_location(ino).sector \in Nat \/ inode_location(ino).sector = -1
         /\ inode_location(ino).slot \in 0..(InodesPerBlock - 1)
         /\ inode_location(ino).sector # -1 =>
              /\ InodeBlock(ino) \in Nat
              /\ inode_location(ino).sector = block_to_sector(InodeBlock(ino))
              /\ inode_location(ino).slot = ((ino - 1) % InodesPerGroup) % InodesPerBlock
<1>1. /\ InodesPerGroup \in Nat \ {0} /\ InodesPerBlock \in Nat \ {0} /\ Groups \in Seq(Nat)
  BY Ext2Assumption, Zenon
<1>2. CASE ino = 0
  <2>1. inode_location(ino) = [sector |-> -1, slot |-> 0]
    BY <1>2, Zenon DEF inode_location
  <2> QED
    BY <1>1, <2>1
<1>3. CASE ino # 0
  <2>1. PICK n \in Nat : n = ino - 1
    BY <1>3
  <2>2. PICK group \in Nat, local \in Nat : group = n \div InodesPerGroup /\ local = n % InodesPerGroup
    <3>1. n \div InodesPerGroup \in Nat /\ n % InodesPerGroup \in 0..(InodesPerGroup - 1)
      BY <1>1, DivFacts, Zenon
    <3> QED
      BY <1>1, <3>1
  <2>3. PICK a \in Nat, b \in 0..(InodesPerBlock - 1) : a = local \div InodesPerBlock /\ b = local % InodesPerBlock
    BY <1>1, DivFacts, Zenon
  <2>4. inode_location(ino) = IF group >= Len(Groups) THEN [sector |-> -1, slot |-> 0]
                              ELSE [sector |-> block_to_sector(Groups[group + 1] + a), slot |-> b]
    BY <1>3, <2>1, <2>2, <2>3, Zenon DEF inode_location
  <2>5. CASE group >= Len(Groups)
    BY <1>1, <2>4, <2>5
  <2>6. CASE ~(group >= Len(Groups))
    <3>1. group + 1 \in 1..Len(Groups)
      BY <1>1, <2>6
    <3>2. PICK g \in Nat : g = Groups[group + 1]
      BY <1>1, <3>1
    <3>3. PICK w \in Nat : w = g + a
      OBVIOUS
    <3>4. InodeBlock(ino) = w /\ b = ((ino - 1) % InodesPerGroup) % InodesPerBlock
      BY <2>1, <2>2, <2>3, <3>2, <3>3, Zenon DEF InodeBlock
    <3>5. inode_location(ino) = [sector |-> block_to_sector(w), slot |-> b]
      <4>1. inode_location(ino) = [sector |-> block_to_sector(Groups[group + 1] + a), slot |-> b]
        BY <2>4, <2>6, Zenon
      <4>2. Groups[group + 1] + a = w
        BY <3>2, <3>3, Zenon
      <4> QED
        BY <4>1, <4>2, Zenon
    <3>6. PICK v \in Nat : v = block_to_sector(w)
      BY SectorFacts, Zenon
    <3>7. inode_location(ino).sector = v /\ inode_location(ino).slot = b
      BY <3>5, <3>6
    <3> QED
      BY <3>3, <3>4, <3>6, <3>7, Zenon
  <2> QED
    BY <2>5, <2>6, Zenon
<1> QED
  BY <1>2, <1>3, Zenon

(* What is read at the place of an inode is an inode. *)
LEMMA InodeType ==
  ASSUME NEW ino \in Nat
  PROVE  /\ \A at : InodeIn(at, inode_location(ino).slot) \in Inode
         /\ \A p : InodeOf(p, ino) \in Inode
<1>1. PICK i \in 0..(InodesPerBlock - 1) : i = inode_location(ino).slot
  BY LocationFacts, Zenon
<1>2. InodesPerBlock \in Nat \ {0} /\ i + 1 \in 1..InodesPerBlock
  BY Ext2Assumption
<1>3. \A at \in DOMAIN InodesAt : InodesAt[at][i + 1] \in Inode
  BY <1>2, Ext2Assumption
<1>4. [len |-> 0, blocks |-> [j \in 1..(NDIR_BLOCKS + 2) |-> 0]] \in Inode
  BY Zenon DEF Inode
<1>5. \A at : InodeIn(at, i) \in Inode
  BY <1>3, <1>4, Zenon DEF InodeIn
<1>6. PICK j \in 0..(InodesPerBlock - 1) : j = ((ino - 1) % InodesPerGroup) % InodesPerBlock
  <2>1. InodesPerGroup \in Nat \ {0}
    BY Ext2Assumption, Zenon
  <2>2. PICK m \in Nat : m = (ino - 1) % InodesPerGroup
    BY <2>1
  <2> QED
    BY <1>2, <2>2, DivFacts, Zenon
<1>7. j + 1 \in 1..InodesPerBlock
  BY <1>2
<1>8. \A at \in DOMAIN InodesAt : InodesAt[at][j + 1] \in Inode
  BY <1>7, Ext2Assumption
<1>9. \A at : InodeIn(at, j) \in Inode
  BY <1>4, <1>8, Zenon DEF InodeIn
<1> QED
  BY <1>1, <1>5, <1>6, <1>9, Zenon DEF InodeOf

(* What is read where read_inode looks is the inode of the reference. *)
LEMMA InodeThere ==
  ASSUME NEW p, NEW ino \in Nat, inode_location(ino).sector # -1
  PROVE  InodeIn(At(p, inode_location(ino).sector), inode_location(ino).slot) = InodeOf(p, ino)
BY LocationFacts, SectorFacts, Zenon DEF InodeOf

(* A BlockError ends a call. *)
LEMMA RefusedEffect ==
  ASSUME NEW r \in Call, NEW s, s = Refused(r)
  PROVE  /\ s \in Call /\ s.pc = "done" /\ Same(r, s)
         /\ s.res = IF r.op = "lookup" THEN "NotFound" ELSE "Err"
<1>1. PICK res \in Results : res = IF r.op = "lookup" THEN "NotFound" ELSE "Err"
  BY Zenon DEF Results
<1>2. s = Done(r, res)
  BY <1>1, Zenon DEF Refused
<1> QED
  BY <1>1, <1>2, DoneEffect

(* read_inode: the inode's block is fetched, unless there is none. *)
LEMMA ReadInodeEffect ==
  ASSUME NEW r \in Call, NEW ino \in Nat, NEW s, s = ReadInode(r, ino)
  PROVE  /\ s \in Call /\ s.op = r.op /\ s.blocks = r.blocks /\ s.len = r.len /\ s.name = r.name
         /\ \/ /\ s.pc = "done" /\ s.res = (IF r.op = "lookup" THEN "NotFound" ELSE "Err")
               /\ inode_location(ino).sector = -1
            \/ /\ s.pc = "get" /\ s.stage = "inode" /\ s.ino = ino
               /\ s.need = inode_location(ino).sector /\ inode_location(ino).sector # -1
<1>1. "inode" \in Stages
  BY Zenon DEF Stages
<1>2. PICK a : a = inode_location(ino).sector
  BY Zenon
<1>3. CASE a = -1
  <2>1. s = Refused(r)
    BY <1>2, <1>3, Zenon DEF ReadInode
  <2> QED
    BY <1>2, <1>3, <2>1, RefusedEffect DEF Same
<1>4. CASE a # -1
  <2>1. a \in Nat
    BY <1>2, <1>4, LocationFacts, Zenon
  <2>2. PICK q : q = [r EXCEPT !.ino = ino]
    BY Zenon
  <2>3. /\ q \in Call /\ q.op = r.op /\ q.blocks = r.blocks /\ q.len = r.len /\ q.name = r.name
        /\ q.ino = ino
    BY <2>2, Zenon DEF Call
  <2>4. s = Fetch(q, "inode", a)
    BY <1>2, <1>4, <2>2, Zenon DEF ReadInode
  <2> QED
    BY <1>1, <1>2, <1>4, <2>1, <2>3, <2>4, FetchEffect DEF Same
<1> QED
  BY <1>3, <1>4, Zenon

\* A call after a step that it takes by itself.
Moved(p, r, s) ==
  /\ s \in Call /\ s.op = r.op /\ Job(p, s)
  /\ s.pc \notin {"wait", "idle"}
  /\ s.op # "read" /\ s.pc = "done" => s.res # "Ok"
  /\ s.op = "lookup" /\ ReadsInode(s) => ReadsInode(r) /\ s.ino = r.ino

(* The mount goes on to the root inode. *)
LEMMA MountRoot ==
  ASSUME NEW p, NEW r \in Call, NEW q \in Call, q.op = "mount", r.op = "mount",
         NEW s, s = ReadInode(q, RootInode)
  PROVE  Moved(p, r, s)
<1>1. RootInode \in Nat
  BY Zenon DEF RootInode
<1>2. /\ s \in Call /\ s.op = "mount"
      /\ \/ s.pc = "done" /\ s.res = "Err"
         \/ /\ s.pc = "get" /\ s.stage = "inode" /\ s.ino = RootInode
            /\ s.need = inode_location(RootInode).sector /\ inode_location(RootInode).sector # -1
  BY <1>1, ReadInodeEffect
<1>3. MountJob(p, s)
  BY <1>2, Zenon DEF MountJob, ReadsInode, InodeAim
<1> QED
  BY <1>2, <1>3, Zenon DEF Moved, Job

(* The mount, block by block. *)
LEMMA MountFetches ==
  ASSUME NEW p, NEW r \in Call, NEW q \in Call, q.op = "mount", r.op = "mount",
         NEW stage \in {"gdt", "journal"}, NEW lba \in Nat, NEW s, s = Fetch(q, stage, lba)
  PROVE  Moved(p, r, s)
<1>1. stage \in Stages
  BY Zenon DEF Stages
<1>2. s \in Call /\ s.op = "mount" /\ s.pc = "get" /\ s.stage = stage
  BY <1>1, FetchEffect DEF Same
<1>3. MountJob(p, s)
  BY <1>2, Zenon DEF MountJob, ReadsInode
<1> QED
  BY <1>2, <1>3, Zenon DEF Moved, Job

(* A directory block is scanned from its first byte on. *)
LEMMA ScanStart ==
  ASSUME NEW q \in Call, NEW s, s = [q EXCEPT !.dir = q.got, !.got = NoBuf, !.boff = 0, !.pc = "scan"]
  PROVE  /\ s \in Call /\ s.op = q.op /\ s.name = q.name /\ s.blocks = q.blocks /\ s.len = q.len
         /\ s.pc = "scan" /\ s.idx = q.idx /\ s.bytes = q.bytes /\ s.boff = 0 /\ s.dir = q.got
<1>1. "scan" \in Pcs /\ 0 \in Nat
  BY Zenon DEF Pcs
<1> QED
  BY <1>1, NoBufType, Zenon DEF Call

(* The call goes on with the block it asked for. *)
LEMMA UseOK ==
  ASSUME NEW p \in parse_mbr(Mbr), NEW r \in Call, r.op # "none", r.pc \in {"get", "wait"}, Job(p, r),
         NEW b \in Buf, b.at = At(p, r.need), NEW q, q = [r EXCEPT !.got = b], NEW s, s = Use(q)
  PROVE  Moved(p, r, s) /\ (r.op = "read" /\ s.pc = "done" => s.res # "Err")
<1>1. /\ q \in Call /\ Same(r, q) /\ q.pc = r.pc /\ q.stage = r.stage /\ q.need = r.need /\ q.idx = r.idx
      /\ q.bytes = r.bytes /\ q.boff = r.boff /\ q.got = b
  BY Zenon DEF Call, Same
<1>2. q.op = r.op /\ q.ino = r.ino /\ q.name = r.name /\ q.blocks = r.blocks /\ q.len = r.len
  BY <1>1, Zenon DEF Same
<1>3. q.got.at = At(p, q.need)
  BY <1>1, Zenon
<1>4. r.ino \in Nat /\ RootInode \in Nat /\ r.op \in {"mount", "lookup", "read"}
  BY Zenon DEF Call, RootInode, Ops
<1>0. /\ "gdt" \in Stages /\ "journal" \in Stages /\ "gotinode" \in Pcs /\ "scan" \in Pcs
  BY Zenon DEF Stages, Pcs
<1>5. CASE r.op = "mount"
  <2>1. MountJob(p, r) /\ r.stage \in {"super", "gdt", "journal", "inode"}
    BY <1>5, Zenon DEF Job, MountJob
  <2>2. CASE r.stage = "super"
    <3>1. s = AfterSuper(q)
      BY <1>1, <2>2, Zenon DEF Use
    <3>2. CASE s = Fetch(q, "gdt", GdtSector)
      BY <1>1, <1>2, <1>5, <3>2, FirstSectors, MountFetches, Zenon
    <3>3. CASE s = Refused(q)
      <4>1. s \in Call /\ s.op = "mount" /\ s.pc = "done" /\ s.res = "Err"
        <5>1. s \in Call /\ s.pc = "done" /\ Same(q, s) /\ s.res = IF q.op = "lookup" THEN "NotFound" ELSE "Err"
          BY <1>1, <3>3, RefusedEffect, Zenon
        <5> QED
          BY <1>2, <1>5, <5>1, Zenon DEF Same
      <4>2. MountJob(p, s)
        BY <4>1, Zenon DEF MountJob, ReadsInode
      <4> QED
        BY <1>5, <4>1, <4>2, Zenon DEF Moved, Job
    <3> QED
      BY <3>1, <3>2, <3>3, Zenon DEF AfterSuper
  <2>3. CASE r.stage = "gdt"
    <3>1. s = AfterGdt(q)
      BY <1>1, <2>3, Zenon DEF Use
    <3>2. CASE JournalInum # 0 /\ inode_location(JournalInum).sector # -1
      <4>1. PICK a : a = inode_location(JournalInum).sector
        BY Zenon
      <4>2. a \in Nat
        BY <3>2, <4>1, LocationFacts, Ext2Assumption, Zenon
      <4>3. s = Fetch(q, "journal", a)
        BY <3>1, <3>2, <4>1, Zenon DEF AfterGdt
      <4> QED
        BY <1>1, <1>2, <1>5, <4>2, <4>3, MountFetches, Zenon
    <3>3. CASE ~(JournalInum # 0 /\ inode_location(JournalInum).sector # -1)
      <4>1. s = ReadInode(q, RootInode)
        BY <3>1, <3>3, Zenon DEF AfterGdt
      <4> QED
        BY <1>1, <1>2, <1>5, <4>1, MountRoot, Zenon
    <3> QED
      BY <3>2, <3>3, Zenon
  <2>4. CASE r.stage = "journal"
    <3>1. s = ReadInode(q, RootInode)
      BY <1>1, <2>4, Zenon DEF Use
    <3> QED
      BY <1>1, <1>2, <1>5, <3>1, MountRoot, Zenon
  <2>5. CASE r.stage = "inode"
    <3>1. s = [q EXCEPT !.pc = "gotinode"]
      BY <1>1, <2>5, Zenon DEF Use
    <3>2. /\ s \in Call /\ s.op = "mount" /\ s.pc = "gotinode" /\ s.ino = r.ino /\ s.got = b
      BY <1>0, <1>1, <1>2, <1>5, <3>1, ZenonT(30) DEF Call
    <3>3. r.ino = RootInode /\ InodeAim(p, r)
      BY <2>1, <2>5, Zenon DEF MountJob, ReadsInode
    <3>4. MountJob(p, s)
      BY <3>2, <3>3, Zenon DEF MountJob, ReadsInode, InodeAim
    <3> QED
      BY <1>5, <3>2, <3>4, Zenon DEF Moved, Job
  <2> QED
    BY <2>1, <2>2, <2>3, <2>4, <2>5, Zenon
<1>6. CASE r.op = "read"
  <2>1. PICK inode \in Inode : inode = InodeOf(p, r.ino)
    BY <1>4, InodeType, Zenon
  <2>2. ReadJob(p, inode, r)
    BY <1>6, <2>1, Zenon DEF Job
  <2>3. ReadJob(p, inode, q) /\ Aim(p, inode, q)
    BY <1>1, <2>2 DEF ReadJob, Delivered, Aim, Same, DoubleIdx
  <2>4. Reading(p, inode, q, s)
    <3>1. CASE r.stage = "data"
      <4>1. s = CopyBlock(q)
        BY <1>1, <1>2, <1>6, <3>1, Zenon DEF Use
      <4> QED
        BY <1>1, <1>2, <1>3, <1>6, <2>3, <3>1, <4>1, CopyOK, Zenon
    <3>2. CASE r.stage # "data"
      <4>1. Resolved(p, inode, q, s)
        BY <1>1, <1>3, <2>3, <3>2, UseResolved, Zenon
      <4>2. s.pc = "done" => s.res = "Ok"
        BY <1>2, <1>6, <4>1, Zenon DEF Resolved
      <4>3. ReadJob(p, inode, s)
        BY <1>1, <2>3, <4>1, <4>2 DEF Resolved, ReadJob, Delivered, Same
      <4> QED
        BY <1>2, <1>6, <4>1, <4>2, <4>3, Zenon DEF Resolved, Reading, Same
    <3> QED
      BY <3>1, <3>2, Zenon
  <2> QED
    BY <1>2, <1>6, <2>1, <2>4, Zenon DEF Reading, Moved, Job
<1>7. CASE r.op = "lookup"
  <2>1. PICK inode \in Inode : inode = InodeOf(p, RootInode)
    BY <1>4, InodeType, Zenon
  <2>2. LookupJob(p, inode, r)
    BY <1>7, <2>1, Zenon DEF Job
  <2>3. CASE r.stage = "inode"
    <3>1. s = [q EXCEPT !.pc = "gotinode"]
      BY <1>1, <2>3, Zenon DEF Use
    <3>2. /\ s \in Call /\ s.op = "lookup" /\ s.pc = "gotinode" /\ s.ino = r.ino /\ s.got = b
          /\ s.name = r.name /\ s.blocks = r.blocks /\ s.len = r.len
      BY <1>0, <1>1, <1>2, <1>7, <3>1, ZenonT(30) DEF Call
    <3>3. ReadsInode(r)
      BY <2>3, Zenon DEF ReadsInode
    <3>4. InodeAim(p, r) /\ Named(p, inode, r.name, r.ino) /\ r.blocks = inode.blocks /\ r.len = inode.len
      BY <2>2, <3>3, Zenon DEF LookupJob
    <3>5. InodeAim(p, s)
      BY <2>3, <3>2, <3>4, Zenon DEF InodeAim
    <3>6. LookupJob(p, inode, s)
      BY <3>2, <3>4, <3>5, Zenon DEF LookupJob, ReadsInode
    <3> QED
      BY <1>7, <2>1, <3>2, <3>3, <3>6, Zenon DEF Moved, Job
  <2>4. CASE r.stage # "inode"
    <3>1. /\ Aim(p, inode, r) /\ r.blocks = inode.blocks /\ r.len = inode.len
          /\ Intact(p, inode) => Seen(p, inode, r, r.idx, 0) /\ r.bytes <= r.idx * BlockSize
      BY <2>2, <2>4, Zenon DEF LookupJob
    <3>2. Aim(p, inode, q)
      BY <1>1, <3>1, Zenon DEF Aim, DoubleIdx
    <3>3. Intact(p, inode) => Seen(p, inode, q, q.idx, 0) /\ q.bytes <= q.idx * BlockSize
      BY <1>1, <1>2, <3>1, Zenon DEF Seen
    <3>4. Scanning(p, inode, q, s)
      <4>1. CASE r.stage = "data"
        <5>1. s = [q EXCEPT !.dir = q.got, !.got = NoBuf, !.boff = 0, !.pc = "scan"]
          BY <1>1, <1>2, <1>7, <4>1, Zenon DEF Use
        <5>2. /\ s \in Call /\ s.op = "lookup" /\ s.name = q.name /\ s.blocks = q.blocks /\ s.len = q.len
              /\ s.pc = "scan" /\ s.idx = q.idx /\ s.bytes = q.bytes /\ s.boff = 0 /\ s.dir = b
          <6>1. q \in Call
            BY <1>1, Zenon
          <6>2. /\ s \in Call /\ s.op = q.op /\ s.name = q.name /\ s.blocks = q.blocks /\ s.len = q.len
                /\ s.pc = "scan" /\ s.idx = q.idx /\ s.bytes = q.bytes /\ s.boff = 0 /\ s.dir = q.got
            BY <5>1, <6>1, ScanStart, Zenon
          <6> QED
            BY <1>1, <1>2, <1>7, <6>2, Zenon
        <5>3. ~HoleAt(p, inode, s.idx) /\ s.dir.at = SectorOf(p, BlockOf(p, inode, s.idx))
          <6>1. q.idx \in Nat /\ q.stage = "data"
            BY <1>1, <4>1, Zenon DEF Call
          <6>2. ~HoleAt(p, inode, q.idx) /\ q.got.at = SectorOf(p, BlockOf(p, inode, q.idx))
            BY <1>3, <3>2, <6>1, AimData, Zenon
          <6> QED
            BY <1>1, <5>2, <6>2, Zenon
        <5>4. /\ BlockSize \in Nat \ {0} /\ s.idx * BlockSize \in Nat
          <6>1. BlockSize \in Nat \ {0} /\ s.idx \in Nat
            BY <5>2, SizeFacts, Zenon DEF Call
          <6> QED
            BY <6>1, Multiples, Zenon
        <5>5. s.boff < BlockSize /\ ~(s.boff >= BlockSize)
          BY <5>2, <5>4
        <5>6. Intact(p, inode) => Within(p, inode, s)
          <6>1. Intact(p, inode) => Seen(p, inode, s, s.idx, s.boff)
            BY <3>3, <5>2 DEF Seen
          <6>2. Intact(p, inode) => s.bytes <= s.idx * BlockSize + s.boff
            BY <3>3, <5>2, <5>4
          <6>3. s.dir.at \in DOMAIN DirAt => 0 \in DOMAIN DirAt[s.dir.at]
            BY Ext2Assumption, Zenon
          <6> QED
            BY <5>2, <6>1, <6>2, <6>3, Zenon DEF Within
        <5>7. LookupJob(p, inode, s)
          BY <1>2, <3>1, <5>2, <5>3, <5>5, <5>6, Zenon DEF LookupJob, ReadsInode, Within
        <5> QED
          BY <5>2, <5>7, Zenon DEF Scanning
      <4>2. CASE r.stage # "data"
        <5>1. Resolved(p, inode, q, s)
          BY <1>1, <1>3, <3>2, <4>2, UseResolved, Zenon
        <5> QED
          BY <1>1, <1>2, <1>7, <3>1, <3>3, <5>1, ScanResolved, Zenon
      <4> QED
        BY <4>1, <4>2, Zenon
    <3>5. ~ReadsInode(s)
      BY <3>4, Zenon DEF Scanning, ReadsInode
    <3> QED
      BY <1>2, <1>7, <2>1, <3>4, <3>5, Zenon DEF Scanning, Moved, Job
  <2> QED
    BY <2>3, <2>4, Zenon
<1> QED
  BY <1>4, <1>5, <1>6, <1>7, Zenon

\* The call after a disk error.
Marked(r, q) == q = [r EXCEPT !.ioerr = TRUE]

(* A disk error changes nothing else of a call. *)
LEMMA ErrorMarked ==
  ASSUME NEW p, NEW r \in Call, r.op # "none", r.pc \in {"get", "wait"}, Job(p, r),
         NEW q, Marked(r, q)
  PROVE  /\ q \in Call /\ q.op = r.op /\ q.pc = r.pc /\ q.stage = r.stage /\ q.ino = r.ino
         /\ q.need = r.need /\ q.ioerr = TRUE /\ Job(p, q)
<1>1. /\ q \in Call /\ q.op = r.op /\ q.pc = r.pc /\ q.stage = r.stage /\ q.ino = r.ino
      /\ q.need = r.need /\ q.ioerr = TRUE /\ q.blocks = r.blocks /\ q.len = r.len /\ q.name = r.name
      /\ q.idx = r.idx /\ q.bytes = r.bytes /\ q.start = r.start /\ q.size = r.size /\ q.out = r.out
  BY ZenonT(30) DEF Call, Marked
<1>2. \A inode : Aim(p, inode, r) => Aim(p, inode, q)
  BY <1>1, Zenon DEF Aim, DoubleIdx
<1>3. ASSUME NEW inode, ReadJob(p, inode, r) PROVE ReadJob(p, inode, q)
  <2>1. Delivered(p, inode, q)
    <3>1. Delivered(p, inode, r)
      BY <1>3, Zenon DEF ReadJob
    <3> QED
      BY <1>1, <3>1, Zenon DEF Delivered
  <2>2. /\ r.blocks = inode.blocks /\ r.len = inode.len /\ Len(r.out) < r.size
        /\ r.start + Len(r.out) < r.len /\ r.idx = (r.start + Len(r.out)) \div BlockSize /\ Aim(p, inode, r)
    BY <1>3, Zenon DEF ReadJob
  <2>3. Aim(p, inode, q) /\ q.pc \in {"get", "wait"} /\ q.pc # "done"
    BY <1>1, <1>2, <2>2, Zenon
  <2>4. /\ q.blocks = inode.blocks /\ q.len = inode.len /\ Len(q.out) < q.size
        /\ q.start + Len(q.out) < q.len /\ q.idx = (q.start + Len(q.out)) \div BlockSize
    BY <1>1, <2>2, Zenon
  <2> QED
    BY <2>1, <2>3, <2>4 DEF ReadJob
<1>4. ASSUME NEW inode, LookupJob(p, inode, r) PROVE LookupJob(p, inode, q)
  <2>1. Seen(p, inode, r, r.idx, 0) => Seen(p, inode, q, q.idx, 0)
    BY <1>1, Zenon DEF Seen
  <2>2. ReadsInode(q) <=> ReadsInode(r)
    BY <1>1, Zenon DEF ReadsInode
  <2>3. InodeAim(p, r) => InodeAim(p, q)
    BY <1>1, Zenon DEF InodeAim
  <2> QED
    BY <1>1, <1>2, <1>4, <2>1, <2>2, <2>3, Zenon DEF LookupJob
<1>5. MountJob(p, r) => MountJob(p, q)
  BY <1>1, Zenon DEF MountJob, ReadsInode, InodeAim
<1>6. Job(p, q)
  BY <1>1, <1>3, <1>4, <1>5, Zenon DEF Job
<1> QED
  BY <1>1, <1>6, Zenon

(* A lookup that fails does so for a reason. *)
LEMMA LookupStopped ==
  ASSUME NEW p \in parse_mbr(Mbr), NEW inode \in Inode, NEW r \in Call, r.pc \in {"get", "wait"},
         LookupJob(p, inode, r), r.ioerr = TRUE \/ ~InBounds(p, r.need)
  PROVE  Stopped(p, inode, r)
<1>1. CASE r.ioerr = TRUE
  BY <1>1, Zenon DEF Stopped
<1>2. CASE ~InBounds(p, r.need) /\ r.stage # "inode"
  <2>1. Aim(p, inode, r)
    BY <1>2, Zenon DEF LookupJob
  <2> QED
    BY <1>2, <2>1, AimBarred, Zenon DEF Stopped
<1>3. CASE ~InBounds(p, r.need) /\ r.stage = "inode"
  <2>1. ReadsInode(r) /\ r.pc # "gotinode"
    BY <1>3, Zenon DEF ReadsInode
  <2>2. /\ Named(p, inode, r.name, r.ino) /\ inode_location(r.ino).sector # -1
        /\ r.need = inode_location(r.ino).sector /\ r.ino \in Nat
    BY <2>1, Zenon DEF LookupJob, InodeAim, Call
  <2>3. InodeBlock(r.ino) \in Nat /\ r.need = block_to_sector(InodeBlock(r.ino))
    BY <2>2, LocationFacts, Zenon
  <2>4. OnEdge(p, InodeBlock(r.ino))
    BY <1>3, <2>3, PartFacts, Zenon
  <2> QED
    BY <2>2, <2>4, Zenon DEF Stopped
<1> QED
  BY <1>1, <1>2, <1>3, Zenon

(* The block could not be had. *)
LEMMA FailedOK ==
  ASSUME NEW p \in parse_mbr(Mbr), NEW r \in Call, r.op # "none", r.pc \in {"get", "wait"}, Job(p, r),
         r.ioerr = TRUE \/ ~InBounds(p, r.need), NEW s, s = Failed(r)
  PROVE  Moved(p, r, s) /\ ErrorCause(p, s)
<1>1. r.op \in {"mount", "lookup", "read"} /\ r.ino \in Nat /\ RootInode \in Nat
  BY Zenon DEF Call, Ops, RootInode
<1>2. r.op = "read" => ReadJob(p, InodeOf(p, r.ino), r) /\ Aim(p, InodeOf(p, r.ino), r)
  BY Zenon DEF Job, ReadJob
<1>3. r.op = "lookup" => LookupJob(p, InodeOf(p, RootInode), r) /\ r.stage # "journal"
  BY Zenon DEF Job, LookupJob, Aim
<1>4. CASE r.stage = "journal"
  <2>1. r.op = "mount"
    BY <1>1, <1>2, <1>3, <1>4, Zenon DEF Aim
  <2>2. s = ReadInode(r, RootInode)
    BY <1>4, Zenon DEF Failed
  <2>3. Moved(p, r, s)
    BY <2>1, <2>2, MountRoot, Zenon
  <2> QED
    BY <2>1, <2>3, Zenon DEF Moved, ErrorCause
<1>5. CASE r.stage # "journal"
  <2>1. s = Refused(r)
    BY <1>5, Zenon DEF Failed
  <2>2. /\ s \in Call /\ s.pc = "done" /\ Same(r, s)
        /\ s.res = IF r.op = "lookup" THEN "NotFound" ELSE "Err"
    BY <2>1, RefusedEffect
  <2>3. /\ s.op = r.op /\ s.blocks = r.blocks /\ s.len = r.len /\ s.start = r.start
        /\ s.size = r.size /\ s.out = r.out /\ s.ino = r.ino /\ s.name = r.name /\ s.ioerr = r.ioerr
    BY <2>2, Zenon DEF Same
  <2>4. r.op = "read" => ReadJob(p, InodeOf(p, r.ino), s)
    BY <1>2, <2>2, <2>3, Zenon DEF ReadJob, Delivered
  <2>5. ASSUME r.op = "lookup" PROVE LookupJob(p, InodeOf(p, RootInode), s)
    <3>1. PICK inode \in Inode : inode = InodeOf(p, RootInode)
      BY <1>1, InodeType, Zenon
    <3>2. LookupJob(p, inode, r)
      BY <1>3, <2>5, <3>1, Zenon
    <3>3. Stopped(p, inode, r)
      BY <3>2, LookupStopped, Zenon
    <3>4. Stopped(p, inode, s)
      BY <2>3, <3>3, Zenon DEF Stopped
    <3> QED
      BY <2>2, <2>3, <2>5, <3>1, <3>2, <3>4, Zenon DEF LookupJob, ReadsInode
  <2>6. r.op = "mount" => MountJob(p, s)
    BY <2>2, Zenon DEF MountJob, ReadsInode
  <2>7. Job(p, s)
    BY <1>1, <2>3, <2>4, <2>5, <2>6, Zenon DEF Job
  <2>8. s.res # "Ok" /\ ~ReadsInode(s)
    BY <2>2, Zenon DEF ReadsInode
  <2>9. ASSUME r.op = "read" PROVE ErrorCause(p, s)
    <3>1. PICK inode \in Inode : inode = InodeOf(p, r.ino)
      BY <1>1, InodeType, Zenon
    <3>2. r.idx = (r.start + Len(r.out)) \div BlockSize /\ Aim(p, inode, r)
      BY <1>2, <2>9, <3>1, Zenon DEF ReadJob
    <3>3. r.ioerr \/ Barred(p, inode, r.idx + 1)
      BY <3>2, AimBarred, Zenon
    <3> QED
      BY <2>3, <3>1, <3>2, <3>3, Zenon DEF ErrorCause
  <2>10. ErrorCause(p, s)
    BY <2>3, <2>9, Zenon DEF ErrorCause
  <2> QED
    BY <2>2, <2>3, <2>7, <2>8, <2>10, Zenon DEF Moved
<1> QED
  BY <1>4, <1>5, Zenon

-----------------------------------------------------------------------------
(***************************************************************************)
(* Finite sets and the order of the natural numbers.                       *)
(***************************************************************************)
(* A set of natural numbers has a least element. *)
LEMMA LeastNat ==
  ASSUME CountingLaws, NEW S \in SUBSET Nat, S # {}
  PROVE  \E x \in S : \A y \in S : x <= y
BY Zenon DEF CountingLaws, LeastElement

(* The size of a finite set is a number. *)
LEMMA SizeNat ==
  ASSUME CountingLaws, NEW S, IsFiniteSet(S)
  PROVE  Cardinality(S) \in Nat
BY Zenon DEF CountingLaws, CardinalityNat

(* The empty set has no elements. *)
LEMMA SizeZero ==
  ASSUME CountingLaws
  PROVE  IsFiniteSet({}) /\ Cardinality({}) = 0
BY Zenon DEF CountingLaws, CardinalityZero

(* An element more. *)
LEMMA SizeAdd ==
  ASSUME CountingLaws, NEW S, NEW x, IsFiniteSet(S)
  PROVE  /\ IsFiniteSet(S \cup {x})
         /\ Cardinality(S \cup {x}) = IF x \in S THEN Cardinality(S) ELSE Cardinality(S) + 1
BY Zenon DEF CountingLaws, CardinalityAdd

(* An element less. *)
LEMMA SizeRemove ==
  ASSUME CountingLaws, NEW S, NEW x, IsFiniteSet(S)
  PROVE  /\ IsFiniteSet(S \ {x})
         /\ Cardinality(S \ {x}) = IF x \in S THEN Cardinality(S) - 1 ELSE Cardinality(S)
BY Zenon DEF CountingLaws, CardinalityRemove

(* A part of a finite set. *)
LEMMA SizeSubset ==
  ASSUME CountingLaws, NEW S, IsFiniteSet(S), NEW T \in SUBSET S
  PROVE  IsFiniteSet(T) /\ Cardinality(T) <= Cardinality(S)
BY Zenon DEF CountingLaws, CardinalitySubset

(* The union of finite sets. *)
LEMMA UnionFinite ==
  ASSUME CountingLaws, NEW S, IsFiniteSet(S), NEW T, IsFiniteSet(T)
  PROVE  IsFiniteSet(S \cup T)
BY Zenon DEF CountingLaws, FiniteUnion

(* An interval. *)
LEMMA SizeInterval ==
  ASSUME CountingLaws, NEW a \in Int, NEW b \in Int
  PROVE  IsFiniteSet(a..b) /\ Cardinality(a..b) = IF a > b THEN 0 ELSE b - a + 1
BY Zenon DEF CountingLaws, CardinalityInterval

(* An injection bounds a cardinality. *)
LEMMA Injected ==
  ASSUME CountingLaws, NEW A, NEW B, IsFiniteSet(B), NEW f \in [A -> B],
         \A x, y \in A : f[x] = f[y] => x = y
  PROVE  Cardinality(A) <= Cardinality(B)
BY Zenon DEF CountingLaws, CardinalityInto

(* The values of a function on a finite set. *)
LEMMA FiniteRange ==
  ASSUME CountingLaws, NEW S, IsFiniteSet(S), NEW f, f = [x \in S |-> f[x]]
  PROVE  IsFiniteSet({f[x] : x \in S})
<1>1. PICK T : T = {f[x] : x \in S}
  BY Zenon
<1>2. f \in [S -> T] /\ \A y \in T : \E x \in S : f[x] = y
  BY <1>1, Zenon
<1>3. IsFiniteSet(T)
  BY <1>2, Zenon DEF CountingLaws, CardinalityOnto
<1> QED
  BY <1>1, <1>3, Zenon

(* A part of a finite set is no larger, and smaller if it lacks something. *)
LEMMA CountLess ==
  ASSUME CountingLaws, NEW A, NEW B, IsFiniteSet(B), A \subseteq B
  PROVE  /\ IsFiniteSet(A) /\ Cardinality(A) \in Nat /\ Cardinality(B) \in Nat
         /\ Cardinality(A) <= Cardinality(B)
         /\ \A x \in B : x \notin A => Cardinality(A) + 1 <= Cardinality(B)
<1>1. IsFiniteSet(A) /\ Cardinality(A) <= Cardinality(B)
  BY SizeSubset, Zenon
<1>2. Cardinality(A) \in Nat /\ Cardinality(B) \in Nat
  BY <1>1, SizeNat, Zenon
<1>3. ASSUME NEW x \in B, x \notin A PROVE Cardinality(A) + 1 <= Cardinality(B)
  <2>1. PICK C : C = B \ {x}
    BY Zenon
  <2>2. IsFiniteSet(C) /\ Cardinality(C) = Cardinality(B) - 1
    BY <2>1, SizeRemove, Zenon
  <2>3. A \subseteq C
    BY <1>3, <2>1, Zenon
  <2>4. Cardinality(A) <= Cardinality(C)
    BY <2>2, <2>3, SizeSubset, Zenon
  <2> QED
    BY <1>2, <2>2, <2>4
<1> QED
  BY <1>1, <1>2, <1>3, Zenon

(* A set of natural numbers that has 0 and with every i < n also i + 1     *)
(* has every number up to n.                                               *)
LEMMA UpTo ==
  ASSUME CountingLaws, NEW n \in Nat, NEW S, 0 \in S, \A i \in 0..(n - 1) : i \in S => i + 1 \in S
  PROVE  \A i \in 0..n : i \in S
<1>1. PICK B : B = {i \in 0..n : i \notin S}
  BY Zenon
<1>2. B \in SUBSET Nat /\ \A i \in 0..n : i \in B \/ i \in S
  BY <1>1
<1>3. SUFFICES ASSUME B # {} PROVE FALSE
  BY <1>2, Zenon
<1>4. PICK m \in B : \A j \in B : m <= j
  BY <1>2, <1>3, LeastNat, Zenon
<1>5. m \in 0..n /\ m \notin S /\ m \in Nat
  BY <1>1, <1>4
<1>6. m # 0
  BY <1>5, Zenon
<1>7. m - 1 \in 0..(n - 1) /\ m - 1 \in 0..n /\ ~(m <= m - 1) /\ (m - 1) + 1 = m
  BY <1>5, <1>6
<1>8. m - 1 \in S
  BY <1>2, <1>4, <1>7, Zenon
<1>9. (m - 1) + 1 \in S
  BY <1>7, <1>8, Zenon
<1> QED
  BY <1>5, <1>7, <1>9, Zenon

-----------------------------------------------------------------------------
(***************************************************************************)
(* What a read that is through has returned, and what a lookup can find.   *)
(***************************************************************************)
(* Up to the first missing byte every byte is there. *)
LEMMA MissingFacts ==
  ASSUME CountingLaws, NEW p, NEW inode \in Inode, NEW from \in Nat
  PROVE  /\ FirstMissing(p, inode, from) \in Nat /\ FirstMissing(p, inode, from) <= inode.len
         /\ \A b \in Nat : from <= b /\ b < FirstMissing(p, inode, from) =>
              ~HoleAt(p, inode, b \div BlockSize)
         /\ FirstMissing(p, inode, from) < inode.len =>
              /\ from <= FirstMissing(p, inode, from)
              /\ HoleAt(p, inode, FirstMissing(p, inode, from) \div BlockSize)
<1>1. PICK all : all = AllBlocks(p, inode)
  BY Zenon
<1>2. Len(all) = Total /\ Total \in Nat /\ BlockSize \in Nat \ {0} /\ inode.len \in Nat
  <2>1. Total \in Nat /\ DOMAIN all = 1..Total
    BY <1>1, SizeFacts, Zenon DEF AllBlocks, Total
  <2>2. PICK n \in Nat : n = Total
    BY <2>1, Zenon
  <2>3. Len(AllBlocks(p, inode)) = n
    BY <2>2, SizeFacts DEF AllBlocks, Total
  <2> QED
    BY <1>1, <2>2, <2>3, SizeFacts, InodeFacts, Zenon
<1> DEFINE gone == {b \in from..(inode.len - 1) : b \div BlockSize + 1 > Len(all)
                                                 \/ all[b \div BlockSize + 1] = 0}
<1>3. PICK m : m = FirstMissing(p, inode, from)
  BY Zenon
<1>4. m = IF gone = {} THEN inode.len ELSE CHOOSE b \in gone : \A c \in gone : b <= c
  BY <1>1, <1>3 DEF FirstMissing
<1>5. \A b \in from..(inode.len - 1) : b \in gone <=> HoleAt(p, inode, b \div BlockSize)
  <2> SUFFICES ASSUME NEW b \in from..(inode.len - 1)
               PROVE  b \in gone <=> HoleAt(p, inode, b \div BlockSize)
    BY Zenon
  <2>1. PICK i \in Nat : i = b \div BlockSize
    <3>1. b \in Nat
      BY <1>2
    <3> QED
      BY <1>2, <3>1, DivFacts, Zenon
  <2>2. (i + 1 > Len(all)) <=> (i >= Total)
    BY <1>2, <2>1
  <2> QED
    BY <1>1, <2>1, <2>2, Zenon DEF HoleAt, BlockOf
<1>6. gone \in SUBSET Nat /\ gone \subseteq from..(inode.len - 1)
  BY <1>2
<1> HIDE DEF gone
<1>7. /\ m \in Nat /\ m <= inode.len
      /\ \A b \in Nat : from <= b /\ b < m => ~HoleAt(p, inode, b \div BlockSize)
      /\ m < inode.len => from <= m /\ HoleAt(p, inode, m \div BlockSize)
  <2>1. CASE gone = {}
    <3>1. m = inode.len
      BY <1>4, <2>1, Zenon
    <3>2. ASSUME NEW b \in Nat, from <= b, b < m PROVE ~HoleAt(p, inode, b \div BlockSize)
      <4>1. b \in from..(inode.len - 1)
        BY <1>2, <3>1, <3>2
      <4> QED
        BY <1>5, <2>1, <4>1, Zenon
    <3> QED
      BY <1>2, <3>1, <3>2
  <2>2. CASE gone # {}
    <3>1. \E b \in gone : \A c \in gone : b <= c
      BY <1>6, <2>2, LeastNat, Zenon
    <3>2. m \in gone /\ \A c \in gone : m <= c
      BY <1>4, <2>2, <3>1, Zenon
    <3>3. m \in Nat /\ from <= m /\ m < inode.len
      BY <1>2, <1>6, <3>2
    <3>4. HoleAt(p, inode, m \div BlockSize)
      BY <1>5, <1>6, <3>2, Zenon
    <3>5. ASSUME NEW b \in Nat, from <= b, b < m PROVE ~HoleAt(p, inode, b \div BlockSize)
      <4>1. b \in from..(inode.len - 1)
        BY <1>2, <3>3, <3>5
      <4>2. b \notin gone
        BY <3>2, <3>3, <3>5
      <4> QED
        BY <1>5, <4>1, <4>2, Zenon
    <3>6. m <= inode.len
      BY <1>2, <3>3
    <3> QED
      BY <3>3, <3>4, <3>5, <3>6, Zenon
  <2> QED
    BY <2>1, <2>2, Zenon
<1> QED
  BY <1>3, <1>7, Zenon

\* The bytes that a read is to return, and what it has returned of them.
EndOf(p, inode, r) ==
  LET missing == FirstMissing(p, inode, r.start) IN
  IF r.start + r.size <= missing THEN r.start + r.size ELSE missing

Wanted(p, inode, r) ==
  [i \in 1..(EndOf(p, inode, r) - r.start) |-> ByteAt(p, inode, r.start + i - 1)]

Returned(p, inode, r) ==
  /\ r.res = "Ok" => r.out = Wanted(p, inode, r)
  /\ \E n \in 0..Len(Wanted(p, inode, r)) : r.out = SubSeq(Wanted(p, inode, r), 1, n)

(* A finished read has the bytes up to its end; a failed one, a prefix. *)
LEMMA ReadDone ==
  ASSUME CountingLaws, NEW p, NEW inode \in Inode, NEW r \in Call, ReadJob(p, inode, r), r.pc = "done"
  PROVE  Returned(p, inode, r)
<1>0. PICK missing : missing = FirstMissing(p, inode, r.start)
  BY Zenon
<1>1. PICK start \in Nat, size \in Nat : start = r.start /\ size = r.size
  BY Zenon DEF Call
<1>2. PICK out \in Outputs : out = r.out
  BY Zenon DEF Call
<1>3. PICK len \in Nat : len = inode.len
  BY InodeFacts, Zenon
<1>4. PICK L \in Nat : L = Len(out) /\ DOMAIN out = 1..L
  BY <1>2 DEF Outputs
<1>5. /\ missing \in Nat /\ missing <= len
      /\ \A b \in Nat : start <= b /\ b < missing => ~HoleAt(p, inode, b \div BlockSize)
      /\ missing < len => start <= missing /\ HoleAt(p, inode, missing \div BlockSize)
  BY <1>0, <1>1, <1>3, MissingFacts, Zenon
<1>6. /\ L <= size
      /\ \A i \in 1..L : /\ start + i - 1 < len /\ ~HoleAt(p, inode, (start + i - 1) \div BlockSize)
                         /\ out[i] = ByteAt(p, inode, start + i - 1)
  BY <1>1, <1>2, <1>3, <1>4, Zenon DEF ReadJob, Delivered
<1>7. r.res = "Ok" => L = size \/ start + L >= len \/ HoleAt(p, inode, (start + L) \div BlockSize)
  BY <1>1, <1>2, <1>3, <1>4, Zenon DEF ReadJob
<1>8. L = 0 \/ start + L <= missing
  <2> SUFFICES ASSUME L > 0, start + L > missing PROVE FALSE
    BY <1>1, <1>4, <1>5
  <2>1. L \in 1..L /\ start + L - 1 < len
    BY <1>4, <1>6
  <2>2. missing < len /\ start <= missing /\ HoleAt(p, inode, missing \div BlockSize)
    BY <1>1, <1>4, <1>5, <2>1
  <2>3. PICK i \in 1..L : start + i - 1 = missing
    <3>1. missing - start + 1 \in 1..L /\ start + (missing - start + 1) - 1 = missing
      BY <1>1, <1>4, <1>5, <2>2
    <3> QED
      BY <3>1, Zenon
  <2> QED
    BY <1>6, <2>2, <2>3, Zenon
<1>9. PICK e \in Nat : /\ e = IF start + size <= missing THEN start + size ELSE missing
                       /\ e = EndOf(p, inode, r)
  BY <1>0, <1>1, <1>5 DEF EndOf
<1>10. PICK N \in Nat : N = IF start <= e THEN e - start ELSE 0
  BY <1>1, <1>9
<1>11. 1..(e - start) = 1..N
  BY <1>1, <1>9, <1>10
<1>12. PICK full : full = [i \in 1..N |-> ByteAt(p, inode, start + i - 1)] /\ full = Wanted(p, inode, r)
  BY <1>1, <1>9, <1>11, Zenon DEF Wanted
<1>13. L <= N
  <2>1. missing \in Nat /\ L <= size
    BY <1>5, <1>6, Zenon
  <2> QED
    BY <1>1, <1>4, <1>8, <1>9, <1>10, <2>1
<1>14. r.res = "Ok" => L = N
  <2> SUFFICES ASSUME r.res = "Ok", L < N PROVE FALSE
    BY <1>4, <1>10, <1>13
  <2>1. start <= e /\ start + L < e
    BY <1>1, <1>4, <1>9, <1>10
  <2>2. L < size /\ start + L < missing /\ start + L \in Nat
    <3>1. missing \in Nat
      BY <1>5, Zenon
    <3>2. e <= start + size /\ e <= missing
      BY <1>1, <1>9, <3>1
    <3> QED
      BY <2>1, <3>1, <3>2
  <2>3. ~HoleAt(p, inode, (start + L) \div BlockSize)
    <3>1. start <= start + L
      BY <1>1, <1>4
    <3> QED
      BY <1>5, <2>2, <3>1, Zenon
  <2>4. ~(start + L >= len) /\ L # size
    <3>1. missing \in Nat /\ missing <= len
      BY <1>5, Zenon
    <3> QED
      BY <1>1, <1>3, <1>4, <2>2, <3>1
  <2> QED
    BY <1>7, <2>3, <2>4, Zenon
<1>15. \A i \in 1..L : i \in 1..N /\ full[i] = out[i]
  BY <1>4, <1>6, <1>10, <1>12, <1>13
<1>16. out = [i \in 1..L |-> out[i]]
  BY <1>2, <1>4 DEF Outputs
<1>17. L = N => out = full
  <2>1. DOMAIN full = 1..N /\ full = [i \in 1..N |-> full[i]]
    BY <1>12, Zenon
  <2> QED
    BY <1>15, <1>16, <2>1, Zenon
<1>18. out = SubSeq(full, 1, L)
  <2>1. SubSeq(full, 1, L) = [i \in 1..L |-> full[i]]
    BY <1>4
  <2> QED
    BY <1>15, <1>16, <2>1, Zenon
<1>19. Len(full) = N
  <2>1. DOMAIN full = 1..N
    BY <1>12, Zenon
  <2> QED
    BY <1>10, <1>12, <2>1
<1>20. L \in 0..Len(full)
  BY <1>4, <1>10, <1>13, <1>19
<1> QED
  BY <1>2, <1>12, <1>14, <1>17, <1>18, <1>20, Zenon DEF Returned

(* The place of a name in a directory holds an entry of that name. *)
LEMMA EntryAt ==
  ASSUME NEW p, NEW inode, NEW name, NEW i, NEW x, NameAt(p, inode, name, i, x)
  PROVE  /\ DirAt[SectorOf(p, BlockOf(p, inode, i))][x] \in EntriesOf(p, inode)
         /\ DirAt[SectorOf(p, BlockOf(p, inode, i))][x].name = name
<1>0. Total \in Nat /\ DOMAIN AllBlocks(p, inode) = 1..Total
  BY SizeFacts, Zenon DEF AllBlocks, Total
<1>1. PICK k \in 1..Total : k = i + 1
  BY <1>0 DEF NameAt
<1>2. PICK at : at = SectorOf(p, AllBlocks(p, inode)[k])
  BY Zenon
<1>3. /\ AllBlocks(p, inode)[k] # 0 /\ at = SectorOf(p, BlockOf(p, inode, i))
      /\ at \in DOMAIN DirAt /\ x \in DOMAIN DirAt[at] /\ Comparable(DirAt[at][x], x)
      /\ DirAt[at][x].name = name
  BY <1>1, <1>2, Zenon DEF NameAt, BlockOf
<1>4. DirAt[at][x] \in {DirAt[at][z] : z \in {y \in DOMAIN DirAt[at] : Comparable(DirAt[at][y], y)}}
  BY <1>3, Zenon
<1>5. DirAt[at][x] \in EntriesOf(p, inode)
  <2> DEFINE F(j) == LET a == SectorOf(p, AllBlocks(p, inode)[j]) IN
                     IF AllBlocks(p, inode)[j] # 0 /\ a \in DOMAIN DirAt
                     THEN {DirAt[a][z] : z \in {y \in DOMAIN DirAt[a] : Comparable(DirAt[a][y], y)}}
                     ELSE {}
  <2>1. EntriesOf(p, inode) = UNION {F(j) : j \in DOMAIN AllBlocks(p, inode)}
    BY Zenon DEF EntriesOf
  <2>2. DirAt[at][x] \in F(k)
    BY <1>2, <1>3, <1>4, Zenon
  <2> HIDE DEF F
  <2> QED
    BY <1>0, <1>1, <2>1, <2>2, Zenon
<1> QED
  BY <1>3, <1>5, Zenon

(* Every entry of that name has a place. *)
LEMMA EntryPlaces ==
  ASSUME NEW p, NEW inode, NEW name, NEW e \in EntriesOf(p, inode), e.name = name
  PROVE  \E i \in 0..(Total - 1), x \in 0..(BlockSize - 1) : NameAt(p, inode, name, i, x)
<1>0. Total \in Nat /\ DOMAIN AllBlocks(p, inode) = 1..Total
  BY SizeFacts, Zenon DEF AllBlocks, Total
<1>1. PICK k \in 1..Total :
        LET at == SectorOf(p, AllBlocks(p, inode)[k]) IN
        /\ AllBlocks(p, inode)[k] # 0 /\ at \in DOMAIN DirAt
        /\ e \in {DirAt[at][z] : z \in {y \in DOMAIN DirAt[at] : Comparable(DirAt[at][y], y)}}
  BY <1>0, Zenon DEF EntriesOf
<1>2. PICK at : at = SectorOf(p, AllBlocks(p, inode)[k])
  BY Zenon
<1>3. PICK x \in DOMAIN DirAt[at] : Comparable(DirAt[at][x], x) /\ e = DirAt[at][x]
  BY <1>1, <1>2, Zenon
<1>4. at \in DOMAIN DirAt /\ AllBlocks(p, inode)[k] # 0
  BY <1>1, <1>2, Zenon
<1>5. PICK i \in 0..(Total - 1) : i = k - 1 /\ i + 1 = k
  BY <1>0
<1>6. at = SectorOf(p, BlockOf(p, inode, i)) /\ BlockOf(p, inode, i) # 0
  BY <1>2, <1>4, <1>5, Zenon DEF BlockOf
<1>7. x \in Nat /\ DirAt[at][x] \in Record
  BY <1>3, <1>4, DirFacts, Zenon
<1>8. x \in 0..(BlockSize - 1)
  <2>1. DirAt[at][x].name_len \in Nat /\ BlockSize \in Nat /\ Header \in Nat \ {0}
    BY <1>7, SizeFacts, Zenon DEF Record
  <2>2. x + Header + DirAt[at][x].name_len <= BlockSize
    BY <1>3, Zenon DEF Comparable
  <2> QED
    BY <1>7, <2>1, <2>2
<1> QED
  BY <1>3, <1>4, <1>5, <1>6, <1>8, Zenon DEF NameAt

-----------------------------------------------------------------------------
(***************************************************************************)
(* The LRU cache.                                                          *)
(***************************************************************************)
\* The slots that hold a key.
Copies(slots, k) == Cardinality({i \in DOMAIN slots : slots[i].key = k})

(* RemoveAt closes the gap. *)
LEMMA RemoveAtFacts ==
  ASSUME NEW S, NEW s \in Seq(S), NEW k \in 1..Len(s)
  PROVE  /\ RemoveAt(s, k) \in Seq(S) /\ Len(RemoveAt(s, k)) = Len(s) - 1
         /\ \A i \in 1..(Len(s) - 1) : RemoveAt(s, k)[i] = IF i < k THEN s[i] ELSE s[i + 1]
<1>1. PICK r : r = RemoveAt(s, k)
  BY Zenon
<1>2. Len(s) \in Nat /\ DOMAIN s = 1..Len(s) /\ \A i \in 1..Len(s) : s[i] \in S
  OBVIOUS
<1>3. r = [i \in 1..(Len(s) - 1) |-> IF i < k THEN s[i] ELSE s[i + 1]]
  BY <1>1, Zenon DEF RemoveAt
<1>4. \A i \in 1..(Len(s) - 1) : r[i] \in S
  BY <1>2, <1>3
<1>5. r \in Seq(S) /\ Len(r) = Len(s) - 1
  BY <1>2, <1>3, <1>4
<1> QED
  BY <1>1, <1>3, <1>5, Zenon

(* A slot put in front. *)
LEMMA FrontFacts ==
  ASSUME NEW S, NEW s \in Seq(S), NEW x \in S
  PROVE  /\ <<x>> \o s \in Seq(S) /\ Len(<<x>> \o s) = Len(s) + 1
         /\ (<<x>> \o s)[1] = x
         /\ \A i \in 1..Len(s) : (<<x>> \o s)[i + 1] = s[i]
<1>1. <<x>> \in Seq(S) /\ Len(<<x>>) = 1
  OBVIOUS
<1> QED
  BY <1>1

(* The slots with a key are finitely many. *)
LEMMA CopiesType ==
  ASSUME CountingLaws, NEW S, NEW s \in Seq(S), NEW key
  PROVE  /\ IsFiniteSet({i \in DOMAIN s : s[i].key = key})
         /\ Copies(s, key) \in Nat
<1>1. DOMAIN s = 1..Len(s) /\ Len(s) \in Nat
  OBVIOUS
<1>2. IsFiniteSet(1..Len(s))
  BY <1>1, SizeInterval
<1>3. {i \in DOMAIN s : s[i].key = key} \in SUBSET (1..Len(s))
  BY <1>1, Zenon
<1>4. IsFiniteSet({i \in DOMAIN s : s[i].key = key})
  BY <1>2, <1>3, SizeSubset, Zenon
<1> QED
  BY <1>4, SizeNat, Zenon DEF Copies

(* Removing a slot removes at most copies, and one if it has the key. *)
LEMMA CopiesRemove ==
  ASSUME CountingLaws, NEW S, NEW s \in Seq(S), NEW k \in 1..Len(s), NEW key
  PROVE  /\ Copies(RemoveAt(s, k), key) <= Copies(s, key)
         /\ s[k].key = key => Copies(RemoveAt(s, k), key) + 1 <= Copies(s, key)
<1>1. PICK r : r = RemoveAt(s, k)
  BY Zenon
<1>2. /\ r \in Seq(S) /\ Len(r) = Len(s) - 1
      /\ \A i \in 1..(Len(s) - 1) : r[i] = IF i < k THEN s[i] ELSE s[i + 1]
  BY <1>1, RemoveAtFacts, Zenon
<1>3. PICK A : A = {i \in DOMAIN r : r[i].key = key}
  BY Zenon
<1>4. PICK B : B = {i \in DOMAIN s : s[i].key = key}
  BY Zenon
<1>5. IsFiniteSet(A) /\ IsFiniteSet(B)
  BY <1>2, <1>3, <1>4, CopiesType, Zenon
<1>6. PICK f : f = [i \in A |-> IF i < k THEN i ELSE i + 1]
  BY Zenon
<1>7. A \subseteq 1..(Len(s) - 1) /\ k \in Nat /\ Len(s) \in Nat
  BY <1>2, <1>3
<1>8. f \in [A -> B \ {k}]
  <2> SUFFICES ASSUME NEW i \in A PROVE f[i] \in B \ {k}
    BY <1>6, Zenon
  <2>1. i \in 1..(Len(s) - 1) /\ i \in Int
    BY <1>7
  <2>2. r[i].key = key
    BY <1>3, Zenon
  <2>3. CASE i < k
    <3>1. f[i] = i /\ r[i] = s[i]
      BY <1>2, <1>6, <2>1, <2>3, Zenon
    <3>2. i \in DOMAIN s /\ i # k
      BY <1>7, <2>1, <2>3
    <3> QED
      BY <1>4, <2>2, <3>1, <3>2, Zenon
  <2>4. CASE ~(i < k)
    <3>1. f[i] = i + 1 /\ r[i] = s[i + 1]
      BY <1>2, <1>6, <2>1, <2>4, Zenon
    <3>2. i + 1 \in DOMAIN s /\ i + 1 # k
      BY <1>7, <2>1, <2>4
    <3> QED
      BY <1>4, <2>2, <3>1, <3>2, Zenon
  <2> QED
    BY <2>3, <2>4, Zenon
<1>9. \A x, y \in A : f[x] = f[y] => x = y
  <2> SUFFICES ASSUME NEW x \in A, NEW y \in A, f[x] = f[y] PROVE x = y
    BY Zenon
  <2>1. x \in Int /\ y \in Int /\ k \in Int
    BY <1>7
  <2> QED
    BY <1>6, <2>1
<1>10. IsFiniteSet(B \ {k}) /\ Cardinality(B \ {k}) = IF k \in B THEN Cardinality(B) - 1 ELSE Cardinality(B)
  BY <1>5, SizeRemove, Zenon
<1>11. Cardinality(A) <= Cardinality(B \ {k})
  <2> HIDE DEF Copies
  <2>1. PICK C : C = B \ {k}
    BY Zenon
  <2> QED
    BY <1>8, <1>9, <1>10, <2>1, Injected, Zenon
<1>12. Cardinality(A) \in Nat /\ Cardinality(B) \in Nat
  BY <1>5, SizeNat, Zenon
<1>13. Copies(r, key) = Cardinality(A) /\ Copies(s, key) = Cardinality(B)
  BY <1>3, <1>4, Zenon DEF Copies
<1>14. s[k].key = key => k \in B
  BY <1>4
<1> QED
  BY <1>1, <1>10, <1>11, <1>12, <1>13, <1>14

(* A slot put in front adds a copy of its key only. *)
LEMMA CopiesFront ==
  ASSUME CountingLaws, NEW S, NEW s \in Seq(S), NEW x \in S, NEW key
  PROVE  /\ Copies(<<x>> \o s, key) <= Copies(s, key) + 1
         /\ x.key # key => Copies(<<x>> \o s, key) <= Copies(s, key)
<1>1. PICK r : r = <<x>> \o s
  BY Zenon
<1>2. r \in Seq(S) /\ Len(r) = Len(s) + 1 /\ r[1] = x /\ \A i \in 1..Len(s) : r[i + 1] = s[i]
  BY <1>1, FrontFacts
<1>3. PICK A : A = {i \in DOMAIN r : r[i].key = key}
  BY Zenon
<1>4. PICK B : B = {i \in DOMAIN s : s[i].key = key}
  BY Zenon
<1>5. IsFiniteSet(A) /\ IsFiniteSet(B)
  BY <1>2, <1>3, <1>4, CopiesType, Zenon
<1>6. PICK C : C = A \ {1}
  BY Zenon
<1>7. PICK f : f = [i \in C |-> i - 1]
  BY Zenon
<1>8. C \subseteq 2..(Len(s) + 1) /\ Len(s) \in Nat
  BY <1>2, <1>3, <1>6
<1>9. f \in [C -> B]
  <2> SUFFICES ASSUME NEW i \in C PROVE f[i] \in B
    BY <1>7, Zenon
  <2>1. i \in 2..(Len(s) + 1) /\ i - 1 \in 1..Len(s) /\ (i - 1) + 1 = i
    BY <1>8
  <2>2. r[i].key = key
    BY <1>3, <1>6, Zenon
  <2>3. r[(i - 1) + 1] = s[i - 1]
    BY <1>2, <2>1, Zenon
  <2> QED
    BY <1>4, <1>7, <2>1, <2>2, <2>3
<1>10. \A a, b \in C : f[a] = f[b] => a = b
  <2> SUFFICES ASSUME NEW a \in C, NEW b \in C, f[a] = f[b] PROVE a = b
    BY Zenon
  <2>1. a \in Int /\ b \in Int
    BY <1>8
  <2> QED
    BY <1>7, <2>1
<1>11. Cardinality(C) <= Cardinality(B)
  BY <1>5, <1>9, <1>10, Injected, Zenon
<1>12. Cardinality(C) = IF 1 \in A THEN Cardinality(A) - 1 ELSE Cardinality(A)
  BY <1>5, <1>6, SizeRemove, Zenon
<1>13. Cardinality(A) \in Nat /\ Cardinality(B) \in Nat
  BY <1>5, SizeNat, Zenon
<1>14. Copies(r, key) = Cardinality(A) /\ Copies(s, key) = Cardinality(B)
  BY <1>3, <1>4, Zenon DEF Copies
<1>15. x.key # key => 1 \notin A
  BY <1>2, <1>3, Zenon
<1> QED
  BY <1>1, <1>11, <1>12, <1>13, <1>14, <1>15

(* The first slot with a key that is there. *)
LEMMA PositionFacts ==
  ASSUME CountingLaws, NEW S, NEW s \in Seq(S), NEW key, Holds(s, key)
  PROVE  Position(s, key) \in 1..Len(s) /\ s[Position(s, key)].key = key
<1>1. PICK B : B = {i \in DOMAIN s : s[i].key = key}
  BY Zenon
<1>2. DOMAIN s = 1..Len(s) /\ Len(s) \in Nat
  OBVIOUS
<1>3. B \in SUBSET Nat /\ B # {}
  BY <1>1, <1>2 DEF Holds
<1>4. PICK m \in B : \A j \in B : m <= j
  BY <1>3, LeastNat, Zenon
<1>5. m \in DOMAIN s /\ s[m].key = key /\ m \in Nat
  BY <1>1, <1>3, <1>4, Zenon
<1>6. \A j \in 1..(m - 1) : s[j].key # key
  <2> SUFFICES ASSUME NEW j \in 1..(m - 1), s[j].key = key PROVE FALSE
    BY Zenon
  <2>1. j \in 1..Len(s) /\ ~(m <= j)
    BY <1>2, <1>5
  <2> QED
    BY <1>1, <1>2, <1>4, <2>1, Zenon
<1>7. \E i \in DOMAIN s : s[i].key = key /\ \A j \in 1..(i - 1) : s[j].key # key
  BY <1>5, <1>6, Zenon
<1>8. Position(s, key) \in DOMAIN s /\ s[Position(s, key)].key = key
  BY <1>7, Zenon DEF Position
<1> QED
  BY <1>2, <1>8, Zenon

(* q holds the slots of s, no key more often. *)
Touched(S, s, q) ==
  /\ q \in Seq(S)
  /\ \A i \in DOMAIN q : \E j \in DOMAIN s : q[i] = s[j]
  /\ \A j \in DOMAIN s : \E i \in DOMAIN q : q[i] = s[j]
  /\ \A k : Copies(q, k) <= Copies(s, k)

(* get of a key that is there: the slot found is one of the cache's, and the *)
(* cache keeps its slots, no key more often than before.                     *)
LEMMA TouchFacts ==
  ASSUME CountingLaws, NEW S, NEW s \in Seq(S), NEW key, Holds(s, key)
  PROVE  /\ \E j \in DOMAIN s : Found(s, key) = s[j] /\ s[j].key = key
         /\ Touched(S, s, Touch(s, key))
<1>1. PICK p : p = Position(s, key)
  BY Zenon
<1>2. p \in 1..Len(s) /\ s[p].key = key /\ DOMAIN s = 1..Len(s) /\ Len(s) \in Nat
  BY <1>1, PositionFacts
<1>3. Found(s, key) = s[p]
  BY <1>1, Zenon DEF Found
<1>4. PICK x \in S : x = s[p]
  BY <1>2
<1>5. PICK r : r = RemoveAt(s, p)
  BY Zenon
<1>6. /\ r \in Seq(S) /\ Len(r) = Len(s) - 1
      /\ \A i \in 1..(Len(s) - 1) : r[i] = IF i < p THEN s[i] ELSE s[i + 1]
  BY <1>2, <1>5, RemoveAtFacts, Zenon
<1>7. PICK q : q = <<x>> \o r
  BY Zenon
<1>8. Touch(s, key) = q
  BY <1>1, <1>3, <1>4, <1>5, <1>7, Zenon DEF Touch
<1>9. /\ q \in Seq(S) /\ Len(q) = Len(s) /\ q[1] = x
      /\ \A i \in 1..(Len(s) - 1) : q[i + 1] = r[i]
  <2>1. /\ q \in Seq(S) /\ Len(q) = Len(r) + 1 /\ q[1] = x
        /\ \A i \in 1..Len(r) : q[i + 1] = r[i]
    BY <1>4, <1>6, <1>7, FrontFacts
  <2>2. (Len(s) - 1) + 1 = Len(s)
    BY <1>2
  <2> QED
    BY <1>6, <2>1, <2>2, Zenon
<1>10. DOMAIN q = 1..Len(s)
  BY <1>9
<1>11. ASSUME NEW i \in DOMAIN q PROVE \E j \in DOMAIN s : q[i] = s[j]
  <2>1. CASE i = 1
    BY <1>2, <1>4, <1>9, <2>1, Zenon
  <2>2. CASE i # 1
    <3>1. i - 1 \in 1..(Len(s) - 1) /\ (i - 1) + 1 = i /\ i \in 1..Len(s)
      BY <1>2, <1>10, <2>2
    <3>2. q[(i - 1) + 1] = r[i - 1]
      BY <1>9, <3>1, Zenon
    <3>3. r[i - 1] = IF i - 1 < p THEN s[i - 1] ELSE s[(i - 1) + 1]
      BY <1>6, <3>1, Zenon
    <3>4. i - 1 \in 1..Len(s)
      BY <3>1
    <3> QED
      BY <1>2, <3>1, <3>2, <3>3, <3>4, Zenon
  <2> QED
    BY <2>1, <2>2, Zenon
<1>12. ASSUME NEW j \in DOMAIN s PROVE \E i \in DOMAIN q : q[i] = s[j]
  <2>0. j \in 1..Len(s)
    BY <1>2, Zenon
  <2>1. CASE j = p
    BY <1>2, <1>4, <1>9, <1>10, <2>1
  <2>2. CASE j < p
    <3>1. j \in 1..(Len(s) - 1) /\ j + 1 \in 1..Len(s)
      BY <1>2, <2>0, <2>2
    <3>2. q[j + 1] = r[j] /\ r[j] = s[j]
      BY <1>6, <1>9, <2>2, <3>1, Zenon
    <3> QED
      BY <1>10, <3>1, <3>2, Zenon
  <2>3. CASE j > p
    <3>1. j - 1 \in 1..(Len(s) - 1) /\ ~(j - 1 < p) /\ (j - 1) + 1 = j
      BY <1>2, <2>0, <2>3
    <3>2. q[(j - 1) + 1] = r[j - 1] /\ r[j - 1] = s[(j - 1) + 1]
      BY <1>6, <1>9, <3>1, Zenon
    <3> QED
      BY <1>10, <2>0, <3>1, <3>2, Zenon
  <2> QED
    BY <1>2, <2>0, <2>1, <2>2, <2>3
<1>13. ASSUME NEW k PROVE Copies(q, k) <= Copies(s, k)
  <2>1. Copies(r, k) <= Copies(s, k) /\ (x.key = k => Copies(r, k) + 1 <= Copies(s, k))
    BY <1>2, <1>4, <1>5, CopiesRemove, Zenon
  <2>2. Copies(q, k) <= Copies(r, k) + 1 /\ (x.key # k => Copies(q, k) <= Copies(r, k))
    BY <1>6, <1>7, CopiesFront, Zenon
  <2>3. Copies(q, k) \in Nat /\ Copies(r, k) \in Nat /\ Copies(s, k) \in Nat
    BY <1>6, <1>9, CopiesType, Zenon
  <2> QED
    BY <2>1, <2>2, <2>3
<1>14. Touched(S, s, q)
  BY <1>9, <1>11, <1>12, <1>13, Zenon DEF Touched
<1> QED
  BY <1>2, <1>3, <1>8, <1>14, Zenon

(* insert's pass over the slots: f[k] are the slots after k steps. *)
Pass(s, cap, pinned, f) ==
  /\ f[0] = s
  /\ \A k \in 1..Len(s) : f[k] = Evict(f[k - 1], Len(s) - k + 1, cap, pinned)

(* Insert puts the slot in front of what the pass leaves. *)
LEMMA InsertPass ==
  ASSUME CountingLaws, NEW S, NEW s \in Seq(S), NEW x, NEW cap, NEW P
  PROVE  \E f : Pass(s, cap, P, f) /\ Insert(s, x, cap, P) = <<x>> \o f[Len(s)]
<1>1. PICK n \in Nat : n = Len(s)
  OBVIOUS
<1> DEFINE Ev(g, i) == Evict(g, n - i + 1, cap, P)
           Rec(m, g) == g = [i \in 0..m |-> IF i = 0 THEN s ELSE Ev(g[i - 1], i)]
           T == {m \in Nat : \E g : Rec(m, g)}
<1> HIDE DEF Ev
<1>2. 0 \in T
  <2>1. Rec(0, [i \in 0..0 |-> s])
    OBVIOUS
  <2> HIDE DEF Rec
  <2> QED
    BY <2>1, Zenon
<1>3. ASSUME NEW m \in 0..(n - 1), m \in T PROVE m + 1 \in T
  <2>1. PICK g : Rec(m, g)
    BY <1>3, Zenon
  <2>2. PICK f : f = [i \in 0..(m + 1) |-> IF i = m + 1 THEN Ev(g[m], m + 1) ELSE g[i]]
    BY Zenon
  <2>3. m \in Nat /\ m + 1 \in Nat /\ (m + 1) - 1 = m
    OBVIOUS
  <2>4. ASSUME NEW i \in 0..(m + 1) PROVE f[i] = IF i = 0 THEN s ELSE Ev(f[i - 1], i)
    <3>1. CASE i = m + 1
      <4>1. m \in 0..(m + 1) /\ m # m + 1 /\ i # 0 /\ i - 1 = m
        BY <2>3, <3>1
      <4>2. f[m] = g[m] /\ f[i] = Ev(g[m], m + 1)
        BY <2>2, <3>1, <4>1, Zenon
      <4> QED
        BY <3>1, <4>1, <4>2, Zenon
    <3>2. CASE i # m + 1
      <4>1. i \in 0..m /\ (i # 0 => i - 1 \in 0..(m + 1) /\ i - 1 # m + 1)
        BY <2>3, <3>2
      <4>2. f[i] = g[i] /\ (i # 0 => f[i - 1] = g[i - 1])
        BY <2>2, <3>2, <4>1, Zenon
      <4>3. g[i] = IF i = 0 THEN s ELSE Ev(g[i - 1], i)
        BY <2>1, <4>1, Zenon
      <4> QED
        BY <4>2, <4>3, Zenon
    <3> QED
      BY <3>1, <3>2, Zenon
  <2>5. f = [i \in 0..(m + 1) |-> f[i]]
    BY <2>2, Zenon
  <2>6. Rec(m + 1, f)
    BY <2>4, <2>5, Zenon
  <2> HIDE DEF Rec
  <2> QED
    BY <2>3, <2>6, Zenon
<1>4. PICK some : Rec(n, some)
  <2> HIDE DEF T
  <2>1. \A i \in 0..n : i \in T
    BY <1>2, <1>3, UpTo, Zenon
  <2>2. n \in T
    BY <2>1
  <2> QED
    BY <2>2, Zenon DEF T
<1>5. PICK f : f = CHOOSE g : Rec(n, g)
  BY Zenon
<1>6. Rec(n, f)
  <2> HIDE DEF Rec
  <2> QED
    BY <1>4, <1>5, Zenon
<1>7. Insert(s, x, cap, P) = <<x>> \o f[Len(s)]
  BY <1>1, <1>5, Zenon DEF Insert, Ev
<1>8. \A i \in 0..n : f[i] = IF i = 0 THEN s ELSE Ev(f[i - 1], i)
  BY <1>6, Zenon
<1>9. 0 \in 0..n /\ \A i \in 1..n : i \in 0..n /\ i # 0
  OBVIOUS
<1>10. f[0] = s /\ \A i \in 1..n : f[i] = Ev(f[i - 1], i)
  <2> HIDE DEF Rec
  <2> QED
    BY <1>8, <1>9, Zenon
<1>11. Pass(s, cap, P, f)
  BY <1>1, <1>10, Zenon DEF Pass, Ev
<1> QED
  BY <1>7, <1>11, Zenon

(* t has slots of s only, all that are pinned, and no key more often. *)
Kept(S, s, t, P) ==
  /\ t \in Seq(S)
  /\ \A i \in DOMAIN t : \E j \in DOMAIN s : t[i] = s[j]
  /\ \A j \in DOMAIN s : s[j].id \in P => \E i \in DOMAIN t : t[i] = s[j]
  /\ \A k : Copies(t, k) <= Copies(s, k)

(* Looking at one slot: it goes, or it is pinned, or there is room. *)
LEMMA EvictFacts ==
  ASSUME CountingLaws, NEW S, NEW s \in Seq(S), NEW n \in 1..Len(s), NEW cap \in Nat, NEW P, NEW t,
         t = Evict(s, n, cap, P)
  PROVE  /\ Kept(S, s, t, P)
         /\ \/ t = s /\ (Len(s) + 1 <= cap \/ s[n].id \in P)
            \/ /\ Len(t) = Len(s) - 1
               /\ \A i \in 1..(Len(s) - 1) : t[i] = IF i < n THEN s[i] ELSE s[i + 1]
<1>0. DOMAIN s = 1..Len(s) /\ Len(s) \in Nat
  OBVIOUS
<1>1. CASE Len(s) + 1 > cap /\ s[n].id \notin P
  <2>1. t = RemoveAt(s, n)
    BY <1>1, Zenon DEF Evict
  <2>2. /\ t \in Seq(S) /\ Len(t) = Len(s) - 1
        /\ \A i \in 1..(Len(s) - 1) : t[i] = IF i < n THEN s[i] ELSE s[i + 1]
    BY <2>1, RemoveAtFacts, Zenon
  <2>3. \A k : Copies(t, k) <= Copies(s, k)
    BY <2>1, CopiesRemove, Zenon
  <2>4. DOMAIN t = 1..(Len(s) - 1)
    BY <2>2
  <2>5. ASSUME NEW i \in DOMAIN t PROVE \E j \in DOMAIN s : t[i] = s[j]
    <3>1. i \in DOMAIN s /\ i + 1 \in DOMAIN s /\ i \in 1..(Len(s) - 1)
      BY <1>0, <2>4
    <3> QED
      BY <2>2, <3>1, Zenon
  <2>6. ASSUME NEW j \in DOMAIN s, s[j].id \in P PROVE \E i \in DOMAIN t : t[i] = s[j]
    <3>1. j # n /\ j \in 1..Len(s)
      BY <1>0, <1>1, <2>6, Zenon
    <3>2. CASE j < n
      <4>1. j \in 1..(Len(s) - 1)
        BY <1>0, <3>1, <3>2
      <4> QED
        BY <2>2, <2>4, <3>2, <4>1, Zenon
    <3>3. CASE j > n
      <4>1. j - 1 \in 1..(Len(s) - 1) /\ ~(j - 1 < n) /\ (j - 1) + 1 = j
        BY <1>0, <3>1, <3>3
      <4> QED
        BY <2>2, <2>4, <4>1, Zenon
    <3> QED
      BY <1>0, <3>1, <3>2, <3>3
  <2> QED
    BY <2>2, <2>3, <2>5, <2>6, Zenon DEF Kept
<1>2. CASE ~(Len(s) + 1 > cap /\ s[n].id \notin P)
  <2>1. t = s
    BY <1>2, Zenon DEF Evict
  <2>2. Len(s) + 1 <= cap \/ s[n].id \in P
    BY <1>0, <1>2
  <2>3. \A k : Copies(s, k) \in Nat
    BY CopiesType, Zenon
  <2>4. \A k : Copies(t, k) <= Copies(s, k)
    BY <2>1, <2>3
  <2> QED
    BY <2>1, <2>2, <2>4, Zenon DEF Kept
<1> QED
  BY <1>1, <1>2, Zenon

(* One look after another. *)
LEMMA KeptTwice ==
  ASSUME CountingLaws, NEW S, NEW s \in Seq(S), NEW t \in Seq(S), NEW u \in Seq(S), NEW P,
         Kept(S, s, t, P), Kept(S, t, u, P)
  PROVE  Kept(S, s, u, P)
<1>1. \A k : Copies(u, k) <= Copies(s, k)
  <2> SUFFICES ASSUME NEW k PROVE Copies(u, k) <= Copies(s, k)
    BY Zenon
  <2>1. Copies(s, k) \in Nat /\ Copies(t, k) \in Nat /\ Copies(u, k) \in Nat
    BY CopiesType, Zenon
  <2>2. Copies(t, k) <= Copies(s, k) /\ Copies(u, k) <= Copies(t, k)
    BY Zenon DEF Kept
  <2> QED
    BY <2>1, <2>2
<1>2. \A i \in DOMAIN u : \E j \in DOMAIN s : u[i] = s[j]
  BY DEF Kept
<1>3. \A j \in DOMAIN s : s[j].id \in P => \E i \in DOMAIN u : u[i] = s[j]
  <2> SUFFICES ASSUME NEW j \in DOMAIN s, s[j].id \in P PROVE \E i \in DOMAIN u : u[i] = s[j]
    BY Zenon
  <2>1. PICK i \in DOMAIN t : t[i] = s[j]
    BY Zenon DEF Kept
  <2>2. t[i].id \in P
    BY <2>1, Zenon
  <2> QED
    BY <2>1, <2>2 DEF Kept
<1> QED
  BY <1>1, <1>2, <1>3, Zenon DEF Kept

(* k slots have been looked at: there is room, or those left of them are   *)
(* pinned.                                                                 *)
Looked(n, k, t, cap, P) ==
  /\ n - k <= Len(t)
  /\ Len(t) + 1 <= cap \/ \A i \in (n - k + 1)..Len(t) : t[i].id \in P

(* The whole pass. *)
LEMMA PassFacts ==
  ASSUME CountingLaws, NEW S, NEW s \in Seq(S), NEW cap \in Nat, NEW P, NEW f, Pass(s, cap, P, f)
  PROVE  Kept(S, s, f[Len(s)], P) /\ Looked(Len(s), Len(s), f[Len(s)], cap, P)
<1>1. PICK n \in Nat : n = Len(s)
  OBVIOUS
<1> DEFINE T == {k \in 0..n : Kept(S, s, f[k], P) /\ Looked(n, k, f[k], cap, P)}
<1>2. f[0] = s /\ \A k \in 1..n : f[k] = Evict(f[k - 1], n - k + 1, cap, P)
  BY <1>1, Zenon DEF Pass
<1>3. 0 \in T
  <2>1. Kept(S, s, s, P)
    <3>1. \A k : Copies(s, k) \in Nat
      BY CopiesType, Zenon
    <3>2. \A k : Copies(s, k) <= Copies(s, k)
      BY <3>1
    <3> QED
      BY <3>2, Zenon DEF Kept
  <2>2. Looked(n, 0, s, cap, P)
    BY <1>1 DEF Looked
  <2> QED
    BY <1>2, <2>1, <2>2
<1>4. ASSUME NEW k \in 0..(n - 1), k \in T PROVE k + 1 \in T
  <2>1. PICK t, u : t = f[k] /\ u = f[k + 1]
    BY Zenon
  <2>2. Kept(S, s, t, P) /\ Looked(n, k, t, cap, P)
    BY <1>4, <2>1, Zenon
  <2>3. u = Evict(t, n - (k + 1) + 1, cap, P)
    <3>1. k + 1 \in 1..n /\ (k + 1) - 1 = k
      OBVIOUS
    <3> QED
      BY <1>2, <2>1, <3>1, Zenon
  <2> HIDE DEF T
  <2>4. PICK i \in Int : i = n - (k + 1) + 1 /\ i = n - k /\ i >= 1
    OBVIOUS
  <2>5. t \in Seq(S) /\ Len(t) \in Nat
    BY <2>2 DEF Kept
  <2>6. i \in 1..Len(t)
    BY <2>2, <2>4, <2>5 DEF Looked
  <2>7. /\ Kept(S, t, u, P)
        /\ \/ u = t /\ (Len(t) + 1 <= cap \/ t[i].id \in P)
           \/ /\ Len(u) = Len(t) - 1
              /\ \A j \in 1..(Len(t) - 1) : u[j] = IF j < i THEN t[j] ELSE t[j + 1]
    BY <2>3, <2>4, <2>5, <2>6, EvictFacts
  <2>8. Kept(S, s, u, P)
    <3>1. u \in Seq(S)
      BY <2>7, Zenon DEF Kept
    <3> QED
      BY <2>2, <2>5, <2>7, <3>1, KeptTwice, Zenon
  <2>9. Len(t) + 1 <= cap \/ \A j \in (i + 1)..Len(t) : t[j].id \in P
    <3>1. n - k + 1 = i + 1
      BY <2>4, Zenon
    <3> QED
      BY <2>2, <3>1, Zenon DEF Looked
  <2>10. i - 1 <= Len(u) /\ (Len(u) + 1 <= cap \/ \A j \in i..Len(u) : u[j].id \in P)
    <3>1. CASE u = t /\ (Len(t) + 1 <= cap \/ t[i].id \in P)
      <4>1. CASE Len(t) + 1 <= cap
        BY <2>4, <2>5, <2>6, <3>1, <4>1
      <4>2. CASE t[i].id \in P /\ \A j \in (i + 1)..Len(t) : t[j].id \in P
        <5>1. \A j \in i..Len(t) : j = i \/ j \in (i + 1)..Len(t)
          BY <2>5, <2>6
        <5>2. \A j \in i..Len(t) : t[j].id \in P
          BY <4>2, <5>1, Zenon
        <5> QED
          BY <2>5, <2>6, <3>1, <5>2
      <4> QED
        BY <2>9, <3>1, <4>1, <4>2, Zenon
    <3>2. CASE /\ Len(u) = Len(t) - 1
               /\ \A j \in 1..(Len(t) - 1) : u[j] = IF j < i THEN t[j] ELSE t[j + 1]
      <4>1. CASE Len(t) + 1 <= cap
        BY <2>5, <2>6, <3>2, <4>1
      <4>2. CASE \A j \in (i + 1)..Len(t) : t[j].id \in P
        <5>1. \A j \in i..(Len(t) - 1) : /\ j \in 1..(Len(t) - 1) /\ ~(j < i)
                                         /\ j + 1 \in (i + 1)..Len(t)
          BY <2>5, <2>6
        <5>2. \A j \in i..(Len(t) - 1) : u[j].id \in P
          BY <3>2, <4>2, <5>1, Zenon
        <5> QED
          BY <2>5, <2>6, <3>2, <5>2
      <4> QED
        BY <2>9, <4>1, <4>2, Zenon
    <3> QED
      BY <2>7, <3>1, <3>2, Zenon
  <2>11. Looked(n, k + 1, u, cap, P)
    <3>1. n - (k + 1) = i - 1 /\ n - (k + 1) + 1 = i
      BY <2>4
    <3> QED
      BY <2>10, <3>1, Zenon DEF Looked
  <2>12. k + 1 \in 0..n
    OBVIOUS
  <2> QED
    BY <2>1, <2>8, <2>11, <2>12, Zenon DEF T
<1>5. n \in T
  <2> HIDE DEF T
  <2>1. \A i \in 0..n : i \in T
    BY <1>3, <1>4, UpTo, Zenon
  <2> QED
    BY <2>1
<1> QED
  BY <1>1, <1>5, Zenon

(* q is x in front of slots of s, the pinned ones among them; there is room  *)
(* for them, or all of them are pinned.                                      *)
Inserted(S, s, x, cap, P, q) ==
  /\ q \in Seq(S) /\ 1 \in DOMAIN q /\ q[1] = x
  /\ \A i \in DOMAIN q : q[i] = x \/ \E j \in DOMAIN s : q[i] = s[j]
  /\ \A j \in DOMAIN s : s[j].id \in P => \E i \in DOMAIN q : q[i] = s[j]
  /\ Len(q) <= cap \/ \A i \in 2..Len(q) : q[i].id \in P
  /\ \A k : /\ Copies(q, k) <= Copies(s, k) + 1
            /\ x.key # k => Copies(q, k) <= Copies(s, k)

(* insert: the new slot comes first and pinned slots stay. *)
LEMMA InsertFacts ==
  ASSUME CountingLaws, NEW S, NEW s \in Seq(S), NEW x \in S, NEW cap \in Nat, NEW P
  PROVE  Inserted(S, s, x, cap, P, Insert(s, x, cap, P))
<1>0. PICK q : q = Insert(s, x, cap, P)
  BY Zenon
<1>1. PICK f : Pass(s, cap, P, f) /\ Insert(s, x, cap, P) = <<x>> \o f[Len(s)]
  BY InsertPass, Zenon
<1>2. PICK t : t = f[Len(s)]
  BY Zenon
<1>3. Kept(S, s, t, P) /\ Looked(Len(s), Len(s), t, cap, P)
  BY <1>1, <1>2, PassFacts, Zenon
<1>4. q = <<x>> \o t /\ t \in Seq(S)
  BY <1>0, <1>1, <1>2, <1>3, Zenon DEF Kept
<1>5. /\ q \in Seq(S) /\ Len(q) = Len(t) + 1 /\ q[1] = x
      /\ \A i \in 1..Len(t) : q[i + 1] = t[i]
  BY <1>4, FrontFacts
<1>6. DOMAIN q = 1..(Len(t) + 1) /\ DOMAIN t = 1..Len(t) /\ Len(t) \in Nat /\ Len(s) \in Nat
  BY <1>4, <1>5
<1>7. \A i \in 2..(Len(t) + 1) : q[i] = t[i - 1] /\ i - 1 \in 1..Len(t)
  <2> SUFFICES ASSUME NEW i \in 2..(Len(t) + 1) PROVE q[i] = t[i - 1] /\ i - 1 \in 1..Len(t)
    BY Zenon
  <2>1. i - 1 \in 1..Len(t) /\ (i - 1) + 1 = i
    BY <1>6
  <2>2. q[(i - 1) + 1] = t[i - 1]
    BY <1>5, <2>1, Zenon
  <2> QED
    BY <2>1, <2>2, Zenon
<1>8. ASSUME NEW i \in DOMAIN q PROVE q[i] = x \/ \E j \in DOMAIN s : q[i] = s[j]
  <2>1. i = 1 \/ i \in 2..(Len(t) + 1)
    BY <1>6
  <2> QED
    <3>1. \A k \in 1..Len(t) : \E j \in DOMAIN s : t[k] = s[j]
      BY <1>3, <1>6, Zenon DEF Kept
    <3>2. CASE i = 1
      BY <1>5, <3>2, Zenon
    <3>3. CASE i \in 2..(Len(t) + 1)
      <4>1. q[i] = t[i - 1] /\ i - 1 \in 1..Len(t)
        BY <1>7, <3>3, Zenon
      <4> QED
        BY <3>1, <4>1, Zenon
    <3> QED
      BY <2>1, <3>2, <3>3, Zenon
<1>9. ASSUME NEW j \in DOMAIN s, s[j].id \in P PROVE \E i \in DOMAIN q : q[i] = s[j]
  <2>1. PICK i \in DOMAIN t : t[i] = s[j]
    BY <1>3, <1>9, Zenon DEF Kept
  <2>2. i \in 1..Len(t) /\ i + 1 \in DOMAIN q
    BY <1>6
  <2> QED
    BY <1>5, <2>1, <2>2, Zenon
<1>10. Len(q) <= cap \/ \A i \in 2..Len(q) : q[i].id \in P
  <2>1. Len(t) + 1 <= cap \/ \A i \in 1..Len(t) : t[i].id \in P
    <3>1. Len(s) - Len(s) + 1 = 1
      BY <1>6
    <3> QED
      BY <1>3, <3>1, Zenon DEF Looked
  <2> QED
    BY <1>5, <1>7, <2>1, Zenon
<1>11. ASSUME NEW k PROVE /\ Copies(q, k) <= Copies(s, k) + 1
                          /\ x.key # k => Copies(q, k) <= Copies(s, k)
  <2>1. Copies(q, k) <= Copies(t, k) + 1 /\ (x.key # k => Copies(q, k) <= Copies(t, k))
    BY <1>4, CopiesFront, Zenon
  <2>2. Copies(t, k) <= Copies(s, k)
    BY <1>3, Zenon DEF Kept
  <2>3. Copies(q, k) \in Nat /\ Copies(t, k) \in Nat /\ Copies(s, k) \in Nat
    BY <1>4, <1>5, CopiesType, Zenon
  <2> QED
    BY <2>1, <2>2, <2>3
<1>12. 1 \in DOMAIN q
  BY <1>6
<1>13. Inserted(S, s, x, cap, P, q)
  BY <1>5, <1>8, <1>9, <1>10, <1>11, <1>12 DEF Inserted
<1> QED
  BY <1>0, <1>13, Zenon

(* A key that is not there has no copies. *)
LEMMA NoCopies ==
  ASSUME CountingLaws, NEW slots, NEW k, ~Holds(slots, k)
  PROVE  Copies(slots, k) = 0
<1>1. {i \in DOMAIN slots : slots[i].key = k} = {}
  BY Zenon DEF Holds
<1> QED
  BY <1>1, SizeZero, Zenon DEF Copies

=============================================================================
