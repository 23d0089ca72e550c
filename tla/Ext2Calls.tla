------------------------------ MODULE Ext2Calls ------------------------------
(***************************************************************************)
(* The calls of the ext2 driver (src/fs/ext2): what a mount, a lookup or a *)
(* read does with the block it has, as functions of its record.            *)
(***************************************************************************)
EXTENDS Ext2

NoBuf == [id |-> 0, at |-> 0]

\* stage: what the block being fetched is for.  l1 is the Arc that
\* resolve_block_ptr keeps while it fetches the next level, dir the
\* DirEntryIter's, got the block just fetched.  ioerr is history: the disk has
\* failed a read of this very call.
Idle == [pc |-> "idle", op |-> "none", stage |-> "none", need |-> 0, got |-> NoBuf, l1 |-> NoBuf,
         dir |-> NoBuf, blocks |-> <<>>, idx |-> 0, boff |-> 0, bytes |-> 0, len |-> 0,
         name |-> NoName, ino |-> 0, start |-> 0, size |-> 0, out |-> <<>>, res |-> "none",
         ioerr |-> FALSE]

\* What a call does next, as functions of its record.
Fetch(r, stage, lba) == [r EXCEPT !.pc = "get", !.stage = stage, !.need = lba, !.got = NoBuf]
Done(r, res) == [r EXCEPT !.pc = "done", !.res = res, !.got = NoBuf, !.l1 = NoBuf, !.dir = NoBuf]

\* A BlockError: lookup reports every one as NotFound.
Refused(r) == Done(r, IF r.op = "lookup" THEN "NotFound" ELSE "Err")

\* A hole ends the read, and the directory.
Hole(r) == Done(r, IF r.op = "read" THEN "Ok" ELSE "NotFound")
ToBlock(r, ptr) == IF ptr = 0 THEN Hole(r)
                   ELSE Fetch([r EXCEPT !.l1 = NoBuf], "data", block_to_sector(ptr))

\* resolve_block_ptr for block idx.
Resolve(r) ==
  LET i == r.idx - NDIR_BLOCKS IN
  IF r.idx < NDIR_BLOCKS THEN ToBlock(r, r.blocks[r.idx + 1])
  ELSE IF i < Ptrs
       THEN IF r.blocks[NDIR_BLOCKS + 1] = 0 THEN Hole(r)
            ELSE Fetch(r, "indirect", block_to_sector(r.blocks[NDIR_BLOCKS + 1]))
  ELSE IF i - Ptrs < Ptrs * Ptrs /\ r.blocks[NDIR_BLOCKS + 2] # 0
       THEN Fetch(r, "double", block_to_sector(r.blocks[NDIR_BLOCKS + 2]))
  ELSE Hole(r)

DoubleIdx(r) == r.idx - NDIR_BLOCKS - Ptrs

\* Faulty variant: the last block of the file is copied to its end.
CopyLenWhole(r, off) ==
  LET room == BlockSize - (off % BlockSize)
      left == r.size - Len(r.out)
  IN IF room <= left THEN room ELSE left

CopyLen(r, off) ==
  LET room == BlockSize - (off % BlockSize)
      left == IF r.len - off <= r.size - Len(r.out) THEN r.len - off ELSE r.size - Len(r.out)
  IN IF room <= left THEN room ELSE left

\* One round of Ext2FileOps::read's loop, and its end.
ReadLoop(r, off) ==
  IF Len(r.out) < r.size /\ off < r.len
  THEN Resolve([r EXCEPT !.idx = off \div BlockSize]) ELSE Done(r, "Ok")

CopyBlock(r) ==
  LET off == r.start + Len(r.out)
      n == CopyLen(r, off)
      s == [r EXCEPT !.out = @ \o [i \in 1..n |-> <<r.got.at, (off % BlockSize) + i - 1>>],
                     !.got = NoBuf]
  IN ReadLoop(s, off + n)

\* Faulty variant: a zero rec_len is not special.
DirStepTrusting(r) ==
  LET e == EntryIn(r.dir.at, r.boff)
      next == [r EXCEPT !.bytes = @ + e.rec_len, !.boff = @ + e.rec_len]
      end == next.boff >= BlockSize \/ next.bytes >= r.len
  IN IF r.boff >= BlockSize
     THEN IF r.bytes >= r.len THEN Done(r, "NotFound") ELSE Resolve(r)
     ELSE IF r.boff + Header > BlockSize
     THEN [r EXCEPT !.idx = @ + 1, !.boff = BlockSize]
     ELSE IF e.ino # 0 /\ e.name_len # 0 /\ r.boff + Header + e.name_len <= BlockSize
             /\ e.name = r.name
     THEN [next EXCEPT !.ino = e.ino, !.pc = "inode"]
     ELSE IF end THEN [next EXCEPT !.idx = @ + 1, !.boff = BlockSize] ELSE next

\* Faulty variant: a block with a zero rec_len ends the directory.
DirStepStops(r) ==
  LET e == EntryIn(r.dir.at, r.boff)
      next == [r EXCEPT !.bytes = @ + e.rec_len, !.boff = @ + e.rec_len]
      end == next.boff >= BlockSize \/ next.bytes >= r.len
  IN IF r.boff >= BlockSize
     THEN IF r.bytes >= r.len THEN Done(r, "NotFound") ELSE Resolve(r)
     ELSE IF r.boff + Header > BlockSize \/ e.rec_len = 0 THEN Done(r, "NotFound")
     ELSE IF e.ino # 0 /\ e.name_len # 0 /\ r.boff + Header + e.name_len <= BlockSize
             /\ e.name = r.name
     THEN [next EXCEPT !.ino = e.ino, !.pc = "inode"]
     ELSE IF end THEN [next EXCEPT !.idx = @ + 1, !.boff = BlockSize] ELSE next

\* One round of DirEntryIter::next and of lookup's comparison.
DirStep(r) ==
  LET e == EntryIn(r.dir.at, r.boff)
      next == [r EXCEPT !.bytes = @ + e.rec_len, !.boff = @ + e.rec_len]
      end == next.boff >= BlockSize \/ next.bytes >= r.len
  IN IF r.boff >= BlockSize
     THEN IF r.bytes >= r.len THEN Done(r, "NotFound") ELSE Resolve(r)
     ELSE IF r.boff + Header > BlockSize \/ e.rec_len = 0
     THEN [r EXCEPT !.idx = @ + 1, !.boff = BlockSize]
     ELSE IF e.ino # 0 /\ e.name_len # 0 /\ r.boff + Header + e.name_len <= BlockSize
             /\ e.name = r.name
     THEN [next EXCEPT !.ino = e.ino, !.pc = "inode"]
     ELSE IF end THEN [next EXCEPT !.idx = @ + 1, !.boff = BlockSize] ELSE next

ReadInode(r, ino) ==
  LET l == inode_location(ino) IN
  IF l.sector = -1 THEN Refused(r) ELSE Fetch([r EXCEPT !.ino = ino], "inode", l.sector)

\* Ext2SuperBlock::new, block by block: a volume without the magic number, or
\* with more groups than a cache block has descriptors, is refused.
AfterSuper(r) == IF r.got.at \in MagicAt /\ Len(Groups) <= MaxGroups
                 THEN Fetch(r, "gdt", GdtSector) ELSE Refused(r)
AfterGdt(r) == IF JournalInum # 0 /\ inode_location(JournalInum).sector # -1
               THEN Fetch(r, "journal", inode_location(JournalInum).sector)
               ELSE ReadInode(r, RootInode)

\* The call goes on with the block it has.
Use(r) ==
  CASE r.stage = "super" -> AfterSuper(r)
    [] r.stage = "gdt" -> AfterGdt(r)
    [] r.stage = "journal" -> ReadInode(r, RootInode)
    [] r.stage = "indirect" -> ToBlock(r, PtrIn(r.got.at, r.idx - NDIR_BLOCKS))
    [] r.stage = "double" ->
         LET p == PtrIn(r.got.at, DoubleIdx(r) \div Ptrs) IN
         IF p = 0 THEN Hole(r) ELSE Fetch([r EXCEPT !.l1 = r.got], "level2", block_to_sector(p))
    [] r.stage = "level2" -> ToBlock(r, PtrIn(r.got.at, DoubleIdx(r) % Ptrs))
    [] r.stage = "data" -> IF r.op = "read" THEN CopyBlock(r)
                           ELSE [r EXCEPT !.dir = r.got, !.got = NoBuf, !.boff = 0, !.pc = "scan"]
    [] r.stage = "inode" -> [r EXCEPT !.pc = "gotinode"]

\* An error of get_block: the mount goes on without its journal, all else fails.
Failed(r) == IF r.stage = "journal" THEN ReadInode(r, RootInode) ELSE Refused(r)
=============================================================================
