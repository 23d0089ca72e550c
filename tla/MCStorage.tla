----------------------------- MODULE MCStorage -----------------------------
(***************************************************************************)
(* A volume of 22 blocks of two sectors of three bytes, two direct         *)
(* pointers and two pointers to a block, in the second partition of the    *)
(* disk.  get_block reads four sectors, so block 21 is out of its reach.   *)
(***************************************************************************)
EXTENDS Storage, TLC

Part(ty, s, n) == [type |-> ty, lba_start |-> s, num_sectors |-> n]
MCMbr == [valid |-> TRUE, entries |-> <<Part(0, 0, 0), Part(131, 40, 44), Part(12, 8, 4), Part(0, 0, 0)>>]
MCGroups == <<3>>
At(b) == 40 + 2 * b
MCMagic == {At(1)}
MCPtrs == (At(8) :> <<7, 9>>) @@ (At(12) :> <<11, 21>>) @@ (At(16) :> <<0, 17>>) @@ (At(17) :> <<18, 0>>)
Ino(len, blocks) == [len |-> len, blocks |-> blocks]
NoInode == Ino(0, <<0, 0, 0, 0>>)
\* Inode 2 is the root directory, 3 the journal, 4 a file of two direct blocks,
\* one behind an indirection, one at the partition's edge, a hole of two
\* blocks, and a last block behind two indirections.
MCInodes == (At(3) :> <<NoInode, Ino(24, <<5, 6, 8, 0>>)>>)
         @@ (At(4) :> <<Ino(6, <<10, 0, 0, 0>>), Ino(40, <<14, 15, 12, 16>>)>>)
Ent(ino, rec, name, n) == [ino |-> ino, rec_len |-> rec, name |-> name, name_len |-> n]
\* A name too long for its block, a gap too small for an entry, a deleted
\* entry and a record length of zero.
MCDir == (At(5) :> ((0 :> Ent(2, 3, "dot", 1)) @@ (3 :> Ent(3, 3, "b", 2))))
      @@ (At(6) :> (0 :> Ent(3, 5, "a", 1)))
      @@ (At(7) :> ((0 :> Ent(0, 3, "b", 1)) @@ (3 :> Ent(4, 0, "b", 0))))
      @@ (At(9) :> (0 :> Ent(4, 6, "b", 1)))
\* The root directory is not damaged, as LookupsFind assumes.
ASSUME RootIntact == \A p \in parse_mbr(Mbr) : p.number = 2 => Intact(p, InodeOf(p, RootInode))
=============================================================================
