------------------------------ MODULE Storage ------------------------------
(***************************************************************************)
(* Threads that mount, look up and read files on an ext2 volume through    *)
(* CachedVolume and the inode cache.  A kernel thread keeps the CPU until  *)
(* a miss makes it wait for the disk, so other threads run exactly between *)
(* a cache lookup that misses and the insert that follows the read.        *)
(***************************************************************************)
EXTENDS Ext2Calls, Lru

CONSTANTS Null,
          Users,              \* process threads
          FsInit,             \* the fs_init thread
          Names,              \* names looked up
          Seeks, Sizes,       \* positions and lengths of reads
          CACHE_CAPACITY, INODE_CACHE_CAPACITY,
          MaxJobs,            \* bound: calls of all processes
          MaxErrors,          \* bound: disk errors
          FailFor             \* bound: whose reads fail (processes are alike)

ASSUME StorageAssumption ==
  /\ IsFiniteSet(Users) /\ Users # {} /\ FsInit \notin Users /\ Null \notin Users \cup {FsInit}
  /\ Names \subseteq STRING /\ Seeks \subseteq Nat /\ Sizes \subseteq Nat
  /\ CACHE_CAPACITY \in Nat /\ INODE_CACHE_CAPACITY \in Nat

VARIABLES part,     \* the partition behind /dev/sda2, or Null
          mounted,  \* KERNEL_READY
          cpu,      \* the thread that runs, or Null
          th,       \* thread -> its call in progress
          file,     \* user -> its open file, or Null
          bcache,   \* slots [key, id, at]: at is the disk sector that was read
          icache,   \* slots [key, id, inode]
          errors, jobs

vars == <<part, mounted, cpu, th, file, bcache, icache, errors, jobs>>

Threads == Users \cup {FsInit}
\* Arcs held outside the caches: by threads, by open files, by the superblock.
HeldBufs(ts) == UNION {{ts[t].got.id, ts[t].l1.id, ts[t].dir.id} : t \in Threads} \ {0}
HeldInodes == {file[u].id : u \in {v \in Users : file[v] # Null}} \cup {1}

FreshId(used) == CHOOSE i \in 1..(Cardinality(used) + 1) : i \notin used
FreshBuf == FreshId(HeldBufs(th) \cup {bcache[i].id : i \in DOMAIN bcache})
FreshInode == FreshId(HeldInodes \cup {icache[i].id : i \in DOMAIN icache})

Init ==
  /\ part = Null /\ mounted = FALSE /\ cpu = Null
  /\ th = [t \in Threads |-> Idle]
  /\ file = [u \in Users |-> Null]
  /\ bcache = <<>> /\ icache = <<>> /\ errors = 0 /\ jobs = 0

\* block::init_thread: read the MBR and register its partitions.  (If that
\* read fails the thread exits and the disk never appears.)
BlockInit ==
  /\ part = Null /\ cpu = Null
  /\ \E p \in parse_mbr(Mbr) : p.number = 2 /\ part' = p
  /\ UNCHANGED <<mounted, cpu, th, file, bcache, icache, errors, jobs>>

-----------------------------------------------------------------------------
\* A call begins when no thread is in the kernel.
Begin(t, r) == cpu = Null /\ th[t] = Idle /\ cpu' = t /\ th' = [th EXCEPT ![t] = r]

Mount ==
  /\ part # Null /\ ~mounted
  /\ Begin(FsInit, Fetch([Idle EXCEPT !.op = "mount"], "super", SuperblockSector))
  /\ UNCHANGED <<part, mounted, file, bcache, icache, errors, jobs>>

Root == icache[CHOOSE i \in DOMAIN icache : icache[i].key = RootInode].inode

Lookup(u, name) ==
  /\ mounted /\ file[u] = Null /\ jobs < MaxJobs
  /\ Begin(u, [Idle EXCEPT !.pc = "scan", !.op = "lookup", !.name = name, !.blocks = Root.blocks,
                           !.len = Root.len, !.boff = BlockSize])
  /\ jobs' = jobs + 1
  /\ UNCHANGED <<part, mounted, file, bcache, icache, errors>>

\* vfs_seek, which stays within the file, and vfs_read.
Read(u, pos, size) ==
  /\ file[u] # Null /\ jobs < MaxJobs
  /\ LET f == file[u]
         off == IF pos = -1 THEN f.off ELSE IF pos <= f.inode.len THEN pos ELSE f.inode.len
     IN Begin(u, ReadLoop([Idle EXCEPT !.op = "read", !.blocks = f.inode.blocks,
                                       !.len = f.inode.len, !.start = off, !.size = size,
                                       !.ino = f.ino], off))
  /\ jobs' = jobs + 1
  /\ UNCHANGED <<part, mounted, file, bcache, icache, errors>>

Close(u) ==
  /\ cpu = Null /\ th[u] = Idle /\ file[u] # Null
  /\ file' = [file EXCEPT ![u] = Null]
  /\ UNCHANGED <<part, mounted, cpu, th, bcache, icache, errors, jobs>>

Running(t) == cpu = t

\* CachedVolume::get_block: a hit, a refused sector, or a miss that waits.
get_block(t) ==
  /\ Running(t) /\ th[t].pc = "get"
  /\ IF Holds(bcache, th[t].need)
     THEN LET s == Found(bcache, th[t].need) IN
          /\ th' = [th EXCEPT ![t] = Use([@ EXCEPT !.got = [id |-> s.id, at |-> s.at]])]
          /\ bcache' = Touch(bcache, th[t].need)
          /\ UNCHANGED cpu
     ELSE /\ UNCHANGED bcache
          /\ IF InBounds(part, th[t].need)
             THEN th' = [th EXCEPT ![t].pc = "wait"] /\ cpu' = Null
             ELSE th' = [th EXCEPT ![t] = Failed(@)] /\ UNCHANGED cpu
  /\ UNCHANGED <<part, mounted, file, icache, errors, jobs>>

\* The dispatcher has answered and the thread runs again (when the answer came
\* in between makes no difference: the disk does not change).  The new block
\* enters the cache, whoever else inserted it meanwhile.
ResumeFilled(t) ==
  /\ cpu = Null /\ th[t].pc = "wait"
  /\ cpu' = t
  /\ LET b == [id |-> FreshBuf, at |-> DiskLba(part, th[t].need)] IN
     /\ th' = [th EXCEPT ![t] = Use([@ EXCEPT !.got = b])]
     /\ bcache' = Insert(bcache, [key |-> th[t].need, id |-> b.id, at |-> b.at], CACHE_CAPACITY,
                         HeldBufs(th))
  /\ UNCHANGED <<part, mounted, file, icache, errors, jobs>>

ResumeFailed(t) ==
  /\ cpu = Null /\ th[t].pc = "wait" /\ errors < MaxErrors /\ t \in FailFor
  /\ cpu' = t /\ errors' = errors + 1
  /\ th' = [th EXCEPT ![t] = Failed([@ EXCEPT !.ioerr = TRUE])]
  /\ UNCHANGED <<part, mounted, file, bcache, icache, jobs>>

ScanDirectory(t) ==
  /\ Running(t) /\ th[t].pc = "scan"
  /\ th' = [th EXCEPT ![t] = DirStep(@)]
  /\ UNCHANGED <<part, mounted, cpu, file, bcache, icache, errors, jobs>>

Opened(u, id, ino, inode) ==
  file' = IF u \in Users THEN [file EXCEPT ![u] = [id |-> id, ino |-> ino, inode |-> inode, off |-> 0]]
          ELSE file

\* get_or_read_inode: a hit, or the inode's block first.
get_or_read_inode(t) ==
  /\ Running(t) /\ th[t].pc = "inode"
  /\ IF Holds(icache, th[t].ino)
     THEN LET s == Found(icache, th[t].ino) IN
          /\ icache' = Touch(icache, th[t].ino)
          /\ th' = [th EXCEPT ![t] = Done(@, "Ok")]
          /\ Opened(t, s.id, s.key, s.inode)
     ELSE th' = [th EXCEPT ![t] = ReadInode(@, @.ino)] /\ UNCHANGED <<icache, file>>
  /\ UNCHANGED <<part, mounted, cpu, bcache, errors, jobs>>

\* read_inode has its block: the inode enters the cache and is returned; the
\* root inode ends the mount, which starts a cache of its own.
GotInode(t) ==
  /\ Running(t) /\ th[t].pc = "gotinode"
  /\ LET slot == [key |-> th[t].ino, id |-> IF t = FsInit THEN 1 ELSE FreshInode,
                  inode |-> InodeIn(th[t].got.at, inode_location(th[t].ino).slot)]
     IN /\ icache' = Insert(icache, slot, INODE_CACHE_CAPACITY, HeldInodes)
        /\ Opened(t, slot.id, slot.key, slot.inode)
  /\ th' = [th EXCEPT ![t] = Done(@, "Ok")]
  /\ UNCHANGED <<part, mounted, cpu, bcache, errors, jobs>>

\* The call returns; read leaves its offset in the file whatever its result,
\* and fs_init tries again until the mount succeeds.
Return(t) ==
  /\ Running(t) /\ th[t].pc = "done"
  /\ th' = [th EXCEPT ![t] = Idle]
  /\ cpu' = Null
  /\ mounted' = (mounted \/ (t = FsInit /\ th[t].res = "Ok"))
  /\ file' = IF th[t].op = "read"
             THEN [file EXCEPT ![t].off = th[t].start + Len(th[t].out)] ELSE file
  /\ UNCHANGED <<part, bcache, icache, errors, jobs>>

Step(t) == get_block(t) \/ ResumeFilled(t) \/ ResumeFailed(t) \/ ScanDirectory(t)
           \/ get_or_read_inode(t) \/ GotInode(t) \/ Return(t)

Next ==
  \/ BlockInit \/ Mount
  \/ \E u \in Users :
       \/ \E n \in Names : Lookup(u, n)
       \/ \E pos \in Seeks \cup {-1}, s \in Sizes : Read(u, pos, s)
       \/ Close(u)
  \/ \E t \in Threads : Step(t)

\* The CPU goes on executing, and the dispatcher answers every request; a
\* process is not obliged to make calls.
Fairness == WF_vars(\E t \in Threads : Step(t))

Spec == Init /\ [][Next]_vars /\ Fairness

-----------------------------------------------------------------------------
Finished(u, op) == th[u].pc = "done" /\ th[u].op = op

\* A read returns the file's bytes from its offset on, each from the sector
\* the volume's own structure puts it in, up to the length asked for, the end
\* of the file or its first hole, whatever other threads did to the caches.
\* It fails only when the disk failed a read of this very call, or when the
\* next byte lies behind a block at the partition's edge, and then it has
\* consumed the bytes before that one.
ReadDelivers == \A u \in Users : Finished(u, "read") =>
  LET r == th[u]
      inode == InodeOf(part, r.ino)
      missing == FirstMissing(part, inode, r.start)
      end == IF r.start + r.size <= missing THEN r.start + r.size ELSE missing
      full == [i \in 1..(end - r.start) |-> ByteAt(part, inode, r.start + i - 1)]
  IN /\ r.res = "Ok" => r.out = full
     /\ r.res = "Err" => /\ \E n \in 0..Len(full) : r.out = SubSeq(full, 1, n)
                         /\ \/ r.ioerr
                            \/ Barred(part, inode, (r.start + Len(r.out)) \div BlockSize + 1)

\* A lookup finds the inode that the directory gives the name, though deleted,
\* damaged and oversized entries lie around it and another thread may be
\* reading the same inode.  It says NotFound of a name that is not there, and
\* of one that is there only when the disk failed a read of this very call, or
\* a block of the directory or the one with the inode is at the partition's edge.
LookupFinds == \A u \in Users : Finished(u, "lookup") =>
  LET root == InodeOf(part, RootInode)
      named == {e \in EntriesOf(part, root) : e.name = th[u].name} IN
  /\ th[u].res = "Ok" => /\ file[u].ino \in {e.ino : e \in named}
                         /\ file[u].inode = InodeOf(part, file[u].ino)
  /\ th[u].res = "NotFound" => \/ named = {} \/ th[u].ioerr
                               \/ \E k \in DOMAIN AllBlocks(part, root) : Barred(part, root, k)
                               \/ \E e \in named : OnEdge(part, InodeBlock(e.ino))

\* An insert leaves a cache within its capacity unless every slot it kept is
\* pinned; so a cache that pins have pushed over its capacity comes back.
CacheBounded == [][
  /\ (\E t \in Threads : ResumeFilled(t)) =>
       \/ Len(bcache') <= CACHE_CAPACITY
       \/ \A i \in 2..Len(bcache') : bcache'[i].id \in HeldBufs(th)
  /\ (\E t \in Threads : GotInode(t)) =>
       \/ Len(icache') <= INODE_CACHE_CAPACITY
       \/ \A i \in 2..Len(icache') : icache'[i].id \in HeldInodes]_vars

\* Threads that miss on the same block or inode all read and insert it, but
\* never more copies than there are processes: a copy in the cache stops the
\* next reader, and nothing else reads while fs_init mounts.
StampedeBounded ==
  /\ \A k \in {th[t].need : t \in Threads} :
       Cardinality({i \in DOMAIN bcache : bcache[i].key = k})
         + Cardinality({t \in Threads : th[t].pc = "wait" /\ th[t].need = k})
         <= Cardinality(Users)
  /\ \A k \in {icache[i].key : i \in DOMAIN icache} :
       Cardinality({i \in DOMAIN icache : icache[i].key = k}) <= Cardinality(Users)

\* A thread that has the CPU gives it back: no loop of a call runs for ever,
\* on a damaged directory neither.  (Nothing preempts the kernel.)
KernelYields == cpu # Null ~> cpu = Null
=============================================================================
