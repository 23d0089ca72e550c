--------------------------- MODULE StorageProofs ---------------------------
(***************************************************************************)
(* Proofs about Storage: what a read returns and what a lookup finds,      *)
(* whatever other threads do to the caches; that the caches stay bounded.  *)
(***************************************************************************)
EXTENDS StorageSteps

-----------------------------------------------------------------------------
(***************************************************************************)
(* The steps that begin and end a call.                                    *)
(***************************************************************************)
(* A thread has read the block of the inode: it is the inode's. *)
LEMMA InodeRead ==
  ASSUME SInv, NEW t \in Threads, th[t].pc = "gotinode"
  PROVE  /\ th[t].ino \in Nat
         /\ InodeIn(th[t].got.at, inode_location(th[t].ino).slot) = InodeOf(part, th[t].ino)
         /\ t \in Users => /\ th[t].op = "lookup"
                           /\ Named(part, InodeOf(part, RootInode), th[t].name, th[t].ino)
         /\ t \notin Users => th[t].ino = RootInode
<1>1. /\ th[t] \in Call /\ Job(part, th[t]) /\ th[t].op # "none"
      /\ t \in Users => th[t].op \in {"lookup", "read"}
      /\ t \notin Users => th[t].op = "mount"
  BY Busy, Zenon
<1>2. th[t].ino \in Nat
  BY <1>1, Zenon DEF Call
<1>3. t \in Users => th[t].op = "lookup"
  BY <1>1, Zenon DEF Job, ReadJob
<1>4. ReadsInode(th[t])
  BY Zenon DEF ReadsInode
<1>5. InodeAim(part, th[t])
  BY <1>1, <1>3, <1>4, Zenon DEF Job, LookupJob, MountJob
<1>6. InodeIn(th[t].got.at, inode_location(th[t].ino).slot) = InodeOf(part, th[t].ino)
  BY <1>2, <1>5, InodeThere, Zenon DEF InodeAim
<1>7. t \notin Users => th[t].ino = RootInode
  BY <1>1, <1>4, Zenon DEF Job, MountJob
<1>8. t \in Users => Named(part, InodeOf(part, RootInode), th[t].name, th[t].ino)
  BY <1>1, <1>3, <1>4, Zenon DEF Job, LookupJob
<1> QED
  BY <1>2, <1>3, <1>6, <1>7, <1>8, Zenon

(* The inode enters the cache and the lookup ends. *)
LEMMA GotInodeStep ==
  ASSUME CountingLaws, SInv, NEW t \in Users, GotInode(t)
  PROVE  SInv'
<1>1. th[t].pc = "gotinode" /\ t \in Threads /\ t # FsInit
  BY ThreadsFinite, Zenon DEF GotInode
<1>2. /\ part \in parse_mbr(Mbr) /\ Coherent /\ th[t] \in Call /\ mounted
  BY <1>1, Busy, Zenon
<1>3. /\ icache \in Seq(ISlot) /\ bcache \in Seq(BSlot) /\ SType /\ Stampede
      /\ INODE_CACHE_CAPACITY \in Nat
  BY StorageAssumption, Zenon DEF SInv, SType
<1>4. UNCHANGED <<part, mounted, cpu, bcache, errors>>
  BY Zenon DEF GotInode
<1>5. PICK inode : inode = InodeIn(th[t].got.at, inode_location(th[t].ino).slot)
  BY Zenon
<1>6. /\ th[t].ino \in Nat /\ inode = InodeOf(part, th[t].ino) /\ th[t].op = "lookup"
      /\ Named(part, InodeOf(part, RootInode), th[t].name, th[t].ino)
  BY <1>1, <1>5, InodeRead, Zenon
<1>7. PICK x : x = [key |-> th[t].ino, id |-> FreshInode, inode |-> inode]
  BY Zenon
<1>8. FreshInode \in Nat /\ x \in ISlot /\ x.key = th[t].ino /\ x.inode = InodeOf(part, x.key)
  BY <1>3, <1>6, <1>7, FreshTypes, InodeType, Zenon DEF ISlot
<1>9. /\ icache' = Insert(icache, x, INODE_CACHE_CAPACITY, HeldInodes)
      /\ file' = [file EXCEPT ![t] = [id |-> FreshInode, ino |-> th[t].ino, inode |-> inode, off |-> 0]]
      /\ th' = [th EXCEPT ![t] = Done(@, "Ok")]
  BY <1>1, <1>5, <1>7, Zenon DEF GotInode, Opened
<1>10. /\ icache' \in Seq(ISlot)
       /\ \A i \in DOMAIN icache' : icache'[i] = x \/ \E j \in DOMAIN icache : icache'[i] = icache[j]
       /\ \A j \in DOMAIN icache : icache[j].id \in HeldInodes =>
            \E i \in DOMAIN icache' : icache'[i] = icache[j]
       /\ \A k : /\ Copies(icache', k) <= Copies(icache, k) + 1
                 /\ x.key # k => Copies(icache', k) <= Copies(icache, k)
  <2>1. Inserted(ISlot, icache, x, INODE_CACHE_CAPACITY, HeldInodes, icache')
    BY <1>3, <1>8, <1>9, InsertFacts, Zenon
  <2> QED
    BY <2>1, Zenon DEF Inserted
<1>11. \A i \in DOMAIN icache' : icache'[i].inode = InodeOf(part, icache'[i].key)
  <2>1. \A j \in DOMAIN icache : icache[j].inode = InodeOf(part, icache[j].key)
    BY <1>2, Zenon DEF Coherent
  <2>2. /\ x.inode = InodeOf(part, x.key)
        /\ \A i \in DOMAIN icache' : icache'[i] = x \/ \E j \in DOMAIN icache : icache'[i] = icache[j]
    BY <1>8, <1>10, Zenon
  <2>3. ASSUME NEW i \in DOMAIN icache'
        PROVE  icache'[i].inode = InodeOf(part, icache'[i].key)
    BY <2>1, <2>2, ZenonT(30)
  <2> QED
    BY <2>3, Zenon
<1>12. RootCached'
  <2>1. RootCached
    BY <1>2, Zenon DEF SInv, Mounting
  <2>2. 1 \in HeldInodes
    BY Zenon DEF HeldInodes
  <2> QED
    BY <1>10, <2>1, <2>2 DEF RootCached
<1>13. Stampede'
  <2>1. PICK s : s = Done(th[t], "Ok")
    BY Zenon
  <2>2. s.pc = "done"
    <3>1. "Ok" \in Results
      BY Zenon DEF Results
    <3> QED
      BY <1>2, <2>1, <3>1, DoneEffect
  <2>3. th' = [th EXCEPT ![t] = s]
    BY <1>9, <2>1
  <2>4. bcache' \in Seq(BSlot) /\ \A k \in Nat : Copies(bcache', k) <= Copies(bcache, k)
    BY <1>3, <1>4, SameCopies
  <2>5. \A k \in Nat : Copies(bcache', k) + Cardinality(Waiters(th', k)) <= Cardinality(Users)
    BY <1>1, <1>3, <2>2, <2>3, <2>4, BlocksKept, Zenon
  <2>6. ~ReadsInode(s) /\ ReadsInode(th[t])
    BY <1>1, <2>2 DEF ReadsInode
  <2>7. \A k \in Nat :
           \/ Copies(icache', k) <= Copies(icache, k)
           \/ Copies(icache', k) <= Copies(icache, k) + 1 /\ th[t].ino = k
    BY <1>8, <1>10
  <2>8. \A k \in Nat : Copies(icache', k) + Cardinality(InodeReaders(th', k)) <= Cardinality(Users)
    BY <1>1, <1>3, <1>10, <2>3, <2>6, <2>7, InodesKept, Zenon
  <2> QED
    BY <2>5, <2>8 DEF Stampede
<1> QED
  BY <1>1, <1>4, <1>6, <1>8, <1>9, <1>10, <1>11, <1>12, <1>13, LookupEnds, Zenon

(* The root inode starts the inode cache and ends the mount. *)
LEMMA GotRootStep ==
  ASSUME CountingLaws, SInv, GotInode(FsInit)
  PROVE  SInv'
<1>1. th[FsInit].pc = "gotinode" /\ FsInit \in Threads /\ FsInit \notin Users /\ Users \subseteq Threads
  BY ThreadsFinite, Zenon DEF GotInode
<1>2. /\ part # Null /\ Coherent /\ Calls /\ th[FsInit] \in Call /\ Job(part, th[FsInit])
      /\ ~mounted /\ icache = <<>> /\ th[FsInit].op = "mount"
  BY <1>1, Busy, Zenon
<1>3. /\ SType /\ Stampede /\ th \in [Threads -> Call] /\ bcache \in Seq(BSlot)
      /\ icache \in Seq(ISlot) /\ INODE_CACHE_CAPACITY \in Nat
  BY StorageAssumption, Zenon DEF SInv, SType
<1>4. UNCHANGED <<part, mounted, cpu, bcache, errors, file>>
  BY <1>1, Zenon DEF GotInode, Opened
<1>5. PICK inode : inode = InodeIn(th[FsInit].got.at, inode_location(th[FsInit].ino).slot)
  BY Zenon
<1>6. th[FsInit].ino = RootInode /\ RootInode \in Nat /\ inode = InodeOf(part, RootInode)
  BY <1>1, <1>5, InodeRead, Zenon
<1>7. PICK x : x = [key |-> RootInode, id |-> 1, inode |-> inode]
  BY Zenon
<1>8. x \in ISlot /\ x.key = RootInode /\ x.id = 1 /\ x.inode = InodeOf(part, x.key)
  BY <1>6, <1>7, InodeType, Zenon DEF ISlot
<1>9. PICK s : s = Done(th[FsInit], "Ok")
  BY Zenon
<1>10. s \in Call /\ s.pc = "done" /\ s.res = "Ok" /\ s.op = "mount"
  <2>1. "Ok" \in Results
    BY Zenon DEF Results
  <2> QED
    BY <1>2, <1>9, <2>1, DoneEffect DEF Same
<1>11. icache' = Insert(icache, x, INODE_CACHE_CAPACITY, HeldInodes) /\ th' = [th EXCEPT ![FsInit] = s]
  BY <1>5, <1>6, <1>7, <1>9, Zenon DEF GotInode
<1>12. /\ icache' \in Seq(ISlot) /\ 1 \in DOMAIN icache' /\ icache'[1] = x
       /\ \A i \in DOMAIN icache' : icache'[i] = x \/ \E j \in DOMAIN icache : icache'[i] = icache[j]
       /\ \A k : Copies(icache', k) <= Copies(icache, k) + 1
  <2>1. Inserted(ISlot, icache, x, INODE_CACHE_CAPACITY, HeldInodes, icache')
    BY <1>3, <1>8, <1>11, InsertFacts, Zenon
  <2> QED
    BY <2>1, Zenon DEF Inserted
<1>13. /\ th' \in [Threads -> Call] /\ th'[FsInit] = s
       /\ \A y \in Threads : y # FsInit => th'[y] = th[y]
  BY <1>1, <1>3, <1>10, <1>11
<1>14. \A u \in Users : th'[u] = Idle /\ file[u] = Null
  <2>1. \A u \in Users : th[u] = Idle /\ file[u] = Null
    BY <1>2 DEF SInv, Mounting
  <2> QED
    BY <1>1, <1>13, <2>1
<1>15. SType'
  BY <1>3, <1>4, <1>12, <1>13 DEF SType
<1>16. Roles' /\ Mounting'
  <2>1. RootCached'
    BY <1>8, <1>12 DEF RootCached
  <2>2. Idle.op = "none"
    BY Zenon DEF Idle
  <2>3. Roles'
    BY <1>2, <1>4, <1>10, <1>13, <1>14, <2>2 DEF Roles
  <2>4. Mounting'
    BY <1>2, <1>4, <1>10, <1>13, <1>14, <2>1, Zenon DEF Mounting
  <2> QED
    BY <2>3, <2>4
<1>17. Coherent'
  <2>1. \A i \in DOMAIN icache' : icache'[i] = x
    BY <1>2, <1>12
  <2> QED
    BY <1>2, <1>4, <1>8, <2>1, Zenon DEF Coherent
<1>18. Calls'
  <2>1. Job(part, s) /\ ErrorCause(part, s)
    BY <1>10, Zenon DEF Job, MountJob, ReadsInode, ErrorCause
  <2>2. Idle.op = "none"
    BY Zenon DEF Idle
  <2> QED
    BY <1>2, <1>4, <1>10, <1>13, <1>14, <2>1, <2>2, Zenon DEF Calls
<1>19. Stampede'
  <2>1. bcache' \in Seq(BSlot) /\ \A k \in Nat : Copies(bcache', k) <= Copies(bcache, k)
    BY <1>3, <1>4, SameCopies
  <2>2. \A k \in Nat : Copies(bcache', k) + Cardinality(Waiters(th', k)) <= Cardinality(Users)
    BY <1>1, <1>3, <1>10, <1>11, <2>1, BlocksKept, Zenon
  <2>3. ASSUME NEW k \in Nat
        PROVE  Copies(icache', k) + Cardinality(InodeReaders(th', k)) <= Cardinality(Users)
    <3>1. ~Holds(icache, k)
      BY <1>2 DEF Holds
    <3>2. Copies(icache, k) = 0
      BY <3>1, NoCopies, Zenon
    <3>3. Copies(icache', k) \in Nat /\ Copies(icache', k) <= 1
      <4>1. Copies(icache', k) \in Nat
        BY <1>12, CopiesType, Zenon
      <4> QED
        BY <1>12, <3>2, <4>1
    <3>4. InodeReaders(th', k) = {}
      <4>1. ~ReadsInode(Idle)
        BY Zenon DEF ReadsInode, Idle
      <4> QED
        BY <1>14, <4>1 DEF InodeReaders
    <3>5. Cardinality(InodeReaders(th', k)) = 0 /\ Cardinality(Users) \in Nat /\ Cardinality(Users) >= 1
      BY <3>4, SizeZero, ThreadsFinite
    <3> QED
      BY <3>3, <3>5
  <2> QED
    BY <2>2, <2>3 DEF Stampede
<1> QED
  BY <1>15, <1>16, <1>17, <1>18, <1>19 DEF SInv

(* A thread without a call. *)
LEMMA IdleFacts ==
  /\ Idle \in Call /\ Idle.pc = "idle" /\ Idle.op = "none" /\ Idle.out = <<>> /\ Idle.bytes = 0
  /\ Idle.idx = 0 /\ ~ReadsInode(Idle) /\ \A p : Job(p, Idle) /\ ErrorCause(p, Idle)
<1>1. "idle" \in Pcs /\ "none" \in Ops /\ "none" \in Stages /\ "none" \in Results
  BY Zenon DEF Pcs, Ops, Stages, Results
<1>2. NoName \in SomeName
  BY Zenon DEF SomeName
<1>3. <<>> \in Pointers /\ <<>> \in Outputs
  BY DEF Pointers, Outputs
<1>4. Idle \in Call
  BY <1>1, <1>2, <1>3, NoBufType, Zenon DEF Idle, Call
<1>5. /\ Idle.pc = "idle" /\ Idle.op = "none" /\ Idle.out = <<>> /\ Idle.bytes = 0 /\ Idle.idx = 0
  BY Zenon DEF Idle
<1> QED
  BY <1>4, <1>5, Zenon DEF ReadsInode, Job, ErrorCause

(* A call returns. *)
LEMMA ReturnStep ==
  ASSUME CountingLaws, SInv, NEW t \in Threads, Return(t)
  PROVE  SInv'
<1>1. th[t].pc = "done" /\ FsInit \in Threads /\ FsInit \notin Users /\ Users \subseteq Threads
  BY ThreadsFinite, Zenon DEF Return
<1>2. /\ part # Null /\ Coherent /\ Calls /\ th[t] \in Call /\ th[t].op # "none"
      /\ t \in Users => mounted /\ th[t].op \in {"lookup", "read"}
      /\ t \notin Users => t = FsInit /\ ~mounted /\ th[t].op = "mount"
  BY <1>1, Busy, Zenon
<1>3. /\ SType /\ Stampede /\ th \in [Threads -> Call] /\ file \in [Users -> Handle \cup {Null}]
      /\ bcache \in Seq(BSlot) /\ icache \in Seq(ISlot)
  BY Zenon DEF SInv, SType
<1>4. /\ UNCHANGED <<part, bcache, icache, errors>> /\ cpu' = Null /\ th' = [th EXCEPT ![t] = Idle]
      /\ mounted' = (mounted \/ (t = FsInit /\ th[t].res = "Ok"))
  BY Zenon DEF Return
<1>5. /\ th' \in [Threads -> Call] /\ th'[t] = Idle /\ \A x \in Threads : x # t => th'[x] = th[x]
  BY <1>3, <1>4, IdleFacts, Zenon
<1>6. /\ file' \in [Users -> Handle \cup {Null}]
      /\ \A u \in Users : u # t => file'[u] = file[u]
      /\ \A u \in Users : file'[u] # Null /\ file[u] # Null =>
           file'[u].ino = file[u].ino /\ file'[u].inode = file[u].inode
      /\ \A u \in Users : file[u] = Null => file'[u] = Null
  <2>1. CASE th[t].op = "read"
    <3>1. t \in Users
      BY <1>2, <2>1
    <3>2. file[t] # Null
      BY <2>1, <3>1 DEF SInv, Roles
    <3>3. file[t] \in Handle
      BY <1>3, <3>1, <3>2
    <3>4. PICK off \in Nat : off = th[t].start + Len(th[t].out)
      <4>1. th[t].start \in Nat /\ th[t].out \in Outputs
        BY <1>2 DEF Call
      <4> QED
        BY <4>1 DEF Outputs
    <3>5. file' = [file EXCEPT ![t].off = off]
      BY <2>1, <3>4 DEF Return
    <3>6. PICK h : h = [file[t] EXCEPT !.off = off]
      BY Zenon
    <3>7. h \in Handle /\ h.ino = file[t].ino /\ h.inode = file[t].inode
      BY <3>3, <3>4, <3>6 DEF Handle
    <3>8. file' = [file EXCEPT ![t] = h]
      BY <3>5, <3>6
    <3> QED
      BY <1>3, <3>1, <3>2, <3>7, <3>8
  <2>2. CASE th[t].op # "read"
    <3>1. file' = file
      BY <2>2, Zenon DEF Return
    <3> QED
      BY <1>3, <3>1
  <2> QED
    BY <2>1, <2>2, Zenon
<1>7. SType'
  <2>1. mounted' \in BOOLEAN
    BY <1>4
  <2> QED
    BY <1>3, <1>4, <1>5, <1>6, <2>1 DEF SType
<1>8. Roles'
  <2>1. th'[FsInit].op \in {"none", "mount"}
    <3>1. th[FsInit].op \in {"none", "mount"}
      BY Zenon DEF SInv, Roles
    <3> QED
      BY <1>1, <1>5, <3>1, IdleFacts
  <2>2. ASSUME NEW u \in Users
        PROVE  th'[u].op \in {"none", "lookup", "read"} /\ (th'[u].op = "read" => file'[u] # Null)
    <3>1. CASE u = t
      BY <1>5, <3>1, IdleFacts, Zenon
    <3>2. CASE u # t
      <4>1. th'[u] = th[u] /\ file'[u] = file[u]
        BY <1>1, <1>5, <1>6, <3>2
      <4> QED
        BY <4>1 DEF SInv, Roles
    <3> QED
      BY <3>1, <3>2
  <2> QED
    BY <1>2, <1>4, <2>1, <2>2 DEF Roles
<1>9. Mounting'
  <2>1. CASE t \in Users
    <3>1. mounted /\ mounted' /\ th'[FsInit] = th[FsInit]
      BY <1>1, <1>2, <1>4, <1>5, <2>1, Zenon
    <3>2. th[FsInit] = Idle /\ RootCached
      BY <3>1, Zenon DEF SInv, Mounting
    <3> QED
      BY <1>4, <3>1, <3>2 DEF Mounting, RootCached
  <2>2. CASE t = FsInit
    <3>1. ~mounted /\ th'[FsInit] = Idle /\ \A u \in Users : th'[u] = th[u]
      BY <1>1, <1>2, <1>5, <2>2
    <3>2. /\ \A u \in Users : th[u] = Idle /\ file[u] = Null
          /\ icache = <<>> \/ th[FsInit].res = "Ok"
          /\ th[FsInit].res = "Ok" => RootCached
      BY <1>1, <2>2, <3>1 DEF SInv, Mounting
    <3>3. \A u \in Users : th'[u] = Idle /\ file'[u] = Null
      BY <1>6, <3>1, <3>2
    <3>4. mounted' <=> th[FsInit].res = "Ok"
      BY <1>4, <2>2, <3>1, Zenon
    <3> QED
      BY <1>4, <3>1, <3>2, <3>3, <3>4, IdleFacts, Zenon DEF Mounting, RootCached
  <2> QED
    BY <1>2, <2>1, <2>2
<1>10. Coherent'
  <2>1. \A u \in Users : file'[u] # Null => file'[u].inode = InodeOf(part, file'[u].ino)
    BY <1>2, <1>6, Zenon DEF Coherent
  <2> QED
    BY <1>2, <1>4, <2>1, Zenon DEF Coherent
<1>11. Calls'
  <2>1. ASSUME NEW x \in Threads
        PROVE  /\ Job(part, th'[x]) /\ ErrorCause(part, th'[x])
               /\ th'[x].pc = "wait" => InBounds(part, th'[x].need)
    <3>1. CASE x = t
      BY <1>5, <3>1, IdleFacts, Zenon
    <3>2. CASE x # t
      BY <1>2, <1>5, <3>2, Zenon DEF Calls
    <3> QED
      BY <3>1, <3>2, Zenon
  <2>2. ASSUME NEW u \in Users, th'[u].op = "lookup", th'[u].pc = "done", th'[u].res = "Ok"
        PROVE  /\ file'[u].inode = InodeOf(part, file'[u].ino)
               /\ Named(part, InodeOf(part, RootInode), th'[u].name, file'[u].ino)
    <3>1. u # t
      BY <1>5, <2>2, IdleFacts, Zenon
    <3>2. th'[u] = th[u] /\ file'[u] = file[u]
      BY <1>1, <1>5, <1>6, <3>1
    <3> QED
      BY <1>2, <2>2, <3>2, Zenon DEF Calls
  <2> QED
    BY <1>4, <2>1, <2>2 DEF Calls
<1>12. Stampede'
  <2>1. /\ \A k \in Nat : Copies(bcache', k) <= Copies(bcache, k)
        /\ \A k \in Nat : Copies(icache', k) <= Copies(icache, k)
        /\ bcache' \in Seq(BSlot) /\ icache' \in Seq(ISlot)
    BY <1>3, <1>4, SameCopies
  <2>2. \A k \in Nat : Copies(bcache', k) + Cardinality(Waiters(th', k)) <= Cardinality(Users)
    BY <1>3, <1>4, <2>1, BlocksKept, IdleFacts, Zenon
  <2>3. \A k \in Nat : Copies(icache', k) + Cardinality(InodeReaders(th', k)) <= Cardinality(Users)
    BY <1>3, <1>4, <2>1, InodesKept, IdleFacts, Zenon
  <2> QED
    BY <2>2, <2>3 DEF Stampede
<1> QED
  BY <1>7, <1>8, <1>9, <1>10, <1>11, <1>12 DEF SInv

(* A call begins. *)
LEMMA CallBegins ==
  ASSUME CountingLaws,
         SInv, part # Null, NEW t \in Threads, th[t] = Idle, NEW s \in Call, th' = [th EXCEPT ![t] = s],
         Job(part, s), ErrorCause(part, s), s.pc # "wait", ~ReadsInode(s),
         t \in Users => /\ mounted /\ s.op \in {"lookup", "read"}
                        /\ s.op = "read" => file[t] # Null
                        /\ s.op = "lookup" => s.pc # "done",
         t \notin Users => ~mounted /\ s.op = "mount" /\ s.pc # "done",
         cpu' = t, UNCHANGED <<part, mounted, file, bcache, icache, errors>>
  PROVE  SInv'
<1>1. FsInit \in Threads /\ FsInit \notin Users /\ Users \subseteq Threads /\ (t \notin Users => t = FsInit)
  BY ThreadsFinite, Zenon DEF Threads
<1>2. SType /\ Roles /\ Mounting /\ Coherent /\ Calls /\ Stampede
  BY Zenon DEF SInv
<1>3. th \in [Threads -> Call] /\ bcache \in Seq(BSlot) /\ icache \in Seq(ISlot)
  BY <1>2, Zenon DEF SType
<1>4. /\ th' \in [Threads -> Call] /\ th'[t] = s /\ \A x \in Threads : x # t => th'[x] = th[x]
  BY <1>3, Zenon
<1>5. SType'
  BY <1>2, <1>4 DEF SType
<1>6. Roles'
  <2>1. th'[FsInit].op \in {"none", "mount"}
    BY <1>1, <1>2, <1>4 DEF Roles
  <2>2. ASSUME NEW u \in Users
        PROVE  th'[u].op \in {"none", "lookup", "read"} /\ (th'[u].op = "read" => file[u] # Null)
    <3>1. CASE u = t
      BY <1>4, <3>1
    <3>2. CASE u # t
      BY <1>1, <1>2, <1>4, <3>2 DEF Roles
    <3> QED
      BY <3>1, <3>2
  <2> QED
    BY <2>1, <2>2, Zenon DEF Roles
<1>7. Mounting'
  <2>1. CASE t \in Users
    <3>1. mounted /\ th'[FsInit] = th[FsInit]
      BY <1>1, <1>4, <2>1
    <3> QED
      BY <1>2, <3>1, Zenon DEF Mounting, RootCached
  <2>2. CASE t = FsInit
    <3>1. ~mounted /\ th'[FsInit].pc # "done" /\ \A u \in Users : th'[u] = th[u]
      BY <1>1, <1>4, <2>2
    <3>2. icache = <<>>
      BY <1>2, <2>2, <3>1, IdleFacts DEF Mounting
    <3> QED
      BY <1>2, <3>1, <3>2, Zenon DEF Mounting
  <2> QED
    BY <1>1, <2>1, <2>2
<1>8. Coherent'
  BY <1>2, Zenon DEF Coherent
<1>9. Calls'
  <2>1. ASSUME NEW x \in Threads
        PROVE  /\ Job(part, th'[x]) /\ ErrorCause(part, th'[x])
               /\ th'[x].pc = "wait" => InBounds(part, th'[x].need)
    <3>1. CASE x = t
      BY <1>4, <3>1
    <3>2. CASE x # t
      BY <1>2, <1>4, <3>2, Zenon DEF Calls
    <3> QED
      BY <3>1, <3>2, Zenon
  <2>2. ASSUME NEW u \in Users, th'[u].op = "lookup", th'[u].pc = "done", th'[u].res = "Ok"
        PROVE  /\ file[u].inode = InodeOf(part, file[u].ino)
               /\ Named(part, InodeOf(part, RootInode), th'[u].name, file[u].ino)
    <3>1. u # t
      BY <1>4, <2>2, Zenon
    <3>2. th'[u] = th[u]
      BY <1>1, <1>4, <3>1
    <3> QED
      BY <1>2, <2>2, <3>2, Zenon DEF Calls
  <2> QED
    BY <2>1, <2>2, Zenon DEF Calls
<1>10. Stampede'
  <2>1. /\ \A k \in Nat : Copies(bcache', k) <= Copies(bcache, k)
        /\ \A k \in Nat : Copies(icache', k) <= Copies(icache, k)
        /\ bcache' \in Seq(BSlot) /\ icache' \in Seq(ISlot)
    BY <1>2, <1>3, SameCopies
  <2>2. \A k \in Nat : Copies(bcache', k) + Cardinality(Waiters(th', k)) <= Cardinality(Users)
    BY <1>2, <2>1, BlocksKept, Zenon
  <2>3. \A k \in Nat : Copies(icache', k) + Cardinality(InodeReaders(th', k)) <= Cardinality(Users)
    BY <1>2, <2>1, InodesKept, Zenon
  <2> QED
    BY <2>2, <2>3, Zenon DEF Stampede
<1> QED
  BY <1>5, <1>6, <1>7, <1>8, <1>9, <1>10 DEF SInv

(* fs_init starts to mount the volume. *)
LEMMA MountStep ==
  ASSUME CountingLaws, SInv, Mount
  PROVE  SInv'
<1>1. /\ part # Null /\ ~mounted /\ th[FsInit] = Idle /\ cpu' = FsInit
      /\ th' = [th EXCEPT ![FsInit] = Fetch([Idle EXCEPT !.op = "mount"], "super", SuperblockSector)]
      /\ UNCHANGED <<part, mounted, file, bcache, icache, errors>>
  BY Zenon DEF Mount, Begin
<1>2. FsInit \in Threads /\ FsInit \notin Users
  BY ThreadsFinite
<1>3. PICK q : q = [Idle EXCEPT !.op = "mount"]
  BY Zenon
<1>4. q \in Call /\ q.op = "mount"
  <2>1. "mount" \in Ops
    BY Zenon DEF Ops
  <2> QED
    BY <1>3, <2>1, IdleFacts DEF Call
<1>5. PICK s : s = Fetch(q, "super", SuperblockSector)
  BY Zenon
<1>6. s \in Call /\ s.op = "mount" /\ s.pc = "get" /\ s.stage = "super"
  <2>1. "super" \in Stages /\ SuperblockSector \in Nat
    BY FirstSectors, Zenon DEF Stages
  <2> QED
    BY <1>4, <1>5, <2>1, FetchEffect DEF Same
<1>7. Job(part, s) /\ ErrorCause(part, s) /\ ~ReadsInode(s)
  BY <1>6 DEF Job, MountJob, ReadsInode, ErrorCause
<1>8. th' = [th EXCEPT ![FsInit] = s]
  BY <1>1, <1>3, <1>5
<1> QED
  BY <1>1, <1>2, <1>6, <1>7, <1>8, CallBegins, Zenon

(* A mounted volume is there, and what a cache finds for the root is the   *)
(* root directory.                                                         *)
LEMMA Mounted ==
  ASSUME SInv, mounted
  PROVE  part # Null /\ part \in parse_mbr(Mbr) /\ Coherent /\ Root = InodeOf(part, RootInode)
<1>1. part # Null
  BY Zenon DEF SInv, Roles
<1>2. part \in parse_mbr(Mbr) /\ Coherent
  BY <1>1, Zenon DEF SInv, SType
<1>3. \E i \in DOMAIN icache : icache[i].key = RootInode
  BY Zenon DEF SInv, Mounting, RootCached
<1>4. PICK i \in DOMAIN icache : icache[i].key = RootInode /\ Root = icache[i].inode
  BY <1>3, Zenon DEF Root
<1> QED
  BY <1>1, <1>2, <1>4 DEF Coherent

(* A lookup begins before the first block of the root directory. *)
LEMMA LookupStep ==
  ASSUME CountingLaws, SInv, NEW u \in Users, NEW name \in Names, Lookup(u, name)
  PROVE  SInv'
<1>1. PICK s : s = [Idle EXCEPT !.pc = "scan", !.op = "lookup", !.name = name, !.blocks = Root.blocks,
                                !.len = Root.len, !.boff = BlockSize]
  BY Zenon
<1>2. /\ mounted /\ th[u] = Idle /\ cpu' = u /\ th' = [th EXCEPT ![u] = s]
      /\ UNCHANGED <<part, mounted, file, bcache, icache, errors>>
  BY <1>1, Zenon DEF Lookup, Begin
<1>3. PICK root : root = Root
  BY Zenon
<1>4. part # Null /\ root = InodeOf(part, RootInode)
  BY <1>2, <1>3, Mounted
<1>5. root \in Inode
  BY <1>4, InodeType DEF RootInode
<1>6. root.len \in Nat /\ root.blocks \in Pointers
  BY <1>5, InodeFacts
<1>7. BlockSize \in Nat
  BY SizeFacts
<1>8. /\ s \in Call /\ s.op = "lookup" /\ s.pc = "scan" /\ s.name = name /\ s.blocks = root.blocks
      /\ s.len = root.len /\ s.boff = BlockSize /\ s.idx = 0 /\ s.bytes = 0
  <2>1. "scan" \in Pcs /\ "lookup" \in Ops /\ name \in SomeName
    BY StorageAssumption, Zenon DEF Pcs, Ops, SomeName
  <2> QED
    BY <1>1, <1>3, <1>6, <1>7, <2>1, IdleFacts, Zenon DEF Call
<1>9. Seen(part, root, s, 0, 0)
  BY DEF Seen
<1>10. LookupJob(part, root, s)
  <2>1. s.bytes <= s.idx * BlockSize /\ s.boff >= BlockSize /\ ~(s.boff < BlockSize)
    BY <1>7, <1>8
  <2>2. ~ReadsInode(s)
    BY <1>8 DEF ReadsInode
  <2> QED
    BY <1>8, <1>9, <2>1, <2>2, Zenon DEF LookupJob
<1>11. Job(part, s) /\ ErrorCause(part, s) /\ ~ReadsInode(s)
  BY <1>4, <1>8, <1>10, Zenon DEF Job, ErrorCause, ReadsInode
<1>12. u \in Threads
  BY ThreadsFinite
<1> QED
  BY <1>2, <1>4, <1>8, <1>11, <1>12, CallBegins, Zenon

(* A read begins at its offset, without a byte. *)
LEMMA ReadStep ==
  ASSUME CountingLaws,
         SInv, NEW u \in Users, NEW pos \in Seeks \cup {-1}, NEW size \in Sizes, Read(u, pos, size)
  PROVE  SInv'
<1>1. PICK f : f = file[u]
  BY Zenon
<1>2. PICK off : off = IF pos = -1 THEN f.off ELSE IF pos <= f.inode.len THEN pos ELSE f.inode.len
  BY Zenon
<1>3. PICK r : r = [Idle EXCEPT !.op = "read", !.blocks = f.inode.blocks, !.len = f.inode.len,
                                !.start = off, !.size = size, !.ino = f.ino]
  BY Zenon
<1>4. PICK s : s = ReadLoop(r, off)
  BY Zenon
<1>5. /\ f # Null /\ th[u] = Idle /\ cpu' = u /\ th' = [th EXCEPT ![u] = s]
      /\ UNCHANGED <<part, mounted, file, bcache, icache, errors>>
  BY <1>1, <1>2, <1>3, <1>4 DEF Read, Begin
<1>6. mounted
  BY <1>1, <1>5 DEF SInv, Mounting
<1>7. part # Null /\ Coherent
  BY <1>6, Mounted
<1>8. f \in Handle
  BY <1>1, <1>5 DEF SInv, SType
<1>9. PICK inode \in Inode : inode = f.inode
  BY <1>8, Zenon DEF Handle
<1>10. inode = InodeOf(part, f.ino)
  BY <1>1, <1>5, <1>7, <1>9, Zenon DEF Coherent
<1>11. inode.len \in Nat /\ inode.blocks \in Pointers
  BY <1>9, InodeFacts
<1>12. f.off \in Nat /\ f.ino \in Nat /\ size \in Nat /\ pos \in Nat \cup {-1}
  BY <1>8, StorageAssumption DEF Handle
<1>13. off \in Nat
  BY <1>2, <1>9, <1>11, <1>12
<1>14. /\ r \in Call /\ r.op = "read" /\ r.blocks = inode.blocks /\ r.len = inode.len /\ r.start = off
       /\ r.size = size /\ r.ino = f.ino /\ r.out = <<>>
  <2>1. "read" \in Ops
    BY Zenon DEF Ops
  <2> QED
    BY <1>3, <1>9, <1>11, <1>12, <1>13, <2>1, IdleFacts, Zenon DEF Call
<1>15. Len(r.out) = 0
  BY <1>14
<1>16. Delivered(part, inode, r) /\ off = r.start + Len(r.out)
  BY <1>12, <1>13, <1>14, <1>15 DEF Delivered
<1>17. Reading(part, inode, r, s)
  BY <1>4, <1>13, <1>14, <1>16, ReadLoopOK, Zenon
<1>18. s \in Call /\ s.op = "read" /\ s.pc # "wait" /\ ErrorCause(part, s)
  BY <1>17 DEF Reading, ErrorCause
<1>19. Job(part, s)
  BY <1>10, <1>14, <1>17, Zenon DEF Reading, Job
<1>20. ~ReadsInode(s)
  BY <1>18, <1>19, ReadersOnly
<1>21. u \in Threads
  BY ThreadsFinite
<1> QED
  BY <1>1, <1>5, <1>6, <1>7, <1>18, <1>19, <1>20, <1>21, CallBegins, Zenon

(* A file is closed when its process makes no other call. *)
LEMMA CloseStep ==
  ASSUME SInv, NEW u \in Users, Close(u)
  PROVE  SInv'
<1>1. /\ th[u] = Idle /\ file' = [file EXCEPT ![u] = Null]
      /\ UNCHANGED <<part, mounted, cpu, th, bcache, icache, errors>>
  BY Zenon DEF Close
<1>2. file \in [Users -> Handle \cup {Null}]
  BY Zenon DEF SInv, SType
<1>3. /\ file' \in [Users -> Handle \cup {Null}] /\ file'[u] = Null
      /\ \A v \in Users : v # u => file'[v] = file[v]
  BY <1>1, <1>2
<1>4. SType'
  BY <1>1, <1>3 DEF SInv, SType
<1>5. Roles'
  BY <1>1, <1>3, IdleFacts, Zenon DEF SInv, Roles
<1>6. Mounting'
  BY <1>1, <1>3 DEF SInv, Mounting, RootCached
<1>7. part # Null => Coherent'
  BY <1>1, <1>3, Zenon DEF SInv, Coherent
<1>8. part # Null => Calls'
  BY <1>1, <1>3, IdleFacts, Zenon DEF SInv, Calls
<1>9. Stampede'
  BY <1>1, Zenon DEF SInv, Stampede
<1> QED
  BY <1>1, <1>4, <1>5, <1>6, <1>7, <1>8, <1>9 DEF SInv

(* The partition appears while nothing uses it. *)
LEMMA BlockInitStep ==
  ASSUME CountingLaws, SInv, BlockInit
  PROVE  SInv'
<1>1. /\ part = Null /\ part' \in {p \in parse_mbr(Mbr) : p.number = 2}
      /\ UNCHANGED <<mounted, cpu, th, file, bcache, icache, errors>>
  BY Zenon DEF BlockInit
<1>2. ~mounted /\ bcache = <<>> /\ icache = <<>> /\ \A t \in Threads : th[t] = Idle
  BY <1>1, Zenon DEF SInv, Roles
<1>3. \A u \in Users : file[u] = Null
  BY <1>2 DEF SInv, Mounting
<1>4. SType'
  BY <1>1 DEF SInv, SType
<1>5. Roles'
  BY <1>1, <1>2 DEF SInv, Roles
<1>6. Mounting'
  <2>1. Mounting /\ (RootCached => RootCached')
    BY <1>1, Zenon DEF SInv, RootCached
  <2> QED
    BY <1>1, <2>1 DEF Mounting
<1>7. Coherent'
  BY <1>1, <1>2, <1>3 DEF Coherent
<1>8. Calls'
  <2>1. Users \subseteq Threads
    BY ThreadsFinite
  <2> QED
    BY <1>1, <1>2, <2>1, IdleFacts, Zenon DEF Calls
<1>9. Stampede'
  BY <1>1 DEF SInv, Stampede
<1> QED
  BY <1>4, <1>5, <1>6, <1>7, <1>8, <1>9 DEF SInv

-----------------------------------------------------------------------------
(***************************************************************************)
(* The invariant.                                                          *)
(***************************************************************************)
(* Before the disk is there, nothing is cached and no thread has a call. *)
LEMMA InitSInv ==
  ASSUME CountingLaws
  PROVE  Init => SInv
<1> SUFFICES ASSUME Init PROVE SInv
  BY Zenon
<1>1. /\ part = Null /\ mounted = FALSE /\ cpu = Null /\ th = [t \in Threads |-> Idle]
      /\ file = [u \in Users |-> Null] /\ bcache = <<>> /\ icache = <<>> /\ errors = 0
  BY Zenon DEF Init
<1>2. /\ FsInit \in Threads /\ Users \subseteq Threads
      /\ Cardinality(Users) \in Nat
  BY ThreadsFinite, Zenon
<1>3. \A t \in Threads : th[t] = Idle
  BY <1>1, Zenon
<1>4. \A u \in Users : th[u] = Idle /\ file[u] = Null
  BY <1>1, <1>2, <1>3
<1>5. SType
  <2>1. th \in [Threads -> Call] /\ file \in [Users -> Handle \cup {Null}]
    BY <1>1, IdleFacts
  <2>2. bcache \in Seq(BSlot) /\ icache \in Seq(ISlot)
    BY <1>1
  <2> QED
    BY <1>1, <2>1, <2>2, Zenon DEF SType
<1>6. Roles
  BY <1>1, <1>2, <1>3, <1>4, IdleFacts, Zenon DEF Roles
<1>7. Mounting
  BY <1>1, <1>2, <1>3, <1>4, IdleFacts, Zenon DEF Mounting
<1>8. ASSUME NEW k \in Nat
      PROVE  /\ Copies(bcache, k) + Cardinality(Waiters(th, k)) <= Cardinality(Users)
             /\ Copies(icache, k) + Cardinality(InodeReaders(th, k)) <= Cardinality(Users)
  <2>1. ~Holds(bcache, k) /\ ~Holds(icache, k)
    BY <1>1 DEF Holds
  <2>2. Copies(bcache, k) = 0 /\ Copies(icache, k) = 0
    BY <2>1, NoCopies
  <2>3. Waiters(th, k) = {} /\ InodeReaders(th, k) = {}
    BY <1>3, <1>4, IdleFacts DEF Waiters, InodeReaders
  <2>4. Cardinality(Waiters(th, k)) = 0 /\ Cardinality(InodeReaders(th, k)) = 0
    BY <2>3, SizeZero
  <2> QED
    BY <1>2, <2>2, <2>4
<1>9. Stampede
  BY <1>8 DEF Stampede
<1> QED
  BY <1>1, <1>5, <1>6, <1>7, <1>9 DEF SInv

(* Every step keeps the invariant. *)
LEMMA NextSInv ==
  ASSUME CountingLaws
  PROVE  SInv /\ [Next]_vars => SInv'
<1> SUFFICES ASSUME SInv, [Next]_vars PROVE SInv'
  BY Zenon
<1>1. CASE BlockInit
  BY <1>1, BlockInitStep
<1>2. CASE Mount
  BY <1>2, MountStep
<1>3. CASE \E u \in Users, n \in Names : Lookup(u, n)
  BY <1>3, LookupStep
<1>4. CASE \E u \in Users, pos \in Seeks \cup {-1}, s \in Sizes : Read(u, pos, s)
  BY <1>4, ReadStep
<1>5. CASE \E u \in Users : Close(u)
  BY <1>5, CloseStep
<1>6. CASE \E t \in Threads : Step(t)
  <2>1. PICK t \in Threads : Step(t)
    BY <1>6
  <2>2. t \in Users \/ t = FsInit
    BY DEF Threads
  <2>3. CASE get_block(t)
    BY <2>3, GetBlockStep
  <2>4. CASE ResumeFilled(t)
    BY <2>4, ResumeFilledStep
  <2>5. CASE ResumeFailed(t)
    BY <2>5, ResumeFailedStep, Zenon
  <2>6. CASE ScanDirectory(t)
    BY <2>6, ScanStep, Zenon
  <2>7. CASE get_or_read_inode(t)
    BY <2>7, GetInodeStep, Zenon
  <2>8. CASE GotInode(t)
    BY <2>2, <2>8, GotInodeStep, GotRootStep
  <2>9. CASE Return(t)
    BY <2>9, ReturnStep, Zenon
  <2> QED
    BY <2>1, <2>3, <2>4, <2>5, <2>6, <2>7, <2>8, <2>9 DEF Step
<1>7. CASE UNCHANGED vars
  <2>1. UNCHANGED <<part, mounted, cpu, th, file, bcache, icache, errors>>
    BY <1>7, Zenon DEF vars
  <2>2. SType' /\ Roles'
    BY <2>1 DEF SInv, SType, Roles
  <2>3. Mounting'
    BY <2>1, Zenon DEF SInv, Mounting, RootCached
  <2>4. part # Null => Coherent' /\ Calls'
    BY <2>1, Zenon DEF SInv, Coherent, Calls
  <2>5. Stampede'
    BY <2>1 DEF SInv, Stampede
  <2> QED
    BY <2>1, <2>2, <2>3, <2>4, <2>5 DEF SInv
<1> QED
  BY <1>1, <1>2, <1>3, <1>4, <1>5, <1>6, <1>7 DEF Next

-----------------------------------------------------------------------------
INSTANCE FiniteSetTheorems

(* The laws that the counts rest on are theorems of the library. *)
LEMMA Laws == CountingLaws
<1>1. LeastElement
  <2> SUFFICES ASSUME NEW S \in SUBSET Nat, S # {} PROVE \E x \in S : \A y \in S : x <= y
    BY Zenon DEF LeastElement
  <2> DEFINE R == OpToRel(<, Nat)
  <2>1. IsWellFoundedOn(R, Nat)
    BY NatLessThanWellFounded, Zenon
  <2>2. PICK x \in S : \A y \in S : ~(<<y, x>> \in R)
    <3> HIDE DEF R
    <3> QED
      BY <2>1, WFMin, Zenon
  <2>3. \A y \in S : ~(y < x)
    BY <2>2, Zenon DEF OpToRel
  <2> QED
    BY <2>3
<1>2. CardinalityNat /\ CardinalityZero
  BY FS_CardinalityType, FS_EmptySet, Zenon DEF CardinalityNat, CardinalityZero
<1>3. CardinalityAdd /\ CardinalityRemove
  BY FS_AddElement, FS_RemoveElement, Zenon DEF CardinalityAdd, CardinalityRemove
<1>4. CardinalitySubset /\ FiniteUnion /\ CardinalityInterval
  BY FS_Subset, FS_Union, FS_Interval, Zenon DEF CardinalitySubset, FiniteUnion, CardinalityInterval
<1>5. CardinalityInto
  BY FS_Injection, Zenon DEF CardinalityInto, Injection, IsInjective
<1>6. CardinalityOnto
  <2> SUFFICES ASSUME NEW S, NEW T, NEW f \in [S -> T], IsFiniteSet(S),
                      \A y \in T : \E x \in S : f[x] = y
               PROVE  IsFiniteSet(T) /\ Cardinality(T) <= Cardinality(S)
    BY Zenon DEF CardinalityOnto
  <2>1. f \in Surjection(S, T)
    BY DEF Surjection
  <2> QED
    BY <2>1, FS_Surjection, Zenon
<1> QED
  BY <1>1, <1>2, <1>3, <1>4, <1>5, <1>6, Zenon DEF CountingLaws

(* Every call, the caches and the open files agree with the disk, at every *)
(* moment.                                                                 *)
THEOREM StorageInvariant == Spec => []SInv
<1>1. Init => SInv
  BY Laws, InitSInv
<1>2. SInv /\ [Next]_vars => SInv'
  BY Laws, NextSInv
<1> QED
  BY <1>1, <1>2, PTL DEF Spec

-----------------------------------------------------------------------------
(***************************************************************************)
(* What a read returns.                                                    *)
(***************************************************************************)
(* Storage: a read that is through has returned the file's bytes from its  *)
(* offset on, up to the length asked for, the end of the file or its first *)
(* hole; a failed one a prefix of them, for the disk failed a read of this *)
(* call or the next byte lies behind a block at the partition's edge.      *)
THEOREM ReadsDeliver == Spec => []ReadDelivers
<1>1. SInv => ReadDelivers
  <2> SUFFICES ASSUME SInv, NEW u \in Users, Finished(u, "read")
               PROVE  LET r == th[u]
                          inode == InodeOf(part, r.ino)
                      IN /\ Returned(part, inode, r)
                         /\ r.res = "Err" => \/ r.ioerr
                                           \/ Barred(part, inode, (r.start + Len(r.out)) \div BlockSize + 1)
    BY Zenon DEF ReadDelivers, Returned, Wanted, EndOf
  <2>1. PICK r : r = th[u]
    BY Zenon
  <2>2. r.pc = "done" /\ r.op = "read"
    BY <2>1 DEF Finished
  <2>3. u \in Threads
    BY Laws, ThreadsFinite
  <2>4. part # Null /\ Calls /\ r \in Call
    BY <2>1, <2>2, <2>3, Busy, Zenon
  <2>5. PICK inode : inode = InodeOf(part, r.ino)
    BY Zenon
  <2>6. r.ino \in Nat
    BY <2>4 DEF Call
  <2>7. inode \in Inode
    BY <2>5, <2>6, InodeType
  <2>8. ReadJob(part, inode, r) /\ ErrorCause(part, r)
    BY <2>1, <2>2, <2>3, <2>4, <2>5, Zenon DEF Calls, Job
  <2>9. Returned(part, inode, r)
    BY <2>2, <2>4, <2>7, <2>8, Laws, ReadDone
  <2>10. r.res = "Err" => r.ioerr \/ Barred(part, inode, (r.start + Len(r.out)) \div BlockSize + 1)
    BY <2>2, <2>5, <2>8, Zenon DEF ErrorCause
  <2> QED
    BY <2>1, <2>5, <2>9, <2>10, Zenon
<1> QED
  BY <1>1, StorageInvariant, PTL

-----------------------------------------------------------------------------
(***************************************************************************)
(* What a lookup finds.                                                    *)
(***************************************************************************)
(* The entry of a directory that gives a name its inode. *)
LEMMA NamedEntry ==
  ASSUME NEW p, NEW inode, NEW name, NEW ino, Named(p, inode, name, ino)
  PROVE  \E d \in EntriesOf(p, inode) : d.name = name /\ d.ino = ino
<1>1. PICK i, x : NameAt(p, inode, name, i, x) /\ DirAt[SectorOf(p, BlockOf(p, inode, i))][x].ino = ino
  BY Zenon DEF Named
<1>2. PICK d : d = DirAt[SectorOf(p, BlockOf(p, inode, i))][x]
  BY Zenon
<1>3. d \in EntriesOf(p, inode) /\ d.name = name
  <2>1. /\ DirAt[SectorOf(p, BlockOf(p, inode, i))][x] \in EntriesOf(p, inode)
        /\ DirAt[SectorOf(p, BlockOf(p, inode, i))][x].name = name
    BY <1>1, EntryAt
  <2> QED
    BY <1>2, <2>1, Zenon
<1> QED
  BY <1>1, <1>2, <1>3, Zenon

(* Storage: a lookup finds the inode that the root directory gives the     *)
(* name, and says NotFound of a name that is there only for a failed read  *)
(* or a block at the partition's edge, on every volume whose root          *)
(* directory is not damaged.                                               *)
THEOREM LookupsFind ==
  ASSUME \A p \in parse_mbr(Mbr) : p.number = 2 => Intact(p, InodeOf(p, RootInode))
  PROVE  Spec => []LookupFinds
<1>1. SInv => LookupFinds
  <2> SUFFICES ASSUME SInv, NEW u \in Users, Finished(u, "lookup")
               PROVE  LET root == InodeOf(part, RootInode)
                          named == {e \in EntriesOf(part, root) : e.name = th[u].name}
                      IN /\ th[u].res = "Ok" => /\ file[u].ino \in {e.ino : e \in named}
                                                /\ file[u].inode = InodeOf(part, file[u].ino)
                         /\ th[u].res = "NotFound" =>
                              \/ named = {} \/ th[u].ioerr
                              \/ \E k \in DOMAIN AllBlocks(part, root) : Barred(part, root, k)
                              \/ \E e \in named : OnEdge(part, InodeBlock(e.ino))
    BY Zenon DEF LookupFinds
  <2>1. PICK root : root = InodeOf(part, RootInode)
    BY Zenon
  <2>2. PICK name : name = th[u].name
    BY Zenon
  <2>3. PICK named : named = {e \in EntriesOf(part, root) : e.name = name}
    BY Zenon
  <2>4. th[u].pc = "done" /\ th[u].op = "lookup" /\ u \in Threads
    BY Laws, ThreadsFinite, Zenon DEF Finished
  <2>5. part # Null /\ Calls
    BY <2>4, Busy, Zenon
  <2>6. part \in parse_mbr(Mbr) /\ part.number = 2
    BY <2>5 DEF SInv, SType
  <2>7. Intact(part, root)
    BY <2>1, <2>6
  <2>8. LookupJob(part, root, th[u])
    BY <2>1, <2>4, <2>5, Zenon DEF Calls, Job
  <2>9. ASSUME th[u].res = "Ok"
        PROVE  file[u].ino \in {e.ino : e \in named} /\ file[u].inode = InodeOf(part, file[u].ino)
    <3>1. Named(part, root, name, file[u].ino) /\ file[u].inode = InodeOf(part, file[u].ino)
      BY <2>1, <2>2, <2>4, <2>5, <2>9, Zenon DEF Calls
    <3>2. PICK d \in EntriesOf(part, root) : d.name = name /\ d.ino = file[u].ino
      BY <3>1, NamedEntry
    <3>3. d \in named
      BY <2>3, <3>2, Zenon
    <3> QED
      BY <3>1, <3>2, <3>3, Zenon
  <2>10. ASSUME th[u].res = "NotFound"
         PROVE  \/ named = {} \/ th[u].ioerr
                \/ \E k \in DOMAIN AllBlocks(part, root) : Barred(part, root, k)
                \/ \E e \in named : OnEdge(part, InodeBlock(e.ino))
    <3>1. Absent(part, root, name) \/ Stopped(part, root, th[u])
      BY <2>2, <2>4, <2>7, <2>8, <2>10, Zenon DEF LookupJob
    <3>2. CASE Absent(part, root, name)
      BY <2>3, <3>2, EntryPlaces, Zenon DEF Absent
    <3>3. CASE \E k \in 1..Total : Barred(part, root, k)
      <4>1. DOMAIN AllBlocks(part, root) = 1..Total
        BY Zenon DEF AllBlocks, Total
      <4> QED
        BY <3>3, <4>1, Zenon
    <3>4. CASE \E ino \in Nat : Named(part, root, name, ino) /\ OnEdge(part, InodeBlock(ino))
      <4>1. PICK ino \in Nat : Named(part, root, name, ino) /\ OnEdge(part, InodeBlock(ino))
        BY <3>4, Zenon
      <4>2. PICK d \in EntriesOf(part, root) : d.name = name /\ d.ino = ino
        BY <4>1, NamedEntry
      <4>3. d \in named
        BY <2>3, <4>2, Zenon
      <4> QED
        BY <4>1, <4>2, <4>3, Zenon
    <3> QED
      BY <2>2, <3>1, <3>2, <3>3, <3>4, Zenon DEF Stopped
  <2> QED
    BY <2>1, <2>2, <2>3, <2>9, <2>10
<1> QED
  BY <1>1, StorageInvariant, PTL

-----------------------------------------------------------------------------
(***************************************************************************)
(* The caches stay bounded.                                                *)
(***************************************************************************)
(* Storage: a stampede on a block or an inode never leaves more copies of  *)
(* it than there are processes, those still reading counted.               *)
THEOREM StampedesBounded == Spec => []StampedeBounded
<1>1. SInv => StampedeBounded
  <2> SUFFICES ASSUME SInv PROVE StampedeBounded
    BY Zenon
  <2>1. th \in [Threads -> Call] /\ icache \in Seq(ISlot) /\ Stampede
    BY Zenon DEF SInv, SType
  <2>2. \A t \in Threads : th[t].need \in Nat
    BY <2>1 DEF Call
  <2>3. \A i \in DOMAIN icache : icache[i].key \in Nat
    <3>1. \A i \in DOMAIN icache : icache[i] \in ISlot
      BY <2>1
    <3> QED
      BY <3>1 DEF ISlot
  <2>4. ASSUME NEW k \in Nat
        PROVE  /\ Cardinality({i \in DOMAIN bcache : bcache[i].key = k})
                    + Cardinality({t \in Threads : th[t].pc = "wait" /\ th[t].need = k})
                    <= Cardinality(Users)
               /\ Cardinality({i \in DOMAIN icache : icache[i].key = k}) <= Cardinality(Users)
    <3>1. /\ Copies(bcache, k) + Cardinality(Waiters(th, k)) <= Cardinality(Users)
          /\ Copies(icache, k) + Cardinality(InodeReaders(th, k)) <= Cardinality(Users)
      BY <2>1 DEF Stampede
    <3>2. Copies(icache, k) \in Nat /\ Cardinality(Users) \in Nat
      BY <2>1, Laws, CopiesType, ThreadsFinite, Zenon
    <3>3. Cardinality(InodeReaders(th, k)) \in Nat
      BY Laws, ThreadsFinite, SizeSubset, SizeNat DEF InodeReaders
    <3>4. Copies(icache, k) <= Cardinality(Users)
      BY <3>1, <3>2, <3>3
    <3> QED
      BY <3>1, <3>4, Zenon DEF Copies, Waiters
  <2> QED
    BY <2>2, <2>3, <2>4, Zenon DEF StampedeBounded
<1> QED
  BY <1>1, StorageInvariant, PTL

(* Storage: an insert leaves a cache within its capacity unless every slot *)
(* it kept is pinned.                                                      *)
THEOREM CachesBounded == Spec => CacheBounded
<1> DEFINE Bounded ==
      /\ (\E t \in Threads : ResumeFilled(t)) =>
           \/ Len(bcache') <= CACHE_CAPACITY
           \/ \A i \in 2..Len(bcache') : bcache'[i].id \in HeldBufs(th)
      /\ (\E t \in Threads : GotInode(t)) =>
           \/ Len(icache') <= INODE_CACHE_CAPACITY
           \/ \A i \in 2..Len(icache') : icache'[i].id \in HeldInodes
<1>1. ASSUME SInv, NEW t \in Threads, ResumeFilled(t)
      PROVE  Len(bcache') <= CACHE_CAPACITY \/ \A i \in 2..Len(bcache') : bcache'[i].id \in HeldBufs(th)
  <2>1. bcache \in Seq(BSlot) /\ CACHE_CAPACITY \in Nat
    BY <1>1, StorageAssumption DEF SInv, SType
  <2>2. PICK x : bcache' = Insert(bcache, x, CACHE_CAPACITY, HeldBufs(th))
    BY <1>1 DEF ResumeFilled
  <2>3. PICK S : S = BSlot \cup {x}
    BY Zenon
  <2>4. bcache \in Seq(S) /\ x \in S
    BY <2>1, <2>3
  <2>5. Inserted(S, bcache, x, CACHE_CAPACITY, HeldBufs(th), bcache')
    BY <2>1, <2>2, <2>3, <2>4, Laws, InsertFacts, Zenon
  <2> QED
    BY <2>5, Zenon DEF Inserted
<1>2. ASSUME SInv, NEW t \in Threads, GotInode(t)
      PROVE  \/ Len(icache') <= INODE_CACHE_CAPACITY
             \/ \A i \in 2..Len(icache') : icache'[i].id \in HeldInodes
  <2>1. icache \in Seq(ISlot) /\ INODE_CACHE_CAPACITY \in Nat
    BY <1>2, StorageAssumption DEF SInv, SType
  <2>2. PICK x : icache' = Insert(icache, x, INODE_CACHE_CAPACITY, HeldInodes)
    BY <1>2 DEF GotInode
  <2>3. PICK S : S = ISlot \cup {x}
    BY Zenon
  <2>4. icache \in Seq(S) /\ x \in S
    BY <2>1, <2>3
  <2>5. Inserted(S, icache, x, INODE_CACHE_CAPACITY, HeldInodes, icache')
    BY <2>1, <2>2, <2>3, <2>4, Laws, InsertFacts, Zenon
  <2> QED
    BY <2>5, Zenon DEF Inserted
<1>3. SInv => Bounded
  BY <1>1, <1>2
<1> HIDE DEF Bounded
<1>4. SInv /\ [Next]_vars => [Bounded]_vars
  BY <1>3
<1>5. Spec => [][Bounded]_vars
  BY <1>4, StorageInvariant, PTL DEF Spec
<1> QED
  BY <1>5 DEF CacheBounded, Bounded

=============================================================================
