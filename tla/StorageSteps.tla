---------------------------- MODULE StorageSteps ----------------------------
(***************************************************************************)
(* The inductive invariant of Storage, and the steps of a call that is     *)
(* waiting for a block: the block cache, the disk and the inode cache give *)
(* it what it asked for.                                                   *)
(***************************************************************************)
EXTENDS Storage, StorageLemmas

-----------------------------------------------------------------------------
(***************************************************************************)
(* The inductive invariant.                                                *)
(***************************************************************************)
BSlot == [key : Nat, id : Nat, at : Nat]
ISlot == [key : Nat, id : Nat, inode : Inode]
Handle == [id : Nat, ino : Nat, inode : Inode, off : Nat]

SType ==
  /\ part \in {p \in parse_mbr(Mbr) : p.number = 2} \cup {Null}
  /\ mounted \in BOOLEAN /\ cpu \in Threads \cup {Null}
  /\ th \in [Threads -> Call]
  /\ file \in [Users -> Handle \cup {Null}]
  /\ bcache \in Seq(BSlot) /\ icache \in Seq(ISlot)
  /\ errors \in Nat

\* Every thread does its own kind of call; nothing before the disk is there.
Roles ==
  /\ th[FsInit].op \in {"none", "mount"}
  /\ \A u \in Users : /\ th[u].op \in {"none", "lookup", "read"}
                      /\ th[u].op = "read" => file[u] # Null
  /\ part = Null => /\ ~mounted /\ bcache = <<>> /\ icache = <<>>
                    /\ \A t \in Threads : th[t] = Idle

RootCached == \E i \in DOMAIN icache : icache[i].key = RootInode /\ icache[i].id = 1

Mounting ==
  /\ ~mounted => \A u \in Users : th[u] = Idle /\ file[u] = Null
  /\ ~mounted => icache = <<>> \/ (th[FsInit].pc = "done" /\ th[FsInit].res = "Ok")
  /\ mounted => th[FsInit] = Idle /\ RootCached
  /\ th[FsInit].pc = "done" /\ th[FsInit].res = "Ok" => RootCached

Coherent ==
  /\ \A i \in DOMAIN bcache : bcache[i].at = At(part, bcache[i].key)
  /\ \A i \in DOMAIN icache : icache[i].inode = InodeOf(part, icache[i].key)
  /\ \A u \in Users : file[u] # Null => file[u].inode = InodeOf(part, file[u].ino)

Calls ==
  /\ \A t \in Threads : /\ Job(part, th[t]) /\ ErrorCause(part, th[t])
                        /\ th[t].pc = "wait" => InBounds(part, th[t].need)
  /\ \A u \in Users : th[u].op = "lookup" /\ th[u].pc = "done" /\ th[u].res = "Ok" =>
       /\ file[u].inode = InodeOf(part, file[u].ino)
       /\ Named(part, InodeOf(part, RootInode), th[u].name, file[u].ino)

Waiters(ts, k) == {t \in Threads : ts[t].pc = "wait" /\ ts[t].need = k}
InodeReaders(ts, k) == {u \in Users : ReadsInode(ts[u]) /\ ts[u].ino = k}

\* fs_init waits for the disk, or the processes do.
OneSide(ts) == ts[FsInit].pc # "wait" \/ \A u \in Users : ts[u].pc # "wait"

Stampede ==
  /\ \A k \in Nat : Copies(bcache, k) + Cardinality(Waiters(th, k)) <= Cardinality(Users)
  /\ \A k \in Nat : Copies(icache, k) + Cardinality(InodeReaders(th, k)) <= Cardinality(Users)

SInv == SType /\ Roles /\ Mounting /\ (part # Null => Coherent /\ Calls) /\ Stampede
-----------------------------------------------------------------------------
(***************************************************************************)
(* Counting threads.                                                       *)
(***************************************************************************)
(* There are finitely many threads, and some process. *)
LEMMA ThreadsFinite ==
  ASSUME CountingLaws
  PROVE  /\ IsFiniteSet(Users) /\ IsFiniteSet(Threads) /\ Users \subseteq Threads
  /\ Cardinality(Users) \in Nat /\ Cardinality(Users) >= 1 /\ Cardinality(Threads) \in Nat
  /\ FsInit \in Threads /\ FsInit \notin Users
<1>1. IsFiniteSet(Users) /\ Users # {} /\ FsInit \notin Users
  BY StorageAssumption, Zenon
<1>2. IsFiniteSet(Threads)
  BY <1>1, SizeAdd, Zenon DEF Threads
<1>3. PICK u : u \in Users
  BY <1>1, Zenon
<1>4. Cardinality(Users) \in Nat /\ Cardinality(Threads) \in Nat
  BY <1>1, <1>2, SizeNat
<1>5. Cardinality(Users) >= 1
  <2>1. PICK E : E = {} /\ Cardinality(E) = 0
    BY SizeZero, Zenon
  <2>2. E \subseteq Users /\ u \notin E
    BY <2>1, Zenon
  <2>3. Cardinality(E) + 1 <= Cardinality(Users)
    BY <1>1, <1>3, <2>2, CountLess
  <2> QED
    BY <1>4, <2>1, <2>3
<1> QED
  BY <1>1, <1>2, <1>4, <1>5 DEF Threads

(* Who waits for a block after a thread has moved. *)
LEMMA WaitersMove ==
  ASSUME CountingLaws,
         NEW ts \in [Threads -> Call], NEW t \in Threads, NEW s, NEW us, us = [ts EXCEPT ![t] = s],
         NEW k
  PROVE  /\ Cardinality(Waiters(us, k)) \in Nat /\ Cardinality(Waiters(ts, k)) \in Nat
         /\ OneSide(us) => Cardinality(Waiters(us, k)) <= Cardinality(Users)
         /\ s.pc # "wait" \/ s.need # k =>
              /\ Cardinality(Waiters(us, k)) <= Cardinality(Waiters(ts, k))
              /\ ts[t].pc = "wait" /\ ts[t].need = k =>
                   Cardinality(Waiters(us, k)) + 1 <= Cardinality(Waiters(ts, k))
<1>1. PICK A : A = Waiters(us, k)
  BY Zenon
<1>2. PICK B : B = Waiters(ts, k)
  BY Zenon
<1>3. A \subseteq Threads /\ B \subseteq Threads
  BY <1>1, <1>2, Zenon DEF Waiters
<1>4. IsFiniteSet(A) /\ IsFiniteSet(B) /\ Cardinality(A) \in Nat /\ Cardinality(B) \in Nat
  BY <1>3, ThreadsFinite, CountLess
<1>5. ASSUME s.pc # "wait" \/ s.need # k PROVE A \subseteq B /\ t \notin A
  <2>1. us[t] = s /\ \A x \in Threads : x # t => us[x] = ts[x]
    BY Zenon
  <2> QED
    BY <1>1, <1>2, <1>5, <2>1 DEF Waiters
<1>6. ts[t].pc = "wait" /\ ts[t].need = k => t \in B
  BY <1>2, Zenon DEF Waiters
<1>7. ASSUME s.pc # "wait" \/ s.need # k
      PROVE  /\ Cardinality(A) <= Cardinality(B)
             /\ t \in B => Cardinality(A) + 1 <= Cardinality(B)
  BY <1>4, <1>5, <1>7, CountLess
<1>8. ASSUME OneSide(us) PROVE Cardinality(A) <= Cardinality(Users)
  <2>1. CASE us[FsInit].pc # "wait"
    <3>1. A \subseteq Users
      BY <1>1, <2>1, Zenon DEF Waiters, Threads
    <3> QED
      BY <3>1, ThreadsFinite, CountLess
  <2>2. CASE \A u \in Users : us[u].pc # "wait"
    <3>1. A \subseteq {} \cup {FsInit}
      BY <1>1, <2>2, Zenon DEF Waiters, Threads
    <3>2. PICK E : E = {} /\ IsFiniteSet(E) /\ Cardinality(E) = 0
      BY SizeZero, Zenon
    <3>3. IsFiniteSet(E \cup {FsInit}) /\ Cardinality(E \cup {FsInit}) = 1
      BY <3>2, SizeAdd
    <3>4. Cardinality(A) <= 1
      BY <3>1, <3>2, <3>3, CountLess
    <3> QED
      BY <1>4, <3>4, ThreadsFinite
  <2> QED
    BY <1>8, <2>1, <2>2, Zenon DEF OneSide
<1> QED
  BY <1>1, <1>2, <1>4, <1>6, <1>7, <1>8

(* Who reads an inode after a thread has moved. *)
LEMMA ReadersMove ==
  ASSUME CountingLaws,
         NEW ts \in [Threads -> Call], NEW t \in Threads, NEW s, NEW us, us = [ts EXCEPT ![t] = s],
         NEW k
  PROVE  /\ Cardinality(InodeReaders(us, k)) \in Nat /\ Cardinality(InodeReaders(ts, k)) \in Nat
         /\ Cardinality(InodeReaders(us, k)) <= Cardinality(Users)
         /\ t \notin Users \/ ~ReadsInode(s) \/ s.ino # k \/ (ReadsInode(ts[t]) /\ s.ino = ts[t].ino) =>
              Cardinality(InodeReaders(us, k)) <= Cardinality(InodeReaders(ts, k))
         /\ ~ReadsInode(s) /\ t \in Users /\ ReadsInode(ts[t]) /\ ts[t].ino = k =>
              Cardinality(InodeReaders(us, k)) + 1 <= Cardinality(InodeReaders(ts, k))
<1>1. PICK A : A = InodeReaders(us, k)
  BY Zenon
<1>2. PICK B : B = InodeReaders(ts, k)
  BY Zenon
<1>3. A \subseteq Users /\ B \subseteq Users /\ Users \subseteq Threads
  BY <1>1, <1>2, ThreadsFinite DEF InodeReaders
<1>4. IsFiniteSet(A) /\ IsFiniteSet(B) /\ Cardinality(A) \in Nat /\ Cardinality(B) \in Nat
      /\ Cardinality(A) <= Cardinality(Users)
  BY <1>3, ThreadsFinite, CountLess
<1>5. us[t] = s /\ \A x \in Threads : x # t => us[x] = ts[x]
  BY Zenon
<1>6. ASSUME t \notin Users \/ ~ReadsInode(s) \/ s.ino # k \/ (ReadsInode(ts[t]) /\ s.ino = ts[t].ino)
      PROVE  Cardinality(A) <= Cardinality(B)
  <2>1. A \subseteq B
    BY <1>1, <1>2, <1>3, <1>5, <1>6 DEF InodeReaders
  <2> QED
    BY <1>4, <2>1, CountLess
<1>7. ASSUME ~ReadsInode(s), t \in Users, ReadsInode(ts[t]), ts[t].ino = k
      PROVE  Cardinality(A) + 1 <= Cardinality(B)
  <2>1. A \subseteq B /\ t \in B /\ t \notin A
    BY <1>1, <1>2, <1>3, <1>5, <1>7 DEF InodeReaders
  <2> QED
    BY <1>4, <2>1, CountLess, Zenon
<1> QED
  BY <1>1, <1>2, <1>4, <1>6, <1>7

-----------------------------------------------------------------------------
(***************************************************************************)
(* A new Arc.                                                              *)
(***************************************************************************)
(* There is always a number that is not in use. *)
LEMMA FreshNat ==
  ASSUME CountingLaws, NEW used, IsFiniteSet(used)
  PROVE  FreshId(used) \in Nat
<1>1. PICK n \in Nat : n = Cardinality(used)
  BY SizeNat, Zenon
<1>2. IsFiniteSet(1..(n + 1)) /\ Cardinality(1..(n + 1)) = n + 1
  <2>1. IsFiniteSet(1..(n + 1)) /\ Cardinality(1..(n + 1)) = IF 1 > n + 1 THEN 0 ELSE (n + 1) - 1 + 1
    BY SizeInterval
  <2> QED
    BY <2>1
<1>3. ~(1..(n + 1) \subseteq used)
  <2> SUFFICES ASSUME 1..(n + 1) \subseteq used PROVE FALSE
    BY Zenon
  <2>1. Cardinality(1..(n + 1)) <= Cardinality(used)
    BY SizeSubset, Zenon
  <2> QED
    BY <1>1, <1>2, <2>1
<1>4. \E i \in 1..(n + 1) : i \notin used
  BY <1>3, Zenon
<1>5. FreshId(used) \in 1..(n + 1)
  BY <1>1, <1>4, Zenon DEF FreshId
<1> QED
  BY <1>5

(* The Arcs in use are finitely many, so a new one has an id. *)
LEMMA FreshTypes ==
  ASSUME CountingLaws, SType
  PROVE  FreshBuf \in Nat /\ FreshInode \in Nat
<1>1. IsFiniteSet(Users) /\ IsFiniteSet(Threads)
  BY ThreadsFinite, Zenon
<1>2. IsFiniteSet(DOMAIN bcache) /\ IsFiniteSet(DOMAIN icache)
  <2>1. DOMAIN bcache = 1..Len(bcache) /\ Len(bcache) \in Nat /\ DOMAIN icache = 1..Len(icache) /\ Len(icache) \in Nat
    BY DEF SType
  <2> QED
    BY <2>1, SizeInterval
<1>3. IsFiniteSet(HeldBufs(th))
  <2>1. PICK f : f = [t \in Threads |-> th[t].got.id]
    BY Zenon
  <2>2. PICK g : g = [t \in Threads |-> th[t].l1.id]
    BY Zenon
  <2>3. PICK h : h = [t \in Threads |-> th[t].dir.id]
    BY Zenon
  <2>4. PICK A : A = {f[t] : t \in Threads}
    BY Zenon
  <2>5. PICK B : B = {g[t] : t \in Threads}
    BY Zenon
  <2>6. PICK C : C = {h[t] : t \in Threads}
    BY Zenon
  <2>7. IsFiniteSet(A)
    BY <1>1, <2>1, <2>4, FiniteRange
  <2>8. IsFiniteSet(B)
    BY <1>1, <2>2, <2>5, FiniteRange
  <2>9. IsFiniteSet(C)
    BY <1>1, <2>3, <2>6, FiniteRange
  <2>10. PICK D : D = A \cup B
    BY Zenon
  <2>11. IsFiniteSet(D)
    BY <2>7, <2>8, <2>10, UnionFinite, Zenon
  <2>12. PICK E : E = D \cup C
    BY Zenon
  <2>13. IsFiniteSet(E)
    BY <2>9, <2>11, <2>12, UnionFinite, Zenon
  <2>14. HeldBufs(th) \subseteq E
    BY <2>1, <2>2, <2>3, <2>4, <2>5, <2>6, <2>10, <2>12 DEF HeldBufs
  <2> QED
    BY <2>13, <2>14, SizeSubset
<1>4. IsFiniteSet({bcache[i].id : i \in DOMAIN bcache})
  <2>1. PICK f : f = [i \in DOMAIN bcache |-> bcache[i].id]
    BY Zenon
  <2>2. IsFiniteSet({f[i] : i \in DOMAIN bcache})
    BY <1>2, <2>1, FiniteRange
  <2>3. {f[i] : i \in DOMAIN bcache} = {bcache[i].id : i \in DOMAIN bcache}
    BY <2>1, Zenon
  <2> QED
    BY <2>2, <2>3, Zenon
<1>5. IsFiniteSet({icache[i].id : i \in DOMAIN icache})
  <2>1. PICK f : f = [i \in DOMAIN icache |-> icache[i].id]
    BY Zenon
  <2>2. IsFiniteSet({f[i] : i \in DOMAIN icache})
    BY <1>2, <2>1, FiniteRange
  <2>3. {f[i] : i \in DOMAIN icache} = {icache[i].id : i \in DOMAIN icache}
    BY <2>1, Zenon
  <2> QED
    BY <2>2, <2>3, Zenon
<1>6. IsFiniteSet(HeldInodes)
  <2>1. PICK f : f = [u \in Users |-> file[u].id]
    BY Zenon
  <2>2. PICK A : A = {f[u] : u \in Users}
    BY Zenon
  <2>3. IsFiniteSet(A)
    BY <1>1, <2>1, <2>2, FiniteRange
  <2>4. IsFiniteSet(A \cup {1})
    BY <2>3, SizeAdd, Zenon
  <2>5. HeldInodes \subseteq A \cup {1}
    BY <2>1, <2>2, Zenon DEF HeldInodes
  <2> QED
    BY <2>4, <2>5, SizeSubset, Zenon
<1>7. IsFiniteSet(HeldBufs(th) \cup {bcache[i].id : i \in DOMAIN bcache})
  BY <1>3, <1>4, UnionFinite, Zenon
<1>8. IsFiniteSet(HeldInodes \cup {icache[i].id : i \in DOMAIN icache})
  BY <1>5, <1>6, UnionFinite, Zenon
<1> QED
  BY <1>7, <1>8, FreshNat DEF FreshBuf, FreshInode

-----------------------------------------------------------------------------
(***************************************************************************)
(* The steps.                                                              *)
(***************************************************************************)
(* A thread in a call: the disk is there, and while it mounts nothing has  *)
(* entered the inode cache.                                                *)
LEMMA Busy ==
  ASSUME SInv, NEW t \in Threads, th[t].pc # "idle"
  PROVE  /\ part # Null /\ part \in parse_mbr(Mbr) /\ Coherent /\ Calls
         /\ th[t] \in Call /\ Job(part, th[t]) /\ th[t].op # "none"
         /\ t \in Users => mounted /\ th[t].op \in {"lookup", "read"}
         /\ t \notin Users => t = FsInit /\ ~mounted /\ th[t].op = "mount"
         /\ t = FsInit /\ th[t].pc # "done" => icache = <<>>
         /\ t \in Users => th[FsInit].pc # "wait"
         /\ t = FsInit => \A u \in Users : th[u].pc # "wait"
<1>1. Idle.pc = "idle"
  BY Zenon DEF Idle
<1>2. th[t] # Idle
  BY <1>1, Zenon
<1>3. part # Null
  BY <1>2, Zenon DEF SInv, Roles
<1>4. part \in parse_mbr(Mbr) /\ Coherent /\ Calls /\ th[t] \in Call
  BY <1>3, Zenon DEF SInv, SType
<1>5. Job(part, th[t])
  BY <1>4, Zenon DEF Calls
<1>6. th[t].op # "none"
  BY <1>2, <1>5, Zenon DEF Job
<1>7. ASSUME t \in Users PROVE mounted /\ th[t].op \in {"lookup", "read"}
  <2>1. th[t].op \in {"none", "lookup", "read"}
    BY <1>7, Zenon DEF SInv, Roles
  <2>2. mounted
    BY <1>2, <1>7, Zenon DEF SInv, Mounting
  <2> QED
    BY <1>6, <2>1, <2>2
<1>8. t \notin Users => t = FsInit
  BY Zenon DEF Threads
<1>9. ASSUME t = FsInit PROVE ~mounted /\ th[t].op = "mount"
  <2>1. th[t].op \in {"none", "mount"}
    BY <1>9, Zenon DEF SInv, Roles
  <2>2. ~mounted
    BY <1>2, <1>9 DEF SInv, Mounting
  <2> QED
    BY <1>6, <2>1, <2>2
<1>10. t = FsInit /\ th[t].pc # "done" => icache = <<>>
  BY <1>9, Zenon DEF SInv, Mounting
<1>11. t \in Users => th[FsInit].pc # "wait"
  BY <1>1, <1>7 DEF SInv, Mounting
<1>12. t = FsInit => \A u \in Users : th[u].pc # "wait"
  BY <1>1, <1>9 DEF SInv, Mounting
<1> QED
  BY <1>3, <1>4, <1>5, <1>6, <1>7, <1>8, <1>9, <1>10, <1>11, <1>12

(* A call moves on; the files and the inode cache stay. *)
LEMMA MovedStep ==
  ASSUME CountingLaws, SInv, NEW t \in Threads, th[t].pc \notin {"idle", "done"},
         NEW s \in Call, th' = [th EXCEPT ![t] = s],
         s.op = th[t].op, Job(part, s), s.op # "read" /\ s.pc = "done" => s.res # "Ok",
         s.pc = "wait" => InBounds(part, s.need),
         UNCHANGED <<part, mounted, file, icache>>, cpu' \in Threads \cup {Null},
         errors' \in Nat, ErrorCause(part, s),
         bcache' \in Seq(BSlot), \A i \in DOMAIN bcache' : bcache'[i].at = At(part, bcache'[i].key),
         Stampede'
  PROVE  SInv'
<1>1. /\ part # Null /\ part \in parse_mbr(Mbr) /\ Coherent /\ Calls
      /\ th[t] \in Call /\ Job(part, th[t]) /\ th[t].op # "none"
      /\ t \in Users => mounted /\ th[t].op \in {"lookup", "read"}
      /\ t \notin Users => t = FsInit /\ ~mounted /\ th[t].op = "mount"
      /\ t = FsInit => icache = <<>>
  BY Busy, Zenon
<1>2. /\ th \in [Threads -> Call]
      /\ th' \in [Threads -> Call] /\ th'[t] = s /\ \A x \in Threads : x # t => th'[x] = th[x]
  BY Zenon DEF SInv, SType
<1>3. SType'
  BY <1>1, <1>2, Zenon DEF SInv, SType
<1>4. FsInit \in Threads /\ FsInit \notin Users /\ Users \subseteq Threads
  BY ThreadsFinite, Zenon
<1>5. Roles'
  BY <1>1, <1>2, <1>4, Zenon DEF SInv, Roles
<1>6. Mounting'
  <2>1. CASE t \in Users
    <3>1. mounted /\ th'[FsInit] = th[FsInit]
      BY <1>1, <1>2, <1>4, <2>1
    <3> QED
      BY <3>1, Zenon DEF SInv, Mounting, RootCached
  <2>2. CASE t \notin Users
    <3>1. t = FsInit /\ ~mounted /\ s.op = "mount" /\ icache = <<>>
      BY <1>1, <2>2
    <3>2. \A u \in Users : th'[u] = th[u]
      BY <1>2, <1>4, <3>1
    <3>3. ~(th'[FsInit].pc = "done" /\ th'[FsInit].res = "Ok")
      BY <1>2, <3>1
    <3> QED
      BY <3>1, <3>2, <3>3 DEF SInv, Mounting
  <2> QED
    BY <2>1, <2>2, Zenon
<1>7. Coherent'
  BY <1>1, Zenon DEF Coherent
<1>8. Calls'
  <2>1. ASSUME NEW x \in Threads
        PROVE  /\ Job(part, th'[x]) /\ ErrorCause(part, th'[x])
               /\ th'[x].pc = "wait" => InBounds(part, th'[x].need)
    <3>1. CASE x = t
      BY <1>2, <3>1
    <3>2. CASE x # t
      <4>1. /\ th'[x] = th[x] /\ Job(part, th[x]) /\ ErrorCause(part, th[x])
            /\ th[x].pc = "wait" => InBounds(part, th[x].need)
        BY <1>1, <1>2, <3>2 DEF Calls
      <4> QED
        BY <4>1, Zenon
    <3> QED
      BY <3>1, <3>2, Zenon
  <2>2. ASSUME NEW u \in Users, th'[u].op = "lookup", th'[u].pc = "done", th'[u].res = "Ok"
        PROVE  /\ file[u].inode = InodeOf(part, file[u].ino)
               /\ Named(part, InodeOf(part, RootInode), th'[u].name, file[u].ino)
    <3>1. u # t
      BY <1>2, <2>2, Zenon
    <3>2. th'[u] = th[u]
      BY <1>2, <1>4, <3>1
    <3> QED
      BY <1>1, <2>2, <3>2, Zenon DEF Calls
  <2> QED
    BY <2>1, <2>2 DEF Calls
<1> QED
  BY <1>3, <1>5, <1>6, <1>7, <1>8 DEF SInv

(* A read of a file fetches no inode. *)
LEMMA ReadersOnly ==
  ASSUME NEW p, NEW r, r.op = "read", Job(p, r)
  PROVE  ~ReadsInode(r)
BY Zenon DEF Job, ReadJob, Aim, ReadsInode

(* A copy more is made up for by a thread less. *)
LEMMA Traded ==
  ASSUME NEW a \in Nat, NEW b \in Nat, NEW v \in Nat, NEW w \in Nat, NEW n \in Nat, b + w <= n,
         a <= b + 1, v + 1 <= w
  PROVE  a + v <= n
OBVIOUS

(* Who waits for a block and has it: a copy comes into the cache only for  *)
(* the thread that waited, and a thread waits only for what is not there.  *)
LEMMA BlocksKept ==
  ASSUME CountingLaws, SType, Stampede, NEW t \in Threads, NEW s, th' = [th EXCEPT ![t] = s],
         bcache' \in Seq(BSlot), s.pc = "wait" => Copies(bcache', s.need) = 0 /\ OneSide(th'),
         \A k \in Nat : \/ Copies(bcache', k) <= Copies(bcache, k)
                        \/ /\ Copies(bcache', k) <= Copies(bcache, k) + 1
                           /\ th[t].pc = "wait" /\ th[t].need = k /\ s.pc # "wait"
  PROVE  \A k \in Nat : Copies(bcache', k) + Cardinality(Waiters(th', k)) <= Cardinality(Users)
<1> SUFFICES ASSUME NEW k \in Nat
             PROVE  Copies(bcache', k) + Cardinality(Waiters(th', k)) <= Cardinality(Users)
  BY Zenon
<1>1. th \in [Threads -> Call] /\ bcache \in Seq(BSlot) /\ Cardinality(Users) \in Nat
  BY ThreadsFinite, Zenon DEF SType
<1>2. Copies(bcache', k) \in Nat /\ Copies(bcache, k) \in Nat
  BY <1>1, CopiesType, Zenon
<1>3. Copies(bcache, k) + Cardinality(Waiters(th, k)) <= Cardinality(Users)
  BY Zenon DEF Stampede
<1>4. /\ Cardinality(Waiters(th', k)) \in Nat /\ Cardinality(Waiters(th, k)) \in Nat
      /\ OneSide(th') => Cardinality(Waiters(th', k)) <= Cardinality(Users)
      /\ s.pc # "wait" \/ s.need # k =>
           /\ Cardinality(Waiters(th', k)) <= Cardinality(Waiters(th, k))
           /\ th[t].pc = "wait" /\ th[t].need = k =>
                Cardinality(Waiters(th', k)) + 1 <= Cardinality(Waiters(th, k))
  BY <1>1, WaitersMove, Zenon
<1>5. CASE s.pc = "wait" /\ s.need = k
  BY <1>1, <1>4, <1>5
<1>6. CASE (s.pc # "wait" \/ s.need # k) /\ Copies(bcache', k) <= Copies(bcache, k)
  <2>1. Cardinality(Waiters(th', k)) <= Cardinality(Waiters(th, k))
    BY <1>4, <1>6, Zenon
  <2>2. Copies(bcache', k) <= Copies(bcache, k)
    BY <1>6, Zenon
  <2>3. Cardinality(Waiters(th', k)) \in Nat /\ Cardinality(Waiters(th, k)) \in Nat
    BY <1>4, Zenon
  <2> QED
    BY <1>1, <1>2, <1>3, <2>1, <2>2, <2>3
<1>7. CASE /\ Copies(bcache', k) <= Copies(bcache, k) + 1
           /\ th[t].pc = "wait" /\ th[t].need = k /\ s.pc # "wait"
  <2>1. Cardinality(Waiters(th', k)) + 1 <= Cardinality(Waiters(th, k))
    BY <1>4, <1>7, Zenon
  <2> QED
    BY <1>1, <1>2, <1>3, <1>4, <1>7, <2>1, Traded, Zenon
<1> QED
  BY <1>5, <1>6, <1>7

(* Likewise the inodes: a copy comes for the thread that read it, and a    *)
(* thread sets out to read only what is not there.                         *)
LEMMA InodesKept ==
  ASSUME CountingLaws, SType, Stampede, NEW t \in Threads, NEW s, th' = [th EXCEPT ![t] = s],
         icache' \in Seq(ISlot),
         \A k \in Nat :
           \/ Copies(icache', k) = 0
           \/ /\ Copies(icache', k) <= Copies(icache, k)
              /\ \/ t \notin Users \/ ~ReadsInode(s) \/ s.ino # k
                 \/ ReadsInode(th[t]) /\ s.ino = th[t].ino
           \/ /\ Copies(icache', k) <= Copies(icache, k) + 1
              /\ t \in Users /\ ~ReadsInode(s) /\ ReadsInode(th[t]) /\ th[t].ino = k
  PROVE  \A k \in Nat : Copies(icache', k) + Cardinality(InodeReaders(th', k)) <= Cardinality(Users)
<1> SUFFICES ASSUME NEW k \in Nat
             PROVE  Copies(icache', k) + Cardinality(InodeReaders(th', k)) <= Cardinality(Users)
  BY Zenon
<1>1. th \in [Threads -> Call] /\ icache \in Seq(ISlot) /\ Cardinality(Users) \in Nat
  BY ThreadsFinite, Zenon DEF SType
<1>2. Copies(icache', k) \in Nat /\ Copies(icache, k) \in Nat
  BY <1>1, CopiesType, Zenon
<1>3. Copies(icache, k) + Cardinality(InodeReaders(th, k)) <= Cardinality(Users)
  BY Zenon DEF Stampede
<1>4. /\ Cardinality(InodeReaders(th', k)) \in Nat /\ Cardinality(InodeReaders(th, k)) \in Nat
      /\ Cardinality(InodeReaders(th', k)) <= Cardinality(Users)
      /\ t \notin Users \/ ~ReadsInode(s) \/ s.ino # k \/ (ReadsInode(th[t]) /\ s.ino = th[t].ino) =>
           Cardinality(InodeReaders(th', k)) <= Cardinality(InodeReaders(th, k))
      /\ ~ReadsInode(s) /\ t \in Users /\ ReadsInode(th[t]) /\ th[t].ino = k =>
           Cardinality(InodeReaders(th', k)) + 1 <= Cardinality(InodeReaders(th, k))
  BY <1>1, ReadersMove, Zenon
<1>5. CASE Copies(icache', k) = 0
  BY <1>1, <1>4, <1>5
<1>6. CASE /\ Copies(icache', k) <= Copies(icache, k)
           /\ \/ t \notin Users \/ ~ReadsInode(s) \/ s.ino # k
              \/ ReadsInode(th[t]) /\ s.ino = th[t].ino
  <2>1. Cardinality(InodeReaders(th', k)) <= Cardinality(InodeReaders(th, k))
    BY <1>4, <1>6, Zenon
  <2>2. Copies(icache', k) <= Copies(icache, k)
    BY <1>6, Zenon
  <2>3. Cardinality(InodeReaders(th', k)) \in Nat /\ Cardinality(InodeReaders(th, k)) \in Nat
    BY <1>4, Zenon
  <2> QED
    BY <1>1, <1>2, <1>3, <2>1, <2>2, <2>3
<1>7. CASE /\ Copies(icache', k) <= Copies(icache, k) + 1
           /\ t \in Users /\ ~ReadsInode(s) /\ ReadsInode(th[t]) /\ th[t].ino = k
  <2>1. Cardinality(InodeReaders(th', k)) + 1 <= Cardinality(InodeReaders(th, k))
    BY <1>4, <1>7, Zenon
  <2> QED
    BY <1>1, <1>2, <1>3, <1>4, <1>7, <2>1, Traded, ZenonT(30)
<1> QED
  BY <1>5, <1>6, <1>7

(* A cache that stays has as many copies as it had. *)
LEMMA SameCopies ==
  ASSUME CountingLaws, SType
  PROVE  /\ bcache' = bcache => \A k \in Nat : Copies(bcache', k) <= Copies(bcache, k)
         /\ icache' = icache => \A k \in Nat : Copies(icache', k) <= Copies(icache, k)
<1>1. bcache \in Seq(BSlot) /\ icache \in Seq(ISlot)
  BY Zenon DEF SType
<1>2. \A k \in Nat : Copies(bcache, k) \in Nat
  BY <1>1, CopiesType, Zenon
<1>3. \A k \in Nat : Copies(icache, k) \in Nat
  BY <1>1, CopiesType, Zenon
<1> QED
  BY <1>2, <1>3

(* A call goes on with its block, or without it. *)
LEMMA CallMoves ==
  ASSUME CountingLaws, SInv, NEW t \in Threads, th[t].pc \in {"get", "wait", "scan", "inode"},
         NEW s, Moved(part, th[t], s), th' = [th EXCEPT ![t] = s],
         UNCHANGED <<part, mounted, file, icache>>, cpu' \in Threads \cup {Null},
         errors' \in Nat, ErrorCause(part, s),
         bcache' \in Seq(BSlot), \A i \in DOMAIN bcache' : bcache'[i].at = At(part, bcache'[i].key),
         \A k \in Nat : \/ Copies(bcache', k) <= Copies(bcache, k)
                        \/ /\ Copies(bcache', k) <= Copies(bcache, k) + 1
                           /\ th[t].pc = "wait" /\ th[t].need = k
  PROVE  SInv'
<1>1. /\ s \in Call /\ s.op = th[t].op /\ Job(part, s) /\ s.pc # "wait"
      /\ s.op # "read" /\ s.pc = "done" => s.res # "Ok"
      /\ s.op = "lookup" /\ ReadsInode(s) => ReadsInode(th[t]) /\ s.ino = th[t].ino
  BY Zenon DEF Moved
<1>2. t \in Users => th[t].op \in {"lookup", "read"}
  BY Busy, Zenon
<1>3. t \notin Users \/ ~ReadsInode(s) \/ (ReadsInode(th[t]) /\ s.ino = th[t].ino)
  BY <1>1, <1>2, ReadersOnly
<1>4. SType /\ Stampede /\ icache' \in Seq(ISlot)
  BY Zenon DEF SInv, SType
<1>5. Stampede'
  <2>1. \A k \in Nat : Copies(bcache', k) + Cardinality(Waiters(th', k)) <= Cardinality(Users)
    BY <1>1, <1>4, BlocksKept, Zenon
  <2>2. \A k \in Nat : Copies(icache', k) <= Copies(icache, k)
    BY <1>4, SameCopies
  <2>3. \A k \in Nat : Copies(icache', k) + Cardinality(InodeReaders(th', k)) <= Cardinality(Users)
    BY <1>3, <1>4, <2>2, InodesKept, Zenon
  <2> QED
    BY <2>1, <2>3, Zenon DEF Stampede
<1> QED
  BY <1>1, <1>5, MovedStep, Zenon

(* A call that waits for the disk is where it was. *)
LEMMA Waits ==
  ASSUME NEW p, NEW r \in Call, r.pc = "get", r.op # "none", Job(p, r),
         NEW s, s = [r EXCEPT !.pc = "wait"]
  PROVE  /\ s \in Call /\ Job(p, s) /\ s.op = r.op /\ s.pc = "wait" /\ s.need = r.need /\ s.ino = r.ino
         /\ ReadsInode(s) => ReadsInode(r)
<1>1. "wait" \in Pcs
  BY Zenon DEF Pcs
<1>2. /\ s \in Call /\ s.pc = "wait" /\ s.op = r.op /\ s.stage = r.stage /\ s.need = r.need
      /\ s.ino = r.ino /\ s.blocks = r.blocks /\ s.len = r.len /\ s.idx = r.idx
      /\ s.start = r.start /\ s.size = r.size /\ s.out = r.out /\ s.name = r.name
      /\ s.bytes = r.bytes
  BY <1>1, Zenon DEF Call
<1>3. \A inode : Aim(p, inode, r) => Aim(p, inode, s)
  BY <1>2 DEF Aim, DoubleIdx
<1>4. \A inode, i, b : Seen(p, inode, r, i, b) => Seen(p, inode, s, i, b)
  BY <1>2 DEF Seen
<1>5. CASE r.op = "read"
  <2>1. ReadJob(p, InodeOf(p, r.ino), s)
    BY <1>2, <1>3, <1>5 DEF Job, ReadJob, Delivered
  <2> QED
    BY <1>2, <1>5, <2>1 DEF Job, ReadsInode
<1>6. CASE r.op = "lookup"
  <2>1. PICK inode : inode = InodeOf(p, RootInode)
    BY Zenon
  <2>2. ReadsInode(s) => ReadsInode(r) /\ InodeAim(p, s)
    BY <1>2, <1>6, <2>1 DEF ReadsInode, InodeAim, Job, LookupJob
  <2>3. LookupJob(p, inode, s)
    BY <1>2, <1>3, <1>4, <1>6, <2>1, <2>2 DEF Job, LookupJob
  <2> QED
    BY <1>2, <1>6, <2>1, <2>2, <2>3 DEF Job
<1>7. CASE r.op = "mount"
  BY <1>2, <1>7 DEF Job, MountJob, ReadsInode, InodeAim
<1>8. r.op \in {"mount", "lookup", "read"}
  BY Zenon DEF Call, Ops
<1> QED
  BY <1>2, <1>5, <1>6, <1>7, <1>8 DEF ReadsInode

(* get_block: a hit brings the block that belongs to the key, a sector     *)
(* beyond the partition fails the call, a miss lets the thread wait.       *)
LEMMA GetBlockStep ==
  ASSUME CountingLaws, SInv, NEW t \in Threads, get_block(t)
  PROVE  SInv'
<1>1. th[t].pc = "get" /\ cpu = t
  BY Zenon DEF get_block, Running
<1>2. /\ part \in parse_mbr(Mbr) /\ Coherent /\ Calls
      /\ th[t] \in Call /\ Job(part, th[t]) /\ th[t].op # "none"
      /\ t = FsInit => icache = <<>>
  BY <1>1, Busy, Zenon
<1>3. /\ bcache \in Seq(BSlot) /\ icache \in Seq(ISlot) /\ errors \in Nat
      /\ cpu \in Threads \cup {Null} /\ SType /\ Stampede
  BY Zenon DEF SInv, SType
<1>4. UNCHANGED <<part, mounted, file, icache, errors>> /\ errors' \in Nat
  BY <1>3 DEF get_block
<1>5. th[t].need \in Nat
  BY <1>2, Zenon DEF Call
<1>6. CASE Holds(bcache, th[t].need)
  <2>1. PICK j \in DOMAIN bcache : Found(bcache, th[t].need) = bcache[j] /\ bcache[j].key = th[t].need
    BY <1>3, <1>6, TouchFacts
  <2>2. PICK b : b = [id |-> bcache[j].id, at |-> bcache[j].at]
    BY Zenon
  <2>3. b \in Buf /\ b.at = At(part, th[t].need)
    <3>1. bcache[j] \in BSlot
      BY <1>3
    <3>2. bcache[j].at = At(part, bcache[j].key)
      BY <1>2, Zenon DEF Coherent
    <3> QED
      BY <2>1, <2>2, <3>1, <3>2, Zenon DEF BSlot, Buf
  <2>4. PICK q : q = [th[t] EXCEPT !.got = b]
    BY Zenon
  <2>5. PICK s : s = Use(q)
    BY Zenon
  <2>6. Moved(part, th[t], s) /\ (th[t].op = "read" /\ s.pc = "done" => s.res # "Err")
    BY <1>1, <1>2, <2>3, <2>4, <2>5, UseOK
  <2>7. th' = [th EXCEPT ![t] = s] /\ bcache' = Touch(bcache, th[t].need) /\ cpu' = cpu
    BY <1>6, <2>1, <2>2, <2>4, <2>5 DEF get_block
  <2>8. ErrorCause(part, s)
    BY <2>6, Zenon DEF ErrorCause, Moved
  <2>9. /\ bcache' \in Seq(BSlot)
        /\ \A i \in DOMAIN bcache' : \E k \in DOMAIN bcache : bcache'[i] = bcache[k]
        /\ \A k \in Nat : Copies(bcache', k) <= Copies(bcache, k)
    <3>1. Touched(BSlot, bcache, bcache')
      BY <1>3, <1>6, <2>7, TouchFacts, Zenon
    <3> QED
      BY <3>1, Zenon DEF Touched
  <2>10. \A i \in DOMAIN bcache' : bcache'[i].at = At(part, bcache'[i].key)
    BY <1>2, <2>9 DEF Coherent
  <2> QED
    BY <1>1, <1>3, <1>4, <2>6, <2>7, <2>8, <2>9, <2>10, CallMoves, Zenon
<1>7. CASE ~Holds(bcache, th[t].need) /\ ~InBounds(part, th[t].need)
  <2>1. PICK s : s = Failed(th[t])
    BY Zenon
  <2>2. Moved(part, th[t], s) /\ ErrorCause(part, s)
    BY <1>1, <1>2, <1>7, <2>1, FailedOK
  <2>3. th' = [th EXCEPT ![t] = s] /\ bcache' = bcache /\ cpu' = cpu
    BY <1>7, <2>1, Zenon DEF get_block
  <2>5. \A i \in DOMAIN bcache' : bcache'[i].at = At(part, bcache'[i].key)
    BY <1>2, <2>3, Zenon DEF Coherent
  <2>6. \A k \in Nat : Copies(bcache', k) <= Copies(bcache, k)
    BY <1>3, <2>3, SameCopies
  <2> QED
    BY <1>1, <1>3, <1>4, <2>2, <2>3, <2>5, <2>6, CallMoves, Zenon
<1>8. CASE ~Holds(bcache, th[t].need) /\ InBounds(part, th[t].need)
  <2>1. PICK s : s = [th[t] EXCEPT !.pc = "wait"]
    BY Zenon
  <2>2. /\ s \in Call /\ Job(part, s) /\ s.op = th[t].op /\ s.pc = "wait" /\ s.need = th[t].need
        /\ s.ino = th[t].ino
        /\ ReadsInode(s) => ReadsInode(th[t])
    BY <1>1, <1>2, <2>1, Waits
  <2>3. th' = [th EXCEPT ![t] = s] /\ bcache' = bcache /\ cpu' = Null
    BY <1>8, <2>1, Zenon DEF get_block
  <2>4. Stampede'
    <3>1. Copies(bcache', s.need) = 0 /\ \A k \in Nat : Copies(bcache', k) <= Copies(bcache, k)
      BY <1>3, <1>8, <2>2, <2>3, NoCopies, SameCopies
    <3>2. \A k \in Nat : Copies(bcache', k) + Cardinality(Waiters(th', k)) <= Cardinality(Users)
      <4>1. OneSide(th')
        <5>1. /\ t \in Users => th[FsInit].pc # "wait"
              /\ t = FsInit => \A u \in Users : th[u].pc # "wait"
          BY <1>1, Busy, Zenon
        <5>2. \A x \in Threads : x # t => th'[x] = th[x]
          BY <1>3, <2>3, Zenon DEF SType
        <5>3. FsInit \in Threads /\ FsInit \notin Users /\ Users \subseteq Threads /\ (t \in Users \/ t = FsInit)
          BY ThreadsFinite, Zenon DEF Threads
        <5> QED
          BY <5>1, <5>2, <5>3, Zenon DEF OneSide
      <4> QED
        BY <1>3, <2>3, <3>1, <4>1, BlocksKept, Zenon
    <3>3. icache' \in Seq(ISlot) /\ \A k \in Nat : Copies(icache', k) <= Copies(icache, k)
      BY <1>3, <1>4, SameCopies
    <3>4. \A k \in Nat : Copies(icache', k) + Cardinality(InodeReaders(th', k)) <= Cardinality(Users)
      BY <1>3, <2>2, <2>3, <3>3, InodesKept, Zenon
    <3> QED
      BY <3>2, <3>4, Zenon DEF Stampede
  <2>5. ErrorCause(part, s)
    BY <2>2, Zenon DEF ErrorCause
  <2>6. \A i \in DOMAIN bcache' : bcache'[i].at = At(part, bcache'[i].key)
    BY <1>2, <2>3, Zenon DEF Coherent
  <2> QED
    BY <1>1, <1>3, <1>4, <1>8, <2>2, <2>3, <2>4, <2>5, <2>6, MovedStep, Zenon
<1> QED
  BY <1>6, <1>7, <1>8

(* The block that a thread waited for enters the cache. *)
LEMMA ResumeFilledStep ==
  ASSUME CountingLaws, SInv, NEW t \in Threads, ResumeFilled(t)
  PROVE  SInv'
<1>1. th[t].pc = "wait" /\ cpu' = t
  BY Zenon DEF ResumeFilled
<1>2. /\ part \in parse_mbr(Mbr) /\ Coherent /\ Calls
      /\ th[t] \in Call /\ Job(part, th[t]) /\ th[t].op # "none"
  BY <1>1, Busy
<1>3. bcache \in Seq(BSlot) /\ errors \in Nat /\ SType /\ CACHE_CAPACITY \in Nat
  BY StorageAssumption, Zenon DEF SInv, SType
<1>4. UNCHANGED <<part, mounted, file, icache, errors>> /\ errors' \in Nat
  BY <1>3 DEF ResumeFilled
<1>5. th[t].need \in Nat
  BY <1>2, Zenon DEF Call
<1>6. InBounds(part, th[t].need)
  BY <1>1, <1>2, Zenon DEF Calls
<1>7. At(part, th[t].need) \in Nat /\ DiskLba(part, th[t].need) = At(part, th[t].need)
  BY <1>2, <1>5, <1>6, PartFacts
<1>8. PICK b : b = [id |-> FreshBuf, at |-> DiskLba(part, th[t].need)]
  BY Zenon
<1>9. b \in Buf /\ b.at = At(part, th[t].need) /\ b.id = FreshBuf
  BY <1>3, <1>7, <1>8, FreshTypes DEF Buf
<1>10. PICK q : q = [th[t] EXCEPT !.got = b]
  BY Zenon
<1>11. PICK s : s = Use(q)
  BY Zenon
<1>12. Moved(part, th[t], s) /\ (th[t].op = "read" /\ s.pc = "done" => s.res # "Err")
  BY <1>1, <1>2, <1>9, <1>10, <1>11, UseOK
<1>13. ErrorCause(part, s)
  BY <1>12, Zenon DEF ErrorCause, Moved
<1>14. PICK x : x = [key |-> th[t].need, id |-> b.id, at |-> b.at]
  BY Zenon
<1>15. x \in BSlot /\ x.key = th[t].need /\ x.at = At(part, x.key)
  BY <1>5, <1>9, <1>14 DEF BSlot, Buf
<1>16. th' = [th EXCEPT ![t] = s] /\ bcache' = Insert(bcache, x, CACHE_CAPACITY, HeldBufs(th))
  BY <1>8, <1>10, <1>11, <1>14 DEF ResumeFilled
<1>17. /\ bcache' \in Seq(BSlot)
       /\ \A i \in DOMAIN bcache' : bcache'[i] = x \/ \E j \in DOMAIN bcache : bcache'[i] = bcache[j]
       /\ \A k : /\ Copies(bcache', k) <= Copies(bcache, k) + 1
                 /\ x.key # k => Copies(bcache', k) <= Copies(bcache, k)
  <2>1. Inserted(BSlot, bcache, x, CACHE_CAPACITY, HeldBufs(th), bcache')
    BY <1>3, <1>15, <1>16, InsertFacts, Zenon
  <2> QED
    BY <2>1, Zenon DEF Inserted
<1>18. \A i \in DOMAIN bcache' : bcache'[i].at = At(part, bcache'[i].key)
  BY <1>2, <1>15, <1>17 DEF Coherent
<1>19. \A k \in Nat : \/ Copies(bcache', k) <= Copies(bcache, k)
                      \/ /\ Copies(bcache', k) <= Copies(bcache, k) + 1
                         /\ th[t].pc = "wait" /\ th[t].need = k
  BY <1>1, <1>15, <1>17
<1>20. cpu' \in Threads \cup {Null}
  BY <1>1, Zenon
<1> QED
  BY <1>1, <1>4, <1>12, <1>13, <1>16, <1>17, <1>18, <1>19, <1>20, CallMoves, Zenon

(* The disk fails the read that a thread waited for. *)
LEMMA ResumeFailedStep ==
  ASSUME CountingLaws, SInv, NEW t \in Threads, ResumeFailed(t)
  PROVE  SInv'
<1>1. th[t].pc = "wait" /\ cpu' = t
  BY Zenon DEF ResumeFailed
<1>2. /\ part \in parse_mbr(Mbr) /\ Coherent
      /\ th[t] \in Call /\ Job(part, th[t]) /\ th[t].op # "none"
  BY <1>1, Busy, Zenon
<1>3. bcache \in Seq(BSlot) /\ errors \in Nat /\ SType
  BY Zenon DEF SInv, SType
<1>4. UNCHANGED <<part, mounted, file, icache, bcache>> /\ errors' = errors + 1
  BY Zenon DEF ResumeFailed
<1>5. PICK q : q = [th[t] EXCEPT !.ioerr = TRUE]
  BY Zenon
<1>6. PICK s : s = Failed(q)
  BY Zenon
<1>7. th' = [th EXCEPT ![t] = s]
  BY <1>5, <1>6, Zenon DEF ResumeFailed
<1>8. errors' \in Nat
  BY <1>3, <1>4
<1>9. Moved(part, th[t], s) /\ ErrorCause(part, s)
  <2>1. /\ q \in Call /\ q.op = th[t].op /\ q.pc = th[t].pc /\ q.stage = th[t].stage /\ q.ino = th[t].ino
        /\ q.ioerr = TRUE /\ Job(part, q)
    <3>1. PICK r \in Call : r = th[t]
      BY <1>2, Zenon
    <3>2. r.op # "none" /\ r.pc \in {"get", "wait"} /\ Job(part, r) /\ Marked(r, q)
      BY <1>1, <1>2, <1>5, <3>1, Zenon DEF Marked
    <3>3. /\ q \in Call /\ q.op = r.op /\ q.pc = r.pc /\ q.stage = r.stage /\ q.ino = r.ino
          /\ q.ioerr = TRUE /\ Job(part, q)
      BY <3>2, ErrorMarked, Zenon
    <3> QED
      BY <3>1, <3>3, Zenon
  <2>2. Moved(part, q, s) /\ ErrorCause(part, s)
    BY <1>1, <1>2, <1>6, <2>1, FailedOK
  <2>3. ReadsInode(q) <=> ReadsInode(th[t])
    BY <2>1, Zenon DEF ReadsInode
  <2> QED
    BY <2>1, <2>2, <2>3, Zenon DEF Moved
<1>10. \A i \in DOMAIN bcache' : bcache'[i].at = At(part, bcache'[i].key)
  BY <1>2, <1>4, Zenon DEF Coherent
<1>11. \A k \in Nat : Copies(bcache', k) <= Copies(bcache, k)
  BY <1>3, <1>4, SameCopies
<1>12. cpu' \in Threads \cup {Null} /\ bcache' \in Seq(BSlot)
  BY <1>1, <1>3, <1>4, Zenon
<1> QED
  BY <1>1, <1>4, <1>7, <1>8, <1>9, <1>10, <1>11, <1>12, CallMoves, Zenon

(* A lookup takes a step through its directory. *)
LEMMA ScanStep ==
  ASSUME CountingLaws, SInv, NEW t \in Threads, ScanDirectory(t)
  PROVE  SInv'
<1>1. th[t].pc = "scan" /\ cpu = t
  BY Zenon DEF ScanDirectory, Running
<1>2. /\ part \in parse_mbr(Mbr) /\ Coherent
      /\ th[t] \in Call /\ Job(part, th[t]) /\ th[t].op # "none"
      /\ t \in Users => th[t].op \in {"lookup", "read"}
      /\ t \notin Users => th[t].op = "mount"
  BY <1>1, Busy, Zenon
<1>3. th[t].op = "lookup"
  BY <1>1, <1>2, Zenon DEF Job, ReadJob, MountJob
<1>4. bcache \in Seq(BSlot) /\ errors \in Nat /\ cpu \in Threads \cup {Null} /\ SType
  BY Zenon DEF SInv, SType
<1>5. UNCHANGED <<part, mounted, file, icache, bcache, errors, cpu>>
  BY Zenon DEF ScanDirectory
<1>6. PICK inode \in Inode : inode = InodeOf(part, RootInode)
  BY InodeType, Zenon DEF RootInode
<1>7. LookupJob(part, inode, th[t])
  BY <1>2, <1>3, <1>6, Zenon DEF Job
<1>8. PICK s : s = DirStep(th[t])
  BY Zenon
<1>9. Scanning(part, inode, th[t], s)
  BY <1>1, <1>2, <1>3, <1>7, <1>8, DirStepOK
<1>10. Moved(part, th[t], s)
  <2>1. Job(part, s)
    BY <1>6, <1>9, Zenon DEF Scanning, Job
  <2> QED
    BY <1>3, <1>9, <2>1 DEF Scanning, Moved, ReadsInode
<1>11. ErrorCause(part, s)
  BY <1>9, Zenon DEF ErrorCause, Scanning
<1>12. th' = [th EXCEPT ![t] = s]
  BY <1>8, Zenon DEF ScanDirectory
<1>13. \A i \in DOMAIN bcache' : bcache'[i].at = At(part, bcache'[i].key)
  BY <1>2, <1>5 DEF Coherent
<1>14. \A k \in Nat : Copies(bcache', k) <= Copies(bcache, k)
  BY <1>4, <1>5, SameCopies
<1>15. errors' \in Nat /\ cpu' \in Threads \cup {Null} /\ bcache' \in Seq(BSlot)
  BY <1>4, <1>5
<1> QED
  BY <1>1, <1>5, <1>10, <1>11, <1>12, <1>13, <1>14, <1>15, CallMoves, Zenon

(* A lookup ends with the inode of an entry that has the name. *)
LEMMA LookupEnds ==
  ASSUME CountingLaws, SInv, NEW t \in Users, th[t].op = "lookup", th[t].pc \notin {"idle", "done"},
         NEW id \in Nat, NEW ino \in Nat, NEW inode, inode = InodeOf(part, ino),
         Named(part, InodeOf(part, RootInode), th[t].name, ino),
         th' = [th EXCEPT ![t] = Done(@, "Ok")],
         file' = [file EXCEPT ![t] = [id |-> id, ino |-> ino, inode |-> inode, off |-> 0]],
         UNCHANGED <<part, mounted, cpu, bcache, errors>>,
         icache' \in Seq(ISlot), \A i \in DOMAIN icache' : icache'[i].inode = InodeOf(part, icache'[i].key),
         RootCached', Stampede'
  PROVE  SInv'
<1>1. t \in Threads /\ FsInit \in Threads /\ FsInit \notin Users /\ Users \subseteq Threads
  BY ThreadsFinite, Zenon
<1>2. /\ part # Null /\ part \in parse_mbr(Mbr) /\ Coherent /\ Calls
      /\ th[t] \in Call /\ Job(part, th[t]) /\ mounted
  BY <1>1, Busy, Zenon
<1>3. th \in [Threads -> Call] /\ file \in [Users -> Handle \cup {Null}]
  BY Zenon DEF SInv, SType
<1>4. PICK s : s = Done(th[t], "Ok")
  BY Zenon
<1>5. s \in Call /\ s.pc = "done" /\ s.res = "Ok" /\ Same(th[t], s)
  <2>1. "Ok" \in Results
    BY Zenon DEF Results
  <2>2. th[t] \in Call
    BY <1>2, Zenon
  <2> QED
    BY <1>4, <2>1, <2>2, DoneEffect
<1>6. /\ th' = [th EXCEPT ![t] = s] /\ th' \in [Threads -> Call] /\ th'[t] = s
      /\ \A x \in Threads : x # t => th'[x] = th[x]
  BY <1>1, <1>3, <1>4, <1>5, Zenon
<1>7. PICK h : h = [id |-> id, ino |-> ino, inode |-> inode, off |-> 0]
  BY Zenon
<1>8. h \in Handle /\ h.ino = ino /\ h.inode = inode
  BY <1>7, InodeType, Zenon DEF Handle
<1>9. /\ file' \in [Users -> Handle \cup {Null}] /\ file'[t] = h
      /\ \A u \in Users : u # t => file'[u] = file[u]
  BY <1>3, <1>7, <1>8, Zenon
<1>10. SType'
  BY <1>6, <1>9, Zenon DEF SInv, SType
<1>11. Roles'
  <2>1. s.op = "lookup"
    BY <1>5, Zenon DEF Same
  <2>2. th'[FsInit] = th[FsInit]
    BY <1>1, <1>6, Zenon
  <2>3. ASSUME NEW u \in Users
        PROVE  th'[u].op \in {"none", "lookup", "read"} /\ (th'[u].op = "read" => file'[u] # Null)
    <3>1. CASE u = t
      BY <1>6, <2>1, <3>1, Zenon
    <3>2. CASE u # t
      <4>1. th'[u] = th[u] /\ file'[u] = file[u]
        BY <1>1, <1>6, <1>9, <3>2, Zenon
      <4> QED
        BY <4>1, Zenon DEF SInv, Roles
    <3> QED
      BY <3>1, <3>2, Zenon
  <2> QED
    BY <1>2, <2>2, <2>3, Zenon DEF SInv, Roles
<1>12. Mounting'
  <2>1. th'[FsInit] = th[FsInit]
    BY <1>1, <1>6, Zenon
  <2>2. th[FsInit] = Idle /\ mounted'
    BY <1>2, Zenon DEF SInv, Mounting
  <2> QED
    BY <2>1, <2>2 DEF Mounting
<1>13. Coherent'
  <2>1. ASSUME NEW u \in Users, file'[u] # Null PROVE file'[u].inode = InodeOf(part, file'[u].ino)
    <3>1. CASE u = t
      BY <1>8, <1>9, <3>1
    <3>2. CASE u # t
      BY <1>2, <1>9, <2>1, <3>2, Zenon DEF Coherent
    <3> QED
      BY <3>1, <3>2, Zenon
  <2>2. \A i \in DOMAIN bcache' : bcache'[i].at = At(part, bcache'[i].key)
    BY <1>2, Zenon DEF Coherent
  <2> QED
    BY <2>1, <2>2, Zenon DEF Coherent
<1>14. Calls'
  <2>1. ASSUME NEW x \in Threads
        PROVE  /\ Job(part, th'[x]) /\ ErrorCause(part, th'[x])
               /\ th'[x].pc = "wait" => InBounds(part, th'[x].need)
    <3>1. CASE x = t
      <4>1. LookupJob(part, InodeOf(part, RootInode), th[t])
        BY <1>2, Zenon DEF Job
      <4>2. LookupJob(part, InodeOf(part, RootInode), s)
        BY <1>5, <4>1, Zenon DEF LookupJob, Same, ReadsInode
      <4>3. Job(part, s)
        BY <1>5, <4>2, Zenon DEF Job, Same
      <4> QED
        BY <1>5, <1>6, <3>1, <4>3, Zenon DEF ErrorCause
    <3>2. CASE x # t
      BY <1>2, <1>6, <3>2, Zenon DEF Calls
    <3> QED
      BY <3>1, <3>2, Zenon
  <2>2. ASSUME NEW u \in Users, th'[u].op = "lookup", th'[u].pc = "done", th'[u].res = "Ok"
        PROVE  /\ file'[u].inode = InodeOf(part, file'[u].ino)
               /\ Named(part, InodeOf(part, RootInode), th'[u].name, file'[u].ino)
    <3>1. CASE u = t
      BY <1>5, <1>6, <1>8, <1>9, <3>1, Zenon DEF Same
    <3>2. CASE u # t
      <4>1. th'[u] = th[u] /\ file'[u] = file[u]
        BY <1>1, <1>6, <1>9, <3>2, Zenon
      <4> QED
        BY <1>2, <2>2, <4>1, Zenon DEF Calls
    <3> QED
      BY <3>1, <3>2, Zenon
  <2> QED
    BY <2>1, <2>2, Zenon DEF Calls
<1> QED
  BY <1>10, <1>11, <1>12, <1>13, <1>14 DEF SInv

(* An entry of an intact directory names an inode that is there. *)
LEMMA NamedExists ==
  ASSUME NEW p, NEW inode, NEW name, NEW ino, Intact(p, inode), Named(p, inode, name, ino)
  PROVE  inode_location(ino).sector # -1
<1>1. PICK i \in 0..(Total - 1), x \in 0..(BlockSize - 1) :
        NameAt(p, inode, name, i, x) /\ DirAt[SectorOf(p, BlockOf(p, inode, i))][x].ino = ino
  BY Zenon DEF Named
<1>2. PICK at : at = SectorOf(p, BlockOf(p, inode, i))
  BY Zenon
<1>3. /\ BlockOf(p, inode, i) # 0 /\ at \in DOMAIN DirAt /\ x \in DOMAIN DirAt[at]
      /\ Comparable(DirAt[at][x], x)
  BY <1>1, <1>2, Zenon DEF NameAt
<1>4. inode_location(DirAt[at][x].ino).sector # -1
  BY <1>2, <1>3, IntactFacts, Zenon
<1> QED
  BY <1>1, <1>2, <1>4

(* A lookup takes its inode from the cache, or sets out to read it. *)
LEMMA GetInodeStep ==
  ASSUME CountingLaws, SInv, NEW t \in Threads, get_or_read_inode(t)
  PROVE  SInv'
<1>1. th[t].pc = "inode" /\ cpu = t
  BY Zenon DEF get_or_read_inode, Running
<1>2. /\ part # Null /\ part \in parse_mbr(Mbr) /\ Coherent /\ th[t] \in Call /\ Job(part, th[t])
      /\ th[t].op # "none"
      /\ t \in Users => mounted /\ th[t].op \in {"lookup", "read"}
      /\ t \notin Users => th[t].op = "mount"
  BY <1>1, Busy, Zenon
<1>3. th[t].op = "lookup" /\ t \in Users
  BY <1>1, <1>2, Zenon DEF Job, ReadJob, MountJob
<1>4. /\ bcache \in Seq(BSlot) /\ icache \in Seq(ISlot) /\ errors \in Nat
      /\ cpu \in Threads \cup {Null} /\ SType /\ Stampede
  BY Zenon DEF SInv, SType
<1>5. UNCHANGED <<part, mounted, cpu, bcache, errors>>
  BY Zenon DEF get_or_read_inode
<1>6. PICK root : root = InodeOf(part, RootInode)
  BY Zenon
<1>7. LookupJob(part, root, th[t])
  BY <1>2, <1>3, <1>6 DEF Job
<1>8. Named(part, root, th[t].name, th[t].ino)
  BY <1>1, <1>7, Zenon DEF LookupJob
<1>9. th[t].ino \in Nat
  BY <1>2, Zenon DEF Call
<1>10. bcache' \in Seq(BSlot) /\ \A k \in Nat : Copies(bcache', k) <= Copies(bcache, k)
  BY <1>4, <1>5, SameCopies
<1>11. CASE Holds(icache, th[t].ino)
  <2>1. PICK j \in DOMAIN icache : Found(icache, th[t].ino) = icache[j] /\ icache[j].key = th[t].ino
    BY <1>4, <1>11, TouchFacts
  <2>2. icache[j].id \in Nat /\ icache[j].inode = InodeOf(part, th[t].ino)
    <3>1. icache[j] \in ISlot
      BY <1>4
    <3> QED
      BY <1>2, <2>1, <3>1, Zenon DEF ISlot, Coherent
  <2>3. /\ icache' = Touch(icache, th[t].ino)
        /\ th' = [th EXCEPT ![t] = Done(@, "Ok")]
        /\ file' = [file EXCEPT ![t] = [id |-> icache[j].id, ino |-> th[t].ino,
                                        inode |-> icache[j].inode, off |-> 0]]
    BY <1>3, <1>11, <2>1, Zenon DEF get_or_read_inode, Opened
  <2>4. /\ icache' \in Seq(ISlot)
        /\ \A i \in DOMAIN icache' : \E k \in DOMAIN icache : icache'[i] = icache[k]
        /\ \A k \in DOMAIN icache : \E i \in DOMAIN icache' : icache'[i] = icache[k]
        /\ \A k : Copies(icache', k) <= Copies(icache, k)
    <3>1. Touched(ISlot, icache, icache')
      BY <1>4, <1>11, <2>3, TouchFacts, Zenon
    <3> QED
      BY <3>1 DEF Touched
  <2>5. \A i \in DOMAIN icache' : icache'[i].inode = InodeOf(part, icache'[i].key)
    <3> SUFFICES ASSUME NEW i \in DOMAIN icache'
                 PROVE  icache'[i].inode = InodeOf(part, icache'[i].key)
      BY Zenon
    <3>1. PICK k \in DOMAIN icache : icache'[i] = icache[k]
      BY <2>4, Zenon
    <3>2. icache[k].inode = InodeOf(part, icache[k].key)
      BY <1>2 DEF Coherent
    <3> QED
      BY <3>1, <3>2, Zenon
  <2>6. RootCached'
    <3>1. RootCached
      BY <1>2, <1>3, Zenon DEF SInv, Mounting
    <3> QED
      BY <2>4, <3>1 DEF RootCached
  <2>7. Stampede'
    <3>1. PICK s : s = Done(th[t], "Ok")
      BY Zenon
    <3>2. s.pc = "done"
      <4>1. "Ok" \in Results
        BY Zenon DEF Results
      <4> QED
        BY <1>2, <3>1, <4>1, DoneEffect
    <3>3. th' = [th EXCEPT ![t] = s]
      BY <2>3, <3>1
    <3>4. \A k \in Nat : Copies(bcache', k) + Cardinality(Waiters(th', k)) <= Cardinality(Users)
      BY <1>4, <1>10, <3>2, <3>3, BlocksKept, Zenon
    <3>5. ~ReadsInode(s)
      BY <3>2 DEF ReadsInode
    <3>6. \A k \in Nat : Copies(icache', k) + Cardinality(InodeReaders(th', k)) <= Cardinality(Users)
      BY <1>4, <2>4, <3>3, <3>5, InodesKept, Zenon
    <3> QED
      BY <3>4, <3>6, Zenon DEF Stampede
  <2> QED
    BY <1>1, <1>3, <1>5, <1>6, <1>8, <1>9, <2>2, <2>3, <2>4, <2>5, <2>6, <2>7, LookupEnds, Zenon
<1>12. CASE ~Holds(icache, th[t].ino)
  <2>1. PICK s : s = ReadInode(th[t], th[t].ino)
    BY Zenon
  <2>2. /\ s \in Call /\ s.op = "lookup" /\ s.blocks = th[t].blocks /\ s.len = th[t].len
        /\ s.name = th[t].name
        /\ \/ s.pc = "done" /\ s.res = "NotFound" /\ inode_location(th[t].ino).sector = -1
           \/ /\ s.pc = "get" /\ s.stage = "inode" /\ s.ino = th[t].ino
              /\ s.need = inode_location(th[t].ino).sector /\ inode_location(th[t].ino).sector # -1
    <3>1. PICK r \in Call, ino \in Nat : r = th[t] /\ ino = th[t].ino
      BY <1>2, <1>9, Zenon
    <3>2. /\ s \in Call /\ s.op = r.op /\ s.blocks = r.blocks /\ s.len = r.len /\ s.name = r.name
          /\ \/ s.pc = "done" /\ s.res = "NotFound" /\ inode_location(ino).sector = -1
             \/ /\ s.pc = "get" /\ s.stage = "inode" /\ s.ino = ino
                /\ s.need = inode_location(ino).sector /\ inode_location(ino).sector # -1
      <4>1. s = ReadInode(r, ino)
        BY <2>1, <3>1, Zenon
      <4>2. r.op = "lookup"
        BY <1>3, <3>1
      <4> QED
        BY <4>1, <4>2, ReadInodeEffect
    <3> QED
      BY <1>3, <3>1, <3>2, Zenon
  <2>3. th' = [th EXCEPT ![t] = s] /\ UNCHANGED <<icache, file>>
    BY <1>12, <2>1 DEF get_or_read_inode
  <2>4. Intact(part, root) => inode_location(th[t].ino).sector # -1
    BY <1>8, NamedExists
  <2>5. LookupJob(part, root, s)
    <3>1. s.pc # "gotinode" /\ s.pc # "scan" /\ s.pc # "inode" /\ s.pc # "idle" /\ s.pc # "wait"
      BY <2>2
    <3>2. s.blocks = root.blocks /\ s.len = root.len
      BY <1>7, <2>2, Zenon DEF LookupJob
    <3>3. CASE s.pc = "done"
      <4>1. ~Intact(part, root)
        BY <2>2, <2>4, <3>3, Zenon
      <4>2. ~ReadsInode(s)
        BY <3>3, Zenon DEF ReadsInode
      <4> QED
        BY <2>2, <3>1, <3>2, <3>3, <4>1, <4>2, Zenon DEF LookupJob
    <3>4. CASE s.pc = "get"
      <4>1. InodeAim(part, s)
        BY <2>2, <3>4 DEF InodeAim
      <4> QED
        BY <1>8, <2>2, <3>1, <3>2, <3>4, <4>1, Zenon DEF LookupJob
    <3> QED
      BY <2>2, <3>3, <3>4
  <2>6. Job(part, s)
    BY <1>6, <2>2, <2>5, Zenon DEF Job
  <2>7. Stampede'
    <3>1. s.pc # "wait" /\ (~ReadsInode(s) \/ s.ino = th[t].ino)
      BY <2>2, Zenon DEF ReadsInode
    <3>2. \A k \in Nat : Copies(bcache', k) + Cardinality(Waiters(th', k)) <= Cardinality(Users)
      BY <1>4, <1>10, <2>3, <3>1, BlocksKept, Zenon
    <3>3. /\ icache' \in Seq(ISlot) /\ Copies(icache', th[t].ino) = 0
          /\ \A k \in Nat : Copies(icache', k) <= Copies(icache, k)
      BY <1>4, <1>12, <2>3, NoCopies, SameCopies
    <3>4. \A k \in Nat : Copies(icache', k) + Cardinality(InodeReaders(th', k)) <= Cardinality(Users)
      BY <1>4, <2>3, <3>1, <3>3, InodesKept, Zenon
    <3> QED
      BY <3>2, <3>4, Zenon DEF Stampede
  <2>8. ErrorCause(part, s)
    BY <2>2, Zenon DEF ErrorCause
  <2>9. \A i \in DOMAIN bcache' : bcache'[i].at = At(part, bcache'[i].key)
    BY <1>2, <1>5, Zenon DEF Coherent
  <2>10. /\ errors' \in Nat /\ cpu' \in Threads \cup {Null}
         /\ bcache' \in Seq(BSlot)
    BY <1>4, <1>5
  <2>11. /\ s.op = th[t].op /\ s.pc # "wait"
         /\ s.pc = "done" => s.res # "Ok"
    BY <1>3, <2>2, Zenon
  <2> QED
    BY <1>1, <1>5, <2>2, <2>3, <2>6, <2>7, <2>8, <2>9, <2>10, <2>11, MovedStep, Zenon
<1> QED
  BY <1>11, <1>12, Zenon

=============================================================================
