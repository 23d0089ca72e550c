------------------------------- MODULE Files -------------------------------
(***************************************************************************)
(* The file layer: the ramfs unpacked from the initramfs, the mount table  *)
(* and path lookup of vfs.rs, /proc, the device registries, and the file   *)
(* table each process reaches through system calls.  Nothing here is       *)
(* preempted: fs_init waits for the disk inside a mount, and a process     *)
(* that waits inside a call owns its table, so calls are single steps.     *)
(***************************************************************************)
EXTENDS Integers, Sequences, FiniteSets, TLC, SequencesExt

CONSTANTS Procs,
          Archives,     \* initramfs archives: sequences of cpio entries
          Ext2Nodes,    \* the volume on /dev/sda2: inode number -> node
          Ext2Block,    \* its block size
          Paths,        \* path arguments, as the pieces split('/') yields
          Program,      \* the path the boot menu starts
          Sizes,        \* sizes of reads
          MaxFd,        \* bound: fd arguments are 0..MaxFd
          MaxCalls      \* bound: system calls of all processes

VARIABLES phase,      \* how far kernel_main is
          cpio,       \* the archive
          nodes,      \* ramfs inodes; the index is the inode number
          mounts,     \* MOUNTS: [at, path, root]; at is the mountpoint inode
          chardevs, blockdevs,
          fsinit,     \* the fs_init thread: [pc, at]
          files,      \* process -> its file table (Context.files)
          view,       \* process -> what its calls have told it, by fd
          calls

vars == <<phase, cpio, nodes, mounts, chardevs, blockdevs, fsinit, files, view, calls>>

\* An inode is <<file system, inode number>>.
Err == <<"err", 0>>
NoDev == <<0, 0>>
CONSOLE == <<5, 1>>
Sda(minor) == <<8, minor>>
Components(path) == SelectSeq(path, LAMBDA c : c # "")

-----------------------------------------------------------------------------
\* ramfs.  data is the cpio entry whose bytes the inode borrows.
make_dir_inode == [type |-> "dir", kids |-> <<>>, rdev |-> NoDev, data |-> 0, len |-> 0]
make_inode(e, i) == [type |-> e.kind, kids |-> <<>>, rdev |-> e.rdev, data |-> i, len |-> e.len]

\* An existing child is returned whatever its type.
get_or_create_dir(w, name) ==
  IF ~w.ok \/ w.nodes[w.at].type # "dir" THEN [w EXCEPT !.ok = FALSE]
  ELSE IF name \in DOMAIN w.nodes[w.at].kids THEN [w EXCEPT !.at = w.nodes[w.at].kids[name]]
  ELSE LET id == Len(w.nodes) + 1 IN
       [w EXCEPT !.nodes = Append([@ EXCEPT ![w.at].kids = (name :> id) @@ @], make_dir_inode),
                 !.at = id]

WalkDirs(ns, dirs) == FoldLeft(get_or_create_dir, [nodes |-> ns, at |-> 1, ok |-> TRUE], dirs)

insert_dir(ns, path) == WalkDirs(ns, Components(path)).nodes

\* The leaf takes its inode number before its parents are created.
insert_leaf(ns, path, inode) ==
  LET parts == Components(path)
      id == Len(ns) + 1
      w == WalkDirs(Append(ns, inode), Front(parts))
  IN IF parts = <<>> THEN Append(ns, inode)
     ELSE IF w.ok /\ w.nodes[w.at].type = "dir"
          THEN [w.nodes EXCEPT ![w.at].kids = (Last(parts) :> id) @@ @]
          ELSE w.nodes

\* The number of entries before the trailer or an unreadable header.
EntryCount(a) == Cardinality({i \in DOMAIN a : \A j \in 1..i : a[j].kind \notin {"trailer", "bad"}})

unpack_cpio(a) ==
  FoldLeft(LAMBDA ns, i : IF a[i].kind = "dir" THEN insert_dir(ns, a[i].path)
                          ELSE insert_leaf(ns, a[i].path, make_inode(a[i], i)),
           <<make_dir_inode>>, [i \in 1..EntryCount(a) |-> i])

-----------------------------------------------------------------------------
\* procfs: ENTRIES, and the number of lines each generates.
ProcEntries == <<"devices", "filesystems", "mounts", "version">>
GenLines(name) ==
  CASE name = "devices" -> 3 + Cardinality(chardevs) + Cardinality(blockdevs)
    [] name = "filesystems" -> 3
    [] name = "mounts" -> Len(mounts)
    [] name = "version" -> 1

ProcNode(ino) ==
  IF ino = 1
  THEN [make_dir_inode EXCEPT !.kids = [n \in ToSet(ProcEntries) |-> 1 + CHOOSE i \in DOMAIN ProcEntries : ProcEntries[i] = n]]
  ELSE [type |-> "file", kids |-> <<>>, rdev |-> NoDev, data |-> ino, len |-> GenLines(ProcEntries[ino - 1])]

Node(id) == CASE id[1] = "ramfs" -> nodes[id[2]]
              [] id[1] = "proc" -> ProcNode(id[2])
              [] id[1] = "ext2" -> Ext2Nodes[id[2]]

\* InodeOps::lookup of the three file systems.
lookup(id, name) ==
  IF Node(id).type = "dir" /\ name \in DOMAIN Node(id).kids
  THEN <<id[1], Node(id).kids[name]>> ELSE Err

\* The first mount whose mountpoint is this inode.  inode_id is the address of
\* the Arc; here an inode is its file system and number, which is the same for
\* as long as mountpoints are ramfs inodes, which the tree keeps for ever.
cross_mount(id) ==
  LET hits == {i \in DOMAIN mounts : mounts[i].at = id} IN
  IF hits = {} THEN id ELSE mounts[CHOOSE i \in hits : \A j \in hits : i <= j].root

\* Faulty variant: only the last component may be a mountpoint.
vfs_lookupCrossesLast(path) ==
  cross_mount(FoldLeft(LAMBDA id, c : IF id = Err THEN Err ELSE lookup(id, c),
                       mounts[1].root, Components(path)))

vfs_lookup(path) ==
  FoldLeft(LAMBDA id, c : IF id = Err \/ lookup(id, c) = Err THEN Err ELSE cross_mount(lookup(id, c)),
           mounts[1].root, Components(path))

\* An open file: dev tells a driver's operations from the file system's, len is
\* the length of the inode (for /proc, of the text generated at open).
NoFile == [id |-> Err, dev |-> FALSE, offset |-> 0, len |-> 0]
NewFile(id, dev, len) == [id |-> id, dev |-> dev, offset |-> 0, len |-> len]

chrdev_open(id) == IF Node(id).rdev \in chardevs THEN NewFile(id, TRUE, 0) ELSE NoFile

vfs_open(path) ==
  LET id == vfs_lookup(path) IN
  IF id = Err THEN NoFile
  ELSE IF Node(id).type = "chr" THEN chrdev_open(id)
  ELSE NewFile(id, FALSE, Node(id).len)

-----------------------------------------------------------------------------
\* Reference: what a path names, told from the archive and the mount table as
\* text, without inodes.
Nothing == [fs |-> "none", type |-> "none", data |-> 0]
Describe(id) == IF id = Err THEN Nothing
                ELSE [fs |-> id[1], type |-> Node(id).type, data |-> Node(id).data]

\* The last entry that writes the path; a directory also exists for being the
\* parent of an entry.
InArchive(parts) ==
  LET used == 1..EntryCount(cpio)
      leaves == {i \in used : Components(cpio[i].path) = parts /\ cpio[i].kind # "dir"}
      last == CHOOSE i \in leaves : \A j \in leaves : j <= i
  IN IF parts # <<>> /\ leaves # {} THEN [fs |-> "ramfs", type |-> cpio[last].kind, data |-> last]
     ELSE IF parts = <<>> \/ \E i \in used : IsPrefix(parts, Components(cpio[i].path))
          THEN [fs |-> "ramfs", type |-> "dir", data |-> 0]
     ELSE Nothing

\* The deepest mount whose path is a prefix decides the file system.
Names(path) ==
  LET parts == Components(path)
      above == {i \in DOMAIN mounts : IsPrefix(Components(mounts[i].path), parts)}
      m == mounts[CHOOSE i \in above :
             \A j \in above : Len(Components(mounts[j].path)) <= Len(Components(mounts[i].path))]
      rest == SubSeq(parts, Len(Components(m.path)) + 1, Len(parts))
  IN IF m.root[1] = "ramfs" THEN InArchive(rest)
     ELSE Describe(FoldLeft(LAMBDA id, c : IF id = Err THEN Err ELSE lookup(id, c), m.root, rest))

-----------------------------------------------------------------------------
Init ==
  /\ phase = "reset" /\ cpio \in Archives
  /\ nodes = <<>> /\ mounts = <<>> /\ chardevs = {} /\ blockdevs = {}
  /\ fsinit = [pc |-> "start", at |-> Err]
  /\ files = [p \in Procs |-> <<>>] /\ view = [p \in Procs |-> <<>>] /\ calls = 0

\* initramfs::new and vfs::init.
InitRoot ==
  /\ phase = "reset" /\ phase' = "root"
  /\ nodes' = unpack_cpio(cpio)
  /\ mounts' = <<[at |-> Err, path |-> <<>>, root |-> <<"ramfs", 1>>]>>
  /\ UNCHANGED <<cpio, chardevs, blockdevs, fsinit, files, view, calls>>

\* vfs_mount_at once the file system has produced its superblock.
PushMount(at, path, root) == mounts' = Append(mounts, [at |-> at, path |-> path, root |-> root])

\* kernel_main panics if there is no /proc.
MountProc ==
  /\ phase = "root" /\ phase' = "up"
  /\ vfs_lookup(<<"proc">>) # Err
  /\ PushMount(vfs_lookup(<<"proc">>), <<"proc">>, <<"proc", 1>>)
  /\ chardevs' = chardevs \cup {CONSOLE}
  /\ UNCHANGED <<cpio, nodes, blockdevs, fsinit, files, view, calls>>

\* block_init registers the partitions the MBR lists, then the disk.
BlkdevRegister ==
  /\ phase = "up" /\ blockdevs = {}
  /\ \E parts \in 0..2 : blockdevs' = {Sda(n) : n \in 0..parts}
  /\ UNCHANGED <<phase, cpio, nodes, mounts, chardevs, fsinit, files, view, calls>>

\* fs_init: the mountpoint is looked up, then Ext2FileSystem::mount finds the
\* device and waits for the disk.  An error before that yields and starts over.
FsInitMount ==
  /\ phase = "up" /\ fsinit.pc = "start"
  /\ vfs_lookup(<<"newroot">>) # Err
  /\ \E dev \in {vfs_lookup(<<"dev", "sda2">>)} : dev # Err /\ Node(dev).rdev \in blockdevs
  /\ fsinit' = [pc |-> "reading", at |-> vfs_lookup(<<"newroot">>)]
  /\ UNCHANGED <<phase, cpio, nodes, mounts, chardevs, blockdevs, files, view, calls>>

\* The superblock could not be read: the next turn tries again.
FsInitFailed ==
  /\ fsinit.pc = "reading" /\ fsinit' = [pc |-> "start", at |-> Err]
  /\ UNCHANGED <<phase, cpio, nodes, mounts, chardevs, blockdevs, files, view, calls>>

\* KERNEL_READY is set with the mount, before the thread exits.
FsInitMounted ==
  /\ fsinit.pc = "reading" /\ fsinit' = [fsinit EXCEPT !.pc = "done"]
  /\ PushMount(fsinit.at, <<"newroot">>, <<"ext2", 2>>)
  /\ UNCHANGED <<phase, cpio, nodes, chardevs, blockdevs, files, view, calls>>

KERNEL_READY == fsinit.pc = "done"

-----------------------------------------------------------------------------
\* What a call told the process about a descriptor: the path it names, the
\* bytes received (byte i of an inode is <<inode, i>>), whether some were lost
\* in a failed call, the size stat gave, and the calls that were refused.
Opened(path) == [what |-> Names(path), seen |-> <<>>, lost |-> FALSE, size |-> -1, refused |-> {}]

\* spawn_process: three files open on the console.
spawn_process(p) ==
  /\ phase = "up" /\ files[p] = <<>>
  /\ vfs_open(Program) # NoFile
  /\ LET console == <<"", "dev", "console">> IN
     /\ vfs_open(console) # NoFile
     /\ files' = [files EXCEPT ![p] = [i \in 1..3 |-> vfs_open(console)]]
     /\ view' = [view EXCEPT ![p] = [fd \in 0..2 |-> Opened(console)]]
  /\ UNCHANGED <<phase, cpio, nodes, mounts, chardevs, blockdevs, fsinit, calls>>

\* user_thread_entry waits for KERNEL_READY.
Call(p) == /\ KERNEL_READY /\ files[p] # <<>> /\ calls < MaxCalls
           /\ calls' = calls + 1
           /\ UNCHANGED <<phase, cpio, nodes, mounts, chardevs, blockdevs, fsinit>>

Slot(p, fd) == IF fd < Len(files[p]) THEN files[p][fd + 1] ELSE NoFile
SetSlot(p, fd, file) == files' = [files EXCEPT ![p][fd + 1] = file]
Told(p, fd, news) == view' = [view EXCEPT ![p] = (fd :> news) @@ @]

\* The first empty slot, or a new one at the end.
FreeFd(p) == (CHOOSE i \in 1..(Len(files[p]) + 1) :
                /\ i \in DOMAIN files[p] => files[p][i] = NoFile
                /\ \A j \in 1..(i - 1) : files[p][j] # NoFile) - 1

\* An unreadable path (EFAULT) and a failed open, a disk error in an ext2
\* directory included (ENOENT), leave the table alone.
openat(p, path) ==
  /\ Call(p)
  /\ \/ UNCHANGED <<files, view>>
     \/ /\ vfs_open(path) # NoFile
        /\ files' = [files EXCEPT ![p] = IF FreeFd(p) < Len(@)
                                         THEN [@ EXCEPT ![FreeFd(p) + 1] = vfs_open(path)]
                                         ELSE Append(@, vfs_open(path))]
        /\ Told(p, FreeFd(p), Opened(path))

\* EBADF; a process that believes the descriptor open takes note.
BadFd(p, fd) ==
  /\ Call(p)
  /\ Slot(p, fd) = NoFile
  /\ IF fd \in DOMAIN view[p]
     THEN Told(p, fd, [view[p][fd] EXCEPT !.refused = @ \cup {"EBADF"}])
     ELSE UNCHANGED view
  /\ UNCHANGED files

IsReadable(file) == ~file.dev /\ Node(file.id).type = "file"
Least(a, b) == IF a <= b THEN a ELSE b

\* The operations of ramfs, procfs and ext2 all leave the offset after what
\* they copied.
Advance(file, n) == [file EXCEPT !.offset = @ + n]

\* read: the offset has moved even when copy_out then fails (EFAULT).
read(p, fd, size, fault) ==
  LET file == Slot(p, fd)
      n == Least(size, file.len - file.offset)
      bytes == [i \in 1..n |-> <<file.id, file.offset + i>>]
  IN /\ Call(p)
     /\ file # NoFile /\ IsReadable(file)
     /\ SetSlot(p, fd, Advance(file, n))
     /\ Told(p, fd, IF fault /\ n > 0 THEN [view[p][fd] EXCEPT !.lost = TRUE]
                    ELSE [view[p][fd] EXCEPT !.seen = @ \o bytes])

\* EIO: not a regular file, or the disk fails at a block of an ext2 file with
\* the offset moved over the blocks before it.
ReadFails(p, fd, size) ==
  LET file == Slot(p, fd) IN
  /\ Call(p)
  /\ file # NoFile
  /\ \/ ~IsReadable(file) /\ UNCHANGED <<files, view>>
     \/ /\ IsReadable(file) /\ file.id[1] = "ext2"
        /\ \E k \in 0..(Least(size, file.len - file.offset) - 1) :
             /\ k = 0 \/ (file.offset + k) % Ext2Block = 0
             /\ SetSlot(p, fd, Advance(file, k))
             /\ Told(p, fd, [view[p][fd] EXCEPT !.lost = @ \/ k > 0])

\* write: only a driver accepts bytes (UartFileOps queues them for the writer
\* thread); every file system answers EIO.  EFAULT changes nothing here.
sys_write(p, fd) ==
  LET file == Slot(p, fd) IN
  /\ Call(p)
  /\ file # NoFile
  /\ IF file.dev THEN UNCHANGED view
     ELSE Told(p, fd, [view[p][fd] EXCEPT !.refused = @ \cup {"EIO"}])
  /\ UNCHANGED files

\* newfstat, when the answer can be copied out.
newfstat(p, fd) ==
  LET file == Slot(p, fd) IN
  /\ Call(p)
  /\ file # NoFile
  /\ Told(p, fd, [view[p][fd] EXCEPT !.size = file.len])
  /\ UNCHANGED files

\* Faulty variant: the slot is removed from the table instead of emptied.
CloseSlotRemoves(table, fd) == RemoveAt(table, fd + 1)

CloseSlot(table, fd) == [table EXCEPT ![fd + 1] = NoFile]

close(p, fd) ==
  /\ Call(p)
  /\ Slot(p, fd) # NoFile
  /\ files' = [files EXCEPT ![p] = CloseSlot(@, fd)]
  /\ view' = [view EXCEPT ![p] = [g \in DOMAIN @ \ {fd} |-> @[g]]]

Next ==
  \/ InitRoot \/ MountProc \/ BlkdevRegister
  \/ FsInitMount \/ FsInitFailed \/ FsInitMounted
  \/ \E p \in Procs :
       \/ spawn_process(p)
       \/ \E path \in Paths : openat(p, path)
       \/ \E fd \in 0..MaxFd :
            \/ BadFd(p, fd) \/ sys_write(p, fd) \/ newfstat(p, fd) \/ close(p, fd)
            \/ \E size \in Sizes : ReadFails(p, fd, size) \/ \E fault \in BOOLEAN : read(p, fd, size, fault)

Spec == Init /\ [][Next]_vars

-----------------------------------------------------------------------------
\* Path lookup, which follows inodes and compares their addresses with the
\* mountpoints, finds what the paths in the archive and in the mount table
\* say: the last entry written to a path, inside the deepest mount above it,
\* before, during and after the mounts (vfs_lookup, cross_mount, unpack_cpio).
LookupMatchesMounts ==
  phase \in {"root", "up"} => \A path \in Paths : Describe(vfs_lookup(path)) = Names(path)

\* The descriptors a process holds by what its calls returned are exactly the
\* files in its table, each on what its path named when it was opened; the
\* bytes it received are the file's from the start up to the offset, none
\* missing unless a call failed, and the offset never passes the end, where the
\* slice in read would panic.  A descriptor it holds is never refused, nor is a
\* write to a device; stat tells the length reads end at.
DescriptorsExact ==
  \A p \in Procs : LET v == view[p] IN
    /\ {fd \in 0..(Len(files[p]) - 1) : Slot(p, fd) # NoFile} = DOMAIN v
    /\ \A fd \in DOMAIN v : LET f == Slot(p, fd) IN
         /\ Describe(f.id) = v[fd].what
         /\ f.offset <= f.len
         /\ ~v[fd].lost => v[fd].seen = [i \in 1..f.offset |-> <<f.id, i>>]
         /\ \A i \in DOMAIN v[fd].seen, j \in DOMAIN v[fd].seen : i < j => v[fd].seen[i][2] < v[fd].seen[j][2]
         /\ v[fd].size \in {-1, f.len}
         /\ "EBADF" \notin v[fd].refused
         /\ v[fd].what.type = "chr" => v[fd].refused = {}
=============================================================================
