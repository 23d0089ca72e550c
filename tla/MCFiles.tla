------------------------------ MODULE MCFiles ------------------------------
(***************************************************************************)
(* Archives like the one initramfs/Dockerfile packs, a volume with a file, *)
(* a directory and a device, and paths on both sides of the mountpoints.   *)
(***************************************************************************)
EXTENDS Files

Entry(kind, path, rdev, len) == [kind |-> kind, path |-> path, rdev |-> rdev, len |-> len]
Dir(path) == Entry("dir", path, NoDev, 0)
File(path, len) == Entry("file", path, NoDev, len)
Console == Entry("chr", <<"dev", "console">>, CONSOLE, 0)
Disk == Entry("blk", <<"dev", "sda2">>, Sda(2), 0)
Trailer == Entry("trailer", <<>>, NoDev, 0)

\* In find's order, with a file under the mountpoint and one after the trailer.
Packed == <<Dir(<<"dev">>), Console, Disk, Dir(<<"newroot">>), File(<<"newroot", "b">>, 1),
            Dir(<<"proc">>), File(<<"prog">>, 3), Trailer, File(<<"late">>, 1)>>
\* Parents never listed or listed late, an empty name and a path written twice.
Loose == <<File(<<>>, 1), File(<<"prog">>, 1), Console, Disk, Dir(<<"", "proc">>), File(<<"", "prog", "">>, 3),
           Dir(<<"newroot", "b">>), Dir(<<"dev">>), Entry("bad", <<>>, NoDev, 0), File(<<"late">>, 1)>>
\* No device node for the volume: it is never mounted.
NoDisk == <<Console, Dir(<<"newroot">>), Dir(<<"proc">>), File(<<"prog">>, 2)>>
MCArchives == {Packed, Loose, NoDisk}

VNode(type, kids, rdev, ino, len) == [type |-> type, kids |-> kids, rdev |-> rdev, data |-> ino, len |-> len]
MCExt2 == (2 :> VNode("dir", [b |-> 12, d |-> 11], NoDev, 2, 4))
       @@ (11 :> VNode("dir", [console |-> 13, proc |-> 12], NoDev, 11, 4))
       @@ (12 :> VNode("file", <<>>, NoDev, 12, 4))
       @@ (13 :> VNode("chr", <<>>, <<5, 7>>, 13, 0))

MCProgram == <<"", "prog">>
MCPaths == {<<"", "prog">>, <<"", "late">>, <<"newroot">>, <<"", "newroot", "", "b">>,
            <<"", "newroot", "d", "proc">>, <<"", "newroot", "d", "console">>, <<"", "proc", "mounts">>,
            <<"proc", "mounts", "b">>, <<"", "dev", "console">>, <<"">>}
MCSym == Permutations(Procs)
=============================================================================
