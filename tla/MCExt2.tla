------------------------------- MODULE MCExt2 -------------------------------
(***************************************************************************)
(* A disk as mkdisk.sh makes it, made small: blocks of 1024 bytes, groups  *)
(* of eight inodes, a root directory with one file.  The file's inode is   *)
(* in the second block of the inode table.                                 *)
(***************************************************************************)
EXTENDS Ext2, TLC

At(offset, bytes) == [x \in offset .. offset + Len(bytes) - 1 |-> bytes[x - offset + 1]]
Half(n) == <<n % 256, n \div 256>>
Full(f) == [x \in 1 .. 512 |-> IF x - 1 \in DOMAIN f THEN f[x - 1] ELSE 0]

(* "hello.txt", ".", "..", "lost+found" *)
File == <<104, 101, 108, 108, 111, 46, 116, 120, 116>>
Dot == <<46>>
DotDot == <<46, 46>>
LostFound == <<108, 111, 115, 116, 43, 102, 111, 117, 110, 100>>

Record(offset, inode, length, name) ==
    At(offset, Bytes(inode) \o Half(length) \o <<Len(name), 2>> \o name)

SuperblockSector ==
    Full(At(20, Bytes(1) \o Bytes(0) \o Bytes(0) \o Bytes(16) \o Bytes(16) \o Bytes(8)
                \o Bytes(0) \o <<1, 2, 3, 4>> \o Half(1) \o <<255, 255>> \o <<83, 239>>))
GroupSector == Full(At(0, Bytes(3) \o Bytes(4) \o Bytes(3)))
InodeSector(block) == Full(At(256, Half(16877)) @@ At(256 + 40, Bytes(block)))
DirectorySector ==
    Full(Record(0, 2, 12, Dot) @@ Record(12, 2, 12, DotDot)
         @@ Record(24, 3, 20, LostFound) @@ Record(44, 6, 980, File))
FileSector == Full(At(0, <<104, 105>>))

SmallDisk ==
    [s \in 0 .. 15 |->
        CASE s = 2 -> SuperblockSector
          [] s = 4 -> GroupSector
          [] s = 6 -> InodeSector(5)
          [] s = 8 -> InodeSector(7)
          [] s = 10 -> DirectorySector
          [] s = 14 -> FileSector
          [] OTHER -> Full(<<>>)]

RootEntries == {[name |-> File, inode |-> 6], [name |-> DotDot, inode |-> 2],
                [name |-> Dot, inode |-> 2], [name |-> LostFound, inode |-> 3]}
Block0 == [i \in {2, 6} |-> IF i = 2 THEN 5 ELSE 7]

(* "/../" and "/hello.txt"; then "/./" and "/lost+found" too, of which    *)
(* only "/./" is ever found; and what CAT passes.                          *)
SomePaths == {<<<<>>, DotDot, <<>>>>, <<<<>>, File>>}
AllPaths == SomePaths \cup {<<<<>>, Dot, <<>>>>, <<<<>>, LostFound>>}
OnlyCat == {<<File>>}
=============================================================================
