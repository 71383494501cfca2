-------------------------------- MODULE Ext2 --------------------------------
(***************************************************************************)
(* The file system reader of drivers/ext2/ext2.c on the heap it shares     *)
(* with everything else: mounting in kmain, and the commands CAT and CLEAR *)
(* that the keyboard interrupt runs at any point of it.                    *)
(*                                                                         *)
(* Memory is bytes here, because no buffer of this reader is as large as   *)
(* what is read into it: the superblock goes to address 0 over the heap's  *)
(* first header, sectors go to allocations of four bytes, and malloc       *)
(* writes its headers into buffers that are still in use.                  *)
(*                                                                         *)
(* A command is a list of steps (work) and nothing comes between them.     *)
(* kmain's malloc is split where -O0 code reads and writes MEM_HEAD and    *)
(* MEMORY_USED_SIZE.                                                       *)
(***************************************************************************)
EXTENDS Integers, Sequences, SequencesExt, FiniteSetsExt

CONSTANTS
    MemSize,      \* bytes of memory that are modelled; a bound
    Total,        \* MEMORY_TOTAL_SIZE
    Disk,         \* the drive's sectors: a function to sequences of bytes
    Entries,      \* what its root directory lists: names and inodes
    Pointer,      \* block 0 of its inodes: a function
    Paths,        \* what callers of ext2_read_file pass, split at slashes
    Wild,         \* addresses an uninitialised pointer may hold
    Fill,         \* bytes that memory may hold before it is written
    MaxCommands,  \* bound on the commands typed
    MaxBlocks,    \* bound on the length of a walk along the list
    WordMod       \* inode numbers wrap here: 2^32

Sectors == Cardinality(DOMAIN Disk)
Octet == 0 .. 255
TooLarge == 256 * 256 * 256   \* words from here on are not told apart
SectorSize == 512
BlockSize == 1024
Stride == 2048      \* from one sector of a transfer to the next in memory

ASSUME SizeAssumption ==
    /\ Total \in Nat /\ Total >= 64
    /\ MemSize \in Nat /\ Total + SectorSize <= MemSize /\ MemSize <= TooLarge
    /\ MaxBlocks \in Nat /\ Total <= 20 * MaxBlocks   \* no list is longer

ASSUME Ext2Assumption ==
    /\ Disk \in [0 .. Sectors - 1 -> [1 .. SectorSize -> Octet]]
    /\ Wild \subseteq 0 .. MemSize - SectorSize /\ Fill \subseteq Octet
    /\ Paths \subseteq Seq(Seq(Octet)) \ {<<>>}
    /\ MaxCommands \in Nat /\ WordMod \in Nat

NULL == 0
Root == 2
First == 20         \* the heap's first header: HeaderSize + sizeof(void *)
InodeSize == 256    \* INODE_SIZE
HeaderSize == 16    \* sizeof(MEMORY_BLOCK)
NextAt == 8         \* its fields behind size
IsFreeAt == 4
DataAt == 12

VARIABLES
    mem,
    used, head,        \* MEMORY_USED_SIZE, MEM_HEAD
    boot,              \* where kmain is: see Kmain
    temp, at, reg,     \* its locals in malloc and the register it counts in
    work, path,        \* the rest of the command, and of its path
    ino, loc,          \* last_inode, and the command's other locals
    typed,             \* commands so far
    missed,            \* a read behind the end of the disk
    causes             \* what has happened to memory that others rely on

heap == <<mem, used, head>>
kmain == <<boot, temp, at, reg>>
command == <<work, path, ino, loc, typed>>
vars == <<heap, kmain, command, missed, causes>>

H == INSTANCE Heap WITH Start <- 0, PtrSize <- 4, Sizes <- {},
                        blocks <- <<>>, held <- {}, reply <- 0,
                        spoilt <- {}, wild <- FALSE
-----------------------------------------------------------------------------
(* Bytes and words.  One that is TooLarge is as good as any other.         *)

Byte(m, a) == IF a < MemSize THEN m[a + 1] ELSE 0
Word(m, a) ==
    IF Byte(m, a + 3) > 0 THEN TooLarge
    ELSE Byte(m, a) + 256 * Byte(m, a + 1) + 65536 * Byte(m, a + 2)

Power[k \in Nat] == IF k = 0 THEN 1 ELSE 2 * Power[k - 1]

Bytes(n) == <<n % 256, (n \div 256) % 256, (n \div 65536) % 256, 0>>

(* The disk is one of mkdisk.sh: blocks of 1024 bytes, which the           *)
(* superblock's logarithms give as 0, and Pointer tells block 0 of inodes  *)
(* of the first group as the file system's format places them.             *)
ASSUME DiskAssumption ==
    /\ Sectors \in Nat /\ Sectors > 4
    /\ \A a \in 24 .. 31 : Disk[2][a + 1] = 0
    /\ \E a \in 32 .. 35 : Disk[2][a + 1] # 0
    /\ Word(Disk[2], 40) <= WordMod /\ WordMod > 4
    /\ \A i \in DOMAIN Pointer :
          LET offset == (i - 1) * InodeSize
              sector == 2 * Word(Disk[4], 8) + (offset \div SectorSize)
          IN  /\ i \in 1 .. Word(Disk[2], 40)
              /\ sector < Sectors
                    => Pointer[i] = Word(Disk[sector], (offset % SectorSize) + 40)

Get(m, a, n) == [k \in 1 .. n |-> Byte(m, a + k - 1)]

(* What would lie behind the memory of the model is lost. *)
Put(m, a, bytes) ==
    IF a >= MemSize THEN m
    ELSE SubSeq(m, 1, a)
           \o SubSeq(bytes, 1, Min({Len(bytes), MemSize - a}))
           \o SubSeq(m, a + Len(bytes) + 1, MemSize)

(* n sectors from lba on, as ide_ata_access stores them: far apart.        *)
Sector(m, lba, n, a) ==
    [x \in 1 .. MemSize |->
        LET o == x - 1 - a
        IN  IF o >= 0 /\ o \div Stride < n /\ o % Stride < SectorSize
            THEN Disk[lba + (o \div Stride)][(o % Stride) + 1] ELSE m[x]]

(* How many of them arrive: none when they lie behind the end of the disk. *)
(* No caller looks.  The drive of this model does not fail: Ide's do.      *)
Arrive(lba, n) == IF lba + n > Sectors THEN 0 ELSE n
-----------------------------------------------------------------------------
(* The heap of memory.c in these bytes.                                    *)

(* The headers from MEM_HEAD on, as far as they are in this memory. *)
InMemory(block) == block # NULL /\ block < MemSize

Link(m, block) == IF InMemory(block) THEN Word(m, block + NextAt) ELSE NULL

Headers(m, h) ==
    LET longer == [w \in Seq(Nat) \ {<<>>} |-> Append(w, Link(m, w[Len(w)]))]
        walk[k \in Nat] == IF k = 0 THEN <<h>> ELSE longer[walk[k - 1]]
    IN  walk[MaxBlocks]

Listed(headers) == {i \in 1 .. MaxBlocks : InMemory(headers[i])}
LastHeader(headers) ==
    IF Listed(headers) = {} THEN NULL ELSE headers[Max(Listed(headers))]

EndFound(m, headers) ==
    \/ headers[1] = NULL
    \/ Listed(headers) # {} /\ Word(m, LastHeader(headers) + NextAt) = NULL

Ends(m, h) == \E headers \in {Headers(m, h)} : EndFound(m, headers)

FieldsKeepNext(m, h, n, d) ==
    Put(Put(m, h, Bytes(n) \o <<0>>), h + DataAt, Bytes(d))

(* The fields of a new header; is_free is one byte. *)
Fields(m, h, n, d) ==
    Put(Put(m, h, Bytes(n) \o <<0>>), h + NextAt, Bytes(NULL) \o Bytes(d))

Reserve(u, n) == H!Brk(u, n)

(* Payloads behind the first are reserved twice. *)
Payload(u, n, first) ==
    IF first THEN Reserve(u, n) ELSE Reserve(Reserve(u, n).used, n)

(* kstd_mem_worst: the first free block that is large enough. *)
Fits(m, headers, n) == {i \in Listed(headers) : /\ Byte(m, headers[i] + IsFreeAt) = 1
                                                /\ Word(m, headers[i]) >= n}
Worst(m, headers, n) == headers[Min(Fits(m, headers, n))]

Malloc(m, headers, n) ==
    LET worst == Worst(m, headers, n)
        h == Reserve(used, HeaderSize)
        d == Payload(h.used, n, head = NULL)
        new == Fields(m, h.addr, n, d.addr)
    IN  IF Fits(m, headers, n) # {}
        THEN [mem |-> Put(m, worst + IsFreeAt, <<0>>), used |-> used,
              head |-> head, addr |-> Word(m, worst + DataAt)]
        ELSE [mem |-> IF head = NULL THEN new
                      ELSE Put(new, LastHeader(headers) + NextAt, Bytes(h.addr)),
              used |-> d.used,
              head |-> IF head = NULL THEN h.addr ELSE head,
              addr |-> d.addr]

-----------------------------------------------------------------------------
(* kmain: read_superblock, whose malloc is the first of all unless a       *)
(* command came before it, and ext2_init.                                  *)

SuperblockByBlock == 1
Superblock == 2     \* its sector
LogBlockSize == Byte(mem, 24) % 32
BlocksPerGroup == Word(mem, 32)
InodesPerGroup == Word(mem, 40)

(* The model ends where memory has been written that is not the writer's. *)
Unharmed == causes \subseteq {"race"}

Idle == work = <<>>
Kmain(step, next) == Idle /\ Unharmed /\ boot = step /\ boot' = next

(* The list is empty, or its last block is found; or one that fits.        *)
Look ==
    /\ \E headers \in {Headers(mem, head)} :
          /\ EndFound(mem, headers)
          /\ IF Fits(mem, headers, 4) = {}
             THEN /\ Kmain("look", "reserve")
                  /\ temp' = LastHeader(headers) /\ mem' = mem
             ELSE /\ Kmain("look", "mount")
                  /\ temp' = temp
                  /\ mem' = Put(mem, Worst(mem, headers, 4) + IsFreeAt, <<0>>)
    /\ UNCHANGED <<used, head, at, reg, command, missed, causes>>

ReserveHeader ==
    /\ Kmain("reserve", "count")
    /\ at' = Reserve(used, HeaderSize).addr
    /\ UNCHANGED <<heap, temp, reg, command, missed, causes>>

(* MEMORY_USED_SIZE += ... : a load, an addition, a store. *)
CountHeader ==
    /\ \/ Kmain("count", "store") /\ reg' = used /\ used' = used
       \/ /\ Kmain("store", "publish")
          /\ used' = IF at = NULL THEN used ELSE reg + HeaderSize + 4
          /\ reg' = reg
    /\ UNCHANGED <<mem, head, temp, at, command, missed, causes>>

(* MEM_HEAD is set before its fields are; a later block is linked after.   *)
Publish ==
    /\ Kmain("publish", "finish")
    /\ IF temp = NULL THEN head' = at /\ mem' = mem
       ELSE head' = head /\ mem' = Fields(mem, at, 4, NULL)
    /\ UNCHANGED <<used, temp, at, reg, command, missed, causes>>

(* The payload goes unused, so how its reservation is counted is one step. *)
Finish ==
    /\ Kmain("finish", "mount")
    /\ LET d == Payload(used, 4, temp = NULL)
           new == Fields(mem, at, 4, d.addr)
       IN  /\ used' = d.used
           /\ mem' = IF temp = NULL THEN new ELSE Put(new, temp + NextAt, Bytes(at))
    /\ UNCHANGED <<head, temp, at, reg, command, missed, causes>>

(* The superblock is read through sb, which is NULL and stays so. *)
Mount ==
    /\ Kmain("mount", "mounted")
    /\ mem' = Sector(mem, Superblock, Arrive(Superblock, 1), NULL)
    /\ UNCHANGED <<used, head, temp, at, reg, command, missed, causes>>

KmainStep == Look \/ ReserveHeader \/ CountHeader \/ Publish \/ Finish \/ Mount
-----------------------------------------------------------------------------
(* The commands.  The sizes that their calls of malloc ask for.            *)

LookupSize == IF Len(path) = 1 THEN Len(path[1]) ELSE Len(path[1]) + 1

SizeOf(op) ==
    CASE op \in {"fdata", "read_file", "file_buf"} -> 1
      [] op = "obj" -> 2
      [] op \in {"bgdt_tmp", "inode_tmp", "filedata", "dir"} -> 4
      [] op = "lookup_name" -> LookupSize
      [] op = "tmp" -> loc.len + 1

Allocations == {"fdata", "read_file", "file_buf", "obj", "bgdt_tmp",
                "inode_tmp", "filedata", "dir", "lookup_name", "tmp"}
Locals == Allocations \cup {"index", "lba", "table", "curr", "found", "inode", "name", "size", "len"}

ReadInode == <<"locate", "bgdt_tmp", "parse_bgdt", "inode_tmp", "read_inode">>
GetFiledata == <<"file_buf">> \o ReadInode \o <<"filedata", "read_data", "getdata">>
Dirent == <<"dirent", "tmp", "compare">>
FindInDir == ReadInode \o <<"dir", "read_dir">> \o Dirent

Window == {"reserve", "count", "store", "publish", "finish"}

Type(ops, p) ==
    /\ Idle /\ Unharmed
    /\ typed < MaxCommands
    /\ typed' = typed + 1
    /\ work' = ops
    /\ path' = p /\ ino' = Root
    /\ causes' = causes \cup IF boot \in Window THEN {"race"} ELSE {}
    /\ UNCHANGED <<heap, kmain, loc, missed>>

(* ext2_path_to_inode looks up what follows the first slash. *)
Cat == \E p \in Paths : Type(<<"fdata", "read_file", "path">>, Tail(p))
Clear == Type(<<"obj", "free">>, <<>>)

Doing(op) == work # <<>> /\ Head(work) = op /\ Unharmed
Done == work' = Tail(work)

(* What the caller stores right away: the name looked for, the kapi call.  *)
Stores(op) ==
    IF op = "lookup_name" THEN path[1] ELSE IF op = "obj" THEN <<4, 10>> ELSE <<>>

(* A name of one byte is stored into its own header, and one that found no *)
(* room at NULL, where a long one reaches the heap's first header.         *)
Spoils(op, a) ==
    IF /\ op = "lookup_name"
       /\ \/ a # NULL /\ Len(path[1]) = 1 /\ LookupSize = 1
          \/ a = NULL /\ Len(path[1]) > First
    THEN {"name"} ELSE {}

Allocate ==
    /\ \E op \in Allocations, headers \in {Headers(mem, head)} :
          /\ Doing(op)
          /\ EndFound(mem, headers)
          /\ \E r \in {Malloc(mem, headers, SizeOf(op))} :
                /\ mem' = Put(r.mem, r.addr, Stores(op))
                /\ used' = r.used /\ head' = r.head
                /\ loc' = [loc EXCEPT ![op] = r.addr]
                /\ causes' = causes \cup Spoils(op, r.addr)
    /\ Done
    /\ UNCHANGED <<kmain, path, ino, typed, missed>>

(* The heap's first payload lies close behind its header and leaves it as  *)
(* it is.  Any later object has written over its block's __data; a block   *)
(* that has its address there all the same is another's (blocks_per_group  *)
(* of the superblock, the 2564 of an object).                              *)
Own(block) == boot # "mounted" /\ loc.obj = block + 6

Free ==
    /\ Doing("free")
    /\ \E headers \in {Headers(mem, head)} :
          LET Found == {i \in Listed(headers) : Word(mem, headers[i] + DataAt) = loc.obj}
          IN  /\ EndFound(mem, headers)
              /\ mem' = IF Found = {} THEN mem
                        ELSE Put(mem, headers[Min(Found)] + IsFreeAt, <<1>>)
              /\ causes' = causes \cup
                    IF Found = {} \/ loc.obj = NULL \/ Own(headers[Min(Found)]) THEN {}
                    ELSE {"freed"}
    /\ Done
    /\ UNCHANGED <<used, head, kmain, path, ino, loc, typed, missed>>

(* The loop of ext2_path_to_inode: a last empty name is a slash at the end. *)
NextName ==
    /\ Doing("path")
    /\ work' = IF path \in {<<>>, << <<>> >>} THEN GetFiledata \o Tail(work)
               ELSE <<"lookup_name">> \o FindInDir \o work
    /\ UNCHANGED <<heap, kmain, path, ino, loc, typed, missed, causes>>
-----------------------------------------------------------------------------
(* ext2.c: groups, inodes, directories. *)

Unsigned(n) == n % WordMod
(* Where an inode is: its index in its group, and the sector of its        *)
(* group's descriptor.  Division by zero inodes would never come back.     *)
Locate ==
    /\ Doing("locate")
    /\ InodesPerGroup # 0
    /\ LET number == Unsigned(ino - 1)
           group == number \div InodesPerGroup
       IN  loc' = [loc EXCEPT !.index = number % InodesPerGroup,
                              !.lba = Unsigned(group * BlocksPerGroup + 1 + 2 + 1)]
    /\ Done
    /\ UNCHANGED <<heap, kmain, path, ino, typed, missed, causes>>

(* A read to address 0 or over the list is one that no one here survives.  *)
Harm(a) == IF a < used THEN {IF a = NULL THEN "null" ELSE "wild"} ELSE {}

(* Nor is a store through an uninitialised pointer into the superblock, or *)
(* into the last header, which may end behind MEMORY_USED_SIZE.            *)
WildHarm(a) == Harm(a) \cup IF a < Max({SectorSize, used + HeaderSize}) THEN {"wild"} ELSE {}

Transfer(lba, n, a, harm) ==
    LET k == Arrive(lba, n)
    IN  /\ mem' = Sector(mem, lba, k, a)
        /\ missed' = (missed \/ k = 0)
        /\ causes' = causes \cup IF k = 0 THEN {} ELSE harm

(* The descriptor is read through an uninitialised pointer, and used at    *)
(* once.                                                                   *)
ParseBgdt ==
    /\ Doing("parse_bgdt")
    /\ \E bgdt \in Wild :
          /\ Transfer(loc.lba, 1, bgdt, WildHarm(bgdt))
          /\ loc' = [loc EXCEPT !.table = Word(mem', bgdt + 8)]
    /\ Done
    /\ UNCHANGED <<used, head, kmain, path, ino, typed>>

ReadInodeTable ==
    /\ Doing("read_inode")
    /\ LogBlockSize < 22    \* else the shift leaves 0 to divide by
    /\ LET block == (loc.index \div (BlockSize \div InodeSize)) \div Power[LogBlockSize]
       IN  Transfer(2 * (loc.table + block), 2, loc.inode_tmp, Harm(loc.inode_tmp))
    /\ Done
    /\ UNCHANGED <<used, head, kmain, path, ino, loc, typed>>

InodeInfoByNumber == loc.inode_tmp + (ino % (BlockSize \div InodeSize)) * InodeSize
InodeInfo == loc.inode_tmp + (loc.index % (BlockSize \div InodeSize)) * InodeSize

Datablock0 == Word(mem, InodeInfo + 40)

ReadData ==
    /\ \/ Doing("read_data") /\ Transfer(2 * Datablock0, 1, loc.filedata, Harm(loc.filedata))
       \/ Doing("read_dir") /\ Transfer(2 * Datablock0, 6, loc.dir, Harm(loc.dir))
    /\ loc' = [loc EXCEPT !.curr = 0, !.found = 0]
    /\ Done
    /\ UNCHANGED <<used, head, kmain, path, ino, typed>>

(* getdata copies a kilobyte into a buffer of one byte. *)
GetData ==
    /\ Doing("getdata")
    /\ mem' = Put(mem, loc.file_buf, Get(mem, loc.filedata, BlockSize))
    /\ causes' = causes \cup {"copy"}
    /\ Done
    /\ UNCHANGED <<used, head, kmain, path, ino, loc, typed, missed>>

(* __kstd_strcmp stops at the first difference or at the end of both; none *)
(* of the names that it compares here is terminated by its writer.         *)
StopsAt(m, a, b) ==
    Min({n \in 0 .. MemSize : Byte(m, a + n) = 0 \/ Byte(m, a + n) # Byte(m, b + n)})

SameInverted(m, a, b) ==
    Byte(m, a + StopsAt(m, a, b)) # Byte(m, b + StopsAt(m, a, b))

Same(m, a, b) == Byte(m, a + StopsAt(m, a, b)) = Byte(m, b + StopsAt(m, a, b))

AdvanceStays == loc.curr

Advance == loc.curr + loc.size \div 4

(* ext2_read_dirent takes the low byte of the inode and of the record's    *)
(* length and four bits of the name's, and copies the name through an      *)
(* uninitialised pointer and from there to a new allocation, which may lie *)
(* in the directory's buffer.                                              *)
ReadDirent ==
    /\ Doing("dirent")
    /\ LET entry == loc.dir + 4 * loc.curr
           len == Byte(mem, entry + 6) % 16
       IN  \E name \in Wild :
             /\ mem' = Put(mem, name, Get(mem, entry + 8, len))
             /\ causes' = causes \cup IF len = 0 THEN {} ELSE WildHarm(name)
             /\ loc' = [loc EXCEPT !.inode = Byte(mem, entry), !.name = name,
                           !.size = Byte(mem, entry + 4), !.len = len]
    /\ Done
    /\ UNCHANGED <<used, head, kmain, path, ino, typed, missed>>

(* The rest of a turn of the loop of ext2_find_in_dir. *)
Compare ==
    /\ Doing("compare")
    /\ \E m \in {Put(mem, loc.tmp, Get(mem, loc.name, loc.len))} :
          /\ mem' = m
          /\ IF loc.inode = 0
             THEN /\ ino' = loc.found /\ path' = Tail(path)
                  /\ loc' = loc /\ Done
             ELSE /\ loc' = [loc EXCEPT !.curr = Advance,
                        !.found = IF Same(m, loc.tmp, loc.lookup_name) THEN loc.inode ELSE @]
                  /\ work' = Dirent \o Tail(work)
                  /\ UNCHANGED <<ino, path>>
    /\ UNCHANGED <<used, head, kmain, typed, missed, causes>>

CommandStep ==
    \/ Allocate \/ Free \/ NextName
    \/ Locate \/ ParseBgdt \/ ReadInodeTable \/ ReadData \/ GetData
    \/ ReadDirent \/ Compare

Init ==
    /\ \E f \in Fill : mem = [a \in 1 .. MemSize |-> f]
    /\ used = 0 /\ head = NULL
    /\ boot = "look" /\ temp = NULL /\ at = NULL /\ reg = 0
    /\ work = <<>> /\ path = <<>> /\ ino = Root
    /\ loc = [l \in Locals |-> 0]
    /\ typed = 0 /\ missed = FALSE /\ causes = {}

Next == KmainStep \/ Cat \/ Clear \/ CommandStep

Spec == Init /\ [][Next]_vars

(* Nothing interrupts a command. *)
FairSpec == Spec /\ WF_vars(CommandStep)
-----------------------------------------------------------------------------
(* Properties.                                                             *)

Calm == causes = {} /\ ~missed

(* Although the superblock is read over the heap's first header and later  *)
(* headers go around it, every field by which ext2.c finds groups and      *)
(* inodes is the disk's once the mount is over.                            *)
GeometryIntact ==
    boot = "mounted" /\ Unharmed =>
        \A a \in {24, 32, 40} : Get(mem, a, 4) = SubSeq(Disk[2], a + 1, a + 4)

(* The walks of malloc and free along the list end, also when a command    *)
(* came in the middle of kmain's malloc and both walked to the same tail   *)
(* (memory.c:384-398); not when kmain found no list to walk along, when a  *)
(* transfer went to a wild address, or getdata copied past its buffer.     *)
ListEnds ==
    Unharmed /\ (temp = NULL => causes = {} /\ boot # "finish") => Ends(mem, head)

(* When an inode's table is in the first sector of the two that are read,  *)
(* block 0 is the inode's own, through two sizes, an index and a header    *)
(* that malloc has written next to it (ext2.c:83-107).                     *)
BlockPointerFromDisk ==
    /\ boot = "mounted" /\ Calm
    /\ Doing("read_data") \/ Doing("read_dir")
    /\ ino \in DOMAIN Pointer /\ loc.index % 4 < 2
    => Datablock0 = Pointer[ino]

(* A search of the root answers with nothing or with an entry's inode, and *)
(* the entry's name and the one asked for agree as far as both were        *)
(* written, although malloc writes headers between the entries while they  *)
(* are read and neither name is terminated (ext2.c:124-141, 170-200).  Not *)
(* when the heap has become full: a name's buffer without a header may lie *)
(* on the entries themselves.                                              *)
SearchEnds == Doing("compare") /\ ino = Root /\ path' # path

AnswerNamesEntry ==
    [][ boot = "mounted" /\ Calm /\ SearchEnds /\ ~H!Full
            => \/ ino' = 0
               \/ \E e \in Entries :
                     /\ ino' = e.inode % 256
                     /\ IsPrefix(e.name, path[1]) \/ IsPrefix(path[1], e.name) ]_vars

(* A command comes to its end when the disk was mounted and all reads were *)
(* answered: the loop over a directory, which advances by the low byte of  *)
(* the records' lengths, finds an inode of 0.                              *)
CommandsEnd ==
    (boot = "mounted" /\ Calm /\ ~Idle) ~> (Idle \/ ~Calm)

(* CAT, the caller that passes a name without a slash, gets the data of    *)
(* the file that it names (console.h:16, console.c:16-18).                 *)
CatReadsFile ==
    boot = "mounted" /\ causes = {"copy"} /\ ~missed =>
        \A e \in Entries : {<<e.name>>} = Paths =>
            Get(mem, loc.file_buf, SectorSize) = Disk[2 * Pointer[e.inode]]
=============================================================================
