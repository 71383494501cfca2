# CandleKernel in TLA+

CandleKernel is a 32-bit x86 hobby kernel: a text console, a keyboard, an IDE
driver, a reader for ext2 and a small heap, about 3500 lines of C and assembly
without tests. This directory holds TLA+ modules of its parts, TLC
configurations that check them on small instances, and proofs for TLAPS.
Paths below are relative to the repository; `memory.c` stands for
`src/memory.c`, `ide.c` for `drivers/ide/ide.c`, and so on.

## 1. The system

One processor, no paging, no scheduler. `_start` calls `kmain`, which sets up
segments, interrupts, keyboard, heap, disk and file system in turn, prints its
messages and returns into a loop. From `sti` on (`isr.c:113`) the keyboard
interrupt may come between any two instructions of `kmain`; everything the user
does afterwards happens inside that interrupt, with interrupts off.

| Part | State | Operations | Depends on |
|---|---|---|---|
| Heap (`memory.c:327-524`) | `MEMORY_USED_SIZE`, the list from `MEM_HEAD` | brk, malloc, free, print_blocks | warns on the screen |
| Frames (`memory.c:153-309`) | `__mem_map_array`, `__usedblocks` | pre_init, regions, alloc, free | - |
| Text screen (`vga.c`, `stdio.c`) | `VIDEO_POINTER_SIZE`, video memory | putchar, newline, clear, backspace, write | - |
| Keyboard (`keyboard.c`, `stdlib.c`) | the line buffer | the IRQ1 callback | screen, console |
| Console and kernel API (`console.c`, `kapi.c`) | the call's heap object | HALT, REBOOT, HELP, MPRINT, CLEAR, CAT | heap, screen, ext2 |
| IDE (`ide.c`) | table of drives, registers of two channels | init, read, write | drives |
| Interrupts (`isr.c`, `idt.c`, `interrupts.asm`) | IDT, PIC, handler table, stack | set-up, dispatch, end of interrupt | devices |
| ext2 (`ext2.c`) | the superblock pointer | mount, path lookup, read, ls | IDE, heap |
| Processes (`stdproc.c`) | a list of records | create, print | heap; nobody calls it |
| Strings, numbers, panic, GDT, port I/O | - | helpers | - |

How they interact, and what is hard about it:

* `kmain` and the keyboard interrupt share `VIDEO_POINTER_SIZE` without any
  protection; so do they the heap and, with CAT, the disk.
* The heap's headers lie in the memory it hands out, and brk's answer is the
  end of what it reserves. Whether callers' stores meet headers depends on the
  sizes requested in a row, and one such store changes a later `free`.
* Devices work on their own: drives between two polls, keyboard and timer
  between two instructions. The driver's waits have no limit.
* An edge that the PIC has delivered is gone, whether or not anyone read the
  device.

What must hold, part by part:

* Heap: no address is handed out twice, a caller's store reaches no header but
  its own, the list knows what is held; where the code falls short of that, it
  is said exactly when.
* Frames: no frame is held twice and the count agrees with the map, until a
  request for several meets scattered free frames.
* Screen, keyboard and console: stores stay on the screen, echo and buffer
  agree, `kmain` comes out of its clear loops.
* IDE: an answer of 0 means that the sectors asked for have been moved, and
  those only; every access ends.
* Interrupts: every request meets a gate, is acknowledged at the chip that saw
  it, and leaves the stack as it was; no key is lost.
* ext2: a path leads to the inode that its names lead to; mounting damages
  neither heap nor superblock.
* Processes: numbers are unique and every record has memory of its own.

`PROJECT.json` lists every component with its status, and every hazard with
its line.

## 2. Modules

| Module | What it models |
|---|---|
| `AllocSpec` | What a caller of the kernel heap may rely on: regions given, given back, lost, and apart until it is full; no headers, no list. |
| `Heap` | The heap of `memory.c`. One action per path of malloc (refused, first block, reuse, new block), one for free and one for a caller's store. |
| `Frames` | The frame allocator. `map` is the bitmap as a set, `usedblocks` wraps at `CounterMod`. |
| `Console` | Keyboard, console, kernel API and screen. It composes `Heap` by INSTANCE, so its `malloc` and `free` are Heap's actions on the same variables. |
| `Ide` | The driver and the drives on two channels. |
| `Interrupts` | From a device's request or an exception to the handler and back, and the order of the set-up. |
| `Ext2` | The reader of `ext2.c`, the mount in `kmain` and the commands CAT and CLEAR, on a memory of bytes that they share with the heap. It takes brk from `Heap` by INSTANCE. |
| `HeapRefinement` | The mapping under which `Heap` implements `AllocSpec`. |
| `HeapProofs`, `HeapRefinementProofs`, `FramesProofs`, `ConsoleProofs`, `InterruptsProofs`, `IdeProofs`, `IdeTransferProofs`, `Ext2Proofs` | Theorems. |
| `MCHeap`, `MCFrames`, `MCConsole`, `MCIde`, `MCExt2` | Values for TLC; `MCExt2` holds a small disk. |

Definitions named as slips (`BrkChecksZero`, `DispatchUnread`, ...) stand
before the definition that they change. No specification uses them. Each
breaks a property in the way a plausible mistake in the code would.

### Heap

`used` is `MEMORY_USED_SIZE`; `blocks` the list in the order of `__next`, with
the address, size, flag and `__data` of every header; `held` what callers have.
`Brk` answers with the end of the reservation and counts a pointer more than it
checked. `MallocNew` reserves the payload twice, as `new_block` and `malloc`
do. A header that finds no room is NULL: its fields are written to address 0
and it is not linked. Callers free what they hold, or NULL.

What the kernel asks for is short: a char, a two-byte API object, a pointer, a
file name. Such a payload lies over the header of its own block or
just behind it: it starts `n + 4` bytes from the header in the first block, and
twice that in a later one, whose payload was reserved twice. `Store` is a
caller's store in the whole of what it holds. Over `__data` of its own header
(two bytes in a later block, the API object's case) it makes `free` miss the
block: the block is `spoilt`, and the stored bytes are taken to be no address
that anybody frees. When it reaches another field (`__next`: a byte in a later
block, four in the first), or another block's header, the list leads anywhere:
`wild`, and the model stops. From 12 bytes on a payload is clear of its own
header, and only past 20 does it reach the next one. Memory without a header,
handed out at the end of the heap, may lie on anything.

`AllocSpec` promises what is left: a caller may lose a short region by storing
in it, a full allocator hands out what it has lost and what need not be apart;
until then fresh regions are apart, nothing is refused that could be had, and
what was given back can be had again.

### Frames

The bitmap has a word for each frame, as `pre_init` clears one; a region call
reaches one frame past the region. Callers give memory nobody uses. A run that
`alloc_blocks` hands out is the one that the search of `memory.c:62` answers,
which counts used bits behind a clear one as free, and it may run past the end
of the map. When a run with a used frame in it has been handed out, `torn` is
set and the model stops: frames are then in two hands, and every later release
makes one of the two wrong. `TornOnlyWhenScattered` says when that can happen.
`kmain` calls `alloc_blocks` before `pre_init`, when `__maxblocks` is 0, and
gets NULL.

### Console

The interrupt handler runs with interrupts off, so nothing comes between its
calls: each character, malloc, fill, free or reset is a step, and `work` is the
sequence of what is left. `kmain` prints its last text with interrupts on and
is split where the compiled code touches the pointer: `check`, the two stores
of the glyph, the load of the pointer (`reg`) and the write back; `depth` counts
the clear loops on its stack, because `putchar` calls `clear` and `clear` calls
`putchar`. Text is abstracted to printing characters and newlines. A command
word is a single key, which the command loop of `console.c` tells apart from
other lines. `Fill` stores the object's two bytes where they lie: on a block of
two bytes that is the `__data` field of its own header. A malloc for which brk
finds no room prints `kstd_warn`'s text, up to three times. CAT is in `Ext2`.

### Ide

`dev` is each drive's own state. A command sets BSY; the drive clears it in a
step of its own, with DRQ, or ERR or DF. A command that comes while BSY or DRQ
is set is ignored. The driver's places (`pc`) are those between two accesses to
a status register. A sector's contents are its address, so `mem` and `taken`
say which sector went where. Addresses go through the registers (`Registers`,
`Addressed`) with their widths, in CHS, LBA28 and LBA48. The buffer pointer
moves by 2048 bytes a sector (`words * 2` on a `uint32 *`): `Stride`.

The mode is chosen from the first sector (`ide.c:352`), so a command may be
asked for sectors behind the last that its address can name (`Reach`). The
drive ends it with an error there, as it does behind its own last sector. The
standard leaves open what a drive does; one that began again at sector 0 would
deliver and store the wrong sectors, and the driver would not notice.

### Interrupts

The 8259 pair, the keyboard controller, the timer and the disk's line are
external and modelled as the code uses them: edges, priorities, in-service
bits, spurious vectors, a one-place buffer behind port 0x60. The stack is the
sequence of words that the processor and the stub push, the flags among them,
and `iret` takes the interrupt flag from there. The callback of the keyboard is
one step here (its effects are `Console`'s): it reads the port and comes back,
or HALT stops the processor.

An exception may come at any instruction of `kmain` and of a handler once
`lidt` is done; before that it would reset the machine. The processor pushes an
error code for some vectors, and the stub pushes a 0 for those for which it
thinks that it does not. The kernel runs in ring 0, where there is no alignment
check (17), and vectors from 20 on are reserved; `Exceptions` is any set of the
others. `__kstd_isr_handler` returns at once, so no exception comes during one.
`Place`, `Below` and `Handled` are the handler, its stack and its vector below an
exception.

### Ext2

`mem` is memory, byte by byte from address 0, where the heap of the model
starts. `ext2.c` needs that: `sb` is NULL, so the superblock is read over the
first header of the heap; sectors are read to allocations of four bytes and one;
`malloc` writes headers into the directory while it is being read; a block
group descriptor and names go through uninitialised pointers, whose value is a
choice from `Wild`. Memory holds zeros or 255s before it is written (`Fill`).
Words are the three low bytes; a word with a fourth is `2^24`, which is larger
than anything it is compared with.

A command is the list of its steps, `work`, which the code's nesting of calls
gives; interrupts are off in it and nothing comes between. `kmain` has one access
to disk and heap after the start, `read_superblock`. Its malloc is split where
the compiled code reads or writes `MEM_HEAD` and `MEMORY_USED_SIZE`, and a
command may come at each of these points: `causes` then holds "race". Where a
transfer or a copy goes over memory that others use, `causes` says how and the
behaviour ends, because what the kernel does from there on cannot be told:
"null" and "wild" for a sector or a name that lands on the list, below the break
or, through a pointer that was never set, on the superblock or the last header;
"name" for a name stored on a header; "freed" when `free` marks a block that is
not the object's; "copy" for `getdata`. The heap's calls on bytes (`Malloc`,
`Free`, the walk `Headers`) are those of `memory.c`; where following `__next`
does not come to an end within `MaxBlocks` headers, the call stays where it is.
malloc takes a free block that fits (`Worst`) before it makes a new one, in
`kmain` too.

`Locate` computes an inode's index and the sector of its group's descriptor from
the superblock in memory, before the two allocations that follow; the table's
start is taken out of the descriptor as soon as it is there (`ParseBgdt`).

Some of what the model shows holds by a hair, and is why its properties are
stated as they are:

* Names are not terminated, neither the one looked for nor the entry's; what
  follows them in memory takes part in the comparison. `AnswerNamesEntry`
  therefore says that the names agree as far as both were written. In a full
  heap not even that holds: a name's buffer for which no header was left may lie
  on the entries, and a byte of the name is then the answer.
* The header for the first name lands in the directory's buffer and zeroes the
  inode of an entry behind: a lookup sees few entries, whatever the directory
  holds, and ends early. It ends, though (`CommandsEnd`). On a fresh heap the
  header covers the second entry, so nothing is found at all. Only when CLEAR
  has moved the break far enough for a name's two buffers to share their upper
  bytes does a name agree, and only the first entry's: after five CLEARs `/./`
  is found, `/../` and `/hello.txt` never are.
* The second of the two sectors of an inode table lands 2048 bytes on instead
  of 512, so half of the inodes are read from where no sector was stored:
  `BlockPointerFromDisk` is about the other half.
* Before the mount the geometry is whatever lies at address 0. With zeros
  there, CAT divides by zero; the exception's handler returns to the division
  and nothing goes on.

## 3. Runs

| Run | Result | What it shows |
|---|---|---|
| `heap` | pass | The kernel's sizes 0, 1, 2, 4 and 12 with callers that store in what they hold: headers lie apart and a store meets its own at most, no address is handed out twice, the list knows what is held but for spoilt blocks and memory without a header, and every step is one of `AllocSpec`'s (`HeapImplementsAllocSpec`). |
| `frames` | pass | Regions, frames and runs over two words and a wrapping count: map, count and holders agree until a run is torn, and only a request for two or more among scattered free frames tears one. |
| `console` | pass | All keys and commands until the heap is exhausted, from the last message of `kmain` on, with the interrupt at every point of it. Once `kmain` is done whole commands store inside video memory; before, the pointer may pass the screen's end, never by two rows. `kmain` comes out of its nested clears. |
| `console_free` | violation of `FreeingMarksABlock` | Freeing a kernel API object finds no block. |
| `ide` | pass | Two machines, all address modes, failing reads, accesses over the 28-bit limit: the table, reads, writes, accepted commands, an answer to every access. |
| `ide_flush` | violation of `WriteIsFlushed` | The flush is sent to a busy drive and lost. |
| `ide_errors` | violation of `WriteErrorsReported` | A failed write answers 0. |
| `interrupts` | pass | Timer, keyboard and disk at any point of the start, and exceptions 0 and 13, without and with an error code, in `kmain` and each handler. |
| `interrupts_early` | violation of `KeyboardHeard` | A key before the keyboard is registered leaves it deaf. |
| `ext2` | pass | The mount and two commands at any point of it: the superblock's fields stay the disk's, the list of blocks ends, block 0 comes from the disk, commands end. |
| `ext2_lookup` | pass | Up to six commands, lookups among CLEARs: a lookup answers nothing or an entry of the name, and both happen. |
| `ext2_cat` | violation of `CatReadsFile` | CAT's path has no slash, so it reads the root directory instead of the file. |

### Bounds

* Heap: 101 bytes hold three blocks and more, so that each path of malloc is
  taken, also with the header, the lost reservation or the payload refused, and
  a release between any two. Header and pointer have their sizes of the 32-bit
  build.
* Frames: five frames, words of four bits, a counter modulo 16, requests for none to
  four frames: a region that crosses a word, runs with used frames inside, one that reaches past memory, and a count below zero.
* Console: a screen of 3 by 2, lines of at most two keys (`MaxLine`), two
  nested clears (`MaxDepth`), six bytes in front of the screen (`MaxBehind`), and
  one character and a newline for what `kmain` still prints.
  Messages keep the newlines they begin and end with. A screen of six cells is
  run over after a few characters, so that every command meets its end. The heap
  (`Total` 118, 28 used) gives room for two objects and then refuses.
* Ide: registers of four values with a low half of two, 3 sectors a track, 2
  heads. The 28-bit limit is then 128 and addresses end at 255. The addresses
  checked lie at the edges of a track, a register, the drives, the limit and
  the largest value.
* Ext2: a disk of sixteen sectors with blocks of 1024 bytes as `mkdisk.sh` makes
  them, groups of eight inodes, a root directory with one file. Two commands
  (`MaxCommands`): one in the middle of the mount and one after it, or two after
  it on the same heap. Two paths: `/../`, with a slash at its end, and a
  file's. A heap of 500 bytes holds both; memory
  is 1536 bytes (`MemSize`), and stores behind it are lost. A wild pointer is
  NULL or behind the heap. A list of 30 blocks (`MaxBlocks`) is longer than the
  heap allows. Inode numbers wrap at 2^16 instead of 2^32, past every group. The
  blocks of a group (8192 on a real disk) are 16: the field is compared with
  nothing but used as the `__data` of the heap's first block. `ext2_lookup` takes
  four paths, 600 bytes and six commands, the first at which a name is found. Drives do not fail
  here; that is `Ide`'s subject.
* Interrupts: two scancodes on their way (`MaxWaiting`). One line of the slave
  and two of the master are used, and the slave's spurious vector.

Deadlock is not checked in `Console` and `Interrupts` runs: HALT executes `hlt`
with interrupts off, and the system really stops. Nor in `Ext2`: a division by
zero or a write over the heap is the end of what it tells.

### Fairness

* `Console`: weak fairness of the handler and of `kmain`. Interrupts are off in
  the handler, so nothing else can take the processor, and between interrupts
  there is only `kmain`. The user need not stop typing: `KmainFinishes` is about
  behaviours in which the user does, and about no more than `MaxDepth` loops.
* `Ide`: weak fairness of the driver's steps, which are the only thing `kmain`
  does, and of each drive: a drive does not stay busy for ever, and answers
  IDENTIFY with data or an error. Without that the loop of `ide.c:261` need not
  end.
* `Interrupts`: weak fairness of leaving an exception and of the keyboard
  controller;
  strong fairness of taking a timer or keyboard interrupt, because each handler
  switches interrupts off and on again. A tick is assumed to take longer than
  the timer's handler, so that the timer cannot starve the keyboard. Strong
  fairness of set-up and handler, which exceptions interrupt again and again:
  `iret` goes back to where the exception was taken, and the fairness leaves out
  an instruction that traps for ever.
* `Ext2`: weak fairness of the command, in which interrupts are off.

## 4. Proofs

Every theorem is about the modules above with their constants left open.

* `HeapProofs`, for all sizes and stores and without an assumption beyond the
  constants' types: `TypeCorrect`, `BreakBounded` (`UsedBounded`), `ListOrdered`
  (`ListInAddressOrder`), `PayloadsApart` (`NoOverlap`), `NeverHandedOutTwice`
  (`HandsOutUnheld`) and `HeldTracked` (`HeldIsInUse`). The argument: a step
  either keeps the shape of the list (`SameShape`) or appends a block whose
  header lies a header and a pointer past the old break (`Grows`); a block that
  the list marks free is nobody's (`FreeIsUnheld`). Each
  header lies at least a header and a pointer behind the start of every payload
  before it (`Spaced`): so long may a payload be before it reaches a block that
  is not its own.
* `HeapRefinementProofs`. `HeapRefines` (`HeapImplementsAllocSpec`) under
  `ShortRequests` (no request is longer than a header and a pointer; a longer
  name reaches the next header, so regions need not be apart) and for sizes that
  are not negative: every step maps to a step of `AllocSpec` or to none. It
  rests on the theorems above and on `NullTail`: blocks without memory are the
  last ones of the list, and the heap has then no room for another header and
  payload (`Tight`), so that the search for a free block has looked at every
  block with a payload before it answers with NULL.
* `FramesProofs`. `FramesTypeCorrect`, `FramesNeverShared` (`FramesExclusive`),
  `CountIsRight` (`CountMatchesMap`), `TornByScatter` (`TornOnlyWhenScattered`)
  and `NoFrameHidden` (`RefusedOnlyWhenNone`) for requests of any number of
  frames and any map, under `CountsAllFrames`: the counter can hold the number of
  frames and one more. Setting or clearing frames moves the wrapping count by as
  many. While the free frames are one run inside a word (`OneRun`), the count
  says that the run is long enough, and the search answers the first of it;
  `OneRun` appears nowhere in the specification, only in what a torn run
  presupposes.
* `ConsoleProofs`. `PointerBounded` (`PointerNearScreen`) for every screen, all
  messages and every prompt that ends in a character, and `ConsoleTypeCorrect`.
  The bound is not inductive: `IInv` adds that what a handler has left to do
  ends in a character, so the pointer is back on the screen when it returns, and
  that `kmain`'s copy of the pointer was taken after a check.
  `EchoAgrees` (`EchoInSync`), `StoresMeetScreen` (`StoresOnScreen`) and
  `PromptAtLeftEdge` (`PromptStartsRow`) hold for lines of any length. `EchoInv`
  says that what a handler has left ends in the reset of the buffer and the
  prompt, whatever malloc's warnings put in front, so that the buffer is empty
  when the prompt is out, and that behind a prompt on the screen the pointer is
  never in front of it: what a newline leaves past the end the check of the next
  character brings back. `RowInv` says that what comes before that reset closes
  its line or clears the screen, and how far along its row the prompt has come;
  it rests on `MessagesEndLines`, which names what the strings of `console.h`
  and `memory.c` end with. `StoresOnScreen` asks for a prompt that stands on the
  screen (`line > 0`): Backspace can follow a long line that ran over the end of
  the screen to more than two rows in front of it, and with a message of fewer
  rows the next prompt would begin there too. TLC shows that with lines of 16
  keys on a screen of six cells.
* `InterruptsProofs`. `NoLineShutOut` (`NothingInService`),
  `NoInterruptTooEarly` (`VectorsHaveGates`), `StubsBalance` (`StackBalanced`),
  `FlagsComeBack` (`FlagsRestored`) and `InterruptsTypeCorrect` for every set of
  exceptions of ring 0; `KeyboardNeverDeaf` (`KeyboardHeard`) when no key comes
  before the keyboard is registered. `IInv` says what each step of the start has
  set up, that at most one handler runs, that the lines in service are those of
  the vector on its frame, and that an exception lies as one frame of the same
  size over it: the lemmas `FrameWords` and `Uncovered` say that each frame has
  fifteen words with the vector and the flags in their places, and that taking
  it off leaves what was under it.

* `IdeProofs`. `RegistersNameSector`: what the driver computes for the
  registers is the address that the drive computes from them, in each mode, for
  all widths and geometries. `IdeTypeCorrect`, `TableIsComplete` (`TableListsDrives`) and
  `DriveTakesCommand` (`CommandsAccepted`) for every machine and all requests.
  `IInv` says for each place of the driver what the drive it talks to can be
  doing and how many sectors are left on both sides (`Active`), that all others
  rest, and what the table has of the slots probed so far. A packet drive may
  still be busy with its identification when the driver has gone on (`Parked`);
  no access reaches it.
* `IdeTransferProofs`. `ReadsDeliver` (`ReadDelivers`) whatever errors occur, and
  `WritesArrive` (`WriteReachesDrive`) on drives without errors, for requests
  whose end neither wraps nor lies over the 28-bit limit. Both assume
  `CylindersFit`: a drive without LBA is no larger than sixteen bits of cylinders
  can address; the code cuts a larger cylinder number off.
* `Ext2Proofs`. `ReaderIsSound` for every heap, disk, path, number of commands
  and value of an uninitialised pointer; from it `SuperblockKept`
  (`GeometryIntact`), `WalksEnd` (`ListEnds`) and `BlockPointerIsOwn`
  (`BlockPointerFromDisk`). The assumptions are `SizeAssumption` (memory holds
  the heap and a sector behind it; `MaxBlocks` headers fill the heap),
  `Ext2Assumption` and `DiskAssumption` (a disk as `mkdisk.sh` makes it: the
  logarithm of the block size is 0, the blocks of a group are not, and
  `Pointer` says where the format places block 0 of the inodes of the first
  group).

  None of the properties is inductive. The invariant (`Sound`) says that some
  set `S` of addresses is `Reliable`: the first header lies at 20, headers are
  at least 20 bytes apart, below the break, and every `__next` is NULL or a
  higher member of `S`. Such a list has fewer than `MaxBlocks` members, so each
  walk ends at the one whose `__next` is NULL (`WalkEnds`, by the bound on a
  rising walk), and a new header can only lie past all others. The superblock
  lands on the first header: `is_free` becomes 0, `__next` NULL and `__data` the
  number of blocks in a group. So the invariant must say which blocks can be free
  (`FreeAsKnown`): before the mount the first one, when CLEAR had asked for it
  (two bytes), and one for which brk found no payload. Later objects overwrite
  the `__data` by which `free` would find them. Every step of a command then needs to know about its
  pointer: a buffer that a sector goes to is the newest allocation (`Newest`),
  a name that is copied meets no header (`Copyable`), and the object that is
  freed is none that the list knows (`Freeable`). The order of steps that
  `ext2.c` nests (`Ordered`) carries this from one step to the next. `Located`
  follows an inode's number through `Locate`, the descriptor, the table and the
  header that the next malloc writes into the table's buffer.

Only model-checked:

* Liveness (`KmainFinishes`, `DriverAnswers`, `KeysAreRead`, `CommandsEnd`),
  which is out of the prover's reach.
* `GeometryIntact` and `ListEnds` after a command came inside `kmain`'s malloc
  (`causes = {"race"}`): the theorems stop there, because two mallocs have then
  taken turns at the break and two headers may overlap. TLC follows it at each
  of the five points.
* `AnswerNamesEntry`: which entries a search sees depends on where headers land
  in the directory's buffer, byte by byte.
* `CatReadsFile` and the other properties of violated runs.

## 5. What the violations say of the code

* brk's answer is the end of the reservation (`memory.c:345`), so a first block of
  up to 11 bytes and a later one of up to 3 lie on their own header, and blocks of
  more than 20 bytes reach the next.
* A kernel API object lies on its own header; `free` does not find it
  (`console.c:55`, `kapi.c`), and each HALT, REBOOT or CLEAR leaks a block.
* The flush goes out while the last sector is being stored (`ide.c:458`).
* Write errors are dropped (`ide.c:450`).
* A key before `__kstd_enable_keyboard` silences the keyboard (`isr.c:128`).
* CAT reads the root directory's block (`console.c:16`, `ext2.c:218`).

The first of these needs no run of its own: `console_free` is its consequence
for the kernel.

## 6. Not modelled

* `ext2_ls`, `get_inode_type`, `rewrite_bgds`: nothing calls them; `ext2_init`
  prints a verdict that nothing looks at.
* What CAT prints: bytes of a buffer, with no end but a zero somewhere.
* Two readers of one IDE channel at once, CAT inside `read_superblock`: in
  `Ext2` a transfer is one step.
* The process list: nothing schedules or creates a process. Number formatting
  and `printf`, tabs, the hardware cursor, GDT, port instructions, the register
  windows of the IDE controller, `ata_get_drive_by_model`, build scripts.
  calloc and realloc have no body.

## 7. Plan

What is left, in this order:

1. `AnswerNamesEntry` as a theorem: what the invariant needs is which bytes of
   the directory's buffer a header has covered when an entry is read.
2. `GeometryIntact` and `ListEnds` after a race, with the invariant of two
   overlapping mallocs.
3. The drive's registers in `Ext2`'s reads, so that two readers of one channel
   can meet.
4. `Strings`, the conversions against reference definitions.
