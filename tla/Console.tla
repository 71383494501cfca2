------------------------------ MODULE Console -------------------------------
(***************************************************************************)
(* The interactive half of the kernel: the keyboard interrupt echoes a key *)
(* or, at Enter, runs a command and prints the prompt (keyboard.c,         *)
(* console.c, kapi.c), over the text screen of vga.c and the heap.         *)
(*                                                                         *)
(* Two activities share VIDEO_POINTER_SIZE.  The interrupt handler runs    *)
(* with interrupts off, so nothing comes between its calls: each is one    *)
(* step, and what is left to do is the sequence work.  kmain prints its    *)
(* last messages with interrupts on: main is the text it has left, pc      *)
(* where it is inside __kstd_vga_putchar, reg the copy of the pointer that *)
(* the compiled read-modify-write holds, depth how many                    *)
(* __kstd_vga_clear loops are on its stack.                                *)
(*                                                                         *)
(* Text is abstracted to printing characters "c" and newlines "nl", and a  *)
(* command word to a single key.                                           *)
(***************************************************************************)
EXTENDS Integers, Sequences, FiniteSets

CONSTANTS
    Cols, Rows,        \* SCREEN_SIZE_COLS, SCREEN_SIZE_ROWS: 80 and 25
    Keys,              \* keys the user may type, HALT, ... among them
    MaxLine,           \* bound on the characters of a line
    MaxDepth,          \* bound on clear loops nested in clear loops
    MaxBehind,         \* bound on the bytes Backspace reaches in front of video memory
    BootText,          \* what kmain still prints
    Prompt,            \* "root@candleos > "
    UnknownMsg, HelpMsg, SyscallMsg, BlockMsg, TotalMsg, WarnMsg,
    Start, Total, HeaderSize, PtrSize,
    BootUsed, BootBlocks   \* the heap that kmain leaves behind

Text == Seq({"c", "nl"})

(* What an interrupt handler may have left to do. *)
Ops == {"c", "nl", "malloc", "fill", "free", "clear", "halt", "reboot", "reset"}

ASSUME ConsoleAssumption ==
    /\ Cols \in Nat \ {0, 1} /\ Rows \in Nat \ {0}
    /\ MaxLine \in Nat /\ MaxDepth \in Nat /\ MaxBehind \in Nat
    /\ BootText \in Text
    /\ UnknownMsg \in Text /\ HelpMsg \in Text /\ SyscallMsg \in Text
    /\ BlockMsg \in Text /\ TotalMsg \in Text /\ WarnMsg \in Text
    /\ Prompt \in Text /\ Prompt # <<>> /\ Prompt[Len(Prompt)] = "c"

(* The command messages end their lines, and the prompt stays on its own.  *)
ASSUME MessagesEndLines ==
    /\ HelpMsg # <<>> /\ HelpMsg[Len(HelpMsg)] = "nl"
    /\ TotalMsg # <<>> /\ TotalMsg[Len(TotalMsg)] = "nl"
    /\ \A k \in 1 .. Len(Prompt) : Prompt[k] = "c"

ASSUME BootHeapAssumption ==
    /\ Start \in Nat /\ Total \in Nat
    /\ HeaderSize \in Nat \ {0} /\ PtrSize \in Nat \ {0}
    /\ BootUsed \in Nat
    /\ BootBlocks # <<>>   \* read_superblock has called malloc
    /\ BootBlocks \in Seq([hdr : Nat, size : Nat, free : BOOLEAN, data : Nat])

NULL == 0
ObjSize == 2   \* sizeof(__kstd_kapi_t)

VARIABLES
    ptr,      \* VIDEO_POINTER_SIZE of vga.c: a byte offset into video memory
    buffer,   \* __kstd_keyboard_buffer
    work,     \* what the interrupt handler still has to do
    mode,     \* "running", or "halted" by hlt with interrupts off
    obj,      \* the kapi object of the running command
    main, pc, reg, depth,
    stored,   \* offset of the last byte pair stored in video memory
    line,     \* where the echo of the current line began
    synced,   \* since then only keys and commands have moved ptr, and
              \* the echo has not run over the end of the screen
    used, blocks, held, reply

kernel == <<main, pc, reg, depth>>
heap == <<used, blocks, held, reply>>
echo == <<line, synced>>
vars == <<ptr, buffer, work, mode, obj, kernel, stored, echo, heap>>

(* Nobody stores in a payload here but Fill, which says what it hits. *)
H == INSTANCE Heap WITH Sizes <- {ObjSize}, spoilt <- {}, wild <- FALSE

None == -1    \* no byte was stored by the last step
Screen == 2 * Cols * Rows
-----------------------------------------------------------------------------
(* Slips a change to this code could make stand before the definition they *)
(* change; Spec uses none of them.                                         *)

(* vga.c: C division truncates toward zero. *)
RowOf(p) == IF p >= 0 THEN p \div (2 * Cols) ELSE -((-p) \div (2 * Cols))
Newline(p) == 2 * Cols * (RowOf(p) + 1)

(* __kstd_vga_putchar starts over at the top of a full screen. *)
AfterCheckUnchecked(p) == p
AfterCheck(p) == IF p >= Screen THEN 0 ELSE p

PutChar(c) ==
    LET p == AfterCheck(ptr)
    IN  IF c = "nl"
        THEN ptr' = Newline(p) /\ stored' = None
        ELSE ptr' = p + 2 /\ stored' = p
-----------------------------------------------------------------------------
(* The keyboard interrupt and the commands. *)

Idle == work = <<>> /\ mode = "running"

Syscall(last) == <<"malloc", "fill", "free">> \o SyscallMsg \o <<last>>

(* kstd_mem_print_blocks: a report for every header, then the count. *)
BlockReport == [k \in 1 .. Len(blocks) * Len(BlockMsg) |->
                  BlockMsg[((k - 1) % Len(BlockMsg)) + 1]]

Typed == [k \in 1 .. Len(buffer) |-> "c"]

Command ==
    [HALT   |-> Syscall("halt"),
     REBOOT |-> Syscall("reboot"),
     HELP   |-> HelpMsg,
     MPRINT |-> BlockReport \o TotalMsg,
     CLEAR  |-> Syscall("clear")]

RunCommandNoNewline ==
    IF Len(buffer) = 1 /\ buffer[1] \in DOMAIN Command
    THEN Command[buffer[1]]
    ELSE UnknownMsg \o Typed

RunCommand ==
    IF Len(buffer) = 1 /\ buffer[1] \in DOMAIN Command
    THEN Command[buffer[1]]
    ELSE UnknownMsg \o Typed \o <<"nl">>

PressKey(k) ==
    /\ Idle
    /\ Len(buffer) < MaxLine
    /\ buffer' = Append(buffer, k)
    /\ PutChar("c")
    /\ synced' = (synced /\ ptr < Screen)   \* a full screen starts over
    /\ UNCHANGED <<work, mode, obj, kernel, line, heap>>

BackspaceAlways ==
    /\ Idle
    /\ ptr > -MaxBehind
    /\ buffer' = SubSeq(buffer, 1, Len(buffer) - 1)
    /\ ptr' = ptr - 2
    /\ stored' = ptr - 2
    /\ UNCHANGED <<work, mode, obj, kernel, echo, heap>>

PressBackspace ==
    /\ Idle
    /\ Len(buffer) > 0
    /\ ptr > -MaxBehind
    /\ buffer' = SubSeq(buffer, 1, Len(buffer) - 1)
    /\ ptr' = ptr - 2
    /\ stored' = ptr - 2
    /\ UNCHANGED <<work, mode, obj, kernel, echo, heap>>

(* The newline is not checked against the screen; the next character is. *)
PressEnter ==
    /\ Idle
    /\ ptr' = Newline(ptr)
    /\ stored' = None
    /\ work' = RunCommand \o <<"reset">> \o Prompt
    /\ UNCHANGED <<buffer, mode, obj, kernel, echo, heap>>
-----------------------------------------------------------------------------
(* The steps of a running command. *)

Doing(op) == work # <<>> /\ mode = "running" /\ Head(work) = op

Write ==
    /\ \E c \in {"c", "nl"} : Doing(c) /\ PutChar(c)
    /\ work' = Tail(work)
    /\ IF Len(work) = 1 THEN line' = ptr' /\ synced' = TRUE ELSE UNCHANGED echo
    /\ UNCHANGED <<buffer, mode, obj, kernel, heap>>

(* kstd_mem_brk warns on the screen each time it finds no room. *)
Warned(b) == IF b.addr = NULL THEN WarnMsg ELSE <<>>

Warnings ==
    IF H!Fits(ObjSize) # {} THEN <<>>
    ELSE LET h == H!Brk(used, HeaderSize)
             lost == H!Brk(h.used, ObjSize)
             d == H!Brk(lost.used, ObjSize)
         IN  Warned(h) \o Warned(lost) \o Warned(d)

(* The list is not empty: read_superblock has called malloc. *)
Malloc ==
    /\ Doing("malloc")
    /\ H!MallocReuse(ObjSize) \/ H!MallocNew(ObjSize)
    /\ obj' = reply'.addr
    /\ work' = Warnings \o Tail(work)
    /\ stored' = None
    /\ UNCHANGED <<ptr, buffer, mode, kernel, echo>>

(* __obj->__call and __obj->__vlid = KAPI_ACTIVE.  The object may lie on   *)
(* the two low bytes of a header's __data field, which it then overwrites. *)
CallNumber ==
    IF buffer = <<"HALT">> THEN 1 ELSE IF buffer = <<"REBOOT">> THEN 3 ELSE 4
ObjectBytes == CallNumber + 256 * 10

Fill ==
    /\ Doing("fill")
    /\ blocks' = [i \in DOMAIN blocks |->
          IF obj # blocks[i].hdr + HeaderSize - PtrSize THEN blocks[i]
          ELSE [blocks[i] EXCEPT
                  !.data = ObjectBytes + 65536 * (blocks[i].data \div 65536)]]
    /\ work' = Tail(work)
    /\ stored' = None
    /\ UNCHANGED <<ptr, buffer, mode, obj, kernel, echo, used, held, reply>>

(* __kstd_kapi_run frees the object before it acts. *)
Free ==
    /\ Doing("free")
    /\ H!Free(obj)
    /\ work' = Tail(work)
    /\ stored' = None
    /\ UNCHANGED <<ptr, buffer, mode, obj, kernel, echo>>

(* __kstd_vga_clear with interrupts off. *)
Clear ==
    /\ Doing("clear")
    /\ ptr' = 0
    /\ stored' = None
    /\ work' = Tail(work)
    /\ UNCHANGED <<buffer, mode, obj, kernel, echo, heap>>

(* hlt with interrupts off: nothing wakes the processor. *)
Halt ==
    /\ Doing("halt")
    /\ mode' = "halted"
    /\ work' = Tail(work)
    /\ stored' = None
    /\ UNCHANGED <<ptr, buffer, obj, kernel, echo, heap>>

ResetBuffer ==
    /\ Doing("reset")
    /\ buffer' = <<>>
    /\ obj' = NULL
    /\ stored' = None
    /\ work' = Tail(work)
    /\ UNCHANGED <<ptr, mode, kernel, echo, heap>>
-----------------------------------------------------------------------------
(* The machine when kmain reaches its last messages. *)
Init ==
    /\ ptr \in {2 * k : k \in 0 .. Cols * Rows}
    /\ buffer = <<>>
    /\ work = <<>>
    /\ mode = "running"
    /\ obj = NULL
    /\ main = BootText /\ pc = "check" /\ reg = 0 /\ depth = 0
    /\ stored = None
    /\ line = 0 /\ synced = FALSE
    /\ used = BootUsed /\ blocks = BootBlocks
    /\ held = {} /\ reply = [n |-> 0, addr |-> NULL]

(* An empty IDT and int3: the processor resets and the kernel boots again. *)
Reboot ==
    /\ Doing("reboot")
    /\ ptr' \in {2 * k : k \in 0 .. Cols * Rows}
    /\ buffer' = <<>> /\ work' = <<>> /\ mode' = "running" /\ obj' = NULL
    /\ main' = BootText /\ pc' = "check" /\ reg' = 0 /\ depth' = 0
    /\ stored' = None
    /\ line' = 0 /\ synced' = FALSE
    /\ used' = BootUsed /\ blocks' = BootBlocks
    /\ held' = {} /\ reply' = [n |-> 0, addr |-> NULL]
-----------------------------------------------------------------------------
(* kmain inside __kstd_vga_putchar.  It runs only between interrupts.      *)

At(l) == Idle /\ main # <<>> /\ pc = l
Glyph == IF depth > 0 THEN "c" ELSE Head(main)
Elsewhere == UNCHANGED <<buffer, work, mode, obj, line, heap>>

MainCheck ==
    /\ At("check")
    /\ IF ptr >= Screen
       THEN /\ depth < MaxDepth
            /\ ptr' = 0 /\ depth' = depth + 1 /\ pc' = "fill" /\ synced' = FALSE
       ELSE /\ pc' = IF Glyph = "nl" THEN "newline" ELSE "glyph"
            /\ UNCHANGED <<ptr, depth, synced>>
    /\ stored' = None
    /\ UNCHANGED <<main, reg>> /\ Elsewhere

(* while (__viter < SCREEN_SIZE): another blank, or back to the top.       *)
(* __viter is unsigned, so a pointer that Backspace took below zero ends   *)
(* the loop.                                                               *)
MainFillRestarts ==
    /\ At("fill")
    /\ IF ptr \in 0 .. Screen - 1
       THEN pc' = "check" /\ ptr' = 0 /\ UNCHANGED <<depth, synced>>
       ELSE /\ ptr' = 0 /\ depth' = depth - 1 /\ synced' = FALSE
            /\ pc' = IF depth = 1 /\ Head(main) = "nl" THEN "newline" ELSE "glyph"
    /\ stored' = None
    /\ UNCHANGED <<main, reg>> /\ Elsewhere

MainFill ==
    /\ At("fill")
    /\ IF ptr \in 0 .. Screen - 1
       THEN pc' = "check" /\ UNCHANGED <<ptr, depth, synced>>
       ELSE /\ ptr' = 0 /\ depth' = depth - 1 /\ synced' = FALSE
            /\ pc' = IF depth = 1 /\ Head(main) = "nl" THEN "newline" ELSE "glyph"
    /\ stored' = None
    /\ UNCHANGED <<main, reg>> /\ Elsewhere

MainStore ==
    /\ \/ At("glyph") /\ pc' = "attr" /\ stored' = ptr
       \/ At("attr") /\ pc' = "load" /\ stored' = ptr + 1
    /\ UNCHANGED <<ptr, main, reg, depth, synced>> /\ Elsewhere

(* The pointer is read, changed in a register and written back. *)
MainLoad ==
    /\ \/ At("load") /\ pc' = "advance"
       \/ At("newline") /\ pc' = "wrap"
    /\ reg' = ptr
    /\ stored' = None
    /\ UNCHANGED <<ptr, main, depth, synced>> /\ Elsewhere

MainWriteBack ==
    /\ \/ At("advance") /\ ptr' = reg + 2
       \/ At("wrap") /\ ptr' = Newline(reg)
    /\ reg' = 0
    /\ synced' = FALSE
    /\ stored' = None
    /\ IF depth > 0 THEN pc' = "fill" /\ main' = main
                    ELSE pc' = "check" /\ main' = Tail(main)
    /\ UNCHANGED depth /\ Elsewhere

Handler ==
    Write \/ Malloc \/ Fill \/ Free \/ Clear \/ Halt \/ ResetBuffer \/ Reboot

Kernel == MainCheck \/ MainFill \/ MainStore \/ MainLoad \/ MainWriteBack

Next ==
    \/ \E k \in Keys : PressKey(k)
    \/ PressBackspace
    \/ PressEnter
    \/ Handler
    \/ Kernel

Spec == Init /\ [][Next]_vars

(* A handler with interrupts off keeps the processor, and kmain has it in  *)
(* between.                                                                *)
FairSpec == Spec /\ WF_vars(Handler) /\ WF_vars(Kernel)
-----------------------------------------------------------------------------
TypeOK ==
    /\ ptr \in Int /\ stored \in Int /\ reg \in Int /\ line \in Int
    /\ work \in Seq(Ops)
    /\ buffer \in Seq(Keys)
    /\ mode \in {"running", "halted"}
    /\ main \in Text
    /\ pc \in {"check", "fill", "glyph", "attr", "load", "newline",
              "advance", "wrap"}
    /\ depth \in Nat
    /\ synced \in BOOLEAN

(* A character is echoed where the line left off: the pointer is as far    *)
(* behind the prompt as the buffer is long, so that Backspace erases what  *)
(* was typed and never the prompt.  Holds unless the line has run over the *)
(* end of the screen, or kmain has printed into it.                        *)
EchoInSync == Idle /\ synced => ptr = line + 2 * Len(buffer)

(* The prompt begins a row, whatever the command before it printed.        *)
PromptStartsRow == synced => (line - 2 * Len(Prompt)) % (2 * Cols) = 0

(* Behind a prompt that stands on the screen nothing is stored in front of *)
(* video memory, and once kmain has printed its last nothing behind it:    *)
(* not by echo, Backspace or anything the next command prints, although    *)
(* neither newline nor Backspace checks the pointer.  A line that ran over *)
(* the end of the screen is the exception: Backspace follows it in front   *)
(* of the screen, and from more than two rows there so does the next       *)
(* prompt.                                                                 *)
StoresOnScreen ==
    synced /\ line > 0 => /\ stored >= None
                          /\ main = <<>> => stored < Screen

(* With kmain interrupted between its check of the pointer and its store,  *)
(* or inside a newline, a store may pass the end of the screen, by at most *)
(* one row; a handler's newlines take the pointer at most one row further. *)
PointerNearScreen ==
    /\ ptr <= Screen + 4 * Cols
    /\ Idle => ptr <= Screen + 2 * Cols
    /\ stored < Screen + 2 * Cols

(* kmain prints its last character, unless a command halts the machine,    *)
(* if the user ever stops typing: keys that fall into the loop of          *)
(* __kstd_vga_clear move the pointer it counts with, and start further     *)
(* loops inside it, but all of them end.                                   *)
Pressed == PressBackspace \/ PressEnter \/ \E k \in Keys : PressKey(k)

KmainFinishes ==
    \/ []<><<Pressed>>_vars
    \/ <>(main = <<>> \/ mode = "halted" \/ depth = MaxDepth)

(* Freeing the object of a command marks a block as free (memory.h:22).    *)
FreeingMarksABlock ==
    [][Free /\ obj # NULL => \E i \in DOMAIN blocks' : blocks'[i].free]_vars
=============================================================================
