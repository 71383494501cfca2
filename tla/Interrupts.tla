----------------------------- MODULE Interrupts -----------------------------
(***************************************************************************)
(* From a device's request to the C handler and back: the IDT and the PIC  *)
(* as __kstd_isr_enable sets them up, the stubs of interrupts.asm, the     *)
(* dispatch and acknowledgement in __kstd_irq_handler, and the place of    *)
(* all this in kmain's start.                                              *)
(*                                                                         *)
(* The 8259 pair, the keyboard controller, the timer and the disk are not  *)
(* part of the repository.  They work on their own while kmain and the     *)
(* handlers run.  A request is an edge: the keyboard controller raises its *)
(* line when a scancode enters its one-place output buffer, and cannot     *)
(* raise it again before port 0x60 is read; ICW1 forgets edges.            *)
(* An exception may come at any instruction of kmain and of a handler.     *)
(***************************************************************************)
EXTENDS Integers, Sequences, FiniteSets

CONSTANTS
    EarlyKeys,    \* may keys be pressed before the keyboard is enabled?
    MaxWaiting,   \* bound on the scancodes the keyboard itself holds
    Exceptions    \* vectors of the exceptions that may come

(* Ring 0 makes no alignment check, and the rest are reserved. *)
ASSUME InterruptsAssumption ==
    /\ EarlyKeys \in BOOLEAN
    /\ MaxWaiting \in Nat \ {0}
    /\ Exceptions \subseteq 0 .. 19 \ {17}

Line == 0 .. 15
Timer == 0
Keyboard == 1
Cascade == 2     \* the slave's place on the master
Disk == 14
IRQ0 == 32
Vector == 0 .. IRQ0 + 15

VARIABLES
    boot,       \* what kmain does next: see BootStep
    enabled,    \* the interrupt flag of the processor
    gates,      \* vectors with a gate in the IDT
    loaded,     \* lidt has been executed
    base,       \* the vectors of lines 0 and 8
    handlers,   \* vectors with an entry in __kstd_interrupt_handlers
    irr, inService,  \* requests and in-service bits of both PICs
    waiting,    \* scancodes in the keyboard
    full,       \* the output buffer behind port 0x60 holds one
    intrq,      \* the disk's interrupt line
    cpu,        \* "kmain", where the handler is, or "trap"
    trapped,    \* where the exception that is handled came
    stack       \* what interrupts have pushed, the last word first

idt == <<gates, loaded, handlers>>
pic == <<base, irr, inService>>
kbd == <<waiting, full>>
run == <<cpu, trapped, stack>>
vars == <<boot, enabled, idt, pic, kbd, intrq, run>>

Master == 0 .. 7
Slave == 8 .. 15
-----------------------------------------------------------------------------
(* The stubs.  registers_t names the words from the last one pushed.       *)

Registers == <<"ds", "edi", "esi", "ebp", "esp", "ebx", "edx", "ecx", "eax",
               "int_no", "err_code", "eip", "cs", "eflags">>

IntNo == 10    \* the places of int_no and eflags in registers_t
EFlags == 14

CpuPushesError(v) == v \in {8, 17} \cup 10 .. 14

StubAlwaysPushes(v) == v >= 0

(* isr0 to isr31 push a code where the processor pushes none, irq0 to      *)
(* irq15 their line.                                                       *)
StubPushesError(v) == v \notin {8} \cup 10 .. 14

Code(v) ==
    (IF StubPushesError(v) THEN <<"err_code">> ELSE <<>>)
      \o (IF CpuPushesError(v) THEN <<"err_code">> ELSE <<>>)

(* Every stub pushes its vector; the common stubs save the registers and   *)
(* pass their address.  The stub that runs is the one of the vector's gate. *)
Frame(v) ==
    <<"regs">> \o SubSeq(Registers, 1, 9) \o <<v>> \o Code(v)
      \o <<"eip", "cs", IF enabled THEN "on" ELSE "off">>

UnwindKeepsNumbers == SubSeq(stack, 1 + 1 + 8 + 3 + 1, Len(stack))

(* pop the address, pop ds, popa, add esp 8, iret *)
Unwind == SubSeq(stack, 1 + 1 + 8 + 2 + 3 + 1, Len(stack))

(* __regs->int_no *)
Number == stack[1 + IntNo]

ResumeOn == stack' = Unwind /\ enabled' = TRUE

(* The flags are part of what iret takes. *)
Resume == stack' = Unwind /\ enabled' = (stack[1 + EFlags] = "on")

(* Where kmain or the handler is, and its stack, below an exception. *)
Place == IF cpu = "trap" THEN trapped ELSE cpu
Below == IF cpu = "trap" THEN SubSeq(stack, Len(Registers) + 2, Len(stack)) ELSE stack
Handled == Below[1 + IntNo]
-----------------------------------------------------------------------------
(* The devices. *)

PressKey ==
    /\ EarlyKeys \/ IRQ0 + Keyboard \in handlers
    /\ waiting < MaxWaiting
    /\ waiting' = waiting + 1
    /\ UNCHANGED <<boot, enabled, idt, pic, full, intrq, run>>

Scancode ==
    /\ waiting > 0 /\ ~full
    /\ waiting' = waiting - 1
    /\ full' = TRUE
    /\ irr' = irr \cup {Keyboard}
    /\ UNCHANGED <<boot, enabled, idt, base, inService, intrq, run>>

(* A tick takes longer than the handler of the one before. *)
Tick ==
    /\ Timer \notin irr
    /\ ~(Place \in {"dispatch", "ack", "return"} /\ Handled = IRQ0 + Timer)
    /\ irr' = irr \cup {Timer}
    /\ UNCHANGED <<boot, enabled, idt, base, inService, kbd, intrq, run>>

DiskDone ==
    /\ ~intrq
    /\ intrq' = TRUE
    /\ irr' = irr \cup {Disk}
    /\ UNCHANGED <<boot, enabled, idt, base, inService, kbd, run>>
-----------------------------------------------------------------------------
(* kmain: __kstd_isr_enable, then __kstd_enable_keyboard. *)

At(step, next) == cpu = "kmain" /\ boot = step /\ boot' = next

ExceptionGates ==
    /\ At("exceptions", "remap")
    /\ gates' = gates \cup 0 .. 31
    /\ UNCHANGED <<enabled, loaded, handlers, pic, kbd, intrq, run>>

RemapLeavesVectors ==
    /\ At("remap", "irqs")
    /\ base' = [master |-> 8, slave |-> 112]
    /\ irr' = {} /\ inService' = {}
    /\ UNCHANGED <<enabled, idt, kbd, intrq, run>>

(* ICW1 to ICW4 for both PICs, and no line masked. *)
Remap ==
    /\ At("remap", "irqs")
    /\ base' = [master |-> IRQ0, slave |-> IRQ0 + 8]
    /\ irr' = {} /\ inService' = {}
    /\ UNCHANGED <<enabled, idt, kbd, intrq, run>>

IrqGates ==
    /\ At("irqs", "load")
    /\ gates' = gates \cup IRQ0 .. IRQ0 + 15
    /\ UNCHANGED <<enabled, loaded, handlers, pic, kbd, intrq, run>>

LoadIdt ==
    /\ At("load", "sti")
    /\ loaded' = TRUE
    /\ UNCHANGED <<enabled, gates, handlers, pic, kbd, intrq, run>>

Sti ==
    /\ At("sti", "register")
    /\ enabled' = TRUE
    /\ UNCHANGED <<idt, pic, kbd, intrq, run>>

RegisterKeyboard ==
    /\ At("register", "running")
    /\ handlers' = handlers \cup {IRQ0 + Keyboard}
    /\ UNCHANGED <<enabled, gates, loaded, pic, kbd, intrq, run>>

BootStep ==
    ExceptionGates \/ Remap \/ IrqGates \/ LoadIdt \/ Sti \/ RegisterKeyboard

(* A poll of the disk's status, by kmain or by a command, drops its line.  *)
PollDisk ==
    /\ boot = "running" /\ cpu \in {"kmain", "command"}
    /\ intrq
    /\ intrq' = FALSE
    /\ irr' = irr \ {Disk}
    /\ UNCHANGED <<boot, enabled, idt, base, inService, kbd, run>>
-----------------------------------------------------------------------------
(* The processor takes an interrupt. *)

(* The PICs serve no line while one of its rank or above is in service. *)
Blocked(n) ==
    \/ n \in Master /\ \E m \in inService \cap Master : m <= n
    \/ n \in Slave /\ \/ \E m \in inService \cap Master : m <= Cascade
                      \/ \E m \in inService \cap Slave : m <= n

Rank(n) == IF n \in Slave THEN 16 * Cascade + n ELSE 16 * n
First(n) == \A m \in irr : Blocked(m) \/ Rank(n) <= Rank(m)
VectorOf(n) ==
    IF n \in Master THEN base.master + n ELSE base.slave + n - 8

(* An interrupt gate clears the interrupt flag. *)
Enter(v) ==
    /\ cpu = "kmain" /\ enabled
    /\ enabled' = FALSE
    /\ cpu' = "dispatch"
    /\ stack' = Frame(v) \o stack
    /\ UNCHANGED <<boot, idt, base, kbd, trapped>>

Accept(n) ==
    /\ n \in irr /\ ~Blocked(n) /\ First(n)
    /\ Enter(VectorOf(n))
    /\ irr' = irr \ {n}
    /\ inService' = inService \cup
                      IF n \in Slave THEN {n, Cascade} ELSE {n}
    /\ UNCHANGED intrq

(* A poll drops the disk's line when the processor has just taken its      *)
(* interrupt: the slave answers with its last vector, nothing in service.  *)
Spurious ==
    /\ boot = "running" /\ intrq
    /\ Disk \in irr /\ ~Blocked(Disk) /\ First(Disk)
    /\ Enter(VectorOf(15))
    /\ intrq' = FALSE
    /\ irr' = irr \ {Disk}
    /\ inService' = inService \cup {Cascade}
-----------------------------------------------------------------------------
(* __kstd_irq_handler, with interrupts off. *)

DispatchUnread ==
    /\ cpu = "dispatch"
    /\ cpu' = IF Number \in handlers THEN "command" ELSE "ack"
    /\ UNCHANGED <<boot, enabled, idt, pic, kbd, intrq, trapped, stack>>

(* The keyboard's callback begins by reading port 0x60. *)
Dispatch ==
    /\ cpu = "dispatch"
    /\ IF Number \in handlers
       THEN cpu' = "command" /\ full' = FALSE
       ELSE cpu' = "ack" /\ full' = full
    /\ UNCHANGED <<boot, enabled, idt, pic, waiting, intrq, trapped, stack>>

(* The callback returns, or HALT stops the processor. *)
Command ==
    /\ cpu = "command"
    /\ cpu' \in {"ack", "halted"}
    /\ UNCHANGED <<boot, enabled, idt, pic, kbd, intrq, trapped, stack>>

(* A non-specific EOI ends the highest of the lines in service. *)
Eoi(S) == {n \in inService \cap S : \E m \in inService \cap S : m < n}

EndOfInterruptPastSlave(v) ==
    Eoi(Master) \cup IF v > IRQ0 + Disk THEN Eoi(Slave) ELSE inService \cap Slave

EndOfInterruptWithHandler(v) ==
    IF v \in handlers THEN Eoi(Master) \cup (inService \cap Slave) ELSE inService

(* Port 0xA0 for the slave's vectors, then port 0x20. *)
EndOfInterrupt(v) ==
    Eoi(Master) \cup IF v >= 40 THEN Eoi(Slave) ELSE inService \cap Slave

Acknowledge ==
    /\ cpu = "ack"
    /\ inService' = EndOfInterrupt(Number)
    /\ cpu' = "return"
    /\ UNCHANGED <<boot, enabled, idt, base, irr, kbd, intrq, trapped, stack>>

Return ==
    /\ cpu = "return"
    /\ Resume
    /\ cpu' = "kmain"
    /\ UNCHANGED <<boot, idt, pic, kbd, intrq, trapped>>

HandlerStep == Dispatch \/ Command \/ Acknowledge \/ Return
-----------------------------------------------------------------------------
(* An exception, in kmain or in a handler.  __kstd_isr_handler returns.    *)

Exception(v) ==
    /\ loaded
    /\ cpu \notin {"trap", "halted"}
    /\ stack' = Frame(v) \o stack
    /\ enabled' = FALSE
    /\ trapped' = cpu /\ cpu' = "trap"
    /\ UNCHANGED <<boot, idt, pic, kbd, intrq>>

LeaveException ==
    /\ cpu = "trap"
    /\ Resume
    /\ cpu' = trapped /\ trapped' = "none"
    /\ UNCHANGED <<boot, idt, pic, kbd, intrq>>
-----------------------------------------------------------------------------

Init ==
    /\ boot = "exceptions" /\ enabled = FALSE
    /\ gates = {} /\ loaded = FALSE /\ handlers = {}
    /\ base = [master |-> 8, slave |-> 112]
    /\ irr \in SUBSET {Timer, Keyboard, Disk} /\ inService = {}
    /\ waiting = 0
    /\ full \in (IF EarlyKeys THEN BOOLEAN ELSE {FALSE})
    /\ Keyboard \in irr => full
    /\ intrq = (Disk \in irr)
    /\ cpu = "kmain" /\ trapped = "none" /\ stack = <<>>

Next ==
    \/ PressKey \/ Scancode \/ Tick \/ DiskDone
    \/ BootStep \/ PollDisk
    \/ (\E n \in Line : Accept(n)) \/ Spurious
    \/ HandlerStep
    \/ (\E v \in Exceptions : Exception(v)) \/ LeaveException

Spec == Init /\ [][Next]_vars

(* The processor keeps running.  It takes a keyboard interrupt that is     *)
(* first in line again and again: only the timer is before it, and ticks   *)
(* take longer than their handler.  An exception goes back to where it was *)
(* taken, and does not come again and again without a step in between.     *)
FairSpec ==
    /\ Spec
    /\ SF_vars(BootStep) /\ SF_vars(HandlerStep)
    /\ WF_vars(LeaveException) /\ WF_vars(Scancode)
    /\ SF_vars(Accept(Keyboard)) /\ SF_vars(Accept(Timer))
-----------------------------------------------------------------------------
TypeOK ==
    /\ boot \in {"exceptions", "remap", "irqs", "load", "sti", "register",
                "running"}
    /\ enabled \in BOOLEAN /\ loaded \in BOOLEAN /\ full \in BOOLEAN
    /\ intrq \in BOOLEAN
    /\ gates \subseteq Vector /\ handlers \subseteq Vector
    /\ irr \subseteq Line /\ inService \subseteq Line
    /\ waiting \in 0 .. MaxWaiting
    /\ cpu \in {"kmain", "dispatch", "command", "ack", "return", "halted", "trap"}
    /\ trapped \in {"none", "kmain", "dispatch", "command", "ack", "return"}

(* Whenever the processor takes interrupts, none is in service at either   *)
(* PIC: each was acknowledged at the chips that saw it, the spurious ones  *)
(* and those without a handler included, so no line is shut out for good.  *)
NothingInService == enabled => inService = {}

(* No device's request arrives at the vector of a processor exception, or  *)
(* at one without a gate, at whatever point of the start it comes; and the *)
(* vector of an exception is never one of a device.                        *)
VectorsHaveGates ==
    /\ cpu \in {"dispatch", "ack", "return"} =>
          loaded /\ Number \in gates /\ Number >= IRQ0
    /\ cpu = "trap" => Number \in gates /\ Number < IRQ0

(* The stubs take off the stack exactly what the interrupt and they have   *)
(* put there, with error codes and without, on top of one another: frames  *)
(* are what registers_t says (interrupts.asm 60-65).                       *)
StackBalanced ==
    Len(stack) = (Len(Registers) + 1) *
        ((IF Place = "kmain" THEN 0 ELSE 1) + (IF cpu = "trap" THEN 1 ELSE 0))

(* Interrupts are on in kmain from sti on, and off in every handler, also  *)
(* behind an exception in either.                                          *)
FlagsRestored == enabled <=> cpu = "kmain" /\ boot \in {"register", "running"}

(* A scancode that waits at port 0x60 has an interrupt on its way: the     *)
(* controller never waits for a read that nobody will make.                *)
KeyboardHeard ==
    boot = "running" /\ full =>
        Keyboard \in irr \/ (Place = "dispatch" /\ Handled = IRQ0 + Keyboard)

(* Every scancode is read, unless a HALT command comes first.              *)
KeysAreRead == full ~> (~full \/ cpu = "halted")
=============================================================================
