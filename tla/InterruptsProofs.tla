-------------------------- MODULE InterruptsProofs --------------------------
(***************************************************************************)
(* Theorems about Interrupts, for any number of scancodes on their way and *)
(* any exceptions of ring 0.                                               *)
(*                                                                         *)
(* The argument: interrupts go on only after the gates, the remapping and  *)
(* lidt; from then on at most one handler runs, for the vector on its      *)
(* frame, and the lines in service are those of this vector alone, so that *)
(* the acknowledgement for it leaves none.  An exception puts one frame of *)
(* the same size over the stack of kmain or of the handler, and takes it   *)
(* away again: the invariant speaks of the stack below it.                 *)
(***************************************************************************)
EXTENDS Interrupts, SequenceTheorems, TLAPS

Steps == {"exceptions", "remap", "irqs", "load", "sti", "register", "running"}
Places == {"kmain", "dispatch", "command", "ack", "return", "halted"}
Handling == {"dispatch", "command", "ack", "halted"}
On == {"register", "running"}
Ready == {"sti", "register", "running"}

(* What the stack holds. *)
Word == {"regs", "err_code", "eip", "cs", "on", "off"}
          \cup {Registers[k] : k \in 1 .. 9} \cup Int

(* The vectors whose stubs leave frames of one size. *)
Even == 0 .. 16 \cup 18 .. 47

(* What kmain has set up by now. *)
SetUp ==
    /\ boot \in {"remap", "irqs", "load", "sti", "register", "running"} =>
          0 .. 31 \subseteq gates
    /\ boot \in {"irqs", "load", "sti", "register", "running"} =>
          base = [master |-> IRQ0, slave |-> IRQ0 + 8]
    /\ boot \in {"load", "sti", "register", "running"} =>
          IRQ0 .. IRQ0 + 15 \subseteq gates
    /\ loaded = TRUE <=> boot \in Ready
    /\ handlers = IF boot = "running" THEN {IRQ0 + Keyboard} ELSE {}

(* The lines in service are those of the vector that is handled. *)
ServiceOf(v) ==
    \/ v \in IRQ0 .. IRQ0 + 7 /\ inService = {v - IRQ0}
    \/ v \in IRQ0 + 8 .. IRQ0 + 15
         /\ inService \in {{v - IRQ0, Cascade}, {Cascade}}

(* kmain, or the one handler that runs. *)
HandlerInv ==
    /\ Place = "kmain" => Below = <<>>
    /\ Place # "kmain" => /\ boot \in On
                          /\ Below \in Seq(Word) /\ Len(Below) = 15
                          /\ Handled \in IRQ0 .. IRQ0 + 15
                          /\ Below[15] = "on"
    /\ Place \in {"kmain", "return"} => inService = {}
    /\ Place \in Handling => ServiceOf(Handled)

(* The exception over it. *)
TrapInv ==
    /\ cpu \in Places \/ cpu = "trap"
    /\ cpu # "trap" => trapped = "none"
    /\ cpu = "trap" => /\ trapped \in Places \ {"halted"}
                       /\ boot \in Ready
                       /\ stack \in Seq(Word)
                       /\ Len(stack) = IF trapped = "kmain" THEN 15 ELSE 30
                       /\ stack[11] \in Exceptions
                       /\ stack[15] = IF trapped = "kmain" /\ boot \in On
                                      THEN "on" ELSE "off"

FlagInv == enabled \in BOOLEAN /\ (enabled = TRUE <=> cpu = "kmain" /\ boot \in On)

IInv ==
    /\ boot \in Steps /\ irr \subseteq Line
    /\ SetUp /\ HandlerInv /\ TrapInv /\ FlagInv

LEMMA Joined ==
    ASSUME NEW s \in Seq(Word), NEW t \in Seq(Word), NEW k, k = s \o t
    PROVE  /\ k \in Seq(Word)
           /\ Len(k) = Len(s) + Len(t)
           /\ \A i \in 1 .. Len(s) + Len(t) :
                 k[i] = IF i <= Len(s) THEN s[i] ELSE t[i - Len(s)]
  <1>1. /\ s \o t \in Seq(Word)
        /\ Len(s \o t) = Len(s) + Len(t)
        /\ \A i \in 1 .. Len(s) + Len(t) :
              (s \o t)[i] = IF i <= Len(s) THEN s[i] ELSE t[i - Len(s)]
    BY ConcatProperties, Zenon
  <1> QED BY <1>1

(* Taking a frame off leaves what was under it. *)
LEMMA Uncovered ==
    ASSUME NEW f \in Seq(Word), NEW s \in Seq(Word), NEW k, k = f \o s, Len(f) = 15
    PROVE  SubSeq(k, 16, Len(k)) = s
  <1>1. /\ k \in Seq(Word) /\ Len(k) = Len(f) + Len(s)
        /\ \A i \in 1 .. Len(f) + Len(s) :
              k[i] = IF i <= Len(f) THEN f[i] ELSE s[i - Len(f)]
    BY Joined
  <1>2. /\ Len(k) = 15 + Len(s) /\ Len(s) \in Nat
        /\ \A i \in 16 .. 15 + Len(s) : k[i] = s[i - 15]
    BY <1>1, LenProperties
  <1>3. SubSeq(k, 16, Len(k)) \in Seq(Word)
    BY <1>1, <1>2
  <1>4. Len(SubSeq(k, 16, Len(k))) = Len(s)
    BY <1>1, <1>2
  <1>5. \A i \in 1 .. Len(s) : SubSeq(k, 16, Len(k))[i] = s[i]
    BY <1>1, <1>2
  <1> QED BY <1>3, <1>4, <1>5, SeqEqual

(* The handler finds the vector of its gate and the flags where registers_t *)
(* has them, whether the processor pushes an error code or the stub does.  *)
LEMMA FrameWords ==
    ASSUME NEW v \in Even
    PROVE  /\ Frame(v) \in Seq(Word)
           /\ Len(Frame(v)) = 15
           /\ Frame(v)[11] = v
           /\ Frame(v)[15] = IF enabled = TRUE THEN "on" ELSE "off"
  <1> DEFINE Flags == IF enabled = TRUE THEN "on" ELSE "off"
             A == <<"regs">>
             B == SubSeq(Registers, 1, 9)
             C == <<v>>
             D == Code(v)
             E == <<"eip", "cs", Flags>>
             AB == A \o B
             ABC == AB \o C
             ABCD == ABC \o D
             F == ABCD \o E
  <1>1. Frame(v) = F
    BY DEF Frame
  <1>2. v \in Word /\ Flags \in Word
    BY DEF Even, Word
  <1>3. {"regs", "err_code", "eip", "cs"} \subseteq Word
    BY DEF Word
  <1>4. A \in Seq(Word) /\ Len(A) = 1
    BY <1>3
  <1>5. B \in Seq(Word) /\ Len(B) = 9
    <2>1. \A i \in 1 .. 9 : Registers[i] \in Word
      BY DEF Word
    <2>2. Registers \in Seq({Registers[i] : i \in 1 .. 14}) /\ Len(Registers) = 14
      BY DEF Registers
    <2> QED BY <2>1, <2>2, SubSeqProperties
  <1>6. C \in Seq(Word) /\ Len(C) = 1 /\ C[1] = v
    BY <1>2
  <1>7. D \in Seq(Word) /\ Len(D) = 1
    <2>1. D = <<"err_code">>
      <3>1. CASE v \in {8} \cup 10 .. 14
        <4>1. D = <<>> \o <<"err_code">>
          BY <3>1 DEF Code, StubPushesError, CpuPushesError
        <4> QED BY <4>1
      <3>2. CASE v \notin {8} \cup 10 .. 14
        <4>1. ~CpuPushesError(v) /\ StubPushesError(v)
          BY <3>2 DEF StubPushesError, CpuPushesError, Even
        <4>2. D = <<"err_code">> \o <<>>
          BY <4>1 DEF Code
        <4> QED BY <4>2
      <3> QED BY <3>1, <3>2
    <2> QED BY <1>3, <2>1
  <1>8. E \in Seq(Word) /\ Len(E) = 3 /\ E[3] = Flags
    <2> HIDE DEF Flags
    <2> QED BY <1>2, <1>3
  <1>9. AB = A \o B /\ ABC = AB \o C /\ ABCD = ABC \o D /\ F = ABCD \o E
    OBVIOUS
  <1> HIDE DEF A, B, C, D, E, AB, ABC, ABCD, F
  <1>10. AB \in Seq(Word) /\ Len(AB) = 10
    <2>1. AB \in Seq(Word) /\ Len(AB) = Len(A) + Len(B)
      <3>1. AB = A \o B
        BY <1>9
      <3> QED BY <1>4, <1>5, <3>1, Joined
    <2> QED BY <1>4, <1>5, <2>1
  <1>11. ABC \in Seq(Word) /\ Len(ABC) = 11 /\ ABC[11] = v
    <2>1. /\ ABC \in Seq(Word) /\ Len(ABC) = Len(AB) + Len(C)
          /\ \A i \in 1 .. Len(AB) + Len(C) :
                ABC[i] = IF i <= Len(AB) THEN AB[i] ELSE C[i - Len(AB)]
      <3>1. ABC = AB \o C
        BY <1>9
      <3> QED BY <1>6, <1>10, <3>1, Joined
    <2> QED BY <1>6, <1>10, <2>1
  <1>12. ABCD \in Seq(Word) /\ Len(ABCD) = 12 /\ ABCD[11] = v
    <2>1. /\ ABCD \in Seq(Word) /\ Len(ABCD) = Len(ABC) + Len(D)
          /\ \A i \in 1 .. Len(ABC) + Len(D) :
                ABCD[i] = IF i <= Len(ABC) THEN ABC[i] ELSE D[i - Len(ABC)]
      <3>1. ABCD = ABC \o D
        BY <1>9
      <3> QED BY <1>7, <1>11, <3>1, Joined
    <2> QED BY <1>7, <1>11, <2>1
  <1>13. F \in Seq(Word) /\ Len(F) = 15 /\ F[11] = v /\ F[15] = Flags
    <2>1. /\ F \in Seq(Word) /\ Len(F) = Len(ABCD) + Len(E)
          /\ \A i \in 1 .. Len(ABCD) + Len(E) :
                F[i] = IF i <= Len(ABCD) THEN ABCD[i] ELSE E[i - Len(ABCD)]
      <3>1. F = ABCD \o E
        BY <1>9
      <3> QED BY <1>8, <1>12, <3>1, Joined
    <2> QED BY <1>8, <1>12, <2>1
  <1> QED BY <1>1, <1>13

LEMMA InitInv == Init => IInv
  <1> SUFFICES ASSUME Init PROVE IInv
    OBVIOUS
  <1>1. /\ boot = "exceptions" /\ cpu = "kmain" /\ inService = {} /\ handlers = {}
        /\ stack = <<>> /\ trapped = "none" /\ loaded = FALSE
    BY DEF Init
  <1>2. enabled = FALSE /\ irr \subseteq Line
    BY DEF Init, Timer, Keyboard, Disk, Line
  <1>3. SetUp
    BY <1>1 DEF SetUp, Ready
  <1>4. HandlerInv
    BY <1>1 DEF HandlerInv, Place, Below, Handling
  <1>5. TrapInv
    BY <1>1 DEF TrapInv, Places
  <1>6. FlagInv
    BY <1>1, <1>2 DEF FlagInv, On
  <1> QED BY <1>1, <1>2, <1>3, <1>4, <1>5, <1>6 DEF IInv, Steps

(* Outside an exception the handler and its frame are what they are. *)
LEMMA NoTrap ==
    ASSUME cpu # "trap"
    PROVE  Place = cpu /\ Below = stack /\ Handled = Number
  BY DEF Place, Below, Handled, Number

LEMMA NoTrapNext ==
    ASSUME cpu' # "trap"
    PROVE  Place' = cpu' /\ Below' = stack' /\ Handled' = Number'
  BY DEF Place, Below, Handled, Number

(* What is the same before and after is the same for the invariant. *)
LEMMA SameRun ==
    ASSUME UNCHANGED <<cpu, trapped, stack>>
    PROVE  Place' = Place /\ Below' = Below /\ Handled' = Handled
  BY DEF Place, Below, Handled

LEMMA DeviceStep ==
    IInv /\ (PressKey \/ Scancode \/ Tick \/ DiskDone \/ PollDisk) => IInv'
  <1> SUFFICES ASSUME IInv, PressKey \/ Scancode \/ Tick \/ DiskDone \/ PollDisk
               PROVE  IInv'
    OBVIOUS
  <1>1. UNCHANGED <<boot, enabled, gates, loaded, handlers, base, inService,
                    cpu, trapped, stack>>
    BY DEF PressKey, Scancode, Tick, DiskDone, PollDisk, idt, pic, kbd, run
  <1>2. irr' \subseteq Line
    <2>1. irr \subseteq Line /\ {Timer, Keyboard, Disk} \subseteq Line
      BY DEF IInv, Line, Keyboard, Timer, Disk
    <2>2. irr' \subseteq irr \cup {Timer, Keyboard, Disk}
      BY DEF PressKey, Scancode, Tick, DiskDone, PollDisk, pic
    <2> QED BY <2>1, <2>2
  <1>3. Place' = Place /\ Below' = Below /\ Handled' = Handled
    BY <1>1, SameRun
  <1>4. SetUp' /\ TrapInv' /\ FlagInv'
    BY <1>1 DEF IInv, SetUp, TrapInv, FlagInv
  <1>5. HandlerInv'
    BY <1>1, <1>3 DEF IInv, HandlerInv, ServiceOf
  <1> QED BY <1>1, <1>2, <1>4, <1>5 DEF IInv

LEMMA KmainStep == IInv /\ BootStep => IInv'
  <1> SUFFICES ASSUME IInv, BootStep PROVE IInv'
    OBVIOUS
  <1>1. cpu = "kmain" /\ cpu' = "kmain" /\ stack' = stack /\ trapped' = trapped
    BY DEF BootStep, ExceptionGates, Remap, IrqGates, LoadIdt, Sti,
           RegisterKeyboard, At, run
  <1>2. Place = "kmain" /\ Below = stack /\ Place' = "kmain" /\ Below' = stack'
    BY <1>1, NoTrap, NoTrapNext
  <1>3. inService' = {} /\ irr' \subseteq Line
    <2>1. inService = {} /\ irr \subseteq Line
      BY <1>2 DEF IInv, HandlerInv
    <2> QED BY <2>1 DEF BootStep, ExceptionGates, Remap, IrqGates, LoadIdt, Sti,
                        RegisterKeyboard, pic
  <1>4. boot' \in Steps
    BY DEF BootStep, ExceptionGates, Remap, IrqGates, LoadIdt, Sti,
           RegisterKeyboard, At, Steps
  <1>5. FlagInv'
    <2>1. enabled \in BOOLEAN /\ (enabled = TRUE <=> boot \in On)
      BY <1>1 DEF IInv, FlagInv
    <2>2. CASE Sti
      BY <1>1, <2>2 DEF Sti, At, FlagInv, On
    <2>3. CASE RegisterKeyboard
      BY <1>1, <2>1, <2>3 DEF RegisterKeyboard, At, FlagInv, On
    <2>4. CASE ExceptionGates \/ Remap \/ IrqGates \/ LoadIdt
      BY <1>1, <2>1, <2>4 DEF ExceptionGates, Remap, IrqGates, LoadIdt, At, FlagInv, On
    <2> QED BY <2>2, <2>3, <2>4 DEF BootStep
  <1>6. SetUp'
    <2>1. CASE ExceptionGates
      BY <2>1 DEF IInv, SetUp, ExceptionGates, At, pic, Ready
    <2>2. CASE Remap
      BY <2>2 DEF IInv, SetUp, Remap, At, idt, Ready
    <2>3. CASE IrqGates
      BY <2>3 DEF IInv, SetUp, IrqGates, At, pic, Ready
    <2>4. CASE LoadIdt
      BY <2>4 DEF IInv, SetUp, LoadIdt, At, pic, Ready
    <2>5. CASE Sti
      BY <2>5 DEF IInv, SetUp, Sti, At, pic, idt, Ready
    <2>6. CASE RegisterKeyboard
      BY <2>6 DEF IInv, SetUp, RegisterKeyboard, At, pic, Ready
    <2> QED BY <2>1, <2>2, <2>3, <2>4, <2>5, <2>6 DEF BootStep
  <1>7. HandlerInv'
    BY <1>1, <1>2, <1>3 DEF IInv, HandlerInv, Handling
  <1>8. TrapInv'
    BY <1>1 DEF IInv, TrapInv, Places
  <1> QED BY <1>3, <1>4, <1>5, <1>6, <1>7, <1>8 DEF IInv

(* Entering a handler through the gate of line n. *)
LEMMA EnterStep ==
    ASSUME IInv, NEW n \in Line, Enter(VectorOf(n)), irr' \subseteq irr,
           \/ n \in Master /\ inService' = inService \cup {n}
           \/ n \in Slave /\ inService' = inService \cup {n, Cascade}
           \/ n = 15 /\ inService' = inService \cup {Cascade}
    PROVE  IInv'
  <1>1. /\ cpu = "kmain" /\ cpu' = "dispatch" /\ enabled = TRUE
        /\ enabled' = FALSE /\ trapped' = trapped
    BY DEF IInv, FlagInv, Enter
  <1>2. stack = <<>> /\ inService = {}
    BY <1>1, NoTrap DEF IInv, HandlerInv
  <1>3. UNCHANGED <<boot, gates, loaded, handlers, base>>
    BY DEF Enter, idt
  <1>4. boot \in On
    BY <1>1 DEF IInv, FlagInv
  <1>5. VectorOf(n) = IRQ0 + n
    <2>1. base = [master |-> IRQ0, slave |-> IRQ0 + 8]
      BY <1>4 DEF IInv, SetUp, On
    <2>2. base.master = 32 /\ base.slave = 40
      BY <2>1 DEF IRQ0
    <2> QED BY <2>2 DEF VectorOf, Line, Master, Slave, IRQ0
  <1>6. IRQ0 + n \in Even
    BY DEF Line, IRQ0, Even
  <1>7. stack' = Frame(IRQ0 + n)
    <2>1. stack' = Frame(IRQ0 + n) \o <<>>
      BY <1>2, <1>5 DEF Enter
    <2> QED BY <1>6, <2>1, FrameWords
  <1>8. /\ stack' \in Seq(Word) /\ Len(stack') = 15
        /\ stack'[11] = IRQ0 + n /\ stack'[15] = "on"
    BY <1>1, <1>6, <1>7, FrameWords
  <1>9. Place' = "dispatch" /\ Below' = stack' /\ Handled' = IRQ0 + n
    <2>1. Handled' = stack'[11]
      BY <1>1, NoTrapNext DEF Number, IntNo
    <2> QED BY <1>1, <1>8, <2>1, NoTrapNext
  <1>10. ServiceOf(Handled)'
    <2>1. Handled' - IRQ0 = n
      BY <1>9 DEF Line, IRQ0
    <2>2. n \in Master => IRQ0 + n \in IRQ0 .. IRQ0 + 7
      BY DEF Master, IRQ0
    <2>3. n \in Slave => IRQ0 + n \in IRQ0 + 8 .. IRQ0 + 15
      BY DEF Slave, IRQ0
    <2>4. n = 15 => n \in Slave
      BY DEF Slave
    <2> QED BY <1>2, <1>9, <2>1, <2>2, <2>3, <2>4 DEF ServiceOf
  <1>11. HandlerInv'
    <2>1. Handled' \in IRQ0 .. IRQ0 + 15
      BY <1>9 DEF Line, IRQ0
    <2> QED BY <1>3, <1>4, <1>8, <1>9, <1>10, <2>1 DEF HandlerInv
  <1>12. SetUp'
    BY <1>3 DEF IInv, SetUp
  <1>13. TrapInv'
    BY <1>1 DEF IInv, TrapInv, Places
  <1>14. FlagInv'
    BY <1>1 DEF FlagInv
  <1> QED BY <1>3, <1>11, <1>12, <1>13, <1>14 DEF IInv

LEMMA AcceptStep == IInv /\ (\E n \in Line : Accept(n)) => IInv'
  <1> SUFFICES ASSUME IInv, NEW n \in Line, Accept(n) PROVE IInv'
    OBVIOUS
  <1>1. Enter(VectorOf(n)) /\ irr' \subseteq irr
    BY DEF Accept
  <1>2. n \in Master \/ n \in Slave
    BY DEF Line, Master, Slave
  <1>3. n \in Slave => inService' = inService \cup {n, Cascade}
    BY DEF Accept
  <1>4. n \notin Slave => inService' = inService \cup {n}
    BY DEF Accept
  <1> QED BY <1>1, <1>2, <1>3, <1>4, EnterStep

LEMMA SpuriousStep == IInv /\ Spurious => IInv'
  <1> SUFFICES ASSUME IInv, Spurious PROVE IInv'
    OBVIOUS
  <1>1. 15 \in Line /\ Enter(VectorOf(15)) /\ irr' \subseteq irr
    BY DEF Spurious, Line
  <1>2. inService' = inService \cup {Cascade}
    BY DEF Spurious
  <1> QED BY <1>1, <1>2, EnterStep

(* One acknowledgement ends everything that the vector put in service. *)
LEMMA Acknowledged ==
    ASSUME NEW v \in IRQ0 .. IRQ0 + 15, ServiceOf(v)
    PROVE  EndOfInterrupt(v) = {}
  <1>1. CASE v \in IRQ0 .. IRQ0 + 7 /\ inService = {v - IRQ0}
    <2>1. ~(v >= 40) /\ v - IRQ0 \in 0 .. 7
      BY <1>1 DEF IRQ0
    <2>2. Eoi(Master) = {}
      BY <1>1, <2>1 DEF Eoi
    <2>3. inService \cap Slave = {}
      BY <1>1, <2>1 DEF Slave
    <2> QED BY <2>1, <2>2, <2>3 DEF EndOfInterrupt
  <1>2. CASE v \in IRQ0 + 8 .. IRQ0 + 15
               /\ inService \in {{v - IRQ0, Cascade}, {Cascade}}
    <2>1. v >= 40 /\ v - IRQ0 \in 8 .. 15
      BY <1>2 DEF IRQ0
    <2>2. \A m \in inService \cap Master : m = Cascade
      BY <1>2, <2>1 DEF Master
    <2>3. Eoi(Master) = {}
      BY <2>2 DEF Eoi, Cascade
    <2>4. \A m \in inService \cap Slave : m = v - IRQ0
      BY <1>2, <2>1 DEF Slave, Cascade
    <2>5. Eoi(Slave) = {}
      BY <2>1, <2>4 DEF Eoi
    <2> QED BY <2>1, <2>3, <2>5 DEF EndOfInterrupt
  <1> QED BY <1>1, <1>2 DEF ServiceOf

LEMMA HandlerStepInv == IInv /\ HandlerStep => IInv'
  <1> SUFFICES ASSUME IInv, HandlerStep PROVE IInv'
    OBVIOUS
  <1>1. CASE Dispatch \/ Command
    <2>1. UNCHANGED <<boot, enabled, gates, loaded, handlers, base, irr, inService,
                      trapped, stack>>
      BY <1>1 DEF Dispatch, Command, idt, pic
    <2>2. /\ cpu \in Handling /\ cpu' \in Handling
          /\ cpu \notin {"kmain", "return", "trap"}
          /\ cpu' \notin {"kmain", "return", "trap"}
      BY <1>1 DEF Dispatch, Command, Handling
    <2>3. Place = cpu /\ Place' = cpu' /\ Below' = Below /\ Handled' = Handled
      BY <2>1, <2>2, NoTrap, NoTrapNext DEF Number
    <2>4. SetUp' /\ HandlerInv'
      BY <2>1, <2>2, <2>3 DEF IInv, SetUp, HandlerInv, ServiceOf
    <2>5. TrapInv' /\ FlagInv'
      BY <2>1, <2>2 DEF IInv, TrapInv, FlagInv, Handling, Places
    <2> QED BY <2>1, <2>4, <2>5 DEF IInv
  <1>2. CASE Acknowledge
    <2>1. UNCHANGED <<boot, enabled, gates, loaded, handlers, base, irr, trapped, stack>>
      BY <1>2 DEF Acknowledge, idt, kbd
    <2>2. cpu = "ack" /\ cpu' = "return"
      BY <1>2 DEF Acknowledge
    <2>3. Place = cpu /\ Place' = cpu' /\ Below' = Below /\ Handled' = Handled
            /\ Handled = Number
      BY <2>1, <2>2, NoTrap, NoTrapNext DEF Number
    <2>4. inService' = {}
      <3>1. Number \in IRQ0 .. IRQ0 + 15 /\ ServiceOf(Number)
        BY <2>2, <2>3 DEF IInv, HandlerInv, Handling
      <3> QED BY <1>2, <3>1, Acknowledged DEF Acknowledge
    <2>5. SetUp' /\ HandlerInv'
      BY <2>1, <2>2, <2>3, <2>4 DEF IInv, SetUp, HandlerInv, Handling
    <2>6. TrapInv' /\ FlagInv'
      BY <2>1, <2>2 DEF IInv, TrapInv, FlagInv, Places
    <2> QED BY <2>1, <2>5, <2>6 DEF IInv
  <1>3. CASE Return
    <2>1. UNCHANGED <<boot, gates, loaded, handlers, base, irr, inService, trapped>>
      BY <1>3 DEF Return, idt, pic
    <2>2. cpu = "return" /\ cpu' = "kmain" /\ Resume
      BY <1>3 DEF Return
    <2>3. Place = cpu /\ Below = stack /\ Place' = cpu' /\ Below' = stack'
      BY <2>2, NoTrap, NoTrapNext
    <2>4. /\ boot \in On /\ inService = {}
          /\ stack \in Seq(Word) /\ Len(stack) = 15 /\ stack[15] = "on"
      BY <2>2, <2>3 DEF IInv, HandlerInv
    <2>5. stack' = <<>>
      <3>1. stack' = SubSeq(stack, 16, 15)
        BY <2>2, <2>4 DEF Resume, Unwind
      <3> QED BY <2>4, <3>1, SubSeqProperties
    <2>6. enabled' = TRUE
      <3>1. enabled' = (stack[15] = "on")
        BY <2>2 DEF Resume, EFlags
      <3> QED BY <2>4, <3>1
    <2>7. SetUp' /\ HandlerInv'
      BY <2>1, <2>2, <2>3, <2>4, <2>5 DEF IInv, SetUp, HandlerInv, Handling
    <2>8. TrapInv' /\ FlagInv'
      BY <2>1, <2>2, <2>4, <2>6 DEF IInv, TrapInv, FlagInv, Places
    <2> QED BY <2>1, <2>7, <2>8 DEF IInv
  <1> QED BY <1>1, <1>2, <1>3 DEF HandlerStep

(* An exception lies over kmain or a handler and leaves both alone. *)
LEMMA Covered ==
    ASSUME IInv, \E v \in Exceptions : Exception(v)
    PROVE  /\ Place' = Place /\ Below' = Below /\ Handled' = Handled
           /\ stack' \in Seq(Word)
           /\ Len(stack') = IF cpu = "kmain" THEN 15 ELSE 30
           /\ stack'[11] \in Exceptions
           /\ stack'[15] = IF enabled = TRUE THEN "on" ELSE "off"
  <1>1. PICK v \in Exceptions : Exception(v)
    OBVIOUS
  <1>2. /\ cpu \notin {"trap", "halted"}
        /\ cpu' = "trap" /\ trapped' = cpu
        /\ stack' = Frame(v) \o stack
    BY <1>1 DEF Exception
  <1>3. v \in Even
    BY InterruptsAssumption DEF Even
  <1>4. /\ Frame(v) \in Seq(Word) /\ Len(Frame(v)) = 15 /\ Frame(v)[11] = v
        /\ Frame(v)[15] = IF enabled = TRUE THEN "on" ELSE "off"
    BY <1>3, FrameWords
  <1>5. Place = cpu /\ Below = stack
    BY <1>2, NoTrap
  <1>6. stack \in Seq(Word) /\ Len(stack) = IF cpu = "kmain" THEN 0 ELSE 15
    <2>1. CASE cpu = "kmain"
      <3>1. stack = <<>>
        BY <1>5, <2>1 DEF IInv, HandlerInv
      <3> QED BY <2>1, <3>1
    <2>2. CASE cpu # "kmain"
      BY <1>5, <2>2 DEF IInv, HandlerInv
    <2> QED BY <2>1, <2>2
  <1>7. /\ stack' \in Seq(Word)
        /\ Len(stack') = IF cpu = "kmain" THEN 15 ELSE 30
        /\ stack'[11] = v
        /\ stack'[15] = IF enabled = TRUE THEN "on" ELSE "off"
    <2>1. /\ stack' \in Seq(Word) /\ Len(stack') = Len(Frame(v)) + Len(stack)
          /\ \A i \in 1 .. Len(Frame(v)) + Len(stack) :
                stack'[i] = IF i <= Len(Frame(v)) THEN Frame(v)[i]
                            ELSE stack[i - Len(Frame(v))]
      BY <1>2, <1>4, <1>6, Joined
    <2> QED BY <1>4, <1>6, <2>1
  <1>8. Below' = stack
    <2>1. SubSeq(stack', 16, Len(stack')) = stack
      BY <1>2, <1>4, <1>6, Uncovered
    <2>2. Len(Registers) + 2 = 16
      BY DEF Registers
    <2> QED BY <1>2, <2>1, <2>2 DEF Below
  <1> QED BY <1>2, <1>5, <1>7, <1>8 DEF Place, Handled

LEMMA ExceptionStep == IInv /\ (\E v \in Exceptions : Exception(v)) => IInv'
  <1> SUFFICES ASSUME IInv, \E v \in Exceptions : Exception(v) PROVE IInv'
    OBVIOUS
  <1>1. /\ UNCHANGED <<boot, gates, loaded, handlers, base, irr, inService>>
        /\ loaded = TRUE /\ cpu \notin {"trap", "halted"}
        /\ cpu' = "trap" /\ trapped' = cpu /\ enabled' = FALSE
    BY DEF Exception, idt, pic, IInv, SetUp
  <1>2. SetUp' /\ HandlerInv'
    <2>1. Place' = Place /\ Below' = Below /\ Handled' = Handled
      BY Covered
    <2> QED BY <1>1, <2>1 DEF IInv, SetUp, HandlerInv, ServiceOf
  <1>3. enabled = TRUE <=> cpu = "kmain" /\ boot \in On
    BY DEF IInv, FlagInv
  <1>4. cpu \in Places \ {"halted"} /\ boot \in Ready
    BY <1>1 DEF IInv, TrapInv, SetUp
  <1>5. TrapInv'
    BY <1>1, <1>3, <1>4, Covered DEF TrapInv
  <1>6. FlagInv'
    BY <1>1 DEF FlagInv
  <1> QED BY <1>1, <1>2, <1>5, <1>6 DEF IInv

(* Its end goes back to what it lay over. *)
LEMMA BackUnder ==
    ASSUME IInv, LeaveException
    PROVE  Place' = Place /\ Below' = Below /\ Handled' = Handled
  <1>1. cpu = "trap" /\ cpu' = trapped /\ Resume /\ trapped # "trap"
    BY DEF LeaveException, IInv, TrapInv, Places
  <1>2. stack' = Below
    <2>1. Len(Registers) + 2 = 16
      BY DEF Registers
    <2> QED BY <1>1, <2>1 DEF Resume, Unwind, Below
  <1>3. Place' = cpu' /\ Below' = stack'
    BY <1>1, NoTrapNext
  <1> QED BY <1>1, <1>2, <1>3 DEF Place, Handled

LEMMA LeaveExceptionStep == IInv /\ LeaveException => IInv'
  <1> SUFFICES ASSUME IInv, LeaveException PROVE IInv'
    OBVIOUS
  <1>1. /\ UNCHANGED <<boot, gates, loaded, handlers, base, irr, inService>>
        /\ cpu = "trap" /\ cpu' = trapped /\ trapped' = "none" /\ Resume
    BY DEF LeaveException, idt, pic
  <1>2. /\ trapped \in Places \ {"halted"}
        /\ stack[15] = IF trapped = "kmain" /\ boot \in On THEN "on" ELSE "off"
    BY <1>1 DEF IInv, TrapInv
  <1>3. SetUp' /\ HandlerInv'
    BY <1>1, BackUnder DEF IInv, SetUp, HandlerInv, ServiceOf
  <1>4. TrapInv'
    BY <1>1, <1>2 DEF TrapInv, Places
  <1>5. FlagInv'
    <2>1. enabled' = (stack[15] = "on")
      BY <1>1 DEF Resume, EFlags
    <2> QED BY <1>1, <1>2, <2>1 DEF FlagInv
  <1> QED BY <1>1, <1>3, <1>4, <1>5 DEF IInv

LEMMA StepInv == IInv /\ [Next]_vars => IInv'
  <1> SUFFICES ASSUME IInv, [Next]_vars PROVE IInv'
    OBVIOUS
  <1>1. CASE PressKey \/ Scancode \/ Tick \/ DiskDone \/ PollDisk
    BY <1>1, DeviceStep
  <1>2. CASE BootStep
    BY <1>2, KmainStep
  <1>3. CASE \E n \in Line : Accept(n)
    BY <1>3, AcceptStep
  <1>4. CASE Spurious
    BY <1>4, SpuriousStep
  <1>5. CASE HandlerStep
    BY <1>5, HandlerStepInv
  <1>6. CASE \E v \in Exceptions : Exception(v)
    BY <1>6, ExceptionStep
  <1>7. CASE LeaveException
    BY <1>7, LeaveExceptionStep
  <1>8. CASE UNCHANGED vars
    <2>1. UNCHANGED <<boot, enabled, gates, loaded, handlers, base, irr, inService,
                      cpu, trapped, stack>>
      BY <1>8 DEF vars, idt, pic, run
    <2>2. Place' = Place /\ Below' = Below /\ Handled' = Handled
      BY <2>1, SameRun
    <2>3. SetUp' /\ TrapInv' /\ FlagInv'
      BY <2>1 DEF IInv, SetUp, TrapInv, FlagInv
    <2>4. HandlerInv'
      BY <2>1, <2>2 DEF IInv, HandlerInv, ServiceOf
    <2> QED BY <2>1, <2>3, <2>4 DEF IInv
  <1> QED BY <1>1, <1>2, <1>3, <1>4, <1>5, <1>6, <1>7, <1>8 DEF Next

(* Every interrupt is acknowledged at the chips that saw it before the     *)
(* processor takes another one (isr.c 127-139).                            *)
THEOREM NoLineShutOut == Spec => []NothingInService
  <1>1. IInv => NothingInService
    <2> SUFFICES ASSUME IInv, enabled = TRUE PROVE inService = {}
      BY DEF NothingInService, IInv, FlagInv
    <2>1. cpu = "kmain"
      BY DEF IInv, FlagInv
    <2> QED BY <2>1, NoTrap DEF IInv, HandlerInv
  <1> QED BY InitInv, StepInv, <1>1, PTL DEF Spec

(* No interrupt comes before the IDT and the PICs are ready for it, and no *)
(* exception before lidt or at a device's vector (isr.c 47-116).           *)
THEOREM NoInterruptTooEarly == Spec => []VectorsHaveGates
  <1>1. IInv => VectorsHaveGates
    <2> SUFFICES ASSUME IInv PROVE VectorsHaveGates
      OBVIOUS
    <2>1. ASSUME cpu \in {"dispatch", "ack", "return"}
          PROVE  loaded /\ Number \in gates /\ Number >= IRQ0
      <3>1. Place = cpu /\ Handled = Number
        BY <2>1, NoTrap
      <3>2. boot \in On /\ Number \in IRQ0 .. IRQ0 + 15
        BY <2>1, <3>1 DEF IInv, HandlerInv
      <3>3. loaded = TRUE /\ IRQ0 .. IRQ0 + 15 \subseteq gates
        BY <3>2 DEF IInv, SetUp, On, Ready
      <3> QED BY <3>2, <3>3 DEF IRQ0
    <2>2. ASSUME cpu = "trap" PROVE Number \in gates /\ Number < IRQ0
      <3>1. boot \in Ready /\ Number \in Exceptions
        BY <2>2 DEF IInv, TrapInv, Number, IntNo
      <3>2. 0 .. 31 \subseteq gates /\ Number \in 0 .. 31
        BY <3>1, InterruptsAssumption DEF IInv, SetUp, Ready
      <3> QED BY <3>2 DEF IRQ0
    <2> QED BY <2>1, <2>2 DEF VectorsHaveGates
  <1> QED BY InitInv, StepInv, <1>1, PTL DEF Spec

(* The stubs leave the stack of kmain, and of a handler under an           *)
(* exception, as it was (interrupts.asm 6-60).                             *)
THEOREM StubsBalance == Spec => []StackBalanced
  <1>1. IInv => StackBalanced
    <2> SUFFICES ASSUME IInv PROVE StackBalanced
      OBVIOUS
    <2>1. Len(Registers) + 1 = 15 /\ Len(<<>>) = 0
      BY DEF Registers
    <2>2. CASE cpu # "trap"
      <3>1. Place = cpu /\ Below = stack
        BY <2>2, NoTrap
      <3>2. Len(stack) = IF cpu = "kmain" THEN 0 ELSE 15
        BY <2>1, <3>1 DEF IInv, HandlerInv
      <3> QED BY <2>1, <2>2, <3>1, <3>2 DEF StackBalanced
    <2>3. CASE cpu = "trap"
      <3>1. Place = trapped
        BY <2>3 DEF Place
      <3>2. Len(stack) = IF trapped = "kmain" THEN 15 ELSE 30
        BY <2>3 DEF IInv, TrapInv
      <3> QED BY <2>1, <2>3, <3>1, <3>2 DEF StackBalanced
    <2> QED BY <2>2, <2>3
  <1> QED BY InitInv, StepInv, <1>1, PTL DEF Spec

(* iret gives kmain and every handler back the flag they were interrupted  *)
(* with, an exception on top of either included (interrupts.asm 6-60).     *)
THEOREM FlagsComeBack == Spec => []FlagsRestored
  <1>1. IInv => FlagsRestored
    BY DEF IInv, FlagInv, On, FlagsRestored
  <1> QED BY InitInv, StepInv, <1>1, PTL DEF Spec

(* Scancodes come after the handler is there, and one that waits at port   *)
(* 0x60 is requested or about to be read.                                  *)
Heard ==
    /\ boot # "running" => waiting = 0 /\ full = FALSE
    /\ waiting \in Int
    /\ KeyboardHeard

LEMMA HeardStep ==
    ASSUME EarlyKeys = FALSE, IInv, Heard, [Next]_vars
    PROVE  Heard'
  <1>1. CASE PressKey
    <2>1. boot = "running"
      BY <1>1 DEF PressKey, IInv, SetUp
    <2>2. UNCHANGED <<boot, irr, full, cpu, trapped, stack>> /\ waiting' \in Int
      BY <1>1 DEF PressKey, pic, run, Heard
    <2> QED BY <2>1, <2>2, SameRun DEF Heard, KeyboardHeard
  <1>2. CASE Scancode
    <2>1. boot = "running" /\ boot' = boot /\ waiting' \in Int
      BY <1>2 DEF Scancode, Heard
    <2>2. Keyboard \in irr'
      BY <1>2 DEF Scancode
    <2> QED BY <2>1, <2>2 DEF Heard, KeyboardHeard
  <1>3. CASE Tick \/ DiskDone \/ PollDisk
    <2>1. UNCHANGED <<boot, waiting, full, cpu, trapped, stack>>
      BY <1>3 DEF Tick, DiskDone, PollDisk, kbd, run
    <2>2. Keyboard \in irr => Keyboard \in irr'
      BY <1>3 DEF Tick, DiskDone, PollDisk, Keyboard, Disk
    <2> QED BY <2>1, <2>2, SameRun DEF Heard, KeyboardHeard
  <1>4. CASE BootStep
    <2>1. UNCHANGED <<waiting, full>>
      BY <1>4 DEF BootStep, ExceptionGates, Remap, IrqGates, LoadIdt, Sti,
                  RegisterKeyboard, kbd
    <2>2. boot # "running"
      BY <1>4 DEF BootStep, ExceptionGates, Remap, IrqGates, LoadIdt, Sti,
                  RegisterKeyboard, At
    <2> QED BY <2>1, <2>2 DEF Heard, KeyboardHeard
  <1>5. CASE \E n \in Line : Accept(n)
    <2> PICK n \in Line : Accept(n)
      BY <1>5
    <2>1. UNCHANGED <<boot, waiting, full>> /\ cpu = "kmain" /\ cpu' = "dispatch"
      BY DEF Accept, Enter, kbd
    <2>2. irr' = irr \ {n}
      BY DEF Accept
    <2>3. Place = "kmain" /\ Place' = "dispatch" /\ Handled' = Number' /\ Below = stack
      BY <2>1, NoTrap, NoTrapNext
    <2>4. n = Keyboard /\ boot = "running" => Number' = IRQ0 + Keyboard
      <3>1. SUFFICES ASSUME n = Keyboard, boot = "running"
                     PROVE  Number' = IRQ0 + Keyboard
        OBVIOUS
      <3>2. base = [master |-> IRQ0, slave |-> IRQ0 + 8] /\ stack = <<>>
        BY <2>3, <3>1 DEF IInv, SetUp, HandlerInv
      <3>3. VectorOf(Keyboard) = IRQ0 + Keyboard
        BY <3>2 DEF VectorOf, Keyboard, Master, IRQ0
      <3>4. stack' = Frame(IRQ0 + Keyboard) \o <<>>
        BY <3>1, <3>2, <3>3 DEF Accept, Enter
      <3>5. IRQ0 + Keyboard \in Even
        BY DEF IRQ0, Keyboard, Even
      <3>6. stack' = Frame(IRQ0 + Keyboard)
        BY <3>4, <3>5, FrameWords
      <3>7. stack'[11] = IRQ0 + Keyboard
        BY <3>5, <3>6, FrameWords
      <3> QED BY <3>7 DEF Number, IntNo
    <2> QED BY <2>1, <2>2, <2>3, <2>4 DEF Heard, KeyboardHeard
  <1>6. CASE Spurious
    <2>1. UNCHANGED <<boot, waiting, full>> /\ cpu = "kmain"
      BY <1>6 DEF Spurious, Enter, kbd
    <2>2. Keyboard \in irr => Keyboard \in irr'
      BY <1>6 DEF Spurious, Keyboard, Disk
    <2>3. Place = "kmain"
      BY <2>1, NoTrap
    <2> QED BY <2>1, <2>2, <2>3 DEF Heard, KeyboardHeard
  <1>7. CASE Dispatch
    <2>1. UNCHANGED <<boot, waiting, irr, stack>> /\ cpu = "dispatch"
      BY <1>7 DEF Dispatch, pic
    <2>2. full' = IF Number \in handlers THEN FALSE ELSE full
      BY <1>7 DEF Dispatch
    <2>3. boot = "running" => IRQ0 + Keyboard \in handlers
      BY DEF IInv, SetUp
    <2>4. Handled = Number
      BY <2>1, NoTrap
    <2>5. CASE boot = "running" /\ Number = IRQ0 + Keyboard
      <3>1. full' = FALSE
        BY <2>2, <2>3, <2>5
      <3> QED BY <2>1, <2>5, <3>1 DEF Heard, KeyboardHeard
    <2>6. CASE boot = "running" /\ Number # IRQ0 + Keyboard
      <3>1. full' => full
        BY <2>2
      <3>2. full => Keyboard \in irr
        BY <2>4, <2>6 DEF Heard, KeyboardHeard
      <3> QED BY <2>1, <2>6, <3>1, <3>2 DEF Heard, KeyboardHeard
    <2>7. CASE boot # "running"
      <3>1. full' = FALSE
        BY <2>2, <2>7 DEF Heard
      <3> QED BY <2>1, <2>7, <3>1 DEF Heard, KeyboardHeard
    <2> QED BY <2>5, <2>6, <2>7
  <1>8. CASE Command \/ Acknowledge \/ Return
    <2>1. UNCHANGED <<boot, waiting, full, irr>> /\ cpu \notin {"dispatch", "trap"}
      BY <1>8 DEF Command, Acknowledge, Return, kbd, pic
    <2>2. Place = cpu
      BY <2>1, NoTrap
    <2> QED BY <2>1, <2>2 DEF Heard, KeyboardHeard
  <1>9. CASE \E v \in Exceptions : Exception(v)
    <2>1. UNCHANGED <<boot, waiting, full, irr>>
      BY <1>9 DEF Exception, kbd, pic
    <2>2. Place' = Place /\ Handled' = Handled
      BY <1>9, Covered
    <2> QED BY <2>1, <2>2 DEF Heard, KeyboardHeard
  <1>10. CASE LeaveException
    <2>1. UNCHANGED <<boot, waiting, full, irr>>
      BY <1>10 DEF LeaveException, kbd, pic
    <2>2. Place' = Place /\ Handled' = Handled
      BY <1>10, BackUnder
    <2> QED BY <2>1, <2>2 DEF Heard, KeyboardHeard
  <1>11. CASE UNCHANGED vars
    <2>1. UNCHANGED <<boot, waiting, full, irr, cpu, trapped, stack>>
      BY <1>11 DEF vars, pic, kbd, run
    <2> QED BY <2>1, SameRun DEF Heard, KeyboardHeard
  <1> QED BY <1>1, <1>2, <1>3, <1>4, <1>5, <1>6, <1>7, <1>8, <1>9, <1>10, <1>11
          DEF Next, HandlerStep

(* If no key is pressed before the keyboard is enabled, no scancode is     *)
(* ever left at port 0x60 without an interrupt (isr.c 118-139,             *)
(* keyboard.c 22-60).                                                      *)
THEOREM KeyboardNeverDeaf ==
    ASSUME EarlyKeys = FALSE
    PROVE  Spec => []KeyboardHeard
  <1>1. Init => Heard
    BY DEF Init, Heard, KeyboardHeard
  <1>2. IInv /\ Heard /\ [Next]_vars => Heard'
    BY HeardStep
  <1>3. Heard => KeyboardHeard
    BY DEF Heard
  <1> QED BY InitInv, StepInv, <1>1, <1>2, <1>3, PTL DEF Spec

(* The sets of the processor and the PICs, beside what IInv says of them. *)
Kinds ==
    /\ enabled \in BOOLEAN /\ loaded \in BOOLEAN
    /\ full \in BOOLEAN /\ intrq \in BOOLEAN
    /\ gates \subseteq Vector /\ handlers \subseteq Vector
    /\ inService \subseteq Line
    /\ waiting \in 0 .. MaxWaiting

LEMMA KindsException ==
    Kinds /\ ((\E v \in Exceptions : Exception(v)) \/ LeaveException) => Kinds'
  <1>1. (\E v \in Exceptions : Exception(v)) \/ LeaveException =>
          /\ UNCHANGED <<loaded, full, intrq, gates, handlers, inService, waiting>>
          /\ enabled' \in BOOLEAN
    BY DEF Exception, LeaveException, Resume, idt, pic, kbd
  <1> QED BY <1>1 DEF Kinds

LEMMA KindsDevice ==
    Kinds /\ (PressKey \/ Scancode \/ Tick \/ DiskDone \/ PollDisk) => Kinds'
  <1> SUFFICES ASSUME Kinds, PressKey \/ Scancode \/ Tick \/ DiskDone \/ PollDisk
               PROVE  Kinds'
    OBVIOUS
  <1>1. UNCHANGED <<enabled, loaded, gates, handlers, inService>>
    BY DEF PressKey, Scancode, Tick, DiskDone, PollDisk, idt, pic
  <1>2. full' \in BOOLEAN
    BY DEF Kinds, PressKey, Scancode, Tick, DiskDone, PollDisk, kbd
  <1>3. intrq' \in BOOLEAN
    BY DEF Kinds, PressKey, Scancode, Tick, DiskDone, PollDisk
  <1>4. waiting' \in 0 .. MaxWaiting
    <2>1. waiting \in Int /\ waiting >= 0 /\ waiting <= MaxWaiting /\ MaxWaiting \in Int
      BY InterruptsAssumption DEF Kinds
    <2>2. \/ waiting' = waiting
          \/ waiting' = waiting + 1 /\ waiting < MaxWaiting
          \/ waiting' = waiting - 1 /\ waiting > 0
      BY DEF PressKey, Scancode, Tick, DiskDone, PollDisk, kbd
    <2> QED BY <2>1, <2>2
  <1> QED BY <1>1, <1>2, <1>3, <1>4 DEF Kinds

LEMMA KindsKmain == Kinds /\ BootStep => Kinds'
  <1> SUFFICES ASSUME Kinds, BootStep PROVE Kinds'
    OBVIOUS
  <1>1. UNCHANGED <<full, intrq, waiting>>
    BY DEF BootStep, ExceptionGates, Remap, IrqGates, LoadIdt, Sti,
           RegisterKeyboard, kbd
  <1>2. enabled' = enabled \/ enabled' = TRUE
    BY DEF BootStep, ExceptionGates, Remap, IrqGates, LoadIdt, Sti,
           RegisterKeyboard
  <1>3. loaded' = loaded \/ loaded' = TRUE
    BY DEF BootStep, ExceptionGates, Remap, IrqGates, LoadIdt, Sti,
           RegisterKeyboard, idt
  <1>4. /\ \/ gates' = gates \/ gates' = gates \cup 0 .. 31
           \/ gates' = gates \cup IRQ0 .. IRQ0 + 15
        /\ handlers' = handlers \/ handlers' = handlers \cup {IRQ0 + Keyboard}
        /\ inService' = inService \/ inService' = {}
    BY DEF BootStep, ExceptionGates, Remap, IrqGates, LoadIdt, Sti,
           RegisterKeyboard, idt, pic
  <1>5. 0 .. 31 \subseteq Vector /\ IRQ0 .. IRQ0 + 15 \subseteq Vector
          /\ IRQ0 + Keyboard \in Vector
    BY DEF Vector, IRQ0, Keyboard
  <1>6. gates' \subseteq Vector /\ handlers' \subseteq Vector /\ inService' \subseteq Line
    BY <1>4, <1>5 DEF Kinds
  <1>7. enabled' \in BOOLEAN /\ loaded' \in BOOLEAN
    BY <1>2, <1>3 DEF Kinds
  <1> QED BY <1>1, <1>6, <1>7 DEF Kinds

LEMMA KindsInterrupt ==
    Kinds /\ ((\E n \in Line : Accept(n)) \/ Spurious \/ HandlerStep) => Kinds'
  <1> SUFFICES ASSUME Kinds, (\E n \in Line : Accept(n)) \/ Spurious \/ HandlerStep
               PROVE  Kinds'
    OBVIOUS
  <1>1. UNCHANGED <<gates, handlers, loaded, waiting>>
    BY DEF Accept, Spurious, Enter, HandlerStep, Dispatch, Command, Acknowledge,
           Return, idt, kbd
  <1>2. enabled' = enabled \/ enabled' \in BOOLEAN
    BY DEF Accept, Spurious, Enter, HandlerStep, Dispatch, Command, Acknowledge,
           Return, Resume
  <1>3. full' = full \/ full' = FALSE
    BY DEF Accept, Spurious, Enter, HandlerStep, Dispatch, Command, Acknowledge,
           Return, kbd
  <1>4. intrq' = intrq \/ intrq' = FALSE
    BY DEF Accept, Spurious, HandlerStep, Dispatch, Command, Acknowledge, Return
  <1>5. inService' \subseteq Line
    <2>1. Cascade \in Line
      BY DEF Cascade, Line
    <2>2. CASE (\E n \in Line : Accept(n)) \/ Spurious
      BY <2>1, <2>2 DEF Kinds, Accept, Spurious
    <2>3. CASE HandlerStep
      <3>1. inService' = inService \/ inService' = EndOfInterrupt(Number)
        BY <2>3 DEF HandlerStep, Dispatch, Command, Acknowledge, Return, pic
      <3>2. EndOfInterrupt(Number) \subseteq inService
        BY DEF EndOfInterrupt, Eoi
      <3> QED BY <3>1, <3>2 DEF Kinds
    <2> QED BY <2>2, <2>3
  <1>6. enabled' \in BOOLEAN /\ full' \in BOOLEAN /\ intrq' \in BOOLEAN
    BY <1>2, <1>3, <1>4 DEF Kinds
  <1> QED BY <1>1, <1>5, <1>6 DEF Kinds

LEMMA KindsStep == Kinds /\ [Next]_vars => Kinds'
  <1> SUFFICES ASSUME Kinds, [Next]_vars PROVE Kinds'
    OBVIOUS
  <1>1. CASE UNCHANGED vars
    BY <1>1 DEF vars, idt, pic, kbd, Kinds
  <1> QED BY <1>1, KindsDevice, KindsKmain, KindsInterrupt, KindsException DEF Next

(* The variables of the interrupt path keep their types through the start, *)
(* the handlers and the acknowledgements (isr.c 47-139).                   *)
THEOREM InterruptsTypeCorrect == Spec => []TypeOK
  <1>1. Init => Kinds
    <2> SUFFICES ASSUME Init PROVE Kinds
      OBVIOUS
    <2>1. gates = {} /\ handlers = {} /\ inService = {} /\ waiting = 0
      BY DEF Init
    <2>2. enabled \in BOOLEAN /\ loaded \in BOOLEAN /\ full \in BOOLEAN
      BY DEF Init
    <2>3. intrq \in BOOLEAN
      BY DEF Init
    <2>4. 0 \in 0 .. MaxWaiting
      BY InterruptsAssumption
    <2> QED BY <2>1, <2>2, <2>3, <2>4 DEF Kinds
  <1>2. IInv /\ Kinds => TypeOK
    BY DEF IInv, TrapInv, Kinds, Steps, Places, TypeOK
  <1> QED BY InitInv, StepInv, KindsStep, <1>1, <1>2, PTL DEF Spec
=============================================================================
