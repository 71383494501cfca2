--------------------------- MODULE ConsoleProofs ---------------------------
(***************************************************************************)
(* Theorems about Console, for every screen of at least two columns, every *)
(* set of messages and every prompt that ends in a printing character.     *)
(*                                                                         *)
(* The bound on the video pointer is not inductive by itself.  It needs    *)
(* that every handler ends by printing a character of the prompt, which    *)
(* brings the pointer back to the screen, and that kmain's stale copy of   *)
(* the pointer was taken after a check.                                    *)
(*                                                                         *)
(* What the user sees rests on the end of the handler's work: it always    *)
(* ends in the prompt (EchoInv), behind a line that is closed (RowInv).    *)
(***************************************************************************)
EXTENDS Console, SequenceTheorems, TLAPS

Row == 2 * Cols

(* Between its check and its write-back kmain trusts the pointer. *)
Trusting == pc \in {"glyph", "attr", "load", "newline"}

(* The heap keeps its types; blocks need not be ones that malloc(2) made. *)
Header == [hdr : Nat, size : Nat, free : BOOLEAN, data : Nat]
HeapTyped == used \in Nat /\ blocks \in Seq(Header) /\ obj \in Nat

IInv ==
    /\ ptr \in Int /\ stored \in Int /\ reg \in Int
    /\ work \in Seq(Ops)
    /\ work # <<>> => work[Len(work)] = "c"
    /\ ptr <= Screen + 2 * Row
    /\ Idle => ptr <= Screen + Row
    /\ Idle /\ Trusting => ptr <= Screen + 1
    /\ pc \in {"advance", "wrap"} => reg <= Screen + 1
    /\ stored < Screen + Row
    /\ HeapTyped /\ buffer \in Seq(Keys)

LEMMA Sizes ==
    /\ Cols \in Nat /\ Rows \in Nat /\ Row \in Nat /\ Screen \in Nat
    /\ Row >= 4 /\ Screen = Row * Rows /\ Rows >= 1 /\ Screen >= Row
  BY ConsoleAssumption, SMTT(30) DEF Row, Screen

(* A newline from a row above row m+1 lands at the start of m+1 at most. *)
LEMMA NewlineBound ==
    ASSUME NEW p \in Int, NEW m \in Nat, p < Row * (m + 1)
    PROVE  Newline(p) \in Int /\ Newline(p) <= Row * (m + 1)
  <1>1. Row \in Nat /\ Row >= 4
    BY Sizes
  <1>2. RowOf(p) \in Int /\ RowOf(p) <= m
    <2>1. CASE p >= 0
      <3>1. RowOf(p) = p \div Row
        BY <2>1 DEF RowOf, Row
      <3>2. p = Row * (p \div Row) + (p % Row) /\ p % Row \in 0 .. Row - 1
              /\ p \div Row \in Int
        BY <1>1
      <3> QED BY <1>1, <3>1, <3>2, SMTT(30)
    <2>2. CASE p < 0
      <3>1. RowOf(p) = -((-p) \div Row)
        BY <2>2 DEF RowOf, Row
      <3>2. (-p) \div Row \in Nat
        BY <1>1, <2>2, SMTT(30)
      <3> QED BY <3>1, <3>2
    <2> QED BY <2>1, <2>2
  <1>3. Newline(p) = Row * (RowOf(p) + 1)
    BY DEF Newline, Row
  <1> QED BY <1>1, <1>2, <1>3, SMTT(30)

LEMMA Messages ==
    /\ \A t \in Text : t \in Seq(Ops)
    /\ UnknownMsg \in Seq(Ops) /\ HelpMsg \in Seq(Ops)
    /\ SyscallMsg \in Seq(Ops) /\ TotalMsg \in Seq(Ops)
    /\ BlockMsg \in Seq(Ops) /\ Prompt \in Seq(Ops) /\ WarnMsg \in Seq(Ops)
    /\ Prompt # <<>> /\ Prompt[Len(Prompt)] = "c"
  <1>1. {"c", "nl"} \subseteq Ops
    BY DEF Ops
  <1>2. \A t \in Text : t \in Seq(Ops)
    BY <1>1, SeqMonotonic DEF Text
  <1> QED BY <1>2, ConsoleAssumption

LEMMA TypedType == ASSUME buffer \in Seq(Keys) PROVE Typed \in Seq(Ops)
  <1>1. Len(buffer) \in Nat
    OBVIOUS
  <1>2. Typed \in [1 .. Len(buffer) -> Ops]
    BY DEF Typed, Ops
  <1> QED BY <1>1, <1>2, SeqDef

LEMMA BlockReportType == ASSUME HeapTyped PROVE BlockReport \in Seq(Ops)
  <1>1. Len(blocks) \in Nat /\ Len(BlockMsg) \in Nat
    BY Messages DEF HeapTyped
  <1>2. Len(blocks) * Len(BlockMsg) \in Nat
    BY <1>1
  <1>3. ASSUME NEW k \in 1 .. Len(blocks) * Len(BlockMsg)
        PROVE  BlockMsg[((k - 1) % Len(BlockMsg)) + 1] \in Ops
    <2>1. Len(BlockMsg) > 0
      <3>1. CASE Len(BlockMsg) = 0
        BY <1>1, <3>1
      <3> QED BY <1>1, <3>1
    <2>2. ((k - 1) % Len(BlockMsg)) + 1 \in 1 .. Len(BlockMsg)
      <3>1. k - 1 \in Int
        BY <1>2
      <3>2. \A a \in Int, n \in Nat : n > 0 => (a % n) + 1 \in 1 .. n
        OBVIOUS
      <3> QED BY <1>1, <2>1, <3>1, <3>2
    <2> QED BY <2>2, Messages
  <1>4. BlockReport \in [1 .. Len(blocks) * Len(BlockMsg) -> Ops]
    BY <1>3 DEF BlockReport
  <1> QED BY <1>2, <1>4, SeqDef

LEMMA RunCommandType ==
    ASSUME HeapTyped, buffer \in Seq(Keys)
    PROVE  RunCommand \in Seq(Ops)
  <1>1. \A s \in Ops : Syscall(s) \in Seq(Ops)
    <2> TAKE s \in Ops
    <2>1. <<"malloc", "fill", "free">> \in Seq(Ops) /\ <<s>> \in Seq(Ops)
      BY DEF Ops
    <2>2. <<"malloc", "fill", "free">> \o SyscallMsg \in Seq(Ops)
      BY <2>1, Messages, ConcatProperties
    <2> QED BY <2>1, <2>2, ConcatProperties DEF Syscall
  <1>2. Typed \in Seq(Ops)
    BY TypedType
  <1>3. BlockReport \in Seq(Ops)
    BY BlockReportType
  <1>4. UnknownMsg \o Typed \o <<"nl">> \in Seq(Ops)
    <2>1. <<"nl">> \in Seq(Ops)
      BY DEF Ops
    <2>2. UnknownMsg \o Typed \in Seq(Ops)
      BY <1>2, Messages, ConcatProperties
    <2> QED BY <2>1, <2>2, ConcatProperties
  <1>5. BlockReport \o TotalMsg \in Seq(Ops)
    BY <1>3, Messages, ConcatProperties
  <1>6. \A c \in DOMAIN Command : Command[c] \in Seq(Ops)
    <2>1. "halt" \in Ops /\ "reboot" \in Ops /\ "clear" \in Ops
      BY DEF Ops
    <2>2. /\ Syscall("halt") \in Seq(Ops) /\ Syscall("reboot") \in Seq(Ops)
          /\ Syscall("clear") \in Seq(Ops) /\ HelpMsg \in Seq(Ops)
          /\ BlockReport \o TotalMsg \in Seq(Ops)
      BY <1>1, <1>5, <2>1, Messages
    <2>3. DOMAIN Command = {"HALT", "REBOOT", "HELP", "MPRINT", "CLEAR"}
      BY DEF Command
    <2>4. /\ Command["HALT"] = Syscall("halt")
          /\ Command["REBOOT"] = Syscall("reboot")
          /\ Command["HELP"] = HelpMsg
          /\ Command["MPRINT"] = BlockReport \o TotalMsg
          /\ Command["CLEAR"] = Syscall("clear")
      BY DEF Command
    <2> HIDE DEF Command
    <2> QED BY <2>2, <2>3, <2>4
  <1> HIDE DEF Command
  <1> QED BY <1>4, <1>6 DEF RunCommand

(* Printing a character brings the pointer back to the screen.             *)
LEMMA PutCharBound ==
    ASSUME NEW c \in {"c", "nl"}, ptr \in Int, PutChar(c)
    PROVE  /\ ptr' \in Int /\ stored' \in Int
           /\ ptr' <= Screen + 1
           /\ stored' < Screen
  <1>1. AfterCheck(ptr) \in Int /\ AfterCheck(ptr) < Screen
    BY Sizes DEF AfterCheck
  <1>2. CASE c = "nl"
    <2>1. ptr' = Newline(AfterCheck(ptr)) /\ stored' = None
      BY <1>2 DEF PutChar
    <2>2. AfterCheck(ptr) < Row * ((Rows - 1) + 1) /\ Rows - 1 \in Nat
      BY <1>1, Sizes
    <2>3. ptr' \in Int /\ ptr' <= Row * ((Rows - 1) + 1)
      BY <1>1, <2>1, <2>2, NewlineBound
    <2> QED BY <2>1, <2>3, Sizes DEF None
  <1>3. CASE c = "c"
    BY <1>1, <1>3, Sizes DEF PutChar
  <1> QED BY <1>2, <1>3

(* Taking the first job off a list keeps its last one. *)
LEMMA TailKeepsLast ==
    ASSUME work \in Seq(Ops), work # <<>>, work[Len(work)] = "c"
    PROVE  /\ Tail(work) \in Seq(Ops)
           /\ Tail(work) # <<>> => Tail(work)[Len(Tail(work))] = "c"
           /\ Tail(work) = <<>> => Head(work) = "c"
  <1>1. Len(work) \in Nat /\ Len(work) >= 1 /\ Len(Tail(work)) = Len(work) - 1
    OBVIOUS
  <1>2. \A i \in 1 .. Len(Tail(work)) : Tail(work)[i] = work[i + 1]
    BY <1>1
  <1>3. Tail(work) = <<>> => Len(work) = 1
    BY <1>1
  <1>4. Len(Tail(work)) \in Nat /\ (Tail(work) # <<>> => Len(Tail(work)) >= 1)
    BY <1>1
  <1>5. Tail(work) # <<>> => Tail(work)[Len(Tail(work))] = "c"
    <2> SUFFICES ASSUME Tail(work) # <<>> PROVE Tail(work)[Len(Tail(work))] = "c"
      OBVIOUS
    <2>1. Len(Tail(work)) \in 1 .. Len(Tail(work))
      BY <1>4
    <2> QED BY <1>1, <1>2, <2>1
  <1>6. Tail(work) \in Seq(Ops)
    OBVIOUS
  <1> QED BY <1>1, <1>3, <1>5, <1>6

(* Nor does putting text in front of what is left. *)
LEMMA PrefixKeepsLast ==
    ASSUME NEW t \in Seq(Ops), NEW s \in Seq(Ops), s # <<>>, s[Len(s)] = "c"
    PROVE  /\ t \o s \in Seq(Ops) /\ t \o s # <<>>
           /\ (t \o s)[Len(t \o s)] = "c"
  <1>1. /\ t \o s \in Seq(Ops) /\ Len(t \o s) = Len(t) + Len(s)
        /\ Len(t) \in Nat /\ Len(s) \in Nat /\ Len(s) > 0
    BY ConcatProperties
  <1>2. (t \o s)[Len(t \o s)] = s[Len(s)]
    BY <1>1
  <1> QED BY <1>1, <1>2

LEMMA WarningsType == Warnings \in Seq(Ops)
  <1>1. \A b : Warned(b) \in Seq(Ops)
    BY Messages DEF Warned
  <1> HIDE DEF Warned
  <1>2. \A a, b, c : Warned(a) \o Warned(b) \o Warned(c) \in Seq(Ops)
    BY <1>1, ConcatProperties
  <1> QED BY <1>2 DEF Warnings

LEMMA BrkType ==
    ASSUME NEW u \in Nat, NEW n \in Nat
    PROVE  H!Brk(u, n).addr \in Nat /\ H!Brk(u, n).used \in Nat
  BY BootHeapAssumption DEF H!Brk, H!NULL

(* The kapi object comes and goes without spoiling the types of the heap,  *)
(* even where it overwrites a header.                                      *)
LEMMA HeapTypeStep ==
    ASSUME HeapTyped, Malloc \/ Fill \/ Free
    PROVE  HeapTyped'
  <1>0. ObjSize \in Nat /\ HeaderSize \in Nat
    BY BootHeapAssumption DEF ObjSize
  <1>1. ASSUME NEW u \in Nat, NEW a \in Nat, NEW d \in Nat,
               used' = u, H!Link(a, ObjSize, d), H!Hand(d, ObjSize, ObjSize),
               obj' = reply'.addr
        PROVE  HeapTyped'
    <2> DEFINE b == [hdr |-> a, size |-> ObjSize, free |-> FALSE, data |-> d]
    <2>1. b \in Header
      BY <1>0 DEF Header
    <2>2. blocks' = blocks \/ blocks' = Append(blocks, b)
      BY <1>1 DEF H!Link
    <2>3. blocks' \in Seq(Header)
      BY <2>1, <2>2, AppendProperties DEF HeapTyped
    <2> QED BY <1>1, <2>3 DEF HeapTyped, H!Hand
  <1>2. CASE Malloc
    <2>2. CASE H!MallocNew(ObjSize)
      <3> DEFINE h == H!Brk(used, HeaderSize)
                 l == H!Brk(h.used, ObjSize)
                 d == H!Brk(l.used, ObjSize)
      <3>1. h.used \in Nat /\ h.addr \in Nat
        BY <1>0, BrkType DEF HeapTyped
      <3>2. l.used \in Nat
        BY <1>0, <3>1, BrkType
      <3>3. d.used \in Nat /\ d.addr \in Nat
        BY <1>0, <3>2, BrkType
      <3>4. /\ used' = d.used /\ H!Link(h.addr, ObjSize, d.addr)
            /\ H!Hand(d.addr, ObjSize, ObjSize)
        BY <2>2 DEF H!MallocNew
      <3> HIDE DEF h, l, d
      <3> QED BY <1>1, <1>2, <3>1, <3>3, <3>4 DEF Malloc
    <2>3. CASE H!MallocReuse(ObjSize)
      <3>1. PICK i \in DOMAIN blocks :
               /\ blocks' = [blocks EXCEPT ![i].free = FALSE]
               /\ H!Hand(blocks[i].data, ObjSize, blocks[i].size)
        BY <2>3 DEF H!MallocReuse
      <3>2. blocks[i] \in Header /\ i \in 1 .. Len(blocks)
        BY DEF HeapTyped
      <3>3. [blocks[i] EXCEPT !.free = FALSE] \in Header
        BY <3>2 DEF Header
      <3>4. blocks' = [blocks EXCEPT ![i] = [blocks[i] EXCEPT !.free = FALSE]]
        BY <3>1
      <3>5. blocks' \in Seq(Header)
        BY <3>2, <3>3, <3>4, ExceptSeq DEF HeapTyped
      <3>6. used' = used /\ reply'.addr = blocks[i].data
        BY <2>3, <3>1 DEF H!MallocReuse, H!Hand
      <3>7. blocks[i].data \in Nat
        BY <3>2 DEF Header
      <3> QED BY <1>2, <3>5, <3>6, <3>7 DEF HeapTyped, Malloc
    <2> QED BY <1>2, <2>2, <2>3 DEF Malloc
  <1>3. CASE Fill
    <2> DEFINE New(i) ==
          IF obj # blocks[i].hdr + HeaderSize - PtrSize THEN blocks[i]
          ELSE [blocks[i] EXCEPT
                  !.data = ObjectBytes + 65536 * (blocks[i].data \div 65536)]
    <2>1. ObjectBytes \in Nat
      BY DEF ObjectBytes, CallNumber
    <2>2. ASSUME NEW i \in 1 .. Len(blocks) PROVE New(i) \in Header
      <3>1. blocks[i] \in Header
        BY DEF HeapTyped
      <3>2. blocks[i].data \in Nat
        BY <3>1 DEF Header
      <3>3. 65536 * (blocks[i].data \div 65536) \in Nat
        BY <3>2
      <3>4. ObjectBytes + 65536 * (blocks[i].data \div 65536) \in Nat
        BY <2>1, <3>3
      <3> QED BY <3>1, <3>4 DEF Header
    <2>3. Len(blocks) \in Nat /\ DOMAIN blocks = 1 .. Len(blocks)
      BY DEF HeapTyped
    <2>4. blocks' = [i \in DOMAIN blocks |-> New(i)] /\ used' = used /\ obj' = obj
      BY <1>3 DEF Fill
    <2> HIDE DEF New
    <2>5. blocks' \in [1 .. Len(blocks) -> Header]
      BY <2>2, <2>3, <2>4
    <2>6. blocks' \in Seq(Header)
      BY <2>3, <2>5, SeqDef
    <2> QED BY <2>4, <2>6 DEF HeapTyped
  <1>4. CASE Free
    <2>1. used' = used /\ obj' = obj
      BY <1>4 DEF Free, H!Free
    <2>2. \/ blocks' = blocks
          \/ \E i \in DOMAIN blocks : blocks' = [blocks EXCEPT ![i].free = TRUE]
      BY <1>4 DEF Free, H!Free
    <2>3. ASSUME NEW i \in DOMAIN blocks, blocks' = [blocks EXCEPT ![i].free = TRUE]
          PROVE  blocks' \in Seq(Header)
      <3>1. blocks[i] \in Header /\ i \in 1 .. Len(blocks)
        BY DEF HeapTyped
      <3>2. [blocks[i] EXCEPT !.free = TRUE] \in Header
        BY <3>1 DEF Header
      <3> QED BY <2>3, <3>1, <3>2, ExceptSeq DEF HeapTyped
    <2> QED BY <2>1, <2>2, <2>3 DEF HeapTyped
  <1> QED BY <1>2, <1>3, <1>4

LEMMA InitInv == Init => IInv
  <1> SUFFICES ASSUME Init PROVE IInv
    OBVIOUS
  <1>1. ptr \in Int /\ ptr <= Screen
    <2>1. PICK k \in 0 .. Cols * Rows : ptr = 2 * k
      BY DEF Init
    <2>2. k \in Int /\ k <= Cols * Rows /\ Cols * Rows \in Nat
      BY Sizes, SMTT(30)
    <2> QED BY <2>1, <2>2, Sizes DEF Screen
  <1>2. stored = None /\ reg = 0 /\ work = <<>> /\ pc = "check" /\ buffer = <<>>
    BY DEF Init
  <1>3. HeapTyped
    BY BootHeapAssumption DEF Init, HeapTyped, Header, NULL
  <1> QED BY <1>1, <1>2, <1>3, Sizes DEF IInv, None, Trusting

(* The keys: each needs an idle handler, and only Enter makes it busy.     *)
LEMMA KeysStep ==
    ASSUME IInv, (\E k \in Keys : PressKey(k)) \/ PressBackspace \/ PressEnter
    PROVE  IInv'
  <1>0. /\ reg' = reg /\ pc' = pc /\ mode' = mode /\ Idle
        /\ HeapTyped' /\ ptr \in Int /\ ptr <= Screen + Row
        /\ reg \in Int /\ (pc \in {"advance", "wrap"} => reg <= Screen + 1)
    BY DEF IInv, HeapTyped, PressKey, PressBackspace, PressEnter, heap, kernel
  <1>1. ASSUME NEW k \in Keys, PressKey(k) PROVE IInv'
    <2>1. /\ ptr' \in Int /\ stored' \in Int
          /\ ptr' <= Screen + 1 /\ stored' < Screen
      BY <1>0, <1>1, PutCharBound DEF PressKey
    <2>2. buffer' \in Seq(Keys)
      BY <1>1 DEF PressKey, IInv
    <2>3. work' = <<>>
      BY <1>1 DEF PressKey, Idle
    <2> QED BY <1>0, <2>1, <2>2, <2>3, Sizes DEF IInv, Trusting
  <1>2. CASE PressBackspace
    <2>1. ptr' = ptr - 2 /\ stored' = ptr - 2 /\ work' = work /\ work = <<>>
      BY <1>2 DEF PressBackspace, Idle
    <2>2. buffer' \in Seq(Keys)
      <3>1. /\ buffer \in Seq(Keys) /\ Len(buffer) \in Nat /\ Len(buffer) > 0
            /\ buffer' = SubSeq(buffer, 1, Len(buffer) - 1)
        BY <1>2 DEF PressBackspace, IInv
      <3>2. \A i \in 1 .. Len(buffer) - 1 : buffer[i] \in Keys
        BY <3>1
      <3> QED BY <3>1, <3>2, SubSeqProperties
    <2>3. Trusting => ptr <= Screen + 1
      BY <1>0 DEF IInv
    <2> QED BY <1>0, <2>1, <2>2, <2>3, Sizes DEF IInv, Trusting
  <1>3. CASE PressEnter
    <2>1. ptr' = Newline(ptr) /\ stored' = None /\ buffer' = buffer
      BY <1>3 DEF PressEnter
    <2>2. ptr < Row * ((Rows + 1) + 1) /\ Rows + 1 \in Nat
           /\ Row * ((Rows + 1) + 1) = Screen + 2 * Row
      BY <1>0, Sizes, SMTT(30)
    <2>3. ptr' \in Int /\ ptr' <= Screen + 2 * Row
      BY <1>0, <2>1, <2>2, NewlineBound
    <2>4. RunCommand \in Seq(Ops) /\ <<"reset">> \in Seq(Ops)
      BY RunCommandType DEF IInv, Ops
    <2> DEFINE before == RunCommand \o <<"reset">>
    <2>5. before \in Seq(Ops) /\ work' = before \o Prompt
      BY <1>3, <2>4, ConcatProperties DEF PressEnter
    <2> HIDE DEF before
    <2>6. /\ work' \in Seq(Ops) /\ Len(work') = Len(before) + Len(Prompt)
          /\ Len(before) \in Nat /\ Len(Prompt) \in Nat /\ Len(Prompt) > 0
      BY <2>5, Messages, ConcatProperties
    <2>7. work'[Len(work')] = Prompt[Len(Prompt)]
      BY <2>5, <2>6, Messages
    <2>8. work' # <<>>
      BY <2>6
    <2>9. buffer' \in Seq(Keys)
      BY <2>1 DEF IInv
    <2>10. ~Idle' /\ stored' \in Int /\ stored' < Screen + Row
      BY <2>1, <2>8, Sizes DEF Idle, None
    <2>11. work'[Len(work')] = "c"
      BY <2>7, Messages
    <2> QED BY <1>0, <2>3, <2>6, <2>9, <2>10, <2>11 DEF IInv
  <1> QED BY <1>1, <1>2, <1>3

(* The handler's own steps; what is left always ends in a character, so    *)
(* the last step is a Write.                                               *)
LEMMA HandlerStep ==
    ASSUME IInv, Handler
    PROVE  IInv'
  <1>0. /\ ptr \in Int /\ ptr <= Screen + 2 * Row /\ reg \in Int
        /\ (pc \in {"advance", "wrap"} => reg <= Screen + 1)
        /\ buffer \in Seq(Keys) /\ HeapTyped
    BY DEF IInv
  <1>1. CASE Reboot
    <2>1. Init'
      BY <1>1 DEF Reboot, Init
    <2>2. ptr' \in Int /\ ptr' <= Screen
      <3>1. PICK k \in 0 .. Cols * Rows : ptr' = 2 * k
        BY <1>1 DEF Reboot
      <3>2. k \in Int /\ k <= Cols * Rows /\ Cols * Rows \in Nat
        BY Sizes, SMTT(30)
      <3> QED BY <3>1, <3>2, Sizes DEF Screen
    <2>3. /\ stored' = None /\ reg' = 0 /\ work' = <<>> /\ pc' = "check"
          /\ buffer' = <<>>
      BY <1>1 DEF Reboot
    <2>4. HeapTyped'
      BY <1>1, BootHeapAssumption DEF Reboot, HeapTyped, Header, NULL
    <2> QED BY <2>2, <2>3, <2>4, Sizes DEF IInv, None, Trusting
  <1>2. CASE ~Reboot
    <2>1. /\ work # <<>> /\ pc' = pc /\ reg' = reg
          /\ Malloc \/ work' = Tail(work)
      BY <1>2 DEF Handler, Write, Malloc, Fill, Free, Clear, Halt, ResetBuffer,
                 Doing, kernel
    <2>2. work \in Seq(Ops) /\ work[Len(work)] = "c"
      BY <2>1 DEF IInv
    <2>3. /\ work' \in Seq(Ops)
          /\ work' # <<>> => work'[Len(work')] = "c"
          /\ work' = <<>> => Head(work) = "c"
      <3>1. CASE work' = Tail(work)
        BY <2>1, <2>2, <3>1, TailKeepsLast
      <3>2. CASE Malloc
        <4>1. Head(work) = "malloc" /\ work' = Warnings \o Tail(work)
          BY <3>2 DEF Malloc, Doing
        <4>2. /\ Tail(work) \in Seq(Ops) /\ Tail(work) # <<>>
              /\ Tail(work)[Len(Tail(work))] = "c"
          BY <2>1, <2>2, <4>1, TailKeepsLast
        <4> QED BY <4>1, <4>2, WarningsType, PrefixKeepsLast
      <3> QED BY <2>1, <3>1, <3>2
    <2>4. CASE Write
      <3>1. /\ ptr' \in Int /\ stored' \in Int
            /\ ptr' <= Screen + 1 /\ stored' < Screen
        BY <1>0, <2>4, PutCharBound DEF Write
      <3>2. HeapTyped' /\ buffer' = buffer
        BY <1>0, <2>4 DEF Write, HeapTyped, heap
      <3> QED BY <1>0, <2>1, <2>3, <3>1, <3>2, Sizes DEF IInv
    <2>5. CASE ~Write
      <3>1. /\ Head(work) # "c" /\ stored' = None
            /\ ptr' = ptr \/ ptr' = 0
            /\ buffer' = buffer \/ buffer' = <<>>
        BY <1>2, <2>5 DEF Handler, Malloc, Fill, Free, Clear, Halt, ResetBuffer,
                   Doing
      <3>2. HeapTyped'
        <4>1. CASE Malloc \/ Fill \/ Free
          BY <1>0, <4>1, HeapTypeStep
        <4>2. CASE Clear \/ Halt \/ ResetBuffer
          BY <1>0, <4>2 DEF Clear, Halt, ResetBuffer, HeapTyped, heap, NULL
        <4> QED BY <1>2, <2>5, <4>1, <4>2 DEF Handler
      <3>3. work' # <<>>
        BY <2>3, <3>1
      <3>4. ptr' \in Int /\ ptr' <= Screen + 2 * Row
        BY <1>0, <3>1, Sizes
      <3>5. buffer' \in Seq(Keys)
        <4>1. <<>> \in Seq(Keys)
          OBVIOUS
        <4>2. buffer' = <<>> \/ buffer' = buffer
          BY <3>1
        <4> QED BY <1>0, <4>1, <4>2
      <3>6. stored' \in Int /\ stored' < Screen + Row
        BY <3>1, Sizes DEF None
      <3>7. ~Idle'
        BY <3>3 DEF Idle
      <3> QED BY <1>0, <2>1, <2>3, <3>2, <3>3, <3>4, <3>5, <3>6, <3>7 DEF IInv
    <2> QED BY <2>4, <2>5
  <1> QED BY <1>1, <1>2

(* kmain's steps: the check makes it trust the pointer, and a handler that *)
(* ran since has left the pointer at most one past the screen.             *)
LEMMA KernelStep ==
    ASSUME IInv, Kernel
    PROVE  IInv'
  <1>0. /\ ptr \in Int /\ ptr <= Screen + Row /\ reg \in Int
        /\ (Trusting => ptr <= Screen + 1)
        /\ (pc \in {"advance", "wrap"} => reg <= Screen + 1)
        /\ work' = <<>> /\ buffer' \in Seq(Keys) /\ HeapTyped'
    BY DEF IInv, Kernel, MainCheck, MainFill, MainStore, MainLoad,
           MainWriteBack, At, Idle, Elsewhere, heap, HeapTyped
  <1> SUFFICES
        /\ ptr' \in Int /\ stored' \in Int /\ reg' \in Int
        /\ ptr' <= Screen + Row
        /\ Trusting' => ptr' <= Screen + 1
        /\ pc' \in {"advance", "wrap"} => reg' <= Screen + 1
        /\ stored' < Screen + Row
    BY <1>0, Sizes DEF IInv
  <1>1. CASE MainCheck
    <2>1. reg' = reg /\ stored' = None /\ pc' \in {"fill", "newline", "glyph"}
      BY <1>1 DEF MainCheck
    <2>2. \/ ptr' = 0
          \/ ptr' = ptr /\ ptr < Screen
      BY <1>0, <1>1, Sizes DEF MainCheck
    <2> QED BY <1>0, <2>1, <2>2, Sizes DEF None
  <1>2. CASE MainFill
    <2>1. reg' = reg /\ stored' = None /\ pc' \in {"check", "newline", "glyph"}
      BY <1>2 DEF MainFill
    <2>2. \/ ptr' = 0
          \/ ptr' = ptr /\ ptr < Screen
      <3>1. \/ ptr' = 0
            \/ ptr' = ptr /\ ptr \in 0 .. Screen - 1
        BY <1>2 DEF MainFill
      <3> QED BY <1>0, <3>1, Sizes
    <2> QED BY <1>0, <2>1, <2>2, Sizes DEF None
  <1>3. CASE MainStore
    <2>1. /\ reg' = reg /\ ptr' = ptr /\ Trusting
          /\ stored' = ptr \/ stored' = ptr + 1
          /\ pc' \in {"attr", "load"}
      BY <1>3 DEF MainStore, At, Trusting
    <2> QED BY <1>0, <2>1, Sizes
  <1>4. CASE MainLoad
    <2>1. /\ reg' = ptr /\ ptr' = ptr /\ Trusting /\ stored' = None
          /\ pc' \in {"advance", "wrap"}
      BY <1>4 DEF MainLoad, At, Trusting
    <2> QED BY <1>0, <2>1, Sizes DEF None, Trusting
  <1>5. CASE MainWriteBack
    <2>1. /\ reg' = 0 /\ stored' = None /\ pc' \in {"fill", "check"}
          /\ reg <= Screen + 1
          /\ ptr' = reg + 2 \/ ptr' = Newline(reg)
      BY <1>0, <1>5 DEF MainWriteBack, At
    <2>2. /\ reg < Row * (Rows + 1) /\ Rows \in Nat
          /\ Row * (Rows + 1) = Screen + Row
      BY <1>0, <2>1, Sizes, SMTT(30)
    <2>3. Newline(reg) \in Int /\ Newline(reg) <= Screen + Row
      BY <1>0, <2>2, NewlineBound
    <2>4. ptr' \in Int /\ ptr' <= Screen + Row
      BY <1>0, <2>1, <2>3, Sizes
    <2>5. ~Trusting' /\ pc' \notin {"advance", "wrap"}
      BY <2>1 DEF Trusting
    <2> QED BY <2>1, <2>4, <2>5, Sizes DEF None
  <1> QED BY <1>1, <1>2, <1>3, <1>4, <1>5 DEF Kernel

LEMMA StepInv == IInv /\ [Next]_vars => IInv'
  <1> SUFFICES ASSUME IInv, [Next]_vars PROVE IInv'
    OBVIOUS
  <1>1. CASE (\E k \in Keys : PressKey(k)) \/ PressBackspace \/ PressEnter
    BY <1>1, KeysStep
  <1>2. CASE Handler
    BY <1>2, HandlerStep
  <1>3. CASE Kernel
    BY <1>3, KernelStep
  <1>4. CASE UNCHANGED vars
    BY <1>4 DEF vars, kernel, heap, echo, IInv, HeapTyped, Idle, Trusting
  <1> QED BY <1>1, <1>2, <1>3, <1>4 DEF Next

(* However kmain and the keyboard interrupt interleave, the video pointer  *)
(* runs at most two rows past the screen, one once the handler has         *)
(* returned, and no byte is stored a row or more behind it (vga.c 39-92).  *)
THEOREM PointerBounded == Spec => []PointerNearScreen
  <1>1. IInv => PointerNearScreen
    BY Sizes DEF IInv, PointerNearScreen, Row
  <1> QED BY InitInv, StepInv, <1>1, PTL DEF Spec

(* What IInv leaves of TypeOK; a clear loop on the stack is counted. *)
Places == {"check", "fill", "glyph", "attr", "load", "newline", "advance", "wrap"}

Rest ==
    /\ line \in Int
    /\ mode \in {"running", "halted"}
    /\ main \in Text
    /\ pc \in Places
    /\ depth \in Nat
    /\ synced \in BOOLEAN
    /\ pc = "fill" => depth > 0

(* What kmain has left to print is a text after each character of it. *)
LEMMA TextTail ==
    ASSUME NEW t \in Text, t # <<>>
    PROVE  Tail(t) \in Text
  BY DEF Text

LEMMA RestHandler == Rest /\ IInv' /\ Handler => Rest'
  <1> SUFFICES ASSUME Rest, IInv', Handler PROVE Rest'
    OBVIOUS
  <1>0. ptr' \in Int
    BY DEF IInv
  <1>1. CASE Write
    <2>1. UNCHANGED <<mode, main, pc, depth>>
      BY <1>1 DEF Write, kernel
    <2>2. line' \in Int
      BY <1>0, <1>1 DEF Rest, Write, echo
    <2>3. synced' \in BOOLEAN
      BY <1>1 DEF Rest, Write, echo
    <2> QED BY <2>1, <2>2, <2>3 DEF Rest
  <1>2. CASE Malloc \/ Fill \/ Free \/ Clear \/ Halt \/ ResetBuffer
    <2>1. UNCHANGED <<main, pc, depth, line, synced>>
      BY <1>2 DEF Malloc, Fill, Free, Clear, Halt, ResetBuffer, kernel, echo
    <2>2. mode' = mode \/ mode' = "halted"
      BY <1>2 DEF Malloc, Fill, Free, Clear, Halt, ResetBuffer
    <2> QED BY <2>1, <2>2 DEF Rest
  <1>3. CASE Reboot
    <2>1. /\ mode' = "running" /\ main' = BootText /\ pc' = "check"
          /\ depth' = 0 /\ line' = 0
      BY <1>3 DEF Reboot
    <2>2. synced' \in BOOLEAN
      <3>1. synced' = FALSE
        BY <1>3 DEF Reboot
      <3> QED BY <3>1, Zenon
    <2>3. BootText \in Text
      BY ConsoleAssumption
    <2>4. pc' \in Places
      BY <2>1 DEF Places
    <2>5. depth' \in Nat /\ line' \in Int /\ pc' # "fill"
      BY <2>1
    <2>6. mode' \in {"running", "halted"} /\ main' \in Text
      BY <2>1, <2>3
    <2> QED BY <2>2, <2>4, <2>5, <2>6 DEF Rest
  <1> QED BY <1>1, <1>2, <1>3 DEF Handler

LEMMA RestKernel == Rest /\ IInv /\ Kernel => Rest'
  <1> SUFFICES ASSUME Rest, IInv, Kernel PROVE Rest'
    OBVIOUS
  <1>1. CASE MainCheck
    <2>1. UNCHANGED <<mode, line, main>>
      BY <1>1 DEF MainCheck, Elsewhere
    <2>2. \/ depth' = depth + 1 /\ pc' = "fill"
          \/ depth' = depth /\ pc' \in {"newline", "glyph"}
      BY <1>1 DEF MainCheck
    <2>3. synced' \in BOOLEAN
      BY <1>1 DEF Rest, MainCheck
    <2> QED BY <2>1, <2>2, <2>3 DEF Rest, Places
  <1>2. CASE MainFill
    <2>1. UNCHANGED <<mode, line, main>> /\ pc = "fill"
      BY <1>2 DEF MainFill, Elsewhere, At
    <2>2. depth \in Nat /\ depth > 0
      BY <2>1 DEF Rest
    <2>3. \/ depth' = depth /\ pc' = "check"
          \/ depth' = depth - 1 /\ pc' \in {"newline", "glyph"}
      BY <1>2 DEF MainFill
    <2>4. synced' \in BOOLEAN
      BY <1>2 DEF Rest, MainFill
    <2> QED BY <2>1, <2>2, <2>3, <2>4 DEF Rest, Places
  <1>3. CASE MainStore \/ MainLoad
    <2>1. UNCHANGED <<mode, line, main, depth, synced>>
      BY <1>3 DEF MainStore, MainLoad, Elsewhere
    <2>2. pc' \in {"attr", "load", "advance", "wrap"}
      BY <1>3 DEF MainStore, MainLoad
    <2> QED BY <2>1, <2>2 DEF Rest, Places
  <1>4. CASE MainWriteBack
    <2>1. UNCHANGED <<mode, line, depth>> /\ main # <<>>
      BY <1>4 DEF MainWriteBack, Elsewhere, At
    <2>2. synced' = FALSE
      BY <1>4 DEF MainWriteBack
    <2>3. main' = main \/ main' = Tail(main)
      BY <1>4 DEF MainWriteBack
    <2>4. main' \in Text
      BY <2>1, <2>3, TextTail DEF Rest
    <2>5. (pc' = "fill" /\ depth > 0) \/ pc' = "check"
      BY <1>4 DEF MainWriteBack
    <2> QED BY <2>1, <2>2, <2>4, <2>5 DEF Rest, Places
  <1> QED BY <1>1, <1>2, <1>3, <1>4 DEF Kernel

LEMMA RestStep == Rest /\ IInv /\ IInv' /\ [Next]_vars => Rest'
  <1> SUFFICES ASSUME Rest, IInv, IInv', [Next]_vars PROVE Rest'
    OBVIOUS
  <1>1. CASE (\E k \in Keys : PressKey(k)) \/ PressBackspace \/ PressEnter
    <2>1. UNCHANGED <<mode, main, pc, depth, line>>
      BY <1>1 DEF PressKey, PressBackspace, PressEnter, kernel, echo
    <2>2. synced' \in BOOLEAN
      BY <1>1 DEF Rest, PressKey, PressBackspace, PressEnter, echo
    <2> QED BY <2>1, <2>2 DEF Rest
  <1>2. CASE Handler
    BY <1>2, RestHandler
  <1>3. CASE Kernel
    BY <1>3, RestKernel
  <1>4. CASE UNCHANGED vars
    BY <1>4 DEF Rest, vars, kernel, echo
  <1> QED BY <1>1, <1>2, <1>3, <1>4 DEF Next

(* The console's variables keep their types, the list of work and the      *)
(* clear loops on kmain's stack included (console.c 19-67, vga.c 39-92).   *)
THEOREM ConsoleTypeCorrect == Spec => []TypeOK
  <1>1. Init => Rest
    <2>1. ASSUME Init
          PROVE  /\ mode = "running" /\ main = BootText /\ pc = "check"
                 /\ depth = 0 /\ line = 0
      BY <2>1 DEF Init
    <2>2. ASSUME Init PROVE synced = FALSE
      BY <2>2 DEF Init
    <2>3. BootText \in Text
      BY ConsoleAssumption
    <2> QED BY <2>1, <2>2, <2>3 DEF Rest, Places
  <1>2. IInv /\ Rest => TypeOK
    BY DEF IInv, Rest, Places, TypeOK
  <1> QED BY InitInv, StepInv, RestStep, <1>1, <1>2, PTL DEF Spec
-----------------------------------------------------------------------------
(* The echo.  A line begins when the handler prints the last character of  *)
(* the prompt; the buffer has been emptied by then because the reset       *)
(* stands right in front of the prompt.  From a line that began on the     *)
(* screen neither keys nor the next command take the pointer in front of   *)
(* video memory (ptr >= 0), although they may take it past the end.        *)

P == Len(Prompt)

(* What is left to do ends in the reset and the prompt. *)
EndsInPrompt(w) ==
    /\ Len(w) > P => w[Len(w) - P] = "reset"
    /\ \A k \in 1 .. Len(w) : k > Len(w) - P => w[k] = Prompt[k + P - Len(w)]

Prompting == work # <<>> /\ Len(work) <= P

EchoInv ==
    /\ EndsInPrompt(work)
    /\ line \in Int
    /\ Prompting => buffer = <<>>
    /\ synced /\ work = <<>> => ptr = line + 2 * Len(buffer) /\ ptr <= Screen + 1
    /\ synced /\ line > 0 => ptr >= 0 /\ stored >= None
    /\ synced /\ line > 0 /\ main = <<>> => stored < Screen

LEMMA PromptLength == P \in Nat /\ P > 0
  BY ConsoleAssumption DEF P, Text

LEMMA PromptText == Prompt \in Seq({"c", "nl"}) /\ Len(Prompt) = P
  BY ConsoleAssumption DEF P, Text

LEMMA Between ==
    ASSUME NEW n \in Nat, NEW p \in Nat
    PROVE  /\ n # p + 1 /\ ~(n <= p) => n > p + 1
           /\ n - 1 <= p => n <= p + 1
           /\ n <= p + 1 => n = p + 1 \/ n <= p
           /\ n > p + 1 => n - 1 > p
  OBVIOUS

(* A newline, like the check in front of a character, never moves a        *)
(* pointer at the screen in front of it.                                   *)
LEMMA NewlineUp ==
    ASSUME NEW p \in Int, p >= 0
    PROVE  Newline(p) \in Int /\ Newline(p) >= 0
  <1>1. Row \in Nat /\ Row >= 4
    BY Sizes
  <1>2. RowOf(p) = p \div Row
    BY DEF RowOf, Row
  <1>3. p \div Row \in Nat
    BY <1>1, SMTT(30)
  <1>4. Newline(p) = Row * (RowOf(p) + 1)
    BY DEF Newline, Row
  <1>5. \A r, n \in Nat : r * (n + 1) \in Nat
    BY SMTT(30)
  <1>6. Row * (RowOf(p) + 1) \in Nat
    BY <1>1, <1>2, <1>3, <1>5
  <1> QED BY <1>4, <1>6

LEMMA PutCharUp ==
    ASSUME NEW c \in {"c", "nl"}, ptr \in Int, ptr >= 0, PutChar(c)
    PROVE  ptr' >= 0 /\ stored' >= None
  <1>1. AfterCheck(ptr) \in Int /\ AfterCheck(ptr) >= 0
    BY Sizes DEF AfterCheck
  <1>2. CASE c = "nl"
    <2>1. ptr' = Newline(AfterCheck(ptr)) /\ stored' = None
      BY <1>2 DEF PutChar
    <2> QED BY <1>1, <2>1, NewlineUp DEF None
  <1>3. CASE c = "c"
    <2>1. ptr' = AfterCheck(ptr) + 2 /\ stored' = AfterCheck(ptr)
      BY <1>3 DEF PutChar
    <2> QED BY <1>1, <2>1 DEF None
  <1> QED BY <1>2, <1>3

(* What a command's jobs do to the screen. *)
LEMMA HandlerStores ==
    ASSUME IInv, Handler, ~Reboot
    PROVE  /\ main' = main /\ stored' < Screen
           /\ ptr >= 0 => ptr' >= 0 /\ stored' >= None
  <1>0. ptr \in Int
    BY DEF IInv
  <1>1. main' = main
    BY DEF Handler, Write, Malloc, Fill, Free, Clear, Halt, ResetBuffer, kernel
  <1>2. CASE Write
    <2>1. PICK c \in {"c", "nl"} : PutChar(c)
      BY <1>2 DEF Write
    <2>2. stored' < Screen
      BY <1>0, <2>1, PutCharBound
    <2>3. ptr >= 0 => ptr' >= 0 /\ stored' >= None
      BY <1>0, <2>1, PutCharUp
    <2> QED BY <1>1, <2>2, <2>3
  <1>3. CASE ~Write
    <2>1. stored' = None /\ (ptr' = ptr \/ ptr' = 0)
      BY <1>3 DEF Handler, Malloc, Fill, Free, Clear, Halt, ResetBuffer
    <2>2. None < Screen /\ None >= None
      BY Sizes DEF None
    <2> QED BY <1>0, <1>1, <2>1, <2>2
  <1> QED BY <1>2, <1>3

(* Taking the first job off, or putting warnings in front. *)
LEMMA PromptStays ==
    ASSUME NEW w \in Seq(Ops), w # <<>>, EndsInPrompt(w)
    PROVE  /\ Tail(w) \in Seq(Ops) /\ Len(Tail(w)) = Len(w) - 1
           /\ EndsInPrompt(Tail(w))
           /\ Len(w) = P + 1 => Head(w) = "reset"
           /\ Len(w) <= P => Head(w) = Prompt[1 + P - Len(w)]
           /\ Len(w) <= P => Head(w) \in {"c", "nl"}
  <1>1. /\ Len(w) \in Nat /\ Len(w) >= 1 /\ Head(w) = w[1]
        /\ Tail(w) \in Seq(Ops) /\ Len(Tail(w)) = Len(w) - 1
    OBVIOUS
  <1>2. \A k \in 1 .. Len(Tail(w)) : Tail(w)[k] = w[k + 1]
    BY <1>1
  <1>3. Len(Tail(w)) > P => Tail(w)[Len(Tail(w)) - P] = "reset"
    <2> SUFFICES ASSUME Len(Tail(w)) > P
                 PROVE  Tail(w)[Len(Tail(w)) - P] = "reset"
      OBVIOUS
    <2>1. Len(Tail(w)) - P \in 1 .. Len(Tail(w))
      BY <1>1, PromptLength
    <2>2. Tail(w)[Len(Tail(w)) - P] = w[(Len(Tail(w)) - P) + 1]
      BY <1>2, <2>1
    <2>3. (Len(Tail(w)) - P) + 1 = Len(w) - P /\ Len(w) > P
      BY <1>1, PromptLength
    <2> QED BY <2>2, <2>3 DEF EndsInPrompt
  <1>4. ASSUME NEW k \in 1 .. Len(Tail(w)), k > Len(Tail(w)) - P
        PROVE  Tail(w)[k] = Prompt[k + P - Len(Tail(w))]
    <2>1. k + 1 \in 1 .. Len(w) /\ k + 1 > Len(w) - P
          /\ (k + 1) + P - Len(w) = k + P - Len(Tail(w))
      BY <1>1, <1>4, PromptLength
    <2>2. w[k + 1] = Prompt[(k + 1) + P - Len(w)]
      BY <2>1 DEF EndsInPrompt
    <2> QED BY <1>2, <2>1, <2>2
  <1>5. EndsInPrompt(Tail(w))
    BY <1>3, <1>4 DEF EndsInPrompt
  <1>6. Len(w) = P + 1 => Head(w) = "reset"
    <2> SUFFICES ASSUME Len(w) = P + 1 PROVE w[1] = "reset"
      BY <1>1
    <2>1. Len(w) > P /\ Len(w) - P = 1
      BY PromptLength
    <2> QED BY <2>1 DEF EndsInPrompt
  <1>7. ASSUME Len(w) <= P
        PROVE  Head(w) = Prompt[1 + P - Len(w)] /\ Head(w) \in {"c", "nl"}
    <2>1. 1 \in 1 .. Len(w) /\ 1 > Len(w) - P
      BY <1>1, <1>7, PromptLength
    <2>2. w[1] = Prompt[1 + P - Len(w)]
      BY <2>1 DEF EndsInPrompt
    <2>3. 1 + P - Len(w) \in 1 .. P
      BY <1>1, <1>7, PromptLength
    <2>4. Prompt[1 + P - Len(w)] \in {"c", "nl"}
      BY <2>3, PromptText
    <2> QED BY <1>1, <2>2, <2>4
  <1> QED BY <1>1, <1>5, <1>6, <1>7

LEMMA PromptStaysBehind ==
    ASSUME NEW t \in Seq(Ops), NEW w \in Seq(Ops), EndsInPrompt(w),
           Len(w) > P
    PROVE  EndsInPrompt(t \o w) /\ Len(t \o w) = Len(t) + Len(w)
           /\ Len(t \o w) > P
  <1>1. /\ Len(t) \in Nat /\ Len(w) \in Nat /\ Len(t \o w) = Len(t) + Len(w)
        /\ \A k \in 1 .. Len(w) : (t \o w)[Len(t) + k] = w[k]
    BY ConcatProperties
  <1>2. Len(t \o w) > P /\ Len(w) - P \in 1 .. Len(w)
        /\ Len(t \o w) - P = Len(t) + (Len(w) - P)
    BY <1>1, PromptLength
  <1>3. (t \o w)[Len(t \o w) - P] = "reset"
    BY <1>1, <1>2 DEF EndsInPrompt
  <1>4. ASSUME NEW k \in 1 .. Len(t \o w), k > Len(t \o w) - P
        PROVE  (t \o w)[k] = Prompt[k + P - Len(t \o w)]
    <2>1. k - Len(t) \in 1 .. Len(w) /\ k - Len(t) > Len(w) - P
          /\ k = Len(t) + (k - Len(t))
          /\ (k - Len(t)) + P - Len(w) = k + P - Len(t \o w)
      BY <1>1, <1>4, PromptLength
    <2>2. w[k - Len(t)] = Prompt[(k - Len(t)) + P - Len(w)]
      BY <2>1 DEF EndsInPrompt
    <2>3. (t \o w)[Len(t) + (k - Len(t))] = w[k - Len(t)]
      BY <1>1, <2>1
    <2> QED BY <2>1, <2>2, <2>3
  <1> QED BY <1>1, <1>2, <1>3, <1>4 DEF EndsInPrompt

(* The list that Enter makes. *)
LEMMA EnterEndsInPrompt ==
    ASSUME NEW r \in Seq(Ops)
    PROVE  /\ r \o <<"reset">> \o Prompt \in Seq(Ops)
           /\ EndsInPrompt(r \o <<"reset">> \o Prompt)
           /\ Len(r \o <<"reset">> \o Prompt) = Len(r) + 1 + P
           /\ \A k \in 1 .. Len(r) : (r \o <<"reset">> \o Prompt)[k] = r[k]
  <1> DEFINE b == r \o <<"reset">>
             w == b \o Prompt
  <1>1. <<"reset">> \in Seq(Ops) /\ Len(<<"reset">>) = 1 /\ <<"reset">>[1] = "reset"
    BY DEF Ops
  <1>2. /\ b \in Seq(Ops) /\ Len(b) = Len(r) + 1 /\ Len(r) \in Nat
        /\ \A k \in 1 .. Len(r) : b[k] = r[k]
        /\ b[Len(r) + 1] = "reset"
    <2> DEFINE s == <<"reset">>
    <2>1. s \in Seq(Ops) /\ Len(s) = 1 /\ s[1] = "reset"
      BY <1>1
    <2> HIDE DEF s
    <2>2. r \o s \in Seq(Ops) /\ Len(r \o s) = Len(r) + 1 /\ Len(r) \in Nat
      <3>1. r \o s \in Seq(Ops) /\ Len(r \o s) = Len(r) + Len(s)
        BY <2>1, ConcatProperties
      <3> QED BY <2>1, <3>1
    <2>3. \A k \in 1 .. Len(r) : (r \o s)[k] = r[k]
      BY <2>1, <2>2
    <2>4. (r \o s)[Len(r) + 1] = s[1]
      BY <2>1, <2>2
    <2> QED BY <2>1, <2>2, <2>3, <2>4 DEF s
  <1> HIDE DEF b
  <1>3. /\ w \in Seq(Ops) /\ Len(w) = Len(b) + P
        /\ \A k \in 1 .. Len(b) : w[k] = b[k]
        /\ \A k \in 1 .. P : w[Len(b) + k] = Prompt[k]
    <2>1. Prompt \in Seq(Ops) /\ Len(Prompt) = P /\ P \in Nat
      BY Messages, PromptLength DEF P
    <2>2. w \in Seq(Ops) /\ Len(w) = Len(b) + P
      BY <1>2, <2>1, ConcatProperties
    <2>3. \A k \in 1 .. Len(b) : w[k] = b[k]
      BY <1>2, <2>1
    <2>4. \A k \in 1 .. P : w[Len(b) + k] = Prompt[k]
      BY <1>2, <2>1
    <2> QED BY <2>2, <2>3, <2>4
  <1> HIDE DEF w
  <1>4. w[Len(w) - P] = "reset"
    <2>1. Len(w) - P = Len(r) + 1 /\ Len(r) + 1 \in 1 .. Len(b)
      BY <1>2, <1>3, PromptLength
    <2> QED BY <1>2, <1>3, <2>1
  <1>5. ASSUME NEW k \in 1 .. Len(w), k > Len(w) - P
        PROVE  w[k] = Prompt[k + P - Len(w)]
    <2>1. k - Len(b) \in 1 .. P /\ k = Len(b) + (k - Len(b))
          /\ k + P - Len(w) = k - Len(b)
      BY <1>2, <1>3, <1>5, PromptLength
    <2>2. w[Len(b) + (k - Len(b))] = Prompt[k - Len(b)]
      BY <1>3, <2>1
    <2> QED BY <2>1, <2>2
  <1>6. \A k \in 1 .. Len(r) : w[k] = r[k]
    BY <1>2, <1>3
  <1>7. EndsInPrompt(w) /\ Len(w) = Len(r) + 1 + P
    BY <1>2, <1>3, <1>4, <1>5, PromptLength DEF EndsInPrompt
  <1> QED BY <1>3, <1>6, <1>7 DEF w, b

LEMMA EchoInit == Init => EchoInv
  <1> SUFFICES ASSUME Init PROVE EchoInv
    OBVIOUS
  <1>1. work = <<>> /\ Len(<<>>) = 0
    BY DEF Init
  <1>2. ~synced /\ line = 0
    BY DEF Init
  <1> QED BY <1>1, <1>2, PromptLength DEF EchoInv, EndsInPrompt, Prompting

(* Keys: what is echoed moves the pointer and the buffer's end together.   *)
LEMMA EchoKeys ==
    ASSUME IInv, EchoInv,
           (\E k \in Keys : PressKey(k)) \/ PressBackspace \/ PressEnter
    PROVE  EchoInv'
  <1>0. /\ work = <<>> /\ ptr \in Int /\ buffer \in Seq(Keys)
        /\ line' = line /\ main' = main /\ Len(<<>>) = 0 /\ line \in Int
        /\ Len(buffer) \in Nat
        /\ synced => /\ ptr = line + 2 * Len(buffer) /\ ptr <= Screen + 1
    BY DEF IInv, EchoInv, PressKey, PressBackspace, PressEnter, Idle, echo, kernel
  <1>1. ASSUME NEW k \in Keys, PressKey(k) PROVE EchoInv'
    <2>1. /\ work' = work /\ buffer' = Append(buffer, k)
          /\ Len(buffer') = Len(buffer) + 1 /\ Len(buffer) \in Nat
      BY <1>0, <1>1 DEF PressKey
    <2>2. synced' => synced /\ ptr < Screen
      BY <1>1 DEF PressKey
    <2>3. ASSUME synced'
          PROVE  ptr' = ptr + 2 /\ stored' = ptr
      BY <1>0, <1>1, <2>2, <2>3, Sizes DEF PressKey, PutChar, AfterCheck
    <2>4. ptr' \in Int /\ ptr' <= Screen + 1
      BY <1>0, <1>1, PutCharBound DEF PressKey
    <2>5. ASSUME synced' PROVE ptr' = line' + 2 * Len(buffer')
      <3>1. ptr = line + 2 * Len(buffer) /\ ptr' = ptr + 2
        BY <1>0, <2>2, <2>3, <2>5
      <3> QED BY <1>0, <2>1, <3>1
    <2>6. ASSUME synced', line' > 0
          PROVE  ptr' >= 0 /\ stored' >= None /\ stored' < Screen
      <3>1. /\ ptr = line + 2 * Len(buffer) /\ stored' = ptr /\ ptr < Screen
            /\ ptr' = ptr + 2
        BY <1>0, <2>2, <2>3, <2>6
      <3> QED BY <1>0, <2>1, <2>6, <3>1, Sizes DEF None
    <2> QED BY <1>0, <2>1, <2>4, <2>5, <2>6, PromptLength
            DEF EchoInv, EndsInPrompt, Prompting
  <1>2. CASE PressBackspace
    <2>1. /\ work' = work /\ synced' = synced /\ ptr' = ptr - 2 /\ stored' = ptr - 2
          /\ buffer' = SubSeq(buffer, 1, Len(buffer) - 1) /\ Len(buffer) > 0
      BY <1>2 DEF PressBackspace, echo
    <2>2. Len(buffer') = Len(buffer) - 1
      <3>1. \A i \in 1 .. Len(buffer) - 1 : buffer[i] \in Keys
        BY <1>0
      <3>2. Len(buffer')
              = IF 1 <= Len(buffer) - 1 THEN Len(buffer) - 1 - 1 + 1 ELSE 0
        BY <1>0, <2>1, <3>1, SubSeqProperties
      <3>3. Len(buffer) \in Nat \ {0}
        BY <1>0, <2>1
      <3>4. \A n \in Nat \ {0} :
               (IF 1 <= n - 1 THEN n - 1 - 1 + 1 ELSE 0) = n - 1
        OBVIOUS
      <3> QED BY <1>0, <3>2, <3>3, <3>4, Zenon
    <2>3. ASSUME synced PROVE ptr' = line' + 2 * Len(buffer') /\ ptr' <= Screen + 1
      BY <1>0, <2>1, <2>2, <2>3, Sizes
    <2>4. ASSUME synced, line > 0
          PROVE  ptr' >= 0 /\ stored' >= None /\ stored' < Screen
      BY <1>0, <2>1, <2>2, <2>4, Sizes DEF None
    <2> QED BY <1>0, <2>1, <2>3, <2>4, PromptLength
            DEF EchoInv, EndsInPrompt, Prompting
  <1>3. CASE PressEnter
    <2>1. /\ work' = RunCommand \o <<"reset">> \o Prompt
          /\ synced' = synced /\ ptr' = Newline(ptr) /\ stored' = None
      BY <1>3 DEF PressEnter, echo
    <2>2. RunCommand \in Seq(Ops) /\ Len(RunCommand) \in Nat
      BY RunCommandType DEF IInv
    <2>3. EndsInPrompt(work') /\ Len(work') = Len(RunCommand) + 1 + P
      BY <2>1, <2>2, EnterEndsInPrompt
    <2>4. EndsInPrompt(work)' /\ ~Prompting'
      BY <2>2, <2>3, PromptLength DEF EndsInPrompt, Prompting
    <2>5. work' # <<>>
      <3>1. Len(work') # 0 /\ Len(<<>>) = 0
        BY <2>2, <2>3, PromptLength
      <3> QED BY <3>1
    <2>6. ASSUME synced, line > 0 PROVE ptr' >= 0 /\ stored' >= None
      <3>1. ptr >= 0
        BY <2>6 DEF EchoInv
      <3> QED BY <1>0, <2>1, <3>1, NewlineUp DEF None
    <2>7. stored' < Screen
      BY <2>1, Sizes DEF None
    <2> QED BY <1>0, <2>1, <2>4, <2>5, <2>6, <2>7 DEF EchoInv
  <1> QED BY <1>1, <1>2, <1>3

(* The handler: only the last character of the prompt begins a line. *)
LEMMA EchoHandler ==
    ASSUME IInv, EchoInv, Handler
    PROVE  EchoInv'
  <1>0. /\ work # <<>> /\ work \in Seq(Ops) /\ EndsInPrompt(work)
        /\ ptr \in Int /\ line \in Int
    BY DEF IInv, EchoInv, Handler, Write, Malloc, Fill, Free, Clear, Halt,
           ResetBuffer, Reboot, Doing
  <1>1. CASE Reboot
    <2>1. work' = <<>> /\ Len(<<>>) = 0
      BY <1>1 DEF Reboot
    <2>2. ~synced' /\ line' = 0
      BY <1>1 DEF Reboot
    <2> QED BY <2>1, <2>2, PromptLength DEF EchoInv, EndsInPrompt, Prompting
  <1>2. CASE Malloc
    <2>1. Head(work) = "malloc" /\ work' = Warnings \o Tail(work)
      BY <1>2 DEF Malloc, Doing
    <2>2. /\ Tail(work) \in Seq(Ops) /\ EndsInPrompt(Tail(work))
          /\ Len(Tail(work)) = Len(work) - 1 /\ Len(work) \in Nat
          /\ Len(work) > P + 1
      <3>1. /\ Tail(work) \in Seq(Ops) /\ EndsInPrompt(Tail(work))
            /\ Len(Tail(work)) = Len(work) - 1 /\ Len(work) \in Nat
            /\ Len(work) # P + 1 /\ ~(Len(work) <= P)
        BY <1>0, <2>1, PromptStays
      <3>2. Len(work) > P + 1
        BY <3>1, PromptLength, Between, Zenon
      <3> QED BY <3>1, <3>2
    <2>3. EndsInPrompt(work') /\ Len(work') > P
      <3>1. Len(Tail(work)) > P
        BY <2>2, PromptLength, Between, Zenon
      <3>2. /\ EndsInPrompt(Warnings \o Tail(work))
            /\ Len(Warnings \o Tail(work)) > P
        BY <2>2, <3>1, WarningsType, PromptStaysBehind
      <3> QED BY <2>1, <3>2
    <2>4. /\ synced' = synced /\ line' = line /\ main' = main
          /\ ptr' = ptr /\ stored' = None
      BY <1>2 DEF Malloc, echo, kernel
    <2>5. work' # <<>> /\ ~Prompting'
      <3>1. Len(work') # 0 /\ Len(<<>>) = 0 /\ ~(Len(work') <= P)
        <4>1. Len(work') \in Nat
          BY <2>1, <2>2, WarningsType, ConcatProperties
        <4> QED BY <2>3, <4>1, PromptLength
      <3> QED BY <3>1 DEF Prompting
    <2>6. None >= None /\ None < Screen
      BY Sizes DEF None
    <2> QED BY <1>0, <2>3, <2>4, <2>5, <2>6 DEF EchoInv, EndsInPrompt
  <1>3. ASSUME ~Reboot, ~Malloc PROVE EchoInv'
    <2>1. work' = Tail(work)
      BY <1>3 DEF Handler, Write, Fill, Free, Clear, Halt, ResetBuffer
    <2>2. /\ Tail(work) \in Seq(Ops) /\ EndsInPrompt(Tail(work))
          /\ Len(Tail(work)) = Len(work) - 1 /\ Len(work) \in Nat /\ Len(work) > 0
          /\ Len(work) = P + 1 => Head(work) = "reset"
          /\ Len(work) <= P => Head(work) \in {"c", "nl"}
      BY <1>0, PromptStays
    <2>3. EndsInPrompt(work)'
      BY <2>1, <2>2 DEF EndsInPrompt
    <2>4. Prompting' => buffer' = <<>>
      <3> SUFFICES ASSUME Prompting' PROVE buffer' = <<>>
        OBVIOUS
      <3>1. Len(work) <= P + 1
        <4>1. Len(work') <= P
          BY DEF Prompting
        <4>2. Len(work) - 1 <= P
          BY <2>1, <2>2, <4>1, Zenon
        <4> QED BY <2>2, <4>2, PromptLength, Between, Zenon
      <3>2. CASE Len(work) = P + 1
        <4>1. Head(work) = "reset"
          BY <2>2, <3>2
        <4> QED BY <1>3, <4>1 DEF Handler, Write, Fill, Free, Clear, Halt,
                ResetBuffer, Doing
      <3>3. CASE Len(work) <= P
        <4>1. buffer = <<>>
          BY <1>0, <3>3 DEF EchoInv, Prompting
        <4>2. buffer' = buffer \/ buffer' = <<>>
          BY <1>3 DEF Handler, Write, Fill, Free, Clear, Halt, ResetBuffer
        <4> QED BY <4>1, <4>2
      <3> QED BY <2>2, <3>1, <3>2, <3>3, PromptLength, Between, Zenon
    <2>5. CASE ~(Write /\ Len(work) = 1)
      <3>1. synced' = synced /\ line' = line
        BY <1>3, <2>5 DEF Handler, Write, Fill, Free, Clear, Halt,
                ResetBuffer, echo
      <3>2. Len(work) # 1
        <4>1. Len(work) = 1 => Head(work) \in {"c", "nl"}
          BY <2>2, PromptLength
        <4>2. Head(work) \in {"c", "nl"} => Write
          BY <1>3 DEF Handler, Write, Fill, Free, Clear, Halt, ResetBuffer, Doing
        <4> QED BY <2>5, <4>1, <4>2
      <3>3. work' # <<>>
        <4>1. Len(Tail(work)) # 0 /\ Len(<<>>) = 0
          BY <2>2, <3>2
        <4> QED BY <2>1, <4>1
      <3>4. /\ main' = main /\ stored' < Screen
            /\ ptr >= 0 => ptr' >= 0 /\ stored' >= None
        BY <1>3, HandlerStores
      <3> QED BY <1>0, <2>3, <2>4, <3>1, <3>3, <3>4 DEF EchoInv
    <2>6. CASE Write /\ Len(work) = 1
      <3>1. line' = ptr' /\ work' = <<>> /\ buffer' = buffer
        BY <2>1, <2>2, <2>6 DEF Write
      <3>2. buffer = <<>>
        BY <1>0, <2>6, PromptLength DEF EchoInv, Prompting
      <3>3. ptr' \in Int /\ ptr' <= Screen + 1
        BY <1>0, <2>6, PutCharBound DEF Write
      <3>4. ASSUME line' > 0 PROVE ptr' >= 0 /\ stored' >= None /\ stored' < Screen
        <4>1. /\ AfterCheck(ptr) \in Int /\ AfterCheck(ptr) < Screen
              /\ \/ stored' = None
                 \/ stored' = AfterCheck(ptr) /\ ptr' = AfterCheck(ptr) + 2
          BY <1>0, <2>6, Sizes DEF Write, PutChar, AfterCheck
        <4> QED BY <3>1, <3>3, <3>4, <4>1, Sizes DEF None
      <3>5. ptr' = line' + 2 * Len(buffer')
        <4>1. buffer' = <<>> /\ Len(<<>>) = 0
          BY <3>1, <3>2
        <4>2. Len(buffer') = 0
          BY <4>1, Zenon
        <4>3. line' = ptr' /\ \A n \in Int : n = n + 2 * 0
          BY <3>1
        <4> QED BY <3>3, <4>2, <4>3, Zenon
      <3> QED BY <2>3, <3>1, <3>2, <3>3, <3>4, <3>5 DEF EchoInv, Prompting
    <2> QED BY <2>5, <2>6
  <1> QED BY <1>1, <1>2, <1>3

(* kmain: whatever moves the pointer ends the agreement. *)
LEMMA EchoKernel ==
    ASSUME IInv, EchoInv, Kernel
    PROVE  EchoInv'
  <1>1. /\ work = <<>> /\ main # <<>> /\ UNCHANGED <<work, buffer, line>>
        /\ EndsInPrompt(work)' /\ ~Prompting'
    BY DEF Kernel, MainCheck, MainFill, MainStore, MainLoad, MainWriteBack, At,
           Idle, Elsewhere, EchoInv, EndsInPrompt, Prompting
  <1>2. CASE MainWriteBack
    <2>1. ~synced'
      BY <1>2 DEF MainWriteBack
    <2> QED BY <1>1, <2>1 DEF EchoInv
  <1>3. CASE MainCheck \/ MainFill \/ MainStore \/ MainLoad
    <2>1. main' = main
      BY <1>3 DEF MainCheck, MainFill, MainStore, MainLoad
    <2>2. /\ synced' => synced /\ ptr' = ptr
          /\ stored' = None \/ stored' = ptr \/ stored' = ptr + 1
      BY <1>3 DEF MainCheck, MainFill, MainStore, MainLoad
    <2>3. ptr >= 0 => stored' >= None
      <3>1. ptr \in Int
        BY DEF IInv
      <3> QED BY <2>2, <3>1 DEF None
    <2> QED BY <1>1, <2>1, <2>2, <2>3 DEF EchoInv
  <1> QED BY <1>2, <1>3 DEF Kernel

LEMMA EchoStep == IInv /\ EchoInv /\ [Next]_vars => EchoInv'
  <1> SUFFICES ASSUME IInv, EchoInv, [Next]_vars PROVE EchoInv'
    OBVIOUS
  <1>1. CASE UNCHANGED vars
    BY <1>1 DEF EchoInv, EndsInPrompt, Prompting, vars, kernel, echo
  <1> QED BY <1>1, EchoKeys, EchoHandler, EchoKernel DEF Next

(* Behind every prompt the echo and the line buffer agree, so that         *)
(* Backspace takes back what was typed and no more, until kmain prints or  *)
(* the line runs over the end of the screen (keyboard.c 33-63).            *)
THEOREM EchoAgrees == Spec => []EchoInSync
  <1>1. EchoInv => EchoInSync
    BY DEF EchoInv, EchoInSync, Idle
  <1> QED BY InitInv, StepInv, EchoInit, EchoStep, <1>1, PTL DEF Spec

(* Behind a prompt that stands on the screen neither a key nor the whole   *)
(* command it ends in, its warnings and reports included, stores a byte    *)
(* outside video memory, although newline and Backspace never look at the  *)
(* end or the beginning of it (vga.c 37-92, keyboard.c 33-63, console.c    *)
(* 19-67).  While kmain still prints, only the front is safe: its own      *)
(* stores may pass the end (PointerBounded).                               *)
THEOREM StoresMeetScreen == Spec => []StoresOnScreen
  <1>1. EchoInv => StoresOnScreen
    BY DEF EchoInv, StoresOnScreen
  <1> QED BY InitInv, StepInv, EchoInit, EchoStep, <1>1, PTL DEF Spec
-----------------------------------------------------------------------------
(* The prompt's place.  Every command ends its last line or clears the     *)
(* screen (MessagesEndLines); the prompt then moves along a row,           *)
(* and where it reaches the end of the screen it goes on at offset 0.      *)

Closing == {"nl", "clear", "halt", "reboot"}

OnRow(p) == \E q \in Int : p = Row * q

RowInv ==
    /\ Len(work) > P + 1 => work[Len(work) - P - 1] \in Closing
    /\ mode = "running" /\ Len(work) = P + 1 => OnRow(ptr)
    /\ mode = "running" /\ Prompting =>
          /\ OnRow(ptr - 2 * (P - Len(work)))
          /\ Len(work) < P => ptr <= Screen
    /\ synced => OnRow(line - 2 * P)

LEMMA NewlineOnRow == ASSUME NEW p \in Int PROVE OnRow(Newline(p))
  <1>1. Row \in Nat /\ Row >= 4
    BY Sizes
  <1>2. RowOf(p) \in Int
    <2>1. CASE p >= 0
      BY <1>1, <2>1 DEF RowOf, Row
    <2>2. CASE p < 0
      BY <1>1, <2>2 DEF RowOf, Row
    <2> QED BY <2>1, <2>2
  <1>3. Newline(p) = Row * (RowOf(p) + 1) /\ RowOf(p) + 1 \in Int
    BY <1>2 DEF Newline, Row
  <1> QED BY <1>3 DEF OnRow

LEMMA TopOnRow == OnRow(0)
  <1>1. 0 = Row * 0 /\ 0 \in Int
    BY Sizes
  <1> QED BY <1>1 DEF OnRow

(* One character of the prompt, j of which are there already. *)
LEMMA PromptMoves ==
    ASSUME ptr \in Int, NEW j \in Nat, OnRow(ptr - 2 * j), PutChar("c"),
           j > 0 => ptr <= Screen
    PROVE  ptr' \in Int /\ OnRow(ptr' - 2 * (j + 1)) /\ ptr' <= Screen
  <1>1. PICK q \in Int : ptr - 2 * j = Row * q
    BY DEF OnRow
  <1>2. ptr' = AfterCheck(ptr) + 2
    BY DEF PutChar
  <1>3. CASE ptr < Screen
    <2>1. ptr' = ptr + 2
      BY <1>2, <1>3, Sizes DEF AfterCheck
    <2>2. ptr' - 2 * (j + 1) = ptr - 2 * j
      BY <2>1
    <2>3. ptr' <= Screen
      <3>1. Row = 2 * Cols /\ Cols \in Nat /\ Rows \in Nat /\ Screen = Row * Rows
        BY Sizes DEF Row
      <3>2. ptr = 2 * (Cols * q + j) /\ Cols * q + j \in Int
        BY <1>1, <3>1, SMTT(30)
      <3>3. Screen = 2 * (Cols * Rows) /\ Cols * Rows \in Int
        BY <3>1, SMTT(30)
      <3> QED BY <1>3, <2>1, <3>2, <3>3
    <2> QED BY <1>1, <2>1, <2>2, <2>3 DEF OnRow
  <1>4. CASE ptr >= Screen
    <2>1. ptr' = 2 /\ ptr' <= Screen
      BY <1>2, <1>4, Sizes DEF AfterCheck
    <2>2. CASE j = 0
      <3>1. ptr' - 2 * (j + 1) = 0
        BY <2>1, <2>2
      <3> QED BY <2>1, <3>1, TopOnRow
    <2>3. CASE j > 0
      <3>1. ptr = Screen /\ Screen = Row * Rows /\ Row \in Nat /\ Rows \in Nat
        BY <1>4, <2>3, Sizes
      <3>2. Row * (q - Rows) = Row * q - Row * Rows
        BY <3>1, SMTT(30)
      <3>3. ptr' - 2 * (j + 1) = Row * (q - Rows) /\ q - Rows \in Int
        BY <1>1, <2>1, <3>1, <3>2
      <3> QED BY <2>1, <3>3 DEF OnRow
    <2> QED BY <2>2, <2>3
  <1> QED BY <1>3, <1>4, Sizes

(* A text behind which another one is closed is closed. *)
LEMMA ClosedBehind ==
    ASSUME NEW t \in Seq(Ops), NEW s \in Seq(Ops), s # <<>>,
           s[Len(s)] \in Closing
    PROVE  Len(t \o s) > 0 /\ (t \o s)[Len(t \o s)] \in Closing
  <1>1. /\ Len(t \o s) = Len(t) + Len(s)
        /\ Len(t) \in Nat /\ Len(s) \in Nat /\ Len(s) > 0
    BY ConcatProperties
  <1>2. (t \o s)[Len(t \o s)] = s[Len(s)]
    BY <1>1
  <1> QED BY <1>1, <1>2

LEMMA CommandCloses ==
    ASSUME HeapTyped, buffer \in Seq(Keys)
    PROVE  Len(RunCommand) > 0 /\ RunCommand[Len(RunCommand)] \in Closing
  <1> DEFINE Closed(t) == Len(t) > 0 /\ t[Len(t)] \in Closing
  <1>1. ASSUME NEW s \in Ops, s \in Closing PROVE Closed(Syscall(s))
    <2> DEFINE b == <<"malloc", "fill", "free">> \o SyscallMsg
    <2>1. <<"malloc", "fill", "free">> \in Seq(Ops)
      BY DEF Ops
    <2>2. b \in Seq(Ops)
      BY <2>1, Messages, ConcatProperties
    <2>3. <<s>> \in Seq(Ops) /\ <<s>> # <<>> /\ <<s>>[Len(<<s>>)] = s
      OBVIOUS
    <2> HIDE DEF b
    <2>4. Closed(b \o <<s>>)
      BY <1>1, <2>2, <2>3, ClosedBehind
    <2> QED BY <2>4 DEF b, Syscall
  <1>2. "nl" \in Closing /\ "nl" \in Ops
    BY DEF Closing, Ops
  <1>3. Typed \in Seq(Ops)
    BY TypedType
  <1>4. Closed(UnknownMsg \o Typed \o <<"nl">>)
    <2> DEFINE b == UnknownMsg \o Typed
    <2>1. b \in Seq(Ops)
      BY <1>3, Messages, ConcatProperties
    <2>2. /\ <<"nl">> \in Seq(Ops) /\ <<"nl">> # <<>>
          /\ <<"nl">>[Len(<<"nl">>)] = "nl"
      BY <1>2
    <2> HIDE DEF b
    <2>3. Closed(b \o <<"nl">>)
      BY <1>2, <2>1, <2>2, ClosedBehind
    <2> QED BY <2>3 DEF b
  <1>5. Closed(BlockReport \o TotalMsg)
    <2>1. BlockReport \in Seq(Ops)
      BY BlockReportType
    <2> QED BY <1>2, <2>1, Messages, ClosedBehind, MessagesEndLines
  <1>6. Closed(HelpMsg)
    <2>1. Len(HelpMsg) \in Nat /\ Len(HelpMsg) # 0
      BY Messages, MessagesEndLines
    <2> QED BY <1>2, <2>1, MessagesEndLines
  <1>7. \A c \in DOMAIN Command : Closed(Command[c])
    <2>1. /\ "halt" \in Ops /\ "reboot" \in Ops /\ "clear" \in Ops
          /\ "halt" \in Closing /\ "reboot" \in Closing /\ "clear" \in Closing
      BY DEF Ops, Closing
    <2>2. /\ Closed(Syscall("halt")) /\ Closed(Syscall("reboot"))
          /\ Closed(Syscall("clear"))
      BY <1>1, <2>1
    <2>3. DOMAIN Command = {"HALT", "REBOOT", "HELP", "MPRINT", "CLEAR"}
      BY DEF Command
    <2>4. /\ Command["HALT"] = Syscall("halt")
          /\ Command["REBOOT"] = Syscall("reboot")
          /\ Command["HELP"] = HelpMsg
          /\ Command["MPRINT"] = BlockReport \o TotalMsg
          /\ Command["CLEAR"] = Syscall("clear")
      BY DEF Command
    <2> HIDE DEF Command, Closed
    <2> QED BY <1>5, <1>6, <2>2, <2>3, <2>4
  <1> HIDE DEF Command, Closed
  <1>8. Closed(RunCommand)
    BY <1>4, <1>7 DEF RunCommand
  <1> QED BY <1>8 DEF Closed

LEMMA Counting ==
    ASSUME NEW n \in Nat, NEW p \in Nat, NEW m, m = n - 1, n > 0, p > 0
    PROVE  /\ n > p + 1 => n # 1 /\ ~(m <= p)
           /\ n - 1 = p + 1 => n = p + 2
           /\ n <= p => p - n \in Nat /\ 1 + p - n \in 1 .. p
           /\ n <= p => m # p + 1 /\ ~(m > p + 1)
           /\ p - n > 0 => n < p
           /\ (p - n) + 1 = p - (n - 1)
           /\ n = 1 => (p - n) + 1 = p
  OBVIOUS

LEMMA RowKeys ==
    ASSUME IInv, EchoInv, RowInv,
           (\E k \in Keys : PressKey(k)) \/ PressBackspace \/ PressEnter
    PROVE  RowInv'
  <1>1. ASSUME (\E k \in Keys : PressKey(k)) \/ PressBackspace
        PROVE  RowInv'
    <2>1. work' = <<>> /\ Len(<<>>) = 0 /\ line' = line
      BY <1>1 DEF PressKey, PressBackspace, Idle, echo
    <2>2. synced' => synced
      BY <1>1 DEF PressKey, PressBackspace, echo
    <2> QED BY <2>1, <2>2, PromptLength DEF RowInv, Prompting
  <1>2. CASE PressEnter
    <2>1. /\ work' = RunCommand \o <<"reset">> \o Prompt
          /\ synced' = synced /\ line' = line
      BY <1>2 DEF PressEnter, echo
    <2>2. RunCommand \in Seq(Ops) /\ Len(RunCommand) \in Nat
      BY RunCommandType DEF IInv
    <2>3. Len(RunCommand) > 0 /\ RunCommand[Len(RunCommand)] \in Closing
      BY CommandCloses DEF IInv
    <2>4. /\ Len(work') = Len(RunCommand) + 1 + P
          /\ \A k \in 1 .. Len(RunCommand) : work'[k] = RunCommand[k]
      BY <2>1, <2>2, EnterEndsInPrompt
    <2>5. Len(work') - P - 1 = Len(RunCommand) /\ Len(work') > P + 1
      BY <2>2, <2>3, <2>4, PromptLength
    <2>6. work'[Len(work') - P - 1] \in Closing
      BY <2>2, <2>3, <2>4, <2>5
    <2>7. Len(work') # P + 1 /\ ~(Len(work') <= P)
      BY <2>2, <2>3, <2>4, PromptLength
    <2> QED BY <2>1, <2>6, <2>7 DEF RowInv, Prompting
  <1> QED BY <1>1, <1>2

(* Where a job stands in front of what is left after it. *)
LEMMA ClosingStays ==
    ASSUME NEW w \in Seq(Ops), w # <<>>,
           Len(w) > P + 1 => w[Len(w) - P - 1] \in Closing
    PROVE  /\ Len(Tail(w)) > P + 1 => Tail(w)[Len(Tail(w)) - P - 1] \in Closing
           /\ Len(w) = P + 2 => Head(w) \in Closing
  <1>1. /\ Len(w) \in Nat /\ Len(w) >= 1 /\ Head(w) = w[1]
        /\ Len(Tail(w)) = Len(w) - 1
        /\ \A k \in 1 .. Len(Tail(w)) : Tail(w)[k] = w[k + 1]
    OBVIOUS
  <1>2. ASSUME Len(Tail(w)) > P + 1
        PROVE  Tail(w)[Len(Tail(w)) - P - 1] \in Closing
    <2>1. /\ Len(Tail(w)) - P - 1 \in 1 .. Len(Tail(w))
          /\ (Len(Tail(w)) - P - 1) + 1 = Len(w) - P - 1
          /\ Len(w) > P + 1
      BY <1>1, <1>2, PromptLength
    <2>2. Tail(w)[Len(Tail(w)) - P - 1] = w[(Len(Tail(w)) - P - 1) + 1]
      BY <1>1, <2>1
    <2> QED BY <2>1, <2>2
  <1>3. ASSUME Len(w) = P + 2 PROVE Head(w) \in Closing
    <2>1. Len(w) > P + 1 /\ Len(w) - P - 1 = 1
      BY <1>3, PromptLength
    <2> QED BY <1>1, <2>1
  <1> QED BY <1>2, <1>3

LEMMA ClosingStaysBehind ==
    ASSUME NEW t \in Seq(Ops), NEW w \in Seq(Ops), Len(w) > P + 1,
           w[Len(w) - P - 1] \in Closing
    PROVE  Len(t \o w) > P + 1 /\ (t \o w)[Len(t \o w) - P - 1] \in Closing
  <1>1. /\ Len(t) \in Nat /\ Len(w) \in Nat /\ Len(t \o w) = Len(t) + Len(w)
        /\ \A k \in 1 .. Len(w) : (t \o w)[Len(t) + k] = w[k]
    BY ConcatProperties
  <1>2. /\ Len(t \o w) > P + 1 /\ Len(w) - P - 1 \in 1 .. Len(w)
        /\ Len(t \o w) - P - 1 = Len(t) + (Len(w) - P - 1)
    BY <1>1, PromptLength
  <1> QED BY <1>1, <1>2

LEMMA RowHandler ==
    ASSUME IInv, EchoInv, RowInv, Handler
    PROVE  RowInv'
  <1>0. /\ work # <<>> /\ work \in Seq(Ops) /\ EndsInPrompt(work)
        /\ ptr \in Int /\ mode = "running"
        /\ synced => OnRow(line - 2 * P)
    BY DEF IInv, EchoInv, RowInv, Handler, Write, Malloc, Fill, Free, Clear, Halt,
           ResetBuffer, Reboot, Doing
  <1>1. /\ Len(Tail(work)) = Len(work) - 1 /\ Tail(work) \in Seq(Ops)
        /\ Len(work) \in Nat /\ Len(work) > 0
        /\ Len(work) = P + 1 => Head(work) = "reset"
        /\ Len(work) <= P => Head(work) = Prompt[1 + P - Len(work)]
    BY <1>0, PromptStays
  <1>2. /\ Len(Tail(work)) > P + 1
              => Tail(work)[Len(Tail(work)) - P - 1] \in Closing
        /\ Len(work) = P + 2 => Head(work) \in Closing
    BY <1>0, ClosingStays DEF RowInv
  <1>3. CASE Reboot
    <2>1. work' = <<>> /\ Len(<<>>) = 0
      BY <1>3 DEF Reboot
    <2>2. ~synced'
      BY <1>3 DEF Reboot
    <2> QED BY <2>1, <2>2, PromptLength DEF RowInv, Prompting
  <1>4. CASE Malloc
    <2>1. Head(work) = "malloc" /\ work' = Warnings \o Tail(work)
      BY <1>4 DEF Malloc, Doing
    <2>2. Len(work) > P + 2
      <3>1. Len(work) # P + 1
        BY <1>1, <2>1
      <3>2. Len(work) # P + 2
        BY <1>2, <2>1 DEF Closing
      <3>3. ~(Len(work) <= P)
        <4>1. Len(work) <= P => Head(work) \in {"c", "nl"}
          BY <1>0, PromptStays
        <4> QED BY <2>1, <4>1
      <3>4. \A n, p \in Nat : n # p + 1 /\ n # p + 2 /\ ~(n <= p) => n > p + 2
        OBVIOUS
      <3> QED BY <1>1, <3>1, <3>2, <3>3, <3>4, PromptLength, Zenon
    <2>3. Len(Tail(work)) > P + 1
      <3>1. \A n, p \in Nat : n > p + 2 => n - 1 > p + 1
        OBVIOUS
      <3>2. Len(work) - 1 > P + 1
        BY <1>1, <2>2, <3>1, PromptLength, Zenon
      <3> QED BY <1>1, <3>2, Zenon
    <2>4. Len(work') > P + 1 /\ work'[Len(work') - P - 1] \in Closing
      <3>1. Tail(work)[Len(Tail(work)) - P - 1] \in Closing
        BY <1>2, <2>3
      <3>2. /\ Len(Warnings \o Tail(work)) > P + 1
            /\ (Warnings \o Tail(work))[Len(Warnings \o Tail(work)) - P - 1]
                  \in Closing
        BY <1>1, <2>3, <3>1, WarningsType, ClosingStaysBehind
      <3> QED BY <2>1, <3>2
    <2>5. synced' = synced /\ line' = line
      BY <1>4 DEF Malloc, echo
    <2>6. Len(work') # P + 1 /\ ~(Len(work') <= P)
      <3>1. \A n \in Int, p \in Nat : n > p + 1 => n # p + 1 /\ ~(n <= p)
        OBVIOUS
      <3>2. Len(work') \in Nat
        BY <1>1, <2>1, WarningsType, ConcatProperties
      <3> QED BY <2>4, <3>1, <3>2, PromptLength
    <2> QED BY <1>0, <2>4, <2>5, <2>6 DEF RowInv, Prompting
  <1>5. ASSUME ~Reboot, ~Malloc PROVE RowInv'
    <2>0. work' = Tail(work)
      BY <1>5 DEF Handler, Write, Fill, Free, Clear, Halt, ResetBuffer
    <2>1. Len(work') = Len(work) - 1
      BY <1>1, <2>0
    <2>2. Len(work') > P + 1 => work'[Len(work') - P - 1] \in Closing
      BY <1>2, <2>0
    <2>3. CASE Len(work) > P + 1
      <3>1. synced' = synced /\ line' = line
        <4>1. Len(work) # 1
          BY <1>1, <2>1, <2>3, PromptLength, Counting, Zenon
        <4> QED BY <1>5, <4>1 DEF Handler, Write, Fill, Free, Clear, Halt,
                  ResetBuffer, echo
      <3>2. ~Prompting'
        <4>1. ~(Len(work') <= P)
          BY <1>1, <2>1, <2>3, PromptLength, Counting, Zenon
        <4> QED BY <4>1 DEF Prompting
      <3>3. ASSUME mode' = "running", Len(work') = P + 1 PROVE OnRow(ptr')
        <4>1. Len(work) = P + 2
          <5>1. Len(work) - 1 = P + 1 => Len(work) = P + 2
            BY <1>1, <2>1, PromptLength, Counting, Zenon
          <5>2. Len(work) - 1 = P + 1
            BY <2>1, <3>3, Zenon
          <5> QED BY <5>1, <5>2
        <4>2. Head(work) \in {"nl", "clear", "halt"}
          <5>1. Head(work) \in Closing
            BY <1>2, <4>1
          <5>2. Head(work) # "reboot"
            BY <1>5 DEF Handler, Write, Fill, Free, Clear, Halt, ResetBuffer, Doing
          <5> QED BY <5>1, <5>2 DEF Closing
        <4>3. CASE Head(work) = "nl"
          <5>1. PutChar("nl")
            BY <1>5, <4>3 DEF Handler, Write, Fill, Free, Clear, Halt,
                    ResetBuffer, Doing
          <5>2. ptr' = Newline(AfterCheck(ptr)) /\ AfterCheck(ptr) \in Int
            BY <1>0, <5>1, Sizes DEF PutChar, AfterCheck
          <5> QED BY <5>2, NewlineOnRow
        <4>4. CASE Head(work) = "clear"
          <5>1. ptr' = 0
            BY <1>5, <4>4 DEF Handler, Write, Fill, Free, Clear, Halt,
                    ResetBuffer, Doing
          <5> QED BY <5>1, TopOnRow
        <4>5. CASE Head(work) = "halt"
          BY <1>5, <3>3, <4>5 DEF Handler, Write, Fill, Free, Clear, Halt,
                  ResetBuffer, Doing
        <4> QED BY <4>2, <4>3, <4>4, <4>5
      <3> QED BY <1>0, <2>2, <3>1, <3>2, <3>3 DEF RowInv
    <2>4. CASE Len(work) = P + 1
      <3>1. ptr' = ptr /\ mode' = mode /\ synced' = synced /\ line' = line
        <4>1. Head(work) = "reset"
          BY <1>1, <2>4
        <4> QED BY <1>5, <4>1 DEF Handler, Write, Fill, Free, Clear, Halt,
                  ResetBuffer, Doing, echo
      <3>2. OnRow(ptr)
        BY <1>0, <2>4 DEF RowInv
      <3>3. Len(work') = P
        BY <2>1, <2>4, PromptLength
      <3>4. /\ ~(P < P) /\ P # P + 1 /\ ~(P > P + 1) /\ ptr - 2 * (P - P) = ptr
        BY <1>0, PromptLength
      <3>5. OnRow(ptr' - 2 * (P - Len(work')))
        BY <3>1, <3>2, <3>3, <3>4, Zenon
      <3> QED BY <1>0, <3>1, <3>3, <3>4, <3>5 DEF RowInv, Prompting
    <2>5. CASE Len(work) <= P
      <3> DEFINE j == P - Len(work)
      <3>1. j \in Nat /\ 1 + P - Len(work) \in 1 .. P
        BY <1>1, <2>1, <2>5, PromptLength, Counting, Zenon
      <3>2. Head(work) = "c"
        <4>1. \A k \in 1 .. P : Prompt[k] = "c"
          BY MessagesEndLines DEF P
        <4> QED BY <1>1, <2>5, <3>1, <4>1
      <3>3. Write /\ PutChar("c")
        BY <1>5, <3>2 DEF Handler, Write, Fill, Free, Clear, Halt,
                ResetBuffer, Doing
      <3>4. OnRow(ptr - 2 * j) /\ (j > 0 => ptr <= Screen)
        <4>1. Prompting
          BY <1>0, <2>5 DEF Prompting
        <4>2. j > 0 => Len(work) < P
          BY <1>1, <2>1, PromptLength, Counting, Zenon
        <4> QED BY <1>0, <4>1, <4>2 DEF RowInv
      <3> HIDE DEF j
      <3>5. ptr' \in Int /\ OnRow(ptr' - 2 * (j + 1)) /\ ptr' <= Screen
        BY <1>0, <3>1, <3>3, <3>4, PromptMoves
      <3>6. j + 1 = P - Len(work')
        <4>1. j + 1 = P - (Len(work) - 1)
          BY <1>1, <2>1, PromptLength, Counting, Zenon DEF j
        <4> QED BY <2>1, <4>1, Zenon
      <3>7. ASSUME synced' PROVE OnRow(line' - 2 * P)
        <4>1. CASE Len(work) = 1
          <5>1. line' = ptr'
            BY <3>3, <4>1 DEF Write
          <5>2. j + 1 = P
            BY <1>1, <2>1, <4>1, PromptLength, Counting, Zenon DEF j
          <5> QED BY <3>5, <5>1, <5>2
        <4>2. CASE Len(work) # 1
          <5>1. synced' = synced /\ line' = line
            BY <3>3, <4>2 DEF Write, echo
          <5> QED BY <1>0, <3>7, <5>1
        <4> QED BY <4>1, <4>2
      <3>8. Len(work') # P + 1 /\ ~(Len(work') > P + 1)
        BY <1>1, <2>1, <2>5, PromptLength, Counting, Zenon
      <3>9. OnRow(ptr' - 2 * (P - Len(work')))
        BY <3>5, <3>6
      <3> QED BY <3>5, <3>7, <3>8, <3>9 DEF RowInv, Prompting
    <2>6. Len(work) > P + 1 \/ Len(work) = P + 1 \/ Len(work) <= P
      BY <1>1, PromptLength, Between, Zenon
    <2> QED BY <2>3, <2>4, <2>5, <2>6
  <1> QED BY <1>3, <1>4, <1>5

LEMMA RowStep ==
    IInv /\ EchoInv /\ RowInv /\ [Next]_vars => RowInv'
  <1> SUFFICES ASSUME IInv, EchoInv, RowInv, [Next]_vars
               PROVE  RowInv'
    OBVIOUS
  <1>1. CASE Kernel
    <2>1. /\ work' = <<>> /\ line' = line /\ Len(<<>>) = 0
          /\ synced' => synced
      BY <1>1 DEF Kernel, MainCheck, MainFill, MainStore, MainLoad,
             MainWriteBack, At, Idle, Elsewhere
    <2> QED BY <2>1, PromptLength DEF RowInv, Prompting
  <1>2. CASE UNCHANGED vars
    BY <1>2 DEF RowInv, Prompting, vars, kernel, echo
  <1> QED BY <1>1, <1>2, RowKeys, RowHandler DEF Next

LEMMA WholeRows ==
    ASSUME NEW r \in Nat, r > 0, NEW n \in Int PROVE (r * n) % r = 0
  BY Z3T(30)

(* Every prompt begins at the left edge, whatever the command before it    *)
(* printed and wherever the screen ended in the middle of it, because each *)
(* message ends its line (console.c 19-67, keyboard.c 44-52, kapi.c).      *)
THEOREM PromptAtLeftEdge == Spec => []PromptStartsRow
  <1>1. Init => RowInv
    <2> SUFFICES ASSUME Init PROVE RowInv
      OBVIOUS
    <2>1. work = <<>> /\ Len(<<>>) = 0
      BY DEF Init
    <2>2. ~synced
      BY DEF Init
    <2> QED BY <2>1, <2>2, PromptLength DEF RowInv, Prompting
  <1>2. EchoInv /\ RowInv => PromptStartsRow
    <2> SUFFICES ASSUME EchoInv, RowInv, synced
                 PROVE  (line - 2 * P) % Row = 0
      BY DEF PromptStartsRow, P, Row
    <2>1. PICK q \in Int : line - 2 * P = Row * q
      BY DEF RowInv, OnRow
    <2>2. Row \in Nat /\ Row >= 4
      BY Sizes
    <2>3. (Row * q) % Row = 0
      BY <2>1, <2>2, WholeRows
    <2> QED BY <2>1, <2>3, Zenon
  <1> QED BY InitInv, StepInv, EchoInit, EchoStep, RowStep, <1>1, <1>2, PTL
         DEF Spec
=============================================================================
