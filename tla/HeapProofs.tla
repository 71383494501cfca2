----------------------------- MODULE HeapProofs -----------------------------
(***************************************************************************)
(* Theorems about Heap, for every heap size and every set of request       *)
(* sizes, the kernel's few bytes and sizes beyond a header's included, and *)
(* whatever callers store in what they are given.                          *)
(*                                                                         *)
(* The argument: an operation either leaves the shape of the list alone    *)
(* (SameShape) or appends one block whose header lies a header and a       *)
(* pointer past the old break (Grows).  Every layout property follows      *)
(* from that by comparing the new block with the break.                    *)
(***************************************************************************)
EXTENDS Heap, TLAPS

(* A block that malloc may append when it moves the break from u to v. *)
Fresh(b, u, v) ==
    /\ b \in Block
    /\ ~b.free
    /\ b.hdr = Start + u + HeaderSize + PtrSize
    /\ b.hdr <= Start + v
    /\ b.data <= Start + v
    /\ b.data # NULL => b.data >= b.hdr + b.size + PtrSize

SameShape ==
    /\ used' = used
    /\ Len(blocks') = Len(blocks)
    /\ \A i \in DOMAIN blocks :
          /\ blocks'[i].hdr = blocks[i].hdr
          /\ blocks'[i].data = blocks[i].data
          /\ blocks'[i].size = blocks[i].size

Grows ==
    /\ used' >= used
    /\ \/ blocks' = blocks
       \/ \E b \in Block : /\ Fresh(b, used, used')
                           /\ blocks' = Append(blocks, b)

(* The fields of a header. *)
LEMMA BlockFields ==
    ASSUME NEW b \in Block
    PROVE  /\ b.hdr \in Nat /\ b.data \in Nat
           /\ b.size \in Sizes /\ b.size \in Nat /\ b.size > 0
           /\ b.free \in BOOLEAN
  <1>1. b.size \in {n \in Sizes : n > 0}
    BY DEF Block
  <1>2. b.size \in Int /\ b.size > 0
    BY <1>1, HeapAssumption
  <1> QED BY <1>1, <1>2 DEF Block

(* Setting is_free touches nothing else. *)
LEMMA SetFree ==
    ASSUME NEW B \in Seq(Block), NEW i \in DOMAIN B, NEW f \in BOOLEAN
    PROVE  LET C == [B EXCEPT ![i].free = f]
           IN  /\ C \in Seq(Block)
               /\ Len(C) = Len(B)
               /\ DOMAIN C = DOMAIN B
               /\ \A j \in DOMAIN B : /\ C[j].hdr = B[j].hdr
                                      /\ C[j].data = B[j].data
                                      /\ C[j].size = B[j].size
                                      /\ C[j].free = IF j = i THEN f ELSE B[j].free
  <1> DEFINE c == [B[i] EXCEPT !.free = f]
             C == [B EXCEPT ![i] = c]
  <1>1. B[i] \in Block
    OBVIOUS
  <1>2. /\ c \in Block /\ c.hdr = B[i].hdr /\ c.data = B[i].data
        /\ c.size = B[i].size /\ c.free = f
    BY <1>1 DEF Block
  <1> HIDE DEF c
  <1>3. /\ C \in Seq(Block) /\ Len(C) = Len(B) /\ DOMAIN C = DOMAIN B
        /\ \A j \in DOMAIN B : C[j] = IF j = i THEN c ELSE B[j]
    BY <1>2
  <1>4. C = [B EXCEPT ![i].free = f]
    BY DEF c
  <1> HIDE DEF C
  <1> QED BY <1>2, <1>3, <1>4

(* What one reservation does to the break. *)
LEMMA BrkFacts ==
    ASSUME NEW u \in Nat, NEW n \in Int, u < Total + PtrSize
    PROVE  /\ Brk(u, n).used \in Nat
           /\ Brk(u, n).addr \in Nat
           /\ Brk(u, n).used >= u
           /\ Brk(u, n).used < Total + PtrSize
           /\ Brk(u, n).addr # NULL =>
                /\ Brk(u, n).addr = Start + Brk(u, n).used
                /\ Brk(u, n).used = u + n + PtrSize
                /\ Total - u > n
           /\ Brk(u, n).addr = NULL =>
                /\ Brk(u, n).used = u
                /\ (n > 0 => Total - u <= n)
  BY HeapAssumption DEF Brk, NULL

(* Both ways of extending the list keep the types and grow the heap. *)
LEMMA MallocGrows ==
    ASSUME TypeOK, UsedBounded, wild' \in BOOLEAN, NEW n \in Sizes,
           MallocHead(n) \/ MallocNew(n)
    PROVE  TypeOK' /\ UsedBounded' /\ Grows
  <1> DEFINE h == Brk(used, HeaderSize)
  <1>0. n \in Int /\ n > 0 /\ HeaderSize \in Int /\ Start \in Nat
          /\ PtrSize \in Nat /\ HeaderSize > 0 /\ PtrSize > 0
    BY HeapAssumption DEF MallocHead, MallocNew
  <1>1. /\ h.used \in Nat /\ h.addr \in Nat
        /\ h.used >= used /\ h.used < Total + PtrSize
        /\ h.addr # NULL => /\ h.addr = Start + h.used
                            /\ h.used = used + HeaderSize + PtrSize
        /\ h.addr = NULL => h.used = used
    BY <1>0, BrkFacts DEF TypeOK, UsedBounded
  <1>2. \E m \in Nat, d \in [addr : Nat, used : Nat] :
           /\ m >= h.used
           /\ d.used >= m
           /\ d.used < Total + PtrSize
           /\ d.addr # NULL => d.addr = Start + d.used /\ d.used = m + n + PtrSize
           /\ used' = d.used
           /\ Link(h.addr, n, d.addr)
           /\ Hand(d.addr, n, n)
    <2>1. CASE MallocHead(n)
      <3> DEFINE d == Brk(h.used, n)
      <3>1. /\ d.used \in Nat /\ d.addr \in Nat
            /\ d.used >= h.used /\ d.used < Total + PtrSize
            /\ d.addr # NULL => /\ d.addr = Start + d.used
                                /\ d.used = h.used + n + PtrSize
        BY <1>0, <1>1, BrkFacts
      <3>2. d \in [addr : Nat, used : Nat]
        BY <3>1 DEF Brk
      <3> QED
        BY <2>1, <3>1, <3>2, <1>1 DEF MallocHead
    <2>2. CASE MallocNew(n)
      <3> DEFINE l == Brk(h.used, n)
                 d == Brk(l.used, n)
      <3>0. l.used \in Nat /\ l.used >= h.used /\ l.used < Total + PtrSize
        BY <1>0, <1>1, BrkFacts
      <3>1. /\ d.used \in Nat /\ d.addr \in Nat
            /\ d.used >= l.used /\ d.used < Total + PtrSize
            /\ d.addr # NULL => /\ d.addr = Start + d.used
                                /\ d.used = l.used + n + PtrSize
        BY <1>0, <3>0, BrkFacts
      <3>2. d \in [addr : Nat, used : Nat]
        BY <3>1 DEF Brk
      <3> QED
        BY <2>2, <3>0, <3>1, <3>2, <1>1 DEF MallocNew
    <2> QED BY <2>1, <2>2
  <1>3. PICK m \in Nat, d \in [addr : Nat, used : Nat] :
           /\ m >= h.used
           /\ d.used >= m
           /\ d.used < Total + PtrSize
           /\ d.addr # NULL => d.addr = Start + d.used /\ d.used = m + n + PtrSize
           /\ used' = d.used
           /\ Link(h.addr, n, d.addr)
           /\ Hand(d.addr, n, n)
    BY <1>2
  <1> HIDE DEF h
  <1> DEFINE b == [hdr |-> h.addr, size |-> n, free |-> FALSE, data |-> d.addr]
  <1>4. used' \in Nat /\ used' >= used /\ UsedBounded'
    BY <1>0, <1>1, <1>3, HeapAssumption DEF UsedBounded, TypeOK
  <1>5. b \in Block
    BY <1>0, <1>1, <1>3 DEF Block
  <1>6. \/ blocks' = blocks
        \/ h.addr # NULL /\ blocks' = Append(blocks, b)
    BY <1>3 DEF Link
  <1>7. h.addr # NULL => Fresh(b, used, used')
    <2> SUFFICES ASSUME h.addr # NULL PROVE Fresh(b, used, used')
      OBVIOUS
    <2>1. b.hdr = h.addr /\ b.size = n /\ b.free = FALSE /\ b.data = d.addr
      OBVIOUS
    <2>2. d.used \in Nat /\ d.addr \in Nat /\ used \in Nat
      BY DEF TypeOK
    <2>3. b.hdr = Start + used + HeaderSize + PtrSize /\ b.hdr <= Start + used'
      BY <1>0, <1>1, <1>3, <2>1, <2>2
    <2>4. b.data <= Start + used'
      BY <1>0, <1>1, <1>3, <2>1, <2>2 DEF NULL
    <2>5. b.data # NULL => b.data >= b.hdr + b.size + PtrSize
      BY <1>0, <1>1, <1>3, <2>1, <2>2
    <2> QED
      BY <1>5, <2>1, <2>3, <2>4, <2>5 DEF Fresh
  <1>8. blocks' \in Seq(Block)
    BY <1>5, <1>6 DEF TypeOK
  <1>9. held' \subseteq Region /\ reply' \in [n : Int, addr : Nat]
    BY <1>0, <1>3 DEF Hand, TypeOK, Region
  <1>10. spoilt' \subseteq DOMAIN blocks'
    <2>1. spoilt' = spoilt
      BY DEF MallocHead, MallocNew
    <2>2. DOMAIN blocks \subseteq DOMAIN blocks'
      BY <1>5, <1>6 DEF TypeOK
    <2> QED BY <2>1, <2>2 DEF TypeOK
  <1> QED
    BY <1>4, <1>5, <1>6, <1>7, <1>8, <1>9, <1>10 DEF TypeOK, Grows

(* Reuse, release, refusal and stores change no more of the list than the  *)
(* is_free byte of one block.                                              *)
LEMMA OthersKeepShape ==
    ASSUME TypeOK, wild' \in BOOLEAN,
           \/ \E n \in Sizes : MallocRefuse(n) \/ MallocReuse(n)
           \/ \E p \in Nat : Free(p)
           \/ \E r \in held : Store(r)
           \/ UNCHANGED vars
    PROVE  TypeOK' /\ SameShape
  <1>1. ASSUME NEW i \in DOMAIN blocks, NEW f \in BOOLEAN, spoilt' = spoilt,
               blocks' = [blocks EXCEPT ![i].free = f]
        PROVE  /\ blocks' \in Seq(Block)
               /\ spoilt' \subseteq DOMAIN blocks'
               /\ Len(blocks') = Len(blocks)
               /\ \A j \in DOMAIN blocks : /\ blocks'[j].hdr = blocks[j].hdr
                                           /\ blocks'[j].data = blocks[j].data
                                           /\ blocks'[j].size = blocks[j].size
    BY <1>1, SetFree DEF TypeOK
  <1>2. ASSUME NEW n \in Sizes, MallocRefuse(n) PROVE TypeOK' /\ SameShape
    BY <1>2, HeapAssumption DEF MallocRefuse, TypeOK, SameShape, NULL
  <1>3. ASSUME NEW n \in Sizes, MallocReuse(n) PROVE TypeOK' /\ SameShape
    <2>1. PICK i \in DOMAIN blocks :
             /\ blocks' = [blocks EXCEPT ![i].free = FALSE]
             /\ Hand(blocks[i].data, n, blocks[i].size)
      BY <1>3 DEF MallocReuse
    <2>2. blocks[i].data \in Nat /\ blocks[i].size \in Nat /\ n \in Int
      <3>1. blocks[i] \in Block
        BY DEF TypeOK
      <3> QED BY <3>1, BlockFields, HeapAssumption
    <2>3. used' = used /\ spoilt' = spoilt
      BY <1>3 DEF MallocReuse
    <2>4. held' \subseteq Region /\ reply' \in [n : Int, addr : Nat]
      BY <2>1, <2>2 DEF Hand, TypeOK, Region
    <2> QED
      BY <1>1, <2>1, <2>3, <2>4 DEF TypeOK, SameShape
  <1>4. ASSUME NEW p \in Nat, Free(p) PROVE TypeOK' /\ SameShape
    <2>1. /\ used' = used /\ spoilt' = spoilt
          /\ held' \subseteq Region
          /\ reply' \in [n : Int, addr : Nat]
      BY <1>4 DEF Free, TypeOK, NoReply, NULL
    <2>2. \/ blocks' = blocks
          \/ \E i \in DOMAIN blocks : blocks' = [blocks EXCEPT ![i].free = TRUE]
      BY <1>4 DEF Free
    <2> QED
      BY <1>1, <2>1, <2>2 DEF TypeOK, SameShape
  <1>5. CASE UNCHANGED vars
    BY <1>5 DEF vars, TypeOK, SameShape
  <1>6. ASSUME NEW r \in held, Store(r) PROVE TypeOK' /\ SameShape
    BY <1>6 DEF Store, TypeOK, SameShape
  <1> QED BY <1>2, <1>3, <1>4, <1>5, <1>6

(* What a step is, one case per action. *)
LEMMA NextCases ==
    ASSUME TypeOK, [Next]_vars
    PROVE  /\ wild' \in BOOLEAN
           /\ \/ \E n \in Sizes : MallocHead(n) \/ MallocNew(n)
              \/ \E n \in Sizes : MallocRefuse(n) \/ MallocReuse(n)
              \/ \E p \in Nat : Free(p) /\ (p = NULL \/ \E r \in held : p = r.addr)
              \/ \E r \in held : Store(r)
              \/ UNCHANGED vars
  <1>1. \A r \in held : r.addr \in Nat
    BY DEF TypeOK, Region
  <1>2. NULL \in Nat
    BY DEF NULL
  <1>3. ASSUME NEW r \in held, Store(r) PROVE wild' \in BOOLEAN
    BY <1>3 DEF Store
  <1>4. CASE Calls /\ wild' = wild
    BY <1>1, <1>2, <1>4 DEF Calls, TypeOK
  <1>5. CASE UNCHANGED vars
    BY <1>5 DEF vars, TypeOK
  <1> QED BY <1>3, <1>4, <1>5 DEF Next

(* Every step keeps the shape of the list or appends one fresh block. *)
LEMMA StepShape ==
    ASSUME TypeOK, UsedBounded, [Next]_vars
    PROVE  TypeOK' /\ UsedBounded' /\ (SameShape \/ Grows)
  <1>0. wild' \in BOOLEAN
    BY NextCases
  <1>1. CASE \E n \in Sizes : MallocHead(n) \/ MallocNew(n)
    BY <1>0, <1>1, MallocGrows
  <1>2. CASE \/ \E n \in Sizes : MallocRefuse(n) \/ MallocReuse(n)
             \/ \E p \in Nat : Free(p)
             \/ \E r \in held : Store(r)
             \/ UNCHANGED vars
    <2>1. TypeOK' /\ SameShape
      BY <1>0, <1>2, OthersKeepShape
    <2> QED BY <2>1 DEF UsedBounded, SameShape
  <1> QED BY <1>1, <1>2, NextCases

LEMMA InitTypes == ASSUME Init PROVE TypeOK /\ UsedBounded
  <1>0. blocks \in Seq(Block)
    BY DEF Init
  <1>1. held \subseteq Region
          /\ spoilt \subseteq DOMAIN blocks /\ wild \in BOOLEAN
    BY DEF Init
  <1>2. used \in Nat /\ reply \in [n : Int, addr : Nat]
    BY DEF Init, NoReply, NULL
  <1>3. UsedBounded
    BY HeapAssumption DEF Init, UsedBounded
  <1> QED BY <1>0, <1>1, <1>2, <1>3 DEF TypeOK

(* The state keeps its types, and the break never passes the end of the    *)
(* heap by a pointer or more, whatever sizes callers ask for.              *)
THEOREM TypeCorrect == Spec => []TypeOK
  <1>1. Init => TypeOK /\ UsedBounded
    BY InitTypes
  <1>2. TypeOK /\ UsedBounded /\ [Next]_vars => (TypeOK /\ UsedBounded)'
    BY StepShape
  <1> QED BY <1>1, <1>2, PTL DEF Spec

(* The overshoot of kstd_mem_brk is less than a pointer. *)
THEOREM BreakBounded == Spec => []UsedBounded
  <1>1. Init => TypeOK /\ UsedBounded
    BY InitTypes
  <1>2. TypeOK /\ UsedBounded /\ [Next]_vars => (TypeOK /\ UsedBounded)'
    BY StepShape
  <1> QED BY <1>1, <1>2, PTL DEF Spec

(* Appending a fresh block, or changing no shape, keeps the list ordered. *)
LEMMA OrderStep ==
    ASSUME TypeOK, TypeOK', ListInAddressOrder, SameShape \/ Grows
    PROVE  ListInAddressOrder'
  <1>a. /\ Start \in Nat /\ PtrSize \in Nat /\ HeaderSize \in Nat
        /\ PtrSize > 0 /\ HeaderSize > 0
        /\ used \in Nat /\ used' \in Nat
    BY HeapAssumption DEF TypeOK
  <1>0. /\ Start \in Nat /\ PtrSize \in Nat /\ HeaderSize \in Nat
        /\ PtrSize > 0 /\ HeaderSize > 0
        /\ used \in Nat /\ used' \in Nat
        /\ DOMAIN blocks = 1 .. Len(blocks) /\ DOMAIN blocks' = 1 .. Len(blocks')
        /\ Len(blocks) \in Nat
        /\ \A i \in DOMAIN blocks : blocks[i].hdr \in Nat /\ blocks[i].data \in Nat
    BY HeapAssumption, BlockFields DEF TypeOK
  <1>1. CASE SameShape
    BY <1>0, <1>1 DEF SameShape, ListInAddressOrder
  <1>2. CASE Grows /\ blocks' = blocks
    BY <1>0, <1>2 DEF Grows, ListInAddressOrder
  <1>3. ASSUME NEW b \in Block, Fresh(b, used, used'), used' >= used,
               blocks' = Append(blocks, b)
        PROVE  ListInAddressOrder'
    <2>1. /\ Len(blocks') = Len(blocks) + 1
          /\ \A i \in DOMAIN blocks : blocks'[i] = blocks[i]
          /\ blocks'[Len(blocks) + 1] = b
      BY <1>3 DEF TypeOK
    <2>2. /\ b.hdr \in Nat /\ b.data \in Nat
          /\ b.hdr > Start + used
          /\ b.hdr <= Start + used'
          /\ b.data <= Start + used'
          /\ b.data # NULL => b.data > b.hdr
      <3>1. b.size \in Nat /\ b.hdr \in Nat /\ b.data \in Nat
        BY BlockFields
      <3>2. /\ b.hdr = Start + used + HeaderSize + PtrSize
            /\ b.hdr <= Start + used'
            /\ b.data <= Start + used'
            /\ b.data # NULL => b.data >= b.hdr + b.size + PtrSize
        BY <1>3 DEF Fresh
      <3>3. b.hdr > Start + used
        BY <1>a, <3>1, <3>2
      <3>4. ASSUME b.data # NULL PROVE b.data > b.hdr
        BY <1>a, <3>1, <3>2, <3>4
      <3> QED BY <3>1, <3>2, <3>3, <3>4
    <2>3. ASSUME NEW i \in DOMAIN blocks'
          PROVE  /\ blocks'[i].hdr > Start
                 /\ blocks'[i].hdr <= Start + used'
                 /\ blocks'[i].data <= Start + used'
                 /\ blocks'[i].data # NULL => blocks'[i].data > blocks'[i].hdr
      <3>1. CASE i \in DOMAIN blocks
        BY <1>0, <1>3, <2>1, <3>1 DEF ListInAddressOrder
      <3>2. CASE i = Len(blocks) + 1
        BY <1>0, <2>1, <2>2, <3>2
      <3> QED BY <1>0, <2>1, <3>1, <3>2
    <2>4. ASSUME NEW i \in DOMAIN blocks', NEW j \in DOMAIN blocks', i < j
          PROVE  /\ blocks'[j].hdr > blocks'[i].hdr
                 /\ blocks'[j].hdr > blocks'[i].data
      <3>1. i \in DOMAIN blocks
        BY <1>0, <2>1, <2>4
      <3>2. CASE j \in DOMAIN blocks
        BY <2>1, <2>4, <3>1, <3>2 DEF ListInAddressOrder
      <3>3. CASE j = Len(blocks) + 1
        <4>1. blocks[i].hdr <= Start + used /\ blocks[i].data <= Start + used
          BY <3>1 DEF ListInAddressOrder
        <4> QED BY <1>0, <2>1, <2>2, <3>1, <3>3, <4>1
      <3> QED BY <1>0, <2>1, <3>2, <3>3
    <2> QED BY <2>3, <2>4 DEF ListInAddressOrder
  <1> QED BY <1>1, <1>2, <1>3 DEF Grows

(* Blocks stay in address order, each behind everything the one before it  *)
(* owns, for all request sizes: kstd_mem_free and the first fit meet every *)
(* address at most once.                                                   *)
THEOREM ListOrdered == Spec => []ListInAddressOrder
  <1>1. Init => ListInAddressOrder
    BY DEF Init, ListInAddressOrder
  <1>2. TypeOK /\ UsedBounded /\ ListInAddressOrder /\ [Next]_vars
          => ListInAddressOrder'
    BY StepShape, OrderStep
  <1> QED BY <1>1, <1>2, TypeCorrect, BreakBounded, PTL DEF Spec
-----------------------------------------------------------------------------
(* The distances between blocks: a header and a pointer are reserved       *)
(* between the break and the next header.                                  *)
Spaced ==
    /\ \A i \in DOMAIN blocks :
          blocks[i].data # NULL =>
             blocks[i].data >= blocks[i].hdr + blocks[i].size + PtrSize
    /\ \A i, j \in DOMAIN blocks :
          i < j => /\ blocks[j].hdr >= blocks[i].hdr + HeaderSize + PtrSize
                   /\ blocks[j].hdr >= blocks[i].data + HeaderSize + PtrSize

LEMMA SpacedStep ==
    ASSUME TypeOK, TypeOK', ListInAddressOrder, Spaced,
           SameShape \/ Grows
    PROVE  Spaced'
  <1>0. /\ DOMAIN blocks = 1 .. Len(blocks) /\ DOMAIN blocks' = 1 .. Len(blocks')
        /\ Len(blocks) \in Nat
        /\ \A i \in DOMAIN blocks : /\ blocks[i].hdr \in Nat
                                    /\ blocks[i].data \in Nat
                                    /\ blocks[i].size \in Nat
    BY BlockFields DEF TypeOK
  <1>1. CASE SameShape
    BY <1>0, <1>1 DEF SameShape, Spaced
  <1>2. CASE blocks' = blocks
    BY <1>2 DEF Spaced
  <1>3. ASSUME NEW b \in Block, Fresh(b, used, used'), blocks' = Append(blocks, b)
        PROVE  Spaced'
    <2>a. /\ Start \in Nat /\ PtrSize \in Nat /\ HeaderSize \in Nat
          /\ used \in Nat /\ used' \in Nat
      BY HeapAssumption DEF TypeOK
    <2>1. /\ Len(blocks') = Len(blocks) + 1
          /\ \A i \in DOMAIN blocks : blocks'[i] = blocks[i]
          /\ blocks'[Len(blocks) + 1] = b
      BY <1>3 DEF TypeOK
    <2>2. b.hdr \in Nat /\ b.data \in Nat /\ b.size \in Nat
      BY BlockFields
    <2>3. /\ b.hdr = Start + used + HeaderSize + PtrSize
          /\ b.data # NULL => b.data >= b.hdr + b.size + PtrSize
      BY <1>3 DEF Fresh
    <2>5. ASSUME NEW i \in DOMAIN blocks'
          PROVE  blocks'[i].data # NULL =>
                   blocks'[i].data >= blocks'[i].hdr + blocks'[i].size + PtrSize
      BY <1>0, <2>1, <2>3 DEF Spaced
    <2>6. ASSUME NEW i \in DOMAIN blocks', NEW j \in DOMAIN blocks', i < j
          PROVE  /\ blocks'[j].hdr >= blocks'[i].hdr + HeaderSize + PtrSize
                 /\ blocks'[j].hdr >= blocks'[i].data + HeaderSize + PtrSize
      <3>1. i \in DOMAIN blocks
        BY <1>0, <2>1, <2>6
      <3>2. CASE j \in DOMAIN blocks
        BY <2>1, <2>6, <3>1, <3>2 DEF Spaced
      <3>3. CASE j = Len(blocks) + 1
        <4>1. blocks[i].hdr <= Start + used /\ blocks[i].data <= Start + used
          BY <3>1 DEF ListInAddressOrder
        <4>2. blocks[i].hdr \in Nat /\ blocks[i].data \in Nat
          BY <1>0, <3>1
        <4>3. b.hdr >= blocks[i].hdr + HeaderSize + PtrSize
          BY <2>a, <2>3, <4>1, <4>2
        <4>4. b.hdr >= blocks[i].data + HeaderSize + PtrSize
          BY <2>a, <2>3, <4>1, <4>2
        <4> QED BY <2>1, <3>1, <3>3, <4>3, <4>4
      <3> QED BY <1>0, <2>1, <3>2, <3>3
    <2> QED BY <2>5, <2>6 DEF Spaced
  <1> QED BY <1>1, <1>2, <1>3 DEF Grows

(* Those distances are what NoOverlap asks for. *)
LEMMA SpacedApart ==
    ASSUME TypeOK, Spaced PROVE NoOverlap
  <1>0. /\ DOMAIN blocks = 1 .. Len(blocks) /\ Len(blocks) \in Nat
        /\ HeaderSize \in Nat /\ PtrSize \in Nat
        /\ \A i \in DOMAIN blocks : /\ blocks[i].hdr \in Nat
                                    /\ blocks[i].data \in Nat
                                    /\ blocks[i].size \in Nat
    BY BlockFields, HeapAssumption DEF TypeOK
  <1>1. ASSUME NEW i \in DOMAIN blocks, NEW j \in DOMAIN blocks, i # j
        PROVE  /\ Disjoint(HeaderOf(blocks[i]), HeaderOf(blocks[j]))
               /\ blocks[i].data # NULL /\ ~ReachesNext(blocks[i]) =>
                    /\ Disjoint(PayloadOf(blocks[i]), HeaderOf(blocks[j]))
                    /\ blocks[j].data # NULL /\ ~ReachesNext(blocks[j]) =>
                         Disjoint(PayloadOf(blocks[i]), PayloadOf(blocks[j]))
    <2> DEFINE hi == blocks[i].hdr   hj == blocks[j].hdr
               di == blocks[i].data  dj == blocks[j].data
               si == blocks[i].size  sj == blocks[j].size
    <2>1. /\ hi \in Nat /\ hj \in Nat /\ di \in Nat /\ dj \in Nat
          /\ si \in Nat /\ sj \in Nat
          /\ di # NULL => di >= hi + si + PtrSize
          /\ dj # NULL => dj >= hj + sj + PtrSize
          /\ i < j => hj >= hi + HeaderSize + PtrSize /\ hj >= di + HeaderSize + PtrSize
          /\ j < i => hi >= hj + HeaderSize + PtrSize /\ hi >= dj + HeaderSize + PtrSize
      BY <1>0 DEF Spaced
    <2>2. i < j \/ j < i
      BY <1>0, <1>1
    <2> HIDE DEF hi, hj, di, dj, si, sj
    <2>3. /\ hi + HeaderSize <= hj \/ hj + HeaderSize <= hi
          /\ di # NULL /\ si <= HeaderSize + PtrSize =>
               /\ di + si <= hj \/ hj + HeaderSize <= di
               /\ dj # NULL /\ sj <= HeaderSize + PtrSize =>
                    di + si <= dj \/ dj + sj <= di
      <3>1. CASE i < j
        BY <1>0, <2>1, <3>1
      <3>2. CASE j < i
        BY <1>0, <2>1, <3>2
      <3> QED BY <2>2, <3>1, <3>2
    <2>4. /\ ReachesNext(blocks[i]) <=> ~(si <= HeaderSize + PtrSize)
          /\ ReachesNext(blocks[j]) <=> ~(sj <= HeaderSize + PtrSize)
      BY <1>0, <2>1 DEF ReachesNext, si, sj
    <2>5. /\ HeaderOf(blocks[i]) = [addr |-> hi, len |-> HeaderSize]
          /\ HeaderOf(blocks[j]) = [addr |-> hj, len |-> HeaderSize]
          /\ PayloadOf(blocks[i]) = [addr |-> di, len |-> si]
          /\ PayloadOf(blocks[j]) = [addr |-> dj, len |-> sj]
          /\ blocks[i].data = di /\ blocks[j].data = dj
      BY DEF HeaderOf, PayloadOf, hi, hj, di, dj, si, sj
    <2> QED BY <2>3, <2>4, <2>5 DEF Disjoint
  <1>2. ASSUME NEW i \in DOMAIN blocks, blocks[i].data # NULL,
               blocks[i].size >= HeaderSize - PtrSize
        PROVE  Disjoint(PayloadOf(blocks[i]), HeaderOf(blocks[i]))
    <2>1. /\ blocks[i].hdr \in Nat /\ blocks[i].data \in Nat
          /\ blocks[i].size \in Nat
          /\ blocks[i].data >= blocks[i].hdr + blocks[i].size + PtrSize
      BY <1>0, <1>2 DEF Spaced
    <2>2. blocks[i].hdr + HeaderSize <= blocks[i].data
      BY <1>0, <1>2, <2>1
    <2> QED BY <2>2 DEF Disjoint, PayloadOf, HeaderOf
  <1> QED BY <1>1, <1>2 DEF NoOverlap

(* Headers never overlap, and a payload of up to a header and a pointer    *)
(* never covers another block's header or another such payload: for every  *)
(* heap size, fill level, mix of request sizes and order of calls.  A      *)
(* caller's store within such a payload can spoil its own header only.     *)
THEOREM PayloadsApart == Spec => []NoOverlap
  <1>1. Init => Spaced
    BY DEF Init, Spaced
  <1>2. TypeOK /\ UsedBounded /\ ListInAddressOrder /\ Spaced /\ [Next]_vars
          => Spaced'
    BY StepShape, SpacedStep
  <1>3. TypeOK /\ Spaced => NoOverlap
    BY SpacedApart
  <1> QED
    BY <1>1, <1>2, <1>3, TypeCorrect, BreakBounded, ListOrdered, PTL DEF Spec
-----------------------------------------------------------------------------
(* A held address belongs to exactly one block. *)
LEMMA OneBlockPerAddress ==
    ASSUME TypeOK, ListInAddressOrder,
           NEW i \in DOMAIN blocks, NEW j \in DOMAIN blocks,
           blocks[i].data = blocks[j].data, blocks[i].data # NULL
    PROVE  i = j
  <1>1. /\ blocks[i].hdr \in Nat /\ blocks[i].data \in Nat
        /\ blocks[j].hdr \in Nat /\ blocks[j].data \in Nat
        /\ i \in Int /\ j \in Int
    BY BlockFields DEF TypeOK
  <1>2. ~(i < j)
    BY <1>1 DEF ListInAddressOrder
  <1>3. ~(j < i)
    BY <1>1 DEF ListInAddressOrder
  <1> QED BY <1>1, <1>2, <1>3

(* The heap does not empty again. *)
LEMMA StaysFull ==
    ASSUME NEW u \in Nat, NEW v \in Nat, v >= u, Total - u <= HeaderSize
    PROVE  Total - v <= HeaderSize
  BY HeapAssumption

(* Both ways of extending the list answer with an address past the old     *)
(* break, and leave the header out only when none fits.                    *)
LEMMA MallocAnswers ==
    ASSUME TypeOK, UsedBounded, NEW n \in Sizes, MallocHead(n) \/ MallocNew(n)
    PROVE  \E h, d \in Nat :
              /\ Link(h, n, d)
              /\ Hand(d, n, n)
              /\ used' \in Nat /\ used' >= used
              /\ d # NULL => d > Start + used /\ d <= Start + used'
              /\ h = NULL => Full
              /\ spoilt' = spoilt
              /\ ~Full' => ~Full
  <1> DEFINE h == Brk(used, HeaderSize)
  <1>0. /\ n \in Int /\ n > 0 /\ HeaderSize \in Int /\ HeaderSize > 0
        /\ Start \in Nat /\ Total \in Nat /\ PtrSize \in Nat /\ PtrSize > 0
        /\ used \in Nat /\ used < Total + PtrSize
    BY HeapAssumption DEF MallocHead, MallocNew, TypeOK, UsedBounded
  <1>1. /\ h.used \in Nat /\ h.addr \in Nat
        /\ h.used >= used /\ h.used < Total + PtrSize
        /\ h.addr = NULL => Total - used <= HeaderSize
    BY <1>0, BrkFacts
  <1>f. h.addr = NULL => Full
    <2> HIDE DEF h
    <2> QED BY <1>1 DEF Full
  <1>g. used' \in Nat /\ used' >= used => (~Full' => ~Full)
    BY <1>0, StaysFull DEF Full
  <1>s. spoilt' = spoilt
    BY DEF MallocHead, MallocNew
  <1>2. CASE MallocHead(n)
    <2> DEFINE d == Brk(h.used, n)
    <2>1. /\ d.used \in Nat /\ d.addr \in Nat /\ d.used >= h.used
          /\ d.addr # NULL => d.addr = Start + d.used /\ d.used = h.used + n + PtrSize
      BY <1>0, <1>1, BrkFacts
    <2>2. used' = d.used /\ Link(h.addr, n, d.addr) /\ Hand(d.addr, n, n)
      BY <1>2 DEF MallocHead
    <2> HIDE DEF d, h
    <2>3. d.addr # NULL => d.addr > Start + used /\ d.addr <= Start + used'
      BY <1>0, <1>1, <2>1, <2>2
    <2>4. used' \in Nat /\ used' >= used
      BY <1>0, <1>1, <2>1, <2>2
    <2> QED BY <1>1, <1>f, <1>g, <1>s, <2>1, <2>2, <2>3, <2>4
  <1>3. CASE MallocNew(n)
    <2> DEFINE l == Brk(h.used, n)
               d == Brk(l.used, n)
    <2>1. l.used \in Nat /\ l.used >= h.used /\ l.used < Total + PtrSize
      BY <1>0, <1>1, BrkFacts
    <2>2. /\ d.used \in Nat /\ d.addr \in Nat /\ d.used >= l.used
          /\ d.addr # NULL => d.addr = Start + d.used /\ d.used = l.used + n + PtrSize
      BY <1>0, <2>1, BrkFacts
    <2>3. used' = d.used /\ Link(h.addr, n, d.addr) /\ Hand(d.addr, n, n)
      BY <1>3 DEF MallocNew
    <2> HIDE DEF l, d, h
    <2>4. d.addr # NULL => d.addr > Start + used /\ d.addr <= Start + used'
      BY <1>0, <1>1, <2>1, <2>2, <2>3
    <2>5. used' \in Nat /\ used' >= used
      BY <1>0, <1>1, <2>1, <2>2, <2>3
    <2> QED BY <1>1, <1>f, <1>g, <1>s, <2>2, <2>3, <2>4, <2>5
  <1> QED BY <1>2, <1>3

(* Callers hold addresses below the break, and no free block has one. *)
FreeIsUnheld ==
    \A r \in held :
        /\ r.addr # NULL
        /\ r.addr <= Start + used
        /\ \A i \in DOMAIN blocks : blocks[i].free => blocks[i].data # r.addr

LEMMA FreeIsUnheldStep ==
    ASSUME TypeOK, UsedBounded, ListInAddressOrder, FreeIsUnheld, [Next]_vars
    PROVE  FreeIsUnheld'
  <1>0. /\ Start \in Nat /\ used \in Nat
        /\ \A r \in held : r.addr \in Nat
    BY HeapAssumption DEF TypeOK, Region
  <1>1. ASSUME NEW n \in Sizes, MallocHead(n) \/ MallocNew(n)
        PROVE  FreeIsUnheld'
    <2>1. PICK h \in Nat, d \in Nat :
             /\ Link(h, n, d)
             /\ Hand(d, n, n)
             /\ used' \in Nat /\ used' >= used
             /\ d # NULL => d > Start + used /\ d <= Start + used'
      BY <1>1, MallocAnswers
    <2>2. ASSUME NEW i \in DOMAIN blocks', blocks'[i].free
          PROVE  i \in DOMAIN blocks /\ blocks'[i] = blocks[i]
      BY <2>1, <2>2 DEF Link, TypeOK
    <2>3. ASSUME NEW i \in DOMAIN blocks
          PROVE  blocks[i].data \in Nat /\ blocks[i].data <= Start + used
      BY <2>3, BlockFields DEF TypeOK, ListInAddressOrder
    <2>4. ASSUME NEW r \in held PROVE r.addr # NULL /\ r.addr <= Start + used'
      BY <1>0, <2>1, <2>4 DEF FreeIsUnheld
    <2>5. ASSUME NEW r \in held', r \notin held
          PROVE  r.addr = d /\ d # NULL
      BY <2>1, <2>5 DEF Hand
    <2>6. ASSUME NEW r \in held'
          PROVE  /\ r.addr # NULL
                 /\ r.addr <= Start + used'
                 /\ \A i \in DOMAIN blocks' :
                       blocks'[i].free => blocks'[i].data # r.addr
      <3>1. CASE r \in held
        BY <2>2, <2>4, <3>1 DEF FreeIsUnheld
      <3>2. CASE r \notin held
        <4>1. r.addr = d /\ d # NULL /\ d > Start + used
          BY <2>1, <2>5, <3>2
        <4>2. ASSUME NEW i \in DOMAIN blocks', blocks'[i].free
              PROVE  blocks'[i].data # r.addr
          <5>1. blocks'[i].data \in Nat /\ blocks'[i].data <= Start + used
            BY <2>2, <2>3, <4>2
          <5> QED BY <1>0, <4>1, <5>1
        <4>3. r.addr <= Start + used'
          BY <2>1, <4>1
        <4> QED BY <4>1, <4>2, <4>3
      <3> QED BY <3>1, <3>2
    <2> QED BY <2>6 DEF FreeIsUnheld
  <1>2. ASSUME NEW n \in Sizes, MallocReuse(n)
        PROVE  FreeIsUnheld'
    <2>1. PICK i \in DOMAIN blocks :
             /\ blocks' = [blocks EXCEPT ![i].free = FALSE]
             /\ Hand(blocks[i].data, n, blocks[i].size)
             /\ used' = used
      BY <1>2 DEF MallocReuse
    <2>2. /\ DOMAIN blocks' = DOMAIN blocks
          /\ \A j \in DOMAIN blocks :
                /\ blocks'[j].data = blocks[j].data
                /\ blocks'[j].free = IF j = i THEN FALSE ELSE blocks[j].free
      BY <2>1, SetFree DEF TypeOK
    <2>3. blocks[i].data <= Start + used
      BY DEF ListInAddressOrder
    <2>4. ASSUME NEW r \in held', r \notin held
          PROVE  r.addr = blocks[i].data /\ blocks[i].data # NULL
      BY <2>1, <2>4 DEF Hand
    <2>5. ASSUME NEW j \in DOMAIN blocks, blocks'[j].free, blocks[i].data # NULL
          PROVE  blocks'[j].data # blocks[i].data
      BY <2>2, <2>5, OneBlockPerAddress
    <2> QED BY <2>1, <2>2, <2>3, <2>4, <2>5 DEF FreeIsUnheld
  <1>3. ASSUME NEW p \in Nat, Free(p)
        PROVE  FreeIsUnheld'
    <2>1. /\ used' = used
          /\ \A r : r \in held' <=> r \in held /\ r.addr # p
      BY <1>3 DEF Free
    <2>2. CASE blocks' = blocks
      BY <2>1, <2>2 DEF FreeIsUnheld
    <2>3. ASSUME NEW i \in DOMAIN blocks, blocks[i].data = p,
                 blocks' = [blocks EXCEPT ![i].free = TRUE]
          PROVE  FreeIsUnheld'
      <3>1. /\ DOMAIN blocks' = DOMAIN blocks
            /\ \A j \in DOMAIN blocks :
                  /\ blocks'[j].data = blocks[j].data
                  /\ blocks'[j].free = IF j = i THEN TRUE ELSE blocks[j].free
        BY <2>3, SetFree DEF TypeOK
      <3> QED BY <2>1, <2>3, <3>1 DEF FreeIsUnheld
    <2> QED BY <1>3, <2>2, <2>3 DEF Free
  <1>4. CASE \/ UNCHANGED vars
             \/ \E n \in Sizes : MallocRefuse(n)
             \/ \E r \in held : Store(r)
    BY <1>4 DEF vars, MallocRefuse, Store, FreeIsUnheld
  <1> QED BY <1>1, <1>2, <1>3, <1>4, NextCases

(* malloc answers NULL, an address past the break, or that of a free block, *)
(* and no caller holds any of these: for all request sizes, also where      *)
(* payloads and headers overlap.                                            *)
THEOREM NeverHandedOutTwice == Spec => HandsOutUnheld
  <1> DEFINE Fine == reply'.addr # NULL => \A r \in held : r.addr # reply'.addr
  <1>1. Init => FreeIsUnheld
    BY DEF Init, FreeIsUnheld
  <1>2. TypeOK /\ UsedBounded /\ ListInAddressOrder /\ FreeIsUnheld /\ [Next]_vars
          => FreeIsUnheld'
    BY FreeIsUnheldStep
  <1>3. TypeOK /\ UsedBounded /\ FreeIsUnheld => (Calls => Fine)
    <2> SUFFICES ASSUME TypeOK, UsedBounded, FreeIsUnheld, Calls PROVE Fine
      OBVIOUS
    <2>0. /\ Start \in Nat /\ used \in Nat
          /\ \A r \in held : r.addr \in Nat /\ r.addr <= Start + used
      BY HeapAssumption DEF TypeOK, Region, FreeIsUnheld
    <2>1. ASSUME NEW n \in Sizes, MallocHead(n) \/ MallocNew(n) PROVE Fine
      <3>1. PICK d \in Nat : /\ Hand(d, n, n)
                             /\ d # NULL => d > Start + used
        BY <2>1, MallocAnswers
      <3>2. reply'.addr = d
        BY <3>1 DEF Hand
      <3> QED BY <2>0, <3>1, <3>2
    <2>2. ASSUME NEW n \in Sizes, MallocReuse(n) PROVE Fine
      <3>1. PICK i \in DOMAIN blocks :
               blocks[i].free /\ Hand(blocks[i].data, n, blocks[i].size)
        BY <2>2 DEF MallocReuse, IsWorst, Fits
      <3>2. reply'.addr = blocks[i].data
        BY <3>1 DEF Hand
      <3> QED BY <3>1, <3>2 DEF FreeIsUnheld
    <2>3. CASE \/ \E n \in Sizes : MallocRefuse(n)
               \/ \E r \in held : Free(r.addr)
               \/ Free(NULL)
      BY <2>3 DEF MallocRefuse, Free, NoReply
    <2> QED BY <2>1, <2>2, <2>3 DEF Calls
  <1>4. TypeOK /\ UsedBounded /\ FreeIsUnheld /\ [Next]_vars => [Calls => Fine]_vars
    BY <1>3
  <1>5. HandsOutUnheld <=> [][Calls => Fine]_vars
    BY PTL DEF HandsOutUnheld
  <1> QED
    BY <1>1, <1>2, <1>4, TypeCorrect, BreakBounded, ListOrdered, PTL
       DEF Spec, HandsOutUnheld
-----------------------------------------------------------------------------
InUse(b) == ~b.free /\ b.data # NULL

(* The three parts of HeldIsInUse. *)
InUseIsHeld ==
    \A i \in DOMAIN blocks \ spoilt :
        InUse(blocks[i]) => PayloadOf(blocks[i]) \in held
SpoiltInUse == \A i \in spoilt : ~blocks[i].free
HeldListed ==
    ~Full => \A r \in held : \E i \in DOMAIN blocks :
                ~blocks[i].free /\ PayloadOf(blocks[i]) = r

LEMMA HeldParts == HeldIsInUse <=> InUseIsHeld /\ SpoiltInUse /\ HeldListed
  BY DEF HeldIsInUse, InUseIsHeld, SpoiltInUse, HeldListed, InUse

LEMMA HeldMalloc ==
    ASSUME TypeOK, UsedBounded, HeldIsInUse,
           NEW n \in Sizes, MallocHead(n) \/ MallocNew(n)
    PROVE  HeldIsInUse'
  <1>0. InUseIsHeld /\ SpoiltInUse /\ HeldListed
    BY HeldParts
  <1>1. PICK h \in Nat, d \in Nat :
           /\ Link(h, n, d)
           /\ Hand(d, n, n)
           /\ h = NULL => Full
           /\ spoilt' = spoilt
           /\ ~Full' => ~Full
    BY MallocAnswers
  <1> DEFINE b == [hdr |-> h, size |-> n, free |-> FALSE, data |-> d]
             r == [addr |-> d, len |-> n]
  <1>2. held' = IF d = NULL THEN held ELSE held \cup {r}
    BY <1>1 DEF Hand
  <1>3. b.free = FALSE /\ b.data = d /\ PayloadOf(b) = r
    BY DEF PayloadOf
  <1>4. h # NULL => blocks' = Append(blocks, b)
    BY <1>1 DEF Link
  <1>5. h = NULL => blocks' = blocks
    BY <1>1 DEF Link
  <1> HIDE DEF b, r
  <1>6. /\ DOMAIN blocks \subseteq DOMAIN blocks'
        /\ \A i \in DOMAIN blocks : blocks'[i] = blocks[i]
        /\ \A i \in DOMAIN blocks' : i \in DOMAIN blocks \/ blocks'[i] = b
        /\ h # NULL => Len(blocks) + 1 \in DOMAIN blocks'
                       /\ blocks'[Len(blocks) + 1] = b
    <2>1. CASE h = NULL
      BY <1>5, <2>1
    <2>2. CASE h # NULL
      BY <1>4, <2>2 DEF TypeOK
    <2> QED BY <2>1, <2>2
  <1>7. InUseIsHeld'
    BY <1>0, <1>1, <1>2, <1>3, <1>6 DEF InUseIsHeld, InUse
  <1>8. SpoiltInUse'
    BY <1>0, <1>1, <1>6 DEF SpoiltInUse, TypeOK
  <1>9. HeldListed'
    <2> SUFFICES ASSUME ~Full', NEW s \in held'
                 PROVE  \E i \in DOMAIN blocks' :
                           ~blocks'[i].free /\ PayloadOf(blocks'[i]) = s
      BY DEF HeldListed
    <2>1. ~Full /\ h # NULL
      BY <1>1
    <2>2. CASE s \in held
      BY <1>0, <1>6, <2>1, <2>2 DEF HeldListed
    <2>3. CASE s = r
      BY <1>3, <1>6, <2>1, <2>3
    <2> QED BY <1>2, <2>2, <2>3
  <1> QED BY <1>7, <1>8, <1>9, HeldParts DEF HeldIsInUse, InUseIsHeld, SpoiltInUse, HeldListed, InUse

LEMMA HeldReuse ==
    ASSUME TypeOK, HeldIsInUse, NEW n \in Sizes, MallocReuse(n)
    PROVE  HeldIsInUse'
  <1>0. InUseIsHeld /\ SpoiltInUse /\ HeldListed
    BY HeldParts
  <1>1. PICK i \in DOMAIN blocks :
           /\ blocks' = [blocks EXCEPT ![i].free = FALSE]
           /\ Hand(blocks[i].data, n, blocks[i].size)
    BY DEF MallocReuse
  <1>2. used' = used /\ spoilt' = spoilt
    BY DEF MallocReuse
  <1>3. /\ DOMAIN blocks' = DOMAIN blocks
        /\ \A j \in DOMAIN blocks :
              /\ blocks'[j].data = blocks[j].data
              /\ blocks'[j].size = blocks[j].size
              /\ blocks'[j].free = IF j = i THEN FALSE ELSE blocks[j].free
    BY <1>1, SetFree DEF TypeOK
  <1>4. held' = IF blocks[i].data = NULL THEN held
                ELSE held \cup {PayloadOf(blocks[i])}
    BY <1>1 DEF Hand, PayloadOf
  <1>5. \A j \in DOMAIN blocks : PayloadOf(blocks'[j]) = PayloadOf(blocks[j])
    BY <1>3 DEF PayloadOf
  <1>6. InUseIsHeld'
    BY <1>0, <1>2, <1>3, <1>4, <1>5 DEF InUseIsHeld, InUse
  <1>7. SpoiltInUse'
    BY <1>0, <1>2, <1>3 DEF SpoiltInUse, TypeOK
  <1>8. Full' = Full
    BY <1>2 DEF Full
  <1>9. HeldListed'
    BY <1>0, <1>3, <1>4, <1>5, <1>8 DEF HeldListed
  <1> QED BY <1>6, <1>7, <1>9 DEF HeldIsInUse, InUseIsHeld, SpoiltInUse, HeldListed, InUse

LEMMA HeldFree ==
    ASSUME TypeOK, ListInAddressOrder, HeldIsInUse, NEW p \in Nat, Free(p)
    PROVE  HeldIsInUse'
  <1>0. InUseIsHeld /\ SpoiltInUse /\ HeldListed
    BY HeldParts
  <1>1. /\ used' = used /\ spoilt' = spoilt
        /\ \A r : r \in held' <=> r \in held /\ r.addr # p
    BY DEF Free
  <1>2. Full' = Full
    BY <1>1 DEF Full
  <1>3. \A j \in DOMAIN blocks : PayloadOf(blocks[j]).addr = blocks[j].data
    BY DEF PayloadOf
  <1>4. CASE /\ \A j \in DOMAIN blocks \ spoilt : blocks[j].data # p
             /\ blocks' = blocks
    <2>1. InUseIsHeld'
      BY <1>0, <1>1, <1>3, <1>4 DEF InUseIsHeld
    <2>2. SpoiltInUse' /\ HeldListed'
      BY <1>0, <1>1, <1>2, <1>4 DEF SpoiltInUse, HeldListed
    <2> QED BY <2>1, <2>2 DEF HeldIsInUse, InUseIsHeld, SpoiltInUse, HeldListed, InUse
  <1>5. ASSUME NEW i \in DOMAIN blocks \ spoilt, blocks[i].data = p,
               blocks' = [blocks EXCEPT ![i].free = TRUE]
        PROVE  HeldIsInUse'
    <2>1. /\ DOMAIN blocks' = DOMAIN blocks
          /\ \A j \in DOMAIN blocks :
                /\ blocks'[j].data = blocks[j].data
                /\ blocks'[j].size = blocks[j].size
                /\ blocks'[j].free = IF j = i THEN TRUE ELSE blocks[j].free
      BY <1>5, SetFree DEF TypeOK
    <2>2. \A j \in DOMAIN blocks : PayloadOf(blocks'[j]) = PayloadOf(blocks[j])
      BY <2>1 DEF PayloadOf
    <2>3. \A j \in DOMAIN blocks : blocks[j].data = p /\ p # NULL => j = i
      BY <1>5, OneBlockPerAddress
    <2>4. InUseIsHeld'
      BY <1>0, <1>1, <1>3, <2>1, <2>2, <2>3 DEF InUseIsHeld, InUse
    <2>5. SpoiltInUse'
      BY <1>0, <1>1, <1>5, <2>1 DEF SpoiltInUse, TypeOK
    <2>6. HeldListed'
      <3> SUFFICES ASSUME ~Full, NEW r \in held'
                   PROVE  \E j \in DOMAIN blocks' :
                             ~blocks'[j].free /\ PayloadOf(blocks'[j]) = r
        BY <1>2 DEF HeldListed
      <3>1. PICK j \in DOMAIN blocks : ~blocks[j].free /\ PayloadOf(blocks[j]) = r
        BY <1>0, <1>1 DEF HeldListed
      <3>2. j # i
        BY <1>1, <1>3, <1>5, <3>1
      <3> QED BY <2>1, <2>2, <3>1, <3>2
    <2> QED BY <2>4, <2>5, <2>6 DEF HeldIsInUse, InUseIsHeld, SpoiltInUse, HeldListed, InUse
  <1> QED BY <1>4, <1>5 DEF Free

(* A store spoils the block of a held region, which is not a free one. *)
LEMMA HeldStore ==
    ASSUME TypeOK, FreeIsUnheld, HeldIsInUse, NEW r \in held, Store(r)
    PROVE  HeldIsInUse'
  <1>0. InUseIsHeld /\ SpoiltInUse /\ HeldListed
    BY HeldParts
  <1>1. /\ UNCHANGED <<used, blocks, held>>
        /\ spoilt \subseteq spoilt'
        /\ \A i \in spoilt' : i \in spoilt \/ (i \in DOMAIN blocks /\ PayloadOf(blocks[i]) = r)
    BY DEF Store
  <1>2. \A i \in DOMAIN blocks : PayloadOf(blocks[i]) = r => ~blocks[i].free
    BY DEF FreeIsUnheld, PayloadOf
  <1>3. InUseIsHeld'
    BY <1>0, <1>1 DEF InUseIsHeld
  <1>4. SpoiltInUse'
    BY <1>0, <1>1, <1>2 DEF SpoiltInUse
  <1>5. HeldListed'
    BY <1>0, <1>1 DEF HeldListed, Full
  <1> QED BY <1>3, <1>4, <1>5 DEF HeldIsInUse, InUseIsHeld, SpoiltInUse, HeldListed, InUse

LEMMA HeldStep ==
    ASSUME TypeOK, UsedBounded, ListInAddressOrder, FreeIsUnheld, HeldIsInUse,
           [Next]_vars
    PROVE  HeldIsInUse'
  <1>1. CASE UNCHANGED vars \/ \E n \in Sizes : MallocRefuse(n)
    BY <1>1 DEF vars, MallocRefuse, HeldIsInUse, Full
  <1> QED BY <1>1, NextCases, HeldMalloc, HeldReuse, HeldFree, HeldStore

(* What callers hold and what the list shows as in use agree, for all      *)
(* request sizes and stores, but for blocks whose __data was stored over   *)
(* (they stay in use for ever) and for memory handed out without a header  *)
(* once no header fits.                                                    *)
THEOREM HeldTracked == Spec => []HeldIsInUse
  <1>1. Init => FreeIsUnheld /\ HeldIsInUse
    BY DEF Init, FreeIsUnheld, HeldIsInUse
  <1>2. TypeOK /\ UsedBounded /\ ListInAddressOrder /\ FreeIsUnheld /\ [Next]_vars
          => FreeIsUnheld'
    BY FreeIsUnheldStep
  <1>3. TypeOK /\ UsedBounded /\ ListInAddressOrder /\ FreeIsUnheld
          /\ HeldIsInUse /\ [Next]_vars => HeldIsInUse'
    BY HeldStep
  <1> QED
    BY <1>1, <1>2, <1>3, TypeCorrect, BreakBounded, ListOrdered, PTL DEF Spec
=============================================================================
