------------------------ MODULE HeapRefinementProofs ------------------------
(***************************************************************************)
(* Heap implements AllocSpec when no request is longer than a header and a *)
(* pointer (ShortRequests), for every heap and header size.                *)
(*                                                                         *)
(* A block whose payload found no room stays in the list with __data NULL, *)
(* and free(NULL) makes it one that the search may answer with.  That the  *)
(* answer NULL is right even then is what NullTail is for: such blocks are *)
(* the last ones, so every block with a payload has been looked at before. *)
(***************************************************************************)
EXTENDS HeapRefinement, HeapProofs

ShortRequests == \A n \in Sizes : n <= HeaderSize + PtrSize

(* No room for a header and a payload when u bytes are used. *)
Tight(u) == Total - u <= HeaderSize + PtrSize

(* Once a payload is refused there is no room for another one. *)
NullTail ==
    /\ \A i, j \in DOMAIN blocks :
          i < j /\ blocks[i].data = NULL => blocks[j].data = NULL
    /\ (\E i \in DOMAIN blocks : blocks[i].data = NULL) => Tight(used)

(* What malloc answers with when it moves the break. *)
LEMMA ShortMallocAnswers ==
    ASSUME ShortRequests, TypeOK, UsedBounded,
           NEW n \in Sizes, MallocHead(n) \/ MallocNew(n)
    PROVE  \E h, d \in Nat :
              /\ Link(h, n, d)
              /\ Hand(d, n, n)
              /\ d \in 0 .. (Start + Total + PtrSize)
              /\ h = NULL <=> Full
              /\ d # NULL => ~(d <= Start + used)
              /\ h # NULL /\ d # NULL => ~Tight(used)
              /\ h # NULL /\ d = NULL => Tight(used')
              /\ Tight(used) => Tight(used')
              /\ Full => Full'
              /\ spoilt' = spoilt
  <1> DEFINE h == Brk(used, HeaderSize)
  <1>0. /\ n \in Int /\ n > 0 /\ HeaderSize \in Int /\ HeaderSize > 0
        /\ Start \in Nat /\ Total \in Nat /\ PtrSize \in Nat /\ PtrSize > 0
        /\ used \in Nat /\ used < Total + PtrSize
        /\ n <= HeaderSize + PtrSize
    BY HeapAssumption
       DEF MallocHead, MallocNew, TypeOK, UsedBounded, ShortRequests
  <1>1. /\ h.used \in Nat /\ h.addr \in Nat
        /\ h.used >= used /\ h.used < Total + PtrSize
        /\ h.addr # NULL => /\ h.used = used + HeaderSize + PtrSize
                            /\ Total - used > HeaderSize
        /\ h.addr = NULL => h.used = used /\ Total - used <= HeaderSize
    BY <1>0, BrkFacts
  <1>f. h.addr = NULL <=> Full
    <2>1. Full <=> Total - used <= HeaderSize
      BY DEF Full
    <2> HIDE DEF h
    <2>2. Total - used <= HeaderSize <=> h.addr = NULL
      BY <1>0, <1>1
    <2> QED BY <2>1, <2>2
  <1>g. used' \in Nat /\ used' >= used => (Full => Full')
    BY <1>0, StaysFull DEF Full
  <1>s. spoilt' = spoilt
    BY DEF MallocHead, MallocNew
  <1>2. CASE MallocHead(n)
    <2> DEFINE d == Brk(h.used, n)
    <2>1. /\ d.used \in Nat /\ d.addr \in Nat /\ d.used >= h.used
          /\ d.used < Total + PtrSize
          /\ d.addr # NULL => /\ d.addr = Start + d.used
                              /\ d.used = h.used + n + PtrSize
                              /\ Total - h.used > n
          /\ d.addr = NULL => d.used = h.used /\ Total - h.used <= n
      BY <1>0, <1>1, BrkFacts
    <2>2. used' = d.used /\ Link(h.addr, n, d.addr) /\ Hand(d.addr, n, n)
      BY <1>2 DEF MallocHead
    <2> HIDE DEF d, h
    <2>4. d.addr # NULL => ~(d.addr <= Start + used)
      BY <1>0, <1>1, <2>1, <2>2
    <2>5. h.addr # NULL /\ d.addr # NULL => ~Tight(used)
      BY <1>0, <1>1, <2>1, <2>2 DEF Tight
    <2>6. h.addr # NULL /\ d.addr = NULL => Tight(used')
      BY <1>0, <1>1, <2>1, <2>2 DEF Tight
    <2>7. d.addr \in 0 .. (Start + Total + PtrSize)
      BY <1>0, <1>1, <2>1 DEF NULL
    <2>8. Tight(used) => Tight(used')
      BY <1>0, <1>1, <2>1, <2>2 DEF Tight
    <2>9. used' \in Nat /\ used' >= used
      BY <1>0, <1>1, <2>1, <2>2
    <2> QED BY <1>1, <1>f, <1>g, <1>s, <2>1, <2>2, <2>4, <2>5, <2>6, <2>7, <2>8, <2>9
  <1>3. CASE MallocNew(n)
    <2> DEFINE l == Brk(h.used, n)
               d == Brk(l.used, n)
    <2>1. /\ l.used \in Nat /\ l.used >= h.used /\ l.used < Total + PtrSize
          /\ l.addr # NULL => l.used = h.used + n + PtrSize
          /\ l.addr = NULL => l.used = h.used /\ Total - h.used <= n
      BY <1>0, <1>1, BrkFacts
    <2>2. /\ d.used \in Nat /\ d.addr \in Nat /\ d.used >= l.used
          /\ d.used < Total + PtrSize
          /\ d.addr # NULL => /\ d.addr = Start + d.used
                              /\ d.used = l.used + n + PtrSize
                              /\ Total - l.used > n
          /\ d.addr = NULL => d.used = l.used /\ Total - l.used <= n
      BY <1>0, <2>1, BrkFacts
    <2>3. used' = d.used /\ Link(h.addr, n, d.addr) /\ Hand(d.addr, n, n)
      BY <1>3 DEF MallocNew
    <2> HIDE DEF l, d, h
    <2>4. d.addr # NULL => ~(d.addr <= Start + used)
      BY <1>0, <1>1, <2>1, <2>2, <2>3
    <2>5. h.addr # NULL /\ d.addr # NULL => ~Tight(used)
      BY <1>0, <1>1, <2>1, <2>2, <2>3 DEF Tight
    <2>6. h.addr # NULL /\ d.addr = NULL => Tight(used')
      BY <1>0, <1>1, <2>1, <2>2, <2>3 DEF Tight
    <2>7. d.addr \in 0 .. (Start + Total + PtrSize)
      BY <1>0, <1>1, <2>1, <2>2 DEF NULL
    <2>8. Tight(used) => Tight(used')
      BY <1>0, <1>1, <2>1, <2>2, <2>3 DEF Tight
    <2>9. used' \in Nat /\ used' >= used
      BY <1>0, <1>1, <2>1, <2>2, <2>3
    <2> QED BY <1>1, <1>f, <1>g, <1>s, <2>2, <2>3, <2>4, <2>5, <2>6, <2>7, <2>8, <2>9
  <1> QED BY <1>2, <1>3
-----------------------------------------------------------------------------
(* No two held regions begin at the same address. *)
HeldUnique == \A r, s \in held : r.addr = s.addr => r = s

IInv ==
    /\ TypeOK /\ UsedBounded /\ ListInAddressOrder /\ Spaced
    /\ FreeIsUnheld /\ HeldIsInUse /\ HeldUnique /\ NullTail

(* Payloads are refused only behind the last one that was granted. *)
LEMMA NullTailGrows ==
    ASSUME ShortRequests, IInv,
           NEW n \in Sizes, MallocHead(n) \/ MallocNew(n)
    PROVE  NullTail'
  <1>0. DOMAIN blocks = 1 .. Len(blocks) /\ Len(blocks) \in Nat
    BY DEF IInv, TypeOK
  <1>1. PICK h \in Nat, d \in Nat :
           /\ Link(h, n, d)
           /\ h # NULL /\ d # NULL => ~Tight(used)
           /\ h # NULL /\ d = NULL => Tight(used')
           /\ Tight(used) => Tight(used')
    BY ShortMallocAnswers DEF IInv
  <1>2. CASE h = NULL
    <2>1. blocks' = blocks
      BY <1>1, <1>2 DEF Link
    <2> QED BY <1>1, <2>1 DEF IInv, NullTail
  <1>3. CASE h # NULL
    <2> DEFINE b == [hdr |-> h, size |-> n, free |-> FALSE, data |-> d]
    <2>1. blocks' = Append(blocks, b)
      BY <1>1, <1>3 DEF Link
    <2>2. /\ DOMAIN blocks' = 1 .. Len(blocks) + 1
          /\ \A i \in DOMAIN blocks : blocks'[i] = blocks[i]
          /\ blocks'[Len(blocks) + 1].data = d
      BY <2>1 DEF IInv, TypeOK
    <2> HIDE DEF b
    <2>3. CASE d # NULL
      <3>1. \A i \in DOMAIN blocks : blocks[i].data # NULL
        BY <1>1, <1>3, <2>3 DEF IInv, NullTail
      <3>2. \A i \in DOMAIN blocks' : blocks'[i].data # NULL
        BY <1>0, <2>2, <2>3, <3>1
      <3> QED BY <3>2 DEF NullTail
    <2>4. CASE d = NULL
      <3>1. Tight(used')
        BY <1>1, <1>3, <2>4
      <3>2. ASSUME NEW i \in DOMAIN blocks', NEW j \in DOMAIN blocks', i < j,
                   blocks'[i].data = NULL
            PROVE  blocks'[j].data = NULL
        <4>1. i \in DOMAIN blocks
          BY <1>0, <2>2, <3>2
        <4>2. CASE j \in DOMAIN blocks
          BY <2>2, <3>2, <4>1, <4>2 DEF IInv, NullTail
        <4>3. CASE j = Len(blocks) + 1
          BY <2>2, <2>4, <4>3
        <4> QED BY <1>0, <2>2, <4>2, <4>3
      <3> QED BY <3>1, <3>2 DEF NullTail
    <2> QED BY <2>3, <2>4
  <1> QED BY <1>2, <1>3

LEMMA HeldUniqueStep ==
    ASSUME IInv, [Next]_vars PROVE HeldUnique'
  <1>0. /\ Start \in Nat /\ used \in Nat
        /\ \A r \in held : r.addr \in Nat /\ r.addr <= Start + used
    BY HeapAssumption DEF IInv, TypeOK, Region, FreeIsUnheld
  <1>1. ASSUME NEW n \in Sizes, MallocHead(n) \/ MallocNew(n) PROVE HeldUnique'
    <2>1. PICK d \in Nat : Hand(d, n, n) /\ (d # NULL => d > Start + used)
      BY <1>1, MallocAnswers DEF IInv
    <2>2. d # NULL => \A r \in held : r.addr # d
      BY <1>0, <2>1
    <2> DEFINE s == [addr |-> d, len |-> n]
    <2>3. held' = IF d = NULL THEN held ELSE held \cup {s}
      BY <2>1 DEF Hand
    <2>4. s.addr = d
      OBVIOUS
    <2> HIDE DEF s
    <2> QED BY <2>2, <2>3, <2>4 DEF IInv, HeldUnique
  <1>2. ASSUME NEW n \in Sizes, MallocReuse(n) PROVE HeldUnique'
    <2>1. PICK i \in DOMAIN blocks :
             blocks[i].free /\ Hand(blocks[i].data, n, blocks[i].size)
      BY <1>2 DEF MallocReuse, IsWorst, Fits
    <2>2. \A r \in held : r.addr # blocks[i].data
      BY <2>1 DEF IInv, FreeIsUnheld
    <2> DEFINE s == [addr |-> blocks[i].data, len |-> blocks[i].size]
    <2>3. held' = IF blocks[i].data = NULL THEN held ELSE held \cup {s}
      BY <2>1 DEF Hand
    <2>4. s.addr = blocks[i].data
      OBVIOUS
    <2> HIDE DEF s
    <2> QED BY <2>2, <2>3, <2>4 DEF IInv, HeldUnique
  <1>3. CASE \/ UNCHANGED vars
             \/ \E n \in Sizes : MallocRefuse(n)
             \/ \E p \in Nat : Free(p)
             \/ \E r \in held : Store(r)
    <2>1. held' \subseteq held
      BY <1>3 DEF vars, MallocRefuse, Free, Store
    <2> QED BY <2>1 DEF IInv, HeldUnique
  <1> QED BY <1>1, <1>2, <1>3, NextCases DEF IInv

LEMMA InvStep ==
    ASSUME ShortRequests, IInv, [Next]_vars
    PROVE  IInv'
  <1>1. TypeOK' /\ UsedBounded' /\ (SameShape \/ Grows)
    BY StepShape DEF IInv
  <1>2. ListInAddressOrder' /\ Spaced'
    BY <1>1, OrderStep, SpacedStep DEF IInv
  <1>3. FreeIsUnheld' /\ HeldIsInUse' /\ HeldUnique'
    BY FreeIsUnheldStep, HeldStep, HeldUniqueStep DEF IInv
  <1>4. ASSUME NEW n \in Sizes, MallocHead(n) \/ MallocNew(n)
        PROVE  NullTail'
    BY <1>4, NullTailGrows
  <1>5. ASSUME \/ \E n \in Sizes : MallocRefuse(n) \/ MallocReuse(n)
               \/ \E p \in Nat : Free(p)
               \/ \E r \in held : Store(r)
               \/ UNCHANGED vars
        PROVE  NullTail'
    <2>0. wild' \in BOOLEAN
      BY <1>1 DEF TypeOK
    <2>1. SameShape
      BY <1>5, <2>0, OthersKeepShape DEF IInv
    <2>2. DOMAIN blocks' = DOMAIN blocks
      BY <1>1, <2>1 DEF SameShape, IInv, TypeOK
    <2> QED BY <2>1, <2>2 DEF SameShape, NullTail, IInv
  <1>6. NullTail'
    BY <1>4, <1>5, NextCases DEF IInv
  <1> QED BY <1>1, <1>2, <1>3, <1>6 DEF IInv
-----------------------------------------------------------------------------
(* What the mapping's sets hold. *)
Tracked == Payloads(FALSE, DOMAIN blocks \ spoilt)

LEMMA InPayloads ==
    ASSUME NEW r, IInv
    PROVE  /\ r \in Released <=>
                \E i \in DOMAIN blocks : /\ blocks[i].free
                                         /\ blocks[i].data # NULL
                                         /\ r = PayloadOf(blocks[i])
           /\ r \in Tracked <=>
                \E i \in DOMAIN blocks \ spoilt : /\ ~blocks[i].free
                                                  /\ blocks[i].data # NULL
                                                  /\ r = PayloadOf(blocks[i])
  <1>1. \A i \in DOMAIN blocks : blocks[i].free \in BOOLEAN
    BY BlockFields DEF IInv, TypeOK
  <1> QED BY <1>1 DEF Released, Tracked, Payloads

(* A region the allocator still knows has one block. *)
LEMMA OneBlockPerRegion ==
    ASSUME IInv, NEW i \in DOMAIN blocks, NEW j \in DOMAIN blocks,
           PayloadOf(blocks[i]) = PayloadOf(blocks[j]), blocks[i].data # NULL
    PROVE  i = j
  <1>1. blocks[i].data = blocks[j].data
    BY DEF PayloadOf
  <1> QED BY <1>1, OneBlockPerAddress DEF IInv

(* Every address in a list or a caller's hand is one the break has passed. *)
LEMMA FreshAddress ==
    ASSUME IInv, NEW d \in Nat, d > Start + used
    PROVE  /\ \A i \in DOMAIN blocks : blocks[i].data # d
           /\ \A r \in held : r.addr # d
           /\ \A r \in Released \cup Tracked : r.addr # d
  <1>1. /\ Start \in Nat /\ used \in Nat
        /\ \A r \in held : r.addr \in Nat /\ r.addr <= Start + used
    BY HeapAssumption DEF IInv, TypeOK, Region, FreeIsUnheld
  <1>2. \A i \in DOMAIN blocks : blocks[i].data \in Nat /\ blocks[i].data <= Start + used
    BY BlockFields DEF IInv, TypeOK, ListInAddressOrder
  <1>3. \A i \in DOMAIN blocks : blocks[i].data # d
    BY <1>1, <1>2
  <1>4. \A r \in Released \cup Tracked : \E i \in DOMAIN blocks : r.addr = blocks[i].data
    BY DEF Released, Tracked, Payloads, PayloadOf
  <1> QED BY <1>1, <1>3, <1>4

(* A linked block changes no region that callers gave back, and adds its   *)
(* own payload to those in use.                                            *)
LEMMA LinkMaps ==
    ASSUME IInv, IInv', NEW n \in Sizes, NEW h \in Nat, NEW d \in Nat,
           Link(h, n, d), spoilt' = spoilt
    PROVE  /\ Released' = Released
           /\ h = NULL \/ d = NULL => Tracked' = Tracked
           /\ h # NULL /\ d # NULL =>
                /\ Tracked' = Tracked \cup {[addr |-> d, len |-> n]}
                /\ \A i \in DOMAIN blocks : i \in DOMAIN blocks' /\ blocks'[i] = blocks[i]
                /\ \E k \in DOMAIN blocks' :
                      /\ k \notin DOMAIN blocks
                      /\ blocks'[k].data = d
                      /\ blocks'[k].size = n
  <1>0. /\ blocks \in Seq(Block) /\ spoilt \subseteq DOMAIN blocks
        /\ DOMAIN blocks = 1 .. Len(blocks) /\ Len(blocks) \in Nat
    BY DEF IInv, TypeOK
  <1>1. CASE h = NULL
    <2>1. blocks' = blocks
      BY <1>1 DEF Link
    <2> QED BY <1>1, <2>1 DEF Released, Tracked, Payloads
  <1>2. CASE h # NULL
    <2> DEFINE b == [hdr |-> h, size |-> n, free |-> FALSE, data |-> d]
               k == Len(blocks) + 1
    <2>1. blocks' = Append(blocks, b)
      BY <1>2 DEF Link
    <2>2. /\ DOMAIN blocks' = DOMAIN blocks \cup {k} /\ k \notin DOMAIN blocks
          /\ \A i \in DOMAIN blocks : blocks'[i] = blocks[i]
          /\ blocks'[k] = b
      BY <1>0, <2>1
    <2>3. /\ b.data = d /\ b.size = n /\ b.free = FALSE
          /\ PayloadOf(b) = [addr |-> d, len |-> n]
      BY DEF PayloadOf
    <2>4. k \notin spoilt
      BY <1>0, <2>2
    <2> HIDE DEF b, k
    <2>5. ASSUME NEW r PROVE r \in Released' <=> r \in Released
      <3>1. r \in Released' <=>
              \E i \in DOMAIN blocks' : /\ blocks'[i].free = TRUE
                                        /\ blocks'[i].data # NULL
                                        /\ r = PayloadOf(blocks'[i])
        BY DEF Released, Payloads
      <3>2. r \in Released <=>
              \E i \in DOMAIN blocks : /\ blocks[i].free = TRUE
                                       /\ blocks[i].data # NULL
                                       /\ r = PayloadOf(blocks[i])
        BY DEF Released, Payloads
      <3> QED BY <2>2, <2>3, <3>1, <3>2
    <2>6. ASSUME NEW r
          PROVE  r \in Tracked' <=> \/ r \in Tracked
                                    \/ d # NULL /\ r = PayloadOf(b)
      <3>1. r \in Tracked' <=>
              \E i \in DOMAIN blocks' \ spoilt : /\ blocks'[i].free = FALSE
                                                 /\ blocks'[i].data # NULL
                                                 /\ r = PayloadOf(blocks'[i])
        BY DEF Tracked, Payloads
      <3>2. r \in Tracked <=>
              \E i \in DOMAIN blocks \ spoilt : /\ blocks[i].free = FALSE
                                                /\ blocks[i].data # NULL
                                                /\ r = PayloadOf(blocks[i])
        BY DEF Tracked, Payloads
      <3>3. r \in Tracked' <=>
              \/ \E i \in DOMAIN blocks \ spoilt : /\ blocks[i].free = FALSE
                                                   /\ blocks[i].data # NULL
                                                   /\ r = PayloadOf(blocks[i])
              \/ /\ b.free = FALSE
                 /\ b.data # NULL
                 /\ r = PayloadOf(b)
        BY <2>2, <2>4, <3>1
      <3> QED BY <2>3, <3>2, <3>3
    <2>7. Released' = Released
      BY <2>5
    <2>8. d = NULL => Tracked' = Tracked
      BY <2>6
    <2>9. d # NULL => Tracked' = Tracked \cup {[addr |-> d, len |-> n]}
      BY <2>3, <2>6
    <2> QED BY <1>2, <2>2, <2>3, <2>7, <2>8, <2>9
  <1> QED BY <1>1, <1>2

(* A block that gets a header lies apart from every region known before. *)
LEMMA NewIsApart ==
    ASSUME ShortRequests, IInv, IInv', NoOverlap', ~Full,
           NEW n \in Sizes, NEW d \in Nat, d # NULL,
           \A i \in DOMAIN blocks : i \in DOMAIN blocks' /\ blocks'[i] = blocks[i],
           NEW k \in DOMAIN blocks', k \notin DOMAIN blocks,
           blocks'[k].data = d, blocks'[k].size = n,
           NEW s \in held \cup Released
    PROVE  Disjoint([addr |-> d, len |-> n], s)
  <1>1. PICK i \in DOMAIN blocks : PayloadOf(blocks[i]) = s /\ blocks[i].data # NULL
    <2>1. CASE s \in held
      <3>1. s.addr # NULL
        BY <2>1 DEF IInv, FreeIsUnheld
      <3>2. PICK i \in DOMAIN blocks : PayloadOf(blocks[i]) = s
        BY <2>1 DEF IInv, HeldIsInUse
      <3> QED BY <3>1, <3>2 DEF PayloadOf
    <2>2. CASE s \in Released
      BY <2>2, InPayloads
    <2> QED BY <2>1, <2>2
  <1>2. blocks[i].size \in Sizes /\ blocks[i].size \in Nat /\ n \in Int
    BY BlockFields, HeapAssumption DEF IInv, TypeOK
  <1>3. ~(blocks'[i].size > HeaderSize + PtrSize) /\ ~(blocks'[k].size > HeaderSize + PtrSize)
    <2>1. /\ blocks[i].size <= HeaderSize + PtrSize /\ n <= HeaderSize + PtrSize
          /\ HeaderSize \in Nat /\ PtrSize \in Nat
      BY <1>2, HeapAssumption DEF ShortRequests
    <2>2. ~(blocks[i].size > HeaderSize + PtrSize) /\ ~(n > HeaderSize + PtrSize)
      BY <1>2, <2>1
    <2>3. blocks'[i].size = blocks[i].size
      BY <1>1
    <2> QED BY <2>2, <2>3
  <1>4. i # k /\ i \in DOMAIN blocks' /\ blocks'[i] = blocks[i]
    BY <1>1
  <1>5. Disjoint(PayloadOf(blocks'[i]), PayloadOf(blocks'[k]))
    BY <1>1, <1>3, <1>4 DEF NoOverlap, ReachesNext
  <1>6. PayloadOf(blocks'[k]) = [addr |-> d, len |-> n] /\ PayloadOf(blocks'[i]) = s
    BY <1>1, <1>4 DEF PayloadOf
  <1> QED BY <1>5, <1>6 DEF Disjoint

(* malloc with a new block is Grow, or Refuse where there is no payload. *)
LEMMA MallocMaps ==
    ASSUME ShortRequests, IInv, IInv', NoOverlap',
           NEW n \in Sizes, MallocHead(n) \/ MallocNew(n)
    PROVE  Alloc!Next
  <1>0. n \in Int /\ blocks \in Seq(Block)
    BY HeapAssumption DEF IInv, TypeOK
  <1>1. PICK h \in Nat, d \in Nat :
           /\ Link(h, n, d)
           /\ Hand(d, n, n)
           /\ d \in 0 .. (Start + Total + PtrSize)
           /\ h = NULL <=> Full
           /\ d # NULL => ~(d <= Start + used)
           /\ Full => Full'
           /\ spoilt' = spoilt
    BY ShortMallocAnswers DEF IInv
  <1>2. /\ Released' = Released
        /\ h = NULL \/ d = NULL => Tracked' = Tracked
        /\ h # NULL /\ d # NULL =>
             /\ Tracked' = Tracked \cup {[addr |-> d, len |-> n]}
             /\ \A i \in DOMAIN blocks : i \in DOMAIN blocks' /\ blocks'[i] = blocks[i]
             /\ \E k \in DOMAIN blocks' :
                   /\ k \notin DOMAIN blocks
                   /\ blocks'[k].data = d
                   /\ blocks'[k].size = n
    BY <1>1, LinkMaps
  <1>3. Full' \in BOOLEAN
    BY DEF Full
  <1>4. Alloc!MayFill
    BY <1>1, <1>3 DEF Alloc!MayFill
  <1>5. Lost = held \ Tracked /\ Lost' = held' \ Tracked'
    BY DEF Lost, Tracked
  <1>7. CASE d = NULL
    <2>1. held' = held /\ reply' = [n |-> n, addr |-> NULL]
      BY <1>1, <1>7 DEF Hand
    <2>2. \A r \in Released : r.len < n
      <3> SUFFICES ASSUME NEW i \in DOMAIN blocks, blocks[i].free
                   PROVE  blocks[i].size < n
        BY InPayloads DEF PayloadOf
      <3>1. blocks # <<>>
        BY <1>0
      <3>2. i \notin Fits(n)
        BY <3>1 DEF MallocHead, MallocNew
      <3>3. blocks[i].size \in Nat
        BY <1>0, BlockFields
      <3> QED BY <1>0, <3>2, <3>3 DEF Fits
    <2>3. Lost' = Lost
      BY <1>2, <1>5, <1>7, <2>1
    <2>4. Alloc!Refuse(n)
      BY <1>2, <1>4, <2>1, <2>2, <2>3 DEF Alloc!Refuse, Alloc!NULL, NULL
    <2> QED BY <2>4 DEF Alloc!Next
  <1>8. CASE d # NULL
    <2> DEFINE r == [addr |-> d, len |-> n]
    <2>0. r.addr = d
      OBVIOUS
    <2>1. held' = held \cup {r} /\ reply' = [n |-> n, addr |-> d]
      BY <1>1, <1>8 DEF Hand
    <2>2. /\ Start + used \in Int /\ d > Start + used
      BY <1>1, <1>8, HeapAssumption DEF IInv, TypeOK
    <2>3. \A s \in held \cup Released \cup Tracked : s.addr # d
      BY <2>2, FreshAddress
    <2>4. r \notin held /\ r \notin Tracked
      BY <2>0, <2>3
    <2>5. Lost' = IF Full THEN Lost \cup {r} ELSE Lost
      <3>1. CASE Full
        <4>1. Tracked' = Tracked
          BY <1>1, <1>2, <3>1
        <4> QED BY <1>5, <2>1, <2>4, <3>1, <4>1
      <3>2. CASE ~Full
        <4>1. Tracked' = Tracked \cup {r}
          BY <1>1, <1>2, <1>8, <3>2
        <4> QED BY <1>5, <2>1, <2>4, <3>2, <4>1
      <3> QED BY <3>1, <3>2
    <2>6. ASSUME NEW s \in held \cup Released, ~Full PROVE Disjoint(r, s)
      <3>1. h # NULL
        BY <1>1, <2>6
      <3>2. PICK k \in DOMAIN blocks' :
               /\ k \notin DOMAIN blocks
               /\ blocks'[k].data = d
               /\ blocks'[k].size = n
        BY <1>2, <1>8, <3>1
      <3>3. \A i \in DOMAIN blocks : i \in DOMAIN blocks' /\ blocks'[i] = blocks[i]
        BY <1>2, <1>8, <3>1
      <3> QED BY <1>8, <2>6, <3>2, <3>3, NewIsApart
    <2>7. d \in (0 .. (Start + Total + PtrSize)) \ {NULL}
      BY <1>1, <1>8
    <2>8. /\ reply' = [n |-> n, addr |-> d]
          /\ \A s \in held \cup Released : s.addr # d /\ (Full \/ Alloc!Disjoint(r, s))
          /\ held' = held \cup {r}
          /\ Lost' = IF Full THEN Lost \cup {r} ELSE Lost
      BY <2>1, <2>3, <2>5, <2>6 DEF Alloc!Disjoint, Disjoint
    <2>9. Alloc!Grow(n)
      BY <1>2, <1>4, <2>7, <2>8 DEF Alloc!Grow, Alloc!NULL, NULL
    <2> QED BY <2>9 DEF Alloc!Next
  <1> QED BY <1>7, <1>8

(* Setting or clearing is_free moves a payload between the two sets. *)
LEMMA FlagMaps ==
    ASSUME IInv, NEW i \in DOMAIN blocks, NEW f \in BOOLEAN,
           blocks' = [blocks EXCEPT ![i].free = f], spoilt' = spoilt
    PROVE  \A r :
             /\ r \in Released' <=>
                  \E j \in DOMAIN blocks : /\ IF j = i THEN f ELSE blocks[j].free
                                           /\ blocks[j].data # NULL
                                           /\ r = PayloadOf(blocks[j])
             /\ r \in Tracked' <=>
                  \E j \in DOMAIN blocks \ spoilt :
                                           /\ IF j = i THEN ~f ELSE ~blocks[j].free
                                           /\ blocks[j].data # NULL
                                           /\ r = PayloadOf(blocks[j])
  <1>1. /\ DOMAIN blocks' = DOMAIN blocks
        /\ \A j \in DOMAIN blocks :
              /\ blocks'[j].data = blocks[j].data
              /\ blocks'[j].size = blocks[j].size
              /\ blocks'[j].free = IF j = i THEN f ELSE blocks[j].free
    BY SetFree DEF IInv, TypeOK
  <1>2. \A j \in DOMAIN blocks : /\ PayloadOf(blocks'[j]) = PayloadOf(blocks[j])
                                 /\ blocks[j].free \in BOOLEAN
    BY <1>1, BlockFields DEF PayloadOf, IInv, TypeOK
  <1> TAKE r
  <1>3. r \in Released' <=>
          \E j \in DOMAIN blocks' : /\ blocks'[j].free = TRUE
                                    /\ blocks'[j].data # NULL
                                    /\ r = PayloadOf(blocks'[j])
    BY DEF Released, Payloads
  <1>4. r \in Tracked' <=>
          \E j \in DOMAIN blocks' \ spoilt' : /\ blocks'[j].free = FALSE
                                              /\ blocks'[j].data # NULL
                                              /\ r = PayloadOf(blocks'[j])
    BY DEF Tracked, Payloads
  <1> QED BY <1>1, <1>2, <1>3, <1>4

(* A reused block is Reuse, or Refuse where it never had a payload. *)
LEMMA ReuseMaps ==
    ASSUME IInv, NEW n \in Sizes, MallocReuse(n) PROVE Alloc!Next
  <1>0. n \in Int /\ blocks \in Seq(Block)
    BY HeapAssumption DEF IInv, TypeOK
  <1>1. PICK i \in DOMAIN blocks :
           /\ IsWorst(i, n)
           /\ blocks' = [blocks EXCEPT ![i].free = FALSE]
           /\ Hand(blocks[i].data, n, blocks[i].size)
    BY DEF MallocReuse
  <1>2. used' = used /\ spoilt' = spoilt
    BY DEF MallocReuse
  <1>3. blocks[i].free /\ blocks[i].size >= n /\ i \notin spoilt
    BY <1>1 DEF IsWorst, Fits, IInv, HeldIsInUse
  <1>4. \A r :
          /\ r \in Released' <=>
               \E j \in DOMAIN blocks : /\ IF j = i THEN FALSE ELSE blocks[j].free
                                        /\ blocks[j].data # NULL
                                        /\ r = PayloadOf(blocks[j])
          /\ r \in Tracked' <=>
               \E j \in DOMAIN blocks \ spoilt :
                                        /\ IF j = i THEN ~FALSE ELSE ~blocks[j].free
                                        /\ blocks[j].data # NULL
                                        /\ r = PayloadOf(blocks[j])
    <2>1. FALSE \in BOOLEAN
      OBVIOUS
    <2> QED BY <1>1, <1>2, <2>1, FlagMaps
  <1>5. Full' = Full
    BY <1>2 DEF Full
  <1>6. Lost = held \ Tracked /\ Lost' = held' \ Tracked'
    BY DEF Lost, Tracked
  <1>7. CASE blocks[i].data = NULL
    <2>1. held' = held /\ reply' = [n |-> n, addr |-> NULL]
      BY <1>1, <1>7 DEF Hand
    <2>2. Released' = Released /\ Tracked' = Tracked
      <3>1. \A r : r \in Released' <=> r \in Released
        BY <1>4, <1>7, InPayloads
      <3>2. \A r : r \in Tracked' <=> r \in Tracked
        BY <1>4, <1>7, InPayloads
      <3> QED BY <3>1, <3>2
    <2>3. \A r \in Released : r.len < n
      <3> SUFFICES ASSUME NEW j \in DOMAIN blocks, blocks[j].free,
                          blocks[j].data # NULL
                   PROVE  blocks[j].size < n
        BY InPayloads DEF PayloadOf
      <3>1. ~(i < j)
        BY <1>7 DEF IInv, NullTail
      <3>2. i # j
        BY <1>7
      <3>3. ~(i <= j) /\ blocks[j].size \in Nat
        BY <1>0, <3>1, <3>2, BlockFields
      <3>4. j \notin Fits(n)
        BY <1>1, <3>3 DEF IsWorst
      <3> QED BY <1>0, <3>3, <3>4 DEF Fits
    <2>4. Lost' = Lost
      BY <1>6, <2>1, <2>2
    <2>5. Alloc!MayFill
      BY <1>5 DEF Alloc!MayFill, Full
    <2>6. Alloc!Refuse(n)
      BY <2>1, <2>2, <2>3, <2>4, <2>5 DEF Alloc!Refuse, Alloc!NULL, NULL
    <2> QED BY <2>6 DEF Alloc!Next
  <1>8. CASE blocks[i].data # NULL
    <2> DEFINE r == PayloadOf(blocks[i])
    <2>0. r.addr = blocks[i].data /\ r.len = blocks[i].size
      BY DEF PayloadOf
    <2>1. held' = held \cup {r} /\ reply' = [n |-> n, addr |-> r.addr]
      BY <1>1, <1>8 DEF Hand, PayloadOf
    <2>2. r \in Released /\ r.len >= n
      BY <1>3, <1>8, <2>0, InPayloads
    <2>3. \A j \in DOMAIN blocks : PayloadOf(blocks[j]) = r => j = i
      BY <1>8, OneBlockPerRegion
    <2>4. r \notin held
      BY <1>3, <2>0 DEF IInv, FreeIsUnheld
    <2>5. r = PayloadOf(blocks[i])
      OBVIOUS
    <2> HIDE DEF r
    <2>6. Released' = Released \ {r}
      <3>1. \A s : s \in Released' <=> s \in Released /\ s # r
        BY <1>3, <1>4, <2>3, <2>5, InPayloads
      <3> QED BY <3>1
    <2>7. Tracked' = Tracked \cup {r}
      <3>1. \A s : s \in Tracked' <=> s \in Tracked \/ s = r
        BY <1>3, <1>4, <1>8, <2>5, InPayloads
      <3> QED BY <3>1
    <2>8. Lost' = Lost
      BY <1>6, <2>1, <2>4, <2>7
    <2>9. Alloc!Reuse(n)
      BY <1>5, <2>1, <2>2, <2>6, <2>8 DEF Alloc!Reuse
    <2> QED BY <2>9 DEF Alloc!Next
  <1> QED BY <1>7, <1>8

(* Freeing what a caller holds gives its region back, unless it is lost. *)
LEMMA FreeMaps ==
    ASSUME IInv, NEW r \in held, Free(r.addr) PROVE Alloc!Next
  <1>1. /\ held' = {s \in held : s.addr # r.addr}
        /\ reply' = NoReply
        /\ used' = used /\ spoilt' = spoilt
    BY DEF Free
  <1>2. held' = held \ {r}
    BY <1>1 DEF IInv, HeldUnique
  <1>3. Full' = Full
    BY <1>1 DEF Full
  <1>4. Lost = held \ Tracked /\ Lost' = held' \ Tracked'
    BY DEF Lost, Tracked
  <1>5. r.addr # NULL
    BY DEF IInv, FreeIsUnheld
  <1>6. CASE blocks' = blocks /\ \A i \in DOMAIN blocks \ spoilt : blocks[i].data # r.addr
    <2>1. Released' = Released /\ Tracked' = Tracked
      BY <1>1, <1>6 DEF Released, Tracked, Payloads
    <2>2. r \notin Tracked
      BY <1>6, InPayloads DEF PayloadOf
    <2>3. r \in Lost /\ Lost' = Lost \ {r}
      BY <1>2, <1>4, <2>1, <2>2
    <2>4. Alloc!Free(r)
      BY <1>1, <1>2, <1>3, <2>1, <2>3
         DEF Alloc!Free, Alloc!NoReply, NoReply, Alloc!NULL, NULL
    <2> QED BY <2>4 DEF Alloc!Next
  <1>7. ASSUME NEW i \in DOMAIN blocks \ spoilt, blocks[i].data = r.addr,
               blocks' = [blocks EXCEPT ![i].free = TRUE]
        PROVE  Alloc!Next
    <2>1. ~blocks[i].free /\ blocks[i].data # NULL
      BY <1>5, <1>7 DEF IInv, FreeIsUnheld
    <2>2. PayloadOf(blocks[i]) = r
      <3>1. PayloadOf(blocks[i]) \in held
        BY <1>7, <2>1 DEF IInv, HeldIsInUse
      <3>2. PayloadOf(blocks[i]).addr = r.addr
        BY <1>7 DEF PayloadOf
      <3> QED BY <3>1, <3>2 DEF IInv, HeldUnique
    <2>3. \A j \in DOMAIN blocks : PayloadOf(blocks[j]) = r => j = i
      BY <2>1, <2>2, OneBlockPerRegion
    <2>4. \A s :
            /\ s \in Released' <=>
                 \E j \in DOMAIN blocks : /\ IF j = i THEN TRUE ELSE blocks[j].free
                                          /\ blocks[j].data # NULL
                                          /\ s = PayloadOf(blocks[j])
            /\ s \in Tracked' <=>
                 \E j \in DOMAIN blocks \ spoilt :
                                          /\ IF j = i THEN ~TRUE ELSE ~blocks[j].free
                                          /\ blocks[j].data # NULL
                                          /\ s = PayloadOf(blocks[j])
      <3>1. TRUE \in BOOLEAN /\ i \in DOMAIN blocks
        OBVIOUS
      <3> QED BY <1>1, <1>7, <3>1, FlagMaps
    <2>5. Released' = Released \cup {r}
      <3>1. \A s : s \in Released' <=> s \in Released \/ s = r
        BY <2>1, <2>2, <2>4, InPayloads
      <3> QED BY <3>1
    <2>6. Tracked' = Tracked \ {r} /\ r \in Tracked
      <3>1. \A s : s \in Tracked' <=> s \in Tracked /\ s # r
        BY <2>1, <2>2, <2>3, <2>4, InPayloads
      <3>2. r \in Tracked
        BY <1>7, <2>1, <2>2, InPayloads
      <3> QED BY <3>1, <3>2
    <2>7. r \notin Lost /\ Lost' = Lost \ {r}
      BY <1>2, <1>4, <2>6
    <2>8. Alloc!Free(r)
      BY <1>1, <1>2, <1>3, <2>5, <2>7
         DEF Alloc!Free, Alloc!NoReply, NoReply, Alloc!NULL, NULL
    <2> QED BY <2>8 DEF Alloc!Next
  <1> QED BY <1>6, <1>7 DEF Free

(* free(NULL) may mark a block, but only one without a payload. *)
LEMMA FreeNullMaps ==
    ASSUME IInv, Free(NULL) PROVE Alloc!Next
  <1>1. \A r \in held : r.addr # NULL
    BY DEF IInv, FreeIsUnheld
  <1>2. held' = held /\ reply' = NoReply /\ used' = used /\ spoilt' = spoilt
    BY <1>1 DEF Free
  <1>3. Lost = held \ Tracked /\ Lost' = held' \ Tracked'
    BY DEF Lost, Tracked
  <1>4. ASSUME Released' = Released, Tracked' = Tracked PROVE Alloc!Next
    <2>1. Lost' = Lost /\ Full' = Full
      BY <1>2, <1>3, <1>4 DEF Full
    <2> QED BY <1>2, <1>4, <2>1
            DEF Alloc!Next, Alloc!FreeNothing, Alloc!NoReply, NoReply,
                Alloc!NULL, NULL
  <1>5. CASE blocks' = blocks
    <2>1. Released' = Released /\ Tracked' = Tracked
      BY <1>2, <1>5 DEF Released, Tracked, Payloads
    <2> QED BY <1>4, <2>1
  <1>6. ASSUME NEW i \in DOMAIN blocks, blocks[i].data = NULL,
               blocks' = [blocks EXCEPT ![i].free = TRUE]
        PROVE  Alloc!Next
    <2>1. \A s :
            /\ s \in Released' <=>
                 \E j \in DOMAIN blocks : /\ IF j = i THEN TRUE ELSE blocks[j].free
                                          /\ blocks[j].data # NULL
                                          /\ s = PayloadOf(blocks[j])
            /\ s \in Tracked' <=>
                 \E j \in DOMAIN blocks \ spoilt :
                                          /\ IF j = i THEN ~TRUE ELSE ~blocks[j].free
                                          /\ blocks[j].data # NULL
                                          /\ s = PayloadOf(blocks[j])
      <3>1. TRUE \in BOOLEAN
        OBVIOUS
      <3> QED BY <1>2, <1>6, <3>1, FlagMaps
    <2>2. Released' = Released
      <3>1. \A s : s \in Released' <=> s \in Released
        BY <1>6, <2>1, InPayloads
      <3> QED BY <3>1
    <2>3. Tracked' = Tracked
      <3>1. \A s : s \in Tracked' <=> s \in Tracked
        BY <1>6, <2>1, InPayloads
      <3> QED BY <3>1
    <2> QED BY <1>4, <2>2, <2>3
  <1> QED BY <1>5, <1>6 DEF Free

(* What a caller stores changes nothing for the others: at most the        *)
(* allocator loses the caller's own region, if it is a short one.          *)
LEMMA StoreMaps ==
    ASSUME IInv, NEW r \in held, Store(r)
    PROVE  Alloc!Next \/ UNCHANGED Alloc!vars
  <1> DEFINE X == {i \in DOMAIN blocks : /\ ~Disjoint(r, DataOf(blocks[i]))
                                         /\ PayloadOf(blocks[i]) = r}
  <1>1. /\ spoilt' = spoilt \cup X
        /\ used' = used /\ blocks' = blocks /\ held' = held /\ reply' = reply
    BY DEF Store
  <1>2. \A i \in X : /\ i \in DOMAIN blocks
                     /\ ~Disjoint(r, DataOf(blocks[i]))
                     /\ PayloadOf(blocks[i]) = r
    OBVIOUS
  <1>3. Lost = held \ Tracked /\ Lost' = held' \ Tracked'
    BY DEF Lost, Tracked
  <1>4. Released' = Released /\ Full' = Full
    BY <1>1 DEF Released, Payloads, Full
  <1> HIDE DEF X
  <1>5. CASE X = {}
    <2>1. spoilt' = spoilt
      BY <1>1, <1>5
    <2>2. Tracked' = Tracked
      BY <1>1, <2>1 DEF Tracked, Payloads
    <2>3. Lost' = Lost
      BY <1>1, <1>3, <2>2
    <2> QED BY <1>1, <1>4, <2>3 DEF Alloc!vars
  <1>6. ASSUME NEW i \in X PROVE Alloc!Next
    <2>0. /\ i \in DOMAIN blocks /\ PayloadOf(blocks[i]) = r
          /\ ~Disjoint(r, DataOf(blocks[i])) /\ r.addr # NULL
      BY <1>2, <1>6 DEF IInv, FreeIsUnheld
    <2>1. r.addr = blocks[i].data /\ r.len = blocks[i].size /\ blocks[i].data # NULL
      BY <2>0 DEF PayloadOf
    <2>2. /\ blocks[i].hdr \in Nat /\ blocks[i].data \in Nat /\ blocks[i].size \in Nat
          /\ blocks[i].data >= blocks[i].hdr + blocks[i].size + PtrSize
      BY <2>0, <2>1, BlockFields DEF IInv, TypeOK, Spaced
    <2>3. r.len < HeaderSize - PtrSize
      <3>1. blocks[i].data < blocks[i].hdr + HeaderSize
        BY <2>0, <2>1, <2>2, HeapAssumption DEF Disjoint, DataOf
      <3> QED BY <2>1, <2>2, <3>1, HeapAssumption
    <2>4. \A j \in DOMAIN blocks : PayloadOf(blocks[j]) = r => j = i
      BY <2>0, <2>1, OneBlockPerRegion
    <2>5. X = {i}
      BY <1>2, <1>6, <2>4
    <2>6. \A s : s \in Tracked' <=>
                   \E j \in DOMAIN blocks \ (spoilt \cup {i}) :
                      /\ blocks[j].free = FALSE
                      /\ blocks[j].data # NULL
                      /\ s = PayloadOf(blocks[j])
      BY <1>1, <2>5 DEF Tracked, Payloads
    <2>7. \A s : s \in Tracked <=>
                   \E j \in DOMAIN blocks \ spoilt :
                      /\ blocks[j].free = FALSE
                      /\ blocks[j].data # NULL
                      /\ s = PayloadOf(blocks[j])
      BY DEF Tracked, Payloads
    <2>8. Tracked' = Tracked \ {r}
      <3>1. \A s : s \in Tracked' <=> s \in Tracked /\ s # r
        BY <2>0, <2>4, <2>6, <2>7
      <3> QED BY <3>1
    <2>9. Lost' = Lost \cup {r}
      BY <1>1, <1>3, <2>8
    <2>10. Alloc!Lose(r)
      BY <1>1, <1>4, <2>3, <2>9 DEF Alloc!Lose
    <2> QED BY <2>10 DEF Alloc!Next
  <1> QED BY <1>5, <1>6

(* The kernel heap, with what its callers store in it, is the allocator of *)
(* AllocSpec: what it hands out is apart from what others hold until it is *)
(* full, what is given back can be handed out again unless its own caller  *)
(* made the heap lose it, and it refuses only when nothing given back      *)
(* would do.  Sizes are unsigned in the callers: none is negative.         *)
THEOREM HeapRefines ==
    ASSUME ShortRequests, Sizes \subseteq Nat
    PROVE  Spec => HeapImplementsAllocSpec
  <1>1. Init => IInv /\ Alloc!Init
    <2> SUFFICES ASSUME Init PROVE IInv /\ Alloc!Init
      OBVIOUS
    <2>1. TypeOK /\ UsedBounded
      BY InitTypes
    <2>2. ListInAddressOrder /\ Spaced /\ NullTail
      BY DEF Init, ListInAddressOrder, Spaced, NullTail
    <2>3. HeldIsInUse /\ FreeIsUnheld /\ HeldUnique
      BY DEF Init, HeldIsInUse, FreeIsUnheld, HeldUnique
    <2>4. Released = {} /\ Lost = {} /\ Full \in BOOLEAN
      BY DEF Init, Released, Lost, Payloads, Full
    <2>5. Alloc!Init
      BY <2>4 DEF Init, Alloc!Init, Alloc!NoReply, NoReply, Alloc!NULL, NULL
    <2> QED BY <2>1, <2>2, <2>3, <2>5 DEF IInv
  <1>2. IInv /\ [Next]_vars => IInv'
    BY InvStep
  <1>3. IInv /\ IInv' /\ NoOverlap' /\ [Next]_vars => [Alloc!Next]_Alloc!vars
    <2> SUFFICES ASSUME IInv, IInv', NoOverlap', [Next]_vars
                 PROVE  Alloc!Next \/ UNCHANGED Alloc!vars
      OBVIOUS
    <2>1. ASSUME NEW n \in Sizes, MallocHead(n) \/ MallocNew(n)
          PROVE  Alloc!Next
      BY <2>1, MallocMaps
    <2>2. ASSUME NEW n \in Sizes, MallocReuse(n) PROVE Alloc!Next
      BY <2>2, ReuseMaps
    <2>3. ASSUME NEW n \in Sizes, MallocRefuse(n) PROVE Alloc!Next
      <3>1. n = 0 /\ UNCHANGED <<used, blocks, held, spoilt>>
        BY <2>3 DEF MallocRefuse
      <3>2. Released' = Released /\ Lost' = Lost /\ Full' = Full
        BY <3>1 DEF Released, Lost, Payloads, Full
      <3> QED
        BY <2>3, <3>1, <3>2 DEF MallocRefuse, Alloc!Next, Alloc!FreeNothing,
                                Alloc!NoReply, Alloc!NULL, NULL
    <2>4. ASSUME NEW r \in held, Free(r.addr) PROVE Alloc!Next
      BY <2>4, FreeMaps
    <2>5. CASE Free(NULL)
      BY <2>5, FreeNullMaps
    <2>6. ASSUME NEW r \in held, Store(r)
          PROVE  Alloc!Next \/ UNCHANGED Alloc!vars
      BY <2>6, StoreMaps
    <2>7. CASE UNCHANGED vars
      <3>1. Released' = Released /\ Lost' = Lost /\ Full' = Full
        BY <2>7 DEF vars, Released, Lost, Payloads, Full
      <3> QED BY <2>7, <3>1 DEF vars, Alloc!vars
    <2> QED BY <2>1, <2>2, <2>3, <2>4, <2>5, <2>6, <2>7 DEF Next, Calls
  <1> QED
    BY <1>1, <1>2, <1>3, PayloadsApart, PTL DEF Spec, HeapImplementsAllocSpec, Alloc!Spec
=============================================================================
