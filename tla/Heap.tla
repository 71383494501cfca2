-------------------------------- MODULE Heap --------------------------------
(***************************************************************************)
(* The kernel heap of src/memory.c: a break that only grows, and a list of *)
(* block headers in address order searched first fit.                      *)
(*                                                                         *)
(* kstd_mem_brk answers with the END of the bytes it reserves, so a header *)
(* and a payload both lie just past their own reservation; new_block and   *)
(* malloc each reserve the payload, so the first reservation of a new      *)
(* block is lost.  A payload of a few bytes, which is what the kernel asks *)
(* for (1, 2, 4 and the length of a file name), therefore lies over the    *)
(* header of its own block, and what its caller stores goes into __next or *)
(* __data: Store says which.                                               *)
(*                                                                         *)
(* Addresses are physical (the kernel runs without paging), so a header    *)
(* at NULL is written to address 0 and is not on the list.                 *)
(***************************************************************************)
EXTENDS Integers, Sequences, FiniteSets

CONSTANTS
    Start,       \* G_MEMORY_START_ADDR
    Total,       \* MEMORY_TOTAL_SIZE
    HeaderSize,  \* sizeof(MEMORY_BLOCK): 16 in the 32-bit build
    PtrSize,     \* sizeof(void *): 4
    Sizes        \* the sizes callers pass to kstd_mem_malloc

ASSUME HeapAssumption ==
    /\ Start \in Nat
    /\ Total \in Nat
    /\ PtrSize \in Nat \ {0}
    /\ HeaderSize \in Nat \ {0}
    /\ Sizes \subseteq Int

(* Below 2^31 the cast in (int) (TOTAL - USED) keeps the value. *)
ASSUME WidthAssumption == Total - 2^30 < 2^30

NULL == 0

VARIABLES
    used,    \* MEMORY_USED_SIZE
    blocks,  \* the list from MEM_HEAD along __next
    held,    \* regions that callers were given and have not freed
    reply,   \* the last request and its answer
    spoilt,  \* blocks whose __data their own caller has stored over; the
             \* field data goes on telling where the payload is
    wild     \* a store has reached another field of a header, or another
             \* block's: walks of the list go anywhere, and the model stops

vars == <<used, blocks, held, reply, spoilt, wild>>

Block == [hdr : Nat, size : {n \in Sizes : n > 0}, free : BOOLEAN, data : Nat]
Region == [addr : Nat, len : Nat]
NoReply == [n |-> 0, addr |-> NULL]
-----------------------------------------------------------------------------
(* Regions of memory. *)

Disjoint(r, s) == r.addr + r.len <= s.addr \/ s.addr + s.len <= r.addr

HeaderOf(b) == [addr |-> b.hdr, len |-> HeaderSize]
PayloadOf(b) == [addr |-> b.data, len |-> b.size]

(* The fields of MEMORY_BLOCK: size and is_free in front (with padding     *)
(* behind is_free), __next and __data at the end.                          *)
MetaOf(b) == [addr |-> b.hdr, len |-> PtrSize + 1]
NextOf(b) == [addr |-> b.hdr + HeaderSize - 2 * PtrSize, len |-> PtrSize]
DataOf(b) == [addr |-> b.hdr + HeaderSize - PtrSize, len |-> PtrSize]

(* No room for another header. *)
Full == Total - used <= HeaderSize
-----------------------------------------------------------------------------
(* Slips a change to this code could make; Spec uses none of them. *)
BrkChecksZero(u, n) ==
    IF n > 0 /\ Total - u > 0
    THEN [addr |-> Start + u + n + PtrSize, used |-> u + n + PtrSize]
    ELSE [addr |-> NULL, used |-> u]

BrkForgetsSize(u, n) ==
    IF n > 0 /\ Total - u > n
    THEN [addr |-> Start + u + n + PtrSize, used |-> u + PtrSize]
    ELSE [addr |-> NULL, used |-> u]

(* kstd_mem_brk when u bytes are used: the address and the new count. *)
Brk(u, n) ==
    IF n > 0 /\ Total - u > n
    THEN [addr |-> Start + u + n + PtrSize, used |-> u + n + PtrSize]
    ELSE [addr |-> NULL, used |-> u]

FitsAnySize(n) == {i \in DOMAIN blocks : blocks[i].free}

(* kstd_mem_worst: the first free block that is large enough. *)
Fits(n) == {i \in DOMAIN blocks : blocks[i].free /\ blocks[i].size >= n}
IsWorst(i, n) == i \in Fits(n) /\ \A j \in Fits(n) : i <= j

Hand(a, n, len) ==
    /\ held' = IF a = NULL THEN held ELSE held \cup {[addr |-> a, len |-> len]}
    /\ reply' = [n |-> n, addr |-> a]

LinkInFront(h, n, d) ==
    blocks' = IF h = NULL THEN blocks
              ELSE <<[hdr |-> h, size |-> n, free |-> FALSE, data |-> d]>>
                     \o blocks

LinkHeadOnly(h, n, d) ==
    blocks' = IF h = NULL \/ blocks # <<>> THEN blocks
              ELSE <<[hdr |-> h, size |-> n, free |-> FALSE, data |-> d]>>

(* A header of NULL is scratch memory: it never joins the list. *)
Link(h, n, d) ==
    blocks' = IF h = NULL THEN blocks
              ELSE Append(blocks,
                          [hdr |-> h, size |-> n, free |-> FALSE, data |-> d])

Init ==
    /\ used = 0
    /\ blocks = <<>>
    /\ held = {}
    /\ reply = NoReply
    /\ spoilt = {}
    /\ wild = FALSE

MallocRefuse(n) ==
    /\ n <= 0
    /\ reply' = [n |-> n, addr |-> NULL]
    /\ UNCHANGED <<used, blocks, held, spoilt>>

MallocHead(n) ==
    /\ n > 0
    /\ blocks = <<>>
    /\ LET h == Brk(used, HeaderSize)
           d == Brk(h.used, n)
       IN  /\ used' = d.used
           /\ Link(h.addr, n, d.addr)
           /\ Hand(d.addr, n, n)
    /\ spoilt' = spoilt

MallocReuseStaysFree(n) ==
    /\ n > 0
    /\ \E i \in DOMAIN blocks :
          IsWorst(i, n) /\ Hand(blocks[i].data, n, blocks[i].size)
    /\ UNCHANGED <<used, blocks, spoilt>>

MallocReuse(n) ==
    /\ n > 0
    /\ \E i \in DOMAIN blocks :
          /\ IsWorst(i, n)
          /\ blocks' = [blocks EXCEPT ![i].free = FALSE]
          /\ Hand(blocks[i].data, n, blocks[i].size)
    /\ UNCHANGED <<used, spoilt>>

(* kstd_mem_new_block reserves a header and a payload; kstd_mem_malloc then *)
(* reserves the payload again and keeps only the second address.            *)
MallocNew(n) ==
    /\ n > 0
    /\ blocks # <<>>
    /\ Fits(n) = {}
    /\ LET h == Brk(used, HeaderSize)
           lost == Brk(h.used, n)
           d == Brk(lost.used, n)
       IN  /\ used' = d.used
           /\ Link(h.addr, n, d.addr)
           /\ Hand(d.addr, n, n)
    /\ spoilt' = spoilt

(* kstd_mem_free: the first block whose __data is p, if any, becomes free. *)
Free(p) ==
    /\ LET Matches == {i \in DOMAIN blocks \ spoilt : blocks[i].data = p}
       IN  \/ /\ Matches = {}
              /\ blocks' = blocks
           \/ \E i \in Matches :
                /\ \A j \in Matches : i <= j
                /\ blocks' = [blocks EXCEPT ![i].free = TRUE]
    /\ held' = {r \in held : r.addr # p}
    /\ reply' = NoReply
    /\ UNCHANGED <<used, spoilt>>

(* A caller stores in the bytes it was given.  What it stores over its own *)
(* __data is taken to be no address of the heap.                           *)
Store(r) ==
    LET Meets(S(_)) == {i \in DOMAIN blocks : ~Disjoint(r, S(blocks[i]))}
        Own == {i \in DOMAIN blocks : PayloadOf(blocks[i]) = r}
    IN  /\ spoilt' = spoilt \cup (Meets(DataOf) \cap Own)
        /\ wild' = (Meets(MetaOf) \cup Meets(NextOf) \cup (Meets(DataOf) \ Own) # {})
        /\ UNCHANGED <<used, blocks, held, reply>>

Calls ==
    \/ \E n \in Sizes :
          MallocRefuse(n) \/ MallocHead(n) \/ MallocReuse(n) \/ MallocNew(n)
    \/ \E r \in held : Free(r.addr)
    \/ Free(NULL)

(* Callers store in what they hold, free it, and free NULL when an         *)
(* allocation failed.                                                      *)
Next ==
    /\ ~wild
    /\ \/ Calls /\ wild' = wild
       \/ \E r \in held : Store(r)

Spec == Init /\ [][Next]_vars
-----------------------------------------------------------------------------
TypeOK ==
    /\ used \in Nat
    /\ blocks \in Seq(Block)
    /\ held \subseteq Region
    /\ reply \in [n : Int, addr : Nat]
    /\ spoilt \subseteq DOMAIN blocks
    /\ wild \in BOOLEAN

(* kstd_mem_brk checks the size without the pointer it adds to it, so the  *)
(* break may pass the end of the heap, but by less than one pointer.       *)
UsedBounded == used < Total + PtrSize

(* Blocks lie in list order, each behind the last byte the one before it   *)
(* reserved, and the break is never behind an address handed out.          *)
ListInAddressOrder ==
    /\ \A i \in DOMAIN blocks :
          /\ blocks[i].hdr > Start
          /\ blocks[i].hdr <= Start + used
          /\ blocks[i].data <= Start + used
          /\ blocks[i].data # NULL => blocks[i].data > blocks[i].hdr
    /\ \A i, j \in DOMAIN blocks :
          i < j => /\ blocks[j].hdr > blocks[i].hdr
                   /\ blocks[j].hdr > blocks[i].data

(* How far a store through a payload reaches, for requests of any size.    *)
(* Headers lie apart.  A payload of up to a header and a pointer meets no  *)
(* other block's header and no other such payload, although kstd_mem_brk   *)
(* answers with the end of what it reserves; and it is clear of its own    *)
(* header from a header less a pointer on.                                 *)
ReachesNext(b) == b.size > HeaderSize + PtrSize

NoOverlap ==
    /\ \A i, j \in DOMAIN blocks :
          i # j => Disjoint(HeaderOf(blocks[i]), HeaderOf(blocks[j]))
    /\ \A i, j \in DOMAIN blocks :
          i # j /\ blocks[i].data # NULL /\ ~ReachesNext(blocks[i]) =>
             /\ Disjoint(PayloadOf(blocks[i]), HeaderOf(blocks[j]))
             /\ blocks[j].data # NULL /\ ~ReachesNext(blocks[j]) =>
                  Disjoint(PayloadOf(blocks[i]), PayloadOf(blocks[j]))
    /\ \A i \in DOMAIN blocks :
          blocks[i].data # NULL /\ blocks[i].size >= HeaderSize - PtrSize =>
             Disjoint(PayloadOf(blocks[i]), HeaderOf(blocks[i]))

(* What callers hold is what the list shows as in use, with the two        *)
(* exceptions the code has.  A block whose __data its caller stored over   *)
(* stays in use for ever, held or not, and is never handed out again.  And *)
(* memory that no block records is handed out, when the header's           *)
(* reservation fails and the payload's does not, only once there is no     *)
(* room for a header left.                                                 *)
HeldIsInUse ==
    /\ \A i \in DOMAIN blocks \ spoilt :
          ~blocks[i].free /\ blocks[i].data # NULL => PayloadOf(blocks[i]) \in held
    /\ \A i \in spoilt : ~blocks[i].free
    /\ ~Full => \A r \in held : \E i \in DOMAIN blocks :
                   ~blocks[i].free /\ PayloadOf(blocks[i]) = r

(* kstd_mem_malloc never answers with an address a caller still holds,     *)
(* with sizes for which payloads lie over headers, and after stores there. *)
HandsOutUnheld ==
    [][Calls /\ reply'.addr # NULL => \A r \in held : r.addr # reply'.addr]_vars
=============================================================================
