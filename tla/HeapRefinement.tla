--------------------------- MODULE HeapRefinement ---------------------------
(***************************************************************************)
(* Heap as an implementation of AllocSpec: a caller's region is live, a    *)
(* free block's payload is released, and a region is lost when no block    *)
(* in use has its address in __data: because none was linked for it, or    *)
(* because its own bytes were stored over __data.                          *)
(***************************************************************************)
EXTENDS Heap

Payloads(isFree, B) ==
    {PayloadOf(blocks[i]) :
       i \in {j \in B : blocks[j].free = isFree /\ blocks[j].data # NULL}}

Released == Payloads(TRUE, DOMAIN blocks)
Lost == held \ Payloads(FALSE, DOMAIN blocks \ spoilt)

Alloc == INSTANCE AllocSpec WITH
    Addr <- 0 .. (Start + Total + PtrSize),
    Size <- Sizes,
    Safe <- HeaderSize - PtrSize,
    live <- held,
    released <- Released,
    lost <- Lost,
    full <- Full

(* Every step of the heap, a caller's store included, is a step that the   *)
(* abstract allocator allows.                                              *)
HeapImplementsAllocSpec == Alloc!Spec
=============================================================================
