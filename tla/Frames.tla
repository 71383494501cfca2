------------------------------- MODULE Frames -------------------------------
(***************************************************************************)
(* The physical frame allocator of src/memory.c: a bitmap of frames and a  *)
(* 32-bit count of the used ones that is kept beside it and decides        *)
(* whether a request is looked at.                                         *)
(*                                                                         *)
(* pre_init clears one WORD per frame, so the map holds WordBits bits for  *)
(* each of the MaxBlocks frames of memory.  init_region and deinit_region  *)
(* run their loop while the count is >= 0: one frame more than the region. *)
(***************************************************************************)
EXTENDS Integers, FiniteSets, FiniteSetsExt

CONSTANTS
    MaxBlocks,   \* __maxblocks
    WordBits,    \* bits in a word of __mem_map_array: 32
    CounterMod,  \* __usedblocks wraps here: 2^32
    Counts       \* the sizes callers pass to kstd_mem_pre_alloc_blocks

ASSUME FramesAssumption ==
    /\ MaxBlocks \in Nat
    /\ WordBits \in Nat \ {0}
    /\ CounterMod \in Nat /\ CounterMod > MaxBlocks
    /\ Counts \subseteq Nat

NoFrame == -1

VARIABLES
    map,         \* the bits of __mem_map_array that are set
    usedblocks,  \* __usedblocks
    held,        \* the runs of frames that callers hold
    reply,       \* what the last call answered: a frame, or NoFrame for NULL
    torn         \* a run was handed out with used frames in it: from then on
                 \* frames are in two hands, and the model stops

vars == <<map, usedblocks, held, reply, torn>>

Bits == 0 .. MaxBlocks * WordBits - 1
Run == [first : Bits, count : Nat \ {0}]
FramesOf(r) == r.first .. r.first + r.count - 1
-----------------------------------------------------------------------------
FreeBits == Bits \ map
Available == (MaxBlocks - usedblocks) % CounterMod

IsFirst(b, S) == b \in S /\ \A c \in S : b <= c

(* kstd_mem_first_free: -1 or the lowest clear bit. *)
FirstFree ==
    IF FreeBits = {} THEN {NoFrame} ELSE {b \in FreeBits : IsFirst(b, FreeBits)}

(* kstd_mem_mmap_ffbs for two frames or more.  The test of the inner loop  *)
(* has an empty body, so a clear bit counts every bit from itself to the   *)
(* end of its word, used or not, and the count is never reset.             *)
CountedUpTo(b) ==
    MapThenSumSet(LAMBDA c : WordBits - (c % WordBits), {c \in FreeBits : c <= b})

Ffbs(n) ==
    IF n = 0 THEN {NoFrame}
    ELSE IF n = 1 THEN FirstFree
    ELSE LET Enough == {b \in FreeBits : CountedUpTo(b) >= n}
         IN  IF Enough = {} THEN {NoFrame} ELSE {b \in Enough : IsFirst(b, Enough)}
-----------------------------------------------------------------------------
(* kstd_mem_pre_init: every bit set, every frame used. *)
Init ==
    /\ map = Bits
    /\ usedblocks = MaxBlocks
    /\ held = {}
    /\ reply = NoFrame
    /\ torn = FALSE

HeldFrames == UNION {FramesOf(r) : r \in held}

(* Callers give memory that nobody uses, and take back memory nobody       *)
(* holds; both calls reach one frame past the n frames of the region.      *)
InitRegionStops(b, n) ==
    /\ b .. b + n \subseteq map \ HeldFrames
    /\ map' = map \ (b .. b + n)
    /\ usedblocks' = (usedblocks - n) % CounterMod
    /\ UNCHANGED <<held, reply, torn>>

InitRegion(b, n) ==
    /\ b .. b + n \subseteq map \ HeldFrames
    /\ map' = map \ (b .. b + n)
    /\ usedblocks' = (usedblocks - (n + 1)) % CounterMod
    /\ UNCHANGED <<held, reply, torn>>

DeinitRegionStops(b, n) ==
    /\ b .. b + n \subseteq FreeBits
    /\ map' = map \cup (b .. b + n)
    /\ usedblocks' = (usedblocks + n) % CounterMod
    /\ UNCHANGED <<held, reply, torn>>

DeinitRegion(b, n) ==
    /\ b .. b + n \subseteq FreeBits
    /\ map' = map \cup (b .. b + n)
    /\ usedblocks' = (usedblocks + n + 1) % CounterMod
    /\ UNCHANGED <<held, reply, torn>>

Refused ==
    /\ reply' = NoFrame
    /\ UNCHANGED <<map, usedblocks, held, torn>>

Hand(f, n) ==
    /\ held' = held \cup {[first |-> f, count |-> n]}
    /\ reply' = f
    /\ torn' = ~(f .. f + n - 1 \subseteq FreeBits)

GrantedUnmarked(f, n) ==
    /\ map' = map
    /\ usedblocks' = (usedblocks + n) % CounterMod
    /\ Hand(f, n)

GrantedWide(f, n) ==
    /\ map' = map \cup (Bits \cap f .. f + n - 1)
    /\ usedblocks' = usedblocks + n
    /\ Hand(f, n)

(* Nothing looks at the bits of the run before they are set; those past    *)
(* the array lie in the memory behind it, where no search reads them.      *)
Granted(f, n) ==
    /\ map' = map \cup (Bits \cap f .. f + n - 1)
    /\ usedblocks' = (usedblocks + n) % CounterMod
    /\ Hand(f, n)

AllocBlock ==
    IF Available = 0 THEN Refused
    ELSE \E f \in FirstFree : IF f = NoFrame THEN Refused ELSE Granted(f, 1)

AllocBlocks(n) ==
    IF Available <= n THEN Refused
    ELSE \E f \in Ffbs(n) : IF f = NoFrame THEN Refused ELSE Granted(f, n)

FreeCountsOne(r) ==
    /\ map' = map \ FramesOf(r)
    /\ usedblocks' = (usedblocks - 1) % CounterMod
    /\ held' = held \ {r}
    /\ reply' = NoFrame
    /\ torn' = torn

(* kstd_mem_pre_free_block and kstd_mem_pre_free_blocks. *)
Free(r) ==
    /\ map' = map \ FramesOf(r)
    /\ usedblocks' = (usedblocks - r.count) % CounterMod
    /\ held' = held \ {r}
    /\ reply' = NoFrame
    /\ torn' = torn

Next ==
    /\ ~torn
    /\ \/ \E b, n \in 0 .. MaxBlocks :
             b + n <= MaxBlocks /\ (InitRegion(b, n) \/ DeinitRegion(b, n))
       \/ AllocBlock
       \/ \E n \in Counts : AllocBlocks(n)
       \/ \E r \in held : Free(r)

Spec == Init /\ [][Next]_vars
-----------------------------------------------------------------------------
TypeOK ==
    /\ map \subseteq Bits
    /\ usedblocks \in 0 .. CounterMod - 1
    /\ held \subseteq Run
    /\ reply \in Bits \cup {NoFrame}
    /\ torn \in BOOLEAN

(* Until a run is handed out over used frames, no frame is in two runs     *)
(* that callers hold, and every held frame is marked used: regions that    *)
(* reach a frame too far, wrapped counts and frees do not bring it about.  *)
FramesExclusive ==
    ~torn => /\ HeldFrames \subseteq map
             /\ \A r, s \in held : r # s => FramesOf(r) \cap FramesOf(s) = {}

(* Until then the count agrees with the map, also where it has wrapped     *)
(* below zero because a region reached past the frames of memory.          *)
CountMatchesMap == ~torn => Available = Cardinality(FreeBits)

(* The free frames are one run inside a word of the map. *)
OneRun ==
    /\ \A b, c \in FreeBits : b .. c \subseteq FreeBits
    /\ \A b, c \in FreeBits : b \div WordBits = c \div WordBits

(* kstd_mem_mmap_ffbs counts every bit behind a clear one as clear.  What  *)
(* saves its callers is the count: a run is handed out over used frames    *)
(* only by a request for two or more while the free frames lie scattered.  *)
TornOnlyWhenScattered ==
    [][torn' => ~OneRun /\ \E n \in Counts : n > 1 /\ AllocBlocks(n)]_vars

(* kstd_mem_pre_alloc_block answers NULL only when the map has no free     *)
(* frame: until a run is torn the count never hides one.                   *)
RefusedOnlyWhenNone == [][AllocBlock /\ reply' = NoFrame => FreeBits = {}]_vars
=============================================================================
