---------------------------- MODULE FramesProofs ----------------------------
(***************************************************************************)
(* Theorems about Frames for every memory size, word size and set of       *)
(* requests, with a counter that counts one frame more than memory has     *)
(* (CountsAllFrames; on the machine it counts to 2^32, and there are fewer *)
(* than 2^20 frames).                                                      *)
(*                                                                         *)
(* A request for one frame gets a clear one.  For several, ffbs looks at no *)
(* bit but the first, and counts from it to the end of its word: that the  *)
(* run is clear while the free frames are one run inside a word (OneRun)   *)
(* needs the count, which says that the run is long enough.                *)
(***************************************************************************)
EXTENDS Frames, FiniteSetTheorems, NaturalsInduction, TLAPS

CountsAllFrames == CounterMod > MaxBlocks + 1

(* Only frames of memory, and the one behind it, are ever clear or held.   *)
InMemory == ~torn => FreeBits \cup HeldFrames \subseteq 0 .. MaxBlocks

IInv == TypeOK /\ FramesExclusive /\ InMemory /\ CountMatchesMap
-----------------------------------------------------------------------------
(* Arithmetic of the wrapping count. *)

LEMMA Wraps ==
    ASSUME NEW a \in Int
    PROVE  /\ a % CounterMod \in 0 .. CounterMod - 1
           /\ \E q \in Int : a = CounterMod * q + (a % CounterMod)
  <1>1. CounterMod \in Int /\ CounterMod > 0
    BY FramesAssumption
  <1>2. /\ a \div CounterMod \in Int
        /\ a = CounterMod * (a \div CounterMod) + (a % CounterMod)
    BY <1>1
  <1>3. a % CounterMod \in 0 .. CounterMod - 1
    BY <1>1
  <1> QED BY <1>2, <1>3

LEMMA Remainder ==
    ASSUME NEW a \in Int, NEW q \in Int, NEW r \in 0 .. CounterMod - 1,
           a = CounterMod * q + r
    PROVE  a % CounterMod = r
  <1>1. CounterMod \in Int /\ CounterMod > 0
    BY FramesAssumption
  <1>2. r \in Int /\ 0 <= r /\ r < CounterMod
    BY <1>1
  <1> QED BY <1>1, <1>2

LEMMA Distribute ==
    ASSUME NEW m \in Int, NEW p \in Int, NEW q \in Int, NEW b \in Int,
           NEW u \in Int, NEW v \in Int, NEW c \in Int, NEW k \in Int,
           b - u = m * p + c, u + k = m * q + v
    PROVE  b - v = m * (p + q) + (c - k)
  OBVIOUS

(* k more used frames are k fewer available ones, if there are that many. *)
LEMMA CountMoves ==
    ASSUME NEW u \in Int, NEW k \in Int, NEW w \in Int, w = u + k,
           NEW c \in Int, c = (MaxBlocks - u) % CounterMod,
           NEW d \in 0 .. CounterMod - 1, d = c - k
    PROVE  (MaxBlocks - (w % CounterMod)) % CounterMod = d
  <1> DEFINE v == w % CounterMod
  <1>0. /\ CounterMod \in Int /\ MaxBlocks \in Int
        /\ MaxBlocks - u \in Int /\ w \in Int
    BY FramesAssumption
  <1>1. PICK p \in Int : MaxBlocks - u = CounterMod * p + c
    BY <1>0, Wraps
  <1>2. PICK q \in Int : u + k = CounterMod * q + v
    BY <1>0, Wraps
  <1>3. v \in Int
    <2>1. v \in 0 .. CounterMod - 1
      BY <1>0, Wraps
    <2> QED BY <2>1
  <1> HIDE DEF v
  <1>4. MaxBlocks - v = CounterMod * (p + q) + (c - k)
    BY <1>0, <1>1, <1>2, <1>3, Distribute
  <1>5. (MaxBlocks - v) % CounterMod = d
    <2>1. MaxBlocks - v \in Int /\ p + q \in Int
      BY <1>0, <1>3
    <2> QED BY <1>4, <2>1, Remainder
  <1> QED BY <1>5 DEF v
-----------------------------------------------------------------------------
(* Sets of frames. *)

LEMMA BitsAreNat == Bits \subseteq Nat
  BY FramesAssumption DEF Bits

LEMMA NotBelow ==
    ASSUME NEW b \in Nat, NEW c \in Nat, <<c, b>> \notin OpToRel(<, Nat)
    PROVE  b <= c
  BY DEF OpToRel

LEMMA LowestExists ==
    ASSUME NEW S, S \subseteq Nat, S # {} PROVE \E b \in S : IsFirst(b, S)
  <1>1. \E b \in S : \A c \in S : ~(<<c, b>> \in OpToRel(<, Nat))
    BY NatLessThanWellFounded, WFMin
  <1>2. PICK b \in S : \A c \in S : ~(<<c, b>> \in OpToRel(<, Nat))
    BY <1>1
  <1>3. ASSUME NEW c \in S PROVE b <= c
    <2>1. b \in Nat /\ c \in Nat /\ <<c, b>> \notin OpToRel(<, Nat)
      BY <1>2
    <2> QED BY <2>1, NotBelow
  <1> QED BY <1>3 DEF IsFirst

(* The frames of a region or a run, and how many there are. *)
LEMMA RunSize ==
    ASSUME NEW b \in Nat, NEW n \in Nat \ {0}
    PROVE  IsFiniteSet(b .. b + n - 1) /\ Cardinality(b .. b + n - 1) = n
  <1>1. b + n - 1 \in Int /\ b \in Int /\ ~(b > b + n - 1)
    OBVIOUS
  <1>2. Cardinality(b .. b + n - 1) = (b + n - 1) - b + 1
    BY <1>1, FS_Interval
  <1> QED BY <1>1, <1>2, FS_Interval

LEMMA FreeFinite ==
    ASSUME ~torn, InMemory
    PROVE  IsFiniteSet(FreeBits) /\ Cardinality(FreeBits) \in 0 .. MaxBlocks + 1
  <1>1. FreeBits \subseteq Nat /\ MaxBlocks \in Nat /\ \A s \in FreeBits : s <= MaxBlocks
    BY FramesAssumption DEF InMemory
  <1>2. IsFiniteSet(FreeBits) /\ Cardinality(FreeBits) <= MaxBlocks + 1
    BY <1>1, FS_BoundedSetOfNaturals
  <1> QED BY <1>1, <1>2, FS_CardinalityType

LEMMA DisjointSizes ==
    ASSUME NEW S, NEW T, IsFiniteSet(S), IsFiniteSet(T), S \cap T = {}
    PROVE  /\ IsFiniteSet(S \cup T)
           /\ Cardinality(S \cup T) = Cardinality(S) + Cardinality(T)
  <1>1. /\ Cardinality(S) \in Nat /\ Cardinality(T) \in Nat
        /\ Cardinality(S \cap T) = 0
    BY FS_CardinalityType, FS_EmptySet
  <1>2. /\ IsFiniteSet(S \cup T)
        /\ Cardinality(S \cup T) = Cardinality(S) + Cardinality(T) - Cardinality(S \cap T)
    BY FS_Union
  <1> QED BY <1>1, <1>2

(* A set inside an interval is no larger than the interval. *)
LEMMA InInterval ==
    ASSUME NEW S, NEW b \in Int, NEW k \in Nat, S \subseteq b .. b + k - 1
    PROVE  Cardinality(S) <= k
  <1>1. b + k - 1 \in Int
    OBVIOUS
  <1>2. IsFiniteSet(b .. b + k - 1) /\ Cardinality(b .. b + k - 1) = k
    <2>1. Cardinality(b .. b + k - 1) = IF b > b + k - 1 THEN 0 ELSE b + k - 1 - b + 1
      BY <1>1, FS_Interval
    <2> QED BY <1>1, <2>1, FS_Interval
  <1> QED BY <1>2, FS_Subset

(* The loop of ffbs sees one clear bit: it counts the rest of its word. *)
LEMMA CountsOneWord ==
    ASSUME NEW b \in Int, {c \in FreeBits : c <= b} = {b}
    PROVE  CountedUpTo(b) = WordBits - (b % WordBits)
  <1> DEFINE w == WordBits - (b % WordBits)
             S == {c \in FreeBits : c <= b}
             E(it) == [s \in SUBSET S |->
                         IF s = {} THEN 0
                         ELSE (WordBits - ((CHOOSE x \in s : TRUE) % WordBits))
                                + it[s \ {CHOOSE x \in s : TRUE}]]
             g == [s \in SUBSET S |-> IF s = {} THEN 0 ELSE w]
             iter == CHOOSE it : it = E(it)
  <1>1. CountedUpTo(b) = iter[S]
    BY DEF CountedUpTo, MapThenSumSet, MapThenFoldSet
  <1>s. S = {b}
    OBVIOUS
  <1> HIDE DEF S
  <1>2. w + 0 = w
    BY FramesAssumption
  <1>3. g = E(g)
    <2>1. ASSUME NEW s \in SUBSET S PROVE g[s] = E(g)[s]
      <3>1. CASE s = {}
        BY <3>1
      <3>2. CASE s = {b}
        <4>1. (CHOOSE x \in s : TRUE) = b
          BY <3>2
        <4>2. g[s] = w /\ g[s \ {b}] = 0
          BY <1>s, <3>2
        <4> QED BY <1>s, <3>2, <4>1, <4>2, <1>2
      <3> QED BY <1>s, <3>1, <3>2
    <2> QED BY <2>1
  <1>4. iter = E(iter)
    <2> HIDE DEF g, E
    <2> QED BY <1>3
  <1> HIDE DEF iter
  <1>5. (CHOOSE x \in {b} : TRUE) = b /\ {b} # {} /\ {b} \ {b} = {}
    OBVIOUS
  <1>6. iter[{}] = 0
    BY <1>4
  <1>7. iter[S] = (WordBits - ((CHOOSE x \in {b} : TRUE) % WordBits))
                      + iter[{b} \ {CHOOSE x \in {b} : TRUE}]
    BY <1>s, <1>4, <1>5
  <1> QED BY <1>1, <1>2, <1>5, <1>6, <1>7

(* Bits of one word lie before its end. *)
LEMMA SameWord ==
    ASSUME NEW b \in Nat, NEW c \in Nat, b \div WordBits = c \div WordBits
    PROVE  /\ c <= b + (WordBits - (b % WordBits)) - 1
           /\ WordBits - (b % WordBits) \in Nat
  <1>0. WordBits \in Int /\ WordBits > 0
    BY FramesAssumption
  <1>1. /\ b = WordBits * (b \div WordBits) + (b % WordBits)
        /\ c = WordBits * (c \div WordBits) + (c % WordBits)
        /\ b % WordBits \in 0 .. WordBits - 1
        /\ c % WordBits \in 0 .. WordBits - 1
    BY <1>0
  <1> DEFINE x == WordBits * (b \div WordBits)
  <1>2. x \in Int
    BY <1>0
  <1>3. b = x + (b % WordBits) /\ c = x + (c % WordBits)
    BY <1>1
  <1> HIDE DEF x
  <1> QED BY <1>0, <1>1, <1>2, <1>3

(* While the clear bits are one run inside a word and more than asked for, *)
(* ffbs answers with the first of them, and the whole run is clear.        *)
LEMMA FfbsAnswersRun ==
    ASSUME ~torn, TypeOK, InMemory, CountMatchesMap, OneRun,
           NEW n \in Nat, n > 1, Available > n,
           NEW f \in Ffbs(n), f # NoFrame
    PROVE  f \in Nat /\ f .. f + n - 1 \subseteq FreeBits
  <1>0. /\ FreeBits \subseteq Nat
        /\ IsFiniteSet(FreeBits)
        /\ Cardinality(FreeBits) \in Nat
        /\ Cardinality(FreeBits) > n
    <2>1. FreeBits \subseteq Nat
      BY BitsAreNat DEF FreeBits
    <2>2. IsFiniteSet(FreeBits) /\ Cardinality(FreeBits) \in Nat
      BY FreeFinite, FS_CardinalityType
    <2> QED BY <2>1, <2>2 DEF CountMatchesMap
  <1>1. FreeBits # {}
    BY <1>0, FS_EmptySet
  <1>2. PICK b \in FreeBits : IsFirst(b, FreeBits)
    BY <1>0, <1>1, LowestExists
  <1>3. b \in Nat /\ b \in Int /\ \A c \in FreeBits : c \in Nat /\ b <= c
    BY <1>0, <1>2 DEF IsFirst
  <1>4. CountedUpTo(b) = WordBits - (b % WordBits)
    <2>1. ASSUME NEW c \in FreeBits, c <= b PROVE c = b
      BY <1>3, <2>1
    <2>2. {c \in FreeBits : c <= b} = {b}
      BY <1>2, <1>3, <2>1
    <2> QED BY <1>3, <2>2, CountsOneWord
  <1>5. WordBits - (b % WordBits) \in Nat
    BY <1>3, SameWord
  <1>6. FreeBits \subseteq b .. b + (WordBits - (b % WordBits)) - 1
    <2>1. ASSUME NEW c \in FreeBits
          PROVE  c \in b .. b + (WordBits - (b % WordBits)) - 1
      <3>1. c <= b + (WordBits - (b % WordBits)) - 1
        BY <1>3, SameWord DEF OneRun
      <3> QED BY <1>3, <1>5, <3>1
    <2> QED BY <2>1
  <1>7. CountedUpTo(b) >= n
    <2>1. Cardinality(FreeBits) <= WordBits - (b % WordBits)
      BY <1>3, <1>5, <1>6, InInterval
    <2> QED BY <1>0, <1>4, <1>5, <2>1
  <1>8. f = b
    <2>1. f \in FreeBits /\ f <= b
      BY <1>2, <1>7 DEF Ffbs, IsFirst
    <2> QED BY <1>3, <2>1
  <1>9. ASSUME NEW x \in f .. f + n - 1, x \notin FreeBits PROVE FALSE
    <2>1. x \in Int /\ b <= x /\ x <= b + n - 1
      BY <1>3, <1>8
    <2>2. ASSUME NEW c \in FreeBits PROVE c \in b .. b + (x - b) - 1
      <3>1. x \notin b .. c
        BY <1>9, <2>2 DEF OneRun
      <3> QED BY <1>3, <2>1, <3>1
    <2>3. x - b \in Nat
      BY <1>3, <2>1
    <2>4. Cardinality(FreeBits) <= x - b
      BY <1>3, <2>2, <2>3, InInterval
    <2> QED BY <1>0, <1>3, <2>1, <2>4
  <1> QED BY <1>3, <1>8, <1>9
-----------------------------------------------------------------------------
(* Clearing a set of k used bits and counting k less. *)
LEMMA ClearKeepsCount ==
    ASSUME ~torn, CountsAllFrames, TypeOK, InMemory, CountMatchesMap,
           NEW S, IsFiniteSet(S), S \subseteq map, S \subseteq 0 .. MaxBlocks,
           NEW k \in Nat, Cardinality(S) = k,
           map' = map \ S, usedblocks' = (usedblocks - k) % CounterMod
    PROVE  CountMatchesMap' /\ FreeBits' = FreeBits \cup S
  <1>0. /\ usedblocks \in Int /\ MaxBlocks \in Int /\ CounterMod \in Int
        /\ CounterMod > MaxBlocks + 1
    BY FramesAssumption DEF TypeOK, CountsAllFrames
  <1>1. FreeBits' = FreeBits \cup S
    BY DEF FreeBits, TypeOK
  <1>2. /\ IsFiniteSet(FreeBits) /\ IsFiniteSet(FreeBits')
        /\ Cardinality(FreeBits) \in Nat
        /\ Cardinality(FreeBits') = Cardinality(FreeBits) + k
    <2>1. IsFiniteSet(FreeBits) /\ Cardinality(FreeBits) \in Nat
      BY FreeFinite, FS_CardinalityType
    <2>2. FreeBits \cap S = {}
      BY DEF FreeBits
    <2> QED BY <1>1, <2>1, <2>2, DisjointSizes
  <1>3. Cardinality(FreeBits') <= MaxBlocks + 1
    <2>1. FreeBits' \subseteq 0 .. MaxBlocks
      BY <1>1 DEF InMemory
    <2>2. FreeBits' \subseteq Nat /\ MaxBlocks \in Nat
          /\ \A s \in FreeBits' : s <= MaxBlocks
      BY <2>1, FramesAssumption
    <2> QED BY <2>2, FS_BoundedSetOfNaturals
  <1>4. Cardinality(FreeBits) = (MaxBlocks - usedblocks) % CounterMod
    BY DEF CountMatchesMap, Available
  <1>5. /\ -k \in Int /\ usedblocks - k \in Int
        /\ usedblocks - k = usedblocks + (-k)
        /\ Cardinality(FreeBits') = Cardinality(FreeBits) - (-k)
        /\ Cardinality(FreeBits) \in Int
        /\ Cardinality(FreeBits') \in 0 .. CounterMod - 1
    BY <1>0, <1>2, <1>3
  <1>6. (MaxBlocks - ((usedblocks - k) % CounterMod)) % CounterMod
          = Cardinality(FreeBits')
    <2> DEFINE F == Cardinality(FreeBits)
               G == Cardinality(FreeBits')
               m == -k
               w == usedblocks - k
    <2>1. /\ usedblocks \in Int /\ m \in Int /\ w \in Int /\ w = usedblocks + m
          /\ F \in Int /\ F = (MaxBlocks - usedblocks) % CounterMod
          /\ G \in 0 .. CounterMod - 1 /\ G = F - m
      BY <1>0, <1>4, <1>5
    <2> HIDE DEF F, G, m, w
    <2>2. (MaxBlocks - (w % CounterMod)) % CounterMod = G
      BY <2>1, CountMoves
    <2> QED BY <2>2 DEF G, w
  <1>7. CountMatchesMap'
    BY <1>6 DEF CountMatchesMap, Available
  <1> QED BY <1>1, <1>7

(* Setting a set of k clear bits and counting k more. *)
LEMMA SetKeepsCount ==
    ASSUME ~torn, CountsAllFrames, TypeOK, InMemory, CountMatchesMap,
           NEW S, IsFiniteSet(S), S \subseteq FreeBits,
           NEW k \in Nat, Cardinality(S) = k,
           map' = map \cup S, usedblocks' = (usedblocks + k) % CounterMod
    PROVE  CountMatchesMap' /\ FreeBits' = FreeBits \ S
  <1>0. /\ usedblocks \in Int /\ MaxBlocks \in Int /\ CounterMod \in Int
        /\ CounterMod > MaxBlocks + 1
    BY FramesAssumption DEF TypeOK, CountsAllFrames
  <1>1. FreeBits' = FreeBits \ S
    BY DEF FreeBits
  <1>2. /\ Cardinality(FreeBits) \in 0 .. MaxBlocks + 1
        /\ Cardinality(FreeBits') \in Nat
        /\ Cardinality(FreeBits) = Cardinality(FreeBits') + k
    <2>1. IsFiniteSet(FreeBits) /\ Cardinality(FreeBits) \in 0 .. MaxBlocks + 1
      BY FreeFinite
    <2>2. IsFiniteSet(FreeBits') /\ Cardinality(FreeBits') \in Nat
      BY <1>1, <2>1, FS_Subset, FS_CardinalityType
    <2>3. FreeBits' \cap S = {} /\ FreeBits' \cup S = FreeBits
      BY <1>1
    <2> QED BY <2>1, <2>2, <2>3, DisjointSizes
  <1>3. Cardinality(FreeBits) = (MaxBlocks - usedblocks) % CounterMod
    BY DEF CountMatchesMap, Available
  <1>4. /\ usedblocks + k \in Int
        /\ Cardinality(FreeBits') = Cardinality(FreeBits) - k
        /\ Cardinality(FreeBits) \in Int
        /\ Cardinality(FreeBits') \in 0 .. CounterMod - 1
    BY <1>0, <1>2
  <1>5. (MaxBlocks - ((usedblocks + k) % CounterMod)) % CounterMod
          = Cardinality(FreeBits')
    <2> DEFINE F == Cardinality(FreeBits)
               G == Cardinality(FreeBits')
               w == usedblocks + k
    <2>1. /\ usedblocks \in Int /\ k \in Int /\ w \in Int /\ w = usedblocks + k
          /\ F \in Int /\ F = (MaxBlocks - usedblocks) % CounterMod
          /\ G \in 0 .. CounterMod - 1 /\ G = F - k
      BY <1>0, <1>3, <1>4
    <2> HIDE DEF F, G, w
    <2>2. (MaxBlocks - (w % CounterMod)) % CounterMod = G
      BY <2>1, CountMoves
    <2> QED BY <2>2 DEF G, w
  <1>6. CountMatchesMap'
    BY <1>5 DEF CountMatchesMap, Available
  <1> QED BY <1>1, <1>6
-----------------------------------------------------------------------------
LEMMA RegionStep ==
    ASSUME CountsAllFrames, IInv,
           NEW b \in 0 .. MaxBlocks, NEW n \in 0 .. MaxBlocks, b + n <= MaxBlocks,
           InitRegion(b, n) \/ DeinitRegion(b, n), ~torn
    PROVE  IInv'
  <1> DEFINE S == b .. b + n
  <1>0. /\ b \in Nat /\ n \in Nat /\ n + 1 \in Nat \ {0} /\ MaxBlocks \in Nat
        /\ usedblocks \in Int
    BY FramesAssumption DEF IInv, TypeOK
  <1>1. IsFiniteSet(S) /\ Cardinality(S) = n + 1 /\ S \subseteq 0 .. MaxBlocks
    <2>1. b + n = b + (n + 1) - 1
      BY <1>0
    <2>2. IsFiniteSet(S) /\ Cardinality(S) = n + 1
      BY <1>0, <2>1, RunSize
    <2> QED BY <1>0, <2>2
  <1> HIDE DEF S
  <1>2. /\ usedblocks' \in 0 .. CounterMod - 1
        /\ held' = held /\ reply' = reply /\ torn' = torn
    <2>1. usedblocks - (n + 1) \in Int /\ usedblocks + n + 1 \in Int
      BY <1>0
    <2> QED BY <2>1, Wraps DEF InitRegion, DeinitRegion
  <1>3. CASE InitRegion(b, n)
    <2>1. /\ S \subseteq map /\ S \cap HeldFrames = {}
          /\ map' = map \ S /\ usedblocks' = (usedblocks - (n + 1)) % CounterMod
      BY <1>3 DEF InitRegion, S
    <2>2. CountMatchesMap' /\ FreeBits' = FreeBits \cup S
      BY <1>0, <1>1, <2>1, ClearKeepsCount DEF IInv
    <2>3. FramesExclusive' /\ HeldFrames' = HeldFrames
      BY <1>2, <2>1 DEF IInv, FramesExclusive, HeldFrames
    <2>4. TypeOK'
      BY <1>2, <2>1 DEF IInv, TypeOK
    <2>5. InMemory'
      BY <1>1, <2>2, <2>3 DEF IInv, InMemory
    <2> QED BY <2>2, <2>3, <2>4, <2>5 DEF IInv
  <1>4. CASE DeinitRegion(b, n)
    <2>1. /\ S \subseteq FreeBits
          /\ map' = map \cup S /\ usedblocks' = (usedblocks + (n + 1)) % CounterMod
      <3>1. usedblocks + n + 1 = usedblocks + (n + 1)
        BY <1>0
      <3> QED BY <1>4, <3>1 DEF DeinitRegion, S
    <2>2. CountMatchesMap' /\ FreeBits' = FreeBits \ S
      BY <1>0, <1>1, <2>1, SetKeepsCount DEF IInv
    <2>3. FramesExclusive' /\ HeldFrames' = HeldFrames
      BY <1>2, <2>1 DEF IInv, FramesExclusive, HeldFrames
    <2>4. TypeOK'
      BY <1>2, <2>1 DEF IInv, TypeOK, FreeBits
    <2>5. InMemory'
      BY <2>2, <2>3 DEF IInv, InMemory
    <2> QED BY <2>2, <2>3, <2>4, <2>5 DEF IInv
  <1> QED BY <1>3, <1>4

(* A run of clear frames keeps everything; any other tears the map.        *)
LEMMA GrantStep ==
    ASSUME ~torn, CountsAllFrames, IInv, NEW f \in FreeBits, NEW n \in Nat \ {0},
           Granted(f, n)
    PROVE  IInv'
  <1> DEFINE new == [first |-> f, count |-> n]
             S == f .. f + n - 1
  <1>0. f \in Nat
    BY BitsAreNat DEF FreeBits
  <1>1. IsFiniteSet(S) /\ Cardinality(S) = n
    BY <1>0, RunSize
  <1>2. FramesOf(new) = S
    BY DEF FramesOf
  <1>3. new \in Run /\ f \in Bits
    BY DEF Run, FreeBits
  <1> HIDE DEF S, new
  <1>4. /\ map' = map \cup (Bits \cap S) /\ usedblocks' = (usedblocks + n) % CounterMod
        /\ held' = held \cup {new} /\ reply' = f /\ torn' = ~(S \subseteq FreeBits)
    BY DEF Granted, Hand, S, new
  <1>5. TypeOK'
    <2>1. usedblocks + n \in Int
      BY DEF IInv, TypeOK
    <2> QED BY <1>3, <1>4, <2>1, Wraps DEF IInv, TypeOK
  <1>6. CASE ~(S \subseteq FreeBits)
    BY <1>4, <1>5, <1>6 DEF IInv, FramesExclusive, InMemory, CountMatchesMap
  <1>7. CASE S \subseteq FreeBits
    <2>1. map' = map \cup S
      BY <1>4, <1>7 DEF FreeBits
    <2>2. CountMatchesMap' /\ FreeBits' = FreeBits \ S
      BY <1>1, <1>4, <1>7, <2>1, SetKeepsCount DEF IInv
    <2>3. HeldFrames' = HeldFrames \cup S
      BY <1>2, <1>4 DEF HeldFrames
    <2>4. \A r \in held : FramesOf(r) \cap S = {}
      BY <1>7 DEF IInv, FramesExclusive, HeldFrames, FreeBits
    <2>5. FramesExclusive'
      <3>1. HeldFrames' \subseteq map'
        BY <2>1, <2>3 DEF IInv, FramesExclusive
      <3>2. \A r, s \in held' : r # s => FramesOf(r) \cap FramesOf(s) = {}
        BY <1>2, <1>4, <2>4 DEF IInv, FramesExclusive
      <3> QED BY <3>1, <3>2 DEF FramesExclusive
    <2>6. InMemory'
      BY <1>4, <1>7, <2>2, <2>3 DEF IInv, InMemory
    <2> QED BY <1>5, <2>2, <2>5, <2>6 DEF IInv
  <1> QED BY <1>6, <1>7

LEMMA FreeStep ==
    ASSUME ~torn, CountsAllFrames, IInv, NEW r \in held, Free(r) PROVE IInv'
  <1> DEFINE S == FramesOf(r)
  <1>0. r.first \in Nat /\ r.count \in Nat \ {0} /\ usedblocks \in Int
    <2>1. r \in Run /\ usedblocks \in Int
      BY DEF IInv, TypeOK
    <2>2. r.first \in Bits /\ r.count \in Nat \ {0}
      BY <2>1 DEF Run
    <2> QED BY <2>1, <2>2, BitsAreNat
  <1>1. IsFiniteSet(S) /\ Cardinality(S) = r.count
    BY <1>0, RunSize DEF FramesOf
  <1> HIDE DEF S
  <1>2. /\ map' = map \ S /\ usedblocks' = (usedblocks - r.count) % CounterMod
        /\ held' = held \ {r} /\ reply' = NoFrame /\ torn' = torn
    BY DEF Free, S
  <1>3. S \subseteq HeldFrames /\ S \subseteq map /\ S \subseteq 0 .. MaxBlocks
    BY DEF IInv, FramesExclusive, InMemory, HeldFrames, S
  <1>4. CountMatchesMap' /\ FreeBits' = FreeBits \cup S
    BY <1>0, <1>1, <1>2, <1>3, ClearKeepsCount DEF IInv
  <1>5. HeldFrames' \subseteq HeldFrames /\ HeldFrames' \cap S = {}
    BY <1>2 DEF IInv, FramesExclusive, HeldFrames, S
  <1>6. FramesExclusive'
    BY <1>2, <1>5 DEF IInv, FramesExclusive
  <1>7. TypeOK'
    <2>1. usedblocks - r.count \in Int
      BY <1>0
    <2> QED BY <1>2, <2>1, Wraps DEF IInv, TypeOK
  <1>8. InMemory'
    BY <1>3, <1>4, <1>5 DEF IInv, InMemory
  <1> QED BY <1>4, <1>6, <1>7, <1>8 DEF IInv

(* What the searches answer with is clear in its first frame. *)
LEMMA FirstIsFree ==
    ASSUME NEW n \in Nat, NEW f \in Ffbs(n) \cup FirstFree, f # NoFrame
    PROVE  f \in FreeBits /\ (f \in Ffbs(n) => n # 0)
  BY DEF Ffbs, FirstFree

LEMMA AllocStep ==
    ASSUME ~torn, CountsAllFrames, IInv,
           AllocBlock \/ \E n \in Counts : AllocBlocks(n)
    PROVE  IInv'
  <1>1. CASE Refused
    BY <1>1 DEF Refused, IInv, TypeOK, FramesExclusive, HeldFrames, InMemory,
                FreeBits, CountMatchesMap, Available
  <1>2. CASE AllocBlock /\ ~Refused
    <2>1. PICK f \in FirstFree : f # NoFrame /\ Granted(f, 1)
      BY <1>2 DEF AllocBlock
    <2>2. f \in FreeBits /\ 1 \in Nat \ {0}
      BY <2>1 DEF FirstFree
    <2> QED BY <2>1, <2>2, GrantStep
  <1>3. ASSUME NEW n \in Counts, AllocBlocks(n), ~Refused PROVE IInv'
    <2>0. n \in Nat
      BY FramesAssumption
    <2>1. PICK f \in Ffbs(n) : f # NoFrame /\ Granted(f, n)
      BY <1>3 DEF AllocBlocks
    <2>2. f \in FreeBits /\ n \in Nat \ {0}
      BY <2>0, <2>1, FirstIsFree
    <2> QED BY <2>1, <2>2, GrantStep
  <1> QED BY <1>1, <1>2, <1>3

LEMMA InvInit == Init => IInv
  <1> SUFFICES ASSUME Init PROVE IInv
    OBVIOUS
  <1>1. FreeBits = {} /\ HeldFrames = {}
    BY DEF Init, FreeBits, HeldFrames
  <1>2. TypeOK
    <2>1. torn \in BOOLEAN
      BY DEF Init
    <2>2. /\ map = Bits /\ usedblocks = MaxBlocks /\ held = {} /\ reply = NoFrame
          /\ MaxBlocks \in 0 .. CounterMod - 1
      BY FramesAssumption DEF Init
    <2> QED BY <2>1, <2>2 DEF TypeOK
  <1>3. CountMatchesMap
    <2>1. Available = 0
      BY FramesAssumption DEF Init, Available
    <2> QED BY <1>1, <2>1, FS_EmptySet DEF CountMatchesMap
  <1> QED
    BY <1>1, <1>2, <1>3 DEF Init, IInv, InMemory, FramesExclusive

LEMMA InvStep ==
    ASSUME CountsAllFrames, IInv, [Next]_vars PROVE IInv'
  <1>1. CASE UNCHANGED vars
    BY <1>1 DEF vars, IInv, TypeOK, FramesExclusive, HeldFrames, InMemory,
                FreeBits, CountMatchesMap, Available
  <1> QED BY <1>1, RegionStep, AllocStep, FreeStep DEF Next

(* The map, the wrapping count and the runs keep their types. *)
THEOREM FramesTypeCorrect == ASSUME CountsAllFrames PROVE Spec => []TypeOK
  <1>1. IInv => TypeOK
    BY DEF IInv
  <1> QED BY <1>1, InvInit, InvStep, PTL DEF Spec

(* Until a run is handed out over used frames (TornByScatter says when     *)
(* that can be) no frame is in two hands, and none is handed out while it  *)
(* is held, whatever regions callers add and remove in between.            *)
THEOREM FramesNeverShared == ASSUME CountsAllFrames PROVE Spec => []FramesExclusive
  <1>1. IInv => FramesExclusive
    BY DEF IInv
  <1> QED BY <1>1, InvInit, InvStep, PTL DEF Spec

(* Until then the count kept beside the map is right, after it has wrapped *)
(* too.                                                                    *)
THEOREM CountIsRight == ASSUME CountsAllFrames PROVE Spec => []CountMatchesMap
  <1>1. IInv => CountMatchesMap
    BY DEF IInv
  <1> QED BY <1>1, InvInit, InvStep, PTL DEF Spec

(* A run is handed out over used frames only by a request for two or more  *)
(* while the free frames are not one run inside a word of the map.         *)
THEOREM TornByScatter == ASSUME CountsAllFrames PROVE Spec => TornOnlyWhenScattered
  <1> DEFINE Tears == ~OneRun /\ \E n \in Counts : n > 1 /\ AllocBlocks(n)
  <1>1. IInv /\ [Next]_vars => [torn' => Tears]_vars
    <2> SUFFICES ASSUME IInv, Next, torn' PROVE Tears
      OBVIOUS
    <2>0. ~torn
      BY DEF Next
    <2>1. ASSUME NEW f \in FirstFree, f # NoFrame, Granted(f, 1) PROVE FALSE
      <3>1. f \in FreeBits /\ f \in Nat
        BY <2>1, BitsAreNat DEF FirstFree, FreeBits
      <3>2. f .. f + 1 - 1 \subseteq FreeBits
        BY <3>1
      <3> QED BY <2>1, <3>2 DEF Granted, Hand
    <2>2. ~AllocBlock /\ ~Refused
      BY <2>0, <2>1 DEF AllocBlock, Refused
    <2>3. PICK n \in Counts : AllocBlocks(n)
      BY <2>0, <2>2 DEF Next, InitRegion, DeinitRegion, Free
    <2>4. n \in Nat
      BY FramesAssumption
    <2>5. PICK f \in Ffbs(n) : f # NoFrame /\ Granted(f, n)
      BY <2>2, <2>3 DEF AllocBlocks
    <2>6. n > 1
      <3>1. n # 0
        BY <2>4, <2>5, FirstIsFree
      <3>2. n # 1
        BY <2>1, <2>5 DEF Ffbs
      <3> QED BY <2>4, <3>1, <3>2
    <2>7. Available > n
      <3>1. ~(Available <= n)
        BY <2>2, <2>3 DEF AllocBlocks
      <3>2. Available \in Int
        BY FramesAssumption, Wraps DEF IInv, TypeOK, Available
      <3> QED BY <2>4, <3>1, <3>2
    <2>8. ASSUME OneRun PROVE FALSE
      <3>1. f .. f + n - 1 \subseteq FreeBits
        BY <2>0, <2>4, <2>5, <2>6, <2>7, <2>8, FfbsAnswersRun DEF IInv
      <3> QED BY <2>5, <3>1 DEF Granted, Hand
    <2> QED BY <2>3, <2>6, <2>8
  <1> QED BY <1>1, InvInit, InvStep, PTL DEF Spec, TornOnlyWhenScattered

(* Until then kstd_mem_pre_alloc_block answers NULL only when the map has  *)
(* no free frame: the count hides none.                                    *)
THEOREM NoFrameHidden == ASSUME CountsAllFrames PROVE Spec => RefusedOnlyWhenNone
  <1> DEFINE Right == AllocBlock /\ reply' = NoFrame => FreeBits = {}
  <1>1. IInv /\ [Next]_vars => [Right]_vars
    <2> SUFFICES ASSUME IInv, Next, AllocBlock, reply' = NoFrame PROVE FreeBits = {}
      OBVIOUS
    <2>0. ~torn
      BY DEF Next
    <2>1. CASE Available = 0
      <3>1. IsFiniteSet(FreeBits) /\ Cardinality(FreeBits) = 0
        BY <2>0, <2>1, FreeFinite DEF IInv, CountMatchesMap
      <3> QED BY <3>1, FS_EmptySet
    <2>2. CASE Available # 0
      <3>1. PICK f \in FirstFree : IF f = NoFrame THEN Refused ELSE Granted(f, 1)
        BY <2>2 DEF AllocBlock
      <3>2. f = NoFrame
        BY <3>1 DEF Granted, Hand
      <3>3. NoFrame \notin FreeBits
        BY BitsAreNat DEF FreeBits, NoFrame
      <3> QED BY <3>2, <3>3 DEF FirstFree
    <2> QED BY <2>1, <2>2
  <1> QED BY <1>1, InvInit, InvStep, PTL DEF Spec, RefusedOnlyWhenNone
=============================================================================
