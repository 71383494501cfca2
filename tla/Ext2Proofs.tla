----------------------------- MODULE Ext2Proofs -----------------------------
(***************************************************************************)
(* Theorems about Ext2, for every heap, disk, list of paths, value of      *)
(* uninitialised pointers and number of commands.                          *)
(*                                                                         *)
(* What the reader relies on is not inductive as it stands.  Reliable(S)   *)
(* says that there is a set S of headers such that the list stays inside   *)
(* it and goes up, that they are twenty bytes apart, so that a walk ends   *)
(* and a new header meets neither an old one nor the superblock's fields,  *)
(* and which of its blocks can be free.  It says for each place of kmain   *)
(* and for each step of a command what its pointers can be.  This holds    *)
(* until a cause is recorded: a command in the middle of kmain's malloc,   *)
(* or a write over memory that others use.                                 *)
(*                                                                         *)
(* The parts, in order: bytes in memory (Get, Put, Sector); the walk along *)
(* the list; the invariant and what keeps it; the order of a command's     *)
(* steps; one lemma for each action; the theorems.                         *)
(***************************************************************************)
EXTENDS Ext2, SequenceTheorems, WellFoundedInduction, TLAPS

Memory == [1 .. MemSize -> Octet]

LEMMA Constants ==
    /\ MemSize \in Nat /\ Total \in Nat /\ Total >= 64
    /\ MemSize >= Total + SectorSize /\ MemSize <= TooLarge /\ TooLarge \in Nat
    /\ MaxBlocks \in Nat /\ 20 * MaxBlocks >= Total
  <1>1. TooLarge \in Nat
    BY DEF TooLarge
  <1> QED BY <1>1, SizeAssumption

LEMMA Glue ==
    ASSUME NEW s \in Seq(Octet), NEW t \in Seq(Octet)
    PROVE  /\ s \o t \in Seq(Octet) /\ Len(s \o t) = Len(s) + Len(t)
           /\ Len(s) \in Nat /\ Len(t) \in Nat
           /\ \A i \in 1 .. Len(s) : (s \o t)[i] = s[i]
           /\ \A i \in 1 .. Len(t) : (s \o t)[Len(s) + i] = t[i]
  BY ConcatProperties

LEMMA ByteType ==
    ASSUME NEW m \in Memory, NEW x \in Nat PROVE Byte(m, x) \in Octet
  BY Constants DEF Memory, Octet, Byte

LEMMA WordType ==
    ASSUME NEW m \in Memory, NEW x \in Nat PROVE Word(m, x) \in Nat
  <1>1. \A k \in 0 .. 3 : Byte(m, x + k) \in Nat
    BY ByteType DEF Octet
  <1>2. Byte(m, x) \in Nat /\ Byte(m, x + 1) \in Nat /\ Byte(m, x + 2) \in Nat
    <2>1. x + 0 = x
      OBVIOUS
    <2> QED BY <1>1, <2>1
  <1>3. TooLarge \in Nat
    BY Constants
  <1> QED BY <1>2, <1>3 DEF Word

LEMMA BytesType ==
    ASSUME NEW n \in Nat
    PROVE  Bytes(n) \in Seq(Octet) /\ Len(Bytes(n)) = 4
  <1>1. \A k \in Nat : k % 256 \in Octet
    BY DEF Octet
  <1>2. n \div 256 \in Nat /\ n \div 65536 \in Nat
    OBVIOUS
  <1>3. 0 \in Octet
    BY DEF Octet
  <1> QED BY <1>1, <1>2, <1>3 DEF Bytes

LEMMA WordOf ==
    ASSUME NEW m, NEW x, NEW p \in Nat, NEW q \in Nat, NEW r \in Nat,
           Byte(m, x) = p, Byte(m, x + 1) = q, Byte(m, x + 2) = r, Byte(m, x + 3) = 0
    PROVE  Word(m, x) = p + (256 * q) + (65536 * r)
  <1>1. ~(Byte(m, x + 3) > 0)
    OBVIOUS
  <1> QED BY <1>1 DEF Word

(* A word that is stored is read again. *)
LEMMA BytesWord ==
    ASSUME NEW m, NEW x \in Nat, NEW n \in Nat, n < TooLarge,
           \A k \in 0 .. 3 : Byte(m, x + k) = Bytes(n)[k + 1]
    PROVE  Word(m, x) = n
  <1>1. /\ Byte(m, x) = n % 256 /\ Byte(m, x + 1) = (n \div 256) % 256
        /\ Byte(m, x + 2) = (n \div 65536) % 256 /\ Byte(m, x + 3) = 0
    <2>1. x + 0 = x /\ 0 \in 0 .. 3 /\ 1 \in 0 .. 3 /\ 2 \in 0 .. 3 /\ 3 \in 0 .. 3
      OBVIOUS
    <2>2. /\ Bytes(n)[0 + 1] = n % 256 /\ Bytes(n)[1 + 1] = (n \div 256) % 256
          /\ Bytes(n)[2 + 1] = (n \div 65536) % 256 /\ Bytes(n)[3 + 1] = 0
      BY DEF Bytes
    <2> QED BY <2>1, <2>2
  <1>2. (n % 256) + 256 * ((n \div 256) % 256) + 65536 * ((n \div 65536) % 256) = n
    BY DEF TooLarge
  <1> DEFINE p == n % 256
             q == (n \div 256) % 256
             r == (n \div 65536) % 256
  <1>3. p \in Nat /\ q \in Nat /\ r \in Nat /\ p + (256 * q) + (65536 * r) = n
    BY <1>2
  <1>4. Byte(m, x) = p /\ Byte(m, x + 1) = q /\ Byte(m, x + 2) = r /\ Byte(m, x + 3) = 0
    BY <1>1
  <1> HIDE DEF p, q, r
  <1> QED BY <1>3, <1>4, WordOf

(* Same bytes, same word. *)
LEMMA SameWord ==
    ASSUME NEW m, NEW w, NEW x \in Nat,
           \A k \in 0 .. 3 : Byte(w, x + k) = Byte(m, x + k)
    PROVE  Word(w, x) = Word(m, x)
  <1>1. x + 0 = x
    OBVIOUS
  <1>2. /\ Byte(w, x) = Byte(m, x) /\ Byte(w, x + 1) = Byte(m, x + 1)
        /\ Byte(w, x + 2) = Byte(m, x + 2) /\ Byte(w, x + 3) = Byte(m, x + 3)
    BY <1>1
  <1> QED BY <1>2 DEF Word

LEMMA SmallerOfTwo ==
    ASSUME NEW a \in Nat, NEW b \in Nat
    PROVE  Min({a, b}) = IF a <= b THEN a ELSE b
  BY DEF Min

LEMMA PutByte ==
    ASSUME NEW m \in Memory, NEW a \in Nat, NEW s \in Seq(Octet)
    PROVE  /\ Put(m, a, s) \in Memory
           /\ \A x \in Nat : Byte(Put(m, a, s), x) =
                 IF x < MemSize /\ a <= x /\ x < a + Len(s) THEN s[x - a + 1]
                 ELSE Byte(m, x)
  <1>0. MemSize \in Nat /\ m \in Seq(Octet) /\ Len(m) = MemSize /\ Len(s) \in Nat
    BY Constants DEF Memory
  <1>1. CASE a >= MemSize
    BY <1>0, <1>1 DEF Put
  <1>2. CASE a < MemSize
    <2> DEFINE k == Min({Len(s), MemSize - a})
               l == SubSeq(m, 1, a)
               c == SubSeq(s, 1, k)
               r == SubSeq(m, a + Len(s) + 1, MemSize)
    <2>1. /\ k \in Nat /\ k <= Len(s) /\ a + k <= MemSize
          /\ k = Len(s) \/ a + k = MemSize
      <3>1. MemSize - a \in Nat
        BY <1>0, <1>2
      <3> QED BY <1>0, <1>2, <3>1, SmallerOfTwo
    <2>2. /\ l \in Seq(Octet) /\ Len(l) = a /\ \A i \in 1 .. a : l[i] = m[i]
      BY <1>0, <1>2, SubSeqProperties
    <2> HIDE DEF k
    <2>3. /\ c \in Seq(Octet) /\ Len(c) = k /\ \A i \in 1 .. k : c[i] = s[i]
      BY <1>0, <2>1, SubSeqProperties
    <2>4. /\ r \in Seq(Octet) /\ Len(r) = MemSize - (a + k)
          /\ \A i \in 1 .. MemSize - (a + k) : r[i] = m[i + a + k]
      <3>1. CASE k = Len(s)
        BY <1>0, <2>1, <3>1, SubSeqProperties
      <3>2. CASE k # Len(s)
        BY <1>0, <2>1, <3>2, SubSeqProperties
      <3> QED BY <3>1, <3>2
    <2> HIDE DEF l, c, r
    <2>5. Put(m, a, s) = l \o c \o r
      <3>1. ~(a >= MemSize)
        BY <1>0, <1>2
      <3> QED BY <3>1, Zenon DEF Put, k, l, c, r
    <2>6. /\ l \o c \in Seq(Octet) /\ Len(l \o c) = a + k
          /\ \A i \in 1 .. a : (l \o c)[i] = m[i]
          /\ \A i \in 1 .. k : (l \o c)[a + i] = s[i]
      <3>1. /\ l \o c \in Seq(Octet) /\ Len(l \o c) = Len(l) + Len(c)
            /\ \A i \in 1 .. Len(l) : (l \o c)[i] = l[i]
            /\ \A i \in 1 .. Len(c) : (l \o c)[Len(l) + i] = c[i]
        <4>1. l \in Seq(Octet) /\ c \in Seq(Octet)
          BY <2>2, <2>3
        <4> QED BY <4>1, Glue
      <3> QED BY <2>2, <2>3, <3>1
    <2>7. /\ Put(m, a, s) \in Seq(Octet) /\ Len(Put(m, a, s)) = MemSize
          /\ \A i \in 1 .. a + k : Put(m, a, s)[i] = (l \o c)[i]
          /\ \A i \in 1 .. MemSize - (a + k) : Put(m, a, s)[a + k + i] = r[i]
      <3>1. /\ (l \o c) \o r \in Seq(Octet)
            /\ Len((l \o c) \o r) = Len(l \o c) + Len(r)
            /\ \A i \in 1 .. Len(l \o c) : ((l \o c) \o r)[i] = (l \o c)[i]
            /\ \A i \in 1 .. Len(r) : ((l \o c) \o r)[Len(l \o c) + i] = r[i]
        <4>1. l \o c \in Seq(Octet) /\ r \in Seq(Octet)
          BY <2>4, <2>6
        <4> QED BY <4>1, Glue
      <3>2. (a + k) + (MemSize - (a + k)) = MemSize
        BY <1>0, <2>1
      <3> QED BY <2>4, <2>5, <2>6, <3>1, <3>2
    <2>8. Put(m, a, s) \in Memory
      BY <2>7 DEF Memory
    <2>9. ASSUME NEW x \in Nat
          PROVE  Byte(Put(m, a, s), x) =
                    IF x < MemSize /\ a <= x /\ x < a + Len(s) THEN s[x - a + 1]
                    ELSE Byte(m, x)
      <3>1. CASE x >= MemSize
        BY <1>0, <3>1 DEF Byte
      <3>2. CASE x < a
        <4>1. x + 1 \in 1 .. a /\ x + 1 \in 1 .. a + k
          BY <2>1, <3>2
        <4>2. Put(m, a, s)[x + 1] = m[x + 1]
          BY <2>6, <2>7, <4>1
        <4> QED BY <1>0, <1>2, <3>2, <4>2 DEF Byte
      <3>3. CASE a <= x /\ x < a + k
        <4>1. x - a + 1 \in 1 .. k /\ a + (x - a + 1) = x + 1 /\ x + 1 \in 1 .. a + k
          BY <2>1, <3>3
        <4>2. x < MemSize /\ x < a + Len(s)
          BY <1>0, <2>1, <3>3
        <4>3. (l \o c)[x + 1] = s[x - a + 1]
          BY <2>6, <4>1
        <4> QED BY <2>7, <3>3, <4>1, <4>2, <4>3 DEF Byte
      <3>4. CASE a + k <= x /\ x < MemSize
        <4>1. /\ x + 1 - (a + k) \in 1 .. MemSize - (a + k)
              /\ (a + k) + (x + 1 - (a + k)) = x + 1
              /\ (x + 1 - (a + k)) + a + k = x + 1
          BY <1>0, <2>1, <3>4
        <4>2. ~(x < a + Len(s))
          BY <1>0, <2>1, <3>4
        <4>3. Put(m, a, s)[x + 1] = r[x + 1 - (a + k)]
          BY <2>7, <4>1
        <4>4. r[x + 1 - (a + k)] = m[x + 1]
          BY <2>4, <4>1
        <4> QED BY <3>4, <4>2, <4>3, <4>4 DEF Byte
      <3> QED BY <1>0, <2>1, <3>1, <3>2, <3>3, <3>4
    <2> QED BY <2>8, <2>9
  <1> QED BY <1>0, <1>1, <1>2

LEMMA GetType ==
    ASSUME NEW m \in Memory, NEW a \in Nat, NEW n \in Nat
    PROVE  Get(m, a, n) \in Seq(Octet) /\ Len(Get(m, a, n)) = n
  <1>1. \A k \in 1 .. n : Byte(m, a + k - 1) \in Octet
    BY ByteType
  <1> QED BY <1>1 DEF Get

LEMMA SectorsNat == Sectors \in Nat
  BY DiskAssumption

LEMMA DiskByte ==
    ASSUME NEW l \in 0 .. Sectors - 1, NEW i \in 1 .. SectorSize
    PROVE  Disk[l][i] \in Octet
  <1>1. Disk \in [0 .. Sectors - 1 -> [1 .. SectorSize -> Octet]]
    BY Ext2Assumption, Zenon
  <1>2. Disk[l] \in [1 .. SectorSize -> Octet]
    BY <1>1, Zenon
  <1> QED BY <1>2, Zenon

(* Nothing in front of the buffer is written, and the first sector is at   *)
(* its start.                                                              *)
LEMMA SectorByte ==
    ASSUME NEW m \in Memory, NEW lba \in Nat, NEW n \in Nat, NEW a \in Nat,
           lba + n <= Sectors
    PROVE  /\ Sector(m, lba, n, a) \in Memory
           /\ \A x \in Nat : x < a \/ n = 0
                 => Byte(Sector(m, lba, n, a), x) = Byte(m, x)
           /\ \A x \in Nat : a <= x /\ x < a + SectorSize /\ x < MemSize /\ n > 0
                 => Byte(Sector(m, lba, n, a), x) = Disk[lba][x - a + 1]
  <1> DEFINE o(x) == x - 1 - a
  <1>0. MemSize \in Nat
    BY Constants
  <1>1. ASSUME NEW x \in 1 .. MemSize, o(x) >= 0, o(x) \div Stride < n, o(x) % Stride < SectorSize
        PROVE  Disk[lba + (o(x) \div Stride)][(o(x) % Stride) + 1] \in Octet
    <2>1. o(x) \div Stride \in Nat /\ (o(x) % Stride) + 1 \in 1 .. SectorSize
      BY <1>0, <1>1 DEF SectorSize, Stride
    <2>2. Sectors \in Nat
      BY SectorsNat
    <2>3. lba + (o(x) \div Stride) \in 0 .. Sectors - 1
      <3> HIDE DEF o
      <3> QED BY <1>1, <2>1, <2>2
    <2> HIDE DEF o
    <2> QED BY <2>1, <2>3, DiskByte, Zenon
  <1>2. Sector(m, lba, n, a) \in Memory
    BY <1>1 DEF Sector, Memory
  <1>3. ASSUME NEW x \in Nat, x < a \/ n = 0
        PROVE  Byte(Sector(m, lba, n, a), x) = Byte(m, x)
    <2>1. CASE x >= MemSize
      BY <1>0, <2>1 DEF Byte
    <2>2. CASE x < MemSize
      <3>1. x + 1 \in 1 .. MemSize /\ ~(o(x + 1) >= 0 /\ o(x + 1) \div Stride < n)
        BY <1>0, <1>3, <2>2 DEF Stride
      <3> QED BY <2>2, <3>1 DEF Byte, Sector
    <2> QED BY <1>0, <2>1, <2>2
  <1>4. ASSUME NEW x \in Nat, a <= x, x < a + SectorSize, x < MemSize, n > 0
        PROVE  Byte(Sector(m, lba, n, a), x) = Disk[lba][x - a + 1]
    <2>1. /\ x + 1 \in 1 .. MemSize /\ o(x + 1) = x - a
          /\ o(x + 1) >= 0 /\ o(x + 1) \div Stride = 0 /\ o(x + 1) % Stride = x - a
          /\ x - a < SectorSize
      BY <1>0, <1>4 DEF SectorSize, Stride
    <2>2. lba + (o(x + 1) \div Stride) = lba
      BY <2>1
    <2>3. Sector(m, lba, n, a)[x + 1] = Disk[lba][x - a + 1]
      BY <1>4, <2>1, <2>2 DEF Sector
    <2> QED BY <1>4, <2>3 DEF Byte
  <1> QED BY <1>2, <1>3, <1>4

-----------------------------------------------------------------------------
(* Numbers and functions on them.                                          *)

LEMMA Lowest ==
    ASSUME NEW T, T \subseteq Nat, T # {}
    PROVE  \E x \in T : \A y \in T : x <= y
  <1>1. \E x \in T : \A y \in T : ~ (<<y, x>> \in OpToRel(<, Nat))
    BY NatLessThanWellFounded, WFMin
  <1>2. PICK x \in T : \A y \in T : ~ (<<y, x>> \in OpToRel(<, Nat))
    BY <1>1, Zenon
  <1>3. ASSUME NEW y \in T PROVE x <= y
    <2>1. x \in Nat /\ y \in Nat
      OBVIOUS
    <2>2. ~ (y < x)
      BY <1>2, <2>1, Zenon DEF OpToRel
    <2> QED BY <2>1, <2>2
  <1> QED BY <1>3

(* What holds of 0, or of the first, and of the next of each, holds of all. *)
LEMMA Inductive ==
    ASSUME NEW T, 0 \in T, \A k \in Nat : k \in T => k + 1 \in T
    PROVE  Nat \subseteq T
  <1> SUFFICES ASSUME Nat \ T # {} PROVE FALSE
    OBVIOUS
  <1>1. PICK x \in Nat \ T : \A y \in Nat \ T : x <= y
    BY Lowest, Zenon
  <1>2. x - 1 \in Nat /\ (x - 1) + 1 = x
    BY <1>1
  <1>3. x - 1 \in T
    BY <1>1, <1>2
  <1> QED BY <1>1, <1>2, <1>3

LEMMA Greatest ==
    ASSUME NEW n \in Nat, NEW T, T \subseteq 1 .. n, T # {}
    PROVE  Max(T) \in T /\ \A y \in T : y <= Max(T)
  <1> DEFINE U == {k \in Nat : \E y \in T : y = n - k}
  <1>1. U # {} /\ U \subseteq Nat
    <2>1. PICK y \in T : TRUE
      OBVIOUS
    <2>2. n - y \in Nat /\ y = n - (n - y)
      BY <2>1
    <2> QED BY <2>2
  <1>2. PICK k \in U : \A l \in U : k <= l
    BY <1>1, Lowest
  <1>3. PICK x \in T : x = n - k
    BY <1>2
  <1>4. ASSUME NEW y \in T PROVE x >= y
    <2>1. n - y \in Nat /\ y = n - (n - y)
      OBVIOUS
    <2>2. k <= n - y
      BY <1>2, <2>1
    <2> QED BY <1>2, <1>3, <2>2
  <1>5. Max(T) \in T /\ \A y \in T : Max(T) >= y
    BY <1>3, <1>4, Zenon DEF Max
  <1> QED BY <1>5

LEMMA Smallest ==
    ASSUME NEW T, T \subseteq Nat, T # {}
    PROVE  Min(T) \in T /\ \A y \in T : Min(T) <= y
  <1>1. \E x \in T : \A y \in T : x <= y
    BY Lowest, Zenon
  <1> QED BY <1>1, Zenon DEF Min

LEMMA Recursion ==
    ASSUME NEW S, NEW first \in S, NEW step \in [S -> S]
    PROVE  \E f : f = [k \in Nat |-> IF k = 0 THEN first ELSE step[f[k - 1]]]
  <1> DEFINE Starts(g, n) == /\ g \in [0 .. n -> S] /\ g[0] = first
                             /\ \A k \in 1 .. n : g[k] = step[g[k - 1]]
             Started == {n \in Nat : \E g : Starts(g, n)}
  <1>1. 0 \in Started
    <2>1. Starts([k \in 0 .. 0 |-> first], 0)
      OBVIOUS
    <2> HIDE DEF Starts
    <2> QED BY <2>1
  <1>2. ASSUME NEW n \in Nat, n \in Started PROVE n + 1 \in Started
    <2>1. PICK g : Starts(g, n)
      BY <1>2
    <2> DEFINE h == [k \in 0 .. n + 1 |-> IF k = n + 1 THEN step[g[n]] ELSE g[k]]
    <2>2. n \in 0 .. n /\ g[n] \in S /\ step[g[n]] \in S
      BY <2>1
    <2>3. h \in [0 .. n + 1 -> S]
      BY <2>1, <2>2
    <2>4. h[0] = first
      BY <2>1
    <2>5. ASSUME NEW k \in 1 .. n + 1 PROVE h[k] = step[h[k - 1]]
      <3>1. CASE k = n + 1
        BY <3>1
      <3>2. CASE k # n + 1
        <4>1. k \in 1 .. n /\ k - 1 # n + 1 /\ k - 1 \in 0 .. n + 1 /\ k \in 0 .. n + 1
          BY <3>2
        <4> QED BY <2>1, <4>1
      <3> QED BY <3>1, <3>2
    <2> HIDE DEF h
    <2>6. Starts(h, n + 1)
      BY <2>3, <2>4, <2>5
    <2> HIDE DEF Starts
    <2> QED BY <2>6
  <1> HIDE DEF Started
  <1>3. Nat \subseteq Started
    BY <1>1, <1>2, Inductive
  <1>4. \A n \in Nat : \E g : Starts(g, n)
    BY <1>3 DEF Started
  <1>5. ASSUME NEW g, NEW h, NEW n \in Nat, Starts(g, n + 1), Starts(h, n)
        PROVE  g[n] = h[n]
    <2> DEFINE Agree == {k \in Nat : k <= n => g[k] = h[k]}
    <2>1. 0 \in Agree
      BY <1>5
    <2>2. ASSUME NEW k \in Nat, k \in Agree PROVE k + 1 \in Agree
      <3>1. CASE k + 1 <= n
        <4>1. k + 1 \in 1 .. n /\ k + 1 \in 1 .. n + 1 /\ (k + 1) - 1 = k /\ k <= n
          BY <3>1
        <4>2. g[k + 1] = step[g[(k + 1) - 1]] /\ h[k + 1] = step[h[(k + 1) - 1]]
          BY <1>5, <4>1
        <4>3. g[k] = h[k]
          BY <2>2, <4>1
        <4> QED BY <4>1, <4>2, <4>3
      <3> QED BY <3>1
    <2> HIDE DEF Agree
    <2>3. n \in Agree
      BY <2>1, <2>2, Inductive
    <2> QED BY <2>3 DEF Agree
  <1> DEFINE Chosen(n) == CHOOSE g : Starts(g, n)
             f == [k \in Nat |-> Chosen(k)[k]]
  <1>6. \A n \in Nat : Starts(Chosen(n), n)
    <2> HIDE DEF Starts
    <2> QED BY <1>4
  <1> HIDE DEF Chosen
  <1>7. ASSUME NEW k \in Nat PROVE f[k] = IF k = 0 THEN first ELSE step[f[k - 1]]
    <2>1. CASE k = 0
      BY <1>6, <2>1
    <2>2. CASE k # 0
      <3>1. k - 1 \in Nat /\ (k - 1) + 1 = k /\ k \in 1 .. k
        BY <2>2
      <3>2. Chosen(k)[k] = step[Chosen(k)[k - 1]]
        BY <1>6, <3>1
      <3>3. Chosen(k)[k - 1] = Chosen(k - 1)[k - 1]
        <4> HIDE DEF Starts
        <4>1. Starts(Chosen(k), (k - 1) + 1) /\ Starts(Chosen(k - 1), k - 1)
          BY <1>6, <3>1
        <4> QED BY <1>5, <3>1, <4>1
      <3> QED BY <2>2, <3>1, <3>2, <3>3
    <2> QED BY <2>1, <2>2
  <1>8. f = [k \in Nat |-> IF k = 0 THEN first ELSE step[f[k - 1]]]
    BY <1>7
  <1> QED BY <1>8
-----------------------------------------------------------------------------
(* The walk along the list.                                                *)

LEMMA LinkType ==
    ASSUME NEW m \in Memory, NEW b \in Nat PROVE Link(m, b) \in Nat
  <1>1. b + NextAt \in Nat /\ NULL \in Nat
    BY DEF NextAt, NULL
  <1> QED BY <1>1, WordType DEF Link

LEMMA HeadersAre ==
    ASSUME NEW m \in Memory, NEW h \in Nat
    PROVE  /\ Headers(m, h) \in Seq(Nat) /\ Len(Headers(m, h)) = MaxBlocks + 1
           /\ Headers(m, h)[1] = h
           /\ \A i \in 1 .. MaxBlocks :
                 Headers(m, h)[i + 1] = Link(m, Headers(m, h)[i])
  <1> DEFINE S == Seq(Nat) \ {<<>>}
             longer == [w \in S |-> Append(w, Link(m, w[Len(w)]))]
             first == <<h>>
             Walk(f) == f = [k \in Nat |-> IF k = 0 THEN first ELSE longer[f[k - 1]]]
             walk == CHOOSE f : Walk(f)
  <1>0. MaxBlocks \in Nat
    BY Constants
  <1>1. first \in S
    OBVIOUS
  <1>2. ASSUME NEW w \in S
        PROVE  /\ Len(w) \in Nat /\ Len(w) >= 1 /\ longer[w] \in S
               /\ Len(longer[w]) = Len(w) + 1
               /\ longer[w][Len(w) + 1] = Link(m, w[Len(w)])
               /\ \A i \in 1 .. Len(w) : longer[w][i] = w[i]
    <2>1. w \in Seq(Nat) /\ Len(w) \in Nat /\ Len(w) >= 1
      BY EmptySeq
    <2>2. w[Len(w)] \in Nat
      BY <2>1
    <2>3. Link(m, w[Len(w)]) \in Nat
      BY <2>2, LinkType
    <2> QED BY <2>1, <2>3
  <1>3. longer \in [S -> S]
    BY <1>2
  <1> HIDE DEF longer, first, S
  <1>4. Walk(walk)
    <2>1. \E f : Walk(f)
      BY <1>1, <1>3, Recursion
    <2> HIDE DEF Walk
    <2> QED BY <2>1, Zenon
  <1> HIDE DEF walk
  <1> DEFINE Right(k) == /\ walk[k] \in S /\ Len(walk[k]) = k + 1 /\ walk[k][1] = h
                         /\ \A i \in 1 .. k : walk[k][i + 1] = Link(m, walk[k][i])
             T == {k \in Nat : Right(k)}
  <1>5. walk[0] = first /\ \A k \in Nat : walk[k + 1] = longer[walk[k]]
    <2>1. \A k \in Nat : k + 1 # 0 /\ (k + 1) - 1 = k /\ k + 1 \in Nat
      OBVIOUS
    <2> QED BY <1>4, <2>1
  <1>6. 0 \in T
    BY <1>1, <1>5 DEF first
  <1>7. ASSUME NEW k \in Nat, k \in T PROVE k + 1 \in T
    <2>0. Right(k)
      BY <1>7
    <2>1. walk[k + 1] \in S /\ Len(walk[k + 1]) = (k + 1) + 1
      BY <1>2, <1>5, <2>0
    <2>2. \A i \in 1 .. k + 1 : walk[k + 1][i] = walk[k][i]
      <3>1. \A i \in 1 .. Len(walk[k]) : longer[walk[k]][i] = walk[k][i]
        BY <1>2, <2>0
      <3>2. Len(walk[k]) = k + 1 /\ walk[k + 1] = longer[walk[k]]
        BY <1>5, <2>0
      <3> QED BY <3>1, <3>2
    <2>3. walk[k + 1][(k + 1) + 1] = Link(m, walk[k][k + 1])
      BY <1>2, <1>5, <2>0
    <2>4. ASSUME NEW i \in 1 .. k + 1
          PROVE  walk[k + 1][i + 1] = Link(m, walk[k + 1][i])
      <3>1. CASE i = k + 1
        BY <2>2, <2>3, <3>1
      <3>2. CASE i # k + 1
        <4>1. i \in 1 .. k /\ i + 1 \in 1 .. k + 1
          BY <3>2
        <4> QED BY <2>0, <2>2, <4>1
      <3> QED BY <3>1, <3>2
    <2>5. walk[k + 1][1] = h
      <3>1. 1 \in 1 .. k + 1
        OBVIOUS
      <3> QED BY <2>0, <2>2, <3>1
    <2> QED BY <2>1, <2>4, <2>5
  <1> HIDE DEF T
  <1>8. MaxBlocks \in T
    BY <1>0, <1>6, <1>7, Inductive
  <1>9. Right(MaxBlocks)
    BY <1>8 DEF T
  <1>10. walk[MaxBlocks] = Headers(m, h)
    BY Zenon DEF walk, Walk, longer, first, S, Headers
  <1> QED BY <1>9, <1>10 DEF S

(* Of a set of headers that link to each other no walk gets out.           *)
Closed(m, S) == \A b \in S : /\ b \in Nat /\ InMemory(b)
                             /\ Word(m, b + NextAt) \in S \cup {NULL}

LEMMA WalkStays ==
    ASSUME NEW m \in Memory, NEW S, Closed(m, S), NEW h \in Nat, h \in S \cup {NULL}
    PROVE  \A i \in 1 .. MaxBlocks + 1 : Headers(m, h)[i] \in S \cup {NULL}
  <1> DEFINE W == Headers(m, h)
             T == {k \in Nat : k <= MaxBlocks => W[k + 1] \in S \cup {NULL}}
  <1>0. MaxBlocks \in Nat /\ NULL \in Nat
    BY Constants DEF NULL
  <1>1. \A b \in S \cup {NULL} : Link(m, b) \in S \cup {NULL}
    BY DEF Closed, Link, InMemory
  <1>2. W[1] = h /\ \A i \in 1 .. MaxBlocks : W[i + 1] = Link(m, W[i])
    BY HeadersAre
  <1> HIDE DEF W
  <1>3. 0 \in T
    BY <1>2
  <1>4. ASSUME NEW k \in Nat, k \in T PROVE k + 1 \in T
    <2>1. CASE k + 1 <= MaxBlocks
      <3>1. k + 1 \in 1 .. MaxBlocks /\ W[k + 1] \in S \cup {NULL}
        BY <1>0, <1>4, <2>1
      <3>2. W[(k + 1) + 1] \in S \cup {NULL}
        BY <1>1, <1>2, <3>1
      <3> QED BY <3>2
    <2> QED BY <1>0, <2>1
  <1> HIDE DEF T
  <1>5. Nat \subseteq T
    BY <1>3, <1>4, Inductive
  <1>6. ASSUME NEW i \in 1 .. MaxBlocks + 1 PROVE W[i] \in S \cup {NULL}
    <2>1. i - 1 \in Nat /\ i - 1 <= MaxBlocks /\ (i - 1) + 1 = i
      BY <1>0
    <2>2. i - 1 \in T
      BY <1>5, <2>1
    <2> QED BY <2>1, <2>2 DEF T
  <1> QED BY <1>6 DEF W

(* Headers that are 20 bytes or more apart.                                *)
Spaced(m, S) ==
    \A b \in S : /\ First <= b /\ b <= Total + 3
                 /\ Word(m, b + NextAt) = NULL \/ b + First <= Word(m, b + NextAt)

LEMMA WalkEnds ==
    ASSUME NEW m \in Memory, NEW S, Closed(m, S), Spaced(m, S),
           NEW h \in Nat, h \in S \cup {NULL}
    PROVE  LET headers == Headers(m, h)
               last == LastHeader(headers)
           IN  /\ EndFound(m, headers)
               /\ h = NULL => last = NULL /\ Listed(headers) = {}
               /\ h # NULL => last \in S /\ Word(m, last + NextAt) = NULL
               /\ \A i \in Listed(headers) : headers[i] \in S
  <1> DEFINE W == Headers(m, h)
             L == Listed(W)
             j == Max(L)
  <1>0. MaxBlocks \in Nat /\ MaxBlocks > 0 /\ NULL \in Nat
    BY Constants DEF NULL
  <1>1. W[1] = h /\ \A i \in 1 .. MaxBlocks : W[i + 1] = Link(m, W[i])
    BY HeadersAre
  <1>2. \A i \in 1 .. MaxBlocks + 1 : W[i] \in S \cup {NULL}
    BY WalkStays
  <1> HIDE DEF W
  <1>3. L \subseteq 1 .. MaxBlocks /\ \A i \in L : W[i] \in S /\ InMemory(W[i])
    <2>1. ASSUME NEW i \in L
          PROVE  i \in 1 .. MaxBlocks /\ W[i] \in S /\ InMemory(W[i])
      <3>1. i \in 1 .. MaxBlocks /\ InMemory(W[i])
        BY Zenon DEF Listed
      <3>2. i \in 1 .. MaxBlocks + 1
        BY <1>0, <3>1
      <3> QED BY <1>2, <3>1, <3>2 DEF InMemory
    <2> QED BY <2>1
  <1>4. CASE h = NULL
    <2>1. Closed(m, {}) /\ h \in {} \cup {NULL}
      BY <1>4 DEF Closed
    <2>2. \A i \in 1 .. MaxBlocks + 1 : W[i] \in {} \cup {NULL}
      BY <2>1, WalkStays DEF W
    <2>3. L = {}
      BY <1>0, <2>2 DEF Listed, InMemory
    <2>4. EndFound(m, W) /\ LastHeader(W) = NULL
      BY <1>1, <1>4, <2>3 DEF EndFound, LastHeader
    <2> QED BY <1>4, <2>3, <2>4 DEF W
  <1>5. CASE h # NULL
    <2>1. 1 \in L
      <3>1. 1 \in 1 .. MaxBlocks
        BY <1>0
      <3> QED BY <1>1, <1>5, <3>1 DEF Listed, Closed
    <2>2. j \in L /\ \A i \in L : i <= j
      <3> HIDE DEF L
      <3> QED BY <1>0, <1>3, <2>1, Greatest
    <2>3. j \in 1 .. MaxBlocks /\ W[j] \in S /\ InMemory(W[j])
      BY <1>3, <2>2
    <2> HIDE DEF j
    <2>4. W[j + 1] = Word(m, W[j] + NextAt)
      BY <1>1, <2>3 DEF Link
    <2>5. Word(m, W[j] + NextAt) = NULL
      <3> SUFFICES ASSUME W[j + 1] # NULL PROVE FALSE
        BY <2>4
      <3> DEFINE T == {k \in Nat : k + 1 <= MaxBlocks + 1 =>
                                      W[k + 1] = NULL \/ First * (k + 1) <= W[k + 1]}
      <3>0. First = 20 /\ NULL = 0 /\ Total \in Nat
        BY Constants DEF First, NULL
      <3>1. \A b \in S : /\ b \in Nat /\ First <= b /\ b <= Total + 3
                         /\ Link(m, b) = NULL \/ b + First <= Link(m, b)
        BY DEF Closed, Spaced, Link
      <3>2. Link(m, NULL) = NULL
        BY DEF Link, InMemory
      <3>3. 0 \in T
        BY <1>0, <1>1, <1>5, <3>0, <3>1
      <3>4. ASSUME NEW k \in Nat, k \in T PROVE k + 1 \in T
        <4>1. CASE k + 1 <= MaxBlocks
          <5>1. /\ k + 1 \in 1 .. MaxBlocks /\ k + 1 \in 1 .. MaxBlocks + 1
                /\ W[k + 1] = NULL \/ First * (k + 1) <= W[k + 1]
            BY <1>0, <3>4, <4>1
          <5>2. W[k + 1] \in S \cup {NULL} /\ W[(k + 1) + 1] = Link(m, W[k + 1])
            BY <1>1, <1>2, <5>1
          <5>3. W[(k + 1) + 1] = NULL \/ First * ((k + 1) + 1) <= W[(k + 1) + 1]
            <6>1. CASE W[k + 1] = NULL
              BY <3>2, <5>2, <6>1
            <6>2. CASE W[k + 1] # NULL
              <7>1. /\ W[k + 1] \in Nat
                    /\ Link(m, W[k + 1]) = NULL \/ W[k + 1] + First <= Link(m, W[k + 1])
                BY <3>1, <5>2, <6>2
              <7>2. Link(m, W[k + 1]) \in Nat
                BY <7>1, LinkType
              <7> QED BY <3>0, <5>1, <5>2, <6>2, <7>1, <7>2
            <6> QED BY <6>1, <6>2
          <5> QED BY <5>3
        <4> QED BY <1>0, <4>1
      <3> HIDE DEF T
      <3>5. MaxBlocks \in T
        BY <1>0, <3>3, <3>4, Inductive
      <3>6. W[MaxBlocks + 1] = NULL \/ First * (MaxBlocks + 1) <= W[MaxBlocks + 1]
        BY <1>0, <3>5 DEF T
      <3>7. j + 1 \in 1 .. MaxBlocks + 1
        BY <1>0, <2>3
      <3>8. W[j + 1] \in S
        BY <1>2, <3>7
      <3>9. j = MaxBlocks
        <4>1. ~(j + 1 \in L)
          BY <2>2, <2>3
        <4>2. ~(j + 1 \in 1 .. MaxBlocks)
          BY <3>8, <4>1 DEF Listed, Closed
        <4> QED BY <1>0, <2>3, <4>2
      <3>10. 20 * MaxBlocks >= Total
        BY Constants
      <3>11. First * (MaxBlocks + 1) <= W[MaxBlocks + 1]
        BY <3>6, <3>9
      <3>12. W[MaxBlocks + 1] \in Nat /\ W[MaxBlocks + 1] <= Total + 3
        BY <3>1, <3>8, <3>9
      <3>13. First * (MaxBlocks + 1) = 20 * MaxBlocks + 20
        BY <1>0, <3>0
      <3> QED BY <1>0, <3>0, <3>10, <3>11, <3>12, <3>13
    <2>6. LastHeader(W) = W[j] /\ L # {}
      BY <2>1 DEF LastHeader, j
    <2>7. EndFound(m, W)
      BY <2>5, <2>6 DEF EndFound
    <2> HIDE DEF L
    <2> QED BY <1>3, <1>5, <2>3, <2>5, <2>6, <2>7 DEF W, L
  <1> QED BY <1>4, <1>5
-----------------------------------------------------------------------------
(* The invariant.  S is the set of the list's headers.                     *)

Fresh == boot # "mounted"

(* Before the mount the heap's first payload may be freed: it is the one   *)
(* that CLEAR asked for, and has two bytes.  A block without a payload is  *)
(* freed by a CLEAR that got none.                                         *)
FreeAsKnown(m, u, fresh, b) ==
    Byte(m, b + IsFreeAt) = 1 =>
        \/ Word(m, b + DataAt) = NULL /\ u + 2 >= Total
        \/ fresh /\ b = First /\ Word(m, b + DataAt) = First + 6 /\ Word(m, b) = 2

List(S, m, u, fresh) ==
    /\ \A b \in S : b \in Nat /\ First <= b /\ b <= Total + 3 /\ b <= u
    /\ S # {} => First \in S /\ First + 5 <= u
    /\ \A b, c \in S : b < c => b + First <= c
    /\ \A b \in S : \/ Word(m, b + NextAt) = NULL
                    \/ Word(m, b + NextAt) \in S /\ b < Word(m, b + NextAt)
    /\ \A b \in S : FreeAsKnown(m, u, fresh, b)

(* kmain on an empty list, and on one that a command began.                *)
KmainAlone ==
    /\ boot \in {"look"} \cup Window
    /\ temp = NULL
    /\ used = IF boot \in {"publish", "finish"} THEN First ELSE 0
    /\ head = IF boot = "finish" THEN First ELSE NULL
    /\ boot \in {"count", "store", "publish", "finish"} => at = First
    /\ boot = "store" => reg = 0

KmainOn(S) ==
    /\ head = First
    /\ boot \in Window => temp \in S
    /\ boot \in {"count", "store"} =>
          \/ at = NULL /\ used + HeaderSize >= Total
          \/ at = used + First /\ used + HeaderSize < Total
    /\ boot = "store" => reg = used
    /\ boot \in {"publish", "finish"} =>
          \/ at = NULL /\ used + HeaderSize >= Total
          \/ at = used /\ at <= Total + 3 /\ \A b \in S : b + First <= at

KmainAt(S) ==
    /\ used <= Total + 3
    /\ IF S = {} THEN KmainAlone ELSE KmainOn(S)
    /\ boot \in {"mount", "mounted"} => S # {} /\ used >= 28

(* The fields of the superblock by which ext2.c goes, and the next of its  *)
(* first header's bytes.                                                   *)
Geometry(m) ==
    \A a \in (24 .. 27) \cup (32 .. 35) \cup (40 .. 43) : Byte(m, a) = Disk[2][a + 1]

(* A buffer of four bytes that was allocated last.                         *)
Newest(S, a) == a = NULL \/ (a = used /\ 48 <= a /\ \A b \in S : b + 16 <= a)

Freeable(S) ==
    \/ loc.obj = NULL /\ used + 2 >= Total
    \/ Fresh /\ loc.obj = First + 6 /\ Word(mem, First) = 2
    \/ loc.obj # NULL /\ \A b \in S : loc.obj # b + 6

Copyable(S) ==
    \/ loc.tmp = NULL
    \/ loc.len = 0
    \/ Fresh /\ loc.tmp = First + 6 /\ loc.len <= 1
    \/ /\ 48 <= loc.tmp
       /\ \A b \in S : /\ b + 10 + 2 * loc.len <= loc.tmp
                       /\ Byte(mem, b + IsFreeAt) = 1 => Fresh /\ b = First

StepAt(S) ==
    /\ loc.len <= 15
    /\ work # <<>> =>
          /\ boot \notin Window
          /\ S = {} => Head(work) \in {"fdata", "obj"}
          /\ Head(work) = "free" => Freeable(S)
          /\ Head(work) = "compare" => Copyable(S)
          /\ Head(work) = "read_inode" => Newest(S, loc.inode_tmp)
          /\ Head(work) = "read_data" => Newest(S, loc.filedata)
          /\ Head(work) = "read_dir" => Newest(S, loc.dir)

(* The search for an inode's data, after the mount.                        *)
Located ==
    boot = "mounted" /\ ~missed /\ ino \in DOMAIN Pointer /\ work # <<>> =>
        /\ Head(work) \in {"bgdt_tmp", "parse_bgdt"} => loc.lba = 4
        /\ Head(work) \in {"bgdt_tmp", "parse_bgdt", "inode_tmp", "read_inode"} =>
              loc.index = ino - 1
        /\ Head(work) \in {"inode_tmp", "read_inode"} =>
              loc.table = Word(Disk[4], 8)
        /\ Head(work) \in {"filedata", "dir"} => loc.inode_tmp = used
        /\ Head(work) \in {"filedata", "dir", "read_data", "read_dir"}
           /\ loc.index % 4 < 2 => Datablock0 = Pointer[ino]

Reliable(S) ==
    /\ List(S, mem, used, Fresh)
    /\ KmainAt(S)
    /\ boot = "mounted" => Geometry(mem)
    /\ StepAt(S)
    /\ Located
-----------------------------------------------------------------------------
(* What is written into memory and what the list is of it.                 *)

LEMMA Sizes ==
    /\ NULL = 0 /\ First = 20 /\ HeaderSize = 16 /\ Root = 2
    /\ IsFreeAt = 4 /\ NextAt = 8 /\ DataAt = 12
  BY DEF NULL, First, HeaderSize, Root, IsFreeAt, NextAt, DataAt

LEMMA MemoryIsLarge ==
    /\ MemSize \in Nat /\ Total \in Nat
    /\ Total + 64 <= MemSize /\ MemSize <= TooLarge
  <1>1. SectorSize \in Nat /\ SectorSize >= 64
    BY DEF SectorSize
  <1> QED BY <1>1, Constants

LEMMA WordKept ==
    ASSUME NEW m, NEW w, NEW x \in Nat, NEW i \in Nat,
           \A k \in i .. i + 3 : Byte(w, x + k) = Byte(m, x + k)
    PROVE  Word(w, x + i) = Word(m, x + i)
  <1>1. ASSUME NEW k \in 0 .. 3 PROVE Byte(w, (x + i) + k) = Byte(m, (x + i) + k)
    <2>1. i + k \in i .. i + 3 /\ x + (i + k) = (x + i) + k
      OBVIOUS
    <2> QED BY <2>1
  <1> QED BY <1>1, SameWord

LEMMA ListKept ==
    ASSUME NEW m, NEW w, NEW S, NEW u \in Nat, NEW v \in Nat, u <= v, NEW f,
           List(S, m, u, f),
           \A b \in S : \A k \in 8 .. 11 : Byte(w, b + k) = Byte(m, b + k),
           \A b \in S : Byte(w, b + 4) = 1 =>
              \A k \in (0 .. 4) \cup (12 .. 15) : Byte(w, b + k) = Byte(m, b + k)
    PROVE  List(S, w, v, f)
  <1>1. ASSUME NEW b \in S
        PROVE  /\ b \in Nat /\ First <= b /\ b <= Total + 3 /\ b <= v
               /\ Word(w, b + NextAt) = Word(m, b + NextAt)
               /\ FreeAsKnown(w, v, f, b)
    <2>1. b \in Nat /\ First <= b /\ b <= Total + 3 /\ b <= u /\ FreeAsKnown(m, u, f, b)
      BY DEF List
    <2>2. b <= v
      BY <2>1
    <2>3. Word(w, b + 8) = Word(m, b + 8)
      BY <2>1, WordKept
    <2>4. FreeAsKnown(w, v, f, b)
      <3> SUFFICES ASSUME Byte(w, b + 4) = 1
                   PROVE  \/ Word(w, b + 12) = NULL /\ v + 2 >= Total
                          \/ f /\ b = First /\ Word(w, b + 12) = First + 6 /\ Word(w, b) = 2
        BY Sizes DEF FreeAsKnown
      <3>1. \A k \in (0 .. 4) \cup (12 .. 15) : Byte(w, b + k) = Byte(m, b + k)
        OBVIOUS
      <3>2. Word(w, b + 12) = Word(m, b + 12)
        BY <2>1, <3>1, WordKept
      <3>3. Word(w, b) = Word(m, b)
        <4>1. \A k \in 0 .. 3 : Byte(w, b + k) = Byte(m, b + k)
          BY <3>1
        <4> QED BY <2>1, <4>1, SameWord
      <3>4. Byte(m, b + 4) = 1
        BY <3>1
      <3>6. \/ Word(m, b + 12) = NULL /\ u + 2 >= Total
            \/ f /\ b = First /\ Word(m, b + 12) = First + 6 /\ Word(m, b) = 2
        BY <2>1, <3>4, Sizes DEF FreeAsKnown
      <3>7. u + 2 >= Total => v + 2 >= Total
        BY Constants
      <3> QED BY <3>2, <3>3, <3>6, <3>7
    <2> QED BY <2>1, <2>2, <2>3, <2>4, Sizes
  <1>2. S # {} => First \in S /\ First + 5 <= v
    BY Sizes DEF List
  <1>3. \A b, c \in S : b < c => b + First <= c
    BY DEF List
  <1>4. \A b \in S : \/ Word(w, b + NextAt) = NULL
                     \/ Word(w, b + NextAt) \in S /\ b < Word(w, b + NextAt)
    BY <1>1 DEF List
  <1> QED BY <1>1, <1>2, <1>3, <1>4, Zenon DEF List

LEMMA FieldsWrite ==
    ASSUME NEW m \in Memory, NEW a \in Nat, a + 16 <= MemSize,
           NEW n \in Nat, NEW d \in Nat, NEW w, w = Fields(m, a, n, d)
    PROVE  /\ w \in Memory
           /\ \A x \in Nat : x < a \/ a + 16 <= x \/ (a + 5 <= x /\ x < a + 8)
                 => Byte(w, x) = Byte(m, x)
           /\ Byte(w, a + 4) = 0
           /\ Word(w, a + 8) = NULL
           /\ n < TooLarge => Word(w, a) = n
  <1> DEFINE s == Bytes(n) \o <<0>>
             t == Bytes(NULL) \o Bytes(d)
             v == Put(m, a, s)
  <1>0. MemSize \in Nat /\ NULL \in Nat /\ NULL < TooLarge
    BY Constants DEF NULL, TooLarge
  <1>1. /\ s \in Seq(Octet) /\ Len(s) = 5 /\ s[5] = 0
        /\ \A k \in 1 .. 4 : s[k] = Bytes(n)[k]
    <2>1. Bytes(n) \in Seq(Octet) /\ Len(Bytes(n)) = 4
      BY BytesType
    <2>2. <<0>> \in Seq(Octet) /\ Len(<<0>>) = 1 /\ <<0>>[1] = 0
      BY DEF Octet
    <2>3. /\ s \in Seq(Octet) /\ Len(s) = Len(Bytes(n)) + Len(<<0>>)
          /\ \A i \in 1 .. Len(Bytes(n)) : s[i] = Bytes(n)[i]
          /\ \A i \in 1 .. Len(<<0>>) : s[Len(Bytes(n)) + i] = <<0>>[i]
      BY <2>1, <2>2, Glue
    <2> HIDE DEF s
    <2> QED BY <2>1, <2>2, <2>3
  <1>2. /\ t \in Seq(Octet) /\ Len(t) = 8
        /\ \A k \in 1 .. 4 : t[k] = Bytes(NULL)[k]
    <2>1. /\ Bytes(NULL) \in Seq(Octet) /\ Len(Bytes(NULL)) = 4
          /\ Bytes(d) \in Seq(Octet) /\ Len(Bytes(d)) = 4
      BY <1>0, BytesType
    <2>2. /\ t \in Seq(Octet) /\ Len(t) = Len(Bytes(NULL)) + Len(Bytes(d))
          /\ \A i \in 1 .. Len(Bytes(NULL)) : t[i] = Bytes(NULL)[i]
      BY <2>1, Glue
    <2> HIDE DEF t
    <2> QED BY <2>1, <2>2
  <1> HIDE DEF s, t
  <1>3. /\ v \in Memory
        /\ \A x \in Nat : Byte(v, x) = IF x < MemSize /\ a <= x /\ x < a + Len(s)
                                       THEN s[x - a + 1] ELSE Byte(m, x)
    BY <1>1, PutByte
  <1> HIDE DEF v
  <1>4. w = Put(v, a + 8, t)
    BY Zenon DEF Fields, NextAt, v, s, t
  <1>5. /\ w \in Memory
        /\ \A x \in Nat : Byte(w, x) = IF x < MemSize /\ a + 8 <= x /\ x < a + 8 + Len(t)
                                       THEN t[x - (a + 8) + 1] ELSE Byte(v, x)
    <2>1. v \in Memory /\ a + 8 \in Nat /\ t \in Seq(Octet)
      BY <1>2, <1>3
    <2>2. /\ Put(v, a + 8, t) \in Memory
          /\ \A x \in Nat : Byte(Put(v, a + 8, t), x) =
                IF x < MemSize /\ a + 8 <= x /\ x < a + 8 + Len(t)
                THEN t[x - (a + 8) + 1] ELSE Byte(v, x)
      BY <2>1, PutByte
    <2> QED BY <1>4, <2>2
  <1>6. \A x \in Nat : x < a \/ a + 16 <= x \/ (a + 5 <= x /\ x < a + 8)
            => Byte(w, x) = Byte(m, x)
    BY <1>0, <1>1, <1>2, <1>3, <1>5
  <1>7. Byte(w, a + 4) = 0
    <2>1. a + 4 \in Nat /\ a + 4 < MemSize /\ (a + 4) - a + 1 = 5
      BY <1>0
    <2> QED BY <1>1, <1>2, <1>3, <1>5, <2>1
  <1>8. Word(w, a + 8) = NULL
    <2>1. ASSUME NEW k \in 0 .. 3 PROVE Byte(w, (a + 8) + k) = Bytes(NULL)[k + 1]
      <3>1. /\ (a + 8) + k \in Nat /\ (a + 8) + k < MemSize
            /\ ((a + 8) + k) - (a + 8) + 1 = k + 1 /\ k + 1 \in 1 .. 4
        BY <1>0
      <3> QED BY <1>2, <1>5, <3>1
    <2> QED BY <1>0, <2>1, BytesWord
  <1>9. ASSUME n < TooLarge PROVE Word(w, a) = n
    <2>1. ASSUME NEW k \in 0 .. 3 PROVE Byte(w, a + k) = Bytes(n)[k + 1]
      <3>1. /\ a + k \in Nat /\ a + k < MemSize
            /\ (a + k) - a + 1 = k + 1 /\ k + 1 \in 1 .. 4
        BY <1>0
      <3>2. Byte(w, a + k) = Byte(v, a + k)
        BY <1>5, <3>1
      <3> QED BY <1>1, <1>3, <3>1, <3>2
    <2> QED BY <1>9, <2>1, BytesWord
  <1> QED BY <1>5, <1>6, <1>7, <1>8, <1>9

LEMMA WordWrite ==
    ASSUME NEW m \in Memory, NEW a \in Nat, a + 4 <= MemSize,
           NEW n \in Nat, n < TooLarge, NEW w, w = Put(m, a, Bytes(n))
    PROVE  /\ w \in Memory
           /\ \A x \in Nat : x < a \/ a + 4 <= x => Byte(w, x) = Byte(m, x)
           /\ Word(w, a) = n
  <1>0. MemSize \in Nat
    BY Constants
  <1>1. Bytes(n) \in Seq(Octet) /\ Len(Bytes(n)) = 4
    BY BytesType
  <1>2. /\ w \in Memory
        /\ \A x \in Nat : Byte(w, x) = IF x < MemSize /\ a <= x /\ x < a + Len(Bytes(n))
                                       THEN Bytes(n)[x - a + 1] ELSE Byte(m, x)
    BY <1>1, PutByte
  <1>3. ASSUME NEW k \in 0 .. 3 PROVE Byte(w, a + k) = Bytes(n)[k + 1]
    <2>1. a + k \in Nat /\ a + k < MemSize /\ (a + k) - a + 1 = k + 1
      BY <1>0
    <2> QED BY <1>1, <1>2, <2>1
  <1>4. Word(w, a) = n
    BY <1>3, BytesWord
  <1> QED BY <1>0, <1>1, <1>2, <1>4

LEMMA ByteWrite ==
    ASSUME NEW m \in Memory, NEW a \in Nat, a < MemSize, NEW c \in Octet,
           NEW w, w = Put(m, a, <<c>>)
    PROVE  /\ w \in Memory
           /\ \A x \in Nat : x # a => Byte(w, x) = Byte(m, x)
           /\ Byte(w, a) = c
  <1>0. MemSize \in Nat
    BY Constants
  <1>1. <<c>> \in Seq(Octet) /\ Len(<<c>>) = 1 /\ <<c>>[1] = c
    OBVIOUS
  <1>2. /\ w \in Memory
        /\ \A x \in Nat : Byte(w, x) = IF x < MemSize /\ a <= x /\ x < a + Len(<<c>>)
                                       THEN <<c>>[x - a + 1] ELSE Byte(m, x)
    BY <1>1, PutByte
  <1>3. a - a + 1 = 1
    OBVIOUS
  <1> QED BY <1>0, <1>1, <1>2, <1>3
-----------------------------------------------------------------------------
(* What malloc grants, on the heap before the call.                        *)

Granted(S, T, m, r, n, f) ==
    /\ S \subseteq T /\ T # {} /\ List(T, r.mem, r.used, f)
    /\ r.mem \in Memory /\ r.used \in Nat /\ used <= r.used /\ r.used <= Total + 3
    /\ r.head = First /\ r.addr \in Nat
    /\ \/ r.addr = NULL /\ (n <= 2 => r.used + 2 >= Total)
       \/ f /\ r.addr = First + 6 /\ n <= 2 /\ Word(r.mem, First) = 2
       \/ r.addr = First + 5 /\ n = 1
       \/ /\ r.addr = r.used /\ 48 <= r.addr
          /\ \A b \in T : b + 8 + 2 * n <= r.addr
          /\ n >= 2 => \A b \in T : Byte(r.mem, b + 4) = 1 => f /\ b = First
    /\ \A x \in Nat : \/ Byte(r.mem, x) = Byte(m, x)
                      \/ x < 16
                      \/ used + 20 <= x /\ x < used + 36
                      \/ \E b \in S : b + 8 <= x /\ x < b + 12
                      \/ \E b \in S : x = b + 4 /\ Byte(m, x) = 1

LEMMA ListWalk ==
    ASSUME NEW m \in Memory, NEW S, NEW u, NEW f, List(S, m, u, f),
           NEW h, h = IF S = {} THEN NULL ELSE First,
           NEW headers, headers = Headers(m, h)
    PROVE  /\ EndFound(m, headers)
           /\ S = {} => LastHeader(headers) = NULL /\ Listed(headers) = {}
           /\ S # {} => LastHeader(headers) \in S /\ Word(m, LastHeader(headers) + NextAt) = NULL
           /\ \A i \in Listed(headers) : headers[i] \in S
           /\ Listed(headers) \subseteq Nat
  <1>1. ASSUME NEW b \in S PROVE b \in Nat /\ InMemory(b)
    <2>1. b \in Nat /\ 20 <= b /\ b <= Total + 3
      BY Sizes DEF List
    <2>2. b < MemSize /\ b # 0
      BY <2>1, MemoryIsLarge
    <2> QED BY <2>1, <2>2, Sizes DEF InMemory
  <1>2. Closed(m, S)
    BY <1>1 DEF Closed, List
  <1>3. Spaced(m, S)
    BY DEF Spaced, List
  <1>4. h \in Nat /\ h \in S \cup {NULL}
    BY <1>1, Sizes DEF List
  <1>5. h = NULL <=> S = {}
    BY Sizes
  <1>6. Listed(headers) \subseteq Nat
    BY Constants DEF Listed
  <1> QED BY <1>2, <1>3, <1>4, <1>5, <1>6, WalkEnds

LEMMA BrkGives ==
    ASSUME NEW u \in Nat, NEW n \in Nat, n > 0
    PROVE  \/ /\ u + n < Total
              /\ Reserve(u, n).addr = u + n + 4 /\ Reserve(u, n).used = u + n + 4
           \/ /\ u + n >= Total
              /\ Reserve(u, n).addr = NULL /\ Reserve(u, n).used = u
  <1>1. Total \in Nat
    BY Constants
  <1>2. Reserve(u, n) = IF n > 0 /\ Total - u > n
                        THEN [addr |-> 0 + u + n + 4, used |-> u + n + 4]
                        ELSE [addr |-> NULL, used |-> u]
    BY DEF Reserve, H!Brk, H!NULL, NULL
  <1>3. CASE u + n < Total
    <2>1. Total - u > n /\ 0 + u + n + 4 = u + n + 4
      BY <1>1, <1>3
    <2>2. Reserve(u, n) = [addr |-> u + n + 4, used |-> u + n + 4]
      BY <1>2, <2>1
    <2> QED BY <1>3, <2>2
  <1>4. CASE u + n >= Total
    <2>1. ~(Total - u > n)
      BY <1>1, <1>4
    <2>2. Reserve(u, n) = [addr |-> NULL, used |-> u]
      BY <1>2, <2>1
    <2> QED BY <1>4, <2>2
  <1> QED BY <1>1, <1>3, <1>4

(* A new header behind all others, or none, comes after the last one.      *)
Linked(m, w, S, v, last, a) ==
    /\ Word(w, last + 8) = a
    /\ \A b \in S : \A k \in 0 .. 15 :
          b # last \/ k < 8 \/ k >= 12 => Byte(w, b + k) = Byte(m, b + k)
    /\ \/ a = NULL
       \/ /\ a <= Total + 3 /\ a <= v /\ \A b \in S : b + 20 <= a
          /\ Byte(w, a + 4) = 0 /\ Word(w, a + 8) = NULL

LEMMA ListLinked ==
    ASSUME NEW m, NEW w, NEW S, NEW u \in Nat, NEW v \in Nat, u <= v, NEW f,
           List(S, m, u, f), NEW last \in S, NEW a \in Nat, Linked(m, w, S, v, last, a),
           NEW T, T = IF a = NULL THEN S ELSE S \cup {a}
    PROVE  List(T, w, v, f)
  <1> USE DEF Linked
  <1>0. /\ \A b \in S : b \in Nat /\ 20 <= b /\ b <= Total + 3 /\ b <= u
        /\ \A b, c \in S : b < c => b + 20 <= c
        /\ First \in S /\ 25 <= u
    BY Sizes DEF List
  <1>1. ASSUME NEW b \in S
        PROVE  /\ FreeAsKnown(w, v, f, b)
               /\ \/ Word(w, b + NextAt) = NULL
                  \/ Word(w, b + NextAt) \in T /\ b < Word(w, b + NextAt)
    <2>1. FreeAsKnown(m, u, f, b) /\ b \in Nat
      BY <1>0 DEF List
    <2>2. \A k \in (0 .. 4) \cup (12 .. 15) : Byte(w, b + k) = Byte(m, b + k)
      <3>1. \A k \in (0 .. 4) \cup (12 .. 15) : k \in 0 .. 15 /\ (k < 8 \/ k >= 12)
        OBVIOUS
      <3> QED BY <3>1
    <2>3. FreeAsKnown(w, v, f, b)
      <3>1. Byte(w, b + 4) = Byte(m, b + 4)
        BY <2>2
      <3>2. Word(w, b + 12) = Word(m, b + 12)
        BY <2>1, <2>2, WordKept
      <3>3. Word(w, b) = Word(m, b)
        <4>1. \A k \in 0 .. 3 : Byte(w, b + k) = Byte(m, b + k)
          BY <2>2
        <4> QED BY <2>1, <4>1, SameWord
      <3>4. u + 2 >= Total => v + 2 >= Total
        BY Constants
      <3> QED BY <2>1, <3>1, <3>2, <3>3, <3>4, Sizes DEF FreeAsKnown
    <2>4. CASE b = last
      <3>1. Word(w, b + NextAt) = a
        BY <2>4, Sizes
      <3>2. a = NULL \/ (a \in T /\ b < a)
        BY <1>0, Sizes
      <3> QED BY <2>3, <3>1, <3>2
    <2>5. CASE b # last
      <3>1. \A k \in 8 .. 8 + 3 : Byte(w, b + k) = Byte(m, b + k)
        <4>1. \A k \in 8 .. 8 + 3 : k \in 0 .. 15
          OBVIOUS
        <4> QED BY <2>5, <4>1
      <3>2. Word(w, b + 8) = Word(m, b + 8)
        BY <2>1, <3>1, WordKept
      <3>3. \/ Word(m, b + 8) = NULL
            \/ Word(m, b + 8) \in S /\ b < Word(m, b + 8)
        BY Sizes DEF List
      <3> QED BY <2>3, <3>2, <3>3, Sizes
    <2> QED BY <2>4, <2>5
  <1>2. \A b \in T : b \in Nat /\ First <= b /\ b <= Total + 3 /\ b <= v
    BY <1>0, Constants, Sizes
  <1>3. First \in T /\ First + 5 <= v
    BY <1>0, Sizes
  <1>4. \A b, c \in T : b < c => b + First <= c
    BY <1>0, Sizes
  <1>5. \A b \in T : \/ Word(w, b + NextAt) = NULL
                     \/ Word(w, b + NextAt) \in T /\ b < Word(w, b + NextAt)
    BY <1>1, Sizes
  <1>6. \A b \in T : FreeAsKnown(w, v, f, b)
    BY <1>1, Sizes DEF FreeAsKnown
  <1> QED BY <1>2, <1>3, <1>4, <1>5, <1>6, Zenon DEF List

LEMMA ReuseGrants ==
    ASSUME NEW m \in Memory, NEW S, NEW f \in BOOLEAN, List(S, m, used, f),
           used \in Nat, used <= Total + 3, head = First,
           NEW n \in Nat, NEW b \in S, Byte(m, b + IsFreeAt) = 1, Word(m, b) >= n,
           NEW r, r = [mem |-> Put(m, b + IsFreeAt, << 0 >>), used |-> used,
                       head |-> head, addr |-> Word(m, b + DataAt)]
    PROVE  Granted(S, S, m, r, n, f)
  <1> DEFINE w == Put(m, b + 4, <<0>>)
  <1>0. /\ \A c \in S : c \in Nat /\ 20 <= c /\ c <= Total + 3
        /\ \A c, e \in S : c < e => c + 20 <= e
        /\ FreeAsKnown(m, used, f, b)
    BY Sizes DEF List
  <1>1. r.mem = w /\ r.used = used /\ r.head = First /\ r.addr = Word(m, b + 12)
    BY Sizes
  <1>2. w \in Memory /\ (\A x \in Nat : x # b + 4 => Byte(w, x) = Byte(m, x)) /\ Byte(w, b + 4) = 0
    <2>1. b + 4 \in Nat /\ b + 4 < MemSize
      BY <1>0, MemoryIsLarge
    <2>2. 0 \in Octet
      BY DEF Octet
    <2> QED BY <2>1, <2>2, ByteWrite
  <1> HIDE DEF w
  <1>3. ASSUME NEW c \in S, NEW k \in 8 .. 11 PROVE Byte(w, c + k) = Byte(m, c + k)
    <2>1. c + k \in Nat /\ c + k # b + 4
      BY <1>0
    <2> QED BY <1>2, <2>1
  <1>4. ASSUME NEW c \in S, Byte(w, c + 4) = 1, NEW k \in (0 .. 4) \cup (12 .. 15)
        PROVE  Byte(w, c + k) = Byte(m, c + k)
    <2>1. c # b
      BY <1>2, <1>4
    <2>2. c + k \in Nat /\ c + k # b + 4
      BY <1>0, <2>1
    <2> QED BY <1>2, <2>2
  <1>5. List(S, w, used, f)
    <2>1. used <= used
      OBVIOUS
    <2> QED BY <1>3, <1>4, <2>1, ListKept
  <1>6. Word(m, b + 12) \in Nat
    <2>1. b + 12 \in Nat
      BY <1>0
    <2> QED BY <2>1, WordType
  <1>7. \/ r.addr = NULL /\ r.used + 2 >= Total
        \/ f /\ r.addr = First + 6 /\ n <= 2 /\ Word(w, First) = 2
    <2>1. \/ Word(m, b + 12) = NULL /\ used + 2 >= Total
          \/ f /\ b = First /\ Word(m, b + 12) = First + 6 /\ Word(m, b) = 2
      BY <1>0, Sizes DEF FreeAsKnown
    <2>2. ASSUME b = First PROVE Word(w, First) = Word(m, First)
      <3>1. \A k \in 0 .. 3 : First + k \in Nat /\ First + k # b + 4
        BY <2>2, Sizes
      <3>2. First \in Nat
        BY Sizes
      <3> QED BY <1>2, <3>1, <3>2, SameWord
    <2> QED BY <1>1, <2>1, <2>2
  <1>8. ASSUME NEW x \in Nat
        PROVE  Byte(w, x) = Byte(m, x) \/ \E c \in S : x = c + 4 /\ Byte(m, x) = 1
    BY <1>2, Sizes
  <1>9. S # {} /\ S \subseteq S
    OBVIOUS
  <1>10. used <= used
    OBVIOUS
  <1> QED BY <1>1, <1>2, <1>5, <1>6, <1>7, <1>8, <1>9, <1>10 DEF Granted

LEMMA FirstGrants ==
    ASSUME NEW m \in Memory, NEW f \in BOOLEAN, f, used = 0,
           NEW n \in 1 .. 2,
           NEW r, r = [mem |-> Fields(m, First, n, First + 4 + n), used |-> First + 4 + n,
                       head |-> First, addr |-> First + 4 + n]
    PROVE  Granted({}, {First}, m, r, n, f)
  <1> DEFINE w == Fields(m, First, n, First + 4 + n)
  <1>0. /\ First \in Nat /\ First + 16 <= MemSize /\ First + 4 + n \in Nat /\ n \in Nat
        /\ First <= Total + 3 /\ First + 4 + n <= Total + 3
    BY Constants, MemoryIsLarge, Sizes
  <1>1. n < TooLarge
    BY DEF TooLarge
  <1>2. /\ w \in Memory
        /\ \A x \in Nat : x < First \/ First + 16 <= x \/ (First + 5 <= x /\ x < First + 8)
                => Byte(w, x) = Byte(m, x)
        /\ Byte(w, First + 4) = 0 /\ Word(w, First + 8) = NULL /\ Word(w, First) = n
    BY <1>0, <1>1, FieldsWrite
  <1>3. r.mem = w /\ r.used = First + 4 + n /\ r.head = First /\ r.addr = First + 4 + n
    OBVIOUS
  <1> HIDE DEF w
  <1>4. List({First}, w, First + 4 + n, f)
    <2>1. FreeAsKnown(w, First + 4 + n, f, First)
      BY <1>2, Sizes DEF FreeAsKnown
    <2>2. Word(w, First + NextAt) = NULL
      BY <1>2, Sizes
    <2>3. First <= First + 4 + n /\ First + 5 <= First + 4 + n
      BY <1>0, Sizes
    <2>4. \A b, c \in {First} : b < c => b + First <= c
      BY <1>0
    <2>5. \A b \in {First} : b \in Nat /\ First <= b /\ b <= Total + 3 /\ b <= First + 4 + n
      BY <1>0, <2>3
    <2>6. \A b \in {First} : \/ Word(w, b + NextAt) = NULL
                             \/ Word(w, b + NextAt) \in {First} /\ b < Word(w, b + NextAt)
      BY <2>2
    <2>7. \A b \in {First} : FreeAsKnown(w, First + 4 + n, f, b)
      BY <2>1
    <2>8. First \in {First} /\ First + 5 <= First + 4 + n
      BY <2>3
    <2> QED BY <2>4, <2>5, <2>6, <2>7, <2>8, Zenon DEF List
  <1>5. \/ f /\ r.addr = First + 6 /\ n <= 2 /\ Word(w, First) = 2
        \/ r.addr = First + 5 /\ n = 1
    BY <1>2, <1>3, Sizes
  <1>6. ASSUME NEW x \in Nat
        PROVE  Byte(w, x) = Byte(m, x) \/ (used + 20 <= x /\ x < used + 36)
    BY <1>2, Sizes
  <1>7. used <= First + 4 + n
    BY <1>0
  <1> QED BY <1>0, <1>2, <1>3, <1>4, <1>5, <1>6, <1>7 DEF Granted

LEMMA AppendGrants ==
    ASSUME NEW m \in Memory, NEW S, NEW f \in BOOLEAN, List(S, m, used, f),
           used \in Nat, used <= Total + 3, S # {},
           NEW n \in Nat, n > 0,
           NEW last \in S, Word(m, last + NextAt) = NULL,
           NEW h, h = Reserve(used, HeaderSize),
           NEW d, d = Reserve(Reserve(h.used, n).used, n),
           NEW r, r = [mem |-> Put(Fields(m, h.addr, n, d.addr), last + NextAt, Bytes(h.addr)),
                       used |-> d.used, head |-> First, addr |-> d.addr]
    PROVE  \E T : Granted(S, T, m, r, n, f)
  <1> DEFINE a == h.addr
             v == Fields(m, a, n, d.addr)
             w == Put(v, last + 8, Bytes(a))
             T == IF a = NULL THEN S ELSE S \cup {a}
             lost == Reserve(h.used, n)
  <1>0. /\ \A b \in S : b \in Nat /\ 20 <= b /\ b <= Total + 3 /\ b <= used
        /\ \A b, c \in S : b < c => b + 20 <= c
        /\ First \in S /\ 25 <= used
    BY Sizes DEF List
  <1>1. \/ used + 16 < Total /\ a = used + 20 /\ h.used = used + 20
        \/ used + 16 >= Total /\ a = 0 /\ h.used = used
    <2>1. /\ HeaderSize = 16 /\ 16 \in Nat /\ 16 > 0 /\ NULL = 0
          /\ used + 16 + 4 = used + 20
      BY Sizes
    <2> QED BY <2>1, BrkGives
  <1> HIDE DEF a
  <1>2. h.used \in Nat /\ used <= h.used /\ h.used <= Total + 3 /\ a \in Nat
    BY <1>1, Constants
  <1>3. \/ h.used + n < Total /\ lost.used = h.used + n + 4
        \/ h.used + n >= Total /\ lost.used = h.used
    BY <1>2, BrkGives
  <1> HIDE DEF lost
  <1>4. lost.used \in Nat /\ h.used <= lost.used /\ lost.used <= Total + 3
    BY <1>2, <1>3, Constants
  <1>5. \/ lost.used + n < Total /\ d.addr = lost.used + n + 4 /\ d.used = lost.used + n + 4
        \/ lost.used + n >= Total /\ d.addr = NULL /\ d.used = lost.used
    <2>1. d = Reserve(lost.used, n)
      BY DEF lost
    <2> QED BY <1>4, <2>1, BrkGives
  <1>6. /\ d.addr \in Nat /\ d.used \in Nat /\ used <= d.used /\ d.used <= Total + 3
    BY <1>2, <1>4, <1>5, Constants, Sizes
  <1>7. /\ v \in Memory
        /\ \A x \in Nat : x < a \/ a + 16 <= x \/ (a + 5 <= x /\ x < a + 8)
                => Byte(v, x) = Byte(m, x)
        /\ Byte(v, a + 4) = 0 /\ Word(v, a + 8) = NULL
    <2>1. a + 16 <= MemSize
      BY <1>1, MemoryIsLarge
    <2> QED BY <1>2, <1>6, <2>1, FieldsWrite
  <1> HIDE DEF v
  <1>8. /\ w \in Memory
        /\ \A x \in Nat : x < last + 8 \/ last + 12 <= x => Byte(w, x) = Byte(v, x)
        /\ Word(w, last + 8) = a
    <2>1. last + 8 \in Nat /\ (last + 8) + 4 = last + 12 /\ (last + 8) + 4 <= MemSize
      BY <1>0, MemoryIsLarge
    <2>2. a < TooLarge
      BY <1>1, <1>2, MemoryIsLarge, Constants
    <2> QED BY <1>2, <1>7, <2>1, <2>2, WordWrite
  <1> HIDE DEF w
  <1>9. r.mem = w /\ r.used = d.used /\ r.head = First /\ r.addr = d.addr
    BY Sizes DEF w, v, a
  <1>10. ASSUME NEW x \in Nat, Byte(w, x) # Byte(m, x)
         PROVE  x < 16 \/ (used + 20 <= x /\ x < used + 36) \/ (last + 8 <= x /\ x < last + 12)
    BY <1>0, <1>1, <1>7, <1>8, <1>10
  <1>11. ASSUME NEW b \in S, NEW k \in 0 .. 19, b # last \/ k < 8 \/ k >= 12
         PROVE  Byte(w, b + k) = Byte(m, b + k)
    <2>1. /\ b + k \in Nat /\ ~(b + k < 16) /\ ~(used + 20 <= b + k)
          /\ ~(last + 8 <= b + k /\ b + k < last + 12)
      BY <1>0, <1>11
    <2> QED BY <1>10, <2>1
  <1>13. ASSUME a # NULL
         PROVE  /\ a = used + 20 /\ a = h.used /\ a <= Total + 3 /\ a <= d.used
                /\ Byte(w, a + 4) = 0 /\ Word(w, a + 8) = NULL
    <2>1. a = used + 20 /\ a = h.used /\ a <= Total + 3 /\ a <= d.used
      BY <1>1, <1>4, <1>5, <1>6, <1>13, Constants, Sizes
    <2>2. \A k \in 0 .. 15 : a + k \in Nat /\ last + 12 <= a + k
      BY <1>0, <1>2, <2>1
    <2>3. \A k \in 0 .. 15 : Byte(w, a + k) = Byte(v, a + k)
      BY <1>8, <2>2
    <2>4. Byte(w, a + 4) = 0
      BY <1>7, <2>3
    <2>5. Word(w, a + 8) = Word(v, a + 8)
      <3>1. \A k \in 8 .. 8 + 3 : Byte(w, a + k) = Byte(v, a + k)
        BY <2>3
      <3> QED BY <1>2, <3>1, WordKept
    <2> QED BY <1>7, <2>1, <2>4, <2>5
  <1>14. List(T, w, d.used, f)
    <2>1. /\ Word(w, last + 8) = a
          /\ \A b \in S : \A k \in 0 .. 15 :
                b # last \/ k < 8 \/ k >= 12 => Byte(w, b + k) = Byte(m, b + k)
      BY <1>8, <1>11
    <2>2. \/ a = NULL
          \/ /\ a <= Total + 3 /\ a <= d.used /\ \A b \in S : b + 20 <= a
             /\ Byte(w, a + 4) = 0 /\ Word(w, a + 8) = NULL
      BY <1>0, <1>13
    <2>3. T = IF a = NULL THEN S ELSE S \cup {a}
      OBVIOUS
    <2> HIDE DEF T
    <2>4. Linked(m, w, S, d.used, last, a)
      BY <2>1, <2>2 DEF Linked
    <2> QED BY <1>2, <1>6, <2>3, <2>4, ListLinked
  <1>15. \/ r.addr = NULL /\ (n <= 2 => r.used + 2 >= Total)
         \/ /\ r.addr = r.used /\ 48 <= r.addr
            /\ \A b \in T : b + 8 + 2 * n <= r.addr
            /\ n >= 2 => \A b \in T : Byte(w, b + 4) = 1 => f /\ b = First
    <2>1. CASE lost.used + n >= Total
      <3>1. d.addr = NULL /\ d.used = lost.used
        BY <1>4, <1>5, <2>1, Constants
      <3>2. n <= 2 => d.used + 2 >= Total
        BY <1>4, <2>1, <3>1, Constants
      <3> QED BY <1>9, <3>1, <3>2
    <2>2. CASE lost.used + n < Total
      <3>1. /\ d.addr = lost.used + n + 4 /\ d.used = d.addr
            /\ lost.used = h.used + n + 4
        BY <1>2, <1>3, <1>4, <1>5, <2>2, Constants
      <3>2. d.addr = h.used + 8 + 2 * n
        BY <1>2, <3>1
      <3>3. 48 <= d.addr
        BY <1>0, <1>1, <3>2, Constants
      <3>4. \A b \in T : b + 8 + 2 * n <= d.addr
        BY <1>0, <1>2, <1>13, <3>2
      <3>5. ASSUME n >= 2, NEW b \in T, Byte(w, b + 4) = 1 PROVE f /\ b = First
        <4>1. b \in S
          BY <1>13, <3>5
        <4>2. FreeAsKnown(m, used, f, b) /\ Byte(m, b + 4) = 1
          BY <1>11, <3>5, <4>1 DEF List
        <4>3. used + n < Total
          BY <1>2, <1>4, <2>2, Constants
        <4>4. ~(used + 2 >= Total)
          BY <3>5, <4>3, Constants
        <4> QED BY <4>2, <4>4, Sizes DEF FreeAsKnown
      <3> QED BY <1>9, <3>1, <3>3, <3>4, <3>5
    <2> QED BY <1>4, <2>1, <2>2, Constants
  <1>16. ASSUME NEW x \in Nat
         PROVE  \/ Byte(w, x) = Byte(m, x)
                \/ x < 16
                \/ used + 20 <= x /\ x < used + 36
                \/ \E b \in S : b + 8 <= x /\ x < b + 12
    BY <1>10
  <1>17. S \subseteq T /\ T # {}
    OBVIOUS
  <1> HIDE DEF T
  <1>18. Granted(S, T, m, r, n, f)
    BY <1>6, <1>8, <1>9, <1>14, <1>15, <1>16, <1>17 DEF Granted
  <1> QED BY <1>18

LEMMA MallocGrants ==
    ASSUME NEW m \in Memory, NEW S, NEW f \in BOOLEAN, List(S, m, used, f),
           used \in Nat, used <= Total + 3, S = {} => used = 0 /\ f,
           head = IF S = {} THEN NULL ELSE First,
           NEW n \in Nat, n > 0, S = {} => n <= 2,
           NEW headers, headers = Headers(m, head),
           NEW r, r = Malloc(m, headers, n)
    PROVE  \E T : Granted(S, T, m, r, n, f)
  <1> DEFINE h == Reserve(used, HeaderSize)
             d == Payload(h.used, n, head = NULL)
             last == LastHeader(headers)
             fits == Fits(m, headers, n)
             worst == Worst(m, headers, n)
  <1>1. /\ S = {} => last = NULL /\ Listed(headers) = {}
        /\ S # {} => last \in S /\ Word(m, last + NextAt) = NULL
        /\ \A i \in Listed(headers) : headers[i] \in S
        /\ Listed(headers) \subseteq Nat
    BY ListWalk
  <1>2. r = IF fits # {}
            THEN [mem |-> Put(m, worst + IsFreeAt, <<0>>), used |-> used,
                  head |-> head, addr |-> Word(m, worst + DataAt)]
            ELSE [mem |-> IF head = NULL THEN Fields(m, h.addr, n, d.addr)
                          ELSE Put(Fields(m, h.addr, n, d.addr), last + NextAt, Bytes(h.addr)),
                  used |-> d.used,
                  head |-> IF head = NULL THEN h.addr ELSE head,
                  addr |-> d.addr]
    BY Zenon DEF Malloc
  <1>3. CASE fits # {}
    <2>1. fits \subseteq Listed(headers)
      BY Zenon DEF Fits
    <2>2. /\ Min(fits) \in Listed(headers)
          /\ Byte(m, worst + IsFreeAt) = 1 /\ Word(m, worst) >= n
      <3>1. Min(fits) \in fits
        <4>1. fits \subseteq Nat
          BY <1>1, <2>1, Zenon
        <4> QED BY <1>3, <4>1, Smallest, Zenon
      <3> QED BY <2>1, <3>1, Zenon DEF Fits, Worst
    <2>3. worst \in S
      BY <1>1, <2>2, Zenon DEF Worst
    <2>4. head = First
      BY <2>3
    <2> HIDE DEF fits, worst
    <2>5. r = [mem |-> Put(m, worst + IsFreeAt, <<0>>), used |-> used,
               head |-> head, addr |-> Word(m, worst + DataAt)]
      BY <1>2, <1>3
    <2>6. Granted(S, S, m, r, n, f)
      BY <2>2, <2>3, <2>4, <2>5, ReuseGrants
    <2> QED BY <2>6
  <1>4. CASE fits = {} /\ S = {}
    <2>1. head = NULL /\ used = 0 /\ n \in 1 .. 2 /\ f
      BY <1>4
    <2>2. h.addr = First /\ h.used = First
      <3>1. \/ /\ 0 + 16 < Total /\ Reserve(0, 16).addr = 0 + 16 + 4
               /\ Reserve(0, 16).used = 0 + 16 + 4
            \/ 0 + 16 >= Total
        BY BrkGives
      <3>2. ~(0 + 16 >= Total) /\ 0 + 16 + 4 = 20
        BY Constants
      <3> QED BY <2>1, <3>1, <3>2, Sizes
    <2>3. d.addr = First + 4 + n /\ d.used = First + 4 + n
      <3>1. d = Reserve(20, n)
        BY <2>1, <2>2, Sizes DEF Payload
      <3>2. \/ /\ 20 + n < Total /\ Reserve(20, n).addr = 20 + n + 4
               /\ Reserve(20, n).used = 20 + n + 4
            \/ 20 + n >= Total
        BY BrkGives
      <3>3. ~(20 + n >= Total) /\ 20 + n + 4 = 20 + 4 + n
        BY <2>1, Constants
      <3> QED BY <3>1, <3>2, <3>3, Sizes
    <2> HIDE DEF h, d, fits
    <2>4. r = [mem |-> Fields(m, First, n, First + 4 + n), used |-> First + 4 + n,
               head |-> First, addr |-> First + 4 + n]
      BY <1>2, <1>4, <2>1, <2>2, <2>3
    <2>5. Granted({}, {First}, m, r, n, f)
      BY <2>1, <2>4, FirstGrants
    <2> QED BY <1>4, <2>5
  <1>5. CASE fits = {} /\ S # {}
    <2>1. head = First /\ head # NULL
      BY <1>5, Sizes
    <2>2. d = Reserve(Reserve(h.used, n).used, n)
      BY <2>1, Zenon DEF Payload
    <2> HIDE DEF h, d, fits, last
    <2>3. r = [mem |-> Put(Fields(m, h.addr, n, d.addr), last + NextAt, Bytes(h.addr)),
               used |-> d.used, head |-> First, addr |-> d.addr]
      BY <1>2, <1>5, <2>1
    <2>4. last \in S /\ Word(m, last + NextAt) = NULL
      BY <1>1, <1>5
    <2>5. h = Reserve(used, HeaderSize)
      BY DEF h
    <2> QED BY <1>5, <2>2, <2>3, <2>4, <2>5, AppendGrants
  <1> QED BY <1>3, <1>4, <1>5
-----------------------------------------------------------------------------
(* The order of a command's steps.                                         *)

Steps == Allocations \cup {"path", "free", "locate", "parse_bgdt", "read_inode",
                           "read_data", "getdata", "read_dir", "dirent", "compare"}

Pair(x, y) ==
    /\ x = "fdata" => y = "read_file"
    /\ x = "read_file" => y = "path"
    /\ x = "obj" => y = "free"
    /\ x \in {"file_buf", "lookup_name"} => y = "locate"
    /\ x = "locate" => y = "bgdt_tmp"
    /\ x = "bgdt_tmp" => y = "parse_bgdt"
    /\ x = "parse_bgdt" => y = "inode_tmp"
    /\ x = "inode_tmp" => y = "read_inode"
    /\ x = "read_inode" => y \in {"filedata", "dir"}
    /\ x = "filedata" => y = "read_data"
    /\ x = "read_data" => y = "getdata"
    /\ x = "dir" => y = "read_dir"
    /\ x = "read_dir" => y = "dirent"
    /\ x = "dirent" => y = "tmp"
    /\ x = "tmp" => y = "compare"
    /\ x = "compare" => y = "path"
    /\ x \notin {"path", "free", "getdata"}

Ordered(w) == \A i \in 1 .. Len(w) - 1 : Pair(w[i], w[i + 1])

(* There is a name to look for where one is looked for.                    *)
Named(w, p) ==
    /\ p = <<>> => \A i \in 1 .. Len(w) : w[i] \notin {"lookup_name", "compare"}
    /\ p = << <<>> >> => \A i \in 1 .. Len(w) : w[i] # "lookup_name"

LEMMA Join ==
    ASSUME NEW s \in Seq(Steps), s # <<>>, Ordered(s),
           NEW t \in Seq(Steps), t # <<>>, Ordered(t), Pair(s[Len(s)], t[1])
    PROVE  /\ s \o t \in Seq(Steps) /\ s \o t # <<>> /\ Ordered(s \o t)
           /\ (s \o t)[1] = s[1] /\ (s \o t)[Len(s \o t)] = t[Len(t)]
           /\ \A p : Named(s, p) /\ Named(t, p) => Named(s \o t, p)
  <1>1. Len(s) \in Nat /\ Len(s) >= 1 /\ Len(t) \in Nat /\ Len(t) >= 1
    BY EmptySeq
  <1>2. /\ s \o t \in Seq(Steps) /\ Len(s \o t) = Len(s) + Len(t)
        /\ \A i \in 1 .. Len(s) + Len(t) :
              (s \o t)[i] = IF i <= Len(s) THEN s[i] ELSE t[i - Len(s)]
    BY ConcatProperties
  <1> DEFINE j == s \o t
  <1> HIDE DEF j
  <1>3. ASSUME NEW i \in 1 .. Len(j) - 1 PROVE Pair(j[i], j[i + 1])
    <2>0. i \in 1 .. Len(s) + Len(t) /\ i + 1 \in 1 .. Len(s) + Len(t)
      BY <1>1, <1>2 DEF j
    <2>1. CASE i < Len(s)
      <3>1. j[i] = s[i] /\ j[i + 1] = s[i + 1] /\ i \in 1 .. Len(s) - 1
        BY <1>1, <1>2, <2>0, <2>1 DEF j
      <3> QED BY <3>1 DEF Ordered
    <2>2. CASE i = Len(s)
      <3>1. j[i] = s[Len(s)] /\ j[i + 1] = t[1]
        BY <1>1, <1>2, <2>0, <2>2 DEF j
      <3> QED BY <3>1
    <2>3. CASE i > Len(s)
      <3>1. /\ j[i] = t[i - Len(s)] /\ j[i + 1] = t[(i - Len(s)) + 1]
            /\ i - Len(s) \in 1 .. Len(t) - 1
        BY <1>1, <1>2, <2>0, <2>3 DEF j
      <3> QED BY <3>1 DEF Ordered
    <2> QED BY <1>1, <2>0, <2>1, <2>2, <2>3
  <1>4. j[1] = s[1] /\ j[Len(j)] = t[Len(t)] /\ Len(j) >= 1
    BY <1>1, <1>2 DEF j
  <1>5. ASSUME NEW i \in 1 .. Len(j)
        PROVE  (\E k \in 1 .. Len(s) : j[i] = s[k]) \/ \E k \in 1 .. Len(t) : j[i] = t[k]
    <2>1. CASE i <= Len(s)
      BY <1>1, <1>2, <2>1 DEF j
    <2>2. CASE i > Len(s)
      <3>1. i - Len(s) \in 1 .. Len(t) /\ j[i] = t[i - Len(s)]
        BY <1>1, <1>2, <2>2 DEF j
      <3> QED BY <3>1
    <2> QED BY <1>1, <2>1, <2>2
  <1>6. ASSUME NEW p, Named(s, p), Named(t, p) PROVE Named(j, p)
    BY <1>5, <1>6 DEF Named
  <1>7. j # <<>>
    <2>1. Len(<<>>) = 0
      BY EmptySeq
    <2> QED BY <1>4, <2>1
  <1>8. Ordered(j)
    BY <1>3 DEF Ordered
  <1> QED BY <1>2, <1>4, <1>6, <1>7, <1>8 DEF j

LEMMA ReadInodeOrdered ==
    /\ ReadInode \in Seq(Steps) /\ ReadInode # <<>> /\ Ordered(ReadInode)
    /\ ReadInode[1] = "locate" /\ ReadInode[Len(ReadInode)] = "read_inode"
    /\ \A p : Named(ReadInode, p)
  <1>1. /\ ReadInode \in Seq(Steps) /\ ReadInode # <<>>
        /\ ReadInode[1] = "locate" /\ ReadInode[Len(ReadInode)] = "read_inode"
        /\ Len(ReadInode) = 5
    BY DEF ReadInode, Steps, Allocations
  <1>2. /\ ReadInode[1] = "locate" /\ ReadInode[2] = "bgdt_tmp"
        /\ ReadInode[3] = "parse_bgdt" /\ ReadInode[4] = "inode_tmp"
        /\ ReadInode[5] = "read_inode"
    BY DEF ReadInode
  <1>3. Ordered(ReadInode)
    <2>1. ASSUME NEW i \in 1 .. 4 PROVE Pair(ReadInode[i], ReadInode[i + 1])
      <3>1. i = 1 \/ i = 2 \/ i = 3 \/ i = 4
        OBVIOUS
      <3> QED BY <1>2, <3>1 DEF Pair
    <2> QED BY <1>1, <2>1 DEF Ordered
  <1>4. ASSUME NEW p PROVE Named(ReadInode, p)
    <2>1. ASSUME NEW i \in 1 .. 5 PROVE ReadInode[i] \notin {"lookup_name", "compare"}
      <3>1. i = 1 \/ i = 2 \/ i = 3 \/ i = 4 \/ i = 5
        OBVIOUS
      <3> QED BY <1>2, <3>1
    <2> QED BY <1>1, <2>1 DEF Named
  <1> QED BY <1>1, <1>3, <1>4

LEMMA GetFiledataOrdered ==
    /\ GetFiledata \in Seq(Steps) /\ Ordered(GetFiledata)
    /\ GetFiledata # <<>> /\ GetFiledata[1] = "file_buf"
    /\ \A p : Named(GetFiledata, p)
  <1> DEFINE s == <<"file_buf">>
             t == <<"filedata", "read_data", "getdata">>
  <1>1. /\ s \in Seq(Steps) /\ s # <<>> /\ Ordered(s) /\ s[1] = "file_buf"
        /\ s[Len(s)] = "file_buf" /\ \A p : Named(s, p)
    <2>1. "file_buf" \in Steps
      BY DEF Steps, Allocations
    <2> QED BY <2>1 DEF Ordered, Named
  <1>2. /\ t \in Seq(Steps) /\ t # <<>> /\ Ordered(t) /\ t[1] = "filedata"
        /\ \A p : Named(t, p)
    <2>1. /\ t \in Seq(Steps) /\ t # <<>> /\ Len(t) = 3
          /\ t[1] = "filedata" /\ t[2] = "read_data" /\ t[3] = "getdata"
      BY DEF Steps, Allocations
    <2>2. \A i \in 1 .. 2 : i = 1 \/ i = 2
      OBVIOUS
    <2>3. \A i \in 1 .. 3 : i = 1 \/ i = 2 \/ i = 3
      OBVIOUS
    <2> HIDE DEF t
    <2>4. Ordered(t)
      <3>1. \A i \in 1 .. 2 : Pair(t[i], t[i + 1])
        BY <2>1, <2>2 DEF Pair
      <3> QED BY <2>1, <3>1 DEF Ordered
    <2>5. \A p : Named(t, p)
      <3>1. \A i \in 1 .. 3 : t[i] \notin {"lookup_name", "compare"}
        BY <2>1, <2>3
      <3> QED BY <2>1, <3>1 DEF Named
    <2> QED BY <2>1, <2>4, <2>5
  <1> HIDE DEF s, t
  <1>3. /\ s \o ReadInode \in Seq(Steps) /\ s \o ReadInode # <<>>
        /\ Ordered(s \o ReadInode)
        /\ (s \o ReadInode)[1] = "file_buf"
        /\ (s \o ReadInode)[Len(s \o ReadInode)] = "read_inode"
        /\ \A p : Named(s \o ReadInode, p)
    <2>1. Pair(s[Len(s)], ReadInode[1])
      BY <1>1, ReadInodeOrdered DEF Pair
    <2> QED BY <1>1, <2>1, ReadInodeOrdered, Join
  <1>4. /\ (s \o ReadInode) \o t \in Seq(Steps) /\ (s \o ReadInode) \o t # <<>>
        /\ Ordered((s \o ReadInode) \o t)
        /\ ((s \o ReadInode) \o t)[1] = "file_buf"
        /\ \A p : Named((s \o ReadInode) \o t, p)
    <2>1. Pair((s \o ReadInode)[Len(s \o ReadInode)], t[1])
      BY <1>2, <1>3 DEF Pair
    <2> QED BY <1>2, <1>3, <2>1, Join
  <1>5. GetFiledata = (s \o ReadInode) \o t
    BY Zenon DEF GetFiledata, s, t
  <1> QED BY <1>4, <1>5

LEMMA DirentOrdered ==
    /\ Dirent \in Seq(Steps) /\ Dirent # <<>> /\ Ordered(Dirent)
    /\ Dirent[1] = "dirent" /\ Dirent[Len(Dirent)] = "compare"
    /\ \A p : p # <<>> => Named(Dirent, p)
  <1>1. /\ Dirent \in Seq(Steps) /\ Dirent # <<>> /\ Len(Dirent) = 3
        /\ Dirent[1] = "dirent" /\ Dirent[2] = "tmp" /\ Dirent[3] = "compare"
    BY DEF Dirent, Steps, Allocations
  <1>2. \A i \in 1 .. 2 : i = 1 \/ i = 2
    OBVIOUS
  <1>3. \A i \in 1 .. 3 : i = 1 \/ i = 2 \/ i = 3
    OBVIOUS
  <1>4. Ordered(Dirent)
    <2>1. \A i \in 1 .. 2 : Pair(Dirent[i], Dirent[i + 1])
      BY <1>1, <1>2 DEF Pair
    <2> QED BY <1>1, <2>1 DEF Ordered
  <1>5. \A p : p # <<>> => Named(Dirent, p)
    <2>1. \A i \in 1 .. 3 : Dirent[i] # "lookup_name"
      BY <1>1, <1>3
    <2> QED BY <1>1, <2>1 DEF Named
  <1> QED BY <1>1, <1>4, <1>5

LEMMA PathOrdered ==
    /\ <<"path">> \in Seq(Steps) /\ <<"path">> # <<>> /\ Ordered(<<"path">>)
    /\ <<"path">>[1] = "path" /\ <<"path">>[Len(<<"path">>)] = "path"
    /\ \A p : Named(<<"path">>, p)
  <1>1. "path" \in Steps
    BY DEF Steps
  <1> QED BY <1>1 DEF Ordered, Named

LEMMA LookupOrdered ==
    LET w == <<"lookup_name">> \o FindInDir \o <<"path">>
    IN  /\ w \in Seq(Steps) /\ w # <<>> /\ Ordered(w) /\ w[1] = "lookup_name"
        /\ \A p : p # <<>> /\ p # << <<>> >> => Named(w, p)
  <1> DEFINE s == <<"lookup_name">>
             t == <<"dir", "read_dir">>
             q == <<"path">>
  <1>1. /\ s \in Seq(Steps) /\ s # <<>> /\ Ordered(s) /\ s[1] = "lookup_name"
        /\ s[Len(s)] = "lookup_name"
    <2>1. "lookup_name" \in Steps
      BY DEF Steps, Allocations
    <2> QED BY <2>1 DEF Ordered
  <1>2. /\ t \in Seq(Steps) /\ t # <<>> /\ Ordered(t) /\ t[1] = "dir" /\ t[Len(t)] = "read_dir"
    <2>1. /\ t \in Seq(Steps) /\ t # <<>> /\ Len(t) = 2 /\ t[1] = "dir" /\ t[2] = "read_dir"
      BY DEF Steps, Allocations
    <2> HIDE DEF t
    <2>2. \A i \in 1 .. 1 : Pair(t[i], t[i + 1])
      BY <2>1 DEF Pair
    <2> QED BY <2>1, <2>2 DEF Ordered
  <1> HIDE DEF s, t
  <1>3. /\ ReadInode \o t \in Seq(Steps) /\ ReadInode \o t # <<>>
        /\ Ordered(ReadInode \o t) /\ (ReadInode \o t)[1] = "locate"
        /\ (ReadInode \o t)[Len(ReadInode \o t)] = "read_dir"
    <2>1. Pair(ReadInode[Len(ReadInode)], t[1])
      BY <1>2, ReadInodeOrdered DEF Pair
    <2> QED BY <1>2, <2>1, ReadInodeOrdered, Join
  <1>4. FindInDir = (ReadInode \o t) \o Dirent
    BY Zenon DEF FindInDir, t
  <1>5. /\ FindInDir \in Seq(Steps) /\ FindInDir # <<>> /\ Ordered(FindInDir)
        /\ FindInDir[1] = "locate" /\ FindInDir[Len(FindInDir)] = "compare"
    <2>1. Pair((ReadInode \o t)[Len(ReadInode \o t)], Dirent[1])
      BY <1>3, DirentOrdered DEF Pair
    <2> QED BY <1>3, <1>4, <2>1, DirentOrdered, Join
  <1>6. /\ s \o FindInDir \in Seq(Steps) /\ s \o FindInDir # <<>>
        /\ Ordered(s \o FindInDir) /\ (s \o FindInDir)[1] = "lookup_name"
        /\ (s \o FindInDir)[Len(s \o FindInDir)] = "compare"
    <2>1. Pair(s[Len(s)], FindInDir[1])
      BY <1>1, <1>5 DEF Pair
    <2> QED BY <1>1, <1>5, <2>1, Join
  <1>7. /\ (s \o FindInDir) \o q \in Seq(Steps) /\ (s \o FindInDir) \o q # <<>>
        /\ Ordered((s \o FindInDir) \o q) /\ ((s \o FindInDir) \o q)[1] = "lookup_name"
    <2>1. Pair((s \o FindInDir)[Len(s \o FindInDir)], q[1])
      BY <1>6, PathOrdered DEF Pair
    <2> QED BY <1>6, <2>1, PathOrdered, Join
  <1> QED BY <1>7 DEF Named, s

LEMMA Shorter ==
    ASSUME NEW w \in Seq(Steps), w # <<>>, Ordered(w)
    PROVE  /\ Tail(w) \in Seq(Steps) /\ Ordered(Tail(w))
           /\ Len(w) \in Nat /\ Len(w) >= 1 /\ Head(w) = w[1]
           /\ Len(Tail(w)) = Len(w) - 1
           /\ \A i \in 1 .. Len(w) - 1 : Tail(w)[i] = w[i + 1]
           /\ Tail(w) # <<>> => Pair(Head(w), Head(Tail(w)))
  <1>1. /\ Tail(w) \in Seq(Steps) /\ Len(w) \in Nat /\ Len(w) >= 1 /\ Head(w) = w[1]
        /\ Len(Tail(w)) = Len(w) - 1
        /\ \A i \in 1 .. Len(w) - 1 : Tail(w)[i] = w[i + 1]
    BY EmptySeq, HeadTailProperties
  <1>2. Ordered(Tail(w))
    <2>1. ASSUME NEW i \in 1 .. Len(Tail(w)) - 1 PROVE Pair(Tail(w)[i], Tail(w)[i + 1])
      <3>1. /\ i \in 1 .. Len(w) - 1 /\ i + 1 \in 1 .. Len(w) - 1
        BY <1>1
      <3>2. Pair(w[i + 1], w[(i + 1) + 1])
        BY <3>1 DEF Ordered
      <3> QED BY <1>1, <3>1, <3>2
    <2> QED BY <2>1 DEF Ordered
  <1>3. ASSUME Tail(w) # <<>> PROVE Pair(Head(w), Head(Tail(w)))
    <2>1. Len(Tail(w)) >= 1 /\ Head(Tail(w)) = Tail(w)[1]
      BY <1>1, <1>3, EmptySeq
    <2>2. 1 \in 1 .. Len(w) - 1
      BY <1>1, <2>1
    <2>3. Pair(w[1], w[1 + 1]) /\ Tail(w)[1] = w[1 + 1]
      BY <1>1, <2>2 DEF Ordered
    <2> QED BY <1>1, <2>1, <2>3
  <1> QED BY <1>1, <1>2, <1>3

LEMMA NamedTail ==
    ASSUME NEW w \in Seq(Steps), w # <<>>, Ordered(w), NEW p, Named(w, p)
    PROVE  Named(Tail(w), p)
  <1>1. \A i \in 1 .. Len(Tail(w)) : i + 1 \in 1 .. Len(w) /\ Tail(w)[i] = w[i + 1]
    BY Shorter
  <1> QED BY <1>1 DEF Named

(* Nothing comes after a search, and only the path after its comparison.   *)
LEMMA EndOfPath ==
    ASSUME NEW w \in Seq(Steps), w # <<>>, Ordered(w), Head(w) = "path"
    PROVE  w = <<"path">> /\ Tail(w) = <<>>
  <1>1. /\ Tail(w) \in Seq(Steps) /\ Len(w) \in Nat /\ Len(w) >= 1 /\ Head(w) = w[1]
        /\ Len(Tail(w)) = Len(w) - 1
        /\ Tail(w) # <<>> => Pair(Head(w), Head(Tail(w)))
    BY Shorter
  <1>2. Tail(w) = <<>>
    BY <1>1 DEF Pair
  <1>3. Len(w) = 1
    <2>1. Len(Tail(w)) = 0
      BY <1>2, EmptySeq
    <2>2. Len(w) \in Nat /\ Len(Tail(w)) = Len(w) - 1
      BY <1>1, Zenon
    <2> QED BY <2>1, <2>2
  <1>4. w = <<"path">>
    <2>1. <<"path">> \in Seq(Steps) /\ Len(<<"path">>) = 1 /\ <<"path">>[1] = "path"
      BY DEF Steps
    <2>2. \A i \in 1 .. Len(w) : w[i] = <<"path">>[i]
      BY <1>1, <1>3, <2>1
    <2>3. Len(w) = Len(<<"path">>)
      BY <1>3, <2>1
    <2> QED BY <2>1, <2>2, <2>3, SeqEqual, Zenon
  <1> QED BY <1>2, <1>4

LEMMA AfterCompare ==
    ASSUME NEW w \in Seq(Steps), w # <<>>, Ordered(w), Head(w) = "compare"
    PROVE  Tail(w) = <<>> \/ Tail(w) = <<"path">>
  <1>1. Tail(w) \in Seq(Steps) /\ Ordered(Tail(w))
    BY Shorter
  <1>2. Tail(w) # <<>> => Head(Tail(w)) = "path"
    BY Shorter DEF Pair
  <1> QED BY <1>1, <1>2, EndOfPath

-----------------------------------------------------------------------------
Booting == {"look"} \cup Window \cup {"mount", "mounted"}

Typed ==
    /\ mem \in Memory
    /\ used \in Nat /\ head \in Nat /\ temp \in Nat /\ at \in Nat /\ reg \in Nat
    /\ boot \in Booting
    /\ work \in Seq(Steps) /\ path \in Seq(Seq(Octet))
    /\ ino \in Nat /\ loc \in [Locals -> Nat] /\ missed \in BOOLEAN

(* All of it holds until memory is written that is not the writer's, or a  *)
(* command comes into kmain's malloc.                                      *)
Sound == Typed /\ Ordered(work) /\ Named(work, path) /\ \E S : Reliable(S)

Inv == causes = {} => Sound

LEMMA NoSteps == <<>> \in Seq(Steps) /\ Ordered(<<>>) /\ \A p : Named(<<>>, p)
  BY DEF Ordered, Named

LEMMA InitSound == Init => Sound
  <1> SUFFICES ASSUME Init PROVE Sound
    OBVIOUS
  <1>1. Typed
    <2>1. mem \in Memory
      BY Ext2Assumption DEF Init, Memory
    <2>2. loc \in [Locals -> Nat]
      BY DEF Init
    <2>3. /\ used \in Nat /\ head \in Nat /\ temp \in Nat /\ at \in Nat /\ reg \in Nat
          /\ ino \in Nat /\ missed \in BOOLEAN
      BY Sizes DEF Init
    <2>4. work \in Seq(Steps) /\ path \in Seq(Seq(Octet)) /\ boot \in Booting
      BY DEF Init, Booting
    <2> QED BY <2>1, <2>2, <2>3, <2>4 DEF Typed
  <1>2. Ordered(work) /\ Named(work, path)
    BY NoSteps DEF Init
  <1>3. Reliable({})
    <2>1. List({}, mem, used, Fresh)
      BY DEF List
    <2>2. KmainAt({})
      BY Constants DEF KmainAt, KmainAlone, Init
    <2>3. StepAt({})
      <3>1. "len" \in Locals
        BY DEF Locals
      <3> QED BY <3>1 DEF StepAt, Init
    <2> QED BY <2>1, <2>2, <2>3 DEF Reliable, Located, Init
  <1> QED BY <1>1, <1>2, <1>3 DEF Sound

(* What a step of kmain, with no command at work, has to keep.             *)
LEMMA KmainSound ==
    ASSUME Sound, work = <<>>, UNCHANGED command, UNCHANGED missed,
           mem' \in Memory, used' \in Nat, head' \in Nat, temp' \in Nat, at' \in Nat,
           reg' \in Nat, boot' \in Booting,
           \E T : /\ List(T, mem', used', boot' # "mounted") /\ KmainAt(T)'
                  /\ boot' = "mounted" => Geometry(mem')
    PROVE  Sound'
  <1>1. /\ work' = work /\ path' = path /\ ino' = ino /\ loc' = loc /\ missed' = missed
    BY DEF command
  <1>2. Typed'
    BY <1>1 DEF Typed, Sound
  <1>3. Ordered(work') /\ Named(work', path')
    BY <1>1 DEF Sound
  <1>4. PICK T : /\ List(T, mem', used', boot' # "mounted") /\ KmainAt(T)'
                 /\ boot' = "mounted" => Geometry(mem')
    OBVIOUS
  <1>5. StepAt(T)'
    <2>1. loc.len <= 15
      BY DEF Sound, Reliable, StepAt
    <2> QED BY <1>1, <2>1 DEF StepAt
  <1>6. Located'
    BY <1>1 DEF Located
  <1>7. Reliable(T)'
    BY <1>4, <1>5, <1>6 DEF Reliable, Fresh
  <1> QED BY <1>2, <1>3, <1>7 DEF Sound

(* What the heap is before a step of kmain.                                *)
LEMMA KmainHeap ==
    ASSUME Sound, NEW S, Reliable(S), boot # "mounted", boot # "mount"
    PROVE  /\ mem \in Memory /\ used \in Nat /\ used <= Total + 3
           /\ temp \in Nat /\ at \in Nat /\ reg \in Nat /\ head \in Nat
           /\ List(S, mem, used, TRUE)
           /\ head = IF S = {} /\ boot # "finish" THEN NULL ELSE First
           /\ S = {} => KmainAlone
           /\ S # {} => KmainOn(S)
           /\ \A b \in S : b \in Nat /\ 20 <= b /\ b <= Total + 3 /\ b <= used
  <1>1. Typed /\ KmainAt(S) /\ List(S, mem, used, TRUE)
    <2>1. Typed /\ KmainAt(S) /\ List(S, mem, used, boot # "mounted")
      BY DEF Sound, Reliable, Fresh
    <2>2. (boot # "mounted") = TRUE
      OBVIOUS
    <2> QED BY <2>1, <2>2
  <1>2. head = IF S = {} /\ boot # "finish" THEN NULL ELSE First
    BY <1>1 DEF KmainAt, KmainAlone, KmainOn
  <1>3. \A b \in S : b \in Nat /\ 20 <= b /\ b <= Total + 3 /\ b <= used
    BY <1>1, Sizes DEF List
  <1> QED BY <1>1, <1>2, <1>3 DEF Typed, KmainAt

LEMMA LookSound ==
    ASSUME Sound, Look PROVE Sound'
  <1>0. PICK S : Reliable(S)
    BY DEF Sound
  <1>1. /\ boot = "look" /\ work = <<>> /\ UNCHANGED command /\ UNCHANGED missed
        /\ used' = used /\ head' = head /\ at' = at /\ reg' = reg
    BY DEF Look, Kmain, Idle
  <1>2. /\ mem \in Memory /\ used \in Nat /\ used <= Total + 3
        /\ temp \in Nat /\ at \in Nat /\ reg \in Nat /\ head \in Nat
        /\ List(S, mem, used, TRUE)
        /\ head = IF S = {} THEN NULL ELSE First
        /\ S = {} => KmainAlone
        /\ S # {} => KmainOn(S)
        /\ \A b \in S : b \in Nat /\ 20 <= b /\ b <= Total + 3 /\ b <= used
    BY <1>0, <1>1, KmainHeap
  <1> DEFINE headers == Headers(mem, head)
             last == LastHeader(headers)
             fits == Fits(mem, headers, 4)
             worst == Worst(mem, headers, 4)
  <1>3. /\ S = {} => last = NULL /\ Listed(headers) = {}
        /\ S # {} => last \in S
        /\ \A i \in Listed(headers) : headers[i] \in S
        /\ Listed(headers) \subseteq Nat
    BY <1>2, ListWalk
  <1>4. IF fits = {} THEN boot' = "reserve" /\ temp' = last /\ mem' = mem
        ELSE boot' = "mount" /\ temp' = temp /\ mem' = Put(mem, worst + 4, <<0>>)
    BY Sizes, Zenon DEF Look, Kmain
  <1>5. CASE fits = {}
    <2> HIDE DEF headers, last, fits
    <2>1. boot' = "reserve" /\ temp' = last /\ mem' = mem
      BY <1>4, <1>5
    <2>2. temp' \in Nat /\ boot' \in Booting
      BY <1>2, <1>3, <2>1, Sizes DEF Booting, Window
    <2>3. KmainAt(S)'
      <3>1. CASE S = {}
        <4>1. used = 0
          BY <1>1, <1>2, <3>1 DEF KmainAlone
        <4> QED BY <1>1, <1>2, <1>3, <2>1, <3>1, <4>1 DEF KmainAt, KmainAlone, Window
      <3>2. CASE S # {}
        BY <1>1, <1>2, <1>3, <2>1, <3>2 DEF KmainAt, KmainOn
      <3> QED BY <3>1, <3>2
    <2>4. List(S, mem', used', boot' # "mounted")
      BY <1>1, <1>2, <2>1
    <2> QED BY <1>1, <1>2, <2>1, <2>2, <2>3, <2>4, KmainSound
  <1>6. CASE fits # {}
    <2>1. Min(fits) \in fits
      <3>1. fits \subseteq Nat
        BY <1>3, Zenon DEF Fits
      <3> QED BY <1>6, <3>1, Smallest, Zenon
    <2>2. worst \in S /\ Byte(mem, worst + 4) = 1 /\ Word(mem, worst) >= 4
      <3>1. /\ Min(fits) \in Listed(headers)
            /\ Byte(mem, headers[Min(fits)] + IsFreeAt) = 1
            /\ Word(mem, headers[Min(fits)]) >= 4
        BY <2>1, Zenon DEF Fits
      <3> QED BY <1>3, <3>1, Sizes, Zenon DEF Worst
    <2>3. boot' = "mount" /\ temp' = temp /\ mem' = Put(mem, worst + 4, <<0>>)
      BY <1>4, <1>6
    <2> HIDE DEF headers, last, fits, worst
    <2>4. worst \in Nat /\ worst + 4 \in Nat /\ worst + 4 < MemSize
      BY <1>2, <2>2, MemoryIsLarge
    <2>5. /\ mem' \in Memory
          /\ \A x \in Nat : x # worst + 4 => Byte(mem', x) = Byte(mem, x)
          /\ Byte(mem', worst + 4) = 0
      <3>1. 0 \in Octet
        BY DEF Octet
      <3> QED BY <1>2, <2>3, <2>4, <3>1, ByteWrite
    <2>6. List(S, mem', used, TRUE)
      <3>1. ASSUME NEW b \in S, NEW k \in 0 .. 15, b # worst \/ k # 4
            PROVE  Byte(mem', b + k) = Byte(mem, b + k)
        <4>1. b < worst => b + 20 <= worst
          BY <1>2, <2>2, Sizes DEF List
        <4>2. worst < b => worst + 20 <= b
          BY <1>2, <2>2, Sizes DEF List
        <4>3. b + k \in Nat /\ b + k # worst + 4
          BY <1>2, <2>4, <3>1, <4>1, <4>2
        <4> QED BY <2>5, <4>3
      <3>2. \A b \in S : \A k \in 8 .. 11 : Byte(mem', b + k) = Byte(mem, b + k)
        BY <3>1
      <3>3. ASSUME NEW b \in S, Byte(mem', b + 4) = 1, NEW k \in (0 .. 4) \cup (12 .. 15)
            PROVE  Byte(mem', b + k) = Byte(mem, b + k)
        <4>1. b # worst
          BY <2>5, <3>3
        <4>2. k \in 0 .. 15
          OBVIOUS
        <4> QED BY <3>1, <4>1, <4>2
      <3>4. \A b \in S : Byte(mem', b + 4) = 1 =>
               \A k \in (0 .. 4) \cup (12 .. 15) : Byte(mem', b + k) = Byte(mem, b + k)
        BY <3>3
      <3>5. used \in Nat /\ List(S, mem, used, TRUE)
        BY <1>2
      <3>6. used <= used
        BY <3>5
      <3> QED BY <3>2, <3>4, <3>5, <3>6, ListKept
    <2>7. used >= 28
      <3>1. FreeAsKnown(mem, used, TRUE, worst)
        BY <1>2, <2>2 DEF List
      <3>2. used + 2 >= Total
        BY <2>2, <3>1, Sizes DEF FreeAsKnown
      <3> QED BY <1>2, <3>2, Constants
    <2>8. KmainAt(S)'
      BY <1>1, <1>2, <2>2, <2>3, <2>7 DEF KmainAt, KmainOn, Window
    <2>9. temp' \in Nat /\ boot' \in Booting /\ boot' # "mounted"
      BY <1>2, <2>3 DEF Booting, Window
    <2> QED BY <1>1, <1>2, <2>5, <2>6, <2>8, <2>9, KmainSound
  <1> QED BY <1>5, <1>6

LEMMA ReserveHeaderSound ==
    ASSUME Sound, ReserveHeader PROVE Sound'
  <1>0. PICK S : Reliable(S)
    BY DEF Sound
  <1>1. /\ boot = "reserve" /\ boot' = "count" /\ work = <<>>
        /\ UNCHANGED command /\ UNCHANGED missed
        /\ mem' = mem /\ used' = used /\ head' = head /\ temp' = temp /\ reg' = reg
        /\ at' = Reserve(used, 16).addr
    BY Sizes DEF ReserveHeader, Kmain, Idle, heap
  <1>2. /\ mem \in Memory /\ used \in Nat /\ used <= Total + 3
        /\ temp \in Nat /\ at \in Nat /\ reg \in Nat /\ head \in Nat
        /\ List(S, mem, used, TRUE)
        /\ S = {} => KmainAlone
        /\ S # {} => KmainOn(S)
    BY <1>0, <1>1, KmainHeap
  <1>3. \/ used + 16 < Total /\ at' = used + 20
        \/ used + 16 >= Total /\ at' = NULL
    <2>1. used + 16 + 4 = used + 20 /\ 16 \in Nat /\ 16 > 0
      BY <1>2
    <2> QED BY <1>1, <1>2, <2>1, BrkGives
  <1>4. at' \in Nat /\ boot' \in Booting
    BY <1>1, <1>2, <1>3, Sizes DEF Booting, Window
  <1>5. KmainAt(S)'
    <2>1. CASE S = {}
      <3>1. used = 0 /\ temp = NULL /\ head = NULL
        BY <1>1, <1>2, <2>1 DEF KmainAlone
      <3>2. at' = First
        BY <1>3, <3>1, Constants, Sizes
      <3> QED BY <1>1, <1>2, <2>1, <3>1, <3>2 DEF KmainAt, KmainAlone, Window
    <2>2. CASE S # {}
      <3>1. head = First /\ temp \in S
        BY <1>1, <1>2, <2>2 DEF KmainOn, Window
      <3>2. KmainOn(S)'
        BY <1>1, <1>3, <3>1, Sizes DEF KmainOn
      <3> QED BY <1>1, <1>2, <2>2, <3>2 DEF KmainAt
    <2> QED BY <2>1, <2>2
  <1> QED BY <1>1, <1>2, <1>4, <1>5, KmainSound

LEMMA CountHeaderSound ==
    ASSUME Sound, CountHeader PROVE Sound'
  <1>0. PICK S : Reliable(S)
    BY DEF Sound
  <1>1. /\ boot \in {"count", "store"}
        /\ boot = "count" => boot' = "store" /\ reg' = used /\ used' = used
        /\ boot = "store" => boot' = "publish" /\ reg' = reg
        /\ boot = "store" /\ at = NULL => used' = used
        /\ boot = "store" /\ at # NULL => used' = reg + 20
        /\ work = <<>> /\ UNCHANGED command /\ UNCHANGED missed
        /\ mem' = mem /\ head' = head /\ temp' = temp /\ at' = at
    <2>1. \A r \in Nat : r + HeaderSize + 4 = r + 20
      BY Sizes
    <2>2. reg \in Nat
      BY DEF Sound, Typed
    <2>3. CASE Kmain("count", "store") /\ reg' = used /\ used' = used
      BY <2>3 DEF CountHeader, Kmain, Idle
    <2>4. CASE /\ Kmain("store", "publish")
               /\ used' = IF at = NULL THEN used ELSE reg + HeaderSize + 4
               /\ reg' = reg
      <3>1. used' = IF at = NULL THEN used ELSE reg + 20
        BY <2>1, <2>2, <2>4
      <3>2. boot = "store" /\ boot' = "publish" /\ work = <<>> /\ reg' = reg
        BY <2>4 DEF Kmain, Idle
      <3>3. /\ UNCHANGED command /\ UNCHANGED missed
            /\ mem' = mem /\ head' = head /\ temp' = temp /\ at' = at
        BY DEF CountHeader
      <3> QED BY <3>1, <3>2, <3>3
    <2> QED BY <2>3, <2>4 DEF CountHeader
  <1>2. /\ mem \in Memory /\ used \in Nat /\ used <= Total + 3
        /\ temp \in Nat /\ at \in Nat /\ reg \in Nat /\ head \in Nat
        /\ List(S, mem, used, TRUE)
        /\ S = {} => KmainAlone
        /\ S # {} => KmainOn(S)
        /\ \A b \in S : b \in Nat /\ 20 <= b /\ b <= Total + 3 /\ b <= used
    BY <1>0, <1>1, KmainHeap
  <1>3. CASE boot = "count"
    <2>1. boot' = "store" /\ reg' = used /\ used' = used
      BY <1>1, <1>3
    <2>2. KmainAt(S)'
      <3>1. CASE S = {}
        <4>1. used = 0 /\ temp = NULL /\ head = NULL /\ at = First
          BY <1>2, <1>3, <3>1 DEF KmainAlone
        <4> QED BY <1>1, <1>2, <2>1, <3>1, <4>1 DEF KmainAt, KmainAlone, Window
      <3>2. CASE S # {}
        <4>1. /\ head = First /\ temp \in S
              /\ \/ at = NULL /\ used + 16 >= Total
                 \/ at = used + First /\ used + 16 < Total
          BY <1>2, <1>3, <3>2, Sizes DEF KmainOn, Window
        <4>2. KmainOn(S)'
          BY <1>1, <2>1, <4>1, Sizes DEF KmainOn
        <4> QED BY <1>1, <1>2, <2>1, <3>2, <4>2 DEF KmainAt
      <3> QED BY <3>1, <3>2
    <2>3. reg' \in Nat /\ boot' \in Booting /\ boot' # "mounted"
      BY <1>2, <2>1 DEF Booting, Window
    <2>4. List(S, mem', used', boot' # "mounted")
      <3>1. (boot' # "mounted") = TRUE
        BY <2>3
      <3> QED BY <1>1, <1>2, <2>1, <3>1
    <2> QED BY <1>1, <1>2, <2>1, <2>2, <2>3, <2>4, KmainSound
  <1>4. CASE boot = "store"
    <2>1. boot' = "publish" /\ reg' = reg
      BY <1>1, <1>4
    <2>2. /\ used' \in Nat /\ used <= used' /\ used' <= Total + 3
          /\ KmainAt(S)'
      <3>1. CASE S = {}
        <4>1. used = 0 /\ temp = NULL /\ head = NULL /\ at = First /\ reg = 0
          BY <1>2, <1>4, <3>1 DEF KmainAlone
        <4>2. used' = 20
          BY <1>1, <1>4, <4>1, Sizes
        <4> QED BY <1>1, <1>2, <2>1, <3>1, <4>1, <4>2, Constants, Sizes
              DEF KmainAt, KmainAlone, Window
      <3>2. CASE S # {}
        <4>1. /\ head = First /\ temp \in S /\ reg = used
              /\ \/ at = NULL /\ used + 16 >= Total
                 \/ at = used + First /\ used + 16 < Total
          BY <1>2, <1>4, <3>2, Sizes DEF KmainOn, Window
        <4>2. \/ at = NULL /\ used + 16 >= Total /\ used' = used
              \/ at = used' /\ used' = used + 20 /\ used' <= Total + 3
          BY <1>1, <1>2, <1>4, <4>1, Constants, Sizes
        <4>3. at = used' /\ used' = used + 20 => \A b \in S : b + First <= at
          BY <1>2, Sizes
        <4>4. KmainOn(S)'
          BY <1>1, <1>2, <2>1, <4>1, <4>2, <4>3, Sizes DEF KmainOn
        <4>5. used' \in Nat /\ used <= used' /\ used' <= Total + 3
          BY <1>2, <4>2
        <4> QED BY <2>1, <3>2, <4>4, <4>5 DEF KmainAt
      <3> QED BY <3>1, <3>2
    <2>3. boot' \in Booting /\ boot' # "mounted"
      BY <2>1 DEF Booting, Window
    <2>4. List(S, mem', used', TRUE)
      BY <1>1, <1>2, <2>2, ListKept
    <2>5. List(S, mem', used', boot' # "mounted")
      <3>1. (boot' # "mounted") = TRUE
        BY <2>3
      <3> QED BY <2>4, <3>1
    <2> QED BY <1>1, <1>2, <2>1, <2>2, <2>3, <2>5, KmainSound
  <1> QED BY <1>1, <1>3, <1>4

LEMMA PublishSound ==
    ASSUME Sound, Publish PROVE Sound'
  <1>0. PICK S : Reliable(S)
    BY DEF Sound
  <1>1. /\ boot = "publish" /\ boot' = "finish" /\ work = <<>>
        /\ UNCHANGED command /\ UNCHANGED missed
        /\ used' = used /\ temp' = temp /\ at' = at /\ reg' = reg
        /\ IF temp = NULL THEN head' = at /\ mem' = mem
           ELSE head' = head /\ mem' = Fields(mem, at, 4, NULL)
    BY DEF Publish, Kmain, Idle
  <1>2. /\ mem \in Memory /\ used \in Nat /\ used <= Total + 3
        /\ temp \in Nat /\ at \in Nat /\ reg \in Nat /\ head \in Nat
        /\ List(S, mem, used, TRUE)
        /\ S = {} => KmainAlone
        /\ S # {} => KmainOn(S)
        /\ \A b \in S : b \in Nat /\ 20 <= b /\ b <= Total + 3 /\ b <= used
    BY <1>0, <1>1, KmainHeap
  <1>3. boot' \in Booting /\ boot' # "mounted" /\ (boot' # "mounted") = TRUE
    BY <1>1 DEF Booting, Window
  <1>4. CASE S = {}
    <2>1. temp = NULL /\ used = First /\ at = First
      BY <1>1, <1>2, <1>4 DEF KmainAlone
    <2>2. head' = First /\ mem' = mem /\ head' \in Nat
      BY <1>1, <2>1, Sizes
    <2>3. KmainAt(S)'
      BY <1>1, <1>2, <1>4, <2>1, <2>2 DEF KmainAt, KmainAlone, Window
    <2>4. List(S, mem', used', boot' # "mounted")
      BY <1>1, <1>2, <1>3, <2>2
    <2> QED BY <1>1, <1>2, <1>3, <2>2, <2>3, <2>4, KmainSound
  <1>5. CASE S # {}
    <2>1. /\ head = First /\ temp \in S
          /\ \/ at = NULL /\ used + 16 >= Total
             \/ at = used /\ at <= Total + 3 /\ \A b \in S : b + 20 <= at
      BY <1>1, <1>2, <1>5, Sizes DEF KmainOn, Window
    <2>2. head' = head /\ mem' = Fields(mem, at, 4, NULL)
      BY <1>1, <1>2, <2>1, Sizes
    <2>3. /\ mem' \in Memory
          /\ \A x \in Nat : x < at \/ at + 16 <= x \/ (at + 5 <= x /\ x < at + 8)
                => Byte(mem', x) = Byte(mem, x)
      <3>1. at + 16 <= MemSize
        BY <1>2, <2>1, MemoryIsLarge, Sizes
      <3>2. 4 \in Nat /\ NULL \in Nat
        BY Sizes
      <3> QED BY <1>2, <2>2, <3>1, <3>2, FieldsWrite
    <2>4. List(S, mem', used', TRUE)
      <3>1. ASSUME NEW b \in S, NEW k \in 0 .. 15 PROVE Byte(mem', b + k) = Byte(mem, b + k)
        <4>1. b + k \in Nat /\ (b + k < at \/ at + 16 <= b + k)
          BY <1>2, <2>1, Sizes
        <4> QED BY <2>3, <4>1
      <3>2. \A b \in S : \A k \in 8 .. 11 : Byte(mem', b + k) = Byte(mem, b + k)
        BY <3>1
      <3>3. \A b \in S : Byte(mem', b + 4) = 1 =>
               \A k \in (0 .. 4) \cup (12 .. 15) : Byte(mem', b + k) = Byte(mem, b + k)
        <4>1. \A k \in (0 .. 4) \cup (12 .. 15) : k \in 0 .. 15
          OBVIOUS
        <4> QED BY <3>1, <4>1
      <3>4. used \in Nat /\ used' = used
        BY <1>1, <1>2
      <3>5. used <= used
        BY <3>4
      <3> QED BY <1>2, <3>2, <3>3, <3>4, <3>5, ListKept
    <2>5. KmainAt(S)'
      <3>1. KmainOn(S)'
        BY <1>1, <2>1, <2>2, Sizes DEF KmainOn
      <3> QED BY <1>1, <1>2, <1>5, <3>1 DEF KmainAt
    <2>6. List(S, mem', used', boot' # "mounted")
      BY <1>3, <2>4
    <2> QED BY <1>1, <1>2, <1>3, <2>2, <2>3, <2>5, <2>6, KmainSound
  <1> QED BY <1>4, <1>5

LEMMA FinishSound ==
    ASSUME Sound, Finish PROVE Sound'
  <1>0. PICK S : Reliable(S)
    BY DEF Sound
  <1> DEFINE d == Payload(used, 4, temp = NULL)
             new == Fields(mem, at, 4, d.addr)
  <1>1. /\ boot = "finish" /\ boot' = "mount" /\ work = <<>>
        /\ UNCHANGED command /\ UNCHANGED missed
        /\ head' = head /\ temp' = temp /\ at' = at /\ reg' = reg
        /\ used' = d.used
        /\ mem' = IF temp = NULL THEN new ELSE Put(new, temp + NextAt, Bytes(at))
    BY DEF Finish, Kmain, Idle
  <1>2. /\ mem \in Memory /\ used \in Nat /\ used <= Total + 3
        /\ temp \in Nat /\ at \in Nat /\ reg \in Nat /\ head \in Nat
        /\ List(S, mem, used, TRUE)
        /\ S = {} => KmainAlone
        /\ S # {} => KmainOn(S)
        /\ \A b \in S : b \in Nat /\ 20 <= b /\ b <= Total + 3 /\ b <= used
    BY <1>0, <1>1, KmainHeap
  <1>3. boot' \in Booting /\ boot' # "mounted" /\ (boot' # "mounted") = TRUE
    BY <1>1 DEF Booting, Window
  <1>4. CASE S = {}
    <2>1. temp = NULL /\ used = 20 /\ at = 20 /\ head = First
      BY <1>1, <1>2, <1>4, Sizes DEF KmainAlone, Window
    <2>2. d.addr = 28 /\ d.used = 28
      <3>1. d = Reserve(20, 4)
        BY <2>1 DEF Payload
      <3>2. \/ 20 + 4 < Total /\ Reserve(20, 4).addr = 20 + 4 + 4 /\ Reserve(20, 4).used = 20 + 4 + 4
            \/ 20 + 4 >= Total
        BY BrkGives
      <3> QED BY <3>1, <3>2, Constants
    <2> HIDE DEF d
    <2>3. mem' = Fields(mem, 20, 4, 28) /\ used' = 28
      BY <1>1, <2>1, <2>2
    <2>4. mem' \in Memory /\ Byte(mem', 24) = 0 /\ Word(mem', 28) = NULL
      <3>1. 20 + 16 <= MemSize /\ 20 \in Nat /\ 4 \in Nat /\ 28 \in Nat
        BY MemoryIsLarge
      <3>2. mem' \in Memory /\ Byte(mem', 20 + 4) = 0 /\ Word(mem', 20 + 8) = NULL
        BY <1>2, <2>3, <3>1, FieldsWrite
      <3> QED BY <3>2
    <2>5. List({First}, mem', used', TRUE)
      <3>1. \A b \in {20} : b \in Nat /\ 20 <= b /\ b <= Total + 3 /\ b <= 28
        BY Constants
      <3>2. Word(mem', 20 + 8) = NULL /\ Byte(mem', 20 + 4) = 0 /\ 20 + 5 <= 28
        BY <2>4
      <3> QED BY <2>3, <3>1, <3>2, Sizes DEF List, FreeAsKnown
    <2>6. KmainAt({First})'
      <3>1. 28 <= Total + 3
        BY Constants
      <3> QED BY <1>1, <2>1, <2>3, <3>1 DEF KmainAt, KmainOn, Window
    <2>7. List({First}, mem', used', boot' # "mounted")
      BY <1>3, <2>5
    <2>8. mem' \in Memory /\ used' \in Nat
      BY <2>3, <2>4
    <2> QED BY <1>1, <1>2, <1>3, <2>6, <2>7, <2>8, KmainSound
  <1>5. CASE S # {}
    <2>1. /\ head = First /\ temp \in S /\ temp # NULL
          /\ \/ at = NULL /\ used + 16 >= Total
             \/ at = used /\ at <= Total + 3 /\ \A b \in S : b + 20 <= at
      BY <1>1, <1>2, <1>5, Sizes DEF KmainOn, Window
    <2>2. /\ d.addr \in Nat /\ d.used \in Nat /\ used <= d.used /\ d.used <= Total + 3
      <3> DEFINE lost == Reserve(used, 4)
      <3>1. \/ used + 4 < Total /\ lost.used = used + 4 + 4
            \/ lost.used = used
        BY <1>2, BrkGives
      <3> HIDE DEF lost
      <3>2. lost.used \in Nat /\ used <= lost.used /\ lost.used <= Total + 3
        BY <1>2, <3>1, Constants
      <3>3. d = Reserve(lost.used, 4)
        BY <2>1 DEF Payload, lost
      <3>4. \/ /\ lost.used + 4 < Total
               /\ d.addr = lost.used + 4 + 4 /\ d.used = lost.used + 4 + 4
            \/ d.addr = NULL /\ d.used = lost.used
        BY <3>2, <3>3, BrkGives
      <3> QED BY <1>2, <3>2, <3>4, Constants, Sizes
    <2>3. mem' = Put(new, temp + 8, Bytes(at)) /\ used' = d.used
      BY <1>1, <2>1, Sizes
    <2> HIDE DEF d
    <2>4. /\ new \in Memory
          /\ \A x \in Nat : x < at \/ at + 16 <= x => Byte(new, x) = Byte(mem, x)
          /\ Byte(new, at + 4) = 0 /\ Word(new, at + 8) = NULL
      <3>1. at + 16 <= MemSize /\ 4 \in Nat
        BY <1>2, <2>1, MemoryIsLarge, Sizes
      <3> QED BY <1>2, <2>2, <3>1, FieldsWrite
    <2> HIDE DEF new
    <2>5. /\ mem' \in Memory
          /\ \A x \in Nat : x < temp + 8 \/ temp + 12 <= x => Byte(mem', x) = Byte(new, x)
          /\ Word(mem', temp + 8) = at
      <3>1. temp + 8 \in Nat /\ (temp + 8) + 4 = temp + 12 /\ (temp + 8) + 4 <= MemSize
        BY <1>2, <2>1, MemoryIsLarge
      <3>2. at < TooLarge
        BY <1>2, <2>1, MemoryIsLarge, Constants, Sizes
      <3> QED BY <1>2, <2>3, <2>4, <3>1, <3>2, WordWrite
    <2>6. \E T : T # {} /\ S \subseteq T /\ List(T, mem', used', TRUE)
      <3>1. PICK T : T = IF at = NULL THEN S ELSE S \cup {at}
        OBVIOUS
      <3>2. T # {} /\ S \subseteq T
        BY <1>5, <3>1
      <3>3. List(T, mem', used', TRUE)
        <4>1. ASSUME NEW b \in S, NEW k \in 0 .. 15, b # temp \/ k < 8 \/ k >= 12
              PROVE  Byte(mem', b + k) = Byte(mem, b + k)
          <5>1. b < temp => b + 20 <= temp
            BY <1>2, <2>1, Sizes DEF List
          <5>2. temp < b => temp + 20 <= b
            BY <1>2, <2>1, Sizes DEF List
          <5>3. /\ b + k \in Nat
                /\ b + k < temp + 8 \/ temp + 12 <= b + k
                /\ b + k < at \/ at + 16 <= b + k
            BY <1>2, <2>1, <4>1, <5>1, <5>2, Sizes
          <5> QED BY <1>2, <2>4, <2>5, <5>3
        <4>2. \/ at = NULL
              \/ /\ at <= Total + 3 /\ at <= used' /\ \A b \in S : b + 20 <= at
                 /\ Byte(mem', at + 4) = 0 /\ Word(mem', at + 8) = NULL
          <5> SUFFICES ASSUME at # NULL
                       PROVE  /\ at <= Total + 3 /\ at <= used' /\ \A b \in S : b + 20 <= at
                              /\ Byte(mem', at + 4) = 0 /\ Word(mem', at + 8) = NULL
            OBVIOUS
          <5>1. at <= Total + 3 /\ at <= used' /\ \A b \in S : b + 20 <= at
            BY <1>2, <2>1, <2>2, <2>3
          <5>2. \A k \in 4 .. 11 : at + k \in Nat /\ temp + 12 <= at + k
            BY <1>2, <2>1, <5>1
          <5>3. \A k \in 4 .. 11 : Byte(mem', at + k) = Byte(new, at + k)
            BY <2>5, <5>2
          <5>4. Byte(mem', at + 4) = Byte(new, at + 4)
            BY <5>3
          <5>5. Word(mem', at + 8) = Word(new, at + 8)
            <6>1. \A k \in 8 .. 8 + 3 : Byte(mem', at + k) = Byte(new, at + k)
              BY <5>3
            <6> QED BY <1>2, <6>1, WordKept
          <5> QED BY <2>4, <5>1, <5>4, <5>5
        <4>3. \A b \in S : \A k \in 0 .. 15 :
                 b # temp \/ k < 8 \/ k >= 12 => Byte(mem', b + k) = Byte(mem, b + k)
          BY <4>1
        <4>4. T = IF at = NULL THEN S ELSE S \cup {at}
          BY <3>1
        <4>5. /\ used \in Nat /\ used' \in Nat /\ used <= used' /\ at \in Nat /\ temp \in S
              /\ Word(mem', temp + 8) = at /\ List(S, mem, used, TRUE)
          BY <1>2, <2>1, <2>2, <2>3, <2>5
          <4>6. Linked(mem, mem', S, used', temp, at)
            BY <4>2, <4>3, <4>5 DEF Linked
          <4> QED BY <4>4, <4>5, <4>6, ListLinked
      <3> QED BY <3>2, <3>3
    <2>7. PICK T : T # {} /\ S \subseteq T /\ List(T, mem', used', TRUE)
      BY <2>6
    <2>8. used' >= 28 /\ used' <= Total + 3
      <3>1. First \in S /\ First + 5 <= used
        BY <1>2, <1>5 DEF List
      <3>2. used >= 28
        <4>1. at = used => 20 + 20 <= used
          BY <2>1, <3>1, Sizes
        <4> QED BY <1>2, <2>1, <4>1, Constants
      <3> QED BY <1>2, <2>2, <2>3, <3>2
    <2>9. KmainAt(T)'
      <3>1. KmainOn(T)'
        BY <1>1, <2>1 DEF KmainOn, Window
      <3> QED BY <1>1, <2>7, <2>8, <3>1 DEF KmainAt
    <2>10. List(T, mem', used', boot' # "mounted")
      BY <1>3, <2>7
    <2>11. mem' \in Memory /\ used' \in Nat
      BY <2>2, <2>3, <2>5
    <2> QED BY <1>1, <1>2, <1>3, <2>9, <2>10, <2>11, KmainSound
  <1> QED BY <1>4, <1>5

(* The superblock's own bytes at the first header's fields make it a block *)
(* that is not free and has no next one.                                   *)
LEMMA MountSound ==
    ASSUME Sound, Mount PROVE Sound'
  <1>0. PICK S : Reliable(S)
    BY DEF Sound
  <1>1. /\ boot = "mount" /\ boot' = "mounted" /\ work = <<>>
        /\ UNCHANGED command /\ UNCHANGED missed
        /\ used' = used /\ head' = head /\ temp' = temp /\ at' = at /\ reg' = reg
        /\ mem' = Sector(mem, 2, Arrive(2, 1), 0)
    BY Sizes DEF Mount, Kmain, Idle, Superblock
  <1>2. /\ mem \in Memory /\ used \in Nat /\ temp \in Nat /\ at \in Nat
        /\ reg \in Nat /\ head \in Nat
        /\ used <= Total + 3 /\ used >= 28 /\ head = First
    BY <1>0, <1>1, Zenon DEF Sound, Typed, Reliable, KmainAt, KmainOn
  <1>3. mem' = Sector(mem, 2, 1, 0) /\ 2 + 1 <= Sectors
    BY <1>1, DiskAssumption DEF Arrive
  <1>4. /\ mem' \in Memory
        /\ \A x \in Nat : x < 64 => Byte(mem', x) = Disk[2][x + 1]
    <2>1. /\ mem' \in Memory
          /\ \A x \in Nat : 0 <= x /\ x < 0 + SectorSize /\ x < MemSize /\ 1 > 0
                => Byte(mem', x) = Disk[2][x - 0 + 1]
      <3> DEFINE Stored(lba, n, a) ==
                    /\ Sector(mem, lba, n, a) \in Memory
                    /\ \A x \in Nat : a <= x /\ x < a + SectorSize /\ x < MemSize /\ n > 0
                          => Byte(Sector(mem, lba, n, a), x) = Disk[lba][x - a + 1]
      <3>0. \A lba, n, a \in Nat : lba + n <= Sectors => Stored(lba, n, a)
        BY <1>2, SectorByte
      <3>1. Stored(2, 1, 0)
        <4> HIDE DEF Stored
        <4>1. 2 \in Nat /\ 1 \in Nat /\ 0 \in Nat
          OBVIOUS
        <4> QED BY <1>3, <3>0, <4>1, Zenon
      <3> QED BY <1>3, <3>1, Zenon
    <2>2. ASSUME NEW x \in Nat, x < 64 PROVE Byte(mem', x) = Disk[2][x + 1]
      <3>1. 0 <= x /\ x < 0 + SectorSize /\ x < MemSize /\ 1 > 0 /\ x - 0 + 1 = x + 1
        BY <2>2, MemoryIsLarge DEF SectorSize
      <3>2. Byte(mem', x) = Disk[2][x - 0 + 1]
        BY <2>1, <3>1
      <3> QED BY <3>1, <3>2
    <2> QED BY <2>1, <2>2
  <1>5. Geometry(mem')
    <2>1. \A x \in (24 .. 27) \cup (32 .. 35) \cup (40 .. 43) : x \in Nat /\ x < 64
      OBVIOUS
    <2> QED BY <1>4, <2>1 DEF Geometry
  <1>6. \A x \in 24 .. 31 : Byte(mem', x) = 0
    <2>1. \A x \in 24 .. 31 : x \in Nat /\ x < 64
      OBVIOUS
    <2> QED BY <1>4, <2>1, DiskAssumption
  <1>7. List({First}, mem', used', FALSE)
    <2>1. Byte(mem', 20 + 4) = 0
      BY <1>6
    <2>2. Word(mem', 20 + 8) = 0
      <3>1. Byte(mem', 28) = 0 /\ Byte(mem', 28 + 1) = 0 /\ Byte(mem', 28 + 2) = 0
            /\ Byte(mem', 28 + 3) = 0
        BY <1>6
      <3>2. Word(mem', 28) = 0 + (256 * 0) + (65536 * 0)
        BY <3>1, WordOf
      <3> QED BY <3>2
    <2>3. 20 \in Nat /\ 20 <= Total + 3 /\ 20 <= used' /\ 20 + 5 <= used'
      BY <1>1, <1>2, Constants
    <2> QED BY <2>1, <2>2, <2>3, Sizes DEF List, FreeAsKnown
  <1>8. KmainAt({First})'
    BY <1>1, <1>2 DEF KmainAt, KmainOn, Window
  <1>9. List({First}, mem', used', boot' # "mounted")
    <2>1. (boot' # "mounted") = FALSE
      BY <1>1
    <2> QED BY <1>7, <2>1
  <1>10. used' \in Nat /\ head' \in Nat /\ temp' \in Nat /\ at' \in Nat /\ reg' \in Nat
         /\ boot' \in Booting
    BY <1>1, <1>2 DEF Booting
  <1> QED BY <1>1, <1>4, <1>5, <1>8, <1>9, <1>10, KmainSound

LEMMA TypeSound ==
    ASSUME Sound, NEW ops \in Seq(Steps), NEW p \in Seq(Seq(Octet)), Type(ops, p),
           causes' = {}, ops # <<>>, Ordered(ops), Named(ops, p),
           Head(ops) \in {"fdata", "obj"}
    PROVE  Sound'
  <1>0. PICK S : Reliable(S)
    BY DEF Sound
  <1>1. /\ boot \notin Window
        /\ mem' = mem /\ used' = used /\ head' = head /\ boot' = boot /\ temp' = temp
        /\ at' = at /\ reg' = reg /\ loc' = loc /\ missed' = missed
        /\ work' = ops /\ path' = p /\ ino' = Root
    BY DEF Type, heap, kmain
  <1>2. Typed'
    BY <1>1, Sizes DEF Typed, Sound
  <1>3. Ordered(work') /\ Named(work', path')
    BY <1>1
  <1>4. List(S, mem', used', boot' # "mounted")
    <2>1. List(S, mem, used, boot # "mounted")
      BY <1>0, Zenon DEF Reliable, Fresh
    <2> QED BY <1>1, <2>1
  <1>5. KmainAt(S)' /\ (boot' = "mounted" => Geometry(mem'))
    <2>1. KmainAt(S) /\ (boot = "mounted" => Geometry(mem))
      BY <1>0, Zenon DEF Reliable
    <2> QED BY <1>1, <2>1 DEF KmainAt, KmainAlone, KmainOn
  <1>6. StepAt(S)'
    <2>1. loc.len <= 15
      BY <1>0 DEF Reliable, StepAt
    <2> QED BY <1>1, <2>1 DEF StepAt
  <1>7. Located'
    BY <1>1 DEF Located
  <1>8. Reliable(S)'
    BY <1>4, <1>5, <1>6, <1>7 DEF Reliable, Fresh
  <1> QED BY <1>2, <1>3, <1>8 DEF Sound

LEMMA CatSound == ASSUME Sound, Cat, causes' = {} PROVE Sound'
  <1>1. PICK p \in Paths : Type(<<"fdata", "read_file", "path">>, Tail(p))
    BY DEF Cat
  <1>2. Tail(p) \in Seq(Seq(Octet))
    <2>1. p \in Seq(Seq(Octet)) /\ p # <<>>
      BY Ext2Assumption
    <2> QED BY <2>1, HeadTailProperties
  <1> DEFINE ops == <<"fdata", "read_file", "path">>
  <1>3. /\ ops \in Seq(Steps) /\ ops # <<>> /\ Len(ops) = 3 /\ Head(ops) = "fdata"
        /\ ops[1] = "fdata" /\ ops[2] = "read_file" /\ ops[3] = "path"
    BY DEF Steps, Allocations
  <1>4. Type(ops, Tail(p))
    BY <1>1
  <1> HIDE DEF ops
  <1>5. Ordered(ops)
    <2>1. ASSUME NEW i \in 1 .. 2 PROVE Pair(ops[i], ops[i + 1])
      <3>1. i = 1 \/ i = 2
        OBVIOUS
      <3> QED BY <1>3, <3>1 DEF Pair
    <2> QED BY <1>3, <2>1 DEF Ordered
  <1>6. Named(ops, Tail(p))
    <2>1. ASSUME NEW i \in 1 .. 3 PROVE ops[i] \notin {"lookup_name", "compare"}
      <3>1. i = 1 \/ i = 2 \/ i = 3
        OBVIOUS
      <3> QED BY <1>3, <3>1
    <2> QED BY <1>3, <2>1 DEF Named
  <1> QED BY <1>2, <1>3, <1>4, <1>5, <1>6, TypeSound

LEMMA ClearSound == ASSUME Sound, Clear, causes' = {} PROVE Sound'
  <1> DEFINE ops == <<"obj", "free">>
  <1>1. /\ ops \in Seq(Steps) /\ ops # <<>> /\ Len(ops) = 2 /\ Head(ops) = "obj"
        /\ ops[1] = "obj" /\ ops[2] = "free"
    BY DEF Steps, Allocations
  <1>2. Type(ops, <<>>)
    BY DEF Clear
  <1> HIDE DEF ops
  <1>3. Ordered(ops)
    <2>1. \A i \in 1 .. 1 : Pair(ops[i], ops[i + 1])
      BY <1>1 DEF Pair
    <2> QED BY <1>1, <2>1 DEF Ordered
  <1>4. Named(ops, <<>>)
    <2>1. ASSUME NEW i \in 1 .. 2 PROVE ops[i] \notin {"lookup_name", "compare"}
      <3>1. i = 1 \/ i = 2
        OBVIOUS
      <3> QED BY <1>1, <3>1
    <2> QED BY <1>1, <2>1 DEF Named
  <1>5. <<>> \in Seq(Seq(Octet))
    OBVIOUS
  <1> QED BY <1>1, <1>2, <1>3, <1>4, <1>5, TypeSound

(* What the heap is during a command.                                      *)
LEMMA CommandHeap ==
    ASSUME Sound, work # <<>>, NEW S, Reliable(S)
    PROVE  /\ mem \in Memory /\ used \in Nat /\ used <= Total + 3
           /\ loc \in [Locals -> Nat] /\ ino \in Nat /\ missed \in BOOLEAN
           /\ work \in Seq(Steps) /\ Ordered(work)
           /\ path \in Seq(Seq(Octet)) /\ Named(work, path)
           /\ boot \in {"look", "mount", "mounted"}
           /\ List(S, mem, used, Fresh) /\ Fresh \in BOOLEAN
           /\ head = IF S = {} THEN NULL ELSE First
           /\ S = {} => used = 0 /\ Fresh /\ Head(work) \in {"fdata", "obj"}
           /\ S # {} => First \in S /\ 25 <= used
           /\ \A b \in S : b \in Nat /\ 20 <= b /\ b <= Total + 3 /\ b <= used
           /\ \A b, c \in S : b < c => b + 20 <= c
           /\ boot \in {"mount", "mounted"} => used >= 28
           /\ boot = "mounted" => Geometry(mem)
           /\ StepAt(S) /\ loc.len <= 15
  <1>1. Typed /\ KmainAt(S) /\ List(S, mem, used, Fresh) /\ StepAt(S)
        /\ (boot = "mounted" => Geometry(mem))
        /\ Ordered(work) /\ Named(work, path)
    BY DEF Sound, Reliable
  <1>2. boot \in {"look", "mount", "mounted"} /\ boot \notin Window
    BY <1>1 DEF StepAt, Typed, Booting
  <1>3. /\ S = {} => head = NULL /\ used = 0 /\ boot = "look"
        /\ S # {} => head = First
    BY <1>1, <1>2 DEF KmainAt, KmainAlone, KmainOn, Window
  <1>4. S = {} => Head(work) \in {"fdata", "obj"}
    BY <1>1 DEF StepAt
  <1>5. /\ S # {} => First \in S /\ 25 <= used
        /\ \A b \in S : b \in Nat /\ 20 <= b /\ b <= Total + 3 /\ b <= used
        /\ \A b, c \in S : b < c => b + 20 <= c
    BY <1>1, Sizes DEF List
  <1>6. used <= Total + 3 /\ (boot \in {"mount", "mounted"} => used >= 28)
    BY <1>1 DEF KmainAt
  <1>7. loc.len <= 15
    BY <1>1 DEF StepAt
  <1>8. Fresh \in BOOLEAN
    BY DEF Fresh
  <1>9. /\ mem \in Memory /\ used \in Nat
        /\ loc \in [Locals -> Nat] /\ ino \in Nat /\ missed \in BOOLEAN
        /\ work \in Seq(Steps) /\ path \in Seq(Seq(Octet))
    BY <1>1 DEF Typed
  <1>10. S = {} => used = 0 /\ Fresh
    BY <1>3 DEF Fresh
  <1>11. head = IF S = {} THEN NULL ELSE First
    BY <1>3
  <1> QED BY <1>1, <1>2, <1>4, <1>5, <1>6, <1>7, <1>8, <1>9, <1>10, <1>11, Zenon

(* What a step of a command has to keep.                                   *)
LEMMA CommandSound ==
    ASSUME Sound, boot \in {"look", "mount", "mounted"}, UNCHANGED kmain,
           mem' \in Memory, used' \in Nat, used' <= Total + 3, head' = First,
           work' \in Seq(Steps), Ordered(work'),
           path' \in Seq(Seq(Octet)), Named(work', path'),
           ino' \in Nat, loc' \in [Locals -> Nat], missed' \in BOOLEAN,
           NEW T, T # {}, List(T, mem', used', Fresh),
           boot \in {"mount", "mounted"} => used' >= 28,
           boot = "mounted" => Geometry(mem'),
           StepAt(T)', Located'
    PROVE  Sound'
  <1>1. boot' = boot /\ temp' = temp /\ at' = at /\ reg' = reg
    BY DEF kmain
  <1>2. Typed'
    BY <1>1, Sizes DEF Typed, Sound
  <1>3. KmainAt(T)'
    <2>1. KmainOn(T)'
      BY <1>1 DEF KmainOn, Window
    <2> QED BY <1>1, <2>1 DEF KmainAt
  <1>4. List(T, mem', used', boot' # "mounted")
    BY <1>1 DEF Fresh
  <1>5. Reliable(T)'
    BY <1>1, <1>3, <1>4 DEF Reliable, Fresh
  <1> QED BY <1>2, <1>5 DEF Sound

LEMMA DoneOrdered ==
    ASSUME Sound, work # <<>>, Done
    PROVE  /\ work' \in Seq(Steps) /\ Ordered(work') /\ Named(work', path)
           /\ work' # <<>> => Pair(Head(work), Head(work'))
  <1>1. work \in Seq(Steps) /\ Ordered(work) /\ Named(work, path) /\ work' = Tail(work)
    BY DEF Sound, Typed, Done
  <1>2. Tail(work) \in Seq(Steps) /\ Ordered(Tail(work))
        /\ Named(Tail(work), path)
        /\ (Tail(work) # <<>> => Pair(Head(work), Head(Tail(work))))
    BY <1>1, Shorter, NamedTail
  <1> QED BY <1>1, <1>2

LEMMA NextNameSound == ASSUME Sound, NextName PROVE Sound'
  <1>0. PICK S : Reliable(S)
    BY DEF Sound
  <1>1. /\ work # <<>> /\ Head(work) = "path"
        /\ work' = IF path \in {<<>>, << <<>> >>} THEN GetFiledata \o Tail(work)
                   ELSE <<"lookup_name">> \o FindInDir \o work
        /\ mem' = mem /\ used' = used /\ head' = head /\ UNCHANGED kmain
        /\ path' = path /\ ino' = ino /\ loc' = loc /\ missed' = missed
    BY DEF NextName, Doing, heap
  <1>2. /\ mem \in Memory /\ used \in Nat /\ used <= Total + 3
        /\ loc \in [Locals -> Nat] /\ ino \in Nat /\ missed \in BOOLEAN
        /\ work \in Seq(Steps) /\ Ordered(work)
        /\ path \in Seq(Seq(Octet))
        /\ boot \in {"look", "mount", "mounted"}
        /\ List(S, mem, used, Fresh)
        /\ head = IF S = {} THEN NULL ELSE First
        /\ S = {} => Head(work) \in {"fdata", "obj"}
        /\ boot \in {"mount", "mounted"} => used >= 28
        /\ boot = "mounted" => Geometry(mem)
        /\ loc.len <= 15
    BY <1>0, <1>1, CommandHeap, Zenon
  <1>3. S # {} /\ head = First
    BY <1>1, <1>2
  <1>4. work = <<"path">> /\ Tail(work) = <<>>
    BY <1>1, <1>2, EndOfPath
  <1>5. /\ work' \in Seq(Steps) /\ work' # <<>> /\ Ordered(work') /\ Named(work', path)
        /\ work'[1] \in {"file_buf", "lookup_name"}
    <2>1. CASE path \in {<<>>, << <<>> >>}
      <3>1. work' = GetFiledata
        <4>1. work' = GetFiledata \o <<>>
          BY <1>1, <1>4, <2>1
        <4>2. GetFiledata \o <<>> = GetFiledata
          BY GetFiledataOrdered, ConcatEmptySeq
        <4> QED BY <4>1, <4>2
      <3> QED BY <3>1, GetFiledataOrdered
    <2>2. CASE path \notin {<<>>, << <<>> >>}
      <3>1. work' = <<"lookup_name">> \o FindInDir \o <<"path">>
        BY <1>1, <1>4, <2>2
      <3>2. path # <<>> /\ path # << <<>> >>
        BY <2>2
      <3> QED BY <3>1, <3>2, LookupOrdered
    <2> QED BY <2>1, <2>2
  <1>6. Head(work') \in {"file_buf", "lookup_name"}
    BY <1>5
  <1>7. StepAt(S)'
    <2>1. boot' = boot
      BY <1>1 DEF kmain
    <2> QED BY <1>1, <1>2, <1>3, <1>6, <2>1 DEF StepAt, Window
  <1>8. Located'
    BY <1>6 DEF Located
  <1> QED BY <1>1, <1>2, <1>3, <1>5, <1>7, <1>8, CommandSound

LEMMA Unsigneds ==
    /\ \A n \in Int : Unsigned(n) \in Nat
    /\ \A n \in Nat : n < WordMod => Unsigned(n) = n
    /\ WordMod \in Nat /\ WordMod > 4
  <1>1. WordMod \in Nat /\ WordMod > 4
    BY Ext2Assumption, DiskAssumption
  <1>2. ASSUME NEW n \in Int PROVE Unsigned(n) \in Nat
    BY <1>1 DEF Unsigned
  <1>3. ASSUME NEW n \in Nat, n < WordMod PROVE Unsigned(n) = n
    BY <1>1, <1>3 DEF Unsigned
  <1> QED BY <1>1, <1>2, <1>3

(* The superblock in memory gives the disk's inodes of a group.            *)
LEMMA InodesOfGroup ==
    ASSUME Geometry(mem), mem \in Memory
    PROVE  /\ Word(mem, 40) = Word(Disk[2], 40)
           /\ \A i \in DOMAIN Pointer : i \in 1 .. Word(mem, 40)
           /\ Word(mem, 40) <= WordMod
           /\ Byte(mem, 24) = 0
  <1>1. \A k \in 0 .. 43 : k < MemSize
    BY MemoryIsLarge
  <1>2. ASSUME NEW k \in 40 .. 43 PROVE Byte(mem, k) = Byte(Disk[2], k)
    BY <1>1 DEF Geometry, Byte
  <1>3. Word(mem, 40) = Word(Disk[2], 40)
    <2>1. \A k \in 0 .. 3 : 40 + k \in 40 .. 43
      OBVIOUS
    <2>2. \A k \in 0 .. 3 : Byte(mem, 40 + k) = Byte(Disk[2], 40 + k)
      BY <1>2, <2>1
    <2> QED BY <2>2, SameWord
  <1>4. Byte(mem, 24) = 0
    BY DiskAssumption DEF Geometry
  <1> QED BY <1>3, <1>4, DiskAssumption

LEMMA LocateSound == ASSUME Sound, Locate PROVE Sound'
  <1>0. PICK S : Reliable(S)
    BY DEF Sound
  <1> DEFINE number == Unsigned(ino - 1)
             group == number \div InodesPerGroup
  <1>1. /\ work # <<>> /\ Head(work) = "locate" /\ Done
        /\ InodesPerGroup # 0
        /\ loc' = [loc EXCEPT !.index = number % InodesPerGroup,
                              !.lba = Unsigned(group * BlocksPerGroup + 1 + 2 + 1)]
        /\ mem' = mem /\ used' = used /\ head' = head /\ UNCHANGED kmain
        /\ path' = path /\ ino' = ino /\ missed' = missed
    BY DEF Locate, Doing, heap
  <1>2. /\ mem \in Memory /\ used \in Nat /\ used <= Total + 3
        /\ loc \in [Locals -> Nat] /\ ino \in Nat /\ missed \in BOOLEAN
        /\ path \in Seq(Seq(Octet))
        /\ boot \in {"look", "mount", "mounted"}
        /\ List(S, mem, used, Fresh)
        /\ head = IF S = {} THEN NULL ELSE First
        /\ S = {} => Head(work) \in {"fdata", "obj"}
        /\ boot \in {"mount", "mounted"} => used >= 28
        /\ boot = "mounted" => Geometry(mem)
        /\ loc.len <= 15
    BY <1>0, <1>1, CommandHeap, Zenon
  <1>3. S # {} /\ head = First
    BY <1>1, <1>2
  <1>4. /\ work' \in Seq(Steps) /\ Ordered(work') /\ Named(work', path)
        /\ work' # <<>> => Head(work') = "bgdt_tmp"
    BY <1>1, DoneOrdered, Zenon DEF Pair
  <1>5. number \in Nat /\ InodesPerGroup \in Nat /\ BlocksPerGroup \in Nat
    <2>1. ino - 1 \in Int
      BY <1>2
    <2> QED BY <1>2, <2>1, Unsigneds, WordType DEF InodesPerGroup, BlocksPerGroup
  <1> HIDE DEF number
  <1>6. group \in Nat /\ number % InodesPerGroup \in Nat
    BY <1>1, <1>5
  <1>7. group * BlocksPerGroup + 1 + 2 + 1 \in Int
    <2>1. \A g, h \in Nat : g * h + 1 + 2 + 1 \in Int
      OBVIOUS
    <2> HIDE DEF group
    <2> QED BY <1>5, <1>6, <2>1
  <1>8. /\ loc' \in [Locals -> Nat]
        /\ loc'.index = number % InodesPerGroup
        /\ loc'.lba = Unsigned(group * BlocksPerGroup + 1 + 2 + 1)
        /\ loc'.len = loc.len
    <2> HIDE DEF group
    <2>1. Unsigned(group * BlocksPerGroup + 1 + 2 + 1) \in Nat
      BY <1>7, Unsigneds
    <2>2. "index" \in Locals /\ "lba" \in Locals /\ "len" \in Locals
      BY DEF Locals
    <2> QED BY <1>1, <1>2, <1>6, <2>1, <2>2
  <1>9. ASSUME boot = "mounted", ino \in DOMAIN Pointer
        PROVE  loc'.index = ino - 1 /\ loc'.lba = 4
    <2>1. ino \in 1 .. InodesPerGroup /\ InodesPerGroup <= WordMod
      BY <1>2, <1>9, InodesOfGroup DEF InodesPerGroup
    <2>2. number = ino - 1
      <3>1. ino - 1 \in Nat /\ ino - 1 < WordMod
        BY <1>5, <2>1, Unsigneds
      <3> QED BY <3>1, Unsigneds DEF number
    <2>3. number % InodesPerGroup = ino - 1 /\ group = 0
      BY <1>5, <2>1, <2>2
    <2> HIDE DEF group
    <2>4. group * BlocksPerGroup + 1 + 2 + 1 = 4
      BY <1>5, <2>3
    <2>5. Unsigned(4) = 4
      BY Unsigneds
    <2> QED BY <1>8, <2>3, <2>4, <2>5
  <1>10. boot' = boot
    BY <1>1 DEF kmain
  <1>11. StepAt(S)'
    BY <1>1, <1>2, <1>3, <1>4, <1>8, <1>10 DEF StepAt, Window
  <1>12. Located'
    BY <1>1, <1>4, <1>9, <1>10 DEF Located
  <1> QED BY <1>1, <1>2, <1>3, <1>4, <1>8, <1>11, <1>12, CommandSound

LEMMA NothingArrives ==
    ASSUME NEW m \in Memory, NEW lba, NEW a \in Nat
    PROVE  Sector(m, lba, 0, a) = m
  <1>1. ASSUME NEW x \in 1 .. MemSize
        PROVE  ~ (x - 1 - a >= 0 /\ (x - 1 - a) \div Stride < 0)
    BY Constants DEF Stride
  <1>2. Sector(m, lba, 0, a) = [x \in 1 .. MemSize |-> m[x]]
    BY <1>1 DEF Sector
  <1> QED BY <1>2 DEF Memory

(* What a transfer leaves as it is, and where its first sector is found.   *)
LEMMA TransferKeeps ==
    ASSUME NEW lba \in Nat, NEW n \in Nat, NEW a \in Nat, NEW harm,
           mem \in Memory, missed \in BOOLEAN, Transfer(lba, n, a, harm), causes' = {}, n > 0
    PROVE  /\ mem' \in Memory /\ missed' \in BOOLEAN
           /\ ~missed' => ~missed /\ lba + n <= Sectors
           /\ mem' = mem \/ harm = {}
           /\ \A x \in Nat : x < a => Byte(mem', x) = Byte(mem, x)
           /\ ~missed' => \A x \in Nat : a <= x /\ x < a + SectorSize /\ x < MemSize
                             => Byte(mem', x) = Disk[lba][x - a + 1]
  <1> DEFINE k == Arrive(lba, n)
  <1>1. /\ mem' = Sector(mem, lba, k, a)
        /\ missed' = (missed \/ k = 0)
        /\ k = 0 \/ harm = {}
    BY DEF Transfer
  <1>2. k = IF lba + n > Sectors THEN 0 ELSE n
    BY DEF Arrive
  <1>3. CASE lba + n > Sectors
    <2>1. k = 0 /\ missed'
      BY <1>1, <1>2, <1>3
    <2>2. mem' = mem
      BY <1>1, <2>1, NothingArrives
    <2> QED BY <2>1, <2>2, <1>1
  <1>4. CASE ~ (lba + n > Sectors)
    <2>1. k = n /\ lba + n <= Sectors
      BY <1>2, <1>4, SectorsNat
    <2>2. harm = {} /\ missed' = missed
      BY <1>1, <2>1
    <2>3. /\ Sector(mem, lba, n, a) \in Memory
          /\ \A x \in Nat : x < a \/ n = 0
                => Byte(Sector(mem, lba, n, a), x) = Byte(mem, x)
          /\ \A x \in Nat : a <= x /\ x < a + SectorSize /\ x < MemSize /\ n > 0
                => Byte(Sector(mem, lba, n, a), x) = Disk[lba][x - a + 1]
      BY <2>1, SectorByte
    <2>4. mem' = Sector(mem, lba, n, a)
      BY <1>1, <2>1
    <2> QED BY <2>1, <2>2, <2>3, <2>4
  <1> QED BY <1>3, <1>4

LEMMA SectorWord ==
    ASSUME NEW w, NEW s, NEW a \in Nat,
           NEW y \in Nat, y + 4 <= SectorSize, a + y + 4 <= MemSize,
           \A x \in Nat : a <= x /\ x < a + SectorSize /\ x < MemSize
              => Byte(w, x) = s[x - a + 1]
    PROVE  Word(w, a + y) = Word(s, y)
  <1>1. ASSUME NEW k \in 0 .. 3 PROVE Byte(w, a + y + k) = Byte(s, y + k)
    <2>1. /\ a + y + k \in Nat /\ a <= a + y + k /\ a + y + k < a + SectorSize
          /\ a + y + k < MemSize /\ y + k < MemSize
          /\ (a + y + k) - a + 1 = y + k + 1
      BY MemoryIsLarge DEF SectorSize
    <2>2. Byte(w, a + y + k) = s[(a + y + k) - a + 1]
      BY <2>1
    <2> QED BY <2>1, <2>2 DEF Byte
  <1>2. /\ a + y + 0 = a + y /\ y + 0 = y
        /\ 0 \in 0 .. 3 /\ 1 \in 0 .. 3 /\ 2 \in 0 .. 3 /\ 3 \in 0 .. 3
    OBVIOUS
  <1>3. /\ Byte(w, a + y) = Byte(s, y) /\ Byte(w, a + y + 1) = Byte(s, y + 1)
        /\ Byte(w, a + y + 2) = Byte(s, y + 2) /\ Byte(w, a + y + 3) = Byte(s, y + 3)
    BY <1>1, <1>2
  <1> QED BY <1>3 DEF Word

LEMMA KeptBelow ==
    ASSUME NEW m, NEW w, NEW S, NEW u \in Nat, NEW f, List(S, m, u, f),
           NEW c \in Nat, \A b \in S : b + 16 <= c,
           \A x \in Nat : x < c => Byte(w, x) = Byte(m, x)
    PROVE  List(S, w, u, f) /\ (c >= 44 /\ Geometry(m) => Geometry(w))
  <1>1. ASSUME NEW b \in S, NEW k \in 0 .. 15 PROVE Byte(w, b + k) = Byte(m, b + k)
    <2>1. b \in Nat
      BY DEF List
    <2>2. b + k \in Nat /\ b + k < c
      BY <2>1
    <2> QED BY <2>2
  <1>2. \A b \in S : \A k \in 8 .. 11 : Byte(w, b + k) = Byte(m, b + k)
    BY <1>1
  <1>3. \A b \in S : Byte(w, b + 4) = 1 =>
           \A k \in (0 .. 4) \cup (12 .. 15) : Byte(w, b + k) = Byte(m, b + k)
    <2>1. \A k \in (0 .. 4) \cup (12 .. 15) : k \in 0 .. 15
      OBVIOUS
    <2> QED BY <1>1, <2>1
  <1>4. u <= u
    OBVIOUS
  <1>5. ASSUME c >= 44, Geometry(m) PROVE Geometry(w)
    <2>1. \A a \in (24 .. 27) \cup (32 .. 35) \cup (40 .. 43) : a \in Nat /\ a < c
      BY <1>5
    <2> QED BY <1>5, <2>1 DEF Geometry
  <1> QED BY <1>2, <1>3, <1>4, <1>5, ListKept

(* The command's next step after one that is done, where what it writes is *)
(* behind the headers.                                                     *)
LEMMA DoneSound ==
    ASSUME Sound, NEW S, Reliable(S), S # {}, work # <<>>, Done,
           UNCHANGED kmain, used' = used, head' = head, path' = path, ino' = ino,
           mem' \in Memory, loc' \in [Locals -> Nat], missed' \in BOOLEAN,
           List(S, mem', used, Fresh), boot = "mounted" => Geometry(mem'),
           StepAt(S)', Located'
    PROVE  Sound'
  <1>1. /\ used \in Nat /\ used <= Total + 3 /\ ino \in Nat
        /\ path \in Seq(Seq(Octet))
        /\ boot \in {"look", "mount", "mounted"}
        /\ head = IF S = {} THEN NULL ELSE First
        /\ boot \in {"mount", "mounted"} => used >= 28
    BY CommandHeap, Zenon
  <1>2. head' = First
    BY <1>1
  <1>3. work' \in Seq(Steps) /\ Ordered(work') /\ Named(work', path)
    BY DoneOrdered, Zenon
  <1> QED BY <1>1, <1>2, <1>3, CommandSound

(* Where a store through an uninitialised pointer does no harm.            *)
LEMMA WildIsFar ==
    ASSUME used \in Nat, NEW a \in Nat, WildHarm(a) = {}
    PROVE  a >= SectorSize /\ a >= used + 16
  <1> DEFINE M == {SectorSize, used + HeaderSize}
  <1>1. ~ (a < Max(M))
    BY DEF WildHarm
  <1>2. SectorSize \in Nat /\ used + HeaderSize \in Nat /\ used + HeaderSize = used + 16
    BY Sizes DEF SectorSize
  <1>3. \E x \in M : \A y \in M : x >= y
    BY <1>2
  <1>4. Max(M) \in M /\ \A y \in M : Max(M) >= y
    BY <1>3 DEF Max
  <1>5. Max(M) \in Nat /\ Max(M) >= SectorSize /\ Max(M) >= used + 16
    BY <1>2, <1>4
  <1> HIDE DEF M
  <1> QED BY <1>1, <1>2, <1>5

LEMMA ParseBgdtSound == ASSUME Sound, ParseBgdt, causes' = {} PROVE Sound'
  <1>0. PICK S : Reliable(S)
    BY DEF Sound
  <1>1. /\ work # <<>> /\ Head(work) = "parse_bgdt" /\ Done
        /\ used' = used /\ head' = head /\ UNCHANGED kmain
        /\ path' = path /\ ino' = ino
    BY DEF ParseBgdt, Doing
  <1>2. PICK bgdt \in Wild :
           /\ Transfer(loc.lba, 1, bgdt, WildHarm(bgdt))
           /\ loc' = [loc EXCEPT !.table = Word(mem', bgdt + 8)]
    BY DEF ParseBgdt
  <1>3. /\ mem \in Memory /\ used \in Nat /\ used <= Total + 3
        /\ loc \in [Locals -> Nat] /\ ino \in Nat /\ missed \in BOOLEAN
        /\ boot \in {"look", "mount", "mounted"}
        /\ List(S, mem, used, Fresh)
        /\ S = {} => Head(work) \in {"fdata", "obj"}
        /\ \A b \in S : b \in Nat /\ 20 <= b /\ b <= Total + 3 /\ b <= used
        /\ boot = "mounted" => Geometry(mem)
        /\ loc.len <= 15
    BY <1>0, <1>1, CommandHeap, Zenon
  <1>4. S # {}
    BY <1>1, <1>3
  <1>5. work' # <<>> => Head(work') = "inode_tmp"
    BY <1>1, DoneOrdered, Zenon DEF Pair
  <1>6. bgdt \in Nat /\ bgdt + SectorSize <= MemSize
    <2>1. bgdt \in 0 .. MemSize - SectorSize
      BY Ext2Assumption
    <2> QED BY <2>1, MemoryIsLarge DEF SectorSize
  <1>7. loc.lba \in Nat /\ "table" \in Locals /\ "len" \in Locals
        /\ "lba" \in Locals /\ "index" \in Locals
    BY <1>3 DEF Locals
  <1>8. /\ mem' \in Memory /\ missed' \in BOOLEAN
        /\ ~missed' => ~missed /\ loc.lba + 1 <= Sectors
        /\ mem' = mem \/ WildHarm(bgdt) = {}
        /\ \A x \in Nat : x < bgdt => Byte(mem', x) = Byte(mem, x)
        /\ ~missed' => \A x \in Nat : bgdt <= x /\ x < bgdt + SectorSize /\ x < MemSize
                          => Byte(mem', x) = Disk[loc.lba][x - bgdt + 1]
    BY <1>2, <1>3, <1>6, <1>7, TransferKeeps
  <1>9. mem' = mem \/ (bgdt >= SectorSize /\ bgdt >= used + 16)
    BY <1>3, <1>6, <1>8, WildIsFar
  <1>10. List(S, mem', used, Fresh) /\ (boot = "mounted" => Geometry(mem'))
    <2>1. CASE mem' = mem
      BY <1>3, <2>1
    <2>2. CASE bgdt >= SectorSize /\ bgdt >= used + 16
      <3>1. bgdt >= 44 /\ \A b \in S : b + 16 <= bgdt
        BY <1>3, <1>6, <2>2 DEF SectorSize
      <3> QED BY <1>3, <1>6, <1>8, <3>1, KeptBelow
    <2> QED BY <1>9, <2>1, <2>2
  <1>11. /\ loc' \in [Locals -> Nat] /\ loc'.len = loc.len /\ loc'.index = loc.index
         /\ loc'.lba = loc.lba /\ loc'.table = Word(mem', bgdt + 8)
    <2>1. Word(mem', bgdt + 8) \in Nat
      BY <1>6, <1>8, WordType
    <2> QED BY <1>2, <1>3, <1>7, <2>1
  <1>12. boot' = boot
    BY <1>1 DEF kmain
  <1>13. StepAt(S)'
    BY <1>1, <1>3, <1>4, <1>5, <1>11, <1>12 DEF StepAt, Window
  <1>14. ASSUME boot = "mounted", ~missed', ino \in DOMAIN Pointer
         PROVE  loc.index = ino - 1 /\ loc'.table = Word(Disk[4], 8)
    <2>1. loc.lba = 4 /\ loc.index = ino - 1
      BY <1>0, <1>1, <1>8, <1>14 DEF Reliable, Located
    <2>2. /\ 8 \in Nat /\ 8 + 4 <= SectorSize /\ bgdt + 8 + 4 <= MemSize
          /\ \A x \in Nat : bgdt <= x /\ x < bgdt + SectorSize /\ x < MemSize
                => Byte(mem', x) = Disk[4][x - bgdt + 1]
      BY <1>6, <1>8, <1>14, <2>1, MemoryIsLarge DEF SectorSize
    <2>3. Word(mem', bgdt + 8) = Word(Disk[4], 8)
      BY <1>6, <2>2, SectorWord
    <2> QED BY <1>11, <2>1, <2>3
  <1>15. Located'
    BY <1>1, <1>5, <1>11, <1>12, <1>14 DEF Located
  <1> QED BY <1>0, <1>1, <1>4, <1>8, <1>10, <1>11, <1>13, <1>15, DoneSound

(* The steps that read into a buffer of four bytes, which was the last to  *)
(* be allocated.                                                           *)
LEMMA NewestKeeps ==
    ASSUME Sound, work # <<>>, NEW S, Reliable(S), S # {},
           NEW lba \in Nat, NEW n \in Nat, n > 0, NEW a \in Nat, Newest(S, a),
           Transfer(lba, n, a, Harm(a)), causes' = {}
    PROVE  /\ mem' \in Memory /\ missed' \in BOOLEAN
           /\ ~missed' => ~missed /\ a = used
           /\ List(S, mem', used, Fresh) /\ (boot = "mounted" => Geometry(mem'))
           /\ ~missed' => \A x \in Nat : a <= x /\ x < a + SectorSize /\ x < MemSize
                             => Byte(mem', x) = Disk[lba][x - a + 1]
           /\ ~missed' => lba < Sectors
  <1>1. /\ mem \in Memory /\ used \in Nat /\ missed \in BOOLEAN
        /\ List(S, mem, used, Fresh) /\ 25 <= used
        /\ boot = "mounted" => Geometry(mem)
    BY CommandHeap, Zenon
  <1>2. /\ mem' \in Memory /\ missed' \in BOOLEAN
        /\ ~missed' => ~missed /\ lba + n <= Sectors
        /\ mem' = mem \/ Harm(a) = {}
        /\ \A x \in Nat : x < a => Byte(mem', x) = Byte(mem, x)
        /\ ~missed' => \A x \in Nat : a <= x /\ x < a + SectorSize /\ x < MemSize
                          => Byte(mem', x) = Disk[lba][x - a + 1]
    BY <1>1, TransferKeeps
  <1>3. Harm(a) = {} => a = used /\ 48 <= a /\ \A b \in S : b + 16 <= a
    BY <1>1, Sizes DEF Harm, Newest
  <1>4. ~missed' => Harm(a) = {}
    <2>1. ~missed' => (missed' = (missed \/ Arrive(lba, n) = 0)) /\ Arrive(lba, n) # 0
      BY <1>1, <1>2 DEF Transfer
    <2> QED BY <2>1 DEF Transfer
  <1>5. List(S, mem', used, Fresh) /\ (boot = "mounted" => Geometry(mem'))
    <2>1. CASE mem' = mem
      BY <1>1, <2>1
    <2>2. CASE Harm(a) = {}
      <3>1. a >= 44 /\ \A b \in S : b + 16 <= a
        BY <1>3, <2>2
      <3> QED BY <1>1, <1>2, <3>1, KeptBelow
    <2> QED BY <1>2, <2>1, <2>2
  <1>6. ~missed' => lba < Sectors
    BY <1>2, SectorsNat
  <1> QED BY <1>2, <1>3, <1>4, <1>5, <1>6

LEMMA PowerIs ==
    /\ Power \in [Nat -> Nat \ {0}]
    /\ Power[0] = 1
  <1> DEFINE step == [n \in Nat \ {0} |-> 2 * n]
  <1>1. step \in [Nat \ {0} -> Nat \ {0}] /\ 1 \in Nat \ {0}
    OBVIOUS
  <1> HIDE DEF step
  <1>2. PICK f : f = [k \in Nat |-> IF k = 0 THEN 1 ELSE step[f[k - 1]]]
    BY <1>1, Recursion
  <1> DEFINE T == {k \in Nat : f[k] \in Nat \ {0}}
  <1>3. Nat \subseteq T
    <2>1. 0 \in T
      BY <1>1, <1>2
    <2>2. ASSUME NEW k \in Nat, k \in T PROVE k + 1 \in T
      <3>1. f[k + 1] = step[f[k]]
        <4>1. k + 1 \in Nat /\ k + 1 # 0 /\ (k + 1) - 1 = k
          OBVIOUS
        <4>2. f[k + 1] = IF k + 1 = 0 THEN 1 ELSE step[f[(k + 1) - 1]]
          BY <1>2, <4>1
        <4> QED BY <4>1, <4>2
      <3>2. step[f[k]] \in Nat \ {0}
        BY <1>1, <2>2
      <3> QED BY <3>1, <3>2
    <2> HIDE DEF T
    <2> QED BY <2>1, <2>2, Inductive
  <1>4. f \in [Nat -> Nat \ {0}]
    BY <1>2, <1>3
  <1>5. f = [k \in Nat |-> IF k = 0 THEN 1 ELSE 2 * f[k - 1]]
    <2>1. ASSUME NEW k \in Nat, k # 0 PROVE step[f[k - 1]] = 2 * f[k - 1]
      <3>1. k - 1 \in Nat
        BY <2>1
      <3> QED BY <1>4, <3>1 DEF step
    <2>2. [k \in Nat |-> IF k = 0 THEN 1 ELSE step[f[k - 1]]]
          = [k \in Nat |-> IF k = 0 THEN 1 ELSE 2 * f[k - 1]]
      BY <2>1
    <2> QED BY <1>2, <2>2
  <1>6. Power = CHOOSE p : p = [k \in Nat |-> IF k = 0 THEN 1 ELSE 2 * p[k - 1]]
    BY DEF Power
  <1>7. Power = [k \in Nat |-> IF k = 0 THEN 1 ELSE 2 * Power[k - 1]]
    BY <1>5, <1>6
  <1> DEFINE U == {k \in Nat : Power[k] \in Nat \ {0}}
  <1>8. Nat \subseteq U
    <2>1. 0 \in U
      BY <1>7
    <2>2. ASSUME NEW k \in Nat, k \in U PROVE k + 1 \in U
      <3>1. k + 1 \in Nat /\ k + 1 # 0 /\ (k + 1) - 1 = k
        OBVIOUS
      <3>2. Power[k + 1] = IF k + 1 = 0 THEN 1 ELSE 2 * Power[(k + 1) - 1]
        BY <1>7, <3>1
      <3>3. Power[k + 1] = 2 * Power[k]
        BY <3>1, <3>2
      <3> QED BY <2>2, <3>1, <3>3
    <2> HIDE DEF U
    <2> QED BY <2>1, <2>2, Inductive
  <1>9. \A k \in Nat : Power[k] \in Nat \ {0}
    BY <1>8
  <1>10. Power \in [Nat -> Nat \ {0}] /\ Power[0] = 1
    BY <1>7, <1>9
  <1> QED BY <1>10

LEMMA ReadInodeTableSound ==
    ASSUME Sound, ReadInodeTable, causes' = {} PROVE Sound'
  <1>0. PICK S : Reliable(S)
    BY DEF Sound
  <1> DEFINE block == (loc.index \div (BlockSize \div InodeSize)) \div Power[LogBlockSize]
             lba == 2 * (loc.table + block)
             a == loc.inode_tmp
  <1>1. /\ work # <<>> /\ Head(work) = "read_inode" /\ Done
        /\ used' = used /\ head' = head /\ UNCHANGED kmain
        /\ path' = path /\ ino' = ino /\ loc' = loc
        /\ Transfer(lba, 2, a, Harm(a))
    BY DEF ReadInodeTable, Doing
  <1>2. /\ mem \in Memory /\ used \in Nat /\ used <= Total + 3
        /\ loc \in [Locals -> Nat] /\ ino \in Nat
        /\ boot \in {"look", "mount", "mounted"}
        /\ S = {} => Head(work) \in {"fdata", "obj"}
        /\ boot = "mounted" => Geometry(mem)
        /\ StepAt(S) /\ loc.len <= 15
    BY <1>0, <1>1, CommandHeap, Zenon
  <1>3. S # {}
    BY <1>1, <1>2
  <1>4. work' # <<>> => Head(work') \in {"filedata", "dir"}
    BY <1>1, DoneOrdered, Zenon DEF Pair
  <1>5. loc.index \in Nat /\ loc.table \in Nat /\ a \in Nat
    BY <1>2 DEF Locals, Allocations
  <1>6. BlockSize \div InodeSize = 4
    BY DEF BlockSize, InodeSize
  <1>7. LogBlockSize \in Nat /\ (boot = "mounted" => LogBlockSize = 0)
    <2>1. Byte(mem, 24) \in Nat
      BY <1>2, ByteType DEF Octet
    <2>2. boot = "mounted" => Byte(mem, 24) = 0
      BY <1>2, InodesOfGroup
    <2> QED BY <2>1, <2>2 DEF LogBlockSize
  <1>8. block \in Nat /\ (boot = "mounted" => block = loc.index \div 4)
    <2>1. loc.index \div 4 \in Nat
      BY <1>5
    <2>2. Power[LogBlockSize] \in Nat \ {0} /\ Power[0] = 1
      BY <1>7, PowerIs
    <2>3. \A x \in Nat, y \in Nat \ {0} : x \div y \in Nat
      OBVIOUS
    <2>4. block = (loc.index \div 4) \div Power[LogBlockSize]
      BY <1>6
    <2>5. \A x \in Nat : x \div 1 = x
      OBVIOUS
    <2> HIDE DEF block
    <2> QED BY <1>7, <2>1, <2>2, <2>3, <2>4, <2>5
  <1> HIDE DEF block
  <1>9. lba \in Nat
    BY <1>5, <1>8
  <1>10. Newest(S, a)
    BY <1>1, <1>2 DEF StepAt
  <1> HIDE DEF lba, a
  <1>11. /\ mem' \in Memory /\ missed' \in BOOLEAN
         /\ ~missed' => ~missed /\ a = used
         /\ List(S, mem', used, Fresh) /\ (boot = "mounted" => Geometry(mem'))
         /\ ~missed' => \A x \in Nat : a <= x /\ x < a + SectorSize /\ x < MemSize
                           => Byte(mem', x) = Disk[lba][x - a + 1]
         /\ ~missed' => lba < Sectors
    <2>1. 2 \in Nat /\ 2 > 0 /\ a \in Nat
      BY <1>5 DEF a
    <2> QED BY <1>0, <1>1, <1>3, <1>9, <1>10, <2>1, NewestKeeps
  <1>12. boot' = boot
    BY <1>1 DEF kmain
  <1>13. StepAt(S)'
    BY <1>1, <1>2, <1>3, <1>4, <1>12 DEF StepAt, Window
  <1>14. ASSUME boot = "mounted", ~missed', ino \in DOMAIN Pointer
         PROVE  /\ loc.inode_tmp = used
                /\ loc.index % 4 < 2 =>
                      Word(mem', (loc.inode_tmp + (loc.index % 4) * 256) + 40) = Pointer[ino]
    <2>1. loc.index = ino - 1 /\ loc.table = Word(Disk[4], 8)
      BY <1>0, <1>1, <1>11, <1>14 DEF Reliable, Located
    <2>2. a = used /\ a = loc.inode_tmp /\ a \in Nat
      BY <1>5, <1>11, <1>14 DEF a
    <2>3. ASSUME loc.index % 4 < 2
          PROVE  Word(mem', (a + (loc.index % 4) * 256) + 40) = Pointer[ino]
      <3> DEFINE y == ((loc.index % 4) * 256) + 40
                 offset == (ino - 1) * InodeSize
                 sector == 2 * Word(Disk[4], 8) + (offset \div SectorSize)
      <3>1. y \in Nat /\ y + 4 <= SectorSize /\ a + y + 4 <= MemSize
        <4>1. loc.index % 4 \in 0 .. 1
          BY <1>5, <2>3
        <4>2. y \in Nat /\ y <= 296 /\ y + 4 <= SectorSize
          BY <4>1 DEF SectorSize
        <4> HIDE DEF y
        <4>3. a + y + 4 <= MemSize
          BY <1>2, <2>2, <4>2, Constants DEF SectorSize
        <4> QED BY <4>2, <4>3
      <3> HIDE DEF y
      <3>2. Word(mem', a + y) = Word(Disk[lba], y)
        BY <1>11, <1>14, <2>2, <3>1, SectorWord
      <3>3. (offset % SectorSize) + 40 = y /\ offset \div SectorSize = 2 * (loc.index \div 4)
        <4>1. \A i \in Nat : i % 4 < 2 => /\ (i * 256) % 512 = (i % 4) * 256
                                         /\ (i * 256) \div 512 = 2 * (i \div 4)
          <5>1. ASSUME NEW i \in Nat, i % 4 < 2
                PROVE  /\ (i * 256) % 512 = (i % 4) * 256
                       /\ (i * 256) \div 512 = 2 * (i \div 4)
            <6>1. PICK q \in Nat, r \in 0 .. 1 : i = 4 * q + r /\ q = i \div 4 /\ r = i % 4
              BY <5>1
            <6>2. i * 256 = 512 * (2 * q) + r * 256 /\ r * 256 \in 0 .. 511
              BY <6>1
            <6>3. (i * 256) % 512 = r * 256 /\ (i * 256) \div 512 = 2 * q
              BY <6>2
            <6> QED BY <6>1, <6>3
          <5> QED BY <5>1
        <4>2. offset = loc.index * 256
          BY <2>1 DEF InodeSize
        <4> HIDE DEF offset
        <4> QED BY <1>5, <2>3, <4>1, <4>2 DEF y, SectorSize
      <3>4. sector = lba
        <4>1. Word(Disk[4], 8) \in Nat
          BY <1>5, <2>1
        <4>2. sector = 2 * loc.table + 2 * (loc.index \div 4)
          BY <2>1, <3>3
        <4>3. lba = 2 * (loc.table + (loc.index \div 4))
          BY <1>8, <1>14 DEF lba
        <4>4. loc.index \div 4 \in Nat
          BY <1>5
        <4> QED BY <1>5, <4>2, <4>3, <4>4
      <3>5. sector < Sectors => Pointer[ino] = Word(Disk[sector], (offset % SectorSize) + 40)
        BY <1>14, DiskAssumption
      <3>6. Word(mem', a + y) = Pointer[ino]
        BY <1>11, <1>14, <3>2, <3>3, <3>4, <3>5
      <3>7. (a + (loc.index % 4) * 256) + 40 = a + y
        BY <1>5, <2>2 DEF y
      <3> QED BY <3>6, <3>7
    <2> QED BY <2>2, <2>3
  <1>15. Located'
    <2>1. InodeInfo' = loc.inode_tmp + (loc.index % 4) * 256
      BY <1>1, <1>6 DEF InodeInfo, InodeSize
    <2>2. Datablock0' = Word(mem', (loc.inode_tmp + (loc.index % 4) * 256) + 40)
      BY <2>1 DEF Datablock0
    <2> QED BY <1>1, <1>4, <1>12, <1>14, <2>2 DEF Located
  <1> QED BY <1>0, <1>1, <1>2, <1>3, <1>11, <1>13, <1>15, DoneSound

LEMMA ReadDataSound == ASSUME Sound, ReadData, causes' = {} PROVE Sound'
  <1>0. PICK S : Reliable(S)
    BY DEF Sound
  <1>1. /\ work # <<>> /\ Head(work) \in {"read_data", "read_dir"} /\ Done
        /\ used' = used /\ head' = head /\ UNCHANGED kmain
        /\ path' = path /\ ino' = ino
        /\ loc' = [loc EXCEPT !.curr = 0, !.found = 0]
    BY DEF ReadData, Doing
  <1> DEFINE lba == 2 * Datablock0
  <1>2. /\ mem \in Memory /\ loc \in [Locals -> Nat]
        /\ boot \in {"look", "mount", "mounted"}
        /\ S = {} => Head(work) \in {"fdata", "obj"}
        /\ StepAt(S) /\ loc.len <= 15
    BY <1>0, <1>1, CommandHeap, Zenon
  <1>3. S # {}
    BY <1>1, <1>2
  <1>4. work' # <<>> => Head(work') \in {"getdata", "dirent"}
    BY <1>1, DoneOrdered, Zenon DEF Pair
  <1>5. lba \in Nat
    <2>1. loc.inode_tmp \in Nat /\ loc.index \in Nat
      BY <1>2 DEF Locals, Allocations
    <2>2. InodeInfo + 40 \in Nat
      BY <2>1 DEF InodeInfo, BlockSize, InodeSize
    <2>3. Datablock0 \in Nat
      BY <1>2, <2>2, WordType DEF Datablock0
    <2> QED BY <2>3
  <1>6. \E n \in {1, 6}, a \in Nat :
           Newest(S, a) /\ Transfer(lba, n, a, Harm(a))
    <2>1. CASE Doing("read_data") /\ Transfer(lba, 1, loc.filedata, Harm(loc.filedata))
      <3>1. Newest(S, loc.filedata) /\ loc.filedata \in Nat
        BY <1>2, <2>1 DEF StepAt, Doing, Locals, Allocations
      <3> QED BY <2>1, <3>1
    <2>2. CASE Doing("read_dir") /\ Transfer(lba, 6, loc.dir, Harm(loc.dir))
      <3>1. Newest(S, loc.dir) /\ loc.dir \in Nat
        BY <1>2, <2>2 DEF StepAt, Doing, Locals, Allocations
      <3> QED BY <2>2, <3>1
    <2> QED BY <2>1, <2>2 DEF ReadData
  <1>7. PICK n \in {1, 6}, a \in Nat : Newest(S, a) /\ Transfer(lba, n, a, Harm(a))
    BY <1>6
  <1> HIDE DEF lba
  <1>8. /\ mem' \in Memory /\ missed' \in BOOLEAN
        /\ List(S, mem', used, Fresh) /\ (boot = "mounted" => Geometry(mem'))
    <2>1. n \in Nat /\ n > 0
      OBVIOUS
    <2> QED BY <1>0, <1>1, <1>3, <1>5, <1>7, <2>1, NewestKeeps
  <1>9. loc' \in [Locals -> Nat] /\ loc'.len = loc.len
    <2>1. "len" \in Locals
      BY DEF Locals
    <2> QED BY <1>1, <1>2, <2>1
  <1>10. boot' = boot
    BY <1>1 DEF kmain
  <1>11. StepAt(S)'
    BY <1>1, <1>2, <1>3, <1>4, <1>9, <1>10 DEF StepAt, Window
  <1>12. Located'
    BY <1>4 DEF Located
  <1> QED BY <1>0, <1>1, <1>3, <1>8, <1>9, <1>11, <1>12, DoneSound

LEMMA ReadDirentSound == ASSUME Sound, ReadDirent, causes' = {} PROVE Sound'
  <1>0. PICK S : Reliable(S)
    BY DEF Sound
  <1> DEFINE entry == loc.dir + 4 * loc.curr
             len == Byte(mem, entry + 6) % 16
  <1>1. /\ work # <<>> /\ Head(work) = "dirent" /\ Done
        /\ used' = used /\ head' = head /\ UNCHANGED kmain
        /\ path' = path /\ ino' = ino /\ missed' = missed
    BY DEF ReadDirent, Doing
  <1>2. PICK name \in Wild :
           /\ mem' = Put(mem, name, Get(mem, entry + 8, len))
           /\ len = 0 \/ WildHarm(name) = {}
           /\ loc' = [loc EXCEPT !.inode = Byte(mem, entry), !.name = name,
                         !.size = Byte(mem, entry + 4), !.len = len]
    BY DEF ReadDirent
  <1>3. /\ mem \in Memory /\ used \in Nat /\ used <= Total + 3
        /\ loc \in [Locals -> Nat] /\ missed \in BOOLEAN
        /\ boot \in {"look", "mount", "mounted"}
        /\ List(S, mem, used, Fresh)
        /\ S = {} => Head(work) \in {"fdata", "obj"}
        /\ \A b \in S : b \in Nat /\ 20 <= b /\ b <= Total + 3 /\ b <= used
        /\ boot = "mounted" => Geometry(mem)
    BY <1>0, <1>1, CommandHeap, Zenon
  <1>4. S # {}
    BY <1>1, <1>3
  <1>5. work' # <<>> => Head(work') = "tmp"
    BY <1>1, DoneOrdered, Zenon DEF Pair
  <1>6. name \in Nat
    <2>1. name \in 0 .. MemSize - SectorSize
      BY Ext2Assumption
    <2> QED BY <2>1
  <1>7. entry \in Nat /\ entry + 8 \in Nat /\ entry + 6 \in Nat /\ entry + 4 \in Nat
    <2>1. loc.dir \in Nat /\ loc.curr \in Nat
      BY <1>3 DEF Locals, Allocations
    <2> QED BY <2>1
  <1> HIDE DEF entry
  <1>8. /\ len \in 0 .. 15 /\ Byte(mem, entry) \in Nat /\ Byte(mem, entry + 4) \in Nat
    BY <1>3, <1>7, ByteType DEF Octet
  <1> HIDE DEF len
  <1>9. Get(mem, entry + 8, len) \in Seq(Octet) /\ Len(Get(mem, entry + 8, len)) = len
    <2>1. len \in Nat
      BY <1>8
    <2> QED BY <1>3, <1>7, <2>1, GetType
  <1>10. /\ mem' \in Memory
         /\ \A x \in Nat : Byte(mem', x) # Byte(mem, x) => name <= x /\ len # 0
    <2> DEFINE s == Get(mem, entry + 8, len)
    <2> HIDE DEF s
    <2>1. s \in Seq(Octet) /\ Len(s) = len /\ mem' = Put(mem, name, s)
      BY <1>2, <1>9 DEF s
    <2>2. /\ mem' \in Memory
          /\ \A x \in Nat : Byte(mem', x) =
                IF x < MemSize /\ name <= x /\ x < name + Len(s) THEN s[x - name + 1]
                ELSE Byte(mem, x)
      BY <1>3, <1>6, <2>1, PutByte
    <2> QED BY <1>6, <1>8, <2>1, <2>2
  <1>11. len = 0 \/ (name >= SectorSize /\ name >= used + 16)
    BY <1>2, <1>3, <1>6, WildIsFar
  <1>12. List(S, mem', used, Fresh) /\ (boot = "mounted" => Geometry(mem'))
    <2>1. CASE len = 0
      <3>1. /\ used + 64 \in Nat /\ used + 64 >= 44
            /\ \A b \in S : b + 16 <= used + 64
            /\ \A x \in Nat : x < used + 64 => Byte(mem', x) = Byte(mem, x)
        BY <1>3, <1>10, <2>1
      <3> QED BY <1>3, <3>1, KeptBelow
    <2>2. CASE name >= SectorSize /\ name >= used + 16
      <3>1. /\ name >= 44 /\ \A b \in S : b + 16 <= name
            /\ \A x \in Nat : x < name => Byte(mem', x) = Byte(mem, x)
        BY <1>3, <1>6, <1>10, <2>2 DEF SectorSize
      <3> QED BY <1>3, <1>6, <3>1, KeptBelow
    <2> QED BY <1>11, <2>1, <2>2
  <1>13. loc' \in [Locals -> Nat] /\ loc'.len = len
    <2>1. "len" \in Locals /\ "inode" \in Locals /\ "name" \in Locals /\ "size" \in Locals
      BY DEF Locals
    <2>2. len \in Nat
      BY <1>8
    <2> QED BY <1>2, <1>3, <1>6, <1>8, <2>1, <2>2
  <1>14. boot' = boot
    BY <1>1 DEF kmain
  <1>15. StepAt(S)'
    <2>1. len <= 15
      BY <1>8
    <2> QED BY <1>1, <1>3, <1>4, <1>5, <1>13, <1>14, <2>1 DEF StepAt, Window
  <1>16. Located'
    BY <1>5 DEF Located
  <1> QED BY <1>0, <1>1, <1>3, <1>4, <1>10, <1>12, <1>13, <1>15, <1>16, DoneSound

(* The bytes that may be written at any time: in front of the headers, in  *)
(* an allocated block's fields at and behind __data, and in the first      *)
(* header's padding until the superblock lies there.                       *)
Spare(S, m, w, f) ==
    \A x \in Nat : Byte(w, x) # Byte(m, x) =>
       \/ x < 20
       \/ f /\ 26 <= x /\ x < 28
       \/ 48 <= x /\ \A b \in S : b + 12 <= x /\ (Byte(m, b + 4) = 1 => f /\ b = 20)

LEMMA SpareBytes ==
    ASSUME NEW S, NEW m, NEW w, NEW u \in Nat, NEW f, List(S, m, u, f), Spare(S, m, w, f)
    PROVE  /\ List(S, w, u, f)
           /\ ~f /\ Geometry(m) => Geometry(w)
  <1> USE DEF Spare
  <1>1. /\ \A b \in S : b \in Nat /\ 20 <= b
        /\ \A b, c \in S : b < c => b + 20 <= c
        /\ S # {} => 20 \in S
    BY Sizes DEF List
  <1>2. ASSUME NEW b \in S, NEW k \in 8 .. 11 PROVE Byte(w, b + k) = Byte(m, b + k)
    <2>1. /\ b + k \in Nat /\ ~(b + k < 20) /\ ~(26 <= b + k /\ b + k < 28)
          /\ ~(b + 12 <= b + k)
      <3>1. b = 20 \/ 20 + 20 <= b
        BY <1>1
      <3> QED BY <1>1, <3>1
    <2> QED BY <2>1
  <1>3. ASSUME NEW b \in S, Byte(w, b + 4) = 1, NEW k \in (0 .. 4) \cup (12 .. 15)
        PROVE  Byte(w, b + k) = Byte(m, b + k)
    <2>1. b \in Nat /\ (b = 20 \/ 20 + 20 <= b)
      BY <1>1
    <2>2. /\ b + 4 \in Nat /\ ~(b + 4 < 20) /\ ~(26 <= b + 4 /\ b + 4 < 28)
          /\ ~(b + 12 <= b + 4)
      BY <2>1
    <2>3. Byte(m, b + 4) = 1
      BY <1>3, <2>2
    <2>4. /\ b + k \in Nat /\ ~(b + k < 20) /\ ~(26 <= b + k /\ b + k < 28)
          /\ b = 20 => ~(48 <= b + k)
      BY <2>1
    <2> QED BY <2>3, <2>4
  <1>4. List(S, w, u, f)
    <2>1. \A b \in S : \A k \in 8 .. 11 : Byte(w, b + k) = Byte(m, b + k)
      BY <1>2
    <2>2. \A b \in S : Byte(w, b + 4) = 1 =>
             \A k \in (0 .. 4) \cup (12 .. 15) : Byte(w, b + k) = Byte(m, b + k)
      BY <1>3
    <2>3. u <= u
      OBVIOUS
    <2> QED BY <2>1, <2>2, <2>3, ListKept
  <1>5. ASSUME ~f, Geometry(m) PROVE Geometry(w)
    <2>1. \A x \in (24 .. 27) \cup (32 .. 35) \cup (40 .. 43) :
             x \in Nat /\ ~(x < 20) /\ ~(48 <= x)
      OBVIOUS
    <2>2. \A x \in (24 .. 27) \cup (32 .. 35) \cup (40 .. 43) : Byte(w, x) = Byte(m, x)
      BY <1>5, <2>1
    <2> QED BY <1>5, <2>2 DEF Geometry
  <1> QED BY <1>4, <1>5

LEMMA CompareWrites ==
    ASSUME NEW S, NEW m \in Memory, NEW u \in Nat, NEW f, List(S, m, u, f),
           NEW a \in Nat, NEW len \in 0 .. 15, NEW s \in Seq(Octet), Len(s) = len,
           \/ a = NULL
           \/ len = 0
           \/ f /\ a = First + 6 /\ len <= 1
           \/ /\ 48 <= a
              /\ \A b \in S : /\ b + 10 + 2 * len <= a
                              /\ Byte(m, b + IsFreeAt) = 1 => f /\ b = First
    PROVE  /\ Put(m, a, s) \in Memory /\ List(S, Put(m, a, s), u, f)
           /\ ~f /\ Geometry(m) => Geometry(Put(m, a, s))
  <1> DEFINE w == Put(m, a, s)
  <1>1. /\ w \in Memory
        /\ \A x \in Nat : Byte(w, x) # Byte(m, x) => a <= x /\ x < a + len
    <2>1. /\ w \in Memory
          /\ \A x \in Nat : Byte(w, x) =
                IF x < MemSize /\ a <= x /\ x < a + Len(s) THEN s[x - a + 1]
                ELSE Byte(m, x)
      BY PutByte
    <2> QED BY <2>1
  <1> HIDE DEF w
  <1>2. \A b \in S : b \in Nat /\ 20 <= b
    BY Sizes DEF List
  <1>3. ASSUME NEW x \in Nat, Byte(w, x) # Byte(m, x)
        PROVE  \/ x < 20
               \/ f /\ 26 <= x /\ x < 28
               \/ /\ 48 <= x
                  /\ \A b \in S : /\ b + 12 <= x
                                  /\ Byte(m, b + 4) = 1 => f /\ b = 20
    <2>1. a <= x /\ x < a + len /\ len # 0
      BY <1>1, <1>3
    <2> QED BY <1>2, <2>1, Sizes
  <1>4. Spare(S, m, w, f)
    BY <1>3 DEF Spare
  <1> QED BY <1>1, <1>4, SpareBytes DEF w

LEMMA CompareSound == ASSUME Sound, Compare PROVE Sound'
  <1>0. PICK S : Reliable(S)
    BY DEF Sound
  <1>1. /\ work # <<>> /\ Head(work) = "compare"
        /\ used' = used /\ head' = head /\ UNCHANGED kmain /\ missed' = missed
        /\ mem' = Put(mem, loc.tmp, Get(mem, loc.name, loc.len))
        /\ IF loc.inode = 0
           THEN /\ ino' = loc.found /\ path' = Tail(path)
                /\ loc' = loc /\ Done
           ELSE /\ loc' = [loc EXCEPT !.curr = Advance,
                      !.found = IF Same(mem', loc.tmp, loc.lookup_name) THEN loc.inode ELSE @]
                /\ work' = Dirent \o Tail(work)
                /\ ino' = ino /\ path' = path
    BY Zenon DEF Compare, Doing
  <1>2. /\ mem \in Memory /\ used \in Nat /\ used <= Total + 3
        /\ loc \in [Locals -> Nat] /\ ino \in Nat /\ missed \in BOOLEAN
        /\ work \in Seq(Steps) /\ Ordered(work)
        /\ path \in Seq(Seq(Octet)) /\ Named(work, path)
        /\ boot \in {"look", "mount", "mounted"}
        /\ List(S, mem, used, Fresh) /\ Fresh \in BOOLEAN
        /\ head = IF S = {} THEN NULL ELSE First
        /\ S = {} => Head(work) \in {"fdata", "obj"}
        /\ boot \in {"mount", "mounted"} => used >= 28
        /\ boot = "mounted" => Geometry(mem)
        /\ StepAt(S) /\ loc.len <= 15
    BY <1>0, <1>1, CommandHeap, Zenon
  <1>3. S # {} /\ head' = First
    BY <1>1, <1>2
  <1>4. /\ loc.len \in 0 .. 15 /\ loc.len \in Nat /\ loc.tmp \in Nat /\ loc.name \in Nat
        /\ loc.found \in Nat /\ loc.inode \in Nat /\ loc.size \in Nat /\ loc.curr \in Nat
    <2>1. /\ "len" \in Locals /\ "tmp" \in Locals /\ "name" \in Locals
          /\ "found" \in Locals /\ "inode" \in Locals /\ "size" \in Locals
          /\ "curr" \in Locals
      BY DEF Locals, Allocations
    <2>2. \A l \in Locals : loc[l] \in Nat
      BY <1>2
    <2>3. loc.len \in Nat /\ loc.len <= 15
      BY <1>2, <2>1, <2>2
    <2> QED BY <2>1, <2>2, <2>3
  <1> DEFINE s == Get(mem, loc.name, loc.len)
  <1>5. s \in Seq(Octet) /\ Len(s) = loc.len
    BY <1>2, <1>4, GetType
  <1> HIDE DEF s
  <1>6. /\ mem' \in Memory /\ List(S, mem', used, Fresh)
        /\ boot = "mounted" => Geometry(mem')
    <2>1. Copyable(S)
      BY <1>1, <1>2 DEF StepAt
    <2>2. mem' = Put(mem, loc.tmp, s)
      BY <1>1 DEF s
    <2>3. /\ Put(mem, loc.tmp, s) \in Memory
          /\ List(S, Put(mem, loc.tmp, s), used, Fresh)
          /\ ~Fresh /\ Geometry(mem) => Geometry(Put(mem, loc.tmp, s))
      BY <1>2, <1>4, <1>5, <2>1, CompareWrites DEF Copyable
    <2> QED BY <1>2, <2>2, <2>3 DEF Fresh
  <1>7. path # <<>>
    <2>1. Len(work) \in Nat /\ Len(work) >= 1 /\ Head(work) = work[1]
      BY <1>1, <1>2, Shorter
    <2>2. 1 \in 1 .. Len(work)
      BY <2>1
    <2> QED BY <1>1, <1>2, <2>1, <2>2 DEF Named
  <1>8. Tail(work) = <<>> \/ Tail(work) = <<"path">>
    BY <1>1, <1>2, AfterCompare
  <1>9. boot' = boot
    BY <1>1 DEF kmain
  <1>10. CASE loc.inode = 0
    <2>1. ino' = loc.found /\ path' = Tail(path) /\ loc' = loc /\ work' = Tail(work)
      BY <1>1, <1>10 DEF Done
    <2>2. work' \in Seq(Steps) /\ Ordered(work') /\ Named(work', path')
      BY <1>8, <2>1, NoSteps, PathOrdered
    <2>3. work' # <<>> => Head(work') = "path"
      <3>1. Head(<<"path">>) = "path"
        OBVIOUS
      <3> QED BY <1>8, <2>1, <3>1, Zenon
    <2>4. path' \in Seq(Seq(Octet)) /\ ino' \in Nat
      BY <1>2, <1>4, <1>7, <2>1, HeadTailProperties
    <2>5. StepAt(S)'
      BY <1>1, <1>2, <1>3, <1>9, <2>1, <2>3 DEF StepAt, Window
    <2>6. Located'
      BY <2>3 DEF Located
    <2> QED BY <1>1, <1>2, <1>3, <1>6, <2>1, <2>2, <2>4, <2>5, <2>6, CommandSound
  <1>11. CASE loc.inode # 0
    <2>1. /\ work' = Dirent \o Tail(work) /\ ino' = ino /\ path' = path
          /\ loc' = [loc EXCEPT !.curr = Advance,
                !.found = IF Same(mem', loc.tmp, loc.lookup_name) THEN loc.inode ELSE @]
      BY <1>1, <1>11
    <2>2. /\ work' \in Seq(Steps) /\ work' # <<>> /\ Ordered(work') /\ Named(work', path)
          /\ work'[1] = "dirent"
      <3>1. CASE Tail(work) = <<>>
        <4>1. Dirent \o <<>> = Dirent
          BY DirentOrdered, ConcatEmptySeq
        <4> QED BY <1>7, <2>1, <3>1, <4>1, DirentOrdered
      <3>2. CASE Tail(work) = <<"path">>
        <4> DEFINE q == <<"path">>
        <4>1. /\ q \in Seq(Steps) /\ q # <<>> /\ Ordered(q) /\ q[1] = "path"
              /\ Named(q, path)
          BY PathOrdered
        <4>2. work' = Dirent \o q
          BY <2>1, <3>2
        <4> HIDE DEF q
        <4>3. Pair(Dirent[Len(Dirent)], q[1])
          BY <4>1, DirentOrdered DEF Pair
        <4>4. Named(Dirent, path)
          BY <1>7, DirentOrdered
        <4> QED BY <4>1, <4>2, <4>3, <4>4, DirentOrdered, Join
      <3> QED BY <1>8, <3>1, <3>2
    <2>3. Head(work') = "dirent"
      BY <2>2
    <2>4. loc' \in [Locals -> Nat] /\ loc'.len = loc.len
      <3>1. "len" \in Locals /\ "curr" \in Locals /\ "found" \in Locals
        BY DEF Locals
      <3>2. Advance \in Nat
        <4>1. loc.size \div 4 \in Nat
          BY <1>4
        <4> QED BY <1>4, <4>1 DEF Advance
      <3> QED BY <1>2, <1>4, <2>1, <3>1, <3>2
    <2>5. StepAt(S)'
      BY <1>1, <1>2, <1>3, <1>9, <2>3, <2>4 DEF StepAt, Window
    <2>6. Located'
      BY <2>3 DEF Located
    <2> QED BY <1>1, <1>2, <1>3, <1>6, <2>1, <2>2, <2>4, <2>5, <2>6, CommandSound
  <1> QED BY <1>10, <1>11

LEMMA ZeroWord ==
    ASSUME NEW m \in Memory, Word(m, 32) = 0, NEW x \in 32 .. 35
    PROVE  Byte(m, x) = 0
  <1>1. \A k \in 32 .. 35 : Byte(m, k) \in Nat
    <2>1. \A k \in 32 .. 35 : k \in Nat
      OBVIOUS
    <2> QED BY <2>1, ByteType DEF Octet
  <1>2. TooLarge # 0
    BY DEF TooLarge
  <1>3. ~ (Byte(m, 32 + 3) > 0)
    BY <1>2 DEF Word
  <1>4. Byte(m, 32) + 256 * Byte(m, 32 + 1) + 65536 * Byte(m, 32 + 2) = 0
    BY <1>3 DEF Word
  <1>5. Byte(m, 32) = 0 /\ Byte(m, 33) = 0 /\ Byte(m, 34) = 0 /\ Byte(m, 35) = 0
    <2>1. /\ Byte(m, 32) \in Nat /\ Byte(m, 33) \in Nat /\ Byte(m, 34) \in Nat
          /\ Byte(m, 35) \in Nat
      BY <1>1
    <2>2. 32 + 1 = 33 /\ 32 + 2 = 34 /\ 32 + 3 = 35
      OBVIOUS
    <2>3. /\ Byte(m, 32) + 256 * Byte(m, 33) + 65536 * Byte(m, 34) = 0
          /\ ~ (Byte(m, 35) > 0)
      BY <1>3, <1>4, <2>2
    <2> DEFINE p == Byte(m, 32)
               q == Byte(m, 33)
               r == Byte(m, 34)
    <2>4. p \in Nat /\ q \in Nat /\ r \in Nat /\ p + (256 * q) + (65536 * r) = 0
      BY <2>1, <2>3
    <2> HIDE DEF p, q, r
    <2>5. p = 0 /\ q = 0 /\ r = 0
      BY <2>4
    <2> USE DEF p, q, r
    <2> QED BY <2>1, <2>3, <2>5
  <1> QED BY <1>5

LEMMA FreeSound == ASSUME Sound, Free, causes' = {} PROVE Sound'
  <1>0. PICK S : Reliable(S)
    BY DEF Sound
  <1>1. /\ work # <<>> /\ Head(work) = "free" /\ Done
        /\ used' = used /\ head' = head /\ UNCHANGED kmain
        /\ path' = path /\ ino' = ino /\ loc' = loc /\ missed' = missed
    BY DEF Free, Doing
  <1>2. /\ mem \in Memory /\ used \in Nat /\ used <= Total + 3
        /\ loc \in [Locals -> Nat] /\ missed \in BOOLEAN
        /\ boot \in {"look", "mount", "mounted"}
        /\ List(S, mem, used, Fresh)
        /\ head = IF S = {} THEN NULL ELSE First
        /\ S = {} => Head(work) \in {"fdata", "obj"}
        /\ \A b \in S : b \in Nat /\ 20 <= b /\ b <= Total + 3 /\ b <= used
        /\ \A b, c \in S : b < c => b + 20 <= c
        /\ boot = "mounted" => Geometry(mem)
        /\ StepAt(S) /\ loc.len <= 15
    BY <1>0, <1>1, CommandHeap, Zenon
  <1>3. S # {}
    BY <1>1, <1>2
  <1>4. work' = <<>>
    BY <1>1, DoneOrdered, Zenon DEF Pair
  <1> DEFINE headers == Headers(mem, head)
             Found == {i \in Listed(headers) : Word(mem, headers[i] + DataAt) = loc.obj}
             b == headers[Min(Found)]
  <1>5. /\ mem' = IF Found = {} THEN mem ELSE Put(mem, b + 4, <<1>>)
        /\ Found = {} \/ loc.obj = NULL \/ Own(b)
    BY Sizes DEF Free
  <1>6. List(S, mem', used, Fresh) /\ mem' \in Memory
        /\ (boot = "mounted" => Geometry(mem'))
    <2>1. CASE Found = {}
      BY <1>2, <1>5, <2>1
    <2>2. CASE Found # {}
      <3>1. b \in S /\ Word(mem, b + 12) = loc.obj
        <4>1. \A i \in Listed(headers) : headers[i] \in S
          BY <1>2, ListWalk
        <4>2. Listed(headers) \subseteq Nat
          BY <1>2, ListWalk
        <4>3. Found \subseteq Nat
          BY <4>2, Zenon
        <4>4. Min(Found) \in Found
          BY <2>2, <4>3, Smallest, Zenon
        <4> QED BY <4>1, <4>4, Sizes, Zenon
      <3>2. mem' = Put(mem, b + 4, <<1>>) /\ (loc.obj = NULL \/ Own(b))
        BY <1>5, <2>2
      <3> HIDE DEF Found, headers
      <3>3. PICK c \in S : /\ Word(mem, c + 12) = loc.obj /\ mem' = Put(mem, c + 4, <<1>>)
                           /\ loc.obj = NULL \/ (Fresh /\ loc.obj = c + 6)
        <4> HIDE DEF b
        <4> QED BY <3>1, <3>2 DEF Own, Fresh
      <3>4. /\ mem' \in Memory
            /\ \A x \in Nat : x # c + 4 => Byte(mem', x) = Byte(mem, x)
        <4>1. c + 4 \in Nat /\ c + 4 < MemSize /\ 1 \in Octet
          BY <1>2, MemoryIsLarge DEF Octet
        <4> QED BY <1>2, <3>3, <4>1, ByteWrite
      <3>5. ASSUME NEW d \in S, NEW k \in 0 .. 15, d # c \/ k # 4
            PROVE  Byte(mem', d + k) = Byte(mem, d + k)
        <4>1. d + k \in Nat /\ d + k # c + 4
          <5>1. (d < c => d + 20 <= c) /\ (c < d => c + 20 <= d) /\ d \in Nat /\ c \in Nat
            BY <1>2
          <5> QED BY <3>5, <5>1
        <4> QED BY <3>4, <4>1
      <3>6. FreeAsKnown(mem', used, Fresh, c)
        <4>1. \/ loc.obj = NULL /\ used + 2 >= Total
              \/ Fresh /\ loc.obj = First + 6 /\ Word(mem, First) = 2
              \/ loc.obj # NULL /\ \A d \in S : loc.obj # d + 6
          BY <1>1, <1>2 DEF StepAt, Freeable
        <4>2. \A k \in 12 .. 12 + 3 : Byte(mem', c + k) = Byte(mem, c + k)
          <5>1. \A k \in 12 .. 12 + 3 : k \in 0 .. 15 /\ k # 4
            OBVIOUS
          <5> QED BY <3>5, <5>1
        <4>3. Word(mem', c + 12) = loc.obj
          BY <1>2, <3>3, <4>2, WordKept
        <4>4. \A k \in 0 .. 3 : Byte(mem', c + k) = Byte(mem, c + k)
          <5>1. \A k \in 0 .. 3 : k \in 0 .. 15 /\ k # 4
            OBVIOUS
          <5> QED BY <3>5, <5>1
        <4>5. Word(mem', c) = Word(mem, c)
          BY <1>2, <4>4, SameWord
        <4>6. CASE loc.obj = NULL /\ used + 2 >= Total
          BY <4>3, <4>6, Sizes DEF FreeAsKnown
        <4>7. CASE Fresh /\ loc.obj = First + 6 /\ Word(mem, First) = 2
          <5>1. loc.obj = c + 6 /\ c = First
            BY <1>2, <3>3, <4>7, Sizes
          <5> QED BY <4>3, <4>5, <4>7, <5>1, Sizes DEF FreeAsKnown
        <4> QED BY <3>3, <4>1, <4>6, <4>7
      <3>7. List(S, mem', used, Fresh)
        <4>1. ASSUME NEW d \in S
              PROVE  /\ FreeAsKnown(mem', used, Fresh, d)
                     /\ Word(mem', d + 8) = Word(mem, d + 8)
          <5>1. \A k \in 8 .. 8 + 3 : Byte(mem', d + k) = Byte(mem, d + k)
            <6>1. \A k \in 8 .. 8 + 3 : k \in 0 .. 15 /\ k # 4
              OBVIOUS
            <6> QED BY <3>5, <6>1
          <5>2. Word(mem', d + 8) = Word(mem, d + 8)
            BY <1>2, <5>1, WordKept
          <5>3. CASE d # c
            <6>1. \A k \in 0 .. 15 : Byte(mem', d + k) = Byte(mem, d + k)
              BY <3>5, <5>3
            <6>2. Byte(mem', d + 4) = Byte(mem, d + 4)
              BY <6>1
            <6>3. Word(mem', d + 12) = Word(mem, d + 12)
              <7>1. \A k \in 12 .. 12 + 3 : Byte(mem', d + k) = Byte(mem, d + k)
                <8>1. \A k \in 12 .. 12 + 3 : k \in 0 .. 15
                  OBVIOUS
                <8> QED BY <6>1, <8>1
              <7> QED BY <1>2, <7>1, WordKept
            <6>4. Word(mem', d) = Word(mem, d)
              <7>1. \A k \in 0 .. 3 : Byte(mem', d + k) = Byte(mem, d + k)
                <8>1. \A k \in 0 .. 3 : k \in 0 .. 15
                  OBVIOUS
                <8> QED BY <6>1, <8>1
              <7> QED BY <1>2, <7>1, SameWord
            <6>5. FreeAsKnown(mem, used, Fresh, d)
              BY <1>2 DEF List
            <6>6. FreeAsKnown(mem', used, Fresh, d)
              BY <6>2, <6>3, <6>4, <6>5, Sizes DEF FreeAsKnown
            <6> QED BY <5>2, <6>6
          <5> QED BY <3>6, <5>2, <5>3
        <4>2. /\ \A d \in S : d \in Nat /\ First <= d /\ d <= Total + 3 /\ d <= used
              /\ S # {} => First \in S /\ First + 5 <= used
              /\ \A d, e \in S : d < e => d + First <= e
              /\ \A d \in S : \/ Word(mem, d + NextAt) = NULL
                              \/ Word(mem, d + NextAt) \in S /\ d < Word(mem, d + NextAt)
          BY <1>2, Zenon DEF List
        <4>3. \A d \in S : \/ Word(mem', d + NextAt) = NULL
                           \/ Word(mem', d + NextAt) \in S /\ d < Word(mem', d + NextAt)
          BY <4>1, <4>2, Sizes
        <4> QED BY <4>1, <4>2, <4>3, Zenon DEF List
      <3>8. ASSUME boot = "mounted" PROVE Geometry(mem')
        <4>1. Geometry(mem) /\ ~Fresh /\ loc.obj = NULL
          BY <1>2, <3>3, <3>8 DEF Fresh
        <4>2. c # 20
          <5> SUFFICES ASSUME c = 20 PROVE FALSE
            OBVIOUS
          <5>1. Word(mem, 32) = 0
            BY <3>3, <4>1, Sizes
          <5>2. PICK x \in 32 .. 35 : Disk[2][x + 1] # 0
            BY DiskAssumption
          <5>3. Byte(mem, x) # 0
            BY <4>1, <5>2 DEF Geometry
          <5> QED BY <1>2, <5>1, <5>3, ZeroWord
        <4>3. c + 4 >= 44
          <5>1. 20 \in S
            BY <1>2, <1>3, Sizes DEF List
          <5>2. 20 < c => 20 + 20 <= c
            BY <1>2, <5>1
          <5> QED BY <1>2, <4>2, <5>2
        <4>4. \A x \in (24 .. 27) \cup (32 .. 35) \cup (40 .. 43) : x \in Nat /\ x # c + 4
          BY <1>2, <4>3
        <4> QED BY <3>4, <4>1, <4>4 DEF Geometry
      <3> QED BY <3>4, <3>7, <3>8
    <2> QED BY <2>1, <2>2
  <1>7. boot' = boot
    BY <1>1 DEF kmain
  <1>8. StepAt(S)'
    BY <1>1, <1>2, <1>4 DEF StepAt
  <1>9. Located'
    BY <1>4 DEF Located
  <1> HIDE DEF headers, Found, b
  <1> QED BY <1>0, <1>1, <1>2, <1>3, <1>6, <1>8, <1>9, DoneSound

(* malloc leaves the fields of the superblock as they are, and what lies   *)
(* behind the header that it writes.                                       *)
LEMMA GrantedKeeps ==
    ASSUME NEW S, NEW T, NEW m \in Memory, NEW r, NEW n \in Nat, NEW f,
           Granted(S, T, m, r, n, f), used \in Nat, List(S, m, used, f)
    PROVE  /\ used >= 28 /\ Geometry(m) => Geometry(r.mem)
           /\ \A x \in Nat : used + 36 <= x => Byte(r.mem, x) = Byte(m, x)
  <1>1. /\ \A b \in S : b \in Nat /\ 20 <= b /\ b <= used
        /\ \A b, c \in S : b < c => b + 20 <= c
        /\ S # {} => 20 \in S
    BY Sizes DEF List
  <1>2. \A x \in Nat : \/ Byte(r.mem, x) = Byte(m, x)
                       \/ x < 16
                       \/ used + 20 <= x /\ x < used + 36
                       \/ \E b \in S : b + 8 <= x /\ x < b + 12
                       \/ \E b \in S : x = b + 4 /\ Byte(m, x) = 1
    BY DEF Granted
  <1>3. ASSUME used >= 28, Geometry(m) PROVE Geometry(r.mem)
    <2>1. Byte(m, 24) = 0
      BY <1>3, DiskAssumption DEF Geometry
    <2>2. ASSUME NEW x \in (24 .. 27) \cup (32 .. 35) \cup (40 .. 43)
          PROVE  Byte(r.mem, x) = Byte(m, x)
      <3>1. x \in Nat /\ ~(x < 16) /\ ~(used + 20 <= x)
        BY <1>3
      <3>2. ASSUME NEW b \in S PROVE b = 20 \/ 40 <= b
        BY <1>1
      <3>3. ASSUME NEW b \in S PROVE ~(b + 8 <= x /\ x < b + 12) /\ (x = b + 4 => x = 24)
        BY <1>1, <3>2
      <3> QED BY <1>2, <2>1, <3>1, <3>3
    <2> QED BY <1>3, <2>2 DEF Geometry
  <1>4. ASSUME NEW x \in Nat, used + 36 <= x PROVE Byte(r.mem, x) = Byte(m, x)
    <2>1. ~(x < 16) /\ ~(x < used + 36)
      BY <1>4
    <2>2. \A b \in S : ~(x < b + 12) /\ x # b + 4
      BY <1>1, <1>4
    <2> QED BY <1>2, <2>1, <2>2
  <1> QED BY <1>3, <1>4

(* What the caller stores then: k bytes at a, where it asked for n.        *)
Storable(k, a, n) ==
    \/ k = 0
    \/ a = NULL /\ k <= 20
    \/ a # NULL /\ k <= n /\ n >= 2

LEMMA StoreKeeps ==
    ASSUME NEW S, NEW T, NEW m \in Memory, NEW r, NEW n \in Nat, NEW f \in BOOLEAN,
           Granted(S, T, m, r, n, f), NEW s \in Seq(Octet),
           Storable(Len(s), r.addr, n), NEW w, w = Put(r.mem, r.addr, s)
    PROVE  /\ w \in Memory /\ List(T, w, r.used, f)
           /\ ~f /\ Geometry(r.mem) => Geometry(w)
           /\ \A x \in 20 .. 23 : Byte(w, x) = Byte(r.mem, x)
           /\ Len(s) = 0 => \A x \in Nat : Byte(w, x) = Byte(r.mem, x)
  <1>1. /\ List(T, r.mem, r.used, f) /\ r.mem \in Memory /\ r.used \in Nat /\ r.addr \in Nat
        /\ \/ r.addr = NULL
           \/ f /\ r.addr = First + 6 /\ n <= 2
           \/ r.addr = First + 5 /\ n = 1
           \/ /\ r.addr = r.used /\ 48 <= r.addr
              /\ \A b \in T : b + 8 + 2 * n <= r.addr
              /\ n >= 2 => \A b \in T : Byte(r.mem, b + 4) = 1 => f /\ b = First
    BY DEF Granted
  <1>2. /\ w \in Memory
        /\ \A x \in Nat : Byte(w, x) # Byte(r.mem, x) => r.addr <= x /\ x < r.addr + Len(s)
        /\ Len(s) \in Nat
    <2>1. /\ w \in Memory
          /\ \A x \in Nat : Byte(w, x) =
                IF x < MemSize /\ r.addr <= x /\ x < r.addr + Len(s) THEN s[x - r.addr + 1]
                ELSE Byte(r.mem, x)
      BY <1>1, PutByte
    <2> QED BY <2>1
  <1>3. \A b \in T : b \in Nat
    BY <1>1 DEF List
  <1>4. ASSUME NEW x \in Nat, Byte(w, x) # Byte(r.mem, x)
        PROVE  \/ x < 20
               \/ f /\ 26 <= x /\ x < 28
               \/ /\ 48 <= x
                  /\ \A b \in T : /\ b + 12 <= x
                                  /\ Byte(r.mem, b + 4) = 1 => f /\ b = 20
    <2>1. r.addr <= x /\ x < r.addr + Len(s) /\ Len(s) # 0
      BY <1>1, <1>2, <1>4
    <2> QED BY <1>1, <1>2, <1>3, <2>1, Sizes DEF Storable
  <1>5. List(T, w, r.used, f) /\ (~f /\ Geometry(r.mem) => Geometry(w))
    <2>1. Spare(T, r.mem, w, f)
      BY <1>4 DEF Spare
    <2>2. List(T, r.mem, r.used, f) /\ r.used \in Nat
      BY <1>1
    <2> QED BY <2>1, <2>2, SpareBytes
  <1>6. \A x \in 20 .. 23 : Byte(w, x) = Byte(r.mem, x)
    <2>1. \A x \in 20 .. 23 : x \in Nat /\ ~(x < 20) /\ ~(26 <= x) /\ ~(48 <= x)
      OBVIOUS
    <2> QED BY <1>4, <2>1
  <1>7. ASSUME Len(s) = 0, NEW x \in Nat PROVE Byte(w, x) = Byte(r.mem, x)
    BY <1>1, <1>2, <1>7
  <1> QED BY <1>2, <1>5, <1>6, <1>7

(* A name that is stored does not spoil, and its size.                     *)
LEMMA NameSize ==
    ASSUME Sound, work # <<>>, Head(work) = "lookup_name"
    PROVE  /\ path[1] \in Seq(Octet) /\ Len(path[1]) \in Nat
           /\ LookupSize \in Nat /\ LookupSize > 0 /\ Len(path[1]) <= LookupSize
  <1>1. /\ work \in Seq(Steps) /\ Ordered(work) /\ Named(work, path)
        /\ path \in Seq(Seq(Octet))
    BY DEF Sound, Typed
  <1>2. Len(work) \in Nat /\ Len(work) >= 1 /\ Head(work) = work[1]
    BY <1>1, Shorter
  <1>3. 1 \in 1 .. Len(work)
    BY <1>2
  <1>4. path # <<>> /\ path # << <<>> >>
    BY <1>1, <1>2, <1>3 DEF Named
  <1>5. Len(path) \in Nat /\ Len(path) >= 1
    BY <1>1, <1>4, EmptySeq
  <1>6. path[1] \in Seq(Octet) /\ Len(path[1]) \in Nat
    <2>1. path[1] \in Seq(Octet)
      BY <1>1, <1>5
    <2> QED BY <2>1
  <1>7. Len(path) = 1 => Len(path[1]) > 0
    <2> SUFFICES ASSUME Len(path) = 1, ~(Len(path[1]) > 0) PROVE FALSE
      OBVIOUS
    <2>1. path[1] = <<>>
      BY <1>6, EmptySeq
    <2> DEFINE e == << <<>> >>
    <2>2. e \in Seq(Seq(Octet)) /\ Len(e) = 1 /\ e[1] = <<>>
      OBVIOUS
    <2> HIDE DEF e
    <2>3. Len(path) = Len(e) /\ \A i \in 1 .. Len(path) : path[i] = e[i]
      BY <2>1, <2>2
    <2>4. path = e
      BY <1>1, <2>2, <2>3, SeqEqual, Zenon
    <2> QED BY <1>4, <2>4 DEF e
  <1> QED BY <1>6, <1>7 DEF LookupSize

LEMMA SizeIs ==
    ASSUME Sound, NEW op \in Allocations, Doing(op)
    PROVE  /\ SizeOf(op) \in Nat /\ SizeOf(op) > 0
           /\ op = "obj" => SizeOf(op) = 2
           /\ op \in {"bgdt_tmp", "inode_tmp", "filedata", "dir"} => SizeOf(op) = 4
           /\ op \in {"fdata", "read_file", "file_buf"} => SizeOf(op) = 1
           /\ op = "lookup_name" => SizeOf(op) = LookupSize
           /\ op = "tmp" => SizeOf(op) = loc.len + 1
  <1>1. loc.len \in Nat
    <2>1. "len" \in Locals
      BY DEF Locals
    <2> QED BY <2>1 DEF Sound, Typed
  <1>2. CASE op \in {"fdata", "read_file", "file_buf"}
    <2>1. SizeOf(op) = 1
      BY <1>2 DEF SizeOf
    <2> QED BY <1>2, <2>1
  <1>3. CASE op = "obj"
    <2>1. SizeOf(op) = 2
      BY <1>3 DEF SizeOf
    <2> QED BY <1>3, <2>1
  <1>4. CASE op \in {"bgdt_tmp", "inode_tmp", "filedata", "dir"}
    <2>1. SizeOf(op) = 4
      BY <1>4 DEF SizeOf
    <2> QED BY <1>4, <2>1
  <1>5. CASE op = "lookup_name"
    <2>1. SizeOf(op) = LookupSize
      BY <1>5 DEF SizeOf
    <2>2. LookupSize \in Nat /\ LookupSize > 0
      BY <1>5, NameSize DEF Doing
    <2> QED BY <1>5, <2>1, <2>2
  <1>6. CASE op = "tmp"
    <2>1. SizeOf(op) = loc.len + 1
      BY <1>6 DEF SizeOf
    <2> QED BY <1>1, <1>6, <2>1
  <1> QED BY <1>2, <1>3, <1>4, <1>5, <1>6 DEF Allocations

LEMMA StoresType ==
    ASSUME Sound, NEW op \in Allocations, Doing(op), NEW a, Spoils(op, a) = {}
    PROVE  /\ Stores(op) \in Seq(Octet)
           /\ Storable(Len(Stores(op)), a, SizeOf(op))
           /\ op \notin {"lookup_name", "obj"} => Len(Stores(op)) = 0
  <1>1. CASE op = "lookup_name"
    <2>1. /\ path[1] \in Seq(Octet) /\ Len(path[1]) \in Nat
          /\ LookupSize \in Nat /\ LookupSize > 0 /\ Len(path[1]) <= LookupSize
      BY <1>1, NameSize DEF Doing
    <2>2. Stores(op) = path[1] /\ SizeOf(op) = LookupSize
      BY <1>1, SizeIs DEF Stores
    <2>3. /\ ~(a # NULL /\ Len(path[1]) = 1 /\ LookupSize = 1)
          /\ ~(a = NULL /\ Len(path[1]) > 20)
      BY <1>1, Sizes DEF Spoils
    <2> DEFINE k == Len(path[1])
               n == LookupSize
    <2>4. k \in Nat /\ n \in Nat /\ n > 0 /\ k <= n
          /\ ~(a # NULL /\ k = 1 /\ n = 1) /\ ~(a = NULL /\ k > 20)
      BY <2>1, <2>3
    <2> HIDE DEF k, n
    <2>5. Storable(k, a, n)
      BY <2>4 DEF Storable
    <2> QED BY <1>1, <2>1, <2>2, <2>5 DEF k, n
  <1>2. CASE op = "obj"
    <2>1. Stores(op) = <<4, 10>> /\ SizeOf(op) = 2
      BY <1>2, SizeIs DEF Stores
    <2>2. 4 \in Octet /\ 10 \in Octet
      BY DEF Octet
    <2>3. <<4, 10>> \in Seq(Octet) /\ Len(<<4, 10>>) = 2
      BY <2>2
    <2>4. Storable(2, a, 2)
      BY DEF Storable
    <2> QED BY <1>2, <2>1, <2>3, <2>4
  <1>3. CASE op \notin {"lookup_name", "obj"}
    <2>1. Stores(op) = <<>>
      BY <1>3 DEF Stores
    <2>2. <<>> \in Seq(Octet) /\ Len(<<>>) = 0
      OBVIOUS
    <2> QED BY <1>3, <2>1, <2>2 DEF Storable
  <1> QED BY <1>1, <1>2, <1>3

LEMMA AllocateSound == ASSUME Sound, Allocate, causes' = {} PROVE Sound'
  <1>0. PICK S : Reliable(S)
    BY DEF Sound
  <1>1. /\ work # <<>> /\ Done /\ UNCHANGED kmain
        /\ path' = path /\ ino' = ino /\ missed' = missed
    BY DEF Allocate, Doing
  <1>2. PICK op \in Allocations :
           \E headers \in {Headers(mem, head)} :
              /\ Doing(op)
              /\ \E r \in {Malloc(mem, headers, SizeOf(op))} :
                    /\ mem' = Put(r.mem, r.addr, Stores(op))
                    /\ used' = r.used /\ head' = r.head
                    /\ loc' = [loc EXCEPT ![op] = r.addr]
                    /\ Spoils(op, r.addr) = {}
    BY Zenon DEF Allocate
  <1>3. Doing(op) /\ Head(work) = op
    BY <1>2 DEF Doing
  <1> DEFINE n == SizeOf(op)
  <1>4. PICK r : /\ r = Malloc(mem, Headers(mem, head), n)
                 /\ mem' = Put(r.mem, r.addr, Stores(op))
                 /\ used' = r.used /\ head' = r.head
                 /\ loc' = [loc EXCEPT ![op] = r.addr]
                 /\ Spoils(op, r.addr) = {}
    BY <1>2, Zenon
  <1>5. /\ mem \in Memory /\ used \in Nat /\ used <= Total + 3
        /\ loc \in [Locals -> Nat] /\ ino \in Nat /\ missed \in BOOLEAN
        /\ path \in Seq(Seq(Octet))
        /\ boot \in {"look", "mount", "mounted"}
        /\ List(S, mem, used, Fresh) /\ Fresh \in BOOLEAN
        /\ head = IF S = {} THEN NULL ELSE First
        /\ S = {} => used = 0 /\ Fresh /\ Head(work) \in {"fdata", "obj"}
        /\ boot \in {"mount", "mounted"} => used >= 28
        /\ boot = "mounted" => Geometry(mem)
        /\ loc.len <= 15
    BY <1>0, <1>1, CommandHeap, Zenon
  <1>6. /\ n \in Nat /\ n > 0
        /\ op = "obj" => n = 2
        /\ op \in {"bgdt_tmp", "inode_tmp", "filedata", "dir"} => n = 4
        /\ op \in {"fdata", "read_file", "file_buf"} => n = 1
        /\ op = "tmp" => n = loc.len + 1
    BY <1>3, SizeIs
  <1> HIDE DEF n
  <1>7. PICK T : Granted(S, T, mem, r, n, Fresh)
    <2>1. S = {} => n <= 2 /\ used = 0 /\ Fresh
      BY <1>3, <1>5, <1>6
    <2> QED BY <1>4, <1>5, <1>6, <2>1, MallocGrants
  <1>8. /\ Stores(op) \in Seq(Octet)
        /\ Storable(Len(Stores(op)), r.addr, n)
        /\ op \notin {"lookup_name", "obj"} => Len(Stores(op)) = 0
    BY <1>3, <1>4, StoresType DEF n
  <1>9. /\ mem' \in Memory /\ List(T, mem', used', Fresh)
        /\ ~Fresh /\ Geometry(r.mem) => Geometry(mem')
        /\ \A x \in 20 .. 23 : Byte(mem', x) = Byte(r.mem, x)
        /\ Len(Stores(op)) = 0 => \A x \in Nat : Byte(mem', x) = Byte(r.mem, x)
    <2> DEFINE s == Stores(op)
    <2>1. /\ s \in Seq(Octet)
          /\ Storable(Len(s), r.addr, n)
          /\ mem' = Put(r.mem, r.addr, s)
      BY <1>4, <1>8
    <2> HIDE DEF s
    <2>2. /\ mem' \in Memory /\ List(T, mem', r.used, Fresh)
          /\ ~Fresh /\ Geometry(r.mem) => Geometry(mem')
          /\ \A x \in 20 .. 23 : Byte(mem', x) = Byte(r.mem, x)
          /\ Len(s) = 0 => \A x \in Nat : Byte(mem', x) = Byte(r.mem, x)
      BY <1>5, <1>6, <1>7, <2>1, StoreKeeps
    <2> QED BY <1>4, <2>2 DEF s
  <1>10. /\ T # {} /\ used' \in Nat /\ used <= used' /\ used' <= Total + 3 /\ head' = First
         /\ r.addr \in Nat
         /\ \/ r.addr = NULL /\ (n <= 2 => used' + 2 >= Total)
            \/ Fresh /\ r.addr = First + 6 /\ n <= 2 /\ Word(r.mem, First) = 2
            \/ r.addr = First + 5 /\ n = 1
            \/ /\ r.addr = used' /\ 48 <= r.addr
               /\ \A b \in T : b + 8 + 2 * n <= r.addr
               /\ n >= 2 => \A b \in T : Byte(r.mem, b + 4) = 1 => Fresh /\ b = First
    BY <1>4, <1>7 DEF Granted
  <1>11. boot = "mounted" => Geometry(mem')
    <2> SUFFICES ASSUME boot = "mounted" PROVE Geometry(mem')
      OBVIOUS
    <2>1. Geometry(mem) /\ used >= 28 /\ ~Fresh
      BY <1>5 DEF Fresh
    <2>2. Geometry(r.mem)
      BY <1>5, <1>6, <1>7, <2>1, GrantedKeeps
    <2> QED BY <1>9, <2>1, <2>2
  <1>12. op \in Locals /\ "len" \in Locals /\ "index" \in Locals /\ "lba" \in Locals
         /\ "table" \in Locals
    BY DEF Locals
  <1>13. /\ loc' \in [Locals -> Nat] /\ loc'[op] = r.addr
         /\ \A l \in Locals : l # op => loc'[l] = loc[l]
    BY <1>4, <1>5, <1>10, <1>12
  <1>14. loc'.len = loc.len /\ loc'.index = loc.index /\ loc'.lba = loc.lba
         /\ loc'.table = loc.table /\ loc.len \in Nat
    BY <1>5, <1>12, <1>13 DEF Allocations
  <1>15. boot' = boot /\ (Fresh' <=> Fresh)
    BY <1>1 DEF kmain, Fresh
  <1>16. work' # <<>> => Pair(op, Head(work'))
    BY <1>1, <1>3, DoneOrdered, Zenon
  <1>17. work' \in Seq(Steps) /\ Ordered(work') /\ Named(work', path)
    BY <1>1, DoneOrdered, Zenon
  <1>18. StepAt(T)'
    <2>1. ASSUME op = "obj" PROVE Freeable(T)'
      <3>1. n = 2 /\ loc'.obj = r.addr
        BY <1>6, <1>13, <2>1
      <3>2. Word(mem', First) = Word(r.mem, First)
        <4>1. \A k \in 0 .. 3 : 20 + k \in 20 .. 23
          OBVIOUS
        <4>2. \A k \in 0 .. 3 : Byte(mem', 20 + k) = Byte(r.mem, 20 + k)
          BY <1>9, <4>1
        <4>3. Word(mem', 20) = Word(r.mem, 20)
          BY <4>2, SameWord
        <4> QED BY <4>3, Sizes
      <3>3. \A b \in T : b \in Nat
        BY <1>9 DEF List
      <3> QED BY <1>10, <1>15, <3>1, <3>2, <3>3, Sizes DEF Freeable
    <2>2. ASSUME op = "tmp" PROVE Copyable(T)'
      <3>1. n = loc.len + 1 /\ loc'.tmp = r.addr
        BY <1>6, <1>13, <2>2
      <3>2. \A x \in Nat : Byte(mem', x) = Byte(r.mem, x)
        BY <1>8, <1>9, <2>2
      <3>3. \A b \in T : b \in Nat /\ b + IsFreeAt \in Nat /\ IsFreeAt = 4
        BY <1>9, Sizes DEF List
      <3> QED BY <1>10, <1>14, <1>15, <3>1, <3>2, <3>3, Sizes DEF Copyable
    <2>3. ASSUME op \in {"inode_tmp", "filedata", "dir"} PROVE Newest(T, r.addr)'
      <3>1. n = 4
        BY <1>6, <2>3
      <3>2. \A b \in T : b \in Nat
        BY <1>9 DEF List
      <3> QED BY <1>10, <3>1, <3>2, Sizes DEF Newest
    <2>4. boot' \notin Window /\ loc'.len <= 15
      BY <1>5, <1>14, <1>15 DEF Window
    <2>5. ASSUME work' # <<>>, Head(work') = "free" PROVE Freeable(T)'
      <3>1. op = "obj"
        BY <1>16, <2>5 DEF Pair, Allocations
      <3> QED BY <2>1, <3>1
    <2>6. ASSUME work' # <<>>, Head(work') = "compare" PROVE Copyable(T)'
      <3>1. op = "tmp"
        BY <1>16, <2>6 DEF Pair, Allocations
      <3> QED BY <2>2, <3>1
    <2>7. ASSUME work' # <<>>, Head(work') = "read_inode" PROVE Newest(T, loc.inode_tmp)'
      <3>1. op = "inode_tmp"
        BY <1>16, <2>7 DEF Pair, Allocations
      <3>2. loc'.inode_tmp = r.addr
        BY <1>12, <1>13, <3>1
      <3> QED BY <2>3, <3>1, <3>2 DEF Newest
    <2>8. ASSUME work' # <<>>, Head(work') = "read_data" PROVE Newest(T, loc.filedata)'
      <3>1. op = "filedata"
        BY <1>16, <2>8 DEF Pair, Allocations
      <3>2. loc'.filedata = r.addr
        BY <1>12, <1>13, <3>1
      <3> QED BY <2>3, <3>1, <3>2 DEF Newest
    <2>9. ASSUME work' # <<>>, Head(work') = "read_dir" PROVE Newest(T, loc.dir)'
      <3>1. op = "dir"
        BY <1>16, <2>9 DEF Pair, Allocations
      <3>2. loc'.dir = r.addr
        BY <1>12, <1>13, <3>1
      <3> QED BY <2>3, <3>1, <3>2 DEF Newest
    <2> QED BY <1>10, <2>4, <2>5, <2>6, <2>7, <2>8, <2>9 DEF StepAt
  <1>19. Located'
    <2> SUFFICES ASSUME boot = "mounted", ~missed, ino \in DOMAIN Pointer, work' # <<>>
                 PROVE  Located'
      BY <1>1, <1>15 DEF Located
    <2>1. /\ Head(work') \notin {"bgdt_tmp", "inode_tmp", "filedata", "dir"}
          /\ Head(work') = "parse_bgdt" => op = "bgdt_tmp"
          /\ Head(work') = "read_inode" => op = "inode_tmp"
          /\ Head(work') \in {"read_data", "read_dir"} => op \in {"filedata", "dir"}
      BY <1>16 DEF Pair, Allocations
    <2>2. /\ op = "bgdt_tmp" => loc.lba = 4 /\ loc.index = ino - 1
          /\ op = "inode_tmp" => loc.index = ino - 1 /\ loc.table = Word(Disk[4], 8)
          /\ op \in {"filedata", "dir"} =>
                /\ loc.inode_tmp = used
                /\ loc.index % 4 < 2 => Datablock0 = Pointer[ino]
      BY <1>0, <1>1, <1>3 DEF Reliable, Located
    <2>3. ASSUME op \in {"filedata", "dir"}, loc.index % 4 < 2
          PROVE  Datablock0' = Pointer[ino]
      <3> DEFINE a == InodeInfo + 40
      <3>1. InodeInfo' = InodeInfo
        <4>1. "inode_tmp" \in Locals /\ op # "inode_tmp"
          BY <2>3 DEF Locals, Allocations
        <4>2. loc'.inode_tmp = loc.inode_tmp
          BY <1>13, <4>1
        <4> QED BY <1>14, <4>2 DEF InodeInfo
      <3>2. a \in Nat /\ used + 36 <= a
        <4>1. loc.inode_tmp = used /\ loc.index \in Nat
          BY <1>5, <1>12, <2>2, <2>3
        <4>2. BlockSize \div InodeSize = 4 /\ InodeSize = 256
          BY DEF BlockSize, InodeSize
        <4>3. InodeInfo = used + (loc.index % 4) * 256
          BY <4>1, <4>2 DEF InodeInfo
        <4>4. \A i \in Nat : used + i * 256 + 40 \in Nat /\ used + 36 <= used + i * 256 + 40
          BY <1>5
        <4>5. loc.index % 4 \in Nat
          BY <4>1
        <4>6. used + (loc.index % 4) * 256 + 40 = a
          BY <4>3
        <4> QED
          <5> HIDE DEF a
          <5> QED BY <4>4, <4>5, <4>6, ZenonT(60)
      <3>3. Datablock0 = Word(mem, a) /\ Datablock0' = Word(mem', a)
        BY <3>1 DEF Datablock0
      <3> HIDE DEF a
      <3>4. ASSUME NEW k \in 0 .. 3 PROVE Byte(mem', a + k) = Byte(mem, a + k)
        <4>1. a + k \in Nat /\ used + 36 <= a + k
          BY <1>5, <3>2
        <4>2. Byte(r.mem, a + k) = Byte(mem, a + k)
          <5>1. \A x \in Nat : used + 36 <= x => Byte(r.mem, x) = Byte(mem, x)
            BY <1>5, <1>6, <1>7, GrantedKeeps
          <5> QED BY <4>1, <5>1
        <4>3. Byte(mem', a + k) = Byte(r.mem, a + k)
          BY <1>8, <1>9, <2>3, <4>1
        <4> QED BY <4>2, <4>3
      <3>5. Word(mem', a) = Word(mem, a)
        BY <3>2, <3>4, SameWord
      <3> QED BY <2>2, <2>3, <3>3, <3>5
    <2> QED BY <1>1, <1>14, <2>1, <2>2, <2>3 DEF Located
  <1> QED BY <1>1, <1>5, <1>9, <1>10, <1>11, <1>13, <1>17, <1>18, <1>19, CommandSound

LEMMA CausesGrow == [Next]_vars /\ causes' = {} => causes = {}
  <1> SUFFICES ASSUME [Next]_vars, causes' = {} PROVE causes = {}
    OBVIOUS
  <1>1. CASE KmainStep
    BY <1>1 DEF KmainStep, Look, ReserveHeader, CountHeader, Publish, Finish, Mount
  <1>2. CASE Cat \/ Clear
    BY <1>2 DEF Cat, Clear, Type
  <1>3. CASE CommandStep
    BY <1>3, Zenon DEF CommandStep, Allocate, Free, NextName, Locate, ParseBgdt,
          ReadInodeTable, ReadData, GetData, ReadDirent, Compare, Transfer
  <1>4. CASE UNCHANGED vars
    BY <1>4 DEF vars
  <1> QED BY <1>1, <1>2, <1>3, <1>4 DEF Next

LEMMA StutterSound == ASSUME Sound, UNCHANGED vars PROVE Sound'
  <1>0. PICK S : Reliable(S)
    BY DEF Sound
  <1>1. /\ mem' = mem /\ used' = used /\ head' = head /\ boot' = boot /\ temp' = temp
        /\ at' = at /\ reg' = reg /\ work' = work /\ path' = path /\ ino' = ino
        /\ loc' = loc /\ missed' = missed
    BY DEF vars, heap, kmain, command
  <1>2. Typed' /\ Ordered(work') /\ Named(work', path')
    BY <1>1 DEF Sound, Typed
  <1>3. List(S, mem', used', boot' # "mounted") /\ (boot' = "mounted" => Geometry(mem'))
    BY <1>0, <1>1 DEF Reliable, Fresh
  <1>4. KmainAt(S)'
    <2>1. KmainAt(S)
      BY <1>0 DEF Reliable
    <2> QED BY <1>1, <2>1 DEF KmainAt, KmainAlone, KmainOn
  <1>5. StepAt(S)'
    <2>1. StepAt(S)
      BY <1>0 DEF Reliable
    <2>2. /\ Freeable(S)' <=> Freeable(S)
          /\ Copyable(S)' <=> Copyable(S)
          /\ Newest(S, loc.inode_tmp)' <=> Newest(S, loc.inode_tmp)
          /\ Newest(S, loc.filedata)' <=> Newest(S, loc.filedata)
          /\ Newest(S, loc.dir)' <=> Newest(S, loc.dir)
      BY <1>1 DEF Freeable, Copyable, Newest, Fresh
    <2> QED BY <1>1, <2>1, <2>2 DEF StepAt
  <1>6. Located'
    <2>1. Located
      BY <1>0 DEF Reliable
    <2>2. Datablock0' = Datablock0
      BY <1>1 DEF Datablock0, InodeInfo
    <2> QED BY <1>1, <2>1, <2>2 DEF Located
  <1>7. Reliable(S)'
    BY <1>3, <1>4, <1>5, <1>6 DEF Reliable, Fresh
  <1> QED BY <1>2, <1>7 DEF Sound

LEMMA NextSound == Inv /\ [Next]_vars => Inv'
  <1> SUFFICES ASSUME Inv, [Next]_vars, causes' = {} PROVE Sound'
    BY DEF Inv
  <1>1. Sound
    BY CausesGrow DEF Inv
  <1>2. CASE KmainStep
    BY <1>1, <1>2, LookSound, ReserveHeaderSound, CountHeaderSound, PublishSound,
       FinishSound, MountSound DEF KmainStep
  <1>3. CASE Cat \/ Clear
    BY <1>1, <1>3, CatSound, ClearSound
  <1>4. CASE CommandStep
    <2>1. ~GetData
      BY DEF GetData
    <2> QED BY <1>1, <1>4, <2>1, AllocateSound, FreeSound, NextNameSound, LocateSound,
               ParseBgdtSound, ReadInodeTableSound, ReadDataSound, ReadDirentSound,
               CompareSound DEF CommandStep
  <1>5. CASE UNCHANGED vars
    BY <1>1, <1>5, StutterSound
  <1> QED BY <1>2, <1>3, <1>4, <1>5 DEF Next
-----------------------------------------------------------------------------
(* As long as no cause is recorded, all that the reader relies on holds:   *)
(* the list from the first header on ends and its headers lie far apart,   *)
(* what is free is known, the superblock's fields in memory are the disk's *)
(* (memory.c:336-470, ext2.c:25-141).                                      *)
THEOREM ReaderIsSound == Spec => []Inv
  <1>1. Init => Inv
    BY InitSound DEF Inv
  <1> QED BY <1>1, NextSound, PTL DEF Spec

(* The superblock that is read over the heap's first header is as it is on *)
(* the disk at every step of every command, for every heap, disk and path, *)
(* until something is written that is not the writer's (ext2.c:60-68).     *)
THEOREM SuperblockKept == Spec => [](causes = {} => GeometryIntact)
  <1>1. Inv => (causes = {} => GeometryIntact)
    <2> SUFFICES ASSUME Inv, causes = {}, boot = "mounted", NEW a \in {24, 32, 40}
                 PROVE  Get(mem, a, 4) = SubSeq(Disk[2], a + 1, a + 4)
      BY DEF GeometryIntact
    <2>1. Geometry(mem)
      BY DEF Inv, Sound, Reliable
    <2>2. Get(mem, a, 4) = [k \in 1 .. 4 |-> Disk[2][a + k]]
      <3>1. ASSUME NEW k \in 1 .. 4 PROVE Byte(mem, a + k - 1) = Disk[2][a + k]
        <4>1. /\ a + k - 1 \in (24 .. 27) \cup (32 .. 35) \cup (40 .. 43)
              /\ (a + k - 1) + 1 = a + k
          OBVIOUS
        <4>2. Byte(mem, a + k - 1) = Disk[2][(a + k - 1) + 1]
          BY <2>1, <4>1 DEF Geometry
        <4> QED BY <4>1, <4>2
      <3> QED BY <3>1 DEF Get
    <2>3. SubSeq(Disk[2], a + 1, a + 4) = [k \in 1 .. 4 |-> Disk[2][a + k]]
      <3>1. SubSeq(Disk[2], a + 1, a + 4)
            = [k \in 1 .. 1 + (a + 4) - (a + 1) |-> Disk[2][k + (a + 1) - 1]]
        OBVIOUS
      <3>2. 1 + (a + 4) - (a + 1) = 4 /\ \A k \in 1 .. 4 : k + (a + 1) - 1 = a + k
        OBVIOUS
      <3> QED BY <3>1, <3>2
    <2> QED BY <2>2, <2>3
  <1> QED BY <1>1, ReaderIsSound, PTL

(* Whatever heap and disk there are, a command that reads an inode's data  *)
(* does so through the inode's own first block pointer, although the       *)
(* buffer of the inode's table has four bytes and malloc has written a     *)
(* header into it by then (ext2.c:83-107).                                 *)
THEOREM BlockPointerIsOwn == Spec => []BlockPointerFromDisk
  <1>1. Inv => BlockPointerFromDisk
    <2> SUFFICES ASSUME Inv, boot = "mounted", Calm, Doing("read_data") \/ Doing("read_dir"),
                        ino \in DOMAIN Pointer, loc.index % 4 < 2
                 PROVE  Datablock0 = Pointer[ino]
      BY DEF BlockPointerFromDisk
    <2>1. Located
      BY DEF Inv, Sound, Reliable, Calm
    <2> QED BY <2>1 DEF Located, Calm, Doing
  <1> QED BY <1>1, ReaderIsSound, PTL

(* malloc and free find the end of the list, however large it has become,  *)
(* as long as nothing has been written that is not the writer's            *)
(* (memory.c:384-398, 449-466).                                            *)
THEOREM WalksEnd == Spec => [](causes = {} => ListEnds)
  <1>1. Inv => (causes = {} => ListEnds)
    <2> SUFFICES ASSUME Inv, causes = {}, temp = NULL => boot # "finish"
                 PROVE  Ends(mem, head)
      BY DEF ListEnds
    <2>1. PICK S : Reliable(S)
      BY DEF Inv, Sound
    <2>2. mem \in Memory /\ List(S, mem, used, Fresh) /\ KmainAt(S)
      BY <2>1 DEF Inv, Sound, Typed, Reliable
    <2>3. head = IF S = {} THEN NULL ELSE First
      BY <2>2 DEF KmainAt, KmainAlone, KmainOn
    <2>4. EndFound(mem, Headers(mem, head))
      BY <2>2, <2>3, ListWalk
    <2> QED BY <2>4 DEF Ends
  <1> QED BY <1>1, ReaderIsSound, PTL
=============================================================================
