----------------------------- MODULE IdeProofs ------------------------------
(***************************************************************************)
(* Theorems about Ide, for every machine, every request and registers of   *)
(* every width.                                                            *)
(*                                                                         *)
(* The driver never sends a command that a drive would ignore.  This is    *)
(* not inductive: IInv says, for each place of the driver, what the drive  *)
(* it talks to can be doing, how many sectors of the command are left on   *)
(* both sides, and that every other drive rests.  A packet drive may still *)
(* have its identification to pass on when the driver has gone on; no      *)
(* access ever reaches it.                                                 *)
(***************************************************************************)
EXTENDS Ide, TLAPS
-----------------------------------------------------------------------------
(* What the driver puts into a drive's registers is what the drive takes   *)
(* from them, for registers of every width and every geometry.             *)

LEMMA Widths ==
    /\ Byte \in Nat \ {0} /\ Nibble \in Nat \ {0}
    /\ Spt \in Nat \ {0} /\ Heads \in Nat \ {0}
    /\ Page \in Nat \ {0} /\ Byte * Byte \in Nat \ {0}
    /\ Page = Byte * (Byte * Byte) /\ LbaLimit = Page * Nibble
  <1>1. /\ Byte \in Nat \ {0} /\ Nibble \in Nat \ {0}
        /\ Spt \in Nat \ {0} /\ Heads \in Nat \ {0}
    BY IdeAssumption
  <1> QED BY <1>1 DEF Page, LbaLimit

LEMMA DivMod ==
    ASSUME NEW a \in Nat, NEW b \in Nat \ {0}
    PROVE  /\ a = b * (a \div b) + (a % b)
           /\ a \div b \in Nat /\ (a % b) \in 0 .. b - 1
  OBVIOUS

LEMMA Below ==
    ASSUME NEW b \in Nat \ {0}, NEW c \in Nat, NEW q \in Nat, c < q
    PROVE  b * c + b <= b * q
  <1>1. c + 1 <= q
    OBVIOUS
  <1>2. b * (c + 1) <= b * q
    BY <1>1
  <1> QED BY <1>2

LEMMA Unique ==
    ASSUME NEW a \in Nat, NEW b \in Nat \ {0}, NEW c \in Nat, NEW r \in 0 .. b - 1,
           a = b * c + r
    PROVE  a \div b = c /\ (a % b) = r
  <1> DEFINE q == a \div b
             m == a % b
  <1>1. a = b * q + m /\ q \in Nat /\ m \in 0 .. b - 1
    BY DivMod
  <1> HIDE DEF q, m
  <1>2. CASE c < q
    BY <1>1, <1>2, Below
  <1>3. CASE q < c
    BY <1>1, <1>3, Below
  <1>4. CASE c = q
    BY <1>1, <1>4
  <1> QED BY <1>1, <1>2, <1>3, <1>4 DEF q, m

(* b groups of c are b * c: what is left in a group stays below it. *)
LEMMA Grouped ==
    ASSUME NEW b \in Nat \ {0}, NEW c \in Nat \ {0},
           NEW n \in 0 .. c - 1, NEW m \in 0 .. b - 1
    PROVE  b * n + m \in 0 .. b * c - 1 /\ b * c \in Nat \ {0}
  <1>1. b * n + b <= b * c
    BY Below
  <1>2. b * n \in Nat /\ b * c \in Nat
    OBVIOUS
  <1> QED BY <1>1, <1>2

LEMMA DivDiv ==
    ASSUME NEW a \in Nat, NEW b \in Nat \ {0}, NEW c \in Nat \ {0}
    PROVE  a \div (b * c) = (a \div b) \div c
  <1> DEFINE q == a \div b
             m == a % b
             p == q \div c
             n == q % c
  <1>1. a = b * q + m /\ q \in Nat /\ m \in 0 .. b - 1
    BY DivMod
  <1> HIDE DEF q, m
  <1>2. q = c * p + n /\ p \in Nat /\ n \in 0 .. c - 1
    BY <1>1, DivMod
  <1> HIDE DEF p, n
  <1>3. b * n + m \in 0 .. b * c - 1 /\ b * c \in Nat \ {0}
    BY <1>1, <1>2, Grouped
  <1>4. a = b * (c * p + n) + m
    BY <1>1, <1>2
  <1>5. a = (b * c) * p + (b * n + m)
    BY <1>4, <1>1, <1>2
  <1>6. a \div (b * c) = p
    BY <1>2, <1>3, <1>5, Unique
  <1> QED BY <1>6 DEF p, q

LEMMA DivBelow ==
    ASSUME NEW a \in Nat, NEW b \in Nat \ {0}, NEW c \in Nat \ {0}, a < b * c
    PROVE  a \div b < c /\ (a \div b) % c = a \div b
  <1> DEFINE q == a \div b
  <1>1. a = b * q + (a % b) /\ q \in Nat /\ (a % b) \in 0 .. b - 1
    BY DivMod
  <1> HIDE DEF q
  <1>2. q < c
    <2>1. CASE c <= q
      <3>1. b * c <= b * q
        BY <2>1, <1>1
      <3> QED BY <3>1, <1>1
    <2> QED BY <2>1, <1>1
  <1>3. q % c = q
    BY <1>1, <1>2
  <1> QED BY <1>2, <1>3 DEF q

LEMMA ThreeDigits ==
    ASSUME NEW b \in Int, NEW d0 \in Int, NEW d1 \in Int, NEW d2 \in Int, NEW q \in Int
    PROVE  b * (b * (b * q + d2) + d1) + d0 = q * (b * b * b) + d2 * b * b + d1 * b + d0
  OBVIOUS

(* An address in its three low bytes and what is above them. *)
LEMMA Digits ==
    ASSUME NEW lba \in Nat
    PROVE  /\ \A k \in 0 .. 3 : ByteOf(lba, k) \in Nat
           /\ lba \div Page \in Nat
           /\ lba = (lba \div Page) * Page + ByteOf(lba, 2) * Byte * Byte
                      + ByteOf(lba, 1) * Byte + ByteOf(lba, 0)
  <1> DEFINE q1 == lba \div Byte
             q2 == q1 \div Byte
             q3 == q2 \div Byte
             d0 == lba % Byte
             d1 == q1 % Byte
             d2 == q2 % Byte
  <1>1. lba = Byte * q1 + d0 /\ q1 \in Nat /\ d0 \in Nat
    BY Widths, DivMod
  <1>2. q1 = Byte * q2 + d1 /\ q2 \in Nat /\ d1 \in Nat
    BY Widths, DivMod, <1>1
  <1> HIDE DEF q1, q2
  <1>3. q2 = Byte * q3 + d2 /\ q3 \in Nat /\ d2 \in Nat
    <2>1. q2 \in Nat
      BY <1>2
    <2>2. Byte \in Nat \ {0}
      BY Widths
    <2> QED BY <2>1, <2>2, DivMod
  <1>4. lba \div (Byte * Byte) = q2
    BY Widths, DivDiv DEF q1, q2
  <1>5. lba \div Page = q3
    <2>1. lba \div Page = q1 \div (Byte * Byte)
      BY Widths, DivDiv DEF q1
    <2>2. q1 \in Nat
      BY <1>1
    <2>3. Byte \in Nat \ {0}
      BY Widths
    <2>4. q1 \div (Byte * Byte) = (q1 \div Byte) \div Byte
      BY <2>2, <2>3, DivDiv
    <2> QED BY <2>1, <2>4 DEF q2
  <1>6. ByteOf(lba, 0) = d0 /\ ByteOf(lba, 1) = d1 /\ ByteOf(lba, 2) = d2
    BY <1>4 DEF ByteOf, q1
  <1>7. ByteOf(lba, 3) \in Nat
    <2>1. ByteOf(lba, 3) = q3 % Byte
      BY <1>5 DEF ByteOf
    <2>2. q3 \in Nat
      BY <1>3
    <2>3. Byte \in Nat \ {0}
      BY Widths
    <2>4. q3 % Byte \in 0 .. Byte - 1
      BY <2>2, <2>3, DivMod
    <2> QED BY <2>1, <2>4
  <1> HIDE DEF q3, d0, d1, d2
  <1>8. lba = Byte * (Byte * (Byte * q3 + d2) + d1) + d0
    BY <1>1, <1>2, <1>3
  <1>9. lba = q3 * (Byte * Byte * Byte) + d2 * Byte * Byte + d1 * Byte + d0
    <2>1. /\ Byte \in Int /\ q3 \in Int /\ d0 \in Int /\ d1 \in Int /\ d2 \in Int
      BY <1>1, <1>2, <1>3, Widths
    <2>2. Byte * (Byte * (Byte * q3 + d2) + d1) + d0 =
            q3 * (Byte * Byte * Byte) + d2 * Byte * Byte + d1 * Byte + d0
      BY <2>1, ThreeDigits
    <2> QED BY <1>8, <2>2
  <1>10. \A k \in 0 .. 3 : ByteOf(lba, k) \in Nat
    <2>1. \A k \in 0 .. 3 : k = 0 \/ k = 1 \/ k = 2 \/ k = 3
      OBVIOUS
    <2> QED BY <1>1, <1>2, <1>3, <1>6, <1>7, <2>1
  <1> QED BY <1>3, <1>5, <1>6, <1>9, <1>10 DEF Page

(* LBA28 and LBA48. *)
LEMMA LbaAddressed ==
    ASSUME NEW lba \in Nat, NEW mode \in {"lba28", "lba48"},
           mode = "lba28" => lba < LbaLimit,
           mode = "lba48" => lba < Page * Byte
    PROVE  Addressed(mode, Registers(mode, lba)) = lba
  <1> DEFINE r == Registers(mode, lba)
             q == lba \div Page
  <1>1. r.io[0] = ByteOf(lba, 0) /\ r.io[1] = ByteOf(lba, 1) /\ r.io[2] = ByteOf(lba, 2)
    BY DEF Registers
  <1>2. CASE mode = "lba28"
    <2>1. r.head = q % Nibble
      BY <1>2 DEF Registers
    <2>2. q % Nibble = q
      BY <1>2, Widths, DivBelow
    <2> HIDE DEF r
    <2>3. Addressed(mode, r) = q * Page + ByteOf(lba, 2) * Byte * Byte
                                 + ByteOf(lba, 1) * Byte + ByteOf(lba, 0)
      BY <1>1, <1>2, <2>1, <2>2 DEF Addressed
    <2> QED BY <2>3, Digits DEF r
  <1>3. CASE mode = "lba48"
    <2>1. r.io[3] = q % Byte
      BY <1>3 DEF Registers, ByteOf
    <2>2. q % Byte = q
      BY <1>3, Widths, DivBelow
    <2> HIDE DEF r
    <2>3. Addressed(mode, r) = q * Page + ByteOf(lba, 2) * Byte * Byte
                                 + ByteOf(lba, 1) * Byte + ByteOf(lba, 0)
      BY <1>1, <1>3, <2>1, <2>2 DEF Addressed
    <2> QED BY <2>3, Digits DEF r
  <1> QED BY <1>2, <1>3

(* Cylinder, head and sector of an address. *)
LEMMA Geometry ==
    ASSUME NEW lba \in Nat
    PROVE  LET track == lba - (lba % Spt)
               c == track \div (Heads * Spt)
               h == (track % (Heads * Spt)) \div Spt
           IN  /\ c = lba \div (Heads * Spt)
               /\ c \in Nat /\ h \in Nat /\ lba % Spt \in Nat
               /\ lba = (c * Heads + h) * Spt + (lba % Spt)
  <1> DEFINE q == lba \div Spt
             m == lba % Spt
             c == q \div Heads
             h == q % Heads
  <1>1. lba = Spt * q + m /\ q \in Nat /\ m \in 0 .. Spt - 1
    BY Widths, DivMod
  <1> HIDE DEF q, m
  <1>2. q = Heads * c + h /\ c \in Nat /\ h \in 0 .. Heads - 1
    BY <1>1, Widths, DivMod
  <1> HIDE DEF c, h
  <1>3. Spt * h + 0 \in 0 .. Spt * Heads - 1 /\ Spt * Heads \in Nat \ {0}
    <2>1. 0 \in 0 .. Spt - 1 /\ Spt \in Nat \ {0} /\ Heads \in Nat \ {0}
      BY Widths
    <2> QED BY <2>1, <1>2, Grouped
  <1>4. lba - m = (Spt * Heads) * c + Spt * h
    <2>1. lba - m = Spt * (Heads * c + h)
      BY <1>1, <1>2, Widths
    <2> QED BY <2>1, <1>2, Widths
  <1>5. lba - m \in Nat /\ Spt * h \in 0 .. Spt * Heads - 1
    BY <1>1, <1>2, <1>3, Widths
  <1>6. (lba - m) \div (Spt * Heads) = c /\ ((lba - m) % (Spt * Heads)) = Spt * h
    BY <1>2, <1>3, <1>4, <1>5, Unique
  <1>7. (Spt * h) \div Spt = h
    <2>1. Spt * h = Spt * h + 0 /\ 0 \in 0 .. Spt - 1 /\ Spt * h \in Nat /\ h \in Nat
      BY <1>2, Widths
    <2> QED BY <2>1, Widths, Unique
  <1>8. Spt * Heads = Heads * Spt
    BY Widths
  <1>9. lba \div (Heads * Spt) = c
    <2>1. lba \div (Spt * Heads) = q \div Heads
      BY Widths, DivDiv DEF q
    <2> QED BY <2>1, <1>8 DEF c
  <1>10. lba = (c * Heads + h) * Spt + m
    BY <1>1, <1>2, Widths
  <1>11. h \in Nat /\ m \in Nat
    BY <1>1, <1>2
  <1> QED BY <1>2, <1>6, <1>7, <1>8, <1>9, <1>10, <1>11 DEF m

(* CHS, on a drive whose cylinders fit into sixteen bits. *)
LEMMA ChsAddressed ==
    ASSUME NEW lba \in Nat, lba < (Heads * Spt) * (Byte * Byte)
    PROVE  Addressed("chs", Registers("chs", lba)) = lba
  <1> DEFINE r == Registers("chs", lba)
             m == lba % Spt
             c == (lba - m) \div (Heads * Spt)
             h == ((lba - m) % (Heads * Spt)) \div Spt
  <1>1. /\ c = lba \div (Heads * Spt)
        /\ c \in Nat /\ h \in Nat /\ m \in Nat
        /\ lba = (c * Heads + h) * Spt + m
    BY Geometry
  <1>2. c % (Byte * Byte) = c
    <2>1. Heads * Spt \in Nat \ {0}
      BY Widths
    <2> QED BY <2>1, <1>1, Widths, DivBelow
  <1>3. lba + 1 - (m + 1) = lba - m
    BY <1>1
  <1>4. /\ r.io[0] = m + 1
        /\ r.io[1] = c % Byte /\ r.io[2] = c \div Byte
        /\ r.head = h
    BY <1>2, <1>3 DEF Registers
  <1> HIDE DEF r, m, c, h
  <1>5. /\ c = Byte * (c \div Byte) + (c % Byte)
        /\ c \div Byte \in Nat /\ (c % Byte) \in 0 .. Byte - 1
    BY <1>1, Widths, DivMod
  <1>6. (c \div Byte) * Byte + (c % Byte) = c
    BY <1>5, Widths
  <1>7. Addressed("chs", r) = (((c \div Byte) * Byte + (c % Byte)) * Heads + h) * Spt + (m + 1) - 1
    BY <1>4 DEF Addressed
  <1>8. (c * Heads + h) * Spt \in Int /\ m \in Int
    BY <1>1, Widths
  <1>9. Addressed("chs", r) = (c * Heads + h) * Spt + m
    BY <1>6, <1>7, <1>8
  <1> QED BY <1>1, <1>9 DEF r

(* Whatever the registers hold names some sector. *)
LEMMA AddressIsInt ==
    ASSUME NEW lba \in Nat, NEW mode \in {"chs", "lba28", "lba48"}
    PROVE  Addressed(mode, Registers(mode, lba)) \in Int
  <1> DEFINE r == Registers(mode, lba)
  <1>1. /\ r.io[0] \in Int /\ r.io[1] \in Int /\ r.io[2] \in Int
        /\ r.io[3] \in Int /\ r.head \in Int
    <2>1. CASE mode = "chs"
      <3> DEFINE m == lba % Spt
                 c == (lba - m) \div (Heads * Spt)
                 h == ((lba - m) % (Heads * Spt)) \div Spt
                 cyl == c % (Byte * Byte)
      <3>1. c \in Nat /\ h \in Nat /\ m \in Nat
        BY Geometry
      <3>2. Byte \in Nat \ {0} /\ Byte * Byte \in Nat \ {0}
        BY Widths
      <3>3. cyl \in 0 .. Byte * Byte - 1
        <4> HIDE DEF c
        <4> QED BY <3>1, <3>2, DivMod
      <3>4. lba + 1 - (m + 1) = lba - m
        BY <3>1
      <3>5. /\ r.io[0] = m + 1 /\ r.io[1] = cyl % Byte /\ r.io[2] = cyl \div Byte
            /\ r.io[3] = 0 /\ r.head = h
        BY <2>1, <3>4 DEF Registers
      <3> HIDE DEF r, m, c, h, cyl
      <3>6. cyl \in Nat
        BY <3>2, <3>3
      <3>7. (cyl % Byte) \in 0 .. Byte - 1 /\ cyl \div Byte \in Nat
        BY <3>2, <3>6, DivMod
      <3>8. (cyl % Byte) \in Int
        BY <3>7
      <3> QED BY <3>1, <3>5, <3>7, <3>8
    <2>2. CASE mode # "chs"
      <3>1. lba \div Page \in Nat /\ Nibble \in Nat \ {0}
        BY Digits, Widths
      <3>2. ((lba \div Page) % Nibble) \in 0 .. Nibble - 1
        BY <3>1, DivMod
      <3>3. ((lba \div Page) % Nibble) \in Int
        BY <3>2
      <3>4. /\ r.io[0] = ByteOf(lba, 0) /\ r.io[1] = ByteOf(lba, 1) /\ r.io[2] = ByteOf(lba, 2)
            /\ r.io[3] = 0 \/ r.io[3] = ByteOf(lba, 3)
            /\ r.head = 0 \/ r.head = ((lba \div Page) % Nibble)
        BY <2>2 DEF Registers
      <3> HIDE DEF r
      <3>5. /\ ByteOf(lba, 0) \in Int /\ ByteOf(lba, 1) \in Int
            /\ ByteOf(lba, 2) \in Int /\ ByteOf(lba, 3) \in Int
        BY Digits
      <3> QED BY <3>3, <3>4, <3>5
    <2> QED BY <2>1, <2>2
  <1>2. Byte \in Int /\ Page \in Int /\ Heads \in Int /\ Spt \in Int
    BY Widths
  <1> HIDE DEF r
  <1>3. Addressed(mode, r) \in Int
    BY <1>1, <1>2 DEF Addressed
  <1> QED BY <1>3 DEF r

(* The registers name the sector they were made from, in the mode that the *)
(* driver chooses: below the 28-bit limit by LBA28, or by CHS where the    *)
(* cylinder fits into its two registers, and from the limit on by LBA48.   *)
THEOREM RegistersNameSector ==
    ASSUME NEW lba \in Nat, lba < Page * Byte,
           NEW d, lba >= LbaLimit \/ d.lba \/ lba < (Heads * Spt) * (Byte * Byte)
    PROVE  LET mode == Mode(d, lba) IN Addressed(mode, Registers(mode, lba)) = lba
  <1>1. CASE lba >= LbaLimit
    BY <1>1, LbaAddressed DEF Mode
  <1>2. CASE lba < LbaLimit /\ d.lba
    <2>1. Mode(d, lba) = "lba28"
      BY <1>2, Widths DEF Mode
    <2> QED BY <1>2, <2>1, LbaAddressed
  <1>3. CASE lba < LbaLimit /\ ~d.lba
    <2>1. Mode(d, lba) = "chs" /\ ~(lba >= LbaLimit)
      BY <1>3, Widths DEF Mode
    <2> QED BY <1>3, <2>1, ChsAddressed
  <1>4. lba \in Int /\ LbaLimit \in Int
    BY Widths
  <1> QED BY <1>1, <1>2, <1>3, <1>4
-----------------------------------------------------------------------------
(* The invariant of the driver and its drives. *)

StatusBits == {"BSY", "DRQ", "ERR", "DF"}
Ops == {"none", "identify", "packet", "read", "write", "store", "flush"}
State == [status : SUBSET StatusBits, op : Ops, addr : Int, left : Int, from : Int,
          end : Int]
Drives == [kind : Kinds, lba : BOOLEAN, size : Nat]
Entries == [slot : Slot, atapi : BOOLEAN, lba : BOOLEAN, size : Nat]
Places == {"select", "identify", "space", "idle", "wait", "poll", "send",
           "flush", "sync"}

Typed ==
    /\ drives \in Machines /\ drives \in [Slot -> Drives]
    /\ dev \in [Slot -> State]
    /\ selected \in [{0, 1} -> Slot]
    /\ pc \in Places /\ slot \in Slot
    /\ table \in Seq(Entries)
    /\ req \in [drive : Nat, dir : {"read", "write"}, lba : Nat, n : Nat]
    /\ done \in Nat /\ ret \in Int
-----------------------------------------------------------------------------
LEMMA StateFields ==
    ASSUME NEW d \in State
    PROVE  /\ d.status \subseteq StatusBits /\ d.op \in Ops
           /\ d.addr \in Int /\ d.left \in Int /\ d.from \in Int /\ d.end \in Int
  BY DEF State

LEMMA BusyState ==
    ASSUME NEW op \in Ops, NEW a \in Int, NEW n \in Int, NEW f \in Int,
           NEW z \in Int
    PROVE  LET d == Busy(op, a, n, f, z)
           IN  /\ d \in State /\ d.status = {"BSY"} /\ d.op = op
               /\ d.addr = a /\ d.left = n /\ d.from = f /\ d.end = z
  BY DEF State, StatusBits, Busy

LEMMA RestingState ==
    ASSUME NEW f \in SUBSET StatusBits
    PROVE  Resting(f) \in State /\ Resting(f).status = f
  BY DEF State, Ops, Resting

(* What an update does to the state of the drives. *)
LEMMA OneDrive ==
    ASSUME Typed, NEW s \in Slot, NEW d \in State, dev' = [dev EXCEPT ![s] = d]
    PROVE  /\ dev' \in [Slot -> State] /\ dev'[s] = d
           /\ \A t \in Slot : t # s => dev'[t] = dev[t]
  BY DEF Typed

LEMMA StatusEffect ==
    ASSUME Typed, NEW s \in Slot, NEW f \in SUBSET StatusBits,
           dev' = [dev EXCEPT ![s].status = f]
    PROVE  /\ dev' \in [Slot -> State]
           /\ dev'[s].status = f /\ dev'[s].op = dev[s].op
           /\ dev'[s].addr = dev[s].addr /\ dev'[s].left = dev[s].left
           /\ dev'[s].from = dev[s].from /\ dev'[s].end = dev[s].end
           /\ \A t \in Slot : t # s => dev'[t] = dev[t]
  <1> DEFINE d == [dev[s] EXCEPT !.status = f]
  <1>1. dev[s] \in State
    BY DEF Typed
  <1>2. /\ d \in State /\ d.status = f /\ d.op = dev[s].op /\ d.addr = dev[s].addr
        /\ d.left = dev[s].left /\ d.from = dev[s].from /\ d.end = dev[s].end
    BY <1>1 DEF State
  <1>3. dev' = [dev EXCEPT ![s] = d]
    OBVIOUS
  <1> HIDE DEF d
  <1> QED BY <1>2, <1>3, OneDrive

LEMMA CommandEffect ==
    ASSUME Typed, NEW s \in Slot, NEW op \in Ops, NEW a \in Int, NEW n \in Int,
           NEW z \in Int, Command(s, op, a, n, z)
    PROVE  IF Accepts(s) /\ drives[s].kind # "none"
           THEN /\ dev' \in [Slot -> State]
                /\ dev'[s].status = {"BSY"} /\ dev'[s].op = op
                /\ dev'[s].addr = a /\ dev'[s].left = n /\ dev'[s].end = z
                /\ \A t \in Slot : t # s => dev'[t] = dev[t]
           ELSE dev' = dev
  <1> DEFINE d == Busy(op, a, n, 0, z)
  <1>1. /\ d \in State /\ d.status = {"BSY"} /\ d.op = op
        /\ d.addr = a /\ d.left = n /\ d.end = z
    BY DEF State, StatusBits, Busy
  <1>2. dev' = IF Accepts(s) /\ drives[s].kind # "none"
               THEN [dev EXCEPT ![s] = d] ELSE dev
    BY DEF Command
  <1> HIDE DEF d
  <1>3. CASE Accepts(s) /\ drives[s].kind # "none"
    BY <1>1, <1>2, <1>3, OneDrive
  <1> QED BY <1>2, <1>3

LEMMA EndsEffect ==
    ASSUME Typed, NEW s \in Slot, NEW f \in SUBSET StatusBits, Ends(s, f)
    PROVE  /\ dev' \in [Slot -> State] /\ dev'[s].status = f
           /\ \A t \in Slot : t # s => dev'[t] = dev[t]
  BY RestingState, OneDrive DEF Ends
-----------------------------------------------------------------------------
(* What each drive can be doing at each place of the driver. *)

Kind(s) == drives[s].kind

(* A packet drive that still has its identification to pass on.  No access *)
(* ever reaches it.                                                        *)
Parked(s) == Kind(s) = "atapi" /\ dev[s].op = "packet"
Rests(s) == Accepts(s) \/ Parked(s)
Fresh(s) == dev[s].status = {}

Identifying(s) ==
    \/ dev[s].status = {"BSY"} /\ dev[s].op = "identify" /\ Kind(s) # "none"
    \/ dev[s].status = {"DRQ"} /\ Kind(s) = "ata"
    \/ dev[s].status = {"ERR"} /\ Kind(s) \in {"atapi", "other"}

Offering(s) ==
    \/ dev[s].status = {"DRQ"} /\ Kind(s) = "ata"
    \/ Parked(s)

Working(s, op, left) ==
    /\ dev[s].op = op /\ dev[s].left = left
    /\ dev[s].status = {"BSY"} \/ dev[s].status = {"DRQ"}

Storing(s, left) ==
    dev[s].op = "store" /\ dev[s].left = left /\ dev[s].status = {"BSY"}

Moving == pc \in {"wait", "poll", "send", "flush", "sync"}

Active(s) ==
    \/ pc = "poll" /\ Working(s, "read", req.n - done)
    \/ pc = "send" /\ Working(s, "write", req.n - done)
    \/ pc = "send" /\ Storing(s, req.n - done + 1)
    \/ pc \in {"flush", "sync"} /\ Storing(s, 1)
    \/ pc = "sync" /\ dev[s].op = "flush" /\ dev[s].status = {"BSY"}

StatusInv ==
    \A s \in Slot : dev[s].status \in {{}, {"BSY"}, {"DRQ"}, {"ERR"}, {"DF"}}

DrivesInv ==
    \A s \in Slot :
      /\ ~Probed /\ s < slot => Rests(s)
      /\ ~Probed /\ s > slot => Fresh(s)
      /\ pc = "select" => Fresh(slot)
      /\ pc = "identify" => Identifying(slot)
      /\ pc = "space" => Offering(slot)
      /\ Probed => Rests(s) \/ (Moving /\ s = Target /\ Active(s))

TableInv ==
    /\ \A k \in DOMAIN table :
         /\ Kind(table[k].slot) = IF table[k].atapi THEN "atapi" ELSE "ata"
         /\ table[k].slot >= k - 1
         /\ ~Probed => table[k].slot < slot
    /\ \A j, k \in DOMAIN table : j < k => table[j].slot < table[k].slot
    /\ \A s \in Slot :
         (Probed \/ s < slot) /\ Kind(s) \in {"ata", "atapi"} =>
           \E k \in DOMAIN table : table[k].slot = s

RequestInv ==
    Moving => /\ Present(req.drive) /\ ~table[req.drive + 1].atapi
              /\ pc = "wait" => done = 0
              /\ pc \in {"wait", "poll", "send"} => done < req.n

IInv == Typed /\ StatusInv /\ DrivesInv /\ TableInv /\ RequestInv
-----------------------------------------------------------------------------
LEMMA InvInit == Init => IInv
  <1> SUFFICES ASSUME Init PROVE IInv
    OBVIOUS
  <1>1. drives \in [Slot -> Drives]
    BY IdeAssumption DEF Init, Drives
  <1>2. \A s \in Slot : dev[s] = Resting({}) /\ dev[s].status = {}
    BY RestingState DEF Init
  <1>3. dev \in [Slot -> State]
    BY <1>2, RestingState DEF Init
  <1>4. Typed
    BY <1>1, <1>3 DEF Init, Typed, NoReq, Places, Slot
  <1>5. StatusInv
    BY <1>2 DEF StatusInv
  <1>6. DrivesInv
    BY <1>2 DEF Init, DrivesInv, Fresh, Probed, Slot
  <1>7. TableInv /\ RequestInv
    BY DEF Init, TableInv, RequestInv, Probed, Moving, Slot
  <1> QED BY <1>4, <1>5, <1>6, <1>7 DEF IInv

LEMMA SlotFacts ==
    ASSUME Typed
    PROVE  /\ slot \in Slot /\ slot \in Int
           /\ \A s \in Slot : s \in Int /\ dev[s] \in State /\ drives[s] \in Drives
           /\ table \in Seq(Entries) /\ Len(table) \in Nat
           /\ DOMAIN table = 1 .. Len(table)
           /\ \A k \in DOMAIN table : /\ table[k].slot \in Slot
                                      /\ table[k].atapi \in BOOLEAN
  <1>1. \A k \in 1 .. Len(table) : table[k] \in Entries
    BY DEF Typed
  <1>2. \A k \in 1 .. Len(table) : table[k].slot \in Slot /\ table[k].atapi \in BOOLEAN
    BY <1>1 DEF Entries
  <1>3. \A s \in Slot : s \in Int
    BY DEF Slot
  <1> QED BY <1>2, <1>3 DEF Typed

LEMMA RequestFacts ==
    ASSUME Typed
    PROVE  /\ req.drive \in Nat /\ req.lba \in Nat /\ req.n \in Nat
           /\ req.dir \in {"read", "write"} /\ done \in Nat
  BY DEF Typed

LEMMA TargetFacts ==
    ASSUME IInv, Moving
    PROVE  Target \in Slot /\ Kind(Target) = "ata" /\ req.drive + 1 \in DOMAIN table
  <1>1. req.drive + 1 \in DOMAIN table /\ ~table[req.drive + 1].atapi
    BY DEF IInv, RequestInv, Present
  <1>2. Kind(table[req.drive + 1].slot) = "ata"
    BY <1>1 DEF IInv, TableInv
  <1> QED BY <1>1, <1>2, SlotFacts DEF IInv, Target

(* A drive that does not move keeps what is said of it. *)
LEMMA Unmoved ==
    ASSUME NEW s \in Slot, UNCHANGED drives, dev'[s] = dev[s]
    PROVE  /\ Rests(s) => Rests(s)'
           /\ Fresh(s) => Fresh(s)'
           /\ Identifying(s) => Identifying(s)'
           /\ Offering(s) => Offering(s)'
           /\ Accepts(s) => Accepts(s)'
           /\ Kind(s)' = Kind(s)
  BY DEF Rests, Accepts, Has, Parked, Kind, Fresh, Identifying, Offering

(* The probe goes on with the next slot, or is over. *)
LEMMA NextSlotFacts ==
    ASSUME NextSlot, pc \in {"select", "space", "identify"}, slot \in Slot
    PROVE  /\ pc' \in {"select", "idle"} /\ slot' \in Slot /\ slot' \in Int
           /\ pc' = "select" => slot' = slot + 1 /\ ~Probed'
           /\ pc' = "idle" => slot' = slot /\ slot = 3 /\ Probed'
           /\ ~Moving' /\ ~Probed
  BY DEF NextSlot, Slot, Probed, Moving

(* A slot's probe is over: its drive rests and the others are as they were. *)
LEMMA SlotDone ==
    ASSUME IInv, NextSlot, pc \in {"select", "space", "identify"},
           UNCHANGED drives,
           \A t \in Slot : t # slot => dev'[t] = dev[t],
           \A s \in Slot : s = slot => Rests(s)'
    PROVE  DrivesInv'
  <1>0. slot \in Slot /\ ~Probed
    BY SlotFacts DEF IInv, Probed
  <1>1. \A s \in Slot : s < slot => Rests(s)'
    BY <1>0, Unmoved DEF IInv, DrivesInv, Slot
  <1>2. \A s \in Slot : s > slot => Fresh(s)'
    BY <1>0, Unmoved DEF IInv, DrivesInv, Slot
  <1>3. CASE pc' = "select"
    <2>1. slot' = slot + 1 /\ slot' \in Slot /\ ~Probed'
      BY <1>0, <1>3, NextSlotFacts
    <2>2. \A s \in Slot : s < slot' => s < slot \/ s = slot
      BY <1>0, <2>1 DEF Slot
    <2>3. \A s \in Slot : s > slot' => s > slot
      BY <1>0, <2>1 DEF Slot
    <2>4. dev'[slot'].status = {}
      BY <1>0, <1>2, <2>1 DEF Slot, Fresh
    <2>5. \A s \in Slot : (s < slot' => Rests(s)') /\ (s > slot' => Fresh(s)')
      BY <1>1, <1>2, <2>2, <2>3
    <2>6. Fresh(slot)'
      BY <2>4 DEF Fresh
    <2> QED BY <2>1, <2>5, <2>6, <1>3 DEF DrivesInv
  <1>4. CASE pc' = "idle"
    <2>1. slot = 3 /\ Probed'
      BY <1>0, <1>4, NextSlotFacts
    <2>2. \A s \in Slot : s < slot \/ s = slot
      BY <2>1 DEF Slot
    <2>3. \A s \in Slot : Rests(s)'
      BY <1>1, <2>2
    <2> QED BY <2>1, <2>3, <1>4 DEF DrivesInv
  <1> QED BY <1>0, <1>3, <1>4, NextSlotFacts

LEMMA SlotSkipped ==
    ASSUME IInv, NextSlot, pc \in {"select", "space", "identify"},
           UNCHANGED <<drives, table>>, Kind(slot) \notin {"ata", "atapi"}
    PROVE  TableInv'
  <1>0. slot \in Slot /\ ~Probed
    BY SlotFacts DEF IInv, Probed
  <1>1. /\ slot' \in Slot /\ slot' >= slot
        /\ ~Probed' => slot' = slot + 1
        /\ Probed' => slot = 3
    BY <1>0, NextSlotFacts DEF Slot
  <1>2. \A k \in DOMAIN table : table[k].slot \in Slot /\ table[k].slot < slot
    BY <1>0, SlotFacts DEF IInv, TableInv
  <1>3. \A s \in Slot : Probed' \/ s < slot' => s < slot \/ s = slot
    BY <1>0, <1>1 DEF Slot
  <1>4. \A k \in DOMAIN table : ~Probed' => table[k].slot < slot'
    BY <1>0, <1>1, <1>2 DEF Slot
  <1>5. \A s \in Slot : (Probed' \/ s < slot') /\ Kind(s) \in {"ata", "atapi"} =>
          \E k \in DOMAIN table : table[k].slot = s
    BY <1>0, <1>3 DEF IInv, TableInv
  <1> QED BY <1>0, <1>4, <1>5 DEF IInv, TableInv, Kind

LEMMA SelectedTyped ==
    ASSUME Typed, NEW s \in Slot, selected' = [selected EXCEPT ![Channel(s)] = s]
    PROVE  selected' \in [{0, 1} -> Slot]
  BY DEF Typed

LEMMA ProbeSelectStep == ASSUME IInv, ProbeSelect PROVE IInv'
  <1>0. /\ pc = "select" /\ slot \in Slot /\ Fresh(slot) /\ Typed /\ ~Probed
        /\ Command(slot, "identify", 0, 1, 0) /\ UNCHANGED drives
    BY SlotFacts DEF IInv, DrivesInv, ProbeSelect, Probed
  <1>1. Accepts(slot)
    BY <1>0 DEF Fresh, Accepts, Has
  <1>2. selected' \in [{0, 1} -> Slot]
    BY <1>0, SelectedTyped DEF ProbeSelect
  <1>3. CASE Kind(slot) = "none"
    <2>1. dev' = dev
      BY <1>0, <1>3 DEF Command, Kind
    <2>2. NextSlot
      BY <1>0, <2>1 DEF ProbeSelect, Fresh
    <2>3. pc' \in {"select", "idle"} /\ slot' \in Slot /\ ~Moving'
      BY <1>0, <2>2, NextSlotFacts
    <2>4. Typed' /\ StatusInv' /\ RequestInv'
      BY <2>1, <2>3, <1>0, <1>2
         DEF Typed, Places, ProbeSelect, IInv, StatusInv, RequestInv
    <2>5. \A s \in Slot : s = slot => Rests(s)'
      BY <1>0, <1>1, <2>1 DEF Rests, Accepts, Has
    <2>6. DrivesInv'
      BY <1>0, <2>1, <2>2, <2>5, SlotDone
    <2>7. TableInv'
      BY <1>0, <1>3, <2>2, SlotSkipped DEF ProbeSelect
    <2> QED BY <2>4, <2>6, <2>7 DEF IInv
  <1>4. CASE Kind(slot) # "none"
    <2>1. /\ dev' \in [Slot -> State]
          /\ dev'[slot].status = {"BSY"} /\ dev'[slot].op = "identify"
          /\ \A t \in Slot : t # slot => dev'[t] = dev[t]
      <3>1. "identify" \in Ops /\ 0 \in Int /\ 1 \in Int
        BY DEF Ops
      <3> QED BY <1>0, <1>1, <1>4, <3>1, CommandEffect DEF Kind
    <2>2. pc' = "identify" /\ slot' = slot
      BY <2>1 DEF ProbeSelect
    <2>3. Typed' /\ StatusInv' /\ RequestInv'
      BY <2>1, <2>2, <1>0, <1>2
         DEF Typed, Places, ProbeSelect, IInv, StatusInv, RequestInv, Moving
    <2>4. Identifying(slot)'
      BY <1>0, <1>4, <2>1, <2>2 DEF Identifying, Kind
    <2>5. \A s \in Slot : (s < slot => Rests(s)') /\ (s > slot => Fresh(s)')
      BY <1>0, <2>1, Unmoved DEF IInv, DrivesInv, Slot
    <2>6. DrivesInv'
      BY <2>2, <2>4, <2>5 DEF DrivesInv, Probed
    <2>7. TableInv'
      BY <1>0, <2>2 DEF IInv, TableInv, ProbeSelect, Probed, Kind
    <2> QED BY <2>3, <2>6, <2>7 DEF IInv
  <1> QED BY <1>3, <1>4

LEMMA ProbeStatusStep == ASSUME IInv, ProbeStatus PROVE IInv'
  <1>0. /\ pc = "identify" /\ slot \in Slot /\ Identifying(slot) /\ Typed /\ ~Probed
        /\ UNCHANGED <<drives, selected, table, req, done, mem, ret, media>>
    BY SlotFacts DEF IInv, DrivesInv, ProbeStatus, Probed
  <1>1. CASE Has(slot, "ERR") /\ Kind(slot) = "atapi"
    <2>1. Command(slot, "packet", 0, 1, 0) /\ pc' = "space" /\ slot' = slot
      BY <1>0, <1>1 DEF ProbeStatus, Kind
    <2>2. Accepts(slot) /\ Kind(slot) # "none"
      BY <1>0, <1>1 DEF Identifying, Accepts, Has
    <2>3. /\ dev' \in [Slot -> State]
          /\ dev'[slot].status = {"BSY"} /\ dev'[slot].op = "packet"
          /\ \A t \in Slot : t # slot => dev'[t] = dev[t]
      BY <1>0, <2>1, <2>2, CommandEffect DEF Ops, Kind
    <2>4. Typed' /\ StatusInv' /\ RequestInv'
      BY <2>1, <2>3, <1>0
         DEF Typed, Places, IInv, StatusInv, RequestInv, Moving
    <2>5. Offering(slot)'
      BY <1>0, <1>1, <2>1, <2>3 DEF Offering, Parked, Kind
    <2>6. \A s \in Slot : (s < slot => Rests(s)') /\ (s > slot => Fresh(s)')
      BY <1>0, <2>3, Unmoved DEF IInv, DrivesInv, Slot
    <2>7. DrivesInv'
      BY <2>1, <2>5, <2>6 DEF DrivesInv, Probed
    <2>8. TableInv'
      BY <1>0, <2>1 DEF IInv, TableInv, Probed, Kind
    <2> QED BY <2>4, <2>7, <2>8 DEF IInv
  <1>2. CASE Has(slot, "ERR") /\ Kind(slot) # "atapi"
    <2>1. dev' = dev /\ NextSlot
      BY <1>0, <1>2 DEF ProbeStatus, Kind
    <2>2. Accepts(slot) /\ Kind(slot) = "other"
      BY <1>0, <1>2 DEF Identifying, Accepts, Has
    <2>3. pc' \in {"select", "idle"} /\ slot' \in Slot /\ ~Moving'
      BY <1>0, <2>1, NextSlotFacts
    <2>4. Typed' /\ StatusInv' /\ RequestInv'
      BY <2>1, <2>3, <1>0 DEF Typed, Places, IInv, StatusInv, RequestInv
    <2>5. \A s \in Slot : s = slot => Rests(s)'
      BY <1>0, <2>1, <2>2 DEF Rests, Accepts, Has
    <2>6. DrivesInv'
      BY <1>0, <2>1, <2>5, SlotDone
    <2>7. TableInv'
      BY <1>0, <2>1, <2>2, SlotSkipped
    <2> QED BY <2>4, <2>6, <2>7 DEF IInv
  <1>3. CASE ~Has(slot, "ERR")
    <2>1. dev' = dev /\ pc' = "space" /\ slot' = slot /\ Has(slot, "DRQ")
      BY <1>0, <1>3 DEF ProbeStatus
    <2>2. Offering(slot)'
      BY <1>0, <2>1 DEF Offering, Identifying, Has, Kind
    <2>3. Typed' /\ StatusInv' /\ RequestInv'
      BY <2>1, <1>0 DEF Typed, Places, IInv, StatusInv, RequestInv, Moving
    <2>4. \A s \in Slot : (s < slot => Rests(s)') /\ (s > slot => Fresh(s)')
      BY <1>0, <2>1, Unmoved DEF IInv, DrivesInv, Slot
    <2>5. DrivesInv'
      BY <2>1, <2>2, <2>4 DEF DrivesInv, Probed
    <2>6. TableInv'
      BY <1>0, <2>1 DEF IInv, TableInv, Probed, Kind
    <2> QED BY <2>3, <2>5, <2>6 DEF IInv
  <1> QED BY <1>1, <1>2, <1>3

LEMMA EntryFacts ==
    ASSUME Typed
    PROVE  /\ Entry \in Entries /\ Entry.slot = slot
           /\ Entry.atapi = (Kind(slot) # "ata")
  <1>1. slot \in Slot /\ drives[slot] \in Drives
    BY SlotFacts
  <1>2. drives[slot].lba \in BOOLEAN /\ drives[slot].size \in Nat
    BY <1>1 DEF Drives
  <1>3. CASE Kind(slot) = "ata"
    <2>1. Entry = [slot |-> slot, atapi |-> FALSE, lba |-> drives[slot].lba,
                   size |-> drives[slot].size]
      BY <1>2, <1>3 DEF Entry, Kind
    <2> QED BY <1>1, <1>2, <1>3, <2>1 DEF Entries
  <1>4. CASE Kind(slot) # "ata"
    <2>1. Entry = [slot |-> slot, atapi |-> TRUE, lba |-> FALSE, size |-> 0]
      BY <1>4 DEF Entry, Kind
    <2> QED BY <1>1, <1>4, <2>1 DEF Entries
  <1> QED BY <1>3, <1>4

(* The table after one more entry. *)
LEMMA Appended ==
    ASSUME Typed, NEW e \in Entries, table' = Append(table, e)
    PROVE  /\ table' \in Seq(Entries)
           /\ DOMAIN table' = 1 .. Len(table) + 1
           /\ \A k \in 1 .. Len(table) : table'[k] = table[k]
           /\ table'[Len(table) + 1] = e
  BY DEF Typed

LEMMA TableGrows ==
    ASSUME IInv, NextSlot, pc = "space", UNCHANGED drives,
           table' = Append(table, Entry), Kind(slot) \in {"ata", "atapi"}
    PROVE  TableInv'
  <1> DEFINE last == Len(table) + 1
  <1>0. /\ slot \in Slot /\ ~Probed /\ Typed
        /\ Len(table) \in Nat /\ DOMAIN table = 1 .. Len(table)
    BY SlotFacts DEF IInv, Probed
  <1>1. /\ slot' \in Slot /\ slot' >= slot
        /\ ~Probed' => slot' = slot + 1
        /\ Probed' => slot = 3
    BY <1>0, NextSlotFacts DEF Slot
  <1>2. /\ DOMAIN table' = 1 .. last
        /\ \A k \in 1 .. Len(table) : table'[k] = table[k]
        /\ table'[last] = Entry
    BY <1>0, EntryFacts, Appended
  <1>3. \A k \in 1 .. Len(table) : table[k].slot \in Slot /\ table[k].slot < slot
    BY <1>0, SlotFacts DEF IInv, TableInv
  <1>4. slot >= last - 1
    <2>1. CASE Len(table) = 0
      BY <2>1, <1>0 DEF Slot
    <2>2. CASE Len(table) # 0
      <3>1. Len(table) \in 1 .. Len(table)
        BY <2>2, <1>0
      <3>2. table[Len(table)].slot >= Len(table) - 1
        BY <3>1, <1>0 DEF IInv, TableInv
      <3> QED BY <3>1, <3>2, <1>0, <1>3 DEF Slot
    <2> QED BY <2>1, <2>2
  <1>5. /\ table'[last].slot = slot
        /\ Kind(slot) = IF table'[last].atapi THEN "atapi" ELSE "ata"
    <2>1. table'[last].slot = slot /\ (table'[last].atapi <=> Kind(slot) # "ata")
      BY <1>0, <1>2, EntryFacts
    <2> QED BY <2>1
  <1>6. \A k \in DOMAIN table' :
           /\ Kind(table'[k].slot) = IF table'[k].atapi THEN "atapi" ELSE "ata"
           /\ table'[k].slot >= k - 1
           /\ ~Probed' => table'[k].slot < slot'
    <2> TAKE k \in DOMAIN table'
    <2>1. CASE k = last
      BY <2>1, <1>0, <1>1, <1>4, <1>5 DEF Slot
    <2>2. CASE k # last
      <3>1. k \in 1 .. Len(table) /\ table'[k] = table[k]
        BY <2>2, <1>0, <1>2
      <3>2. ~Probed' => table[k].slot < slot'
        BY <3>1, <1>0, <1>1, <1>3 DEF Slot
      <3> QED BY <3>1, <3>2, <1>0 DEF IInv, TableInv
    <2> QED BY <2>1, <2>2
  <1>7. \A j, k \in DOMAIN table' : j < k => table'[j].slot < table'[k].slot
    <2> TAKE j, k \in DOMAIN table'
    <2> HAVE j < k
    <2>1. j \in 1 .. Len(table) /\ table'[j] = table[j]
      BY <1>0, <1>2
    <2>2. CASE k = last
      BY <2>1, <2>2, <1>3, <1>5
    <2>3. CASE k # last
      <3>1. k \in 1 .. Len(table) /\ table'[k] = table[k]
        BY <2>3, <1>0, <1>2
      <3> QED BY <2>1, <3>1, <1>0 DEF IInv, TableInv
    <2> QED BY <2>2, <2>3
  <1>8. \A s \in Slot : (Probed' \/ s < slot') /\ Kind(s) \in {"ata", "atapi"} =>
           \E k \in DOMAIN table' : table'[k].slot = s
    <2> TAKE s \in Slot
    <2> HAVE (Probed' \/ s < slot') /\ Kind(s) \in {"ata", "atapi"}
    <2>1. s < slot \/ s = slot
      BY <1>0, <1>1 DEF Slot
    <2>2. CASE s = slot
      BY <2>2, <1>0, <1>2, <1>5
    <2>3. CASE s < slot
      <3>1. PICK k \in DOMAIN table : table[k].slot = s
        BY <2>3 DEF IInv, TableInv
      <3> QED BY <3>1, <1>0, <1>2
    <2> QED BY <2>1, <2>2, <2>3
  <1> HIDE DEF last
  <1> QED BY <1>6, <1>7, <1>8 DEF TableInv, Kind

LEMMA ProbeReadStep == ASSUME IInv, ProbeRead PROVE IInv'
  <1>0. /\ pc = "space" /\ slot \in Slot /\ Offering(slot) /\ Typed /\ ~Probed /\ NextSlot
        /\ UNCHANGED <<drives, selected, req, done, mem, ret, media>>
        /\ table' = Append(table, Entry)
    BY SlotFacts DEF IInv, DrivesInv, ProbeRead, Probed
  <1>1. pc' \in {"select", "idle"} /\ slot' \in Slot /\ ~Moving'
    BY <1>0, NextSlotFacts
  <1>2. /\ dev' \in [Slot -> State]
        /\ dev'[slot] = dev[slot] \/ dev'[slot].status = {}
        /\ \A t \in Slot : t # slot => dev'[t] = dev[t]
    <2>1. CASE Has(slot, "DRQ")
      BY <2>1, <1>0, EndsEffect DEF ProbeRead
    <2>2. CASE ~Has(slot, "DRQ")
      BY <2>2, <1>0 DEF ProbeRead, Typed
    <2> QED BY <2>1, <2>2
  <1>3. \A s \in Slot : s = slot => Rests(s)'
    <2>1. CASE Has(slot, "DRQ")
      BY <2>1, <1>0, EndsEffect DEF ProbeRead, Rests, Accepts, Has
    <2>2. CASE ~Has(slot, "DRQ")
      <3>1. Parked(slot) /\ dev' = dev
        BY <2>2, <1>0 DEF ProbeRead, Offering, Has
      <3> QED BY <3>1, <1>0 DEF Rests, Parked, Kind
    <2> QED BY <2>1, <2>2
  <1>4. table' \in Seq(Entries)
    BY <1>0, EntryFacts, Appended
  <1>5. Typed' /\ StatusInv' /\ RequestInv'
    BY <1>0, <1>1, <1>2, <1>4 DEF Typed, Places, IInv, StatusInv, RequestInv
  <1>6. DrivesInv'
    BY <1>0, <1>2, <1>3, SlotDone
  <1>7. Kind(slot) \in {"ata", "atapi"}
    BY <1>0 DEF Offering, Parked
  <1> QED BY <1>0, <1>5, <1>6, <1>7, TableGrows DEF IInv
-----------------------------------------------------------------------------
(* Accesses. *)

LEMMA PrintErrorCodes ==
    ASSUME NEW err \in 0 .. 5
    PROVE  PrintError(err) \subseteq Int
  BY DEF PrintError

LEMMA AccessStep ==
    ASSUME IInv, NEW d \in DriveNos, NEW dir \in {"read", "write"},
           NEW lba \in Lbas, NEW n \in Counts, Access(d, dir, lba, n)
    PROVE  IInv'
  <1>0. /\ pc = "idle" /\ Typed /\ Probed /\ ~Moving
        /\ UNCHANGED <<drives, dev, selected, slot, table>>
        /\ req' = [drive |-> d, dir |-> dir, lba |-> lba, n |-> n] /\ done' = 0
    BY DEF IInv, Access, Probed, Moving
  <1>1. d \in Nat /\ lba \in Nat /\ n \in Nat /\ 0 < n
    BY IdeAssumption
  <1>2. /\ pc' \in {"idle", "wait"} /\ ret' \in Int
        /\ pc' = "wait" => Present(d) /\ ~table[d + 1].atapi
    <2>1. CASE ~Present(d)
      BY <2>1 DEF Access, Return
    <2>2. CASE Present(d) /\ table[d + 1].atapi
      BY <2>2, PrintErrorCodes DEF Access, Return
    <2>3. CASE Present(d) /\ ~table[d + 1].atapi
      BY <2>3, <1>0 DEF Access, Return, Typed
    <2> QED BY <2>1, <2>2, <2>3
  <1>3. Typed' /\ StatusInv'
    BY <1>0, <1>1, <1>2 DEF Typed, Places, IInv, StatusInv
  <1>4. \A s \in Slot : Rests(s)
    BY <1>0 DEF IInv, DrivesInv
  <1>5. Probed'
    BY <1>2 DEF Probed
  <1>6. \A s \in Slot : Rests(s)'
    BY <1>0, <1>4 DEF Rests, Accepts, Has, Parked, Kind
  <1>7. DrivesInv'
    BY <1>2, <1>5, <1>6 DEF DrivesInv
  <1>8. TableInv'
    BY <1>0, <1>5 DEF IInv, TableInv, Kind
  <1>9. RequestInv'
    BY <1>0, <1>1, <1>2 DEF RequestInv, Moving, Present
  <1> QED BY <1>3, <1>7, <1>8, <1>9 DEF IInv

(* Where an access is under way, every drive but its own rests, and its    *)
(* own does or is at work on it.                                           *)
LEMMA OnTheWay ==
    ASSUME IInv, Moving
    PROVE  /\ Typed /\ Probed
           /\ Target \in Slot /\ Kind(Target) = "ata"
           /\ \A s \in Slot : s # Target => Rests(s)
           /\ Accepts(Target) \/ Active(Target)
  <1>1. Probed
    BY DEF Probed, Moving
  <1>2. Target \in Slot /\ Kind(Target) = "ata"
    BY TargetFacts
  <1>3. \A s \in Slot : Rests(s) \/ (s = Target /\ Active(s))
    BY <1>1 DEF IInv, DrivesInv
  <1>4. ~Parked(Target)
    BY <1>2 DEF Parked
  <1> QED BY <1>1, <1>2, <1>3, <1>4 DEF Rests, IInv

(* What a step of a transfer has to show of its drive. *)
LEMMA TransferKeeps ==
    ASSUME IInv, Moving, Unchanging, Probed',
           \A t \in Slot : t # Target => dev'[t] = dev[t],
           \A s \in Slot : s = Target => Accepts(s)' \/ (Moving' /\ Active(s)')
    PROVE  DrivesInv' /\ TableInv'
  <1>0. UNCHANGED <<drives, slot, table, req>> /\ Target' = Target
    BY DEF Unchanging, Target
  <1>1. \A s \in Slot : s # Target => Rests(s)'
    BY <1>0, OnTheWay, Unmoved
  <1>2. \A s \in Slot : Rests(s)' \/ (Moving' /\ s = Target' /\ Active(s)')
    BY <1>0, <1>1 DEF Rests
  <1>3. DrivesInv'
    BY <1>2 DEF DrivesInv, Probed
  <1>4. TableInv'
    BY <1>0, OnTheWay DEF IInv, TableInv, Kind
  <1> QED BY <1>3, <1>4

LEMMA IssueStep == ASSUME IInv, Issue PROVE IInv'
  <1> DEFINE mode == Mode(table[req.drive + 1], req.lba)
             addr == Addressed(mode, Registers(mode, req.lba))
  <1>0. /\ pc = "wait" /\ Moving /\ Typed /\ Unchanging
        /\ UNCHANGED <<done, mem, ret, media>>
        /\ selected' = [selected EXCEPT ![Channel(Target)] = Target]
        /\ Command(Target, req.dir, addr, req.n, Reach(mode))
        /\ pc' = IF req.dir = "read" THEN "poll" ELSE "send"
    BY DEF IInv, Issue, Moving
  <1>1. addr \in Int
    <2>1. mode \in {"chs", "lba28", "lba48"}
      BY DEF Mode
    <2> HIDE DEF mode
    <2> QED BY <1>0, <2>1, RequestFacts, AddressIsInt
  <1>a. Reach(mode) \in Int
    BY Widths DEF Reach
  <1> HIDE DEF addr, mode
  <1>2. Target \in Slot /\ Kind(Target) = "ata" /\ Accepts(Target)
    BY <1>0, OnTheWay DEF Active
  <1>3. req.dir \in {"read", "write"} /\ req.n \in Int /\ done = 0 /\ done < req.n
    BY <1>0, RequestFacts DEF IInv, RequestInv, Moving
  <1>4. /\ dev' \in [Slot -> State]
        /\ dev'[Target].status = {"BSY"} /\ dev'[Target].op = req.dir
        /\ dev'[Target].left = req.n
        /\ \A t \in Slot : t # Target => dev'[t] = dev[t]
    BY <1>0, <1>1, <1>a, <1>2, <1>3, CommandEffect DEF Ops, Kind
  <1>5. /\ pc' \in {"poll", "send"} /\ Moving' /\ Probed'
        /\ pc' = "poll" => req.dir = "read"
        /\ pc' = "send" => req.dir = "write"
    BY <1>0, <1>3 DEF Moving, Probed
  <1>6. selected' \in [{0, 1} -> Slot]
    BY <1>0, <1>2, SelectedTyped
  <1>7. Typed' /\ StatusInv' /\ RequestInv'
    BY <1>0, <1>3, <1>4, <1>5, <1>6
       DEF Typed, Places, IInv, StatusInv, RequestInv, Unchanging, Present
  <1>8. \A s \in Slot : s = Target => Accepts(s)' \/ (Moving' /\ Active(s)')
    BY <1>0, <1>3, <1>4, <1>5 DEF Active, Working, Unchanging
  <1>9. DrivesInv' /\ TableInv'
    BY <1>0, <1>4, <1>5, <1>8, TransferKeeps
  <1> QED BY <1>7, <1>9 DEF IInv

(* A polled drive that offers no sector is at rest. *)
LEMMA NothingWaits ==
    ASSUME StatusInv, NEW s \in Slot, Polled(s), Poll(s) # 0
    PROVE  Accepts(s)
  BY DEF StatusInv, Polled, Poll, Accepts, Has

LEMMA PollCodes ==
    ASSUME NEW s
    PROVE  PrintError(Poll(s)) \subseteq Int
  BY PrintErrorCodes DEF Poll

LEMMA ReadFailsStep == ASSUME IInv, ReadFails PROVE IInv'
  <1>0. /\ pc = "poll" /\ Moving /\ Typed /\ Unchanging /\ Polled(Target) /\ Poll(Target) # 0
        /\ UNCHANGED <<dev, selected, done, mem, media>>
        /\ pc' = "idle" /\ ret' \in Int /\ ~Moving' /\ Probed'
    BY PollCodes DEF IInv, ReadFails, Moving, Return, Probed
  <1>1. Accepts(Target)
    BY <1>0, NothingWaits, OnTheWay DEF IInv
  <1>2. Typed' /\ StatusInv' /\ RequestInv'
    BY <1>0 DEF Typed, Places, IInv, StatusInv, RequestInv, Unchanging
  <1>3. \A s \in Slot : s = Target => Accepts(s)'
    BY <1>0, <1>1 DEF Accepts, Has
  <1> QED BY <1>0, <1>2, <1>3, TransferKeeps DEF IInv

LEMMA ReadSectorStep == ASSUME IInv, ReadSector PROVE IInv'
  <1> DEFINE d == dev[Target]
  <1>0. /\ pc = "poll" /\ Moving /\ Typed /\ Unchanging /\ Polled(Target)
        /\ Poll(Target) = 0 /\ UNCHANGED <<selected, media>>
        /\ done' = done + 1
        /\ IF done' = req.n THEN pc' = "idle" /\ ret' = 0 ELSE pc' = pc /\ ret' = ret
    BY DEF IInv, ReadSector, Moving, Return
  <1>1. Target \in Slot /\ d \in State /\ Has(Target, "DRQ") /\ Active(Target)
    BY <1>0, OnTheWay, SlotFacts DEF Poll, Accepts
  <1>2. d.op = "read" /\ d.left = req.n - done
    BY <1>0, <1>1 DEF Active, Working
  <1>3. done \in Nat /\ req.n \in Nat /\ done < req.n
    BY <1>0, RequestFacts DEF IInv, RequestInv
  <1>4. d.addr \in Int /\ d.left \in Int /\ d.from \in Int /\ d.end \in Int
    BY <1>1, StateFields
  <1>5. CASE done + 1 = req.n
    <2>1. Ends(Target, {})
      BY <1>2, <1>3, <1>5 DEF ReadSector
    <2>2. /\ dev' \in [Slot -> State] /\ dev'[Target].status = {}
          /\ \A t \in Slot : t # Target => dev'[t] = dev[t]
      BY <2>1, <1>0, <1>1, EndsEffect
    <2>3. pc' = "idle" /\ ret' = 0 /\ ~Moving' /\ Probed'
      BY <1>0, <1>5 DEF Moving, Probed
    <2>4. Typed' /\ StatusInv' /\ RequestInv'
      BY <1>0, <1>3, <2>2, <2>3
         DEF Typed, Places, IInv, StatusInv, RequestInv, Unchanging
    <2>5. \A s \in Slot : s = Target => Accepts(s)'
      BY <2>2 DEF Accepts, Has
    <2> QED BY <1>0, <2>2, <2>3, <2>4, <2>5, TransferKeeps DEF IInv
  <1>6. CASE done + 1 # req.n
    <2> DEFINE e == Busy(d.op, d.addr + 1, d.left - 1, d.from, d.end)
    <2>1. dev' = [dev EXCEPT ![Target] = e]
      BY <1>2, <1>3, <1>6 DEF ReadSector
    <2> HIDE DEF d
    <2>2. /\ e \in State /\ e.status = {"BSY"} /\ e.op = "read"
          /\ e.left = req.n - (done + 1)
      <3>1. d.op \in Ops /\ d.addr + 1 \in Int /\ d.left - 1 \in Int /\ d.from \in Int
            /\ d.end \in Int
        BY <1>2, <1>4 DEF Ops
      <3>2. e \in State /\ e.status = {"BSY"} /\ e.op = d.op /\ e.left = d.left - 1
        BY <3>1, BusyState
      <3> HIDE DEF e
      <3> QED BY <3>2, <1>2, <1>3
    <2> HIDE DEF e
    <2>3. /\ dev' \in [Slot -> State] /\ dev'[Target] = e
          /\ \A t \in Slot : t # Target => dev'[t] = dev[t]
      BY <2>1, <2>2, <1>0, <1>1, OneDrive
    <2>4. pc' = "poll" /\ ret' = ret /\ Moving' /\ Probed' /\ done' < req.n
      BY <1>0, <1>3, <1>6 DEF Moving, Probed
    <2>5. Typed' /\ StatusInv' /\ RequestInv'
      BY <1>0, <1>3, <2>2, <2>3, <2>4
         DEF Typed, Places, IInv, StatusInv, RequestInv, Unchanging, Present
    <2>6. \A s \in Slot : s = Target => Active(s)'
      BY <1>0, <2>2, <2>3, <2>4 DEF Active, Working, Unchanging
    <2> QED BY <1>0, <2>3, <2>4, <2>5, <2>6, TransferKeeps DEF IInv
  <1> QED BY <1>5, <1>6

LEMMA WriteSectorStep == ASSUME IInv, WriteSector PROVE IInv'
  <1> DEFINE d == dev[Target]
             e == Busy("store", d.addr, d.left, Stride * done, d.end)
  <1>0. /\ pc = "send" /\ Moving /\ Typed /\ Unchanging /\ Polled(Target)
        /\ UNCHANGED <<selected, mem, ret, media>>
        /\ done' = done + 1
        /\ pc' = IF done' = req.n THEN "flush" ELSE "send"
        /\ dev' = IF Has(Target, "DRQ") THEN [dev EXCEPT ![Target] = e] ELSE dev
    BY DEF IInv, WriteSector, Moving
  <1>1. Target \in Slot /\ d \in State
    BY <1>0, OnTheWay, SlotFacts
  <1>2. done \in Nat /\ req.n \in Nat /\ done < req.n
    BY <1>0, RequestFacts DEF IInv, RequestInv
  <1>3. d.addr \in Int /\ d.left \in Int /\ Stride * done \in Int /\ d.end \in Int
    BY <1>1, <1>2, StateFields DEF Stride
  <1>4. /\ e \in State /\ e.status = {"BSY"} /\ e.op = "store" /\ e.left = d.left
    BY <1>3 DEF State, StatusBits, Ops, Busy
  <1> HIDE DEF e
  <1>5. /\ dev' \in [Slot -> State]
        /\ dev'[Target] = IF Has(Target, "DRQ") THEN e ELSE d
        /\ \A t \in Slot : t # Target => dev'[t] = dev[t]
    <2>1. CASE Has(Target, "DRQ")
      BY <2>1, <1>0, <1>1, <1>4, OneDrive
    <2>2. CASE ~Has(Target, "DRQ")
      BY <2>2, <1>0 DEF Typed
    <2> QED BY <2>1, <2>2
  <1>6. Has(Target, "DRQ") => d.left = req.n - done
    BY <1>0, OnTheWay DEF Accepts, Active, Working, Storing, Has
  <1>7. ~Has(Target, "DRQ") => Accepts(Target)
    BY <1>0 DEF Accepts, Polled
  <1>8. /\ pc' \in {"send", "flush"} /\ Moving' /\ Probed'
        /\ pc' = "send" => done' < req.n
        /\ pc' = "flush" => done' = req.n
    BY <1>0, <1>2 DEF Moving, Probed
  <1>9. Typed' /\ StatusInv' /\ RequestInv'
    <2>1. \A s \in Slot : dev'[s].status \in {{}, {"BSY"}, {"DRQ"}, {"ERR"}, {"DF"}}
      BY <1>4, <1>5 DEF IInv, StatusInv
    <2> QED BY <1>0, <1>2, <1>5, <1>8, <2>1
            DEF Typed, Places, IInv, StatusInv, RequestInv, Unchanging, Present, Moving
  <1>10. \A s \in Slot : s = Target => Accepts(s)' \/ (Moving' /\ Active(s)')
    <2>1. CASE Has(Target, "DRQ")
      <3>1. dev'[Target] = e /\ e.left = req.n - done' + 1
        BY <2>1, <1>0, <1>2, <1>4, <1>5, <1>6
      <3>2. pc' = "flush" => e.left = 1
        BY <3>1, <1>2, <1>8
      <3> QED BY <3>1, <3>2, <1>0, <1>4, <1>8 DEF Active, Storing, Unchanging
    <2>2. CASE ~Has(Target, "DRQ")
      BY <2>2, <1>5, <1>7 DEF Accepts, Has
    <2> QED BY <2>1, <2>2
  <1>11. DrivesInv' /\ TableInv'
    BY <1>0, <1>5, <1>8, <1>10, TransferKeeps
  <1> QED BY <1>9, <1>11 DEF IInv

LEMMA FlushStep == ASSUME IInv, Flush PROVE IInv'
  <1>0. /\ pc = "flush" /\ Moving /\ Typed /\ Unchanging
        /\ UNCHANGED <<selected, done, mem, ret, media>>
        /\ Command(Target, "flush", 0, 1, 0)
        /\ pc' = "sync" /\ Moving' /\ Probed'
    BY DEF IInv, Flush, Moving, Probed
  <1>1. Target \in Slot /\ Kind(Target) = "ata"
    BY <1>0, OnTheWay
  <1>2. CASE Accepts(Target)
    <2>1. /\ dev' \in [Slot -> State]
          /\ dev'[Target].status = {"BSY"} /\ dev'[Target].op = "flush"
          /\ \A t \in Slot : t # Target => dev'[t] = dev[t]
      <3>1. "flush" \in Ops /\ 0 \in Int /\ 1 \in Int
        BY DEF Ops
      <3> QED BY <1>0, <1>1, <1>2, <3>1, CommandEffect DEF Kind
    <2>2. Typed' /\ StatusInv' /\ RequestInv'
      BY <1>0, <2>1
         DEF Typed, Places, IInv, StatusInv, RequestInv, Unchanging, Present
    <2>3. \A s \in Slot : s = Target => Active(s)'
      BY <1>0, <2>1 DEF Active
    <2> QED BY <1>0, <2>1, <2>2, <2>3, TransferKeeps DEF IInv
  <1>3. CASE ~Accepts(Target)
    <2>1. dev' = dev
      BY <1>0, <1>3 DEF Command
    <2>2. Typed' /\ StatusInv' /\ RequestInv'
      BY <1>0, <2>1
         DEF Typed, Places, IInv, StatusInv, RequestInv, Unchanging, Present
    <2>3. Storing(Target, 1)
      BY <1>0, <1>3, OnTheWay DEF Active
    <2>4. \A s \in Slot : s = Target => Active(s)'
      BY <1>0, <2>1, <2>3 DEF Active, Storing
    <2> QED BY <1>0, <2>1, <2>2, <2>4, TransferKeeps DEF IInv
  <1> QED BY <1>2, <1>3

LEMMA SyncStep == ASSUME IInv, Sync PROVE IInv'
  <1>0. /\ pc = "sync" /\ Moving /\ Typed /\ Unchanging /\ Polled(Target)
        /\ UNCHANGED <<dev, selected, done, mem, media>>
        /\ pc' = "idle" /\ ret' = 0 /\ ~Moving' /\ Probed'
    BY DEF IInv, Sync, Moving, Return, Probed
  <1>1. Accepts(Target)
    BY <1>0, OnTheWay DEF Active, Storing, Polled, Has
  <1>2. Typed' /\ StatusInv' /\ RequestInv'
    BY <1>0 DEF Typed, Places, IInv, StatusInv, RequestInv, Unchanging
  <1>3. \A s \in Slot : s = Target => Accepts(s)'
    BY <1>0, <1>1 DEF Accepts, Has
  <1> QED BY <1>0, <1>2, <1>3, TransferKeeps DEF IInv
-----------------------------------------------------------------------------
(* The drives. *)

(* What a drive that is busy does, by the command it has. *)
LEMMA DriveIdentified ==
    ASSUME Typed, NEW s \in Slot, Drive(s), dev[s].op \in {"identify", "packet"}
    PROVE  /\ dev' \in [Slot -> State]
           /\ \A t \in Slot : t # s => dev'[t] = dev[t]
           /\ IF dev[s].op = "packet" \/ Kind(s) = "ata"
              THEN dev'[s].status = {"DRQ"} /\ dev'[s].op = dev[s].op
              ELSE dev'[s].status = {"ERR"}
  <1>1. Identified(s)
    BY DEF Drive, Positioned, Stored, Flushed, Fails
  <1>2. CASE dev[s].op = "packet" \/ Kind(s) = "ata"
    BY <1>1, <1>2, StatusEffect DEF Identified, Kind, StatusBits
  <1>3. CASE ~(dev[s].op = "packet" \/ Kind(s) = "ata")
    BY <1>1, <1>3, EndsEffect DEF Identified, Kind, StatusBits
  <1> QED BY <1>2, <1>3

LEMMA DriveEnds ==
    ASSUME Typed, NEW s \in Slot, NEW f \in {{"ERR"}, {"DF"}, {}}, Ends(s, f)
    PROVE  /\ dev' \in [Slot -> State]
           /\ \A t \in Slot : t # s => dev'[t] = dev[t]
           /\ dev'[s].status = f
  BY EndsEffect DEF StatusBits

LEMMA DriveWorks ==
    ASSUME Typed, NEW s \in Slot, Drive(s),
           dev[s].op \in {"read", "write", "store", "flush"}, dev[s].status = {"BSY"}
    PROVE  /\ dev' \in [Slot -> State]
           /\ \A t \in Slot : t # s => dev'[t] = dev[t]
           /\ \/ dev'[s].status \in {{"ERR"}, {"DF"}, {}}
              \/ /\ dev[s].op \in {"read", "write"}
                 /\ dev'[s].status = {"DRQ"}
                 /\ dev'[s].op = dev[s].op /\ dev'[s].left = dev[s].left
                 /\ dev'[s].addr = dev[s].addr
              \/ /\ dev[s].op = "store" /\ dev[s].left # 1
                 /\ dev'[s].status = {"BSY"}
                 /\ dev'[s].op = "write" /\ dev'[s].left = dev[s].left - 1
  <1>0. dev[s] \in State
    BY SlotFacts
  <1>1. CASE Positioned(s)
    <2>1. CASE dev[s].addr < drives[s].size /\ dev[s].addr < dev[s].end
      BY <1>1, <2>1, StatusEffect DEF Positioned, StatusBits
    <2>2. CASE ~(dev[s].addr < drives[s].size /\ dev[s].addr < dev[s].end)
      BY <1>1, <2>2, DriveEnds DEF Positioned
    <2> QED BY <2>1, <2>2
  <1>2. CASE Stored(s)
    <2>1. CASE dev[s].left = 1
      BY <1>2, <2>1, DriveEnds DEF Stored
    <2>2. CASE dev[s].left # 1
      <3> DEFINE a == dev[s].addr + 1
                 n == dev[s].left - 1
                 f == dev[s].from
                 z == dev[s].end
                 e == Busy("write", a, n, f, z)
      <3>1. dev' = [dev EXCEPT ![s] = e]
        BY <1>2, <2>2 DEF Stored
      <3>2. a \in Int /\ n \in Int /\ f \in Int /\ z \in Int
        BY <1>0, StateFields
      <3> HIDE DEF a, n, f, z
      <3>3. e \in State /\ e.status = {"BSY"} /\ e.op = "write" /\ e.left = n
        BY <3>2 DEF State, StatusBits, Ops, Busy
      <3> HIDE DEF e
      <3> USE DEF n
      <3> QED BY <3>1, <3>3, <1>2, <2>2, OneDrive DEF Stored
    <2> QED BY <2>1, <2>2
  <1>3. CASE Flushed(s)
    BY <1>3, DriveEnds DEF Flushed
  <1>4. CASE Fails(s)
    <2>1. PICK f \in ReadFaults \cup WriteFaults : Ends(s, f)
      BY <1>4 DEF Fails
    <2>2. f \in {{"ERR"}, {"DF"}, {}}
      BY IdeAssumption DEF Faults
    <2> QED BY <2>1, <2>2, DriveEnds
  <1> QED BY <1>1, <1>2, <1>3, <1>4 DEF Drive, Identified

(* Everyone but s stays as it is: it is enough to look at s. *)
LEMMA DriveKeeps ==
    ASSUME IInv, NEW s \in Slot, UNCHANGED <<drives, selected, driver>>,
           dev' \in [Slot -> State], \A t \in Slot : t # s => dev'[t] = dev[t],
           dev'[s].status \in {{}, {"BSY"}, {"DRQ"}, {"ERR"}, {"DF"}},
           ~Fresh(s),
           Rests(s) => Rests(s)',
           s = slot /\ pc = "identify" => Identifying(s)',
           s = slot /\ pc = "space" => Offering(s)',
           Probed => Rests(s)' \/ (Moving /\ s = Target /\ Active(s)')
    PROVE  IInv'
  <1>0. /\ UNCHANGED <<drives, selected>>
        /\ pc' = pc /\ slot' = slot /\ table' = table /\ req' = req
        /\ done' = done /\ mem' = mem /\ ret' = ret
        /\ slot \in Slot /\ Typed
        /\ Probed' = Probed /\ Moving' = Moving /\ Target' = Target
    BY SlotFacts DEF driver, IInv, Probed, Moving, Target
  <1>1. Typed' /\ StatusInv' /\ RequestInv' /\ TableInv'
    BY <1>0 DEF Typed, IInv, StatusInv, RequestInv, Moving, Present, TableInv, Probed, Kind
  <1>2. \A t \in Slot : t # s => Active(t)' = Active(t)
    BY <1>0 DEF Active, Working, Storing
  <1>3. \A t \in Slot :
          /\ ~Probed /\ t < slot => Rests(t)'
          /\ ~Probed /\ t > slot => Fresh(t)'
          /\ t = slot /\ pc = "select" => Fresh(t)'
          /\ t = slot /\ pc = "identify" => Identifying(t)'
          /\ t = slot /\ pc = "space" => Offering(t)'
          /\ Probed => Rests(t)' \/ (Moving /\ t = Target /\ Active(t)')
    <2> TAKE t \in Slot
    <2>1. CASE t = s
      BY <2>1, <1>0 DEF IInv, DrivesInv
    <2>2. CASE t # s
      <3>1. /\ ~Probed /\ t < slot => Rests(t)
            /\ ~Probed /\ t > slot => Fresh(t)
            /\ t = slot /\ pc = "select" => Fresh(t)
            /\ t = slot /\ pc = "identify" => Identifying(t)
            /\ t = slot /\ pc = "space" => Offering(t)
            /\ Probed => Rests(t) \/ (Moving /\ t = Target /\ Active(t))
        BY DEF IInv, DrivesInv
      <3>2. /\ Rests(t) => Rests(t)'
            /\ Fresh(t) => Fresh(t)'
            /\ Identifying(t) => Identifying(t)'
            /\ Offering(t) => Offering(t)'
        BY <2>2, <1>0, Unmoved
      <3> QED BY <3>1, <3>2, <1>2, <2>2
    <2> QED BY <2>1, <2>2
  <1>4. /\ pc = "select" => Fresh(slot)'
        /\ pc = "identify" => Identifying(slot)'
        /\ pc = "space" => Offering(slot)'
    BY <1>0, <1>3 DEF Fresh, Identifying, Offering, Parked, Kind
  <1>5. DrivesInv'
    BY <1>0, <1>3, <1>4 DEF DrivesInv
  <1> QED BY <1>1, <1>5 DEF IInv

LEMMA DriveStep == ASSUME IInv, NEW s \in Slot, Drive(s) PROVE IInv'
  <1>0. /\ Typed /\ UNCHANGED <<drives, selected, driver>>
        /\ dev[s].status = {"BSY"} /\ ~Accepts(s) /\ ~Fresh(s)
        /\ drives[s] \in Drives
        /\ pc' = pc /\ slot' = slot /\ req' = req /\ done' = done
    BY SlotFacts DEF IInv, Drive, driver, StatusInv, Has, Accepts, Fresh
  <1>1. CASE Parked(s)
    <2>1. /\ dev' \in [Slot -> State] /\ \A t \in Slot : t # s => dev'[t] = dev[t]
          /\ dev'[s].status = {"DRQ"} /\ dev'[s].op = "packet"
      BY <1>0, <1>1, DriveIdentified DEF Parked
    <2>2. Rests(s)' /\ Offering(s)'
      BY <1>0, <1>1, <2>1 DEF Rests, Offering, Parked, Kind
    <2>3. ~(s = slot /\ pc = "identify")
      BY <1>0, <1>1 DEF IInv, DrivesInv, Identifying, Parked
    <2> QED BY <1>0, <2>1, <2>2, <2>3, DriveKeeps
  <1>2. CASE ~Parked(s) /\ s = slot /\ pc = "identify"
    <2>1. dev[s].op = "identify" /\ Kind(s) # "none"
      BY <1>0, <1>2 DEF IInv, DrivesInv, Identifying
    <2>2. /\ dev' \in [Slot -> State] /\ \A t \in Slot : t # s => dev'[t] = dev[t]
          /\ IF Kind(s) = "ata" THEN dev'[s].status = {"DRQ"} ELSE dev'[s].status = {"ERR"}
      BY <1>0, <2>1, DriveIdentified
    <2>3. Kind(s) \in {"ata", "atapi", "other"}
      BY <1>0, <2>1 DEF Kind, Drives, Kinds
    <2>4. Identifying(s)'
      BY <1>0, <2>2, <2>3 DEF Identifying, Kind
    <2>5. ~Rests(s) /\ ~Probed
      BY <1>0, <1>2 DEF Rests, Probed
    <2>6. dev'[s].status \in {{}, {"BSY"}, {"DRQ"}, {"ERR"}, {"DF"}}
      BY <2>2
    <2> QED BY <1>0, <1>2, <2>2, <2>4, <2>5, <2>6, DriveKeeps
  <1>3. CASE ~Parked(s) /\ ~(s = slot /\ pc = "identify")
    <2>0. ~Rests(s)
      BY <1>0, <1>3 DEF Rests
    <2>1. s < slot \/ s > slot \/ s = slot
      BY <1>0, SlotFacts
    <2>2. /\ Probed /\ Moving /\ s = Target /\ Active(s)
      <3>1. /\ ~Probed => s = slot
            /\ pc = "select" => Fresh(slot)
            /\ pc = "space" => Offering(slot)
            /\ Probed => Moving /\ s = Target /\ Active(s)
        BY <1>0, <2>0, <2>1 DEF IInv, DrivesInv
      <3>2. s = slot => pc # "select" /\ pc # "space"
        BY <1>0, <1>3, <3>1 DEF Offering
      <3>3. Probed
        BY <1>3, <3>1, <3>2 DEF Probed
      <3> QED BY <3>1, <3>3
    <2>3. dev[s].op \in {"read", "write", "store", "flush"}
      BY <2>2 DEF Active, Working, Storing
    <2>4. /\ dev' \in [Slot -> State] /\ \A t \in Slot : t # s => dev'[t] = dev[t]
          /\ \/ dev'[s].status \in {{"ERR"}, {"DF"}, {}}
             \/ /\ dev[s].op \in {"read", "write"}
                /\ dev'[s].status = {"DRQ"}
                /\ dev'[s].op = dev[s].op /\ dev'[s].left = dev[s].left
             \/ /\ dev[s].op = "store" /\ dev[s].left # 1
                /\ dev'[s].status = {"BSY"}
                /\ dev'[s].op = "write" /\ dev'[s].left = dev[s].left - 1
      BY <1>0, <2>3, DriveWorks
    <2>5. CASE dev'[s].status \in {{"ERR"}, {"DF"}, {}}
      <3>1. Rests(s)'
        BY <2>5 DEF Rests, Accepts, Has
      <3>2. dev'[s].status \in {{}, {"BSY"}, {"DRQ"}, {"ERR"}, {"DF"}}
        BY <2>5
      <3> QED BY <1>0, <1>3, <2>2, <2>4, <3>1, <3>2, DriveKeeps DEF Probed
    <2>6. CASE /\ dev[s].op \in {"read", "write"}
               /\ dev'[s].status = {"DRQ"}
               /\ dev'[s].op = dev[s].op /\ dev'[s].left = dev[s].left
      <3>1. Active(s)'
        BY <1>0, <2>2, <2>6 DEF Active, Working, Storing
      <3> QED BY <1>0, <1>3, <2>0, <2>2, <2>4, <2>6, <3>1, DriveKeeps DEF Probed
    <2>7. CASE /\ dev[s].op = "store" /\ dev[s].left # 1
               /\ dev'[s].status = {"BSY"}
               /\ dev'[s].op = "write" /\ dev'[s].left = dev[s].left - 1
      <3>1. pc = "send" /\ dev[s].left = req.n - done + 1 /\ req.n \in Nat /\ done \in Nat
        BY <1>0, <2>2, <2>7, RequestFacts DEF Active, Working, Storing
      <3>2. dev'[s].left = req.n - done
        BY <2>7, <3>1
      <3>3. Active(s)'
        BY <1>0, <2>7, <3>1, <3>2 DEF Active, Working
      <3> QED BY <1>0, <1>3, <2>0, <2>2, <2>4, <2>7, <3>3, DriveKeeps DEF Probed
    <2> QED BY <2>4, <2>5, <2>6, <2>7
  <1> QED BY <1>1, <1>2, <1>3
-----------------------------------------------------------------------------
LEMMA StutterStep == ASSUME IInv, UNCHANGED vars PROVE IInv'
  <1>0. /\ UNCHANGED <<drives, selected>> /\ dev' = dev
        /\ pc' = pc /\ slot' = slot /\ table' = table /\ req' = req
        /\ done' = done /\ ret' = ret
    BY DEF vars, driver
  <1>1. Typed' /\ StatusInv' /\ RequestInv' /\ TableInv'
    BY <1>0 DEF Typed, IInv, StatusInv, RequestInv, Moving, Present, TableInv, Probed, Kind
  <1>2. DrivesInv'
    BY <1>0
       DEF IInv, DrivesInv, Rests, Accepts, Has, Parked, Kind, Fresh, Identifying, Offering,
           Probed, Moving, Target, Active, Working, Storing
  <1> QED BY <1>1, <1>2 DEF IInv

LEMMA InvStep == ASSUME IInv, [Next]_vars PROVE IInv'
  <1>1. CASE Probe
    BY <1>1, ProbeSelectStep, ProbeStatusStep, ProbeReadStep DEF Probe
  <1>2. ASSUME NEW d \in DriveNos, NEW dir \in {"read", "write"},
               NEW lba \in Lbas, NEW n \in Counts, Access(d, dir, lba, n)
        PROVE  IInv'
    BY <1>2, AccessStep
  <1>3. CASE Transfer
    BY <1>3, IssueStep, ReadFailsStep, ReadSectorStep, WriteSectorStep, FlushStep, SyncStep
       DEF Transfer
  <1>4. ASSUME NEW s \in Slot, Drive(s)
        PROVE  IInv'
    BY <1>4, DriveStep
  <1> QED BY <1>1, <1>2, <1>3, <1>4, StutterStep DEF Next

LEMMA Invariant == Spec => []IInv
  BY InvInit, InvStep, PTL DEF Spec

(* The variables of the driver and the status of every drive keep their    *)
(* types; the table never has more than four entries (g_ide_devices).      *)
THEOREM IdeTypeCorrect == Spec => []TypeOK
  <1>1. ASSUME IInv PROVE TypeOK
    <2>1. \A s \in Slot : dev[s].status \subseteq {"BSY", "DRQ", "ERR", "DF"}
      BY <1>1 DEF IInv, StatusInv
    <2>2. Len(table) <= 4
      <3>1. Len(table) \in Nat /\ DOMAIN table = 1 .. Len(table)
        BY <1>1, SlotFacts DEF IInv
      <3>2. CASE Len(table) = 0
        BY <3>2
      <3>3. CASE Len(table) # 0
        <4>1. Len(table) \in DOMAIN table
          BY <3>1, <3>3
        <4>2. table[Len(table)].slot \in Slot /\ table[Len(table)].slot >= Len(table) - 1
          BY <1>1, <4>1, SlotFacts DEF IInv, TableInv
        <4> QED BY <3>1, <4>2 DEF Slot
      <3> QED BY <3>2, <3>3
    <2> QED BY <1>1, <2>1, <2>2 DEF IInv, Typed, TypeOK, Places
  <1> QED BY <1>1, Invariant, PTL

(* After ide_init the table has every hard disk and packet drive, in the   *)
(* order of the slots, on every machine.                                   *)
THEOREM TableIsComplete == Spec => []TableListsDrives
  <1>1. ASSUME IInv PROVE TableListsDrives
    <2> SUFFICES ASSUME Probed
                 PROVE  /\ {table[k].slot : k \in DOMAIN table} =
                             {s \in Slot : drives[s].kind \in {"ata", "atapi"}}
                        /\ \A j, k \in DOMAIN table : j < k => table[j].slot < table[k].slot
      BY DEF TableListsDrives
    <2>1. \A k \in DOMAIN table : /\ table[k].slot \in Slot
                                  /\ drives[table[k].slot].kind \in {"ata", "atapi"}
      BY <1>1, SlotFacts DEF IInv, TableInv, Kind
    <2>2. \A s \in Slot : drives[s].kind \in {"ata", "atapi"} =>
                            \E k \in DOMAIN table : table[k].slot = s
      BY <1>1 DEF IInv, TableInv, Kind
    <2>3. \A j, k \in DOMAIN table : j < k => table[j].slot < table[k].slot
      BY <1>1 DEF IInv, TableInv
    <2> QED BY <2>1, <2>2, <2>3
  <1> QED BY <1>1, Invariant, PTL

(* The driver never sends a read or a write that the drive would ignore,   *)
(* whatever happened in the accesses before.                               *)
THEOREM DriveTakesCommand == Spec => CommandsAccepted
  <1>1. ASSUME IInv, [Next]_vars
        PROVE  [pc = "wait" /\ pc' # "wait" => Accepts(Target)]_vars
    <2>1. pc = "wait" => Accepts(Target)
      BY <1>1, OnTheWay DEF Active, Moving
    <2> QED BY <2>1
  <1> QED BY <1>1, Invariant, PTL DEF Spec, CommandsAccepted
=============================================================================
