------------------------- MODULE IdeTransferProofs --------------------------
(***************************************************************************)
(* The sectors that a read delivers and a write stores, for every machine, *)
(* request, geometry and width of the registers.                           *)
(***************************************************************************)
EXTENDS IdeProofs

(* A drive without LBA is small enough for its cylinder's two registers. *)
CylindersFit ==
    \A m \in Machines, s \in Slot :
       m[s].kind = "ata" /\ ~m[s].lba => m[s].size <= (Heads * Spt) * (Byte * Byte)

(* The table's entry of a hard disk is what the disk says of itself. *)
EntriesInv ==
    \A k \in DOMAIN table :
       ~table[k].atapi => /\ table[k].lba <=> drives[table[k].slot].lba
                          /\ table[k].size = drives[table[k].slot].size

RightAddress(e, lba) ==
    LET mode == Mode(e, lba) IN Addressed(mode, Registers(mode, lba)) = lba

(* The registers of an access name its first sector. *)
AddressInv == Moving => RightAddress(table[req.drive + 1], req.lba)


-----------------------------------------------------------------------------
LEMMA EntriesStep == ASSUME IInv, EntriesInv, [Next]_vars PROVE EntriesInv'
  <1>1. CASE UNCHANGED <<drives, table>>
    BY <1>1 DEF EntriesInv
  <1>2. CASE ProbeRead
    <2>1. /\ slot \in Slot /\ Typed /\ UNCHANGED drives
          /\ table' = Append(table, Entry)
          /\ Len(table) \in Nat /\ DOMAIN table = 1 .. Len(table)
      BY <1>2, SlotFacts DEF IInv, ProbeRead
    <2>2. /\ DOMAIN table' = 1 .. Len(table) + 1
          /\ \A k \in 1 .. Len(table) : table'[k] = table[k]
          /\ table'[Len(table) + 1] = Entry
      BY <2>1, EntryFacts, Appended
    <2>3. /\ Entry.slot = slot
          /\ ~Entry.atapi => /\ Entry.lba <=> drives[slot].lba
                             /\ Entry.size = drives[slot].size
      BY DEF Entry
    <2>4. \A k \in DOMAIN table' :
            ~table'[k].atapi => /\ table'[k].lba <=> drives[table'[k].slot].lba
                                /\ table'[k].size = drives[table'[k].slot].size
      <3> TAKE k \in DOMAIN table'
      <3>1. CASE k = Len(table) + 1
        BY <3>1, <2>2, <2>3
      <3>2. CASE k # Len(table) + 1
        <4>1. k \in DOMAIN table /\ table'[k] = table[k]
          BY <3>2, <2>1, <2>2
        <4> QED BY <4>1 DEF EntriesInv
      <3> QED BY <3>1, <3>2
    <2> QED BY <2>1, <2>4 DEF EntriesInv
  <1> QED BY <1>1, <1>2
          DEF Next, Probe, ProbeSelect, ProbeStatus, Access, Transfer, Issue, ReadFails,
              ReadSector, WriteSector, Flush, Sync, Unchanging, Drive, driver, vars

(* An access that passes the checks is one that its address mode can name. *)
LEMMA ChecksSuffice ==
    ASSUME CylindersFit, IInv, EntriesInv,
           NEW k \in DOMAIN table, ~table[k].atapi, NEW lba \in Lbas, NEW n \in Counts,
           Fits(table[k], lba, n)
    PROVE  RightAddress(table[k], lba)
  <1> DEFINE e == table[k]
  <1>0. lba \in Nat /\ n \in Nat /\ n < Byte /\ lba < Page * Byte
    <2>1. lba \in 0 .. Byte * Byte * Byte * Byte - 1 /\ n \in 1 .. Byte - 1
      BY IdeAssumption
    <2>2. Byte * Byte * Byte * Byte \in Int /\ Byte \in Int
      BY Widths
    <2> QED BY <2>1, <2>2 DEF Page
  <1>1. ASSUME lba < LbaLimit, ~e.lba PROVE lba < (Heads * Spt) * (Byte * Byte)
    <2>1. lba + n < Page * Byte
      <3>1. LbaLimit + Page <= Page * Byte
        <4>1. Nibble < Byte /\ Nibble \in Nat /\ Byte \in Nat
          BY IdeAssumption
        <4> QED BY <4>1, Widths, Below
      <3>2. Byte <= Page
        <4>1. Byte \in Nat \ {0} /\ Byte * Byte \in Nat \ {0}
          BY Widths
        <4>2. Byte * 0 + Byte <= Byte * (Byte * Byte)
          BY <4>1, Below
        <4> QED BY <4>1, <4>2, Widths
      <3> QED BY <3>1, <3>2, <1>0, <1>1, Widths
    <2>2. lba + n <= e.size
      <3>1. (lba + n) % (Page * Byte) = lba + n
        BY <1>0, <2>1, Widths
      <3> QED BY <3>1 DEF Fits
    <2>3. e.size <= (Heads * Spt) * (Byte * Byte)
      <3>1. e.slot \in Slot /\ drives \in Machines /\ Kind(e.slot) = "ata"
        BY SlotFacts DEF IInv, Typed, TableInv
      <3>2. ~drives[e.slot].lba /\ e.size = drives[e.slot].size
        BY <1>1 DEF EntriesInv
      <3> QED BY <3>1, <3>2 DEF CylindersFit, Kind
    <2>4. lba < (Heads * Spt) * (Byte * Byte)
      <3>1. e.size \in Nat /\ n > 0
        <4>1. e \in Entries
          BY DEF IInv, Typed
        <4>2. n > 0
          BY IdeAssumption
        <4> QED BY <4>1, <4>2 DEF Entries
      <3>2. (Heads * Spt) * (Byte * Byte) \in Int
        BY Widths
      <3> QED BY <1>0, <2>2, <2>3, <3>1, <3>2
    <2> QED BY <2>4
  <1>2. lba \in Int /\ LbaLimit \in Int
    BY <1>0, Widths
  <1> QED BY <1>0, <1>1, <1>2, RegistersNameSector DEF RightAddress

(* A step of a transfer leaves request, table and drives alone. *)
LEMMA TransferFrame ==
    ASSUME Transfer
    PROVE  Moving /\ Unchanging /\ UNCHANGED <<drives, table, req>> /\ Target' = Target
  BY DEF Transfer, Issue, ReadFails, ReadSector, WriteSector, Flush, Sync, Moving,
         Unchanging, Target

LEMMA AccessFrame ==
    ASSUME NEW d \in DriveNos, NEW dir \in {"read", "write"},
           NEW lba \in Lbas, NEW n \in Counts, Access(d, dir, lba, n)
    PROVE  /\ pc = "idle" /\ UNCHANGED <<drives, table, dev>>
           /\ req' = [drive |-> d, dir |-> dir, lba |-> lba, n |-> n]
           /\ done' = 0 /\ mem' = {} /\ taken' = {} /\ durable' = {}
           /\ \/ pc' = "idle" /\ Present(d) /\ table[d + 1].atapi
              \/ pc' = "idle" /\ ret' < 0
              \/ /\ pc' = "wait" /\ ret' = ret /\ Present(d) /\ ~table[d + 1].atapi
                 /\ Fits(table[d + 1], lba, n)
  <1>1. CASE ~Present(d)
    BY <1>1 DEF Access, Return
  <1>2. CASE Present(d) /\ table[d + 1].atapi
    BY <1>2 DEF Access, Return
  <1>3. CASE Present(d) /\ ~table[d + 1].atapi
    BY <1>3 DEF Access, Return
  <1> QED BY <1>1, <1>2, <1>3 DEF Access

LEMMA ProbeFrame ==
    ASSUME Probe
    PROVE  /\ ~Moving /\ ~Moving' /\ ~Probed
           /\ UNCHANGED <<drives, req, done, mem, ret, media>>
           /\ pc' # "poll" /\ pc' # "wait"
  BY DEF Probe, ProbeSelect, ProbeStatus, ProbeRead, Moving, Probed, NextSlot

LEMMA DriveFrame ==
    ASSUME NEW s \in Slot, Drive(s)
    PROVE  /\ UNCHANGED <<drives, driver>>
           /\ pc' = pc /\ table' = table /\ req' = req /\ done' = done
           /\ mem' = mem /\ ret' = ret
           /\ Moving' = Moving /\ Target' = Target /\ Probed' = Probed
  BY DEF Drive, driver, Moving, Target, Probed

LEMMA DriveFrames ==
    ASSUME Typed, NEW s \in Slot, Drive(s)
    PROVE  \A t \in Slot : t # s => dev'[t] = dev[t]
  BY DEF Drive, Identified, Positioned, Stored, Flushed, Fails, Ends, Typed

LEMMA AddressStep ==
    ASSUME CylindersFit, IInv, EntriesInv, AddressInv, [Next]_vars
    PROVE  AddressInv'
  <1>1. CASE Probe
    BY <1>1, ProbeFrame DEF AddressInv
  <1>2. ASSUME NEW d \in DriveNos, NEW dir \in {"read", "write"},
               NEW lba \in Lbas, NEW n \in Counts, Access(d, dir, lba, n)
        PROVE  AddressInv'
    <2>1. CASE pc' = "wait"
      <3>1. /\ d + 1 \in DOMAIN table /\ ~table[d + 1].atapi
            /\ Fits(table[d + 1], lba, n)
        BY <1>2, <2>1, AccessFrame DEF Present
      <3>2. RightAddress(table[d + 1], lba)
        BY <3>1, ChecksSuffice
      <3>3. req'.drive = d /\ req'.lba = lba /\ table' = table
        BY <1>2, AccessFrame
      <3> QED BY <3>2, <3>3 DEF AddressInv
    <2>2. CASE pc' # "wait"
      BY <1>2, <2>2, AccessFrame DEF AddressInv, Moving
    <2> QED BY <2>1, <2>2
  <1>3. CASE Transfer
    BY <1>3, TransferFrame DEF AddressInv
  <1>4. ASSUME NEW s \in Slot, Drive(s) PROVE AddressInv'
    BY <1>4, DriveFrame DEF AddressInv
  <1>5. CASE UNCHANGED vars
    BY <1>5 DEF AddressInv, vars, driver, Moving
  <1> QED BY <1>1, <1>2, <1>3, <1>4, <1>5 DEF Next

PlainInv == IInv /\ EntriesInv /\ AddressInv

LEMMA PlainInvariant == ASSUME CylindersFit PROVE Spec => []PlainInv
  <1>1. Init => PlainInv
    BY InvInit DEF PlainInv, EntriesInv, AddressInv, Init, Moving
  <1>2. PlainInv /\ [Next]_vars => PlainInv'
    BY InvStep, EntriesStep, AddressStep DEF PlainInv
  <1> QED BY <1>1, <1>2, PTL DEF Spec
-----------------------------------------------------------------------------
(* Reads. *)

Got(n) == {<<Stride * k, req.lba + k>> : k \in 0 .. n - 1}

(* What the driver has read so far, and the sector the drive is at. *)
ReadInv ==
    /\ ~Probed => ret = -1
    /\ pc = "wait" => mem = {}
    /\ pc = "poll" => /\ req.dir = "read" /\ mem = Got(done)
                      /\ ~Accepts(Target) => dev[Target].addr = req.lba + done
    /\ pc \in {"send", "flush", "sync"} => req.dir = "write"
    /\ ReadDelivers

LEMMA GotMore ==
    ASSUME NEW n \in Nat
    PROVE  Got(n + 1) = Got(n) \cup {<<Stride * n, req.lba + n>>}
  <1>1. 0 .. n + 1 - 1 = (0 .. n - 1) \cup {n}
    OBVIOUS
  <1> QED BY <1>1 DEF Got

LEMMA ReadInvIssue == ASSUME PlainInv, ReadInv, Issue PROVE ReadInv'
  <1> DEFINE mode == Mode(table[req.drive + 1], req.lba)
             addr == Addressed(mode, Registers(mode, req.lba))
  <1>0. /\ pc = "wait" /\ Moving /\ IInv /\ Typed
        /\ Command(Target, req.dir, addr, req.n, Reach(mode))
        /\ pc' = (IF req.dir = "read" THEN "poll" ELSE "send")
        /\ UNCHANGED <<table, req, done, mem, ret>> /\ Target' = Target
    BY DEF PlainInv, IInv, Issue, Moving, Unchanging, Target
  <1>1. addr = req.lba /\ Reach(mode) \in Int
    BY <1>0, Widths DEF PlainInv, AddressInv, RightAddress, Reach
  <1> HIDE DEF addr, mode
  <1>2. Target \in Slot /\ Kind(Target) = "ata" /\ Accepts(Target)
    BY <1>0, OnTheWay DEF Active
  <1>3. /\ req.dir \in {"read", "write"} /\ req.n \in Int /\ req.lba \in Int
        /\ done = 0 /\ mem = {}
    BY <1>0, RequestFacts DEF IInv, RequestInv, ReadInv
  <1>4. dev'[Target].addr = req.lba
    BY <1>0, <1>1, <1>2, <1>3, CommandEffect DEF Ops, Kind
  <1>5. Got(0) = {}
    BY DEF Got
  <1>6. Probed' /\ pc' # "idle" /\ pc' # "wait"
    BY <1>0 DEF Probed
  <1>7. Got(done)' = {}
    BY <1>0, <1>3 DEF Got
  <1> QED BY <1>0, <1>3, <1>4, <1>6, <1>7 DEF ReadInv, ReadDelivers, Answered

LEMMA ReadInvFails == ASSUME ReadInv, ReadFails PROVE ReadInv'
  <1>1. Poll(Target) \in {1, 2, 3}
    BY DEF ReadFails, Poll
  <1>2. PrintError(Poll(Target)) \subseteq {2, 19, 22, 23}
    BY <1>1 DEF PrintError
  <1>3. pc' = "idle" /\ ret' # 0 /\ Probed'
    BY <1>2 DEF ReadFails, Return, Probed
  <1> QED BY <1>3 DEF ReadInv, ReadDelivers, Answered

LEMMA ReadInvSector == ASSUME PlainInv, ReadInv, ReadSector PROVE ReadInv'
  <1> DEFINE d == dev[Target]
  <1>0. /\ pc = "poll" /\ Moving /\ IInv /\ Typed /\ Has(Target, "DRQ")
        /\ UNCHANGED <<drives, table, req>> /\ Target' = Target
        /\ mem' = mem \cup {<<Stride * done, d.addr>>}
        /\ done' = done + 1
        /\ IF done' = req.n THEN pc' = "idle" ELSE pc' = "poll" /\ ret' = ret
    BY DEF PlainInv, IInv, ReadSector, Moving, Return, Unchanging, Target, Poll
  <1>1. Target \in Slot /\ d \in State /\ Active(Target)
    BY <1>0, OnTheWay, SlotFacts DEF Accepts
  <1>2. d.op = "read" /\ d.left = req.n - done /\ d.addr = req.lba + done
    BY <1>0, <1>1 DEF Active, Working, ReadInv, Accepts
  <1>3. done \in Nat /\ req.n \in Nat /\ req.lba \in Nat /\ done < req.n
    BY <1>0, RequestFacts DEF IInv, RequestInv
  <1>4. mem' = Got(done + 1)
    BY <1>0, <1>2, <1>3, GotMore DEF ReadInv
  <1>5. mem' = Got(done)'
    BY <1>0, <1>4 DEF Got
  <1>6. Probed' /\ pc' # "wait" /\ pc' \notin {"send", "flush", "sync"}
    BY <1>0 DEF Probed
  <1>7. req.dir = "read"
    BY <1>0 DEF ReadInv
  <1>8. CASE done + 1 = req.n
    <2>1. mem' = {<<Stride * k, req.lba + k>> : k \in 0 .. req.n - 1}
      BY <1>4, <1>8 DEF Got
    <2> QED BY <1>0, <1>6, <1>8, <2>1 DEF ReadInv, ReadDelivers
  <1>9. CASE done + 1 # req.n
    <2> DEFINE e == Busy(d.op, d.addr + 1, d.left - 1, d.from, d.end)
    <2>1. dev' = [dev EXCEPT ![Target] = e]
      BY <1>2, <1>3, <1>9 DEF ReadSector
    <2>2. e.addr = d.addr + 1
      BY DEF Busy
    <2> HIDE DEF e
    <2>3. dev'[Target].addr = req.lba + done'
      BY <1>0, <1>1, <1>2, <1>3, <2>1, <2>2 DEF Typed
    <2>4. pc' = "poll" /\ mem' = Got(done)'
      BY <1>0, <1>5, <1>9
    <2> QED BY <1>0, <1>6, <1>7, <2>3, <2>4 DEF ReadInv, ReadDelivers, Answered
  <1> QED BY <1>8, <1>9

LEMMA ReadInvDrive == ASSUME PlainInv, ReadInv, NEW s \in Slot, Drive(s) PROVE ReadInv'
  <1>0. /\ IInv /\ Typed /\ Has(s, "BSY")
        /\ pc' = pc /\ table' = table /\ req' = req /\ done' = done
        /\ mem' = mem /\ ret' = ret
        /\ Moving' = Moving /\ Target' = Target /\ Probed' = Probed
    BY DriveFrame DEF PlainInv, IInv, Drive
  <1>1. CASE pc = "poll"
    <2>1. Moving /\ Target \in Slot /\ (Accepts(Target) \/ Active(Target))
      BY <1>0, <1>1, OnTheWay DEF Moving
    <2>2. ~Accepts(Target)' => dev'[Target].addr = req.lba + done
      <3>1. CASE s = Target
        <4>1. /\ Active(s) /\ dev[s].status = {"BSY"} /\ dev[s].op = "read"
              /\ dev[s].addr = req.lba + done
          BY <1>0, <1>1, <2>1, <3>1
             DEF Accepts, Active, Working, Has, IInv, StatusInv, ReadInv
        <4>2. \/ dev'[s].status \in {{"ERR"}, {"DF"}, {}}
              \/ dev'[s].addr = dev[s].addr
          BY <1>0, <4>1, DriveWorks
        <4> QED BY <1>0, <3>1, <4>1, <4>2 DEF Accepts, Has
      <3>2. CASE s # Target
        <4>1. dev'[Target] = dev[Target]
          BY <1>0, <2>1, <3>2, DriveFrames
        <4> QED BY <1>0, <1>1, <4>1 DEF Accepts, Has, ReadInv
      <3> QED BY <3>1, <3>2
    <2>3. Got(done)' = Got(done)
      BY <1>0 DEF Got
    <2> QED BY <1>0, <1>1, <2>2, <2>3 DEF ReadInv, ReadDelivers, Answered
  <1>2. CASE pc # "poll"
    BY <1>0, <1>2 DEF ReadInv, ReadDelivers, Answered
  <1> QED BY <1>1, <1>2

LEMMA ReadInvStep == ASSUME PlainInv, ReadInv, [Next]_vars PROVE ReadInv'
  <1>1. CASE Probe
    BY <1>1, ProbeFrame DEF ReadInv, ReadDelivers, Answered, Moving
  <1>2. ASSUME NEW d \in DriveNos, NEW dir \in {"read", "write"},
               NEW lba \in Lbas, NEW n \in Counts, Access(d, dir, lba, n)
        PROVE  ReadInv'
    <2>1. Probed' /\ pc' \notin {"poll", "send", "flush", "sync"} /\ mem' = {}
      BY <1>2, AccessFrame DEF Probed
    <2>2. ~Answered("read")'
      BY <1>2, AccessFrame DEF Answered
    <2> QED BY <2>1, <2>2 DEF ReadInv, ReadDelivers
  <1>3. CASE Transfer
    <2>1. CASE WriteSector \/ Flush \/ Sync
      BY <2>1, TransferFrame, <1>3
         DEF WriteSector, Flush, Sync, Return, ReadInv, ReadDelivers, Answered, Probed
    <2> QED BY <1>3, <2>1, ReadInvIssue, ReadInvFails, ReadInvSector DEF Transfer
  <1>4. ASSUME NEW s \in Slot, Drive(s) PROVE ReadInv'
    BY <1>4, ReadInvDrive
  <1>5. CASE UNCHANGED vars
    BY <1>5
       DEF ReadInv, ReadDelivers, Answered, vars, driver, Probed, Got, Target, Accepts, Has
  <1> QED BY <1>1, <1>2, <1>3, <1>4, <1>5 DEF Next

(* A read that answers 0 has delivered the sectors asked for and no others, *)
(* in every address mode.                                                  *)
THEOREM ReadsDeliver == ASSUME CylindersFit PROVE Spec => []ReadDelivers
  <1>1. Init => ReadInv
    BY DEF Init, ReadInv, ReadDelivers, Answered, Probed
  <1>2. PlainInv /\ ReadInv /\ [Next]_vars => ReadInv'
    BY ReadInvStep
  <1>3. ReadInv => ReadDelivers
    BY DEF ReadInv
  <1> QED BY <1>1, <1>2, <1>3, PlainInvariant, PTL DEF Spec
-----------------------------------------------------------------------------
(* Writes, to drives that report no error. *)

(* What WriteReachesDrive asks of the request. *)
Whole == NoWrap /\ OneMode
Put(n) == {<<req.lba + k, Stride * k>> : k \in 0 .. n - 1}

(* Sector n is with the drive, the ones before it are stored. *)
AtSector(n, op) ==
    /\ dev[Target].op = op
    /\ dev[Target].addr = req.lba + n /\ dev[Target].left = req.n - n
    /\ req.lba + req.n <= dev[Target].end /\ dev[Target].end \in Int
    /\ op = "store" => /\ dev[Target].from = Stride * n
                       /\ dev[Target].status = {"BSY"}
    /\ ~Accepts(Target)
    /\ n \in Nat /\ n < req.n
    /\ taken = Put(n)

AllStored ==
    /\ taken = Put(req.n)
    /\ Accepts(Target) \/ dev[Target].op = "flush"

Writing ==
    /\ req.lba + req.n <= drives[Target].size
    /\ pc = "wait" => taken = {}
    /\ pc = "send" => AtSector(done, "write") \/ AtSector(done - 1, "store")
    /\ pc \in {"flush", "sync"} => AtSector(req.n - 1, "store") \/ AllStored

WriteInv ==
    /\ Moving /\ Whole => Writing
    /\ WriteReachesDrive

LEMMA PutMore ==
    ASSUME NEW n \in Nat
    PROVE  Put(n + 1) = Put(n) \cup {<<req.lba + n, Stride * n>>}
  <1>1. 0 .. n + 1 - 1 = (0 .. n - 1) \cup {n}
    OBVIOUS
  <1> QED BY <1>1 DEF Put

(* What a drive does with a sector, a store and a flush. *)
LEMMA DrivePositions ==
    ASSUME Typed, WriteFaults = {}, NEW s \in Slot, Drive(s),
           dev[s].op = "write", dev[s].addr < drives[s].size, dev[s].addr < dev[s].end
    PROVE  /\ dev'[s].status = {"DRQ"} /\ dev'[s].op = "write"
           /\ dev'[s].addr = dev[s].addr /\ dev'[s].left = dev[s].left
           /\ dev'[s].end = dev[s].end /\ taken' = taken
  <1>1. /\ dev' = [dev EXCEPT ![s].status = {"DRQ"}] /\ taken' = taken
    BY DEF Drive, Identified, Positioned, Stored, Flushed, Fails, media
  <1> QED BY <1>1, StatusEffect DEF StatusBits

LEMMA DriveStores ==
    ASSUME Typed, WriteFaults = {}, NEW s \in Slot, Drive(s), dev[s].op = "store"
    PROVE  /\ taken' = taken \cup {<<dev[s].addr, dev[s].from>>}
           /\ dev[s].left = 1 => dev'[s].status = {}
           /\ dev[s].left # 1 => /\ dev'[s].status = {"BSY"} /\ dev'[s].op = "write"
                                 /\ dev'[s].addr = dev[s].addr + 1
                                 /\ dev'[s].left = dev[s].left - 1
                                 /\ dev'[s].end = dev[s].end
  <1>1. Stored(s)
    BY DEF Drive, Identified, Positioned, Flushed, Fails
  <1>2. CASE dev[s].left = 1
    BY <1>1, <1>2, DriveEnds DEF Stored
  <1>3. CASE dev[s].left # 1
    <2> DEFINE a == dev[s].addr + 1
               n == dev[s].left - 1
               f == dev[s].from
               z == dev[s].end
               e == Busy("write", a, n, f, z)
    <2>1. dev' = [dev EXCEPT ![s] = e] /\ taken' = taken \cup {<<dev[s].addr, dev[s].from>>}
      BY <1>1, <1>3 DEF Stored
    <2>2. e.status = {"BSY"} /\ e.op = "write" /\ e.addr = a /\ e.left = n /\ e.end = z
      BY DEF Busy
    <2> HIDE DEF e
    <2>3. dev'[s] = e
      BY <2>1 DEF Typed
    <2> QED BY <1>3, <2>1, <2>2, <2>3
  <1> QED BY <1>2, <1>3

LEMMA DriveFlushes ==
    ASSUME Typed, WriteFaults = {}, NEW s \in Slot, Drive(s), dev[s].op = "flush"
    PROVE  dev'[s].status = {} /\ taken' = taken
  <1>1. Flushed(s)
    BY DEF Drive, Identified, Positioned, Stored, Fails
  <1> QED BY <1>1, DriveEnds DEF Flushed

(* A drive that is busy without being the one that is written to stores    *)
(* nothing.                                                                *)
LEMMA NothingElseStored ==
    ASSUME IInv, NEW s \in Slot, Drive(s),
           ~(pc \in {"send", "flush", "sync"} /\ s = Target /\ Active(s))
    PROVE  taken' = taken
  <1>0. /\ dev[s].status = {"BSY"} /\ ~Accepts(s) /\ ~Fresh(s) /\ Typed
    BY SlotFacts DEF IInv, Drive, StatusInv, Has, Accepts, Fresh
  <1>1. s < slot \/ s > slot \/ s = slot
    BY <1>0, SlotFacts
  <1>2. Parked(s) \/ dev[s].op \in {"identify", "read"}
    <2>1. CASE Probed
      <3>1. Rests(s) \/ (Moving /\ s = Target /\ Active(s))
        BY <2>1 DEF IInv, DrivesInv
      <3> QED BY <1>0, <3>1 DEF Rests, Active, Working
    <2>2. CASE ~Probed
      <3>1. /\ s < slot => Rests(s)
            /\ s > slot => Fresh(s)
            /\ pc = "select" => Fresh(slot)
            /\ pc = "identify" => Identifying(slot)
            /\ pc = "space" => Offering(slot)
        BY <2>2 DEF IInv, DrivesInv
      <3>2. CASE s = slot
        BY <1>0, <2>2, <3>1, <3>2 DEF Probed, Identifying, Offering
      <3> QED BY <1>0, <1>1, <3>1, <3>2 DEF Rests
    <2> QED BY <2>1, <2>2
  <1>3. dev[s].op \in {"identify", "packet", "read"}
    BY <1>2 DEF Parked
  <1>4. taken' = taken
    BY <1>3 DEF Drive, Identified, Positioned, Stored, Flushed, Fails, media
  <1> QED BY <1>4

LEMMA WriteInvAccess ==
    ASSUME PlainInv, WriteInv, NEW d \in DriveNos, NEW dir \in {"read", "write"},
           NEW lba \in Lbas, NEW n \in Counts, Access(d, dir, lba, n)
    PROVE  WriteInv'
  <1>0. /\ UNCHANGED <<drives, table>> /\ taken' = {}
        /\ req'.drive = d /\ req'.lba = lba /\ req'.n = n
    BY AccessFrame
  <1>1. CASE pc' = "wait"
    <2>1. /\ d + 1 \in DOMAIN table /\ ~table[d + 1].atapi /\ Fits(table[d + 1], lba, n)
      BY <1>1, AccessFrame DEF Present
    <2>2. table[d + 1].size = drives[table[d + 1].slot].size
      BY <2>1 DEF PlainInv, EntriesInv
    <2>3. lba \in Nat /\ n \in Nat
      BY IdeAssumption
    <2>4. lba + n < Page * Byte => lba + n <= table[d + 1].size
      <3>1. lba + n \in Nat /\ Page * Byte \in Nat
        BY <2>3, Widths
      <3>2. lba + n < Page * Byte => (lba + n) % (Page * Byte) = lba + n
        BY <3>1
      <3> QED BY <2>1, <3>2 DEF Fits
    <2>5. Whole' => Writing'
      BY <1>0, <1>1, <2>2, <2>4 DEF Whole, NoWrap, OneMode, Writing, Target
    <2> QED BY <1>1, <2>5 DEF WriteInv, WriteReachesDrive, Answered
  <1>2. CASE pc' # "wait"
    <2>1. ~Moving' /\ ~Answered("write")'
      BY <1>2, AccessFrame DEF Moving, Answered
    <2> QED BY <2>1 DEF WriteInv, WriteReachesDrive
  <1> QED BY <1>1, <1>2

LEMMA WriteInvIssue == ASSUME PlainInv, WriteInv, Issue PROVE WriteInv'
  <1> DEFINE mode == Mode(table[req.drive + 1], req.lba)
             addr == Addressed(mode, Registers(mode, req.lba))
  <1>0. /\ pc = "wait" /\ Moving /\ IInv /\ Typed
        /\ Command(Target, req.dir, addr, req.n, Reach(mode))
        /\ pc' = (IF req.dir = "read" THEN "poll" ELSE "send")
        /\ UNCHANGED <<drives, table, req, done, taken>> /\ Target' = Target
    BY DEF PlainInv, IInv, Issue, Moving, Unchanging, Target, media
  <1>1. addr = req.lba /\ Reach(mode) \in Int
    BY <1>0, Widths DEF PlainInv, AddressInv, RightAddress, Reach
  <1>9. ASSUME Whole PROVE req.lba + req.n <= Reach(mode)
    <2>1. /\ req.lba \in Int /\ req.n \in Int /\ LbaLimit \in Int /\ Page * Byte \in Int
          /\ req.lba + req.n < Page * Byte
          /\ req.lba >= LbaLimit \/ req.lba + req.n <= LbaLimit
          /\ req.n > 0
      BY <1>0, <1>9, Widths, RequestFacts DEF IInv, RequestInv, Whole, NoWrap, OneMode
    <2>2. mode = "lba28" => ~(req.lba >= LbaLimit)
      BY DEF Mode
    <2>3. Reach(mode) = IF mode = "lba28" THEN LbaLimit ELSE Page * Byte
      BY DEF Reach
    <2> HIDE DEF mode
    <2> QED BY <2>1, <2>2, <2>3
  <1> HIDE DEF addr, mode
  <1>2. Target \in Slot /\ Kind(Target) = "ata" /\ Accepts(Target)
    BY <1>0, OnTheWay DEF Active
  <1>3. /\ req.dir \in {"read", "write"} /\ req.n \in Int /\ req.lba \in Int
        /\ done = 0 /\ done < req.n
    BY <1>0, RequestFacts DEF IInv, RequestInv
  <1>4. /\ dev'[Target].status = {"BSY"} /\ dev'[Target].op = req.dir
        /\ dev'[Target].addr = req.lba /\ dev'[Target].left = req.n
        /\ dev'[Target].end = Reach(mode)
    BY <1>0, <1>1, <1>2, <1>3, CommandEffect DEF Ops, Kind
  <1>5. Put(0)' = {}
    BY DEF Put
  <1>6. Whole' => Writing
    BY <1>0 DEF WriteInv, Whole, NoWrap, OneMode
  <1>7. Whole /\ pc' = "send" /\ Writing => AtSector(done, "write")'
    <2> HAVE Whole /\ pc' = "send" /\ Writing
    <2>1. req.dir = "write" /\ taken' = {}
      BY <1>0, <1>3 DEF Writing
    <2>2. AtSector(0, "write")'
      BY <1>0, <1>1, <1>9, <1>3, <1>4, <1>5, <2>1 DEF AtSector, Accepts, Has
    <2>3. done' = 0
      BY <1>0, <1>3
    <2> QED BY <2>2, <2>3
  <1>8. Whole' => Writing'
    BY <1>0, <1>6, <1>7 DEF Writing, Whole, NoWrap, OneMode
  <1> QED BY <1>0, <1>8 DEF WriteInv, WriteReachesDrive, Answered

LEMMA WriteInvSector == ASSUME PlainInv, WriteInv, WriteSector PROVE WriteInv'
  <1> DEFINE d == dev[Target]
             e == Busy("store", d.addr, d.left, Stride * done, d.end)
  <1>0. /\ pc = "send" /\ Moving /\ IInv /\ Typed /\ Polled(Target)
        /\ done' = done + 1
        /\ pc' = (IF done' = req.n THEN "flush" ELSE "send")
        /\ dev' = (IF Has(Target, "DRQ") THEN [dev EXCEPT ![Target] = e] ELSE dev)
        /\ UNCHANGED <<drives, table, req, taken>> /\ Target' = Target
    BY DEF PlainInv, IInv, WriteSector, Moving, Unchanging, Target, media
  <1>1. Target \in Slot /\ done \in Nat /\ req.n \in Nat /\ done < req.n
    BY <1>0, OnTheWay, RequestFacts DEF IInv, RequestInv
  <1>2. /\ e.status = {"BSY"} /\ e.op = "store" /\ e.addr = d.addr
        /\ e.left = d.left /\ e.from = Stride * done /\ e.end = d.end
    BY DEF Busy
  <1> HIDE DEF e
  <1>3. ASSUME Whole PROVE Writing'
    <2>1. Writing /\ AtSector(done, "write")
      BY <1>0, <1>3 DEF WriteInv, Writing, AtSector, Polled, Has
    <2>2. dev'[Target] = e
      BY <1>0, <1>1, <2>1 DEF AtSector, Accepts, Polled, Typed
    <2>3. \A n \in Int : n = done => AtSector(n, "store")'
      BY <1>0, <1>1, <1>2, <2>1, <2>2 DEF AtSector, Accepts, Has, Put
    <2>4. pc' = "send" => done' - 1 = done
      BY <1>0, <1>1
    <2>5. pc' = "flush" => req'.n - 1 = done
      BY <1>0, <1>1
    <2>6. done \in Int
      BY <1>1
    <2>7. pc' = "send" => AtSector(done - 1, "store")'
      BY <2>3, <2>4, <2>6 DEF AtSector, Put
    <2>8. pc' = "flush" => AtSector(req.n - 1, "store")'
      BY <2>3, <2>5, <2>6 DEF AtSector, Put
    <2> QED BY <1>0, <2>1, <2>7, <2>8 DEF Writing
  <1>4. Whole' = Whole /\ pc' # "idle"
    BY <1>0 DEF Whole, NoWrap, OneMode
  <1> QED BY <1>3, <1>4 DEF WriteInv, WriteReachesDrive, Answered

LEMMA WriteInvFlush == ASSUME PlainInv, WriteInv, Flush PROVE WriteInv'
  <1>0. /\ pc = "flush" /\ Moving /\ IInv /\ Typed
        /\ Command(Target, "flush", 0, 1, 0) /\ pc' = "sync"
        /\ UNCHANGED <<drives, table, req, done, taken>> /\ Target' = Target
    BY DEF PlainInv, IInv, Flush, Moving, Unchanging, Target, media
  <1>1. Target \in Slot /\ Kind(Target) = "ata"
    BY <1>0, OnTheWay
  <1>2. IF Accepts(Target) THEN dev'[Target].op = "flush" ELSE dev' = dev
    BY <1>0, <1>1, CommandEffect DEF Ops, Kind
  <1>3. ASSUME Whole PROVE Writing'
    <2>1. Writing /\ (AtSector(req.n - 1, "store") \/ AllStored)
      BY <1>0, <1>3 DEF WriteInv, Writing
    <2>2. Put(req.n)' = Put(req.n) /\ Put(req.n - 1)' = Put(req.n - 1)
      BY <1>0 DEF Put
    <2>3. AtSector(req.n - 1, "store") => AtSector(req.n - 1, "store")'
      BY <1>0, <1>2, <2>2 DEF AtSector, Accepts, Has
    <2>4. AllStored => AllStored'
      BY <1>0, <1>2, <2>2 DEF AllStored, Accepts, Has
    <2> QED BY <1>0, <2>1, <2>3, <2>4 DEF Writing
  <1>4. Whole' = Whole
    BY <1>0 DEF Whole, NoWrap, OneMode
  <1> QED BY <1>0, <1>3, <1>4 DEF WriteInv, WriteReachesDrive, Answered

LEMMA WriteInvSync == ASSUME PlainInv, WriteInv, Sync PROVE WriteInv'
  <1>0. /\ pc = "sync" /\ Moving /\ Polled(Target)
        /\ pc' = "idle" /\ UNCHANGED <<req, taken>>
    BY DEF Sync, Return, Moving, Unchanging, media
  <1>1. Whole => taken = Put(req.n)
    BY <1>0 DEF WriteInv, Writing, AtSector, AllStored, Polled, Has
  <1>2. Put(req.n)' = Put(req.n) /\ Sent' = Put(req.n)'
    BY <1>0 DEF Put, Sent
  <1>3. ~Moving'
    BY <1>0 DEF Moving
  <1> QED BY <1>0, <1>1, <1>2, <1>3 DEF WriteInv, WriteReachesDrive, Whole, NoWrap, OneMode

LEMMA WriteInvDrive ==
    ASSUME PlainInv, WriteInv, WriteFaults = {}, NEW s \in Slot, Drive(s)
    PROVE  WriteInv'
  <1>0. /\ IInv /\ Typed /\ dev[s].status = {"BSY"} /\ Has(s, "BSY") /\ ~Accepts(s)
        /\ pc' = pc /\ table' = table /\ req' = req /\ done' = done /\ drives' = drives
        /\ ret' = ret /\ Moving' = Moving /\ Target' = Target
    BY DriveFrame DEF PlainInv, IInv, Drive, StatusInv, Has, Accepts
  <1>1. /\ Whole' = Whole /\ Sent' = Sent
        /\ \A n : Put(n)' = Put(n)
    BY <1>0 DEF Whole, NoWrap, OneMode, Sent, Put
  <1>2. CASE Moving /\ Whole /\ s = Target /\ pc \in {"send", "flush", "sync"}
    <2>0. /\ Writing /\ Target \in Slot
          /\ req.n \in Int /\ req.lba \in Int /\ done \in Int
          /\ drives[Target].size \in Int
      <3>1. drives[Target] \in Drives
        BY <1>0, <1>2, OnTheWay, SlotFacts
      <3> QED BY <1>0, <1>2, <3>1, OnTheWay, RequestFacts DEF WriteInv, Drives
    <2>1. ASSUME AtSector(done, "write") PROVE AtSector(done, "write")'
      <3>1. dev[s].addr < drives[s].size /\ dev[s].addr < dev[s].end
        BY <1>2, <2>0, <2>1 DEF AtSector, Writing
      <3>2. /\ dev'[s].status = {"DRQ"} /\ dev'[s].op = "write"
            /\ dev'[s].addr = dev[s].addr /\ dev'[s].left = dev[s].left
            /\ dev'[s].end = dev[s].end /\ taken' = taken
        BY <1>0, <1>2, <2>1, <3>1, DrivePositions DEF AtSector
      <3> QED BY <1>0, <1>1, <1>2, <2>1, <3>2 DEF AtSector, Accepts, Has
    <2>2. ASSUME NEW n \in Nat, AtSector(n, "store")
          PROVE  /\ taken' = Put(n + 1)
                 /\ n = req.n - 1 => Accepts(Target)'
                 /\ n # req.n - 1 => /\ dev'[s].status = {"BSY"} /\ dev'[s].op = "write"
                                     /\ dev'[s].addr = req.lba + (n + 1)
                                     /\ dev'[s].left = req.n - (n + 1)
                                     /\ dev'[s].end = dev[s].end
      <3>1. /\ dev[s].op = "store" /\ dev[s].addr = req.lba + n
            /\ dev[s].left = req.n - n /\ dev[s].from = Stride * n /\ taken = Put(n)
        BY <1>2, <2>2 DEF AtSector
      <3>2. taken' = Put(n + 1)
        BY <1>0, <3>1, PutMore, DriveStores
      <3>3. CASE n = req.n - 1
        <4>1. dev'[s].status = {}
          BY <1>0, <2>0, <3>1, <3>3, DriveStores
        <4> QED BY <1>0, <1>2, <3>2, <3>3, <4>1 DEF Accepts, Has
      <3>4. CASE n # req.n - 1
        BY <1>0, <2>0, <3>1, <3>2, <3>4, DriveStores
      <3> QED BY <3>3, <3>4
    <2>3. CASE pc = "send"
      <3>1. CASE AtSector(done, "write")
        BY <1>0, <2>0, <2>1, <2>3, <3>1 DEF Writing, WriteInv, WriteReachesDrive, Answered
      <3>2. CASE AtSector(done - 1, "store")
        <4>1. done - 1 \in Nat /\ done - 1 # req.n - 1 /\ done < req.n
          BY <1>0, <2>0, <2>3, <3>2 DEF AtSector, IInv, RequestInv, Moving
        <4>2. /\ taken' = Put(done)
              /\ dev'[s].status = {"BSY"} /\ dev'[s].op = "write"
              /\ dev'[s].addr = req.lba + done /\ dev'[s].left = req.n - done
              /\ dev'[s].end = dev[s].end
          BY <2>0, <2>2, <3>2, <4>1
        <4>3. AtSector(done, "write")'
          BY <1>0, <1>1, <1>2, <2>0, <3>2, <4>1, <4>2 DEF AtSector, Accepts, Has
        <4> QED BY <1>0, <2>0, <2>3, <4>3 DEF Writing, WriteInv, WriteReachesDrive, Answered
      <3> QED BY <2>0, <2>3, <3>1, <3>2 DEF Writing
    <2>4. CASE pc \in {"flush", "sync"}
      <3>1. CASE AtSector(req.n - 1, "store")
        <4>1. req.n - 1 \in Nat
          BY <3>1 DEF AtSector
        <4>2. taken' = Put(req.n) /\ Accepts(Target)'
          BY <2>0, <2>2, <3>1, <4>1
        <4>3. AllStored'
          BY <1>0, <1>1, <4>2 DEF AllStored
        <4> QED BY <1>0, <2>0, <2>4, <4>3 DEF Writing, WriteInv, WriteReachesDrive, Answered
      <3>2. CASE AllStored
        <4>1. dev[s].op = "flush"
          BY <1>0, <1>2, <3>2 DEF AllStored
        <4>2. dev'[s].status = {} /\ taken' = taken
          BY <1>0, <4>1, DriveFlushes
        <4>3. AllStored'
          BY <1>0, <1>1, <1>2, <3>2, <4>2 DEF AllStored, Accepts, Has
        <4> QED BY <1>0, <2>0, <2>4, <4>3 DEF Writing, WriteInv, WriteReachesDrive, Answered
      <3> QED BY <2>0, <2>4, <3>1, <3>2 DEF Writing
    <2> QED BY <1>2, <2>3, <2>4
  <1>3. CASE ~Whole
    BY <1>1, <1>3 DEF WriteInv, WriteReachesDrive, Whole, NoWrap, OneMode
  <1>4. CASE Whole /\ ~(Moving /\ s = Target /\ pc \in {"send", "flush", "sync"})
    <2>1. taken' = taken
      BY <1>0, <1>4, NothingElseStored DEF Moving
    <2>2. ASSUME Moving PROVE Writing'
      <3>1. Writing /\ Target \in Slot
        BY <1>0, <1>4, <2>2, OnTheWay DEF WriteInv
      <3>2. CASE pc \in {"send", "flush", "sync"}
        <4>1. dev'[Target] = dev[Target]
          BY <1>0, <1>4, <2>2, <3>1, <3>2, DriveFrames
        <4>2. AllStored => AllStored'
          BY <1>0, <1>1, <2>1, <4>1 DEF AllStored, Accepts, Has
        <4>3. /\ AtSector(done, "write") => AtSector(done, "write")'
              /\ AtSector(done - 1, "store") => AtSector(done - 1, "store")'
              /\ AtSector(req.n - 1, "store") => AtSector(req.n - 1, "store")'
          BY <1>0, <1>1, <2>1, <4>1 DEF AtSector, Accepts, Has
        <4> QED BY <1>0, <3>1, <3>2, <4>2, <4>3 DEF Writing
      <3>3. CASE pc \notin {"send", "flush", "sync"}
        BY <1>0, <2>1, <3>1, <3>3 DEF Writing
      <3> QED BY <3>2, <3>3
    <2>3. WriteReachesDrive'
      BY <1>0, <1>1, <2>1 DEF WriteInv, WriteReachesDrive, Answered, Whole, NoWrap, OneMode
    <2> QED BY <1>0, <2>2, <2>3 DEF WriteInv
  <1> QED BY <1>2, <1>3, <1>4

LEMMA WriteInvStep ==
    ASSUME PlainInv, ReadInv, WriteInv, WriteFaults = {}, [Next]_vars
    PROVE  WriteInv'
  <1>1. CASE Probe
    BY <1>1, ProbeFrame DEF WriteInv, WriteReachesDrive, Answered, ReadInv
  <1>2. ASSUME NEW d \in DriveNos, NEW dir \in {"read", "write"},
               NEW lba \in Lbas, NEW n \in Counts, Access(d, dir, lba, n)
        PROVE  WriteInv'
    BY <1>2, WriteInvAccess
  <1>3. CASE ReadFails \/ ReadSector
    <2>1. /\ pc = "poll" /\ req.dir = "read" /\ pc' \in {"poll", "idle"}
          /\ UNCHANGED <<drives, table, req, taken>>
      BY <1>3 DEF ReadFails, ReadSector, Return, ReadInv, Unchanging, media
    <2>2. Moving' => Moving /\ pc' = "poll" /\ Target' = Target /\ Whole' = Whole
      BY <2>1 DEF Moving, Target, Whole, NoWrap, OneMode
    <2> QED BY <2>1, <2>2 DEF WriteInv, WriteReachesDrive, Answered, Writing
  <1>4. CASE Transfer
    BY <1>3, <1>4, WriteInvIssue, WriteInvSector, WriteInvFlush, WriteInvSync DEF Transfer
  <1>5. ASSUME NEW s \in Slot, Drive(s) PROVE WriteInv'
    BY <1>5, WriteInvDrive
  <1>6. CASE UNCHANGED vars
    BY <1>6
       DEF WriteInv, WriteReachesDrive, Answered, Writing, AtSector, AllStored, vars, driver,
           media, Moving, Whole, NoWrap, OneMode, Put, Sent, Target, Accepts, Has
  <1> QED BY <1>1, <1>2, <1>4, <1>5, <1>6 DEF Next

(* On drives that report no error, a write that answers 0 has stored every *)
(* sector of the buffer at its address, when lba + num_sectors does not    *)
(* wrap and one address mode can name all of it.                           *)
THEOREM WritesArrive ==
    ASSUME CylindersFit, WriteFaults = {}
    PROVE  Spec => []WriteReachesDrive
  <1>1. Init => ReadInv
    BY DEF Init, ReadInv, ReadDelivers, Answered, Probed
  <1>2. PlainInv /\ ReadInv /\ [Next]_vars => ReadInv'
    BY ReadInvStep
  <1>3. Init => WriteInv
    BY DEF Init, WriteInv, WriteReachesDrive, Answered, Moving
  <1>4. PlainInv /\ ReadInv /\ WriteInv /\ [Next]_vars => WriteInv'
    BY WriteInvStep
  <1>5. WriteInv => WriteReachesDrive
    BY DEF WriteInv
  <1> QED BY <1>1, <1>2, <1>3, <1>4, <1>5, PlainInvariant, PTL DEF Spec
=============================================================================
