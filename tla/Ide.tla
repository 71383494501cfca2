-------------------------------- MODULE Ide ---------------------------------
(***************************************************************************)
(* The IDE driver of drivers/ide/ide.c against the drives on its two       *)
(* channels: the probing of ide_init, then reads and writes in PIO mode.   *)
(* The driver runs on the processor and polls; a drive works on its own,   *)
(* so its answers come between any two polls.                              *)
(*                                                                         *)
(* The drives are not part of the repository.  They are modelled as the    *)
(* driver uses them: a command sets BSY; when BSY clears, DRQ offers or    *)
(* asks for one sector, or ERR or DF tells why not (always ERR behind the  *)
(* drive's last sector, or the last that the command's address can name);  *)
(* a command that comes while BSY or DRQ is set is ignored.                *)
(*                                                                         *)
(* A sector's contents are its address.  Registers keep their widths, in   *)
(* the units Byte and Nibble.                                              *)
(***************************************************************************)
EXTENDS Integers, Sequences, FiniteSets

CONSTANTS
    Machines,      \* what may be attached: functions from the slots to drives
    ReadFaults,    \* how a read may fail, WriteFaults a write or a flush
    WriteFaults,
    DriveNos, Lbas, Counts,  \* what callers pass as drive, lba, num_sectors
    Byte, Nibble,  \* values of a register, of the low half of HDDEVSEL: 256, 16
    Spt, Heads     \* 63 sectors per track, 16 heads

Slot == 0 .. 3     \* 2 * channel + drive
Kinds == {"none", "ata", "atapi", "other"}
Faults == {{"ERR"}, {"DF"}, {}}

ASSUME IdeAssumption ==
    /\ Machines \subseteq [Slot -> [kind : Kinds, lba : BOOLEAN, size : Nat]]
    /\ ReadFaults \subseteq Faults /\ WriteFaults \subseteq Faults
    /\ Byte \in Nat \ {0} /\ Nibble \in 1 .. Byte - 1
    /\ Spt \in 1 .. Byte - 1 /\ Heads \in 1 .. Nibble
    /\ DriveNos \subseteq 0 .. 4
    /\ Lbas \subseteq 0 .. Byte * Byte * Byte * Byte - 1
    /\ Counts \subseteq 1 .. Byte - 1

Page == Byte * Byte * Byte
LbaLimit == Page * Nibble     \* 0x10000000
Stride == 4                   \* buffer += words * 2 skips 2048 bytes

VARIABLES
    drives,    \* what is attached
    dev,       \* each drive: status bits, command, address, sectors left,
               \* where they come from, where the command's addresses end
    selected,  \* the drive last selected on each channel
    pc, slot,  \* where the driver is, and the slot it probes
    table,     \* g_ide_devices up to count
    req, done, \* the access, and the sectors its loop has passed
    mem,       \* pairs of an offset in the caller's buffer and a sector
    taken,     \* pairs of an address and the buffer offset the drive wrote there
    durable,   \* those of them that a flush has reached
    ret        \* the answer to the last access

driver == <<pc, slot, table, req, done, mem, ret>>
media == <<taken, durable>>
vars == <<drives, dev, selected, driver, media>>

Channel(s) == s \div 2
NoReq == [drive |-> 0, dir |-> "read", lba |-> 0, n |-> 0]

(* A drive that is busy with a command, and one that is not.               *)
Busy(op, addr, left, from, end) ==
    [status |-> {"BSY"}, op |-> op, addr |-> addr, left |-> left, from |-> from,
     end |-> end]
Resting(status) ==
    [status |-> status, op |-> "none", addr |-> 0, left |-> 0, from |-> 0, end |-> 0]
-----------------------------------------------------------------------------
(* Slips a change to this code could make stand before the definition they *)
(* change; Spec uses none of them.                                         *)

Mode(d, lba) ==
    IF lba >= LbaLimit THEN "lba48" ELSE IF d.lba THEN "lba28" ELSE "chs"

ByteOf(lba, k) ==
    CASE k = 0 -> lba % Byte
      [] k = 1 -> (lba \div Byte) % Byte
      [] k = 2 -> (lba \div (Byte * Byte)) % Byte
      [] k = 3 -> (lba \div Page) % Byte

(* What (I) of ide_ata_access puts into lba_io and head; cyl has 16 bits.  *)
Registers(mode, lba) ==
    LET sect == (lba % Spt) + 1
        track == lba + 1 - sect
        cyl == (track \div (Heads * Spt)) % (Byte * Byte)
    IN  IF mode = "chs"
        THEN [io |-> [k \in 0 .. 3 |-> CASE k = 0 -> sect
                                         [] k = 1 -> cyl % Byte
                                         [] k = 2 -> cyl \div Byte
                                         [] k = 3 -> 0],
              head |-> (track % (Heads * Spt)) \div Spt]
        ELSE [io |-> [k \in 0 .. 3 |-> IF k = 3 /\ mode = "lba28" THEN 0
                                       ELSE ByteOf(lba, k)],
              head |-> IF mode = "lba28" THEN (lba \div Page) % Nibble ELSE 0]

(* The sector a drive understands by them. *)
Addressed(mode, r) ==
    IF mode = "chs"
    THEN ((r.io[2] * Byte + r.io[1]) * Heads + r.head) * Spt + r.io[0] - 1
    ELSE IF mode = "lba28"
    THEN r.head * Page + r.io[2] * Byte * Byte + r.io[1] * Byte + r.io[0]
    ELSE r.io[3] * Page + r.io[2] * Byte * Byte + r.io[1] * Byte + r.io[0]

(* Where the addresses of a command end.  A cylinder that its registers    *)
(* cut off is in what Addressed makes of them.                             *)
Reach(mode) == IF mode = "lba28" THEN LbaLimit ELSE Page * Byte

(* ide_print_error: the code for an error.  For error 2 the error register *)
(* decides: 2 when no bit of it is set, else one of six codes, here 22.    *)
PrintError(err) ==
    CASE err = 1 -> {19}
      [] err = 2 -> {2, 22}
      [] err = 3 -> {23}
      [] err = 4 -> {8}
      [] OTHER -> {err}
-----------------------------------------------------------------------------
(* The drives.                                                             *)

Has(s, bit) == bit \in dev[s].status
Accepts(s) == ~Has(s, "BSY") /\ ~Has(s, "DRQ")

(* A command arrives at a drive. *)
Command(s, op, addr, n, end) ==
    dev' = IF Accepts(s) /\ drives[s].kind # "none"
           THEN [dev EXCEPT ![s] = Busy(op, addr, n, 0, end)]
           ELSE dev

Ends(s, status) == dev' = [dev EXCEPT ![s] = Resting(status)]

(* A drive is done with what it was busy with. *)
Identified(s) ==
    /\ dev[s].op \in {"identify", "packet"}
    /\ IF dev[s].op = "packet" \/ drives[s].kind = "ata"
       THEN dev' = [dev EXCEPT ![s].status = {"DRQ"}]
       ELSE Ends(s, {"ERR"})
    /\ UNCHANGED media

Positioned(s) ==
    /\ dev[s].op \in {"read", "write"}
    /\ IF dev[s].addr < drives[s].size /\ dev[s].addr < dev[s].end
       THEN dev' = [dev EXCEPT ![s].status = {"DRQ"}]
       ELSE Ends(s, {"ERR"})
    /\ UNCHANGED media

Stored(s) ==
    /\ dev[s].op = "store"
    /\ taken' = taken \cup {<<dev[s].addr, dev[s].from>>}
    /\ IF dev[s].left = 1
       THEN Ends(s, {})
       ELSE dev' = [dev EXCEPT ![s] = Busy("write", @.addr + 1, @.left - 1, @.from, @.end)]
    /\ UNCHANGED durable

Flushed(s) ==
    /\ dev[s].op = "flush"
    /\ durable' = taken
    /\ Ends(s, {})
    /\ UNCHANGED taken

Fails(s) ==
    /\ \/ dev[s].op = "read" /\ \E f \in ReadFaults : Ends(s, f)
       \/ dev[s].op \in {"write", "store", "flush"}
            /\ \E f \in WriteFaults : Ends(s, f)
    /\ UNCHANGED media

Drive(s) ==
    /\ Has(s, "BSY")
    /\ Identified(s) \/ Positioned(s) \/ Stored(s) \/ Flushed(s) \/ Fails(s)
    /\ UNCHANGED <<drives, selected, driver>>
-----------------------------------------------------------------------------
(* ide_init: every slot in turn.                                           *)

Init ==
    /\ drives \in Machines
    /\ dev = [s \in Slot |-> Resting({})]
    /\ selected = [c \in {0, 1} |-> 2 * c]
    /\ pc = "select" /\ slot = 0
    /\ table = <<>>
    /\ req = NoReq /\ done = 0 /\ mem = {} /\ ret = -1
    /\ taken = {} /\ durable = {}

NextSlotPastLast ==
    IF slot = 4 THEN pc' = "idle" /\ slot' = slot
                ELSE pc' = "select" /\ slot' = slot + 1

NextSlot ==
    IF slot = 3 THEN pc' = "idle" /\ slot' = slot
                ELSE pc' = "select" /\ slot' = slot + 1

(* Select the drive and send IDENTIFY; a status of 0 means no drive. *)
ProbeSelect ==
    /\ pc = "select"
    /\ selected' = [selected EXCEPT ![Channel(slot)] = slot]
    /\ Command(slot, "identify", 0, 1, 0)
    /\ IF dev'[slot].status = {} THEN NextSlot ELSE pc' = "identify" /\ slot' = slot
    /\ UNCHANGED <<drives, table, req, done, mem, ret, media>>

ProbeStatus ==
    /\ pc = "identify"
    /\ \/ /\ Has(slot, "ERR")
          /\ IF drives[slot].kind = "atapi"   \* its signature is in LBA1, LBA2
             THEN Command(slot, "packet", 0, 1, 0) /\ pc' = "space" /\ slot' = slot
             ELSE dev' = dev /\ NextSlot
       \/ /\ ~Has(slot, "ERR") /\ ~Has(slot, "BSY") /\ Has(slot, "DRQ")
          /\ dev' = dev /\ pc' = "space" /\ slot' = slot
    /\ UNCHANGED <<drives, selected, table, req, done, mem, ret, media>>

Entry ==
    LET ata == drives[slot].kind = "ata"
    IN  [slot |-> slot, atapi |-> ~ata,
         lba |-> ata /\ drives[slot].lba,
         size |-> IF ata THEN drives[slot].size ELSE 0]

ProbeReadInFront ==
    /\ pc = "space"
    /\ table' = <<Entry>> \o table
    /\ IF Has(slot, "DRQ") THEN Ends(slot, {}) ELSE dev' = dev
    /\ NextSlot
    /\ UNCHANGED <<drives, selected, req, done, mem, ret, media>>

(* The identification space is read without a look at the status: a packet *)
(* drive may still be busy, and what is read then is not its data.  The    *)
(* fields of a packet drive are only printed, so they have no value here.  *)
ProbeRead ==
    /\ pc = "space"
    /\ table' = Append(table, Entry)
    /\ IF Has(slot, "DRQ") THEN Ends(slot, {}) ELSE dev' = dev
    /\ NextSlot
    /\ UNCHANGED <<drives, selected, req, done, mem, ret, media>>
-----------------------------------------------------------------------------
(* ide_read_sectors and ide_write_sectors.                                 *)

Target == table[req.drive + 1].slot
Present(d) == d + 1 \in DOMAIN table
Fits(e, lba, n) == (lba + n) % (Page * Byte) <= e.size

Return(code) == pc' = "idle" /\ ret' = code
Unchanging == UNCHANGED <<drives, slot, table, req>>

(* The checks, and for a packet drive the report of an err that was never  *)
(* set: any byte, 5 standing for those that ide_print_error does not know. *)
Access(d, dir, lba, n) ==
    /\ pc = "idle"
    /\ req' = [drive |-> d, dir |-> dir, lba |-> lba, n |-> n]
    /\ done' = 0 /\ mem' = {} /\ taken' = {} /\ durable' = {}
    /\ IF ~Present(d) THEN Return(-1)
       ELSE LET e == table[d + 1]
            IN  IF e.atapi
                THEN \E err \in 0 .. 5 : \E code \in PrintError(err) : Return(code)
                ELSE IF Fits(e, lba, n) THEN pc' = "wait" /\ ret' = ret
                ELSE Return(-2)
    /\ UNCHANGED <<drives, dev, selected, slot, table>>

(* Wait while the selected drive is busy, select, program and command. *)
Issue ==
    /\ pc = "wait"
    /\ ~Has(selected[Channel(Target)], "BSY")
    /\ LET mode == Mode(table[req.drive + 1], req.lba)
       IN  Command(Target, req.dir, Addressed(mode, Registers(mode, req.lba)), req.n,
                   Reach(mode))
    /\ selected' = [selected EXCEPT ![Channel(Target)] = Target]
    /\ pc' = IF req.dir = "read" THEN "poll" ELSE "send"
    /\ UNCHANGED <<done, mem, ret, media>> /\ Unchanging

PollIgnoresErrors(s) == 0

(* ide_polling(channel, 1): the error, or 0 when a sector waits. *)
Poll(s) ==
    IF Has(s, "ERR") THEN 2 ELSE IF Has(s, "DF") THEN 1
    ELSE IF Has(s, "DRQ") THEN 0 ELSE 3

PolledUntilData(s) == Has(s, "DRQ")

(* The end of the loop of ide_polling. *)
Polled(s) == ~Has(s, "BSY")

ReadFails ==
    /\ pc = "poll" /\ Polled(Target)
    /\ Poll(Target) # 0
    /\ \E code \in PrintError(Poll(Target)) : Return(code)
    /\ UNCHANGED <<dev, selected, done, mem, media>> /\ Unchanging

ReadSectorOnce ==
    /\ pc = "poll" /\ Polled(Target)
    /\ Poll(Target) = 0
    /\ LET d == dev[Target]
       IN  /\ mem' = mem \cup {<<Stride * done, d.addr>>}
           /\ IF d.left <= 1
              THEN Ends(Target, {})
              ELSE dev' = [dev EXCEPT ![Target] =
                                          Busy(d.op, d.addr + 1, d.left - 1, d.from, d.end)]
    /\ done' = done + 1
    /\ Return(0)
    /\ UNCHANGED <<selected, media>> /\ Unchanging

(* insw takes a sector from a drive that offers one. *)
ReadSector ==
    /\ pc = "poll" /\ Polled(Target)
    /\ Poll(Target) = 0
    /\ LET d == dev[Target]
       IN  /\ mem' = mem \cup {<<Stride * done, d.addr>>}
           /\ IF d.left <= 1
              THEN Ends(Target, {})
              ELSE dev' = [dev EXCEPT ![Target] =
                                          Busy(d.op, d.addr + 1, d.left - 1, d.from, d.end)]
    /\ done' = done + 1
    /\ IF done' = req.n THEN Return(0) ELSE pc' = pc /\ ret' = ret
    /\ UNCHANGED <<selected, media>> /\ Unchanging

WriteSectorUnpolled ==
    /\ pc = "send"
    /\ dev' = IF Has(Target, "DRQ")
              THEN [dev EXCEPT ![Target] =
                                   Busy("store", @.addr, @.left, Stride * done, @.end)]
              ELSE dev
    /\ done' = done + 1
    /\ pc' = IF done' = req.n THEN "flush" ELSE pc
    /\ UNCHANGED <<selected, mem, ret, media>> /\ Unchanging

(* ide_polling(channel, 0) looks at BSY only, so outsw may send a sector   *)
(* that the drive does not ask for.                                        *)
WriteSector ==
    /\ pc = "send" /\ Polled(Target)
    /\ dev' = IF Has(Target, "DRQ")
              THEN [dev EXCEPT ![Target] =
                                   Busy("store", @.addr, @.left, Stride * done, @.end)]
              ELSE dev
    /\ done' = done + 1
    /\ pc' = IF done' = req.n THEN "flush" ELSE pc
    /\ UNCHANGED <<selected, mem, ret, media>> /\ Unchanging

(* The flush goes out right behind the last sector. *)
Flush ==
    /\ pc = "flush"
    /\ Command(Target, "flush", 0, 1, 0)
    /\ pc' = "sync"
    /\ UNCHANGED <<selected, done, mem, ret, media>> /\ Unchanging

Sync ==
    /\ pc = "sync" /\ Polled(Target)
    /\ Return(0)
    /\ UNCHANGED <<dev, selected, done, mem, media>> /\ Unchanging

Probe == ProbeSelect \/ ProbeStatus \/ ProbeRead
Transfer == Issue \/ ReadFails \/ ReadSector \/ WriteSector \/ Flush \/ Sync

Next ==
    \/ Probe
    \/ \E d \in DriveNos, dir \in {"read", "write"}, lba \in Lbas, n \in Counts :
          Access(d, dir, lba, n)
    \/ Transfer
    \/ \E s \in Slot : Drive(s)

Spec == Init /\ [][Next]_vars

(* kmain polls until it has an answer; a drive is not busy for ever.       *)
FairSpec ==
    /\ Spec
    /\ WF_vars(Probe) /\ WF_vars(Transfer)
    /\ \A s \in Slot : WF_vars(Drive(s))
-----------------------------------------------------------------------------
TypeOK ==
    /\ drives \in Machines
    /\ \A s \in Slot : dev[s].status \subseteq {"BSY", "DRQ", "ERR", "DF"}
    /\ pc \in {"select", "identify", "space", "idle", "wait", "poll", "send",
              "flush", "sync"}
    /\ slot \in Slot /\ selected \in [{0, 1} -> Slot]
    /\ Len(table) <= 4
    /\ done \in Nat /\ ret \in Int

Probed == pc \notin {"select", "identify", "space"}

(* Every hard disk and every packet drive that is attached has an entry,   *)
(* in the order of the slots, whatever kind its neighbours are: the number *)
(* callers give for a drive is its place in this order.                    *)
TableListsDrives ==
    Probed =>
      /\ {table[k].slot : k \in DOMAIN table} =
           {s \in Slot : drives[s].kind \in {"ata", "atapi"}}
      /\ \A j, k \in DOMAIN table : j < k => table[j].slot < table[k].slot

Answered(dir) ==
    /\ pc = "idle" /\ req.dir = dir /\ ret = 0
    /\ ~table[req.drive + 1].atapi

(* A read from a hard disk that answers 0 has put the sectors asked for,   *)
(* all of them and no others, at their places in the caller's buffer, for  *)
(* every addressing mode, whatever errors the drive reports and also where *)
(* the read runs over the last address of its mode.                        *)
ReadDelivers ==
    Answered("read") => mem = {<<Stride * k, req.lba + k>> : k \in 0 .. req.n - 1}

Sent == {<<req.lba + k, Stride * k>> : k \in 0 .. req.n - 1}

(* Address mode and size check look at the first sector and at a sum of 32 *)
(* bits: requests that one address mode can name, and whose end has not    *)
(* wrapped.                                                                *)
OneMode == req.lba >= LbaLimit \/ req.lba + req.n <= LbaLimit
NoWrap == req.lba + req.n < Page * Byte

(* On a drive that reports no error a write that answers 0 has stored each *)
(* sector of the buffer at its address on the drive, when lba +            *)
(* num_sectors does not wrap.  A write over the 28-bit limit is one on     *)
(* which the drive does report an error.                                   *)
WriteReachesDrive == Answered("write") /\ NoWrap /\ OneMode => taken = Sent

(* "print if any error in writing" (ide.c:512): an answer of 0 means that  *)
(* there was none.                                                         *)
WriteErrorsReported == Answered("write") => taken = Sent

(* "send the flush commands" (ide.c:457): a write that answers 0 has been  *)
(* flushed.                                                                *)
WriteIsFlushed == Answered("write") => durable = taken

(* The driver never sends a read or a write to a drive that is busy or     *)
(* still has a sector of an earlier command to pass on.                    *)
CommandsAccepted ==
    [][pc = "wait" /\ pc' # "wait" => Accepts(Target)]_vars

(* Every access, and the probing before the first, comes to an answer      *)
(* provided that drives answer IDENTIFY with data or an error.             *)
DriverAnswers == pc # "idle" ~> pc = "idle"
=============================================================================
