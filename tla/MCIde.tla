------------------------------- MODULE MCIde -------------------------------
(***************************************************************************)
(* Registers of four values keep a 28-bit limit (128) below the largest    *)
(* address (255) and a cylinder of two registers that a disk can outgrow.  *)
(***************************************************************************)
EXTENDS Ide

None == [kind |-> "none", lba |-> FALSE, size |-> 0]
Cd == [kind |-> "atapi", lba |-> FALSE, size |-> 0]
Other == [kind |-> "other", lba |-> FALSE, size |-> 0]
BigDisk == [kind |-> "ata", lba |-> TRUE, size |-> 200]
OldDisk == [kind |-> "ata", lba |-> FALSE, size |-> 90]

(* Drives in slots 0 to 3. *)
Bus(a, b, c, d) == [s \in Slot |-> <<a, b, c, d>>[s + 1]]

AnyMachine == {Bus(BigDisk, OldDisk, None, Cd), Bus(Other, Cd, None, BigDisk)}
OneDisk == {Bus(BigDisk, None, None, None)}

(* Around a track, a cylinder, a register, the ends of the drives, the     *)
(* 28-bit limit and the largest address.                                   *)
EdgeLbas == {3, 89, 127, 128, 199, 255}
AFewLbas == {0, 3}
FewCounts == {1, 2}
AllFaults == {{"ERR"}, {"DF"}, {}}
NoFaults == {}
=============================================================================
