SPECIFICATION Spec
CONSTANTS
    Machines <- OneDisk
    ReadFaults <- NoFaults
    WriteFaults <- NoFaults
    DriveNos = {0}
    Lbas <- AFewLbas
    Counts <- FewCounts
    Byte = 4
    Nibble = 2
    Spt = 3
    Heads = 2
INVARIANTS WriteIsFlushed
