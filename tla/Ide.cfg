SPECIFICATION FairSpec
CONSTANTS
    Machines <- AnyMachine
    ReadFaults <- AllFaults
    WriteFaults <- NoFaults
    DriveNos = {0, 1, 2}
    Lbas <- EdgeLbas
    Counts <- FewCounts
    Byte = 4
    Nibble = 2
    Spt = 3
    Heads = 2
INVARIANTS TypeOK TableListsDrives ReadDelivers WriteReachesDrive
PROPERTIES CommandsAccepted DriverAnswers
