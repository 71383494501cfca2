SPECIFICATION FairSpec
CONSTANTS
    MemSize = 1536
    Total = 500
    Disk <- SmallDisk
    Entries <- RootEntries
    Pointer <- Block0
    Paths <- SomePaths
    Wild = {0, 1024}
    Fill = {0, 255}
    MaxCommands = 2
    MaxBlocks = 30
    WordMod = 65536
INVARIANTS GeometryIntact ListEnds BlockPointerFromDisk
PROPERTY CommandsEnd
CHECK_DEADLOCK FALSE
