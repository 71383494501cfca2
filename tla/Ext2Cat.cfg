SPECIFICATION Spec
CONSTANTS
    MemSize = 1536
    Total = 500
    Disk <- SmallDisk
    Entries <- RootEntries
    Pointer <- Block0
    Paths <- OnlyCat
    Wild = {1024}
    Fill = {0, 255}
    MaxCommands = 1
    MaxBlocks = 30
    WordMod = 65536
INVARIANT CatReadsFile
CHECK_DEADLOCK FALSE
