SPECIFICATION Spec
CONSTANTS
    MemSize = 1536
    Total = 600
    Disk <- SmallDisk
    Entries <- RootEntries
    Pointer <- Block0
    Paths <- AllPaths
    Wild = {1024}
    Fill = {0}
    MaxCommands = 6
    MaxBlocks = 30
    WordMod = 65536
PROPERTY AnswerNamesEntry
CHECK_DEADLOCK FALSE
