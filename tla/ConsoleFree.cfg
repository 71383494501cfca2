SPECIFICATION Spec
CONSTANTS
    Cols = 3
    Rows = 2
    Keys <- AllKeys
    MaxLine = 2
    MaxDepth = 2
    MaxBehind = 6
    BootText <- Nothing
    Prompt <- OneChar
    UnknownMsg <- OneChar
    HelpMsg <- OneLine
    SyscallMsg <- NewLines
    BlockMsg <- OneLine
    TotalMsg <- OneLine
    WarnMsg <- TwoNewlines
    Start = 0
    Total = 118
    HeaderSize = 16
    PtrSize = 4
    BootUsed = 28
    BootBlocks <- SuperblockBlock
PROPERTIES FreeingMarksABlock
CHECK_DEADLOCK FALSE
