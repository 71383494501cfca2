SPECIFICATION Spec
CONSTANTS
    Start = 0
    Total = 101
    HeaderSize = 16
    PtrSize = 4
    Sizes <- KernelSizes
INVARIANTS UsedBounded ListInAddressOrder NoOverlap HeldIsInUse
PROPERTIES HandsOutUnheld HeapImplementsAllocSpec
CHECK_DEADLOCK FALSE
