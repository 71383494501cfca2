SPECIFICATION Spec
CONSTANTS
    MaxBlocks = 5
    WordBits = 4
    CounterMod = 16
    Counts <- RequestCounts
INVARIANTS TypeOK  
  
CHECK_DEADLOCK FALSE
