SPECIFICATION Spec
CONSTANTS
    EarlyKeys = TRUE
    MaxWaiting = 2
    Exceptions = {}
INVARIANTS KeyboardHeard
CHECK_DEADLOCK FALSE
