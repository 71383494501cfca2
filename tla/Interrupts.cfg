SPECIFICATION FairSpec
CONSTANTS
    EarlyKeys = FALSE
    MaxWaiting = 2
    Exceptions = {0, 13}
INVARIANTS NothingInService VectorsHaveGates StackBalanced FlagsRestored KeyboardHeard
PROPERTIES KeysAreRead
CHECK_DEADLOCK FALSE
