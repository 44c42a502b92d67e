CONSTANTS
    NumNodes = 4
    MaxWrites = 4
    MaxCounter = 4
    Shrinks = {1}
SPECIFICATION Spec
INVARIANT Recoverable
CHECK_DEADLOCK FALSE
