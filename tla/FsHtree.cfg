CONSTANTS
    NumNodes = 3
    MaxWrites = 5
    MaxCounter = 5
    Shrinks = {1}
SPECIFICATION Spec
INVARIANTS TypeOK Recoverable
PROPERTY ImplementsAtomicFile
CHECK_DEADLOCK FALSE
