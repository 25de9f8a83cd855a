SPECIFICATION Spec
CONSTANTS
    NumThreads = 3
    Instr = {1, 3, 4}
    Reads <- MCReads
    Writes <- MCWrites
    ReadWrites <- MCReadWrites
    Monitors = {1}
    MaxActive = 3
    MaxCycles = 1
    WeakCAS = FALSE
    AsyncInsert = TRUE
INVARIANTS
    ConflictsInOrder
    NoLostWakeup
    NoTaskTwice
CHECK_DEADLOCK FALSE
