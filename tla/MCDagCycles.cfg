SPECIFICATION FairSpec
CONSTANTS
    NumThreads = 2
    Instr = {1, 2, 3, 4}
    Reads <- MCReads
    Writes <- MCWrites
    ReadWrites <- MCReadWrites
    Monitors = {}
    MaxActive = 3
    MaxCycles = 2
    WeakCAS = FALSE
    AsyncInsert = FALSE
INVARIANTS
    WorkersParked
    GraphIsCurrent
    CycleComplete
PROPERTIES
    CycleEnds
    ImplementsTaskGraph
CHECK_DEADLOCK FALSE
