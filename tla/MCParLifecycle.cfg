SPECIFICATION Spec
CHECK_DEADLOCK FALSE
CONSTANTS
    numThreads = 3
    MaxStarts = 2
    AfterEnd = FALSE
INVARIANTS
    EveryWorkerHasIndex
    OnlyReleasedWorkersPerform
PROPERTIES
    GatherReturns
    WorkersExit
