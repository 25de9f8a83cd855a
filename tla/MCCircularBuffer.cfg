SPECIFICATION Spec
CONSTANTS
    Size = 3
    MaxItems = 4
    MaxTotal = 10
INVARIANTS
    ContentsIntact
    NoSlotRace
PROPERTIES
    ImplementsFifo
CHECK_DEADLOCK FALSE
