SPECIFICATION FairSpec
CONSTANTS
    h1 = h1
    h2 = h2
    Producer = {h1, h2}
    Audio = audio
    Capacity = 2
    Modulus = 8
    Start = 7
    MaxRequests <- MCMaxRequests
INVARIANTS
    OneOwnerPerSlot
    CallerReadsOwnStatus
    DrainIsBounded
PROPERTIES
    ImplementsApiQueue
    AcceptedIsRun
