SPECIFICATION FairSpec
CONSTANT MaxGen = 2
INVARIANTS
    GenerationIsolation
    EventsWellFormed
    CommittedStopHonoured
    CleanEnd
PROPERTIES
    StopEnds
    ImplementsContract
CHECK_DEADLOCK FALSE
