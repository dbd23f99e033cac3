SPECIFICATION FairSpec
CONSTANT InboxCap = 1
INVARIANTS
    AcceptedStopClean
    AcceptedStopCarriedOut
    ReportedStateTrue
PROPERTIES
    StopEndsHost
    NoReturnFromStop
CHECK_DEADLOCK FALSE
