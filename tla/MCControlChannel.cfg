SPECIFICATION FairSpec
CONSTANTS
    Handlers = {h1, h2}
    Ordinary = {p1, p2}
    QueueCap = 1
INVARIANTS
    ClaimLinearizes
    OrdinaryConserved
    StopNotOvertaken
PROPERTIES
    AcceptedStopDelivered
