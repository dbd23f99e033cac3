SPECIFICATION Spec
CONSTANTS
    Names = {lower, upper}
    Foreign = other
    Day = 2
    Days = 2
    Delay = 1
    Grace = 0
    MaxTime = 5
    MaxRecords = 4
    MaxMeanwhile = 2
    MaxText = 6
    MaxAces = 2
    Width = 3
    MaxExpanded = 8
    TailBytes = 6
    TailLines = 2
SYMMETRY Spellings
INVARIANTS
    DashboardTrue
    ConversionsExact
    FrontEndsAgree
\* Each of the computations ends.
CHECK_DEADLOCK FALSE
