SPECIFICATION Spec
CONSTANTS
    a = a
    b = b
    None = None
    Relative = Relative
    Nul = Nul
    Bad = Bad
    NoOne = NoOne
    Values <- MCValues
    Clients = {c1, c2}
    Requests <- MCRequests
    InitialServices <- MCServices
    MaxOps = 2
    MaxFaults = 2
    MaxCrashes = 1
INVARIANT SettledAsReported
INVARIANT NeverErased
PROPERTY NativeUntouched
PROPERTY OperationsReturn
CHECK_DEADLOCK FALSE
