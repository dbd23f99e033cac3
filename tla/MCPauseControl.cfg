SPECIFICATION ClientSpec
CONSTANTS
    root = root
    Procs = {root, p1}
    Root = root
    Requests = {r1, r2}
    MaxPasses = 4
INVARIANTS
    IncrementsAccounted
    TruthfulOutcome
    FrozenUnlessSlipped
PROPERTY RequestAnswered
