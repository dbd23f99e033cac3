SPECIFICATION Spec
CONSTANTS
    root = root
    Procs = {root, p1, p2}
    Root = root
    Requests = {r1, r2}
    MaxPasses = 4
SYMMETRY Symm
INVARIANTS
    PausedTreeFrozen
