SPECIFICATION GuiSpec
CONSTANTS
    ServiceNames = {s1, s2}
    None = None
    Cap = 1
    ShownCap = 2
    MaxActs = 3
    MaxChanges = 1
SYMMETRY ServiceSymmetry
INVARIANT NothingStaleShown
INVARIANT RefreshServed
PROPERTY EditKeepsOthers
CHECK_DEADLOCK FALSE
