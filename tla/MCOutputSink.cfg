SPECIFICATION Spec
CONSTANTS
    Streams = {out, err}
    BUFFER_LIMIT = 2
    THRESHOLD = 2
    MaxOut = 3
    MaxForced = 1
    Faults = {"reopen", "archive", "read", "busy"}
INVARIANTS
    OutputKept
    OutputInOrder
    CleanDrain
    RotationNotForgotten
CONSTRAINT Bounded
SYMMETRY Symmetry
CHECK_DEADLOCK FALSE
