SPECIFICATION Spec
CONSTANTS
    Workers = {w1, w2}
    MaxActive = 1
    MaxBusy = 1
INVARIANT NoWorkCutOff
INVARIANT ListenerReserved
PROPERTY IdleExit
PROPERTY SlotsReturned
CHECK_DEADLOCK FALSE
