SPECIFICATION FairSpec
CONSTANTS
    Writers = {w1, w2}
    BACKUP_RETENTION_COUNT = 2
    ROTATION_THRESHOLD = 1
    MaxLogs = 5
    Faults = {"append", "tear", "rotate", "crash"}
INVARIANTS
    HistoryIntact
    ScanOnce
PROPERTIES
    LogNotStuck
