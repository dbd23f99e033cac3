SPECIFICATION Spec
CONSTANTS
    Writers = {w1}
    BACKUP_RETENTION_COUNT = 2
    ROTATION_THRESHOLD = 1
    MaxLogs = 4
    Faults = {}
INVARIANT
    ScanComplete
