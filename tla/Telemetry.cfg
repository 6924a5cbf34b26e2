SPECIFICATION Spec
CONSTANTS
    Capacity = 2
    SyncInterval = 2
    MaxEvents = 4
    MaxUp = 1
    MaxFaults = 1
    MaxNow = 3
INVARIANTS TypeOK BehindCursorSent
CHECK_DEADLOCK FALSE
PROPERTIES DrainCatchesUp ClockRestored
