SPECIFICATION Spec
CONSTANTS
    PeakStart = 2
    PeakEnd = 7
    MoerTimes = {1, 6}
    MoerTicks = 2
    ResendTicks = 2
    LatchTicks = 2
    OptOutTicks = 3
    MaxRetries = 3
    MaxDelay = 1
    MaxAge = 1
    MaxPresses = 1
    MaxLosses = 1
    Horizon = 9
INVARIANTS TypeOK NoPauseOutlivesReason PauseRespectsOptOut OptOutHonoured PeakEnforced
CHECK_DEADLOCK FALSE
