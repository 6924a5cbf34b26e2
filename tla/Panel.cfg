\* Times are in jobs of 500 ms.  SinglePress, LongPress, Checks, BlinkPause,
\* LedTicks, AckSteps and ErrorThreshold are the code's own values; the others
\* are smaller, in the same order.
SPECIFICATION Spec
CONSTANTS
    PressCount = 4
    PressWindow = 8
    SinglePress = 3
    LongPress = 6
    Checks = 3
    BlinkPause = 2
    Old = 9
    PilotTimeout = 3
    ClampTimeout = 4
    ChatterWindow = 6
    MaxToggles = 2
    BufSize = 4
    Scenes = {"button", "sensors", "link"}
    LedTicks = 5
    AckSteps = 6
    ErrorThreshold = 3
    CommissionTimeout = 3
    LinkTimeout = 5
INVARIANTS TypeOK ReadsGestures FaultsExact NoticeShown
