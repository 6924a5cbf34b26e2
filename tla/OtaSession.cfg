SPECIFICATION Spec
CONSTANTS
    Chunks = 3
    Images <- MCImages
    Factory <- MCFactory
    NoImage = NoImage
    MaxRetries = 5
    MaxRestarts = 3
    Faults = {"lose", "duplicate", "late", "reboot", "flash", "supersede", "stale",
              "unsaved", "uncleared"}
    MaxFaults = 2
    MaxUploads = 2
INVARIANTS TypeOK RunsWholeImage OneSessionsFields BaselineInStep
PROPERTIES UndisturbedSessionEnds UploadInstalls
CHECK_DEADLOCK FALSE
