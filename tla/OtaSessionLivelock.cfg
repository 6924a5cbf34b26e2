SPECIFICATION Spec
CONSTANTS
    Chunks = 3
    Images <- MCImages
    Factory <- MCFactory
    NoImage = NoImage
    MaxRetries = 5
    MaxRestarts = 3
    Faults = {"reboot"}
    MaxFaults = 1
    MaxUploads = 1
PROPERTIES SessionEnds
CHECK_DEADLOCK FALSE
