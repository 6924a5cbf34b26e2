SPECIFICATION Spec
CONSTANTS
  Windows <- MCWindows
  Durations = {0, 2}
  Delays = {0, 1}
  LatchUnits = 2
  UptimeWrap = 5
  FirstUptimes = {4}
  FirstEpoch = 2
  LastEpoch = 6
  Buttons = {"single", "long"}
  Interruptible <- BeforeWrites
INVARIANTS TypeOK RelayMatchesState LatchHolds LatchEnds NoOrphanPause AutoResumesBeforeWrap WindowEnds
PROPERTIES WindowNotCutShort TransitionsAreAttributed
CHECK_DEADLOCK FALSE
