SPECIFICATION Spec
CONSTANTS
  Windows <- MCWindows
  Durations = {0, 2}
  Delays = {0, 1}
  LatchUnits = 2
  UptimeWrap = 5
  FirstUptimes = {1}
  FirstEpoch = 2
  LastEpoch = 6
  Buttons = {}
  Interruptible <- Anywhere
INVARIANTS RelayMatchesState
CHECK_DEADLOCK FALSE
