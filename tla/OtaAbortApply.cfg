SPECIFICATION Spec
CONSTANTS
  PageSize = 3
  ChunkSize = 2
  AppPages = 2
  Magic = 1
  Factory <- MCFactory
  Sessions <- OnlyFull
  AbortDuring <- Phases
  PowerFails <- Covered
  Faults <- Nowhere
  MaxFails = 1
INVARIANT RecoveryReboots
CHECK_DEADLOCK FALSE
