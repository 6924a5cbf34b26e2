SPECIFICATION Spec
CONSTANTS
  PageSize = 3
  ChunkSize = 2
  AppPages = 2
  Magic = 1
  Factory <- MCFactory
  Sessions <- OnlyFull
  AbortDuring <- NoPhase
  PowerFails <- RecordGap
  Faults <- Nowhere
  MaxFails = 1
INVARIANT BootsWholeImage
CHECK_DEADLOCK FALSE
