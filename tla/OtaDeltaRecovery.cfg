SPECIFICATION Spec
CONSTANTS
  PageSize = 3
  ChunkSize = 2
  AppPages = 2
  Magic = 1
  Factory <- MCFactory
  Sessions <- OnlyDelta
  AbortDuring <- NoPhase
  PowerFails <- InDelta
  Faults <- Nowhere
  MaxFails = 1
INVARIANT BootsWholeImage
CHECK_DEADLOCK FALSE
