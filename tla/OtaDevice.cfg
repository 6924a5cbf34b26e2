SPECIFICATION Spec
CONSTANTS
  PageSize = 3
  ChunkSize = 2
  AppPages = 2
  Magic = 1
  Factory <- MCFactory
  Sessions <- MCSessions
  AbortDuring <- NotWhileApplying
  PowerFails <- Covered
  Faults <- FirstRecordFails
  MaxFails = 2
INVARIANTS TypeOK BootsWholeImage ResumeReady ValidatedStays DeferredArmed
PROPERTIES PrimaryWrittenUnderRecord RecoveryCompletes
CHECK_DEADLOCK FALSE
