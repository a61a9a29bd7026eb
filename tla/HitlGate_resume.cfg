SPECIFICATION FairSpec
CONSTANTS
  MaxDrives = 3
  None = "none"
  Setups <- AllSetups
  MaxAttempts = 2
  Reused = FALSE
INVARIANTS
  PayloadIsAgreed
  RejectedRunsNothing
PROPERTIES
  ImplementsGatedRun
  DriveReturns
CHECK_DEADLOCK FALSE
