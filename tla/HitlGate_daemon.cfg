SPECIFICATION FairSpec
CONSTANTS
  MaxDrives = 2
  None = "none"
  Setups <- DaemonSetups
  MaxAttempts = 2
  Reused = TRUE
INVARIANTS
  PausedIsAnnounced
CHECK_DEADLOCK FALSE
