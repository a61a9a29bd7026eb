SPECIFICATION Spec
CONSTANTS
  Strategies = {"evaluator", "handoff"}
  NStages = 3
  Cap = 2
  Policies = {"proceed", "pause", "cascade-cancel"}
  Protocol = TRUE
  MaxDrives = 3
  MaxFaults = 3
INVARIANTS
  SnapshotIsLedgered
  CapHolds
  SuccessIsWhole
CHECK_DEADLOCK FALSE
