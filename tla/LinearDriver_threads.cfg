CONSTANTS
  Drivers = {d1, d2}
  NSteps = 2
  EngineClasses = {"pure-pattern-no-engine", "save-point-checkpoint", "event-sourced-replay", "reconciler-loop", "wal-segment"}
  Protocol = TRUE
  Recovery = TRUE
  Store = TRUE
  Channel = TRUE
  PowerLoss = FALSE
  MaxFaults = 2
  MaxRuns = 2
SPECIFICATION Spec
SYMMETRY DriverSymmetry
INVARIANTS StoreCoversLedger NeverSkewed SuccessMeansAllRan TerminalMeansCommitted UpstreamVisible LeaseIsExclusive
PROPERTIES ImplementsRun
