CONSTANTS
  Drivers = {d1}
  NSteps = 3
  EngineClasses = {"pure-pattern-no-engine", "save-point-checkpoint", "event-sourced-replay", "reconciler-loop", "wal-segment"}
  Protocol = TRUE
  Recovery = TRUE
  Store = TRUE
  Channel = TRUE
  PowerLoss = TRUE
  MaxFaults = 3
  MaxRuns = 3
SPECIFICATION FairSpec
INVARIANTS FinalStateIsLatest
PROPERTIES CommittedNotRerun Completes
