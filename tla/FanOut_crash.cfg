SPECIFICATION MCFairSpec
CONSTANTS
  NBranches = 2
  Kinds = {"safe", "fenced", "opaque"}
  Policies = {"proceed", "pause", "cascade-cancel"}
  Dispositions = {"fail-closed", "re-dispatch", "recover-as-terminal"}
  Store = TRUE
  Protocol = TRUE
  StoreFails = TRUE
  MaxDrives = 3
  MaxFaults = 2
INVARIANTS
  EffectAtMostOnce
  StoreCoversLedger
  SuccessIsWhole
PROPERTIES
  ImplementsFanOutRun
  DriveReturns
CHECK_DEADLOCK FALSE
