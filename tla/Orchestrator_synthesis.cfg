SPECIFICATION OrchSpec
CONSTANTS
  NBranches = 2
  Kinds = {"safe"}
  Policies = {"proceed", "pause", "cascade-cancel"}
  Dispositions = {"fail-closed"}
  Store = TRUE
  Protocol = TRUE
  StoreFails = TRUE
  MaxDrives = 3
  MaxFaults = 2
  OrchKinds = {"safe", "fenced", "opaque"}
  Syntheses = {TRUE, FALSE}
  MaxDispatches = 4
INVARIANTS
  OrchestratorAtMostOnce
  OnePlan
  OneAnswer
  OrchestratedSuccess
CHECK_DEADLOCK FALSE
