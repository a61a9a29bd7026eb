SPECIFICATION Spec
CONSTANTS
  Dispatches = {d1, d2, d3}
  Candidates = {"a", "b", "x"}
  None = "none"
  BaseChain <- RepeatedChain
  Requests <- AllRequests
  MaxAttempts = 2
  FailThreshold = 2
SYMMETRY Symmetry
INVARIANTS
  BudgetHolds
  ExhaustedTriedAll
  OpenStopsCalls
CHECK_DEADLOCK FALSE
