SPECIFICATION FairSpec
CONSTANTS
  w1 = w1
  w2 = w2
  w3 = w3
  p1 = p1
  p2 = p2
  k1 = k1
  k2 = k2
  k3 = k3
  Writers = {w1, w2}
  Processes = {p1}
  ProcOf <- OneProcess
  Keys = {k1, k2, k3}
  NoKey = NoKey
  NoWriter = NoWriter
  Batches <- SomeBatches
  Cuts = {"part"}
  MaxClock = 1
  MaxBatches = 4
INVARIANTS
  AlwaysVerifies
PROPERTIES
  ImplementsLog
  AppendReturns
CHECK_DEADLOCK FALSE
