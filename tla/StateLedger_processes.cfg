SPECIFICATION Spec
CONSTANTS
  w1 = w1
  w2 = w2
  w3 = w3
  p1 = p1
  p2 = p2
  k1 = k1
  k2 = k2
  k3 = k3
  Writers = {w1, w2}
  Processes = {p1, p2}
  ProcOf <- TwoProcesses
  Keys = {k1, k2, k3}
  NoKey = NoKey
  NoWriter = NoWriter
  Batches <- SomeBatches
  Cuts = {"part", "line"}
  MaxClock = 1
  MaxBatches = 3
INVARIANTS
  VerifiedMeansSerial
CHECK_DEADLOCK FALSE
