SPECIFICATION Spec
CONSTANTS
  Procs = {p, q}
  Records = {1, 2}
  Proposed = {2}
  Promoted = {1}
  Steps = {s}
  Routes = {a, b}
  Answers = {x}
  None = None
  MaxDispatches = 2
  MaxJobs = 3
  MaxCrashes = 1
SYMMETRY Interchangeable
INVARIANTS
  PacketWasActive
  RecordsAreLedgered
  CallIsRecorded
  SameRouteGoesOn
CHECK_DEADLOCK FALSE
