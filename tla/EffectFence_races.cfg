SPECIFICATION Spec
CONSTANTS
  Procs = {p1, p2}
  Keys = {k1, k2, k3}
  Fenced = {k1, k2}
  NoKey = NoKey
  MaxAttempts = 2
  MaxDispatches = 3
  Honest = {k1}
SYMMETRY Symmetry
INVARIANTS
  AtMostOnce
  FiredStaysClaimed
PROPERTIES
  ImplementsOnce
CHECK_DEADLOCK FALSE
