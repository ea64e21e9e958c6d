CONSTANTS
  Plan <- SmallPlan
  Services <- TwoServices
  Manifests <- Both
  Lagging <- OnlyNs
  Faulty = {}
  InOrder = FALSE
  MaxFaults = 0
  MaxRestarts = 0
  MaxEdits = 0
  MaxApplies = 1
SPECIFICATION Spec
INVARIANTS NoOrphan
CHECK_DEADLOCK FALSE
