CONSTANTS
  Plan <- SmallPlan
  Services <- TwoServices
  Manifests <- Both
  Lagging <- OnlyCa
  Faulty = {}
  InOrder = FALSE
  MaxFaults = 0
  MaxRestarts = 0
  MaxEdits = 0
  MaxApplies = 1
SPECIFICATION FairSpec
PROPERTIES EventuallyReady
CHECK_DEADLOCK FALSE
