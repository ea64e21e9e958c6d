CONSTANTS
  Plan <- SmallPlan
  Services <- TwoServices
  Manifests <- NilOrBoth
  Lagging = {}
  Faulty = {}
  InOrder = FALSE
  MaxFaults = 0
  MaxRestarts = 0
  MaxEdits = 0
  MaxApplies = 1
SPECIFICATION FairSpec
PROPERTIES AlwaysSettles
CHECK_DEADLOCK FALSE
