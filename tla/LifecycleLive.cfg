CONSTANTS
  Plan <- SmallPlan
  Services <- TwoServices
  Manifests <- NilOrBoth
  Lagging <- OnlyCa
  Faulty = {"create", "update", "status", "delete", "nsGet"}
  InOrder = FALSE
  MaxFaults = 1
  MaxRestarts = 1
  MaxEdits = 1
  MaxApplies = 1
SPECIFICATION FairSpec
PROPERTIES DeletionCompletes Settles
CHECK_DEADLOCK FALSE
