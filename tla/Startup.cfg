CONSTANTS
  Plan <- WaitingPlan
  Services <- Waiting
  Manifests <- AllWaiting
  Lagging = {}
  Faulty = {}
  InOrder = TRUE
  MaxFaults = 0
  MaxRestarts = 0
  MaxEdits = 0
  MaxApplies = 1
  Enforced = FALSE
  MaxEvictions = 1
SPECIFICATION StartupSpec
PROPERTIES PodsStart
CHECK_DEADLOCK FALSE
