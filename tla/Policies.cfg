CONSTANTS
  Plan <- WaitingPlan
  Services <- Waiting
  Manifests <- AllWaiting
  Lagging = {}
  Faulty = {}
  InOrder = TRUE
  MaxFaults = 0
  MaxRestarts = 0
  MaxEdits = 0
  MaxApplies = 1
  Enforced = TRUE
  MaxEvictions = 0
SPECIFICATION StartupSpec
PROPERTIES EveryPodRuns
CHECK_DEADLOCK FALSE
