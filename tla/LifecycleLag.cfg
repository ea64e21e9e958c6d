CONSTANTS
  Plan <- SmallPlan
  Services <- TwoServices
  Manifests <- Both
  Lagging <- Everything
  Faulty = {"create", "status", "delete", "nsGet"}
  InOrder = FALSE
  MaxFaults = 1
  MaxRestarts = 1
  MaxEdits = 0
  MaxApplies = 2
SPECIFICATION Spec
INVARIANTS StatusCoherent NoLostWork ReadyReportsNoFailure
PROPERTIES PhaseOrder ReadyIsKept
CHECK_DEADLOCK FALSE
