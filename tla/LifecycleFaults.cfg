CONSTANTS
  Plan <- SmallPlan
  Services <- TwoServices
  Manifests <- OneOrBoth
  Lagging = {}
  Faulty = {"create", "update", "status"}
  InOrder = FALSE
  MaxFaults = 2
  MaxRestarts = 1
  MaxEdits = 1
  MaxApplies = 2
SPECIFICATION Spec
INVARIANTS TypeOK StatusCoherent NoLostWork NoOrphan ReadyReportsNoFailure
PROPERTIES PhaseOrder OnlyDeletionTerminates DeletionIsComplete ReadyMeansProvisioned Implements
CHECK_DEADLOCK FALSE
