CONSTANTS
  Plan <- FullPlan
  Services <- RegisteredServices
  Manifests <- SampleStack
  Lagging <- OnlyPostgresSecret
  Faulty = {"create"}
  InOrder = TRUE
  MaxFaults = 1
  MaxRestarts = 0
  MaxEdits = 0
  MaxApplies = 1
  MaxSecrets = 4
SPECIFICATION CredentialsSpec
INVARIANTS CredentialsAgree
CHECK_DEADLOCK FALSE
