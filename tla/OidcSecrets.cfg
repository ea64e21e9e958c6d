CONSTANTS
  Plan <- FullPlan
  Services <- RegisteredServices
  Manifests <- SampleStack
  Lagging = {}
  Faulty = {}
  InOrder = TRUE
  MaxFaults = 0
  MaxRestarts = 0
  MaxEdits = 0
  MaxApplies = 1
  MaxSecrets = 4
SPECIFICATION CredentialsSpec
INVARIANTS OidcSecretsAgree
CHECK_DEADLOCK FALSE
