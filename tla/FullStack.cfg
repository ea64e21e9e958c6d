CONSTANTS
  Plan <- FullPlan
  Services <- RegisteredServices
  Manifests <- SampleStack
  Lagging = {}
  Faulty = {"create"}
  InOrder = TRUE
  MaxFaults = 1
  MaxRestarts = 1
  MaxEdits = 0
  MaxApplies = 2
  MaxSecrets = 4
SPECIFICATION CredentialsSpec
INVARIANTS PodsKeepSecrets ReferencesResolve CredentialsAgree CertificatesChain
PROPERTIES SecretsBeforePods ReadyMeansProvisioned
CHECK_DEADLOCK FALSE
