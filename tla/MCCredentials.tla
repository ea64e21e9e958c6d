---------------------------- MODULE MCCredentials ----------------------------
(* Instances for the model checking of Credentials.                         *)
EXTENDS Credentials

CoreServices == {"postgresql", "redis", "rustfs", "ninegate", "glauth", "dex"}

Choosing(enabled) == [given |-> TRUE, enabled |-> enabled]

(* The sample manifest, with an optional service.                           *)
SampleStack == {Choosing(CoreServices \cup {"generatedAdminPassword", "nextcloud"})}

(* What the theorems of ProvisionProofs assume of the Plan.                 *)
ASSUME FullPlanAssumption == AlwaysCreates /\ KnownKinds

OnlyPostgresSecret == {PostgresSecret}
=============================================================================
