# A TLA+ model of the ninekube operator

The operator turns a `ClientNamespace` (CR) into a namespace with PostgreSQL,
Redis, RustFS, Ninegate, Glauth and Dex, their credentials, certificates,
ingresses and network policies. These modules model the life of a CR, from its
creation to its deletion, what a provisioning pass creates, the secrets in it,
the start of the pods, and the backup of a volume; TLC checks them on small
instances, and TLAPS proves for all instances that the life of a CR is safe, that
what objects name exists and that their secrets agree.

Paths below are relative to `src/`; `C:` stands for
`operator/internal/controller/clientnamespace_controller.go` and `I:` for
`ingress.go` beside it.

## 1. Inventory

| component | state it keeps | operations | interacts with |
|---|---|---|---|
| ClientNamespace reconciler (`C`) | none of its own: everything is in the API server; during a pass, the copy `cn` | `Reconcile`, `reconcileDelete`, `ensureNamespace`, the `ensureX` of the core, `setFailed`, `cleanupClientResources` | API server (writes), informers (reads), service controllers (calls) |
| service controllers (postgresql, redis, rustfs, ninegate, glauth, dex) | their objects in `<name>-ns` | `Reconcile` = a sequence of ensures; `Cleanup` = nothing | called in the order of `cmd/main.go:184`; read each other's Secrets |
| ingresses, LDAPS route, network policies (`I`) | their objects | `ensureIngresses`, `ensureNetworkPolicies` | name the Services and TLS secrets of others |
| CA and certificates (`ca.go`, `I`) | Secrets `ca`, `*-tls` | `ensureCA`, `getCA`, `ensureServiceCerts` | Glauth's and Dex's controllers ensure two of the same Secrets |
| credentials (`C:263-449`) | `admin-credentials`, `postgres-secret`, `rustfs-secret`, `ninegate-secret`, `dex-config` | `getOrCreatePassword`, the ensures | copies of one password in several Secrets |
| service catalog (`catalog.go`) | constant | `reconcileOptionalServices` only logs | |
| manager (`cmd/main.go`, controller-runtime) | workqueue, informer caches, lease | dispatch of keys to one worker, requeue after errors, recovery of panics | |
| CRD (`api/v1alpha1`, `config/crd`) | spec and status of the CR | validation: the conditions are a map keyed by type | |
| scripts (`task/*.sh`) | backups on disk, cluster installation | run by a person | kubectl |
| manifests (`services`, `base`, `misc`, `config`) | static | | |

What is hard in it:

* **Stale reads.** Every `r.Get` is answered by an informer cache, while writes
  go to the API server: a pass may not see what it created a moment before, or
  see what has been deleted.
* **Writes from an old copy.** Status updates carry a copy of the CR read at the
  start of the pass; users edit and delete the CR meanwhile (conflicts), and a
  call may fail before or after it took effect.
* **Partial passes.** A pass is some forty API calls; an error, a panic or a crash
  stops it anywhere, and the next one starts from what it finds.
* **Deletion and re-creation.** Deletion runs in steps under a finalizer; the CR
  may be applied again while the former namespace is still terminating.
* **Terminal phases.** `Ready` is never reconsidered; `Failed` is retried.
* **Distributed references.** Objects name each other's Secrets, ConfigMaps and
  Services, and are created by different controllers under different switches.

What makes each component correct: for the reconciler, that the status tells the
truth (phase, condition and service marks agree and mean what they say), that no
CR is forgotten, that provisioning and deletion end, and that a namespace goes
with its CR and only with it; for the service controllers and the ingresses, that
an object is created after what its pods need and that what it names exists; for
credentials and certificates, that all copies agree. `PROJECT.json` lists every
hazard at its line, with the properties that would notice it.

## 2. Modules

| module | what it is |
|---|---|
| `Contract` | abstract: what the operator promises of one CR, without caches, passes and failures |
| `Lifecycle` | the reconcile loop of one CR, API server, informers, workqueue, restarts, users, namespace controller; implements `Contract` |
| `Stack` | extends `Lifecycle` with its real `Plan`: all 43 ensures, with what pods read, Services expose and Ingresses route to |
| `Credentials` | extends `Stack` with the contents of the objects: passwords, client secrets, issuers of certificates |
| `Startup` | extends `Stack` with the pods: mounts, init containers, evictions, network policies |
| `Backup` | `backup_pvc` and `restore_pvc` beside their helper pods |
| `MCLifecycle`, `MCCredentials`, `MCStartup` | instances for TLC |
| `LifecycleProofs` | `TypeOK` is an invariant |
| `StatusProofs` | the status tells the truth; no work is lost |
| `OrphanProofs` | the namespace goes with its CR, and only with it |
| `ContractProofs` | `Lifecycle` implements `Contract` |
| `ProvisionProofs` | Ready means provisioned, and stays so; a deletion is complete |
| `StackProofs` | what a pod reads is made before it; what a Ready CR's objects name exists |
| `CredentialProofs` | copies of a secret agree; certificates have the stored CA |
| `PlanProofs` | the operator's own Plan is one that these theorems are about |

### Lifecycle

One API call is one step, in the cleanup as well: a List for each kind, a Delete for
each object that it listed. The code between two calls belongs to the step of the
first. Only the cached read of the namespace is one step with the write after it
(`ensureNamespace`, `deleteNamespace`): nobody but the operator makes or deletes the
namespace, so what can be out of date then is the cache, and that is modelled. The
constant `Plan` is the list of the objects a pass ensures after
`ensureNamespace`, each with the service controller that owns it, the switch in
`spec.services` that enables it (`when`), what its creation must read first
(`needs`), and how the code treats it (`op`):

* `ensure`: looked up through the cache, created if missing (`ensureServiceSecret`
  and its twenty-odd siblings);
* `read`: only looked up (`getCA`), followed by the dereference of `spec.services`;
* `create`: created without a useful look (`ensureGlauthIngressRouteTCP` looks
  among the Secrets).

| state | stands for |
|---|---|
| `cr`, `ns`, `objs` | the API server: the CR, the namespace `<name>-ns`, the objects in it |
| `cachedCr`, `cachedNs`, `cachedObjs` | the informers; `cacheCurrent`: `cachedCr` has the resourceVersion of `cr` |
| `queued`, `pc`, `k` | the workqueue key, the place of the pass, the step of the Plan (in the cleanup: the kind) it is at |
| `listed` | what the last List of the cleanup returned and is yet to be deleted |
| `cn`, `cnCurrent` | the pass's copy of the CR; it has the resourceVersion of `cr`, so a write of it is accepted |
| `faults`, `restarts`, `edits`, `applies` | what is left of the bounds |

`cr.conditions` is the list of the statuses of the conditions of type `Ready`
(the only type the operator writes) and `cr.marks` is `status.services`. Phase
`""` also stands for `Pending`, which `Reconcile` treats alike.

| action | code |
|---|---|
| `Get`, `Dispatch`, `AddFinalizer`, `StartProvisioning` | `C:70-108` |
| `ensureNamespace` | `C:110-115`, `C:233-261` |
| `SkipStep`, `FindObject`, `ReadObject`, `CreateObject` | `C:117-172` and every `ensureX` |
| `ServiceFailed`, `setFailed`, `MarkReady` | `C:153-160`, `C:682-714`, `C:174-189` |
| `ListKind`, `DeleteListed` (`cleanupClientResources`) | `C:606-665`, for the kinds of `CleanedKinds` in their order |
| `deleteNamespace`, `RemoveFinalizer` | `C:212-231`, once the cleanup is through (`CleanedUp`) |
| `DeliverCr`, `DeliverNs`, `DeliverObj` | watch events of the manager's informers |
| `Restart` | a crash, a restart or a new leader: new caches, the CR queued |
| `ApplyCr`, `EditSpec`, `DeleteCr` | `kubectl` |
| `EmptyNamespace`, `DropNamespace` | the namespace controller of Kubernetes |

A write (`WriteSucceeds`, `WriteFails`) is accepted, refused for its
resourceVersion or by the validation of the CRD (`Valid`), lost, or accepted with
its answer lost. The failure of a status update before `setFailed`'s own
(`C:156-158`) only gets logged: `setFailed` then writes with the old copy. A Delete of
the cleanup may fail as well, and the pass goes on (`C:614`).

External, modelled from how the code uses it: the API server, the informers, the
workqueue, the namespace controller and the users. The manager runs one worker
(`MaxConcurrentReconciles` keeps its default of 1 in `C:725`), recovers panics and
requeues with back-off.

### Stack

One definition per `ensureX`, named after it, with the controller's package name
in front where several controllers have one of that name. `Workload` adds the
Secrets, ConfigMaps and claims that the pod mounts or takes its environment from,
`Expose` the ports of a Service, `ensureIngress` the backend and TLS secret. The
Plan is `coreSteps`, `serviceSteps` and `routingSteps`, in the order of `Reconcile`.
`Stack` EXTENDS `Lifecycle` without instantiating `Plan`; the instances give it
`Plan <- FullPlan`, so that the references between objects are checked in every
state that the reconcile loop can reach, and not on a list.

### Contract

Four variables, and eight steps that a user could observe: `Apply`, `Delete`;
`Guard` (the finalizer), `Start`, `Make` (the namespace), `Report` (Ready, or
Failed and perhaps Ready after all), `Unmake`, `Release`. `Lifecycle!Implements` is its specification
under the refinement mapping of `Lifecycle` (`Life`, `Home`, the finalizer and the
phase). A deletion without a finalizer is immediate; a terminating namespace
counts as none, as nothing in it is promised any more.

### Credentials

`val` gives each object that holds a secret its contents, a record of values;
`cachedVal` what the informers show of it. A step of `Lifecycle` is taken together
with `MoveContents`: a created object gets its `Data`, a deleted one loses it,
local variables end with the pass. `Reconcile` reads two passwords before it
ensures the root secrets (`C:125`), in steps of their own
(`ReadPostgresPassword`, `ReadRustfsPassword`), because a cache may change
between them and the creation. `getOrCreatePassword` and `CopyOr` keep the code's
fallbacks: a Secret that is not shown is replaced by a fresh value.

| operator | code |
|---|---|
| `getOrCreatePassword`, `generateRandomPassword` | `C:426-449`, `C:542-553` |
| `NinegateSecretData`, `DexConfigData` | `C:334-384`, `dex_controller.go:93-193` |
| `GenerateCA`, `ParseCA`, `SignCertMultiSAN` | `ca.go` |
| `generateRSASelfSignedCert` | `dex_controller.go:409-443`, used by Dex and Glauth |
| `ListsClaims`, `KeepVolume`, `DeleteClaim` | `C:655-662`: the claim of PostgreSQL's volume (`cluster`), listed with the other claims (`claimListed`) and deleted in a step of its own |
| `InitCluster` | the image of PostgreSQL, which sets the password of an empty volume only |

Random values are numbered; a new one is the least that no object, cache, variable
or volume holds, so that runs which differ only in the choice are one.
`MaxSecrets` bounds how many of one sort are in use at a time; too small a value
would be an error in the run and not a missed state.

### Startup

One pod per workload: created when its workload is, `pending` until everything it
names exists, then its init containers in order, each waiting for a port of a
Service to answer, then `ready`. `Isolated` is what the two policies mean where the
network enforces them (`Enforced`): no pod can connect to another. An eviction
starts a pod again. The operator runs unchanged beside it.

### Backup

The commands of a script in their order (`Commands`), none of which looks at
the outcome of the one before, beside the pod whose `tar` runs when its container
starts. Contents are the number of writes they have seen, 0 for what is there only
in part; the services go on writing, and `Damage` is the loss a restore is for.

## 3. Runs

| run | bounds | shows |
|---|---|---|
| `LifecycleFaults` | 6-step Plan, 2 applies, 1 edit, 1 restart, 2 faults of create, update or status | types, `StatusCoherent`, `NoLostWork`, `NoOrphan`, `ReadyReportsNoFailure`, `PhaseOrder`, `OnlyDeletionTerminates`, `DeletionIsComplete`, `ReadyMeansProvisioned`, `Implements` |
| `LifecycleLag` | 2 applies, 1 restart, 1 fault of create, status, delete or a read of the namespace; the informers of the namespace and two objects lag | which of them survive stale caches; `ReadyIsKept` |
| `LifecycleLive` | fair; 1 apply, 1 edit, 1 restart, 1 fault of any kind; the CA lags | `DeletionCompletes`, `Settles` |
| `FullStack` | the real Plan, the sample manifest and an optional service, 2 applies, 1 restart, 1 failed create, 4 values of a sort | `SecretsBeforePods`, `PodsKeepSecrets`, `ReferencesResolve`, `CredentialsAgree`, `CertificatesChain`, `ReadyMeansProvisioned` |
| `Startup` | PostgreSQL, Ninegate and Glauth out of the real Plan, 1 apply with its deletion, 1 eviction, a network without policies | `PodsStart` |

The informer of the CR lags in every run.

`SmallPlan` has one step of each sort: two Secrets of the core (a password and the
CA), the read of the CA, a Deployment of each of two service controllers, the
route created without a look. So the cleanup has two objects to delete of
each of two kinds, and the stop between two deletes of one kind is there as
well as the one between two kinds.
More steps of a sort add no new control: a pass meets them one after the other,
and `FullStack` runs all 43. Two applies are needed for everything that
deletion and re-creation can confuse; two faults for a failure in the handling of
a failure (a service fails, then the update that reports it); one restart may fall
between any two calls, the deletes of the cleanup included. The items of a List come
in any order in the small instances; those with the real Plan delete them in the
order of the Plan (`InOrder`), which is no order of the code: it leaves out states
that differ in which of the same kind went first. One fault per pass suffices for the liveness runs, as
after it the pass is repeated from the queue. `FullStack` needs both applies, for
the volume and the Secrets that a former stack may leave, and one interruption,
for passwords that one pass generates and another copies. In `Startup` the other
three workloads wait for nothing and nothing waits for them.

Deadlock is not checked: with a Ready CR, no bound left and no event to come,
nothing has to happen.

### Fairness

`WF(Reconcile)`: the manager's worker takes a queued key and its API calls return.
`WF` of each `Deliver`: a watch delivers in the end. `WF` of `EmptyNamespace` and
`DropNamespace`: the namespace controller works. In `Startup` also `WF` of
`RunPod` for each workload: its controller and the kubelet work, and an init
container looks again. An eviction is never obliged to happen. Users, faults and restarts are
never obliged to act. The back-off of the workqueue only delays.

### Violations

Each is one property of the documentation or of a comment that the code does not
keep; `PROJECT.json` quotes the lines ("findings").

| run | property | what happens |
|---|---|---|
| `StaleCa` | `EventuallyReady` | `getCA` misses the CA just created; `setFailed` stores a Ready condition; `MarkReady` appends a second one and is refused; later passes stop at the route that already exists, and the CR stays Failed |
| `NilServices` | `AlwaysSettles` | no `spec.services`: panic in every pass, Provisioning for ever |
| `StaleNamespace` | `NoOrphan` | a deletion that does not see the namespace yet leaves it behind |
| `Policies` | `EveryPodRuns` | the pass ends with policies that isolate all pods; whoever still waits then, or is evicted later, never starts |
| `StaleSecret` | `CredentialsAgree` | the pass after a failed one does not see `postgres-secret` yet, makes up a password and puts it into `ninegate-secret` |
| `OidcSecrets` | `OidcSecretsAgree` | Dex is given `app-secret` as Ninegate's client secret, Ninegate uses `oidc-client-secret` |
| `Backup` | `OkMeansRestored` | the archive is copied into a pod that is not running; the volume is reported as restored |

So `Settles` holds and `EventuallyReady` does not: with this code a CR always
comes to Ready or Failed, and after any failed first pass it is Failed.
`PhaseOrder` and the `Contract` do not build on that defect. They allow Failed to be
followed by Ready, as the code retries a Failed CR (`C:97`, `setFailed` returns its
error), and hold as well of an operator whose `MarkReady` replaces the condition
(tried in the bounds of `LifecycleFaults` and `LifecycleLag`).

`SecretsBeforePods` and `PodsKeepSecrets` are two properties because the order of the
deletes is not the reverse of that of the creations: the cleanup deletes the
Secrets first (`C:610`) and the Deployments and StatefulSets after them (`C:628`,
`C:637`), so in the middle of it pods stand over deleted Secrets. The first
property speaks of the step that creates a workload; the second says that such a
state only exists while the CR is being deleted, and still remembers it: a cleanup
that a crash stopped is run again by the next process, before the finalizer goes.
A return inside the loop over the kinds (`MisCleanedUp`) breaks it.

The passing runs check `ReadyMeansProvisioned`, `DeletionIsComplete` and `NoOrphan`
with fresh caches and without failing deletes, and these restrictions are needed.
The same holds for `PodsKeepSecrets` and `CredentialsAgree`: the passing runs stop the
cleanup between any two deletes, but do not let a delete fail. `StaleNamespace` shows it for `NoOrphan`. `ReadyMeansProvisioned` fails in the
bounds of `LifecycleFaults` once the informer of one object of a service lags
(after a re-creation, a pass takes the cached object of the former stack for its
own and skips it), and `DeletionIsComplete` once a Delete may fail: the cleanup
drops its errors and nothing retries it. In the same way `CredentialsAgree` holds
in `FullStack`, with fresh caches and deletes that succeed, and not in `StaleSecret`.

Faults of the code that are certain, and not a matter of order, need no
exploration; section 5 lists them.

## 4. Proofs

The theorems (but for the last, which is about one Plan) hold for every `Plan`, every list of services, every set of
manifests and every bound, from the named assumptions of `Lifecycle`
(`ServicesAssumption`: not more services than names; `PlanAssumption`;
`ManifestsAssumption`; `EnvironmentAssumption`).

* `TypeCorrect == Spec => []TypeOK`. `TypeOK` is inductive by itself. The one step
  that is not obvious is `MarkReady`, whose appended condition is a well-formed one
  only because the API server validates what it accepts.
* `StatusAgrees`, `NoFailureWhenReady`, `PhasesInOrder`: from the inductive
  `StatusInv`. None of the three is inductive: they need that a copy with the
  CR's resourceVersion *is* the CR (`CopyInv`; but for the marks, while
  `setFailed` writes after an update that got lost), that a current cache shows the
  CR (`CacheInv`), and which phases the code at each `pc` can meet. `MarkReady` then
  is the interesting step: its write is only valid if there was no condition, so by
  coherence the phase was Provisioning.
* `NothingIsLost`: from `CacheInv`. A pass ends without requeueing only if the cache
  showed nothing to do; then either the cache is current, and there is nothing
  to do, or an event is still to come.
* `NoOrphans`, `OnlyTheDeletedGo`, assuming `FreshNamespace` (the informer of the
  namespace does not lag, reading it does not fail): from the inductive
  `OrphanInv`. The namespace is only made while the CR holds its finalizer, and the
  finalizer only removed when a pass saw the deletion. As passes act on stale
  copies, this needs what staleness can and cannot do: a CR seen alive still holds
  its finalizer (`Live(cachedCr) => Held(cr)`), and a deletion that was seen is not
  one of a CR re-created since (`cachedCr.deleting => ~Live(cr)`), because a
  re-created CR only gets its finalizer from a pass with a current copy.

* `KeepsTheContract` (assuming `FreshNamespace`): from the invariants above, each
  action of `Lifecycle` is a step of `Contract` or leaves its four variables alone.
  The writes are the point: `Accept` replaces the whole CR by a copy, and only since
  an accepted copy differs from the CR in what the pass set (`CopyInv`) does it
  change one thing at a time. `ContractLeavesNoOrphan` shows what the Contract is
  for: `NoOrphan` follows from it alone, by an invariant of two implications.
* `ReadyIsProvisioned`, assuming `FreshObjects` (only the informer of the namespace
  may lag) and `AlwaysCreates`: the invariant `PlanInv` says what is behind a
  pass at step `k`. If the namespace is active, every enabled object before `k`
  exists; if it is not, the pass has not yet got past a step that creates without
  a look, as this fails there. A pass at the end of the Plan has passed one
  (`AlwaysCreates`), so its namespace is active and complete. Without such a step
  the property is false when a Delete may fail, as TLC shows: a pass meets all its
  objects in a terminating namespace and reports them Ready. So the one step of
  the operator's Plan that is idempotent in no way, the IngressRouteTCP, is what
  keeps it from declaring a dying stack Ready.
* `TheReadyIsKept`, assuming `FreshNamespace` and `AlwaysCreates`, with any lag of
  the other caches: while a CR is Ready its namespace is active and no pass is
  in the deletion (`KeptInv`).
* `DeletionsAreComplete`, assuming `FreshNamespace`, `FreshObjects`, `NoFailedDelete`
  and `KnownKinds` (every object is of a kind that is cleaned up, or routing): from
  the cleanup to the removal of the finalizer only routing is left (`CleanInv`).

* `SecretsAlwaysFirst`, assuming `FreshObjects` and `SecretsFirst` (the Plan makes the
  Secrets of a workload before it), whether deletes succeed or not. By `ObjsStep` a
  step leaves the objects of an active namespace alone, creates one, deletes one in
  the cleanup, or begins a namespace, which then is empty (`EmptyInv`). A creation
  has all before it behind it (`PlanInv`), whichever pass made it.
* `PodsAlwaysKeepSecrets`, assuming `NoFailedDelete` as well. For each pair of objects
  that the Plan makes in an order, the later one is never there without the
  earlier while the namespace is active (`Follows`) is true but for the time of a
  cleanup, so what is inductive is `Backed`: `Follows`, or the CR is marked for
  deletion and the mark is seen, so that no pass provisions any more (`Removing`).
  The hard part is to leave `Removing`: it ends only with the finalizer, and then
  nothing is left that could be without what it needs (`Bare`). `RemovalInv` says so for every place of the cleanup: the kinds
  before the one it is at are gone, those of the kind it is at are gone or listed
  (`CleanInv`, by the order of `CleanedKinds`), and a pass that is in the cleanup,
  or a cache that shows the deletion, belongs to a CR that is `Removing`, or to one
  that has gone, perhaps applied again since, and left a `Bare` namespace behind
  (`DeletingInv`: the answer to the removal of the finalizer may get lost, and the
  pass be repeated from a cache that still shows the CR).
* `ReferencesAlwaysResolve`, assuming `FreshObjects`, `FreshNamespace`,
  `AlwaysCreates`, `ReferencesGiven` (every manifest enables what the workloads and
  Ingresses name) and `EditsKeep(Switches)` (edits leave the switches of
  `spec.services` alone): a Ready CR is fully provisioned (`ServingInv`), first
  because the step that makes it Ready finds it so, then because nothing is
  deleted under it (`KeptInv`).
* `CredentialsAlwaysAgree`, assuming `FreshObjects`, `FreshNamespace`,
  `NoFailedDelete`, `CopiesInOrder` (the Plan makes what is copied before its copies)
  and `EditsKeep(Choices)` (edits leave the passwords and their source alone). The
  agreement is not inductive, since `ninegate-secret` takes its passwords from
  local variables, and the Secrets they belong to may be those of an earlier pass.
  So: what a variable holds is what the Secret has, if it exists (`PassInv`); with
  an override both are the override (`ValueInv`), which needs that the stale copy of
  the CR and the CR make the same choices (`ChoiceInv`), and that a CR with other
  choices meets no Secret of its predecessor (`HeldInv`: what a deletion cleans up
  belongs to a CR that still has its finalizer). The volume goes with the Secret
  (`ClusterInv`): an absent namespace has none, an active one has none without
  `postgres-secret` but during a deletion, and none once its claims are through. `SameStep` then reduces each agreement to the two creations.
* `CertificatesAlwaysChain`, assuming `FreshObjects`, `NoFailedDelete` and
  `CertificatesInOrder`: a pass that has read the CA has the stored one
  (`SignerInv`), and no certificate is there before it (`Backed`). That
  Glauth's and Dex's controllers never sign one themselves comes from `PlanInv`: the
  core has made it by then, so they find it.

These two are about `CredentialsSpec`. Each of its steps is a step of `Lifecycle`
or leaves it alone (`CredentialsAreSpec`), so all that is proved of `Lifecycle` holds
there.

* `TheStackIsSafe`: the operator's own Plan (`Plan = FullPlan`), with manifests that
  enable the six services (`FullManifests`), satisfies every assumption that the
  theorems make about a Plan, so that the five properties of the stack hold of
  it from assumptions about its environment and the edits only. `PlanProofs` follows
  the 43 steps in three parts. All that is made in the core without a switch
  comes before everything of the later parts (`CoreBefore`), and that gives every
  order but one: `dex-config` is a Secret of a service controller, and comes before
  Dex's Deployment within it (`ConfigBeforeDex`, by a lemma on `\o`). What Ingresses
  and pods name is given as the two sets of objects are the same (`ServiceObjects`),
  and an optional Ingress has the switch of its certificate (`SwitchedGives`).

The assumptions about the environment and the edits are needed. With the bounds of
`FullStack`, TLC finds

* `CredentialsAgree` violated when the informer of `postgres-secret` lags
  (`StaleSecret`);
* `PodsKeepSecrets`, `CredentialsAgree` and `CertificatesChain` violated when one
  Delete may fail: the cleanup drops the error and leaves half a stack, which the
  next CR takes over if the namespace is not the operator's own;
* `CredentialsAgree` violated when an override of a password is edited after the
  Secrets have been made and before their copies are;
* `ReferencesResolve` violated when a switch is edited: a pass interrupted before
  the route has made the Ingress of an optional service, the cleanup of that CR
  leaves the Ingress, the next CR is Ready without the service, and an edit
  then enables it, which no pass looks at any more.

The inductive invariants were checked by TLC before they were proved, with the
constants of `LifecycleFaults` or of `FullStack`.

Only model-checked: liveness (`DeletionCompletes`, `Settles`, `PodsStart`), as
fairness and ENABLED are beyond the prover, and the seven violations.

## 5. Not modelled

* The content of databases: `init.sql` (which begins with `CREATE DATABASE
  ninegate`, made before by `POSTGRES_DB`), and their dumps and restores, which
  connect as `ninekube`, a role that the operator's PostgreSQL does not have.
* What certificates say (names, validity) and the issuer annotation of Ingresses.
  `task/client-ca.sh`, which extracts the CA, reads a key `ca.crt` (line 29) that the
  Secret `ca` does not have.
* What a container does once it runs.
* Edits of `spec.storage` in any run (the theorem on `CredentialsAgree` excludes them
  by `EditsKeep(Choices)`), and two CRs of one name in two namespaces, which would
  share one target namespace.
* `getOrGeneratePassword`, `SignCert`, `ensureCertificates`, `ensureSelfSignedCert`
  and `ensureCertFromSecret`, which nothing calls; `reconcileOptionalServices` and
  the service catalog, which only lead to log lines.
* Finalizers of others, concurrent edits of the created objects by users, and
  the deletion of a live namespace by hand.
* Failures of cached reads, other than of the namespace: a cached `Get` fails only
  with NotFound, a cached List never; the namespace's is kept because `reconcileDelete` swallows it.
* A cache that lags by more than one version: a lagging informer shows an arbitrary
  older state until it jumps to the present one.
* Metrics, probes, leader election (a lost lease is a `Restart`), logging.
* Scripts that install the cluster, static manifests, generated code, tests.

Faults seen while modelling that no run shows, because they are there in every
state and need no exploration:

* the Ingress `rustfs-api` (`I:165`) leads to a Service that nothing creates, and so
  do those of nextcloud, wordpress and dolibarr; `ReferencesResolve` checks
  the ports and TLS secrets of the others;
* without Glauth nothing creates the ConfigMap that Ninegate's pod mounts
  (`ninegate_controller.go:237`); `FullStack` enables the core services;
* `serviceName` (`C:717`) reports each service under the name of its predecessor;
* the cleanup (`C:606`) leaves Ingresses, IngressRouteTCPs and NetworkPolicies in a
  namespace that the operator did not make, which is why `DeletionIsComplete`
  leaves `Routing` out;
* `ensureGlauthIngressRouteTCP` (`I:258`) looks for its route among the Secrets, so a
  second pass over a namespace that has it fails: after an interrupted pass the
  CR ends as Failed. `Settles` covers it, and `EventuallyReady` fails for it as well as
  for the reason that `StaleCa` shows;
* with `spec.admin.passwordSecretRef` the Secret it names is not read, and Ninegate
  and Dex each make up an admin password (`C:343`, `dex_controller.go:101`).

## 6. Plan

Done: `Lifecycle`, `Stack`, `Contract`, `Credentials`, `Startup`, `Backup` with their
runs; the theorems of section 4. Left:

1. `Tenants`: two CRs of one name in two namespaces over one target namespace.
2. Edits of `spec.storage` between passes, in `Credentials`.
3. Databases: the first start of PostgreSQL with `init.sql`, and the dumps of `Backup`.
4. Safety of `Startup` (which containers can have run before which) as invariants
   and theorems.
