------------------------------- MODULE Startup -------------------------------
(***************************************************************************)
(* How the pods of Stack start: what they mount, which Services their init  *)
(* containers wait for, and the network policies that come last.  The       *)
(* workload controllers, the kubelet and the network are not in this        *)
(* repository; they are modelled by what the objects ask of them.           *)
(***************************************************************************)
EXTENDS Stack

CONSTANTS
  Enforced,       \* the cluster's network enforces NetworkPolicies
  MaxEvictions    \* bounds the pods that are evicted and start again

ASSUME StartupAssumption == Enforced \in BOOLEAN /\ MaxEvictions \in Nat

VARIABLES
  pod,        \* the one pod of each workload
  passed,     \* how many of its init containers have ended
  evictions

pods == <<pod, passed, evictions>>

Deployed == {w \in Workloads : w.step.res \in Resources}

(* The label app.kubernetes.io/name, by which a Service selects its pods, is*)
(* the name of the workload and of the Service.                             *)
App(w) == w.step.res[2]

Apps == {App(w) : w \in Deployed}

-----------------------------------------------------------------------------
(* The init containers: each loops until a port of a Service answers.       *)

ninegate_initContainers == <<<<"postgresql", 5432>>>>

Misglauth_initContainers == <<<<"postgresql", 5432>>, <<"glauth", 3893>>>>

glauth_initContainers == <<<<"postgresql", 5432>>, <<"ninegate", 80>>>>

Waits(w) ==
  CASE App(w) = "ninegate" -> ninegate_initContainers
    [] App(w) = "glauth"   -> glauth_initContainers
    [] OTHER               -> <<>>

StartupInit ==
  /\ pod = [a \in Apps |-> "none"] /\ passed = [a \in Apps |-> 0]
  /\ evictions = 0

(* Each policy selects every pod of the namespace and has no rule: a pod can*)
(* be connected to by none, or can connect to none.                         *)
ensureNetworkPolicyAllowAll ==
  {"ninekube-allow-all-egress", "ninekube-allow-all-ingress"}

Isolated ==
  Enforced /\ \E name \in ensureNetworkPolicyAllowAll : <<"NetworkPolicy", name>> \in objs

Answers(service, port) ==
  /\ \E s \in Exposed : s.step.res = <<"Service", service>>
                        /\ s.step.res \in objs /\ port \in s.ports
  /\ \E w \in Deployed : App(w) = service /\ pod[App(w)] = "ready"
  /\ ~Isolated

-----------------------------------------------------------------------------
CreatePod(w) ==
  /\ pod[App(w)] = "none" /\ w.step.res \in objs /\ ns.state = "active"
  /\ pod' = [pod EXCEPT ![App(w)] = "pending"] /\ UNCHANGED <<passed, evictions>>

(* A pod waits for the Secrets, ConfigMaps and volumes it names.            *)
Mount(w) ==
  /\ pod[App(w)] = "pending" /\ w.uses \subseteq objs
  /\ pod' = [pod EXCEPT ![App(w)] = "init"] /\ passed' = [passed EXCEPT ![App(w)] = 0]
  /\ UNCHANGED evictions

EndInitContainer(w) ==
  /\ pod[App(w)] = "init" /\ passed[App(w)] < Len(Waits(w))
  /\ LET wait == Waits(w)[passed[App(w)] + 1] IN Answers(wait[1], wait[2])
  /\ passed' = [passed EXCEPT ![App(w)] = @ + 1] /\ UNCHANGED <<pod, evictions>>

(* The kubelet probes from the node, which no policy keeps out.             *)
BecomeReady(w) ==
  /\ pod[App(w)] = "init" /\ passed[App(w)] = Len(Waits(w))
  /\ pod' = [pod EXCEPT ![App(w)] = "ready"] /\ UNCHANGED <<passed, evictions>>

Evict(w) ==
  /\ pod[App(w)] \in {"init", "ready"} /\ evictions < MaxEvictions
  /\ pod' = [pod EXCEPT ![App(w)] = "none"] /\ passed' = [passed EXCEPT ![App(w)] = 0]
  /\ evictions' = evictions + 1

RemovePod(w) ==
  /\ pod[App(w)] # "none" /\ w.step.res \notin objs
  /\ pod' = [pod EXCEPT ![App(w)] = "none"] /\ passed' = [passed EXCEPT ![App(w)] = 0]
  /\ UNCHANGED evictions

RunPod(w) == CreatePod(w) \/ Mount(w) \/ EndInitContainer(w) \/ BecomeReady(w) \/ RemovePod(w)

StartupNext ==
  \/ Next /\ UNCHANGED pods
  \/ \E w \in Deployed : (RunPod(w) \/ Evict(w)) /\ UNCHANGED vars

(* The operator runs and sees its CR, and so do the workload controllers and*)
(* the kubelets for each workload.                                          *)
StartupSpec ==
  /\ Init /\ StartupInit /\ [][StartupNext]_<<vars, pods>>
  /\ WF_vars(Reconcile) /\ WF_vars(DeliverCr)
  /\ \A w \in Deployed : WF_pods(RunPod(w))

-----------------------------------------------------------------------------
(* Properties.                                                              *)

Gone == cr.deleting \/ ~cr.exists

(* No order of mounts and waits is a deadlock: once the workloads exist,    *)
(* whatever becomes of the rest of the pass, all their pods get ready, also *)
(* after an eviction, although they wait for Services and ConfigMaps of     *)
(* other controllers.                                                       *)
PodsStart ==
  (\A w \in Deployed : w.step.res \in objs) ~>
    Gone \/ \A w \in Deployed : pod[App(w)] = "ready"

(* A Ready stack runs: a service is ready "if the service is fully          *)
(* provisioned and healthy".                                                *)
EveryPodRuns ==
  cr.phase = "Ready" ~> Gone \/ \A w \in Deployed : pod[App(w)] = "ready"
=============================================================================
