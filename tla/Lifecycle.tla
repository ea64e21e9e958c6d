------------------------------ MODULE Lifecycle ------------------------------
(***************************************************************************)
(* The life of one ClientNamespace (CR): the reconcile loop of              *)
(* clientnamespace_controller.go, one API call per step, run by the single  *)
(* worker of the manager against an API server that the users also write    *)
(* to, through informer caches that lag behind it.                          *)
(*                                                                          *)
(* What a pass provisions is the constant Plan: the ordered list of the     *)
(* ensureX calls, each reduced to the object it looks up and creates.  The  *)
(* Plan of the real operator is written in module Stack.                    *)
(***************************************************************************)
EXTENDS Naturals, Sequences

CONSTANTS
  Plan,         \* the steps of a provisioning pass, after ensureNamespace
  Services,     \* the service controllers, in the order of main.go
  Manifests,    \* the values of spec.services that users apply
  Lagging,      \* the objects whose informer may lag behind the API server
  Faulty,       \* the kinds of API call that may fail
  InOrder,      \* a bound of the checks: items are listed in the order of the Plan
  MaxFaults, MaxRestarts, MaxEdits, MaxApplies   \* bounds of the checks

Resources == {Plan[i].res : i \in DOMAIN Plan}
NsObject  == <<"Namespace", "target">>

Step == [op    : {"ensure", "create", "read"},   \* get+create, create, get
         res   : Resources,
         owner : {"core"} \cup {Services[i] : i \in DOMAIN Services},
         when  : STRING,                         \* "always", or a service
         needs : SUBSET Resources]               \* read before the create

(* spec.services: a pointer that may be nil, and what it enables.           *)
ServicesSpec == [given : BOOLEAN, enabled : SUBSET STRING]
NoServices   == [given |-> FALSE, enabled |-> {}]

-----------------------------------------------------------------------------
(* The names under which updateServiceStatus reports the services.  Go      *)
(* indexes from 0: Services[i] is r.Services[i - 1].                        *)

names == <<"Namespace", "PostgreSQL", "Redis", "RustFS", "Ninegate", "Glauth",
           "Dex", "Nextcloud", "WordPress", "Dolibarr">>

serviceName(i) == names[i]

StatusNames == {serviceName(i) : i \in DOMAIN Services}

ASSUME ServicesAssumption ==
  Services \in Seq(STRING) /\ Len(Services) <= Len(names)

ASSUME PlanAssumption ==
  /\ Plan \in Seq(Step)
  /\ NsObject \notin Resources
  /\ \A i \in DOMAIN Services : \E j \in DOMAIN Plan : Plan[j].owner = Services[i]

ASSUME ManifestsAssumption == Manifests \subseteq ServicesSpec

ASSUME EnvironmentAssumption ==
  /\ Lagging \subseteq Resources \cup {NsObject}
  /\ Faulty \subseteq {"nsGet", "create", "update", "status", "delete"}
  /\ InOrder \in BOOLEAN
  /\ MaxFaults \in Nat /\ MaxRestarts \in Nat
  /\ MaxEdits \in Nat /\ MaxApplies \in Nat

-----------------------------------------------------------------------------
VARIABLES
  \* the API server
  cr,           \* the CR (exists = FALSE when there is none)
  ns,           \* the namespace <name>-ns, and whether it has the client label
  objs,         \* the objects of the Plan that are in the namespace
  \* the informers of the operator
  cachedCr, cachedNs, cachedObjs,
  cacheCurrent, \* cachedCr has the resourceVersion of cr
  \* the worker
  queued,       \* the key of the CR is in the workqueue
  pc,           \* where the pass is; "idle" between two passes
  cn,           \* the pass's own copy of the CR
  cnCurrent,    \* that copy has the resourceVersion of cr
  k,            \* the step of the Plan the pass is at, or the kinds it has listed
  listed,       \* the objects of the last of these kinds that it has yet to delete
  \* what the bounds have left
  faults, restarts, edits, applies

server  == <<cr, ns, objs>>
caches  == <<cachedCr, cachedNs, cachedObjs, cacheCurrent>>
worker  == <<queued, pc, cn, cnCurrent, k, listed>>
budgets == <<faults, restarts, edits, applies>>
vars    == <<server, caches, worker, budgets>>

Phases     == {"", "Provisioning", "Ready", "Failed"}
Conditions == {<<>>, <<"False">>, <<"True">>}   \* the Status of type "Ready"
Marks      == [StatusNames -> {"none", "ready", "failed"}]

CR == [exists : BOOLEAN, deleting : BOOLEAN, finalizer : BOOLEAN,
       services : ServicesSpec,
       phase : Phases, conditions : Conditions, marks : Marks]

NS == [state : {"absent", "active", "terminating"}, labelled : BOOLEAN]

NoCr == [exists |-> FALSE, deleting |-> FALSE, finalizer |-> FALSE,
         services |-> NoServices, phase |-> "", conditions |-> <<>>,
         marks |-> [n \in StatusNames |-> "none"]]

NewCr(services) == [NoCr EXCEPT !.exists = TRUE, !.services = services]

NoNs == [state |-> "absent", labelled |-> FALSE]

Pcs == {"idle", "addFinalizer", "start", "namespace", "plan", "serviceFailed",
        "setFailed", "cleanup", "removeFinalizer"}

MisCleanedKinds == <<"Secret", "ConfigMap", "StatefulSet", "Service">>

(* The kinds that cleanupClientResources lists by label and deletes.        *)
CleanedKinds == <<"Secret", "ConfigMap", "Deployment", "StatefulSet", "Service",
                  "PersistentVolumeClaim">>

Cleaned == {CleanedKinds[i] : i \in DOMAIN CleanedKinds}

ServerOK ==
  cr \in CR /\ ns \in NS /\ objs \subseteq Resources

CachesOK ==
  /\ cachedCr \in CR /\ cachedNs \in NS /\ cachedObjs \subseteq Resources
  /\ cacheCurrent \in BOOLEAN

WorkerOK ==
  /\ queued \in BOOLEAN /\ pc \in Pcs
  /\ cn \in CR /\ cnCurrent \in BOOLEAN
  /\ k \in 0 .. IF pc = "cleanup" THEN Len(CleanedKinds) ELSE Len(Plan) + 1
  /\ pc = "plan" => k # 0
  /\ listed \subseteq Resources /\ (pc # "cleanup" => listed = {})

BudgetsOK ==
  /\ faults \in 0 .. MaxFaults /\ restarts \in 0 .. MaxRestarts
  /\ edits \in 0 .. MaxEdits /\ applies \in 0 .. MaxApplies

TypeOK == ServerOK /\ CachesOK /\ WorkerOK /\ BudgetsOK

(* The operator finds the namespace absent, or made by somebody else.       *)
Init ==
  /\ cr = NoCr /\ cachedCr = NoCr /\ cacheCurrent = TRUE
  /\ ns \in {NoNs, [state |-> "active", labelled |-> FALSE]} /\ cachedNs = ns
  /\ objs = {} /\ cachedObjs = {}
  /\ queued = FALSE /\ pc = "idle" /\ cn = NoCr /\ cnCurrent = FALSE
  /\ k = 0 /\ listed = {}
  /\ faults = 0 /\ restarts = 0 /\ edits = 0 /\ applies = 0

-----------------------------------------------------------------------------
(* Calls to the API server.                                                 *)

Fault(call) ==
  /\ call \in Faulty /\ faults < MaxFaults
  /\ faults' = faults + 1 /\ UNCHANGED <<restarts, edits, applies>>

(* A definition named Mis... is a wrong variant of the definition that      *)
(* follows it: the properties are checked to notice each of them.           *)

MisValid(new) == TRUE   \* conditions a plain list

(* The CRD keys status.conditions by type, and every condition the operator *)
(* writes has type "Ready".                                                 *)
Valid(new) == Len(new.conditions) <= 1

MisAccept(new) ==       \* no resourceVersion
  /\ Valid(new) /\ cr.exists
  /\ cr' = new /\ cacheCurrent' = FALSE
  /\ UNCHANGED <<ns, objs, cachedCr, cachedNs, cachedObjs>>

(* Update and Status().Update carry the resourceVersion of the copy.        *)
Accept(new) ==
  /\ cnCurrent /\ Valid(new)
  /\ cr' = new /\ cacheCurrent' = FALSE
  /\ UNCHANGED <<ns, objs, cachedCr, cachedNs, cachedObjs>>

Refuse == UNCHANGED <<server, caches>>

WriteSucceeds(new) == Accept(new) /\ UNCHANGED budgets

(* The call is refused, is lost, or its answer is.                          *)
WriteFails(call, new) ==
  \/ ~(cnCurrent /\ Valid(new)) /\ Refuse /\ UNCHANGED budgets
  \/ Fault(call) /\ (Refuse \/ Accept(new))

(* Informers that do not lag show every write at once.                      *)
SetNs(new) ==
  /\ ns' = new
  /\ cachedNs' = IF NsObject \in Lagging THEN cachedNs ELSE new

SetObjs(new) ==
  /\ objs' = new
  /\ cachedObjs' = (cachedObjs \cap Lagging) \cup (new \ Lagging)

-----------------------------------------------------------------------------
(* The ends of a pass: the local copy goes, and an error requeues the key.  *)

Return(requeue) ==
  /\ pc' = "idle" /\ cn' = NoCr /\ cnCurrent' = FALSE /\ k' = 0 /\ listed' = {}
  /\ queued' = (queued \/ requeue)

MisReturnError == Return(FALSE)   \* ctrl.Result{}, nil

ReturnError == Return(TRUE)

Continue(next, copy, step) ==
  /\ pc' = next /\ cn' = copy /\ cnCurrent' = TRUE /\ k' = step
  /\ UNCHANGED <<queued, listed>>

Goto(next, step) ==
  /\ pc' = next /\ k' = step /\ UNCHANGED <<queued, cn, cnCurrent, listed>>

MisDispatch(c) ==       \* no finalizer
  IF ~c.exists THEN "idle"
  ELSE IF c.deleting THEN "cleanup"
  ELSE CASE c.phase = "Ready" -> "idle"
         [] c.phase = ""      -> "start"
         [] OTHER             -> "namespace"

(* The tests of Reconcile, in their order.                                  *)
Dispatch(c) ==
  IF ~c.exists THEN "idle"
  ELSE IF c.deleting THEN "cleanup"
  ELSE IF ~c.finalizer THEN "addFinalizer"
  ELSE CASE c.phase = "Ready" -> "idle"
         [] c.phase = ""      -> "start"
         [] OTHER             -> "namespace"

(* The pass begins with whatever the cache holds.                           *)
Get ==
  /\ pc = "idle" /\ queued
  /\ queued' = FALSE /\ pc' = Dispatch(cachedCr)
  /\ IF pc' = "idle" THEN UNCHANGED <<cn, cnCurrent>>
                     ELSE cn' = cachedCr /\ cnCurrent' = cacheCurrent
  /\ k' = 0 /\ UNCHANGED <<server, caches, budgets, listed>>

AddFinalizer ==
  LET new == [cn EXCEPT !.finalizer = TRUE] IN
  /\ pc = "addFinalizer"
  /\ \/ /\ WriteSucceeds(new)
        /\ IF Dispatch(new) = "idle" THEN Return(FALSE)
                                    ELSE Continue(Dispatch(new), new, 0)
     \/ WriteFails("update", new) /\ ReturnError

StartProvisioning ==
  LET new == [cn EXCEPT !.phase = "Provisioning"] IN
  /\ pc = "start"
  /\ \/ WriteSucceeds(new) /\ Continue("namespace", new, 0)
     \/ WriteFails("status", new) /\ ReturnError

ensureNamespace ==
  /\ pc = "namespace"
  /\ UNCHANGED <<cr, objs, cachedCr, cachedObjs, cacheCurrent>>
  /\ \/ /\ cachedNs.state # "absent" /\ Goto("plan", 1)
        /\ UNCHANGED <<ns, cachedNs, budgets>>
     \/ /\ cachedNs.state = "absent" /\ ns.state = "absent"
        /\ SetNs([state |-> "active", labelled |-> TRUE])
        /\ Goto("plan", 1) /\ UNCHANGED budgets
     \/ /\ cachedNs.state = "absent" /\ ns.state # "absent"   \* AlreadyExists
        /\ Goto("setFailed", 0) /\ UNCHANGED <<ns, cachedNs, budgets>>
     \/ /\ Fault("nsGet") /\ Goto("setFailed", 0)
        /\ UNCHANGED <<ns, cachedNs>>
     \/ /\ cachedNs.state = "absent" /\ Fault("create")
        /\ Goto("setFailed", 0)
        /\ \/ UNCHANGED <<ns, cachedNs>>
           \/ ns.state = "absent"
              /\ SetNs([state |-> "active", labelled |-> TRUE])

-----------------------------------------------------------------------------
(* The steps of the Plan.                                                   *)

Enabled(services, step) == step.when = "always" \/ step.when \in services.enabled

Passed(i, step) == \A j \in DOMAIN Plan : Plan[j].owner = Services[i] => j < step

MisReported(marks, step) ==   \* an entry is never overwritten
  [n \in StatusNames |->
     IF marks[n] = "none" /\ \E i \in DOMAIN Services : serviceName(i) = n /\ Passed(i, step)
     THEN "ready" ELSE marks[n]]

(* cn.Status.Services as updateServiceStatus has left it before the step:   *)
(* ready for every service whose Reconcile has returned.                    *)
Reported(marks, step) ==
  [n \in StatusNames |->
     IF \E i \in DOMAIN Services : serviceName(i) = n /\ Passed(i, step)
     THEN "ready" ELSE marks[n]]

OwnedBy(step) == {serviceName(i) : i \in {j \in DOMAIN Services : Services[j] = step.owner}}

MisFail(step) == Goto("plan", k + 1)   \* the error is only logged

Fail(step) == Goto(IF OwnedBy(step) = {} THEN "setFailed" ELSE "serviceFailed", k)

SkipStep ==
  /\ pc = "plan" /\ k <= Len(Plan) /\ ~Enabled(cn.services, Plan[k])
  /\ Goto("plan", k + 1) /\ UNCHANGED <<server, caches, budgets>>

AtStep(op) ==
  pc = "plan" /\ k <= Len(Plan) /\ Plan[k].op = op /\ Enabled(cn.services, Plan[k])

MisFound == \E r \in cachedObjs : r[2] = Plan[k].res[2]   \* an object of another kind

Found == Plan[k].res \in cachedObjs

FindObject ==
  /\ AtStep("ensure") /\ Found
  /\ Goto("plan", k + 1) /\ UNCHANGED <<server, caches, budgets>>

(* getCA, then the list of certificates, which dereferences spec.services:  *)
(* the manager recovers the panic and requeues.                             *)
ReadObject ==
  /\ AtStep("read")
  /\ IF ~Found THEN Fail(Plan[k])
     ELSE IF ~cn.services.given THEN ReturnError
     ELSE Goto("plan", k + 1)
  /\ UNCHANGED <<server, caches, budgets>>

Creating ==
  \/ AtStep("ensure") /\ ~Found
  \/ AtStep("create")

Creatable == ns.state = "active" /\ Plan[k].res \notin objs

CreateObject ==
  /\ Creating /\ UNCHANGED <<cr, ns, cachedCr, cachedNs, cacheCurrent>>
  /\ \/ /\ Plan[k].needs \subseteq cachedObjs /\ Creatable
        /\ SetObjs(objs \cup {Plan[k].res})
        /\ Goto("plan", k + 1) /\ UNCHANGED budgets
     \/ /\ ~(Plan[k].needs \subseteq cachedObjs /\ Creatable)
        /\ Fail(Plan[k]) /\ UNCHANGED <<objs, cachedObjs, budgets>>
     \/ /\ Plan[k].needs \subseteq cachedObjs /\ Fault("create")
        /\ Fail(Plan[k])
        /\ \/ UNCHANGED <<objs, cachedObjs>>
           \/ Creatable /\ SetObjs(objs \cup {Plan[k].res})

(* Whether the first status update of a failed service gets through is only *)
(* logged: setFailed follows with the same copy.                            *)
ServiceFailed ==
  LET new == [cn EXCEPT !.marks =
                [n \in StatusNames |-> IF n \in OwnedBy(Plan[k]) THEN "failed"
                                       ELSE Reported(cn.marks, k)[n]]]
  IN
  /\ pc = "serviceFailed" /\ pc' = "setFailed" /\ cn' = new
  /\ \/ WriteSucceeds(new) /\ UNCHANGED cnCurrent
     \/ WriteFails("status", new) /\ cnCurrent' = (cnCurrent /\ cr' = cr)
  /\ UNCHANGED <<queued, k, listed>>

MisFailedStatus(c) == [c EXCEPT !.phase = "Failed"]   \* no condition

(* setFailed replaces the "Ready" condition, or appends the first one.      *)
FailedStatus(c) == [c EXCEPT !.phase = "Failed", !.conditions = <<"False">>]

setFailed ==
  LET new == FailedStatus([cn EXCEPT !.marks = Reported(@, k)]) IN
  /\ pc = "setFailed"
  /\ WriteSucceeds(new) \/ WriteFails("status", new)
  /\ ReturnError

(* The last status update appends its condition.                            *)
ReadyStatus(c) == [c EXCEPT !.phase = "Ready", !.conditions = Append(@, "True")]

MarkReady ==
  LET new == ReadyStatus([cn EXCEPT !.marks = Reported(@, k)]) IN
  /\ pc = "plan" /\ k > Len(Plan)
  /\ \/ WriteSucceeds(new) /\ Return(FALSE)
     \/ WriteFails("status", new) /\ ReturnError

-----------------------------------------------------------------------------
(* reconcileDelete.  The Cleanup methods of the services do nothing.        *)

(* For one kind after the other: a List, answered by the cache.             *)
ListKind ==
  /\ pc = "cleanup" /\ listed = {} /\ k < Len(CleanedKinds)
  /\ k' = k + 1 /\ listed' = {r \in cachedObjs : r[1] = CleanedKinds[k']}
  /\ UNCHANGED <<server, caches, queued, pc, cn, cnCurrent, budgets>>

(* A List has no order of its own.                                          *)
ItsTurn(r) ==
  InOrder => \E i \in DOMAIN Plan :
               /\ Plan[i].res = r
               /\ \A j \in 1 .. i - 1 : Plan[j].res \in listed => Plan[j].res = r

(* ... and a Delete of each of its items, whose error nobody looks at.      *)
DeleteListed ==
  /\ pc = "cleanup"
  /\ \E r \in listed :
       /\ ItsTurn(r) /\ listed' = listed \ {r}
       /\ \/ SetObjs(objs \ {r}) /\ UNCHANGED budgets
          \/ Fault("delete") /\ (SetObjs(objs \ {r}) \/ UNCHANGED <<objs, cachedObjs>>)
  /\ UNCHANGED <<cr, ns, cachedCr, cachedNs, cacheCurrent, queued, pc, cn, cnCurrent, k>>

cleanupClientResources == ListKind \/ DeleteListed

MisCleanedUp ==         \* a return inside the loop over the kinds
  pc = "cleanup" /\ k # 0 /\ listed = {}

CleanedUp == pc = "cleanup" /\ k = Len(CleanedKinds) /\ listed = {}

Terminated(n) == IF n.state = "active" THEN [n EXCEPT !.state = "terminating"] ELSE n

MisOurs == cachedNs.state # "absent"   \* no look at the label

Ours == cachedNs.state # "absent" /\ cachedNs.labelled

(* A namespace the cache does not show, or shows without the label, is left *)
(* alone; so is one whose read fails.                                       *)
deleteNamespace ==
  /\ CleanedUp
  /\ UNCHANGED <<cr, objs, cachedCr, cachedObjs, cacheCurrent>>
  /\ \/ /\ Ours /\ SetNs(Terminated(ns))
        /\ Goto("removeFinalizer", 0) /\ UNCHANGED budgets
     \/ /\ Ours /\ Fault("delete") /\ ReturnError
        /\ SetNs(Terminated(ns)) \/ UNCHANGED <<ns, cachedNs>>
     \/ /\ ~Ours /\ Goto("removeFinalizer", 0)
        /\ UNCHANGED <<ns, cachedNs, budgets>>
     \/ /\ Fault("nsGet") /\ Goto("removeFinalizer", 0)
        /\ UNCHANGED <<ns, cachedNs>>

(* The API server removes a deleting object with its last finalizer.        *)
RemoveFinalizer ==
  /\ pc = "removeFinalizer"
  /\ \/ WriteSucceeds(NoCr) /\ Return(FALSE)
     \/ WriteFails("update", NoCr) /\ ReturnError

-----------------------------------------------------------------------------
(* The informers, the process, the users and the namespace controller.      *)

DeliverCr ==
  /\ ~cacheCurrent
  /\ cachedCr' = cr /\ cacheCurrent' = TRUE /\ queued' = TRUE
  /\ UNCHANGED <<server, cachedNs, cachedObjs, pc, cn, cnCurrent, k, listed, budgets>>

DeliverNs ==
  /\ cachedNs # ns /\ cachedNs' = ns
  /\ UNCHANGED <<server, cachedCr, cachedObjs, cacheCurrent, worker, budgets>>

DeliverObj(r) ==
  /\ (r \in objs) # (r \in cachedObjs)
  /\ cachedObjs' = IF r \in objs THEN cachedObjs \cup {r} ELSE cachedObjs \ {r}
  /\ UNCHANGED <<server, cachedCr, cachedNs, cacheCurrent, worker, budgets>>

(* A crash, or the loss of the lease: the next process starts by listing,   *)
(* and the listed CR is queued.                                             *)
Restart ==
  /\ restarts < MaxRestarts /\ restarts' = restarts + 1
  /\ cachedCr' = cr /\ cacheCurrent' = TRUE /\ cachedNs' = ns
  /\ cachedObjs' = objs
  /\ pc' = "idle" /\ cn' = NoCr /\ cnCurrent' = FALSE /\ k' = 0 /\ listed' = {}
  /\ queued' = cr.exists
  /\ UNCHANGED <<server, faults, edits, applies>>

UserWrites(new) ==
  /\ cr' = new /\ cacheCurrent' = FALSE /\ cnCurrent' = FALSE
  /\ UNCHANGED <<ns, objs, cachedCr, cachedNs, cachedObjs, queued, pc, cn, k, listed,
                 faults, restarts>>

ApplyCr ==
  /\ ~cr.exists /\ applies < MaxApplies /\ applies' = applies + 1
  /\ \E services \in Manifests : UserWrites(NewCr(services))
  /\ UNCHANGED edits

EditSpec ==
  /\ cr.exists /\ edits < MaxEdits /\ edits' = edits + 1
  /\ \E services \in Manifests \ {cr.services} :
       UserWrites([cr EXCEPT !.services = services])
  /\ UNCHANGED applies

(* A CR with a finalizer is only marked.                                    *)
DeleteCr ==
  /\ cr.exists /\ ~cr.deleting
  /\ UserWrites(IF cr.finalizer THEN [cr EXCEPT !.deleting = TRUE] ELSE NoCr)
  /\ UNCHANGED <<edits, applies>>

(* The namespace controller empties a terminating namespace, then drops it. *)
EmptyNamespace ==
  /\ ns.state = "terminating" /\ objs # {}
  /\ \E r \in objs : SetObjs(objs \ {r})
  /\ UNCHANGED <<cr, ns, cachedCr, cachedNs, cacheCurrent, worker, budgets>>

DropNamespace ==
  /\ ns.state = "terminating" /\ objs = {}
  /\ SetNs(NoNs)
  /\ UNCHANGED <<cr, objs, cachedCr, cachedObjs, cacheCurrent, worker, budgets>>

-----------------------------------------------------------------------------
Reconcile ==
  \/ Get \/ AddFinalizer \/ StartProvisioning \/ ensureNamespace
  \/ SkipStep \/ FindObject \/ ReadObject \/ CreateObject
  \/ ServiceFailed \/ setFailed \/ MarkReady
  \/ cleanupClientResources \/ deleteNamespace \/ RemoveFinalizer

Deliver == DeliverCr \/ DeliverNs \/ \E r \in Resources : DeliverObj(r)

Environment ==
  Restart \/ ApplyCr \/ EditSpec \/ DeleteCr \/ EmptyNamespace \/ DropNamespace

Next == Reconcile \/ Deliver \/ Environment

Spec == Init /\ [][Next]_vars

(* The worker runs, watches deliver, and the namespace controller works.    *)
(* Nothing obliges a user to act, a call to fail or the process to restart. *)
Fairness ==
  /\ WF_vars(Reconcile)
  /\ WF_vars(DeliverCr) /\ WF_vars(DeliverNs)
  /\ \A r \in Resources : WF_vars(DeliverObj(r))
  /\ WF_vars(EmptyNamespace) /\ WF_vars(DropNamespace)

FairSpec == Spec /\ Fairness

-----------------------------------------------------------------------------
(* Properties.                                                              *)

(* The phase and the "Ready" condition of the stored status agree, whatever *)
(* mixture of lost answers, conflicts and stale copies wrote them.          *)
StatusCoherent ==
  cr.conditions = CASE cr.phase = "Ready"  -> <<"True">>
                    [] cr.phase = "Failed" -> <<"False">>
                    [] OTHER               -> <<>>

(* Reconcile and setFailed write phases from copies that may be stale, and  *)
(* a Failed CR is tried again: whatever is lost, no phase is skipped, Ready *)
(* is the last one, and no CR goes back to a phase it has left.             *)
PhaseOrder ==
  [][cr.exists /\ cr'.exists /\ cr'.phase # cr.phase =>
       <<cr.phase, cr'.phase>> \in {<<"", "Provisioning">>,
                                   <<"Provisioning", "Failed">>,
                                   <<"Provisioning", "Ready">>,
                                   <<"Failed", "Ready">>}]_vars

(* No return path of Reconcile forgets a CR that is not Ready, or not yet   *)
(* deleted: it is queued, in work, or an event for it is still to come.     *)
NoLostWork ==
  cr.exists /\ (cr.deleting \/ cr.phase # "Ready")
    => queued \/ pc # "idle" \/ ~cacheCurrent

(* A live namespace with the client label always has its CR, and the CR its *)
(* finalizer: no order of retries, crashes and re-creations leaves the      *)
(* namespace behind.                                                        *)
NoOrphan ==
  ns.state = "active" /\ ns.labelled => cr.exists /\ cr.finalizer

(* The namespace is only ever terminated for a CR that is being deleted, and*)
(* only if ensureNamespace made it.                                         *)
OnlyDeletionTerminates ==
  [][ns.state = "active" /\ ns'.state # "active"
       => ns.labelled /\ cr.exists /\ cr.deleting]_vars

(* When reconcileDelete lets the CR go, the namespace is terminating, or it *)
(* was never the operator's and holds no workload, volume or credential of  *)
(* the CR any more.                                                         *)
Routing == {"Ingress", "IngressRouteTCP", "NetworkPolicy"}

DeletionIsComplete ==
  [][cr.finalizer /\ ~cr'.exists /\ ns.state = "active"
       => ~ns.labelled /\ \A r \in objs : r[1] \in Routing]_vars

Provisioned(services) ==
  /\ ns.state = "active"
  /\ \A i \in DOMAIN Plan :
       Enabled(services, Plan[i]) => Plan[i].res \in objs

(* "All services are provisioned" (the message of the Ready condition): the *)
(* CR turns Ready only over a complete stack, although most of its objects  *)
(* may have been created by earlier, interrupted passes.                    *)
ReadyMeansProvisioned ==
  [][cr.phase # "Ready" /\ cr'.phase = "Ready"
       => Provisioned(cr.services)']_vars

(* ... and until its deletion is asked for, no late pass takes it apart.    *)
ReadyIsKept ==
  [][cr.phase = "Ready" /\ ~cr.deleting => ns' = ns /\ objs \subseteq objs']_vars

(* A Ready CR reports no service as failed, even if an earlier pass stored  *)
(* the failure of a service and was interrupted before setFailed.           *)
ReadyReportsNoFailure ==
  cr.phase = "Ready" => \A n \in StatusNames : cr.marks[n] = "ready"

(* A deletion is eventually carried out, whatever was failing before.       *)
DeletionCompletes == cr.deleting ~> ~cr.deleting

Settled == cr.phase \in {"Ready", "Failed"} \/ cr.deleting \/ ~cr.exists

(* Provisioning does not go on for ever: a CR that gives spec.services      *)
(* becomes Ready or Failed, whatever fails, is stale or is edited meanwhile.*)
Settles ==
  cr.exists /\ cr.services.given ~> Settled \/ ~cr.services.given

(* The same of every CR: spec.services is optional.                         *)
AlwaysSettles == cr.exists ~> Settled

(* The CR is provisioned in the end, unless its deletion is asked for.      *)
EventuallyReady ==
  cr.exists ~> cr.phase = "Ready" \/ cr.deleting \/ ~cr.exists

(* What of the Plan these rest on: that something is created without a look,*)
(* which fails in a namespace that is terminating, and that every object is *)
(* of a kind that is cleaned up or left alone on purpose.                   *)
Unconditional(step) == step.op = "create" /\ step.when = "always"

AlwaysCreates == \E i \in DOMAIN Plan : Unconditional(Plan[i])

KnownKinds == \A r \in Resources : r[1] \in Cleaned \cup Routing

-----------------------------------------------------------------------------
(* The abstract specification.                                              *)

Life == IF ~cr.exists THEN "none" ELSE IF cr.deleting THEN "deleting" ELSE "live"

Home == IF ns.state # "active" THEN "none"
        ELSE IF ns.labelled THEN "ours" ELSE "foreign"

Promise == INSTANCE Contract
             WITH life <- Life, guarded <- cr.finalizer, phase <- cr.phase, home <- Home

(* Seen without the caches and the pass, the operator does only what the    *)
(* Contract allows: it takes charge of the CR before it makes the namespace,*)
(* reports once, never touches a namespace that is not its own, and lets    *)
(* the CR go only after the namespace.                                      *)
Implements == Promise!Spec
=============================================================================
