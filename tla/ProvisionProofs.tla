--------------------------- MODULE ProvisionProofs ---------------------------
(***************************************************************************)
(* What a Ready CR stands for.  Most of the objects that a pass finds were  *)
(* created by earlier ones, so what it finds must really be there: the      *)
(* caches of the objects are fresh.  And a pass may run over a namespace    *)
(* that is terminating and still full; it cannot end well there, because a  *)
(* step that creates without a look, like the route of Glauth, is refused.  *)
(***************************************************************************)
EXTENDS OrphanProofs

FreshObjects == Lagging \subseteq {NsObject}

(* What the pass at step m knows of the namespace n with the objects o.     *)
Behind(c, m, n, o) ==
  IF n.state = "active"
  THEN \A i \in DOMAIN Plan : i < m /\ Enabled(c.services, Plan[i]) => Plan[i].res \in o
  ELSE \A i \in DOMAIN Plan : i < m => ~Unconditional(Plan[i])

PlanInv == cachedObjs = objs /\ (pc = "plan" => Behind(cn, k, ns, objs))

-----------------------------------------------------------------------------
LEMMA SetObjsFresh ==
  ASSUME TypeOK, FreshObjects, cachedObjs = objs, NEW new \in SUBSET Resources, SetObjs(new)
  PROVE  objs' = new /\ cachedObjs' = new
<1>1. NsObject \notin Resources
  BY PlanAssumption
<1>2. cachedObjs \cap Lagging = {} /\ new \ Lagging = new
  BY <1>1 DEF FreshObjects, TypeOK, CachesOK
<1>3. QED
  BY <1>2 DEF SetObjs

(* The pass does not stay in the plan, or it begins it.                     *)
LEMMA LeavePlan ==
  ASSUME cachedObjs' = objs', pc' # "plan" \/ k' = 1
  PROVE  PlanInv'
<1>1. CASE k' = 1
  <2>1. \A i \in DOMAIN Plan : ~(i < 1)
    BY PlanAssumption
  <2>2. Behind(cn, k, ns, objs)'
    BY <1>1, <2>1 DEF Behind
  <2>3. QED
    BY <2>2 DEF PlanInv
<1>2. QED
  BY <1>1 DEF PlanInv

(* One more step is behind the pass: it was not enabled, or its object is   *)
(* there; only a namespace that is active lets it create.                   *)
LEMMA StepBehind ==
  ASSUME TypeOK, PlanInv, pc = "plan", Goto("plan", k + 1), UNCHANGED ns,
         objs \subseteq objs', cachedObjs' = objs',
         Enabled(cn.services, Plan[k]) => Plan[k].res \in objs',
         Unconditional(Plan[k]) => ns.state = "active"
  PROVE  PlanInv'
<1>1. k \in Nat /\ cn' = cn /\ k' = k + 1
  BY DEF TypeOK, WorkerOK, Goto
<1>2. \A i \in DOMAIN Plan : i < k + 1 => i < k \/ i = k
  BY <1>1, PlanAssumption
<1>3. Behind(cn, k, ns, objs)
  BY DEF PlanInv
<1>4. Behind(cn, k + 1, ns, objs')
  <2>1. CASE ns.state = "active"
    BY <1>2, <1>3, <2>1 DEF Behind
  <2>2. CASE ns.state # "active"
    BY <1>2, <1>3, <2>2 DEF Behind
  <2>3. QED
    BY <2>1, <2>2
<1>5. QED
  BY <1>1, <1>4 DEF PlanInv

LEMMA CreateBehind ==
  ASSUME TypeOK, FreshObjects, PlanInv, CreateObject
  PROVE  PlanInv'
<1>1. pc = "plan" /\ UNCHANGED ns
  BY DEF CreateObject, Creating, AtStep
<1>2. objs \cup {Plan[k].res} \in SUBSET Resources
  <2>1. k \in DOMAIN Plan
    BY PlanAssumption DEF CreateObject, Creating, AtStep, TypeOK, WorkerOK
  <2>2. QED
    BY <2>1 DEF Resources, TypeOK, ServerOK
<1>3. CASE SetObjs(objs \cup {Plan[k].res})
  <2>1. objs' = objs \cup {Plan[k].res} /\ cachedObjs' = objs'
    BY <1>2, <1>3, SetObjsFresh DEF PlanInv
  <2>2. CASE Goto("plan", k + 1) /\ Creatable
    BY <1>1, <2>1, <2>2, StepBehind DEF Creatable
  <2>3. CASE Fail(Plan[k])
    <3>1. pc' # "plan"
      BY <2>3, FailGoto DEF Failing, Goto
    <3>2. QED
      BY <2>1, <3>1, LeavePlan
  <2>4. CASE Goto("plan", k + 1) /\ ~Creatable
    BY <2>4, <2>1, LeavePlan DEF CreateObject, Fail, Goto
  <2>5. QED
    BY <2>2, <2>3, <2>4 DEF CreateObject
<1>4. CASE UNCHANGED <<objs, cachedObjs>> /\ Fail(Plan[k])
  <2>1. pc' # "plan"
    BY <1>4, FailGoto DEF Failing, Goto
  <2>2. cachedObjs' = objs'
    BY <1>4 DEF PlanInv
  <2>3. QED
    BY <2>1, <2>2, LeavePlan
<1>5. QED
  BY <1>3, <1>4 DEF CreateObject

LEMMA ReconcileBehind ==
  ASSUME TypeOK, FreshObjects, PlanInv, Reconcile
  PROVE  PlanInv'
<1>1. CASE SkipStep
  <2>1. ~Unconditional(Plan[k])
    BY <1>1 DEF SkipStep, Enabled, Unconditional
  <2>2. QED
    BY <1>1, <2>1, StepBehind DEF SkipStep, PlanInv, server, caches
<1>2. CASE FindObject
  <2>1. /\ pc = "plan" /\ Goto("plan", k + 1) /\ Plan[k].op = "ensure"
        /\ UNCHANGED <<ns, objs, cachedObjs>> /\ Plan[k].res \in cachedObjs
    BY <1>2 DEF FindObject, Found, AtStep, server, caches
  <2>2. QED
    BY <2>1, StepBehind DEF PlanInv, Unconditional
<1>3. CASE ReadObject
  <2>1. /\ pc = "plan" /\ Plan[k].op = "read" /\ UNCHANGED <<ns, objs, cachedObjs>>
    BY <1>3 DEF ReadObject, AtStep, server, caches
  <2>2. cachedObjs' = objs'
    BY <2>1 DEF PlanInv
  <2>3. CASE Goto("plan", k + 1) /\ Found
    BY <2>1, <2>3, StepBehind DEF PlanInv, Unconditional, Found
  <2>4. CASE pc' # "plan"
    BY <2>2, <2>4, LeavePlan
  <2>5. Fail(Plan[k]) \/ ReturnError => pc' # "plan"
    BY FailGoto DEF ReturnError, Return, Goto, Failing
  <2>6. QED
    BY <1>3, <2>3, <2>4, <2>5 DEF ReadObject
<1>4. CASE cleanupClientResources
  <2>1. pc' # "plan"
    BY <1>4, CleanupFrame
  <2>2. \/ UNCHANGED <<objs, cachedObjs>>
        \/ \E new \in SUBSET Resources : SetObjs(new)
    BY <1>4, CleanupFrame DEF TypeOK, ServerOK
  <2>3. cachedObjs' = objs'
    BY <2>2, SetObjsFresh DEF PlanInv
  <2>4. QED
    BY <2>1, <2>3, LeavePlan
<1>5. CASE ensureNamespace
  <2>1. UNCHANGED <<objs, cachedObjs>> /\ (pc' # "plan" \/ k' = 1)
    BY <1>5 DEF ensureNamespace, Goto
  <2>2. QED
    BY <2>1, LeavePlan DEF PlanInv
<1>6. CASE \/ Get \/ AddFinalizer \/ StartProvisioning \/ ServiceFailed \/ setFailed
           \/ MarkReady \/ deleteNamespace \/ RemoveFinalizer
  <2>1. \A call, new : WriteSucceeds(new) \/ WriteFails(call, new) =>
                         UNCHANGED <<objs, cachedObjs>>
    BY DEF WriteSucceeds, WriteFails, Accept, Refuse, server, caches
  <2>2. UNCHANGED <<objs, cachedObjs>>
    BY <1>6, <2>1 DEF Get, AddFinalizer, StartProvisioning, ServiceFailed, setFailed,
       MarkReady, deleteNamespace, RemoveFinalizer, server, caches
  <2>3. \A c : Dispatch(c) # "plan"
    BY DispatchType
  <2>4. pc' # "plan"
    BY <1>6, <2>3 DEF Get, AddFinalizer, StartProvisioning, ServiceFailed, setFailed,
       MarkReady, deleteNamespace, RemoveFinalizer, ReturnError, Return, Continue, Goto
  <2>5. QED
    BY <2>2, <2>4, LeavePlan DEF PlanInv
<1>7. QED
  BY <1>1, <1>2, <1>3, <1>4, <1>5, <1>6, CreateBehind DEF Reconcile

(* Outside the pass an object only goes with its namespace.                 *)
LEMMA NextBehind ==
  ASSUME FreshObjects
  PROVE  TypeOK /\ PlanInv /\ [Next]_vars => PlanInv'
<1>1. SUFFICES ASSUME TypeOK, PlanInv, [Next]_vars PROVE PlanInv'
  OBVIOUS
<1>2. CASE Restart
  BY <1>2, LeavePlan DEF Restart, server
<1>3. CASE EmptyNamespace
  <2>1. PICK r \in objs : SetObjs(objs \ {r})
    BY <1>3 DEF EmptyNamespace
  <2>2. cachedObjs' = objs'
    BY <1>1, <2>1, SetObjsFresh DEF PlanInv, TypeOK, ServerOK
  <2>3. ns.state # "active" /\ UNCHANGED <<ns, pc, cn, k>>
    BY <1>3 DEF EmptyNamespace, worker
  <2>4. QED
    BY <1>1, <2>2, <2>3 DEF PlanInv, Behind
<1>4. CASE DropNamespace
  <2>1. ns.state # "active" /\ ns'.state # "active"
        /\ UNCHANGED <<objs, cachedObjs, pc, cn, k>>
    BY <1>4 DEF DropNamespace, SetNs, NoNs, worker
  <2>2. QED
    BY <1>1, <2>1 DEF PlanInv, Behind
<1>5. CASE ApplyCr \/ EditSpec \/ DeleteCr \/ Deliver \/ UNCHANGED vars
  <2>1. UNCHANGED <<ns, objs, pc, cn, k>>
    BY <1>5 DEF ApplyCr, EditSpec, DeleteCr, UserWrites, Deliver, DeliverCr, DeliverNs,
       DeliverObj, server, worker, vars
  <2>2. cachedObjs' = objs'
    <3>1. ~(\E r \in Resources : DeliverObj(r))
      BY <1>1 DEF DeliverObj, PlanInv
    <3>2. UNCHANGED cachedObjs
      BY <1>5, <3>1 DEF ApplyCr, EditSpec, DeleteCr, UserWrites, Deliver, DeliverCr,
         DeliverNs, vars, caches
    <3>3. QED
      BY <1>1, <2>1, <3>2 DEF PlanInv
  <2>3. QED
    BY <1>1, <2>1, <2>2 DEF PlanInv, Behind
<1>6. QED
  BY <1>1, <1>2, <1>3, <1>4, <1>5, ReconcileBehind DEF Next, Environment

LEMMA PlanAlways == ASSUME FreshObjects PROVE Spec => []PlanInv
<1>1. Init => PlanInv
  BY DEF Init, PlanInv
<1>2. TypeOK /\ PlanInv /\ [Next]_vars => PlanInv'
  BY NextBehind
<1>3. QED
  BY <1>1, <1>2, TypeCorrect, PTL DEF Spec

-----------------------------------------------------------------------------
(* Only MarkReady makes a CR Ready, and only at the end of the Plan.        *)

LEMMA ReconcileTurnsReady ==
  ASSUME TypeOK, StatusInv, Reconcile, ~MarkReady, cr.phase # "Ready"
  PROVE  cr'.phase # "Ready"
<1>1. cn \in CR
  BY DEF TypeOK, WorkerOK
<1>2. CASE AddFinalizer
  <2> DEFINE new == [cn EXCEPT !.finalizer = TRUE]
  <2>1. new.phase = cn.phase /\ (cnCurrent => cn = cr)
    BY <1>1, <1>2 DEF AddFinalizer, StatusInv, CopyInv, CR
  <2>2. WriteSucceeds(new) \/ WriteFails("update", new)
    BY <1>2 DEF AddFinalizer
  <2>3. QED
    BY <2>1, <2>2, WriteOutcome
<1>3. CASE StartProvisioning
  <2> DEFINE new == [cn EXCEPT !.phase = "Provisioning"]
  <2>1. new.phase = "Provisioning"
    BY <1>1 DEF CR
  <2>2. WriteSucceeds(new) \/ WriteFails("status", new)
    BY <1>3 DEF StartProvisioning
  <2>3. QED
    BY <2>1, <2>2, WriteOutcome
<1>4. CASE ServiceFailed
  <2> DEFINE new == [cn EXCEPT !.marks =
                [n \in StatusNames |-> IF n \in OwnedBy(Plan[k]) THEN "failed"
                                       ELSE Reported(cn.marks, k)[n]]]
  <2>1. new.phase = cn.phase /\ cn.phase # "Ready"
    BY <1>1, <1>4 DEF ServiceFailed, StatusInv, CopyInv, Provisioning, Failing, CR
  <2>2. WriteSucceeds(new) \/ WriteFails("status", new)
    BY <1>4 DEF ServiceFailed
  <2>3. QED
    BY <2>1, <2>2, WriteOutcome
<1>5. CASE setFailed
  <2> DEFINE new == FailedStatus([cn EXCEPT !.marks = Reported(@, k)])
  <2>1. new.phase = "Failed"
    BY <1>1 DEF FailedStatus, CR
  <2>2. WriteSucceeds(new) \/ WriteFails("status", new)
    BY <1>5 DEF setFailed
  <2>3. QED
    BY <2>1, <2>2, WriteOutcome
<1>6. CASE RemoveFinalizer
  <2>1. NoCr.phase = ""
    BY DEF NoCr
  <2>2. WriteSucceeds(NoCr) \/ WriteFails("update", NoCr)
    BY <1>6 DEF RemoveFinalizer
  <2>3. QED
    BY <2>1, <2>2, WriteOutcome
<1>7. CASE \/ Get \/ ensureNamespace \/ SkipStep \/ FindObject \/ ReadObject \/ CreateObject
           \/ cleanupClientResources \/ deleteNamespace
  BY <1>7, CleanupFrame
  DEF Get, ensureNamespace, SkipStep, FindObject, ReadObject, CreateObject,
      deleteNamespace, server
<1>8. QED
  BY <1>2, <1>3, <1>4, <1>5, <1>6, <1>7 DEF Reconcile

LEMMA TurnsReady ==
  TypeOK /\ StatusInv /\ [Next]_vars /\ cr.phase # "Ready" /\ cr'.phase = "Ready" => MarkReady
<1>1. ASSUME cr.phase # "Ready", Environment, cr \in CR PROVE cr'.phase # "Ready"
  <2>1. \A services : NewCr(services).phase = "" /\ NoCr.phase = ""
    BY DEF NewCr, NoCr
  <2>2. \A services : [cr EXCEPT !.services = services].phase = cr.phase
    BY <1>1 DEF CR
  <2>3. [cr EXCEPT !.deleting = TRUE].phase = cr.phase
    BY <1>1 DEF CR
  <2>4. CASE ApplyCr \/ EditSpec \/ DeleteCr
    BY <1>1, <2>1, <2>2, <2>3, <2>4 DEF ApplyCr, EditSpec, DeleteCr, UserWrites
  <2>5. CASE Restart \/ EmptyNamespace \/ DropNamespace
    BY <1>1, <2>5 DEF Restart, EmptyNamespace, DropNamespace, server
  <2>6. QED
    BY <1>1, <2>4, <2>5 DEF Environment
<1>2. Deliver \/ UNCHANGED vars => cr' = cr
  BY DEF Deliver, DeliverCr, DeliverNs, DeliverObj, vars, server
<1>3. QED
  BY <1>1, <1>2, ReconcileTurnsReady DEF Next, TypeOK, ServerOK

(* At the end of the Plan the namespace is active, and nothing is missing.  *)
LEMMA EndOfPlan ==
  ASSUME AlwaysCreates, TypeOK, PlanInv, MarkReady
  PROVE  Provisioned(cn.services)
<1>1. pc = "plan" /\ \A i \in DOMAIN Plan : i < k
  BY PlanAssumption DEF MarkReady, TypeOK, WorkerOK
<1>2. PICK i \in DOMAIN Plan : Unconditional(Plan[i])
  BY DEF AlwaysCreates
<1>3. Behind(cn, k, ns, objs)
  BY <1>1 DEF PlanInv
<1>4. ns.state = "active"
  BY <1>1, <1>2, <1>3 DEF Behind
<1>5. QED
  BY <1>1, <1>3, <1>4 DEF Behind, Provisioned

LEMMA ReadyProvisioned ==
  ASSUME AlwaysCreates, TypeOK, StatusInv, PlanInv, [Next]_vars,
         cr.phase # "Ready", cr'.phase = "Ready"
  PROVE  Provisioned(cr.services)'
<1> DEFINE new == ReadyStatus([cn EXCEPT !.marks = Reported(@, k)])
<1>1. MarkReady
  BY TurnsReady
<1>2. WriteSucceeds(new) \/ WriteFails("status", new)
  BY <1>1 DEF MarkReady
<1>3. cr' = new /\ UNCHANGED <<ns, objs>>
  BY <1>2 DEF WriteSucceeds, WriteFails, Accept, Refuse, server, caches
<1>4. new.services = cn.services
  BY DEF ReadyStatus, TypeOK, WorkerOK, CR
<1>5. Provisioned(cn.services)
  BY <1>1, EndOfPlan
<1>6. QED
  BY <1>3, <1>4, <1>5 DEF Provisioned

(* A CR turns Ready only over a complete stack, for every Plan that creates *)
(* something without a look, whatever passes and processes were interrupted *)
(* before, and whatever the cache of namespaces shows.                      *)
THEOREM ReadyIsProvisioned ==
  ASSUME FreshObjects, AlwaysCreates
  PROVE  Spec => ReadyMeansProvisioned
<1>1. TypeOK /\ StatusInv /\ PlanInv /\ [Next]_vars =>
        [cr.phase # "Ready" /\ cr'.phase = "Ready" => Provisioned(cr.services)']_vars
  BY ReadyProvisioned
<1>2. QED
  BY <1>1, TypeCorrect, StatusAlways, PlanAlways, PTL DEF Spec, ReadyMeansProvisioned

-----------------------------------------------------------------------------
(* A Ready CR keeps its stack.  Here the caches of the objects may lag; that*)
(* of the namespace is fresh, as in OrphanProofs.                           *)

NoDeadPlan ==
  pc = "plan" /\ ns.state # "active" => \A i \in DOMAIN Plan : i < k => ~Unconditional(Plan[i])

KeptInv == NoDeadPlan /\ (cr.phase = "Ready" => Held(cr) /\ (~cr.deleting => ns.state = "active"))

LEMMA NextDeadPlan == TypeOK /\ NoDeadPlan /\ [Next]_vars => NoDeadPlan'
<1>1. SUFFICES ASSUME TypeOK, NoDeadPlan, [Next]_vars PROVE NoDeadPlan'
  OBVIOUS
<1>2. CASE pc' # "plan" \/ k' = 1
  <2>1. \A i \in DOMAIN Plan : ~(i < 1)
    BY PlanAssumption
  <2>2. QED
    BY <1>2, <2>1 DEF NoDeadPlan
<1>3. ASSUME UNCHANGED ns, pc = "plan", Goto("plan", k + 1),
             ~Unconditional(Plan[k]) \/ ns.state = "active"
      PROVE  NoDeadPlan'
  <2>1. \A i \in DOMAIN Plan : i < k + 1 => i < k \/ i = k
    BY <1>1, PlanAssumption DEF TypeOK, WorkerOK
  <2>2. QED
    BY <1>1, <1>3, <2>1 DEF NoDeadPlan, Goto
<1>4. CASE SkipStep \/ FindObject \/ ReadObject \/ CreateObject
  <2>1. pc = "plan" /\ UNCHANGED ns
    BY <1>4 DEF SkipStep, FindObject, ReadObject, CreateObject, Creating, AtStep, server
  <2>2. Goto("plan", k + 1) \/ Fail(Plan[k]) \/ ReturnError
    BY <1>4 DEF SkipStep, FindObject, ReadObject, CreateObject
  <2>3. Fail(Plan[k]) \/ ReturnError => pc' # "plan"
    BY FailGoto DEF ReturnError, Return, Goto, Failing
  <2>4. ~Fail(Plan[k]) => ~Unconditional(Plan[k]) \/ ns.state = "active"
    BY <1>4 DEF SkipStep, FindObject, ReadObject, CreateObject, Creatable, AtStep,
       Unconditional, Enabled
  <2>5. QED
    BY <1>2, <1>3, <2>1, <2>2, <2>3, <2>4
<1>5. CASE \/ Get \/ AddFinalizer \/ StartProvisioning \/ ensureNamespace \/ ServiceFailed
           \/ setFailed \/ MarkReady \/ cleanupClientResources \/ deleteNamespace
           \/ RemoveFinalizer \/ Restart
  <2>1. \A c : Dispatch(c) # "plan"
    BY DispatchType
  <2>2. pc' # "plan" \/ k' = 1
    BY <1>5, <2>1, CleanupFrame
    DEF Get, AddFinalizer, StartProvisioning, ensureNamespace, ServiceFailed, setFailed,
        MarkReady, deleteNamespace, RemoveFinalizer, Restart, ReturnError, Return,
        Continue, Goto
  <2>3. QED
    BY <1>2, <2>2
<1>6. CASE \/ ApplyCr \/ EditSpec \/ DeleteCr \/ EmptyNamespace \/ DropNamespace
           \/ Deliver \/ UNCHANGED vars
  <2>1. UNCHANGED <<pc, k>> /\ (ns' = ns \/ ns.state # "active")
    BY <1>6 DEF ApplyCr, EditSpec, DeleteCr, UserWrites, EmptyNamespace, DropNamespace,
       Deliver, DeliverCr, DeliverNs, DeliverObj, server, worker, vars
  <2>2. QED
    BY <1>1, <2>1 DEF NoDeadPlan
<1>7. QED
  BY <1>1, <1>4, <1>5, <1>6 DEF Next, Reconcile, Environment

(* A CR that turns Ready holds its finalizer, and its namespace is active.  *)
LEMMA TurnsReadyHeld ==
  ASSUME AlwaysCreates, TypeOK, StatusInv, OrphanInv, NoDeadPlan, MarkReady,
         cr.phase # "Ready", cr'.phase = "Ready"
  PROVE  Held(cr') /\ ns'.state = "active"
<1> DEFINE new == ReadyStatus([cn EXCEPT !.marks = Reported(@, k)])
<1>1. WriteSucceeds(new) \/ WriteFails("status", new)
  BY DEF MarkReady
<1>2. cnCurrent /\ cr' = new /\ UNCHANGED ns
  BY <1>1 DEF WriteSucceeds, WriteFails, Accept, Refuse, server
<1>3. cn = cr /\ Held(cr)
  BY <1>2 DEF MarkReady, StatusInv, CopyInv, OrphanInv, PassOrphan, Provisioning
<1>4. new.exists = cn.exists /\ new.finalizer = cn.finalizer
  BY DEF ReadyStatus, TypeOK, WorkerOK, CR
<1>5. Held(cr')
  BY <1>2, <1>3, <1>4 DEF Held
<1>6. ns.state = "active"
  <2>1. PICK i \in DOMAIN Plan : Unconditional(Plan[i])
    BY DEF AlwaysCreates
  <2>2. pc = "plan" /\ i < k
    BY PlanAssumption DEF MarkReady, TypeOK, WorkerOK
  <2>3. QED
    BY <2>1, <2>2 DEF NoDeadPlan
<1>7. QED
  BY <1>2, <1>5, <1>6

(* A Ready CR is only changed by its users, and by the removal of its       *)
(* finalizer.                                                               *)
LEMMA ReadyHeld ==
  ASSUME TypeOK, StatusInv, OrphanInv, [Next]_vars, cr.phase = "Ready", Held(cr),
         cr'.phase = "Ready"
  PROVE  Held(cr') /\ (~cr'.deleting => ~cr.deleting)
<1>1. cr \in CR /\ cn \in CR
  BY DEF TypeOK, ServerOK, WorkerOK
<1>2. CASE cr' = cr
  BY <1>2
<1>3. ASSUME NEW call, NEW new, WriteSucceeds(new) \/ WriteFails(call, new),
             new.exists = cn.exists, new.deleting = cn.deleting,
             new.finalizer = cn.finalizer \/ new.finalizer
      PROVE  Held(cr') /\ (~cr'.deleting => ~cr.deleting)
  <2>1. cr' = cr \/ (cnCurrent /\ cr' = new)
    BY <1>3, WriteOutcome
  <2>2. cnCurrent => cn.exists = cr.exists /\ cn.deleting = cr.deleting
                     /\ cn.finalizer = cr.finalizer
    BY <1>1 DEF StatusInv, CopyInv, CR
  <2>3. QED
    BY <1>3, <2>1, <2>2 DEF Held
<1>4. CASE AddFinalizer
  <2> DEFINE new == [cn EXCEPT !.finalizer = TRUE]
  <2>1. new.exists = cn.exists /\ new.deleting = cn.deleting /\ new.finalizer
    BY <1>1 DEF CR
  <2>2. WriteSucceeds(new) \/ WriteFails("update", new)
    BY <1>4 DEF AddFinalizer
  <2>3. QED
    BY <1>3, <2>1, <2>2
<1>5. CASE StartProvisioning \/ ServiceFailed \/ setFailed \/ MarkReady
  <2>1. pc \in {"start"} \cup Provisioning
    BY <1>5 DEF StartProvisioning, ServiceFailed, setFailed, MarkReady, Provisioning, Failing
  <2>2. cn.phase # "Ready"
    BY <2>1 DEF StatusInv, CopyInv
  <2>3. cnCurrent => cn.phase = cr.phase
    BY <1>1 DEF StatusInv, CopyInv, CR
  <2>4. \A call, new : WriteSucceeds(new) \/ WriteFails(call, new) => cnCurrent \/ cr' = cr
    BY WriteOutcome
  <2>5. cr' = cr
    BY <1>5, <2>2, <2>3, <2>4 DEF StartProvisioning, ServiceFailed, setFailed, MarkReady
  <2>6. QED
    BY <1>2, <2>5
<1>6. CASE RemoveFinalizer
  <2>1. NoCr.phase = ""
    BY DEF NoCr
  <2>2. cr' = cr \/ cr' = NoCr
    BY <1>6, WriteOutcome DEF RemoveFinalizer
  <2>3. QED
    BY <1>2, <2>1, <2>2
<1>7. CASE ApplyCr \/ EditSpec \/ DeleteCr
  <2>1. \A services :
          LET new == [cr EXCEPT !.services = services] IN
          new.exists = cr.exists /\ new.finalizer = cr.finalizer /\ new.deleting = cr.deleting
    BY <1>1 DEF CR
  <2>2. LET new == [cr EXCEPT !.deleting = TRUE] IN
          new.exists = cr.exists /\ new.finalizer = cr.finalizer /\ new.deleting
    BY <1>1 DEF CR
  <2>3. ~ApplyCr
    BY DEF ApplyCr, Held
  <2>4. CASE EditSpec
    BY <2>1, <2>4 DEF EditSpec, UserWrites, Held
  <2>5. CASE DeleteCr
    BY <2>2, <2>5 DEF DeleteCr, UserWrites, Held
  <2>6. QED
    BY <1>7, <2>3, <2>4, <2>5
<1>8. CASE \/ Get \/ ensureNamespace \/ SkipStep \/ FindObject \/ ReadObject \/ CreateObject
           \/ cleanupClientResources \/ deleteNamespace
           \/ Restart \/ EmptyNamespace \/ DropNamespace \/ Deliver \/ UNCHANGED vars
  <2>1. cr' = cr
    BY <1>8, CleanupFrame
    DEF Get, ensureNamespace, SkipStep, FindObject, ReadObject, CreateObject,
        deleteNamespace, Restart, EmptyNamespace, DropNamespace,
        Deliver, DeliverCr, DeliverNs, DeliverObj, vars, server
  <2>2. QED
    BY <1>2, <2>1
<1>9. QED
  BY <1>4, <1>5, <1>6, <1>7, <1>8 DEF Next, Reconcile, Environment

LEMMA NextKept ==
  ASSUME FreshNamespace, AlwaysCreates
  PROVE  TypeOK /\ StatusInv /\ OrphanInv /\ KeptInv /\ [Next]_vars => KeptInv'
<1>1. SUFFICES ASSUME TypeOK, StatusInv, OrphanInv, KeptInv, [Next]_vars PROVE KeptInv'
  OBVIOUS
<1>2. NoDeadPlan'
  BY <1>1, NextDeadPlan DEF KeptInv
<1>3. ASSUME cr'.phase = "Ready", cr.phase # "Ready"
      PROVE  Held(cr') /\ ns'.state = "active"
  BY <1>1, <1>3, TurnsReady, TurnsReadyHeld DEF KeptInv
<1>4. ASSUME cr'.phase = "Ready", cr.phase = "Ready"
      PROVE  Held(cr') /\ (~cr'.deleting => ns'.state = "active")
  <2>1. Held(cr') /\ (~cr'.deleting => ~cr.deleting)
    BY <1>1, <1>4, ReadyHeld DEF KeptInv
  <2>2. OnlyDeleted(ns, ns')
    BY <1>1, NextOrphan
  <2>3. QED
    BY <1>1, <1>4, <2>1, <2>2 DEF KeptInv, OnlyDeleted
<1>5. QED
  BY <1>2, <1>3, <1>4 DEF KeptInv, Held

(* What a step can do to the stack of a live CR whose namespace is active.  *)
LEMMA LiveKept ==
  ASSUME FreshNamespace, TypeOK, OrphanInv, [Next]_vars, Live(cr), ns.state = "active"
  PROVE  ns' = ns /\ objs \subseteq objs'
<1>1. pc \notin Deleting /\ cachedNs = ns
  BY DEF OrphanInv, PassOrphan, CacheOrphan
<1>2. ~cleanupClientResources /\ ~deleteNamespace /\ ~EmptyNamespace /\ ~DropNamespace
  BY <1>1, CleanupFrame DEF deleteNamespace, CleanedUp, EmptyNamespace, DropNamespace, Deleting
<1>3. CASE ensureNamespace
  BY <1>1, <1>3 DEF ensureNamespace, FreshNamespace, Fault
<1>4. CASE CreateObject
  BY <1>4 DEF CreateObject, SetObjs
<1>5. CASE \/ AddFinalizer \/ StartProvisioning \/ ServiceFailed \/ setFailed \/ MarkReady
           \/ RemoveFinalizer
  <2>1. \A call, new : WriteSucceeds(new) \/ WriteFails(call, new) => UNCHANGED <<ns, objs>>
    BY DEF WriteSucceeds, WriteFails, Accept, Refuse, server
  <2>2. QED
    BY <1>5, <2>1 DEF AddFinalizer, StartProvisioning, ServiceFailed, setFailed, MarkReady,
       RemoveFinalizer
<1>6. CASE \/ Get \/ SkipStep \/ FindObject \/ ReadObject \/ Restart \/ ApplyCr \/ EditSpec
           \/ DeleteCr \/ Deliver \/ UNCHANGED vars
  BY <1>6 DEF Get, SkipStep, FindObject, ReadObject, Restart, ApplyCr, EditSpec, DeleteCr,
     UserWrites, Deliver, DeliverCr, DeliverNs, DeliverObj, server, vars
<1>7. QED
  BY <1>2, <1>3, <1>4, <1>5, <1>6 DEF Next, Reconcile, Environment

(* Until its deletion is asked for, a Ready CR keeps its namespace and every*)
(* object in it, whatever late passes, crashes, edits and lagging caches of *)
(* objects there are.                                                       *)
THEOREM TheReadyIsKept ==
  ASSUME FreshNamespace, AlwaysCreates
  PROVE  Spec => ReadyIsKept
<1>1. Init => OrphanInv /\ KeptInv
  <2>1. NoCr.phase = ""
    BY DEF NoCr
  <2>2. Init => pc = "idle" /\ cr.phase = ""
    BY <2>1 DEF Init
  <2>3. QED
    BY <2>2, InitOrphan DEF KeptInv, NoDeadPlan
<1>2. TypeOK /\ StatusInv /\ OrphanInv /\ KeptInv /\ [Next]_vars => OrphanInv' /\ KeptInv'
  BY NextOrphan, NextKept
<1>3. TypeOK /\ OrphanInv /\ KeptInv /\ [Next]_vars =>
        [cr.phase = "Ready" /\ ~cr.deleting => ns' = ns /\ objs \subseteq objs']_vars
  BY LiveKept DEF KeptInv, Live
<1>4. QED
  BY <1>1, <1>2, <1>3, TypeCorrect, StatusAlways, PTL DEF Spec, ReadyIsKept

-----------------------------------------------------------------------------
(* A deletion leaves nothing behind but the routing.                        *)

NoFailedDelete == "delete" \notin Faulty

(* Of the kinds that the cleanup has listed nothing is left, but for items  *)
(* of the last List.                                                        *)
CleanedKindsGone ==
  /\ \A r \in listed : r[1] = CleanedKinds[k]
  /\ \A i \in 1 .. k : \A r \in objs : r[1] = CleanedKinds[i] => r \in listed

CleanInv ==
  /\ cachedObjs = objs
  /\ pc = "cleanup" => CleanedKindsGone
  /\ pc = "removeFinalizer" => \A r \in objs : r[1] \notin Cleaned

LEMMA CleanupClean ==
  ASSUME TypeOK, NoFailedDelete, CleanInv, cleanupClientResources, cachedObjs' = objs'
  PROVE  CleanInv'
<1>1. pc = "cleanup" /\ pc' = "cleanup" /\ k \in Nat /\ CleanedKindsGone
  BY CleanupFrame, KindCount DEF CleanInv, TypeOK, WorkerOK
<1>2. CASE /\ listed = {} /\ k' = k + 1 /\ UNCHANGED objs
           /\ listed' = {r \in cachedObjs : r[1] = CleanedKinds[k']}
  <2>1. \A i \in 1 .. k' : i = k' \/ i \in 1 .. k
    BY <1>1, <1>2
  <2>2. CleanedKindsGone'
    BY <1>1, <1>2, <2>1 DEF CleanInv, CleanedKindsGone
  <2>3. QED
    BY <1>1, <2>2 DEF CleanInv
<1>3. ASSUME NEW r \in listed, SetObjs(objs \ {r}), k' = k, listed' = listed \ {r}
      PROVE  CleanInv'
  <2>1. objs' = objs \ {r}
    BY <1>3 DEF SetObjs
  <2>2. CleanedKindsGone'
    BY <1>1, <1>3, <2>1 DEF CleanedKindsGone
  <2>3. QED
    BY <1>1, <2>2 DEF CleanInv
<1>4. QED
  BY <1>2, <1>3, CleanupFrame DEF NoFailedDelete

(* The finalizer comes off after the last kind.                             *)
LEMMA CleanedUpClean ==
  ASSUME CleanInv, CleanedUp
  PROVE  \A r \in objs : r[1] \notin Cleaned
<1>1. \A i \in DOMAIN CleanedKinds : i \in 1 .. k
  BY KindCount DEF CleanedUp
<1>2. QED
  BY <1>1 DEF CleanInv, CleanedUp, CleanedKindsGone, Cleaned

LEMMA NextClean ==
  ASSUME FreshObjects, NoFailedDelete
  PROVE  TypeOK /\ PlanInv /\ CleanInv /\ [Next]_vars => CleanInv'
<1>1. SUFFICES ASSUME TypeOK, PlanInv, CleanInv, [Next]_vars PROVE CleanInv'
  OBVIOUS
<1>2. cachedObjs' = objs'
  BY <1>1, NextBehind DEF PlanInv
<1>3. CASE cleanupClientResources
  BY <1>1, <1>2, <1>3, CleanupClean
<1>4. CASE pc' \notin Deleting
  BY <1>2, <1>4 DEF CleanInv, Deleting
<1>5. CASE UNCHANGED <<pc, k, listed>> /\ objs' \subseteq objs
  BY <1>1, <1>2, <1>5 DEF CleanInv, CleanedKindsGone
<1>6. CASE pc' = "cleanup" /\ k' = 0 /\ listed' = {}
  <2>1. \A i \in 1 .. k' : FALSE
    BY <1>6
  <2>2. QED
    BY <1>2, <1>6, <2>1 DEF CleanInv, CleanedKindsGone
<1>7. CASE deleteNamespace
  <2>1. UNCHANGED objs /\ CleanedUp /\ (pc' = "removeFinalizer" \/ pc' = "idle")
    BY <1>7 DEF deleteNamespace, Goto, ReturnError, Return
  <2>2. \A r \in objs' : r[1] \notin Cleaned
    BY <1>1, <2>1, CleanedUpClean
  <2>3. QED
    BY <1>2, <2>1, <2>2 DEF CleanInv
<1>8. CASE Reconcile /\ ~cleanupClientResources /\ ~deleteNamespace
  <2>1. CASE RemoveFinalizer \/ setFailed \/ MarkReady
    BY <1>4, <2>1 DEF RemoveFinalizer, setFailed, MarkReady, ReturnError, Return, Deleting
  <2>2. CASE SkipStep \/ FindObject \/ ReadObject \/ CreateObject
    <3>1. Goto("plan", k + 1) \/ Fail(Plan[k]) \/ ReturnError
      BY <2>2 DEF SkipStep, FindObject, ReadObject, CreateObject
    <3>2. QED
      BY <1>4, <3>1, FailGoto DEF Goto, Failing, ReturnError, Return, Deleting
  <2>3. CASE Get \/ AddFinalizer
    <3>1. pc' = "idle" \/ (k' = 0 /\ listed' = listed /\ \E c : pc' = Dispatch(c))
      BY <2>3 DEF Get, AddFinalizer, ReturnError, Return, Continue
    <3>2. listed = {}
      BY <1>1, <2>3 DEF Get, AddFinalizer, TypeOK, WorkerOK
    <3>3. QED
      BY <1>4, <1>6, <3>1, <3>2, DispatchType DEF Deleting
  <2>4. CASE StartProvisioning \/ ensureNamespace \/ ServiceFailed
    BY <1>4, <2>4 DEF StartProvisioning, ensureNamespace, ServiceFailed, ReturnError,
       Return, Continue, Goto, Deleting
  <2>5. QED
    BY <1>8, <2>1, <2>2, <2>3, <2>4 DEF Reconcile
<1>9. CASE Restart
  BY <1>4, <1>9 DEF Restart, Deleting
<1>10. CASE (Environment /\ ~Restart) \/ Deliver \/ UNCHANGED vars
  BY <1>5, <1>10
  DEF Environment, ApplyCr, EditSpec, DeleteCr, UserWrites, EmptyNamespace, DropNamespace,
      Deliver, DeliverCr, DeliverNs, DeliverObj, SetObjs, server, worker, vars
<1>11. QED
  BY <1>1, <1>3, <1>7, <1>8, <1>9, <1>10 DEF Next

(* Only the removal of the finalizer lets go of a CR that has one.          *)
LEMMA LetsGo ==
  ASSUME TypeOK, StatusInv, OrphanInv, [Next]_vars, cr.finalizer => cr.exists
  PROVE  /\ cr'.finalizer => cr'.exists
         /\ cr.finalizer /\ ~cr'.exists => RemoveFinalizer
<1> DEFINE Goal == /\ cr'.finalizer => cr'.exists
                   /\ cr.finalizer /\ ~cr'.exists => RemoveFinalizer
<1>1. cr \in CR /\ cn \in CR
  BY DEF TypeOK, ServerOK, WorkerOK
<1>2. CASE cr' = cr
  BY <1>2
<1>3. ASSUME NEW call, NEW new, WriteSucceeds(new) \/ WriteFails(call, new),
             new.exists = cn.exists, cn.exists
      PROVE  Goal
  <2>1. cr' = cr \/ cr' = new
    BY <1>3, WriteOutcome
  <2>2. new.exists
    BY <1>1, <1>3 DEF CR
  <2>3. QED
    BY <2>1, <2>2
<1>4. CASE AddFinalizer \/ StartProvisioning \/ ServiceFailed \/ setFailed \/ MarkReady
  <2>1. cn.exists
    BY <1>4 DEF OrphanInv, PassOrphan, AddFinalizer, StartProvisioning, ServiceFailed,
       setFailed, MarkReady
  <2>2. CASE AddFinalizer
    <3>1. [cn EXCEPT !.finalizer = TRUE].exists = cn.exists
      BY <1>1 DEF CR
    <3>2. QED
      BY <1>3, <2>1, <2>2, <3>1 DEF AddFinalizer
  <2>3. CASE StartProvisioning
    <3>1. [cn EXCEPT !.phase = "Provisioning"].exists = cn.exists
      BY <1>1 DEF CR
    <3>2. QED
      BY <1>3, <2>1, <2>3, <3>1 DEF StartProvisioning
  <2>4. CASE ServiceFailed
    <3> DEFINE marks == [n \in StatusNames |-> IF n \in OwnedBy(Plan[k]) THEN "failed"
                                               ELSE Reported(cn.marks, k)[n]]
    <3>1. [cn EXCEPT !.marks = marks].exists = cn.exists
      BY <1>1 DEF CR
    <3>2. QED
      BY <1>3, <2>1, <2>4, <3>1 DEF ServiceFailed
  <2>5. CASE setFailed
    <3>1. FailedStatus([cn EXCEPT !.marks = Reported(@, k)]).exists = cn.exists
      BY <1>1 DEF CR, FailedStatus
    <3>2. QED
      BY <1>3, <2>1, <2>5, <3>1 DEF setFailed
  <2>6. CASE MarkReady
    <3>1. ReadyStatus([cn EXCEPT !.marks = Reported(@, k)]).exists = cn.exists
      BY <1>1 DEF CR, ReadyStatus
    <3>2. QED
      BY <1>3, <2>1, <2>6, <3>1 DEF MarkReady
  <2>7. QED
    BY <1>4, <2>2, <2>3, <2>4, <2>5, <2>6
<1>5. CASE ApplyCr \/ EditSpec \/ DeleteCr
  <2>1. \A services : [cr EXCEPT !.services = services].exists = cr.exists
    BY <1>1 DEF CR
  <2>2. [cr EXCEPT !.deleting = TRUE].exists = cr.exists
    BY <1>1 DEF CR
  <2>3. \A services : NewCr(services).exists /\ NoCr.finalizer = FALSE
    BY DEF NewCr, NoCr
  <2>4. CASE ApplyCr
    BY <2>3, <2>4 DEF ApplyCr, UserWrites
  <2>5. CASE EditSpec
    BY <2>1, <2>5 DEF EditSpec, UserWrites
  <2>6. CASE DeleteCr
    BY <2>2, <2>3, <2>6 DEF DeleteCr, UserWrites
  <2>7. QED
    BY <1>5, <2>4, <2>5, <2>6
<1>6. CASE \/ Get \/ ensureNamespace \/ SkipStep \/ FindObject \/ ReadObject \/ CreateObject
           \/ cleanupClientResources \/ deleteNamespace
           \/ Restart \/ EmptyNamespace \/ DropNamespace \/ Deliver \/ UNCHANGED vars
  <2>1. cr' = cr
    BY <1>6, CleanupFrame
    DEF Get, ensureNamespace, SkipStep, FindObject, ReadObject, CreateObject,
        deleteNamespace, Restart, EmptyNamespace, DropNamespace,
        Deliver, DeliverCr, DeliverNs, DeliverObj, vars, server
  <2>2. QED
    BY <1>2, <2>1
<1>7. CASE RemoveFinalizer
  <2>1. NoCr.finalizer = FALSE
    BY DEF NoCr
  <2>2. cr' = cr \/ cr' = NoCr
    BY <1>7, WriteOutcome DEF RemoveFinalizer
  <2>3. QED
    BY <1>7, <2>1, <2>2
<1>8. QED
  BY <1>4, <1>5, <1>6, <1>7 DEF Next, Reconcile, Environment

LEMMA CompleteStep ==
  ASSUME FreshNamespace, KnownKinds, TypeOK, StatusInv, OrphanInv, CleanInv, [Next]_vars,
         cr.finalizer, cr.exists, ~cr'.exists, ns.state = "active"
  PROVE  ~ns.labelled /\ \A r \in objs : r[1] \in Routing
<1>1. RemoveFinalizer
  BY LetsGo
<1>2. pc = "removeFinalizer" /\ ~Guarded
  BY <1>1 DEF RemoveFinalizer, OrphanInv, PassOrphan
<1>3. \A r \in objs : r[1] \notin Cleaned /\ r \in Resources
  BY <1>2 DEF CleanInv, TypeOK, ServerOK
<1>4. QED
  BY <1>2, <1>3 DEF KnownKinds, Guarded

(* When reconcileDelete lets a CR go, its namespace is terminating, or was  *)
(* never the operator's and has lost every workload, volume and credential: *)
(* if deletes succeed and no cache lags, whatever crashes and retries cut   *)
(* the deletion into pieces.                                                *)
THEOREM DeletionsAreComplete ==
  ASSUME FreshNamespace, FreshObjects, NoFailedDelete, KnownKinds
  PROVE  Spec => DeletionIsComplete
<1> DEFINE Inv == OrphanInv /\ PlanInv /\ CleanInv /\ (cr.finalizer => cr.exists)
<1>1. Init => Inv
  <2>1. NoCr.finalizer = FALSE
    BY DEF NoCr
  <2>2. Init => PlanInv /\ CleanInv /\ cr = NoCr
    BY DEF Init, PlanInv, CleanInv
  <2>3. QED
    BY <2>1, <2>2, InitOrphan
<1>2. TypeOK /\ StatusInv /\ Inv /\ [Next]_vars => Inv'
  BY NextOrphan, NextBehind, NextClean, LetsGo
<1>3. TypeOK /\ StatusInv /\ Inv /\ [Next]_vars =>
        [cr.finalizer /\ ~cr'.exists /\ ns.state = "active"
           => ~ns.labelled /\ \A r \in objs : r[1] \in Routing]_vars
  BY CompleteStep
<1> HIDE DEF Inv
<1>4. QED
  BY <1>1, <1>2, <1>3, TypeCorrect, StatusAlways, PTL DEF Spec, DeletionIsComplete
=============================================================================
