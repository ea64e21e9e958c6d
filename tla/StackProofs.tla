----------------------------- MODULE StackProofs -----------------------------
(***************************************************************************)
(* The order of the Plan and what it means for the objects of the stack.    *)
(* What pods read is made before them, by this pass or by any earlier one:  *)
(* the caches of the objects are fresh.  If deletes succeed as well, only a *)
(* deletion takes it away again, and no later CR meets what that one leaves.*)
(***************************************************************************)
EXTENDS Stack, ProvisionProofs

-----------------------------------------------------------------------------
(* What a step can do to the objects.                                       *)

EmptyInv == ns.state = "absent" => objs = {}

(* Nothing new, and nothing is lost from a namespace that stays active.     *)
Shrinks ==
  /\ objs' \subseteq objs
  /\ ns'.state = "active" => ns.state = "active" /\ objs' = objs

Creates ==
  /\ CreateObject /\ ns.state = "active" /\ ns' = ns
  /\ pc = "plan" /\ k \in DOMAIN Plan /\ Enabled(cn.services, Plan[k])
  /\ Plan[k].res \notin objs /\ objs' = objs \cup {Plan[k].res}

CleansUp == cleanupClientResources /\ ns' = ns /\ objs' \subseteq objs

Begins == ensureNamespace /\ ns.state = "absent" /\ objs = {} /\ objs' = {}

LEMMA CreateObjs ==
  ASSUME TypeOK, CreateObject
  PROVE  Shrinks \/ Creates
<1>1. /\ pc = "plan" /\ k \in DOMAIN Plan /\ Enabled(cn.services, Plan[k]) /\ ns' = ns
  BY PlanAssumption DEF CreateObject, Creating, AtStep, TypeOK, WorkerOK
<1>2. objs' = objs \/ (Creatable /\ objs' = objs \cup {Plan[k].res})
  BY DEF CreateObject, SetObjs
<1>3. QED
  BY <1>1, <1>2 DEF Shrinks, Creates, Creatable

LEMMA ObjsStep ==
  ASSUME TypeOK, EmptyInv, [Next]_vars
  PROVE  Shrinks \/ Creates \/ CleansUp \/ Begins
<1>1. CASE UNCHANGED <<ns, objs>>
  BY <1>1 DEF Shrinks
<1>2. CASE cleanupClientResources
  BY <1>2, CleanupFrame DEF SetObjs, CleansUp
<1>3. CASE ensureNamespace
  <2>1. objs' = objs /\ (ns' = ns \/ ns.state = "absent")
    BY <1>3 DEF ensureNamespace
  <2>2. QED
    BY <1>1, <1>3, <2>1 DEF EmptyInv, Begins
<1>4. CASE deleteNamespace
  <2>1. objs' = objs /\ (ns' = ns \/ ns' = Terminated(ns))
    BY <1>4 DEF deleteNamespace, SetNs
  <2>2. Terminated(ns).state # "active"
    BY DEF Terminated, TypeOK, ServerOK, NS
  <2>3. QED
    BY <2>1, <2>2 DEF Shrinks
<1>5. CASE EmptyNamespace \/ DropNamespace
  <2>1. objs' \subseteq objs /\ ns'.state # "active"
    BY <1>5 DEF EmptyNamespace, DropNamespace, SetObjs, SetNs, NoNs
  <2>2. QED
    BY <2>1 DEF Shrinks
<1>6. CASE \/ AddFinalizer \/ StartProvisioning \/ ServiceFailed \/ setFailed \/ MarkReady
           \/ RemoveFinalizer
  <2>1. \A call, new : WriteSucceeds(new) \/ WriteFails(call, new) => UNCHANGED <<ns, objs>>
    BY DEF WriteSucceeds, WriteFails, Accept, Refuse, server
  <2>2. QED
    BY <1>1, <1>6, <2>1 DEF AddFinalizer, StartProvisioning, ServiceFailed, setFailed,
       MarkReady, RemoveFinalizer
<1>7. CASE \/ Get \/ SkipStep \/ FindObject \/ ReadObject \/ Restart \/ ApplyCr \/ EditSpec
           \/ DeleteCr \/ Deliver \/ UNCHANGED vars
  <2>1. UNCHANGED <<ns, objs>>
    BY <1>7 DEF Get, SkipStep, FindObject, ReadObject, Restart, ApplyCr, EditSpec, DeleteCr,
     UserWrites, Deliver, DeliverCr, DeliverNs, DeliverObj, server, vars
  <2>2. QED
    BY <1>1, <2>1
<1>8. QED
  BY <1>2, <1>3, <1>4, <1>5, <1>6, <1>7, CreateObjs DEF Next, Reconcile, Environment

LEMMA NextEmpty ==
  ASSUME TypeOK, EmptyInv, [Next]_vars
  PROVE  EmptyInv'
<1>1. CASE UNCHANGED <<ns, objs>>
  BY <1>1 DEF EmptyInv
<1>2. CASE CreateObject
  <2>1. ns' = ns /\ (objs' = objs \/ ns.state = "active")
    BY <1>2 DEF CreateObject, Creatable
  <2>2. QED
    BY <2>1 DEF EmptyInv
<1>3. CASE cleanupClientResources
  <2>1. ns' = ns /\ objs' \subseteq objs
    BY <1>3, CleanupFrame DEF SetObjs
  <2>2. QED
    BY <2>1 DEF EmptyInv
<1>4. CASE ensureNamespace
  <2>1. objs' = objs /\ (ns' = ns \/ ns' = [state |-> "active", labelled |-> TRUE])
    BY <1>4 DEF ensureNamespace, SetNs
  <2>2. QED
    BY <2>1 DEF EmptyInv
<1>5. CASE deleteNamespace
  <2>1. objs' = objs /\ (ns' = ns \/ ns' = Terminated(ns))
    BY <1>5 DEF deleteNamespace, SetNs
  <2>2. Terminated(ns).state = "absent" => ns.state = "absent"
    BY DEF Terminated, TypeOK, ServerOK, NS
  <2>3. QED
    BY <2>1, <2>2 DEF EmptyInv
<1>6. CASE EmptyNamespace \/ DropNamespace
  <2>1. ns'.state # "absent" \/ (objs = {} /\ objs' = objs)
    BY <1>6 DEF EmptyNamespace, DropNamespace
  <2>2. QED
    BY <2>1 DEF EmptyInv
<1>7. CASE \/ AddFinalizer \/ StartProvisioning \/ ServiceFailed \/ setFailed \/ MarkReady
           \/ RemoveFinalizer
  <2>1. \A call, new : WriteSucceeds(new) \/ WriteFails(call, new) => UNCHANGED <<ns, objs>>
    BY DEF WriteSucceeds, WriteFails, Accept, Refuse, server
  <2>2. QED
    BY <1>1, <1>7, <2>1 DEF AddFinalizer, StartProvisioning, ServiceFailed, setFailed,
       MarkReady, RemoveFinalizer
<1>8. CASE \/ Get \/ SkipStep \/ FindObject \/ ReadObject \/ Restart \/ ApplyCr \/ EditSpec
           \/ DeleteCr \/ Deliver \/ UNCHANGED vars
  <2>1. UNCHANGED <<ns, objs>>
    BY <1>8 DEF Get, SkipStep, FindObject, ReadObject, Restart, ApplyCr, EditSpec, DeleteCr,
     UserWrites, Deliver, DeliverCr, DeliverNs, DeliverObj, server, vars
  <2>2. QED
    BY <1>1, <2>1
<1>9. QED
  BY <1>2, <1>3, <1>4, <1>5, <1>6, <1>7, <1>8 DEF Next, Reconcile, Environment

-----------------------------------------------------------------------------
(* What a step can do to the manifest of the CR and to its deletion mark.   *)

CrKept ==
  /\ cr'.exists = cr.exists /\ cr'.services = cr.services
  /\ Held(cr) => Held(cr')
  /\ cr.deleting => cr'.deleting
  /\ cr'.deleting => cr.deleting \/ cr.exists

CrGone ==
  /\ ~cr'.exists /\ ~cr'.deleting
  /\ RemoveFinalizer \/ (~cr.finalizer /\ ~cr.deleting)

CrApplied ==
  ApplyCr /\ ~cr.exists /\ ~cr'.deleting /\ cr'.services \in Manifests

CrEdited ==
  /\ EditSpec /\ cr.exists /\ cr'.exists /\ cr'.finalizer = cr.finalizer
  /\ cr'.deleting = cr.deleting /\ cr'.services \in Manifests

LEMMA WriteKeeps ==
  ASSUME TypeOK, StatusInv, NEW call, NEW new, WriteSucceeds(new) \/ WriteFails(call, new),
         new.exists = cn.exists, new.services = cn.services, new.deleting = cn.deleting,
         new.finalizer = cn.finalizer \/ new.finalizer
  PROVE  CrKept
<1>1. cr' = cr \/ (cnCurrent /\ cr' = new)
  BY WriteOutcome
<1>2. cnCurrent => cn.exists = cr.exists /\ cn.services = cr.services
                   /\ cn.finalizer = cr.finalizer /\ cn.deleting = cr.deleting
  BY DEF StatusInv, CopyInv, TypeOK, ServerOK, CR
<1>3. QED
  BY <1>1, <1>2 DEF CrKept, Held

LEMMA StatusCalls ==
  ASSUME TypeOK, StatusInv,
         AddFinalizer \/ StartProvisioning \/ ServiceFailed \/ setFailed \/ MarkReady
  PROVE  CrKept
<1>1. cn \in CR
  BY DEF TypeOK, WorkerOK
<1>2. CASE AddFinalizer
  <2> DEFINE new == [cn EXCEPT !.finalizer = TRUE]
  <2>1. new.exists = cn.exists /\ new.services = cn.services /\ new.deleting = cn.deleting
        /\ new.finalizer
    BY <1>1 DEF CR
  <2>2. WriteSucceeds(new) \/ WriteFails("update", new)
    BY <1>2 DEF AddFinalizer
  <2>3. QED
    BY <2>1, <2>2, WriteKeeps
<1>3. CASE StartProvisioning
  <2> DEFINE new == [cn EXCEPT !.phase = "Provisioning"]
  <2>1. new.exists = cn.exists /\ new.services = cn.services /\ new.deleting = cn.deleting
        /\ new.finalizer = cn.finalizer
    BY <1>1 DEF CR
  <2>2. WriteSucceeds(new) \/ WriteFails("status", new)
    BY <1>3 DEF StartProvisioning
  <2>3. QED
    BY <2>1, <2>2, WriteKeeps
<1>4. CASE ServiceFailed
  <2> DEFINE new == [cn EXCEPT !.marks =
                [n \in StatusNames |-> IF n \in OwnedBy(Plan[k]) THEN "failed"
                                       ELSE Reported(cn.marks, k)[n]]]
  <2>1. new.exists = cn.exists /\ new.services = cn.services /\ new.deleting = cn.deleting
        /\ new.finalizer = cn.finalizer
    BY <1>1 DEF CR
  <2>2. WriteSucceeds(new) \/ WriteFails("status", new)
    BY <1>4 DEF ServiceFailed
  <2>3. QED
    BY <2>1, <2>2, WriteKeeps
<1>5. CASE setFailed
  <2> DEFINE new == FailedStatus([cn EXCEPT !.marks = Reported(@, k)])
  <2>1. new.exists = cn.exists /\ new.services = cn.services /\ new.deleting = cn.deleting
        /\ new.finalizer = cn.finalizer
    BY <1>1 DEF CR, FailedStatus
  <2>2. WriteSucceeds(new) \/ WriteFails("status", new)
    BY <1>5 DEF setFailed
  <2>3. QED
    BY <2>1, <2>2, WriteKeeps
<1>6. CASE MarkReady
  <2> DEFINE new == ReadyStatus([cn EXCEPT !.marks = Reported(@, k)])
  <2>1. new.exists = cn.exists /\ new.services = cn.services /\ new.deleting = cn.deleting
        /\ new.finalizer = cn.finalizer
    BY <1>1 DEF CR, ReadyStatus
  <2>2. WriteSucceeds(new) \/ WriteFails("status", new)
    BY <1>6 DEF MarkReady
  <2>3. QED
    BY <2>1, <2>2, WriteKeeps
<1>7. QED
  BY <1>2, <1>3, <1>4, <1>5, <1>6

LEMMA CrStep ==
  ASSUME TypeOK, StatusInv, [Next]_vars
  PROVE  CrKept \/ CrGone \/ CrApplied \/ CrEdited
<1>1. cr \in CR
  BY DEF TypeOK, ServerOK
<1>2. CASE cr' = cr
  BY <1>2 DEF CrKept
<1>3. CASE RemoveFinalizer
  <2>1. ~NoCr.exists /\ ~NoCr.deleting
    BY DEF NoCr
  <2>2. cr' = cr \/ cr' = NoCr
    BY <1>3, WriteOutcome DEF RemoveFinalizer
  <2>3. QED
    BY <1>2, <1>3, <2>1, <2>2 DEF CrGone
<1>4. CASE ApplyCr
  <2>1. PICK services \in Manifests : cr' = NewCr(services)
    BY <1>4 DEF ApplyCr, UserWrites
  <2>2. NewCr(services).services = services /\ ~NewCr(services).deleting
    BY DEF NewCr, NoCr
  <2>3. QED
    BY <1>4, <2>1, <2>2 DEF ApplyCr, CrApplied
<1>5. CASE EditSpec
  <2>1. PICK services \in Manifests : cr' = [cr EXCEPT !.services = services]
    BY <1>5 DEF EditSpec, UserWrites
  <2>2. cr'.services = services /\ cr'.exists = cr.exists /\ cr'.finalizer = cr.finalizer
        /\ cr'.deleting = cr.deleting
    BY <1>1, <2>1 DEF CR
  <2>3. cr.exists = TRUE
    BY <1>1, <1>5 DEF EditSpec, CR
  <2>4. QED
    BY <1>5, <2>2, <2>3 DEF CrEdited
<1>6. CASE DeleteCr
  <2> DEFINE new == [cr EXCEPT !.deleting = TRUE]
  <2>1. new.exists = cr.exists /\ new.services = cr.services /\ new.finalizer = cr.finalizer
        /\ new.deleting
    BY <1>1 DEF CR
  <2>2. ~NoCr.exists /\ ~NoCr.deleting
    BY DEF NoCr
  <2>3. cr.exists /\ ~cr.deleting /\ cr' = IF cr.finalizer THEN new ELSE NoCr
    BY <1>6 DEF DeleteCr, UserWrites
  <2>4. QED
    BY <2>1, <2>2, <2>3 DEF CrKept, CrGone, Held
<1>7. CASE \/ Get \/ ensureNamespace \/ SkipStep \/ FindObject \/ ReadObject \/ CreateObject
           \/ cleanupClientResources \/ deleteNamespace
           \/ Restart \/ EmptyNamespace \/ DropNamespace \/ Deliver \/ UNCHANGED vars
  <2>1. cr' = cr
    BY <1>7, CleanupFrame
    DEF Get, ensureNamespace, SkipStep, FindObject, ReadObject, CreateObject,
        deleteNamespace, Restart, EmptyNamespace, DropNamespace,
        Deliver, DeliverCr, DeliverNs, DeliverObj, vars, server
  <2>2. QED
    BY <1>2, <2>1
<1>8. QED
  BY <1>3, <1>4, <1>5, <1>6, <1>7, StatusCalls DEF Next, Reconcile, Environment

-----------------------------------------------------------------------------
(* Deletions.                                                               *)

LEMMA CachedStep ==
  ASSUME [Next]_vars
  PROVE  cachedCr' = cachedCr \/ cachedCr' = cr'
<1>1. CASE \/ AddFinalizer \/ StartProvisioning \/ ServiceFailed \/ setFailed \/ MarkReady
           \/ RemoveFinalizer
  <2>1. \A call, new : WriteSucceeds(new) \/ WriteFails(call, new) => UNCHANGED cachedCr
    BY DEF WriteSucceeds, WriteFails, Accept, Refuse, caches
  <2>2. QED
    BY <1>1, <2>1 DEF AddFinalizer, StartProvisioning, ServiceFailed, setFailed, MarkReady,
       RemoveFinalizer
<1>2. CASE \/ Get \/ ensureNamespace \/ SkipStep \/ FindObject \/ ReadObject \/ CreateObject
           \/ cleanupClientResources \/ deleteNamespace
           \/ EmptyNamespace \/ DropNamespace \/ UNCHANGED vars
           \/ ApplyCr \/ EditSpec \/ DeleteCr
  BY <1>2, CleanupFrame
  DEF Get, ensureNamespace, SkipStep, FindObject, ReadObject, CreateObject,
      deleteNamespace, EmptyNamespace, DropNamespace, vars, caches,
      ApplyCr, EditSpec, DeleteCr, UserWrites
<1>3. CASE Restart \/ Deliver
  BY <1>3 DEF Restart, Deliver, DeliverCr, DeliverNs, DeliverObj, server
<1>4. QED
  BY <1>1, <1>2, <1>3 DEF Next, Reconcile, Environment

Bare == \A r \in objs : r[1] \notin Cleaned

(* The deletion of the CR is seen, so no pass provisions any more, ...      *)
Removing == cr.deleting /\ cachedCr.deleting /\ pc \in {"idle"} \cup Deleting

(* ... and a pass that deletes for a CR which is gone finds nothing to do.  *)
DeletingInv ==
  /\ cr.deleting => cr.exists
  /\ cachedCr.deleting => cachedCr.exists
  /\ pc = "addFinalizer" => ~cn.deleting
  /\ pc \in Deleting => Removing \/ Bare
  /\ cachedCr.deleting /\ ~cr.deleting => Bare /\ pc \in {"idle"} \cup Deleting

(* How passes come to delete, and go on.                                    *)
LEMMA PassStep ==
  ASSUME TypeOK, DeletingInv, [Next]_vars
  PROVE  /\ pc' \in Deleting => pc \in Deleting \/ (Get /\ cachedCr.deleting)
         /\ pc \in {"idle"} \cup Deleting /\ cachedCr.deleting => pc' \in {"idle"} \cup Deleting
         /\ pc' = "addFinalizer" => ~cn'.deleting
<1> DEFINE Goal == /\ pc' \in Deleting => pc \in Deleting \/ (Get /\ cachedCr.deleting)
                   /\ pc \in {"idle"} \cup Deleting /\ cachedCr.deleting
                        => pc' \in {"idle"} \cup Deleting
                   /\ pc' = "addFinalizer" => ~cn'.deleting
<1>1. cn \in CR /\ cachedCr \in CR
  BY DEF TypeOK, WorkerOK, CachesOK
<1>2. CASE Get
  <2>1. pc = "idle" /\ pc' = Dispatch(cachedCr) /\ (pc' # "idle" => cn' = cachedCr)
    BY <1>2 DEF Get
  <2>2. pc' \in {"idle", "cleanup", "addFinalizer", "start", "namespace"}
    BY <2>1, DispatchType
  <2>3. cachedCr.exists /\ cachedCr.deleting => pc' = "cleanup"
    BY <2>1 DEF Dispatch
  <2>4. pc' = "cleanup" => cachedCr.deleting
    BY <2>1 DEF Dispatch
  <2>5. pc' = "addFinalizer" => ~cachedCr.deleting
    BY <2>1 DEF Dispatch
  <2>6. QED
    BY <1>2, <2>1, <2>2, <2>3, <2>4, <2>5 DEF DeletingInv, Deleting
<1>3. CASE AddFinalizer
  <2> DEFINE new == [cn EXCEPT !.finalizer = TRUE]
  <2>1. ~new.deleting /\ new.finalizer
    BY <1>1, <1>3 DEF AddFinalizer, DeletingInv, CR
  <2>2. pc' = "idle" \/ pc' = Dispatch(new)
    BY <1>3 DEF AddFinalizer, ReturnError, Return, Continue
  <2>3. Dispatch(new) \in {"idle", "start", "namespace"}
    BY <2>1 DEF Dispatch
  <2>4. QED
    BY <1>3, <2>2, <2>3 DEF AddFinalizer, Deleting
<1>4. CASE \/ StartProvisioning \/ ensureNamespace \/ ServiceFailed \/ setFailed \/ MarkReady
  BY <1>4 DEF StartProvisioning, ensureNamespace, ServiceFailed, setFailed, MarkReady,
     ReturnError, Return, Continue, Goto, Deleting
<1>5. CASE SkipStep \/ FindObject \/ ReadObject \/ CreateObject
  <2>1. pc = "plan"
    BY <1>5 DEF SkipStep, FindObject, ReadObject, CreateObject, Creating, AtStep
  <2>2. Goto("plan", k + 1) \/ Fail(Plan[k]) \/ ReturnError
    BY <1>5 DEF SkipStep, FindObject, ReadObject, CreateObject
  <2>3. pc' \in {"plan", "idle"} \cup Failing
    BY <2>2, FailGoto DEF ReturnError, Return, Goto
  <2>4. QED
    BY <2>1, <2>3 DEF Failing, Deleting
<1>6. CASE cleanupClientResources \/ deleteNamespace \/ RemoveFinalizer \/ Restart
  BY <1>6, CleanupFrame DEF deleteNamespace, CleanedUp, RemoveFinalizer, Restart, ReturnError,
     Return, Goto, Deleting
<1>7. CASE \/ ApplyCr \/ EditSpec \/ DeleteCr \/ EmptyNamespace \/ DropNamespace \/ Deliver
           \/ UNCHANGED vars
  BY <1>7 DEF ApplyCr, EditSpec, DeleteCr, UserWrites, EmptyNamespace, DropNamespace,
     Deliver, DeliverCr, DeliverNs, DeliverObj, vars, worker, DeletingInv
<1>8. QED
  BY <1>2, <1>3, <1>4, <1>5, <1>6, <1>7 DEF Next, Reconcile, Environment

LEMMA BareStep ==
  ASSUME TypeOK, EmptyInv, Bare, pc # "plan", [Next]_vars
  PROVE  Bare'
<1>1. objs' \subseteq objs
  BY ObjsStep DEF Shrinks, Creates, CleansUp, Begins
<1>2. QED
  BY <1>1 DEF Bare

(* A deletion that is seen ends with the finalizer, when nothing is left.   *)
LEMMA RemovingStep ==
  ASSUME TypeOK, StatusInv, DeletingInv, Removing, [Next]_vars
  PROVE  Removing' \/ RemoveFinalizer
<1>1. CASE cr'.deleting
  BY <1>1, CachedStep, PassStep DEF Removing
<1>2. CASE ~cr'.deleting
  BY <1>2, CrStep DEF Removing, DeletingInv, CrKept, CrGone, CrApplied, CrEdited
<1>3. QED
  BY <1>1, <1>2

LEMMA RemovedBare ==
  ASSUME CleanInv, RemoveFinalizer
  PROVE  Bare /\ pc # "plan" /\ pc' = "idle"
  BY DEF RemoveFinalizer, CleanInv, Bare, ReturnError, Return

LEMMA NextDeleting ==
  ASSUME TypeOK, StatusInv, EmptyInv, CleanInv, DeletingInv, [Next]_vars
  PROVE  DeletingInv'
<1>1. /\ cr'.deleting => cr'.exists
      /\ cr.deleting /\ ~cr'.deleting => RemoveFinalizer
  BY CrStep DEF DeletingInv, CrKept, CrGone, CrApplied, CrEdited
<1>2. cachedCr'.deleting => cachedCr'.exists
  BY <1>1, CachedStep DEF DeletingInv
<1>3. ASSUME pc' \in Deleting PROVE Removing' \/ Bare'
  <2>1. CASE pc \in Deleting /\ Removing
    BY <2>1, RemovingStep, RemovedBare, BareStep
  <2>2. CASE pc \in Deleting /\ Bare
    BY <2>2, BareStep DEF Deleting
  <2>3. CASE Get /\ cachedCr.deleting
    <3>1. pc = "idle" /\ UNCHANGED <<cr, cachedCr>>
      BY <2>3 DEF Get, server, caches
    <3>2. CASE cr.deleting
      BY <1>3, <2>3, <3>1, <3>2 DEF Removing
    <3>3. CASE ~cr.deleting
      BY <2>3, <3>1, <3>3, BareStep DEF DeletingInv
    <3>4. QED
      BY <3>2, <3>3
  <2>4. QED
    BY <1>3, <2>1, <2>2, <2>3, PassStep DEF DeletingInv
<1>4. ASSUME cachedCr'.deleting, ~cr'.deleting
      PROVE  Bare' /\ pc' \in {"idle"} \cup Deleting
  <2>1. cachedCr.deleting
    BY <1>4, CachedStep
  <2>2. CASE cr.deleting
    <3>1. RemoveFinalizer
      BY <1>1, <1>4, <2>2
    <3>2. QED
      BY <3>1, RemovedBare, BareStep
  <2>3. CASE ~cr.deleting
    <3>1. Bare /\ pc \in {"idle"} \cup Deleting
      BY <2>1, <2>3 DEF DeletingInv
    <3>2. QED
      BY <2>1, <3>1, BareStep, PassStep DEF Deleting
  <2>4. QED
    BY <2>2, <2>3
<1>5. QED
  BY <1>1, <1>2, <1>3, <1>4, PassStep DEF DeletingInv

(* All that is needed of a deletion.                                        *)
RemovalInv == EmptyInv /\ CleanInv /\ DeletingInv

LEMMA InitRemoval == Init => RemovalInv
<1>1. NoCr.deleting = FALSE
  BY DEF NoCr
<1>2. QED
  BY <1>1 DEF Init, RemovalInv, EmptyInv, CleanInv, DeletingInv, Deleting

LEMMA NextRemoval ==
  ASSUME FreshObjects, NoFailedDelete, TypeOK, StatusInv, PlanInv, RemovalInv, [Next]_vars
  PROVE  RemovalInv'
  BY NextEmpty, NextClean, NextDeleting DEF RemovalInv

(* A step keeps to a deletion, ends it, or has nothing to do with one.      *)
LEMMA RemovalStep ==
  ASSUME TypeOK, StatusInv, RemovalInv, [Next]_vars
  PROVE  Removing' \/ Bare' \/ (~Removing /\ (Shrinks \/ Creates))
<1>1. EmptyInv /\ CleanInv /\ DeletingInv
  BY DEF RemovalInv
<1>2. CASE Removing
  BY <1>1, <1>2, RemovingStep, RemovedBare, BareStep
<1>3. CASE ~Removing /\ CleansUp
  <2>1. pc = "cleanup"
    BY <1>3, CleanupFrame DEF CleansUp
  <2>2. Bare
    BY <1>1, <1>3, <2>1 DEF DeletingInv, Deleting
  <2>3. QED
    BY <1>1, <2>1, <2>2, BareStep
<1>4. CASE Begins
  BY <1>4 DEF Begins, Bare
<1>5. QED
  BY <1>1, <1>2, <1>3, <1>4, ObjsStep

LEMMA AlwaysEmpty == Spec => []EmptyInv
<1>1. Init => EmptyInv
  BY DEF Init, EmptyInv
<1>2. TypeOK /\ EmptyInv /\ [Next]_vars => EmptyInv'
  BY NextEmpty
<1>3. QED
  BY <1>1, <1>2, TypeCorrect, PTL DEF Spec

LEMMA AlwaysRemoval ==
  ASSUME FreshObjects, NoFailedDelete PROVE Spec => []RemovalInv
<1>1. TypeOK /\ StatusInv /\ PlanInv /\ RemovalInv /\ [Next]_vars => RemovalInv'
  BY NextRemoval
<1>2. QED
  BY <1>1, InitRemoval, TypeCorrect, StatusAlways, PlanAlways, PTL DEF Spec

-----------------------------------------------------------------------------
(* An object that the Plan makes after another is there without it only     *)
(* while a deletion takes both.                                             *)

Follows(r, s) == ns.state = "active" /\ s \in objs => r \in objs

Backed(r, s) == Removing \/ Follows(r, s)

LEMMA CreatesAfter ==
  ASSUME PlanInv, Creates, NEW r, NEW s, Before(r, s), Plan[k].res = s
  PROVE  r \in objs
<1>1. Behind(cn, k, ns, objs)
  BY DEF Creates, PlanInv
<1>2. QED
  BY <1>1 DEF Creates, Behind, Before, Enabled

LEMMA NextBacked ==
  ASSUME NEW r, NEW s, Before(r, s), s[1] \in Cleaned,
         TypeOK, StatusInv, PlanInv, RemovalInv, Backed(r, s), [Next]_vars
  PROVE  Backed(r, s)'
<1>1. CASE Removing' \/ Bare'
  BY <1>1 DEF Bare, Backed, Follows
<1>2. CASE Follows(r, s) /\ Shrinks
  BY <1>2 DEF Shrinks, Backed, Follows
<1>3. CASE Follows(r, s) /\ Creates
  BY <1>3, CreatesAfter DEF Creates, Backed, Follows
<1>4. QED
  BY <1>1, <1>2, <1>3, RemovalStep DEF Backed

-----------------------------------------------------------------------------
(* Pods and their Secrets.                                                  *)

LEMMA WorkloadKinds == \A w \in Workloads : w.step.res[1] \in Cleaned
  BY KindSet
  DEF Workloads, postgresql_ensureStatefulSet, redis_ensureDeployment,
      rustfs_ensureDeployment, ninegate_ensureDeployment, glauth_ensureDeployment,
      dex_ensureDeployment, Workload, Ensure

(* No pod is created before the Secrets it reads, whichever passes created  *)
(* them: for every Plan in which each workload has them made earlier, if    *)
(* the caches of the objects are fresh.                                     *)
THEOREM SecretsAlwaysFirst ==
  ASSUME FreshObjects, SecretsFirst
  PROVE  Spec => SecretsBeforePods
<1> DEFINE First == \A w \in Workloads : w.step.res \in objs' \ objs =>
                      \A r \in w.uses : r[1] = "Secret" => r \in objs'
<1>1. TypeOK /\ PlanInv /\ EmptyInv /\ [Next]_vars => First
  <2>1. SUFFICES ASSUME TypeOK, PlanInv, EmptyInv, [Next]_vars,
                        NEW w \in Workloads, w.step.res \in objs' \ objs,
                        NEW r \in w.uses, r[1] = "Secret"
                 PROVE  r \in objs'
    OBVIOUS
  <2>2. Creates /\ Plan[k].res = w.step.res
    BY <2>1, ObjsStep DEF Shrinks, Creates, CleansUp, Begins
  <2>3. Before(r, w.step.res)
    BY <2>1 DEF SecretsFirst
  <2>4. r \in objs
    BY <2>1, <2>2, <2>3, CreatesAfter
  <2>5. QED
    BY <2>2, <2>4 DEF Creates
<1>2. TypeOK /\ PlanInv /\ EmptyInv /\ [Next]_vars => [First]_vars
  BY <1>1
<1>3. QED
  BY <1>2, TypeCorrect, PlanAlways, AlwaysEmpty, PTL DEF Spec, SecretsBeforePods

(* Nothing but the deletion of the CR takes a Secret from under a pod, and  *)
(* no crash between the deletes of the cleanup leaves such a pod to the next*)
(* CR: for the same Plans, if deletes succeed as well.                      *)
THEOREM PodsAlwaysKeepSecrets ==
  ASSUME FreshObjects, NoFailedDelete, SecretsFirst
  PROVE  Spec => []PodsKeepSecrets
<1> DEFINE Inv == \A w \in Workloads : \A r \in w.uses :
                    r[1] = "Secret" => Backed(r, w.step.res)
<1>1. Init => Inv
  BY DEF Init, Backed, Follows
<1>2. TypeOK /\ StatusInv /\ PlanInv /\ RemovalInv /\ Inv /\ [Next]_vars => Inv'
  <2>1. SUFFICES ASSUME TypeOK, StatusInv, PlanInv, RemovalInv, Inv, [Next]_vars,
                        NEW w \in Workloads, NEW r \in w.uses, r[1] = "Secret"
                 PROVE  Backed(r, w.step.res)'
    OBVIOUS
  <2>2. Before(r, w.step.res) /\ w.step.res[1] \in Cleaned
    BY <2>1, WorkloadKinds DEF SecretsFirst
  <2>3. QED
    BY <2>1, <2>2, NextBacked
<1>3. Inv => PodsKeepSecrets
  BY DEF PodsKeepSecrets, Backed, Follows, Removing
<1> HIDE DEF Inv
<1>4. QED
  BY <1>1, <1>2, <1>3, TypeCorrect, StatusAlways, PlanAlways, AlwaysRemoval, PTL DEF Spec

-----------------------------------------------------------------------------
(* The manifest of the CR.                                                  *)

ManifestInv == cr.exists => cr.services \in Manifests

LEMMA NextManifest ==
  ASSUME TypeOK, StatusInv, ManifestInv, [Next]_vars
  PROVE  ManifestInv'
  BY CrStep DEF ManifestInv, CrKept, CrGone, CrApplied, CrEdited

(* Two manifests that no edit tells apart.                                  *)
Alike(s, t, switches) == s.enabled \cap switches = t.enabled \cap switches

LEMMA EditKeeps ==
  ASSUME NEW switches, EditsKeep(switches), TypeOK, ManifestInv, CrEdited
  PROVE  Alike(cr'.services, cr.services, switches)
<1>1. MaxEdits # 0
  BY EnvironmentAssumption DEF CrEdited, EditSpec, TypeOK, BudgetsOK
<1>2. QED
  BY <1>1 DEF EditsKeep, Alike, ManifestInv, CrEdited

LEMMA AlwaysManifest == Spec => []ManifestInv
<1>1. Init => ManifestInv
  <2>1. NoCr.exists = FALSE
    BY DEF NoCr
  <2>2. QED
    BY <2>1 DEF Init, ManifestInv
<1>2. TypeOK /\ StatusInv /\ ManifestInv /\ [Next]_vars => ManifestInv'
  BY NextManifest
<1>3. QED
  BY <1>1, <1>2, TypeCorrect, StatusAlways, PTL DEF Spec

-----------------------------------------------------------------------------
(* What pods and Ingresses name.                                            *)

(* An Ingress leads to a port that the Service of its backend's name has.   *)
LEMMA PortsMatch ==
  ASSUME NEW i \in AllIngresses, NEW s \in Exposed, s.step.res = <<"Service", i.backend>>
  PROVE  i.port \in s.ports
<1>1. i \in {ingresses[j] : j \in 1 .. 4} \cup {optionalIngresses[j] : j \in 1 .. 3}
  BY DEF AllIngresses, ingresses, optionalIngresses
<1>2. <<i.backend, i.port>> \in {<<"ninegate", 80>>, <<"dex", 5556>>, <<"rustfs", 9001>>,
        <<"rustfs-api", 9000>>, <<"nextcloud", 80>>, <<"wordpress", 80>>, <<"dolibarr", 80>>}
  BY <1>1 DEF ingresses, optionalIngresses, ensureIngress
<1>3. <<s.step.res[2], s.ports>> \in {<<"postgresql", {5432}>>, <<"redis", {6379}>>,
        <<"rustfs", {9000, 9001}>>, <<"ninegate", {80}>>, <<"glauth", {3893, 636}>>,
        <<"dex", {5556, 5557}>>}
  BY DEF Exposed, postgresql_ensureService, redis_ensureService, rustfs_ensureService,
     ninegate_ensureService, glauth_ensureService, dex_ensureService, Expose, Ensure
<1>4. s.step.res[2] = i.backend
  OBVIOUS
<1>5. QED
  BY <1>2, <1>3, <1>4

(* The switches that the Plan looks at.                                     *)
Switches == {Plan[i].when : i \in DOMAIN Plan}

ServingInv == Serving => Provisioned(cr.services)

LEMMA AlikeProvisioned ==
  ASSUME NEW s, NEW t, Alike(s, t, Switches), Provisioned(s)
  PROVE  Provisioned(t)
<1>1. \A i \in DOMAIN Plan : Plan[i].when \in Switches
  BY DEF Switches
<1>2. QED
  BY <1>1 DEF Alike, Provisioned, Enabled

LEMMA NextServing ==
  ASSUME FreshNamespace, AlwaysCreates, EditsKeep(Switches),
         TypeOK, StatusInv, OrphanInv, PlanInv, KeptInv, ManifestInv, ServingInv, [Next]_vars
  PROVE  ServingInv'
<1>1. SUFFICES ASSUME cr'.phase = "Ready", ~cr'.deleting PROVE Provisioned(cr.services)'
  BY DEF ServingInv, Serving
<1>2. CASE cr.phase # "Ready"
  BY <1>1, <1>2, ReadyProvisioned
<1>3. CASE cr.phase = "Ready"
  <2>1. Held(cr) /\ Held(cr') /\ ~cr.deleting
    BY <1>1, <1>3, ReadyHeld DEF KeptInv
  <2>2. ns' = ns /\ objs \subseteq objs'
    BY <1>3, <2>1, LiveKept DEF KeptInv, Live
  <2>3. Provisioned(cr.services)
    BY <1>3, <2>1 DEF ServingInv, Serving
  <2>4. CrKept \/ CrEdited
    BY <2>1, CrStep DEF CrGone, CrApplied, Held
  <2>5. Alike(cr.services, cr'.services, Switches)
    BY <2>4, EditKeeps DEF CrKept, Alike
  <2>6. Provisioned(cr'.services)
    BY <2>3, <2>5, AlikeProvisioned
  <2>7. QED
    BY <2>2, <2>6 DEF Provisioned
<1>4. QED
  BY <1>2, <1>3

LEMMA Resolve ==
  ASSUME ReferencesGiven, KeptInv, ManifestInv, ServingInv
  PROVE  ReferencesResolve
<1>1. SUFFICES ASSUME Serving PROVE ReferencesResolve
  BY DEF ReferencesResolve
<1>2. cr.services \in Manifests /\ Provisioned(cr.services)
  BY <1>1 DEF Serving, KeptInv, Held, ManifestInv, ServingInv
<1>3. \A r : Gives(cr.services, r) => r \in objs
  BY <1>2 DEF Gives, Provisioned
<1>4. \A w \in Workloads : w.uses \subseteq objs
  BY <1>2, <1>3 DEF ReferencesGiven
<1>5. ASSUME NEW i \in AllIngresses, Wanted(i.step)
      PROVE  /\ Secret(i.tls) \in objs
             /\ \A s \in Exposed : s.step.res = <<"Service", i.backend>> =>
                  s.step.res \in objs /\ i.port \in s.ports
  BY <1>2, <1>3, <1>5, PortsMatch DEF ReferencesGiven, Wanted
<1>6. QED
  BY <1>4, <1>5 DEF ReferencesResolve

(* All that the pods and Ingresses of a Ready CR name exists, although it is*)
(* made by six controllers in passes that may have been interrupted: for    *)
(* every Plan that creates something without a look, and all manifests that *)
(* enable what the workloads need and differ in no switch when edited.      *)
THEOREM ReferencesAlwaysResolve ==
  ASSUME FreshObjects, FreshNamespace, AlwaysCreates, ReferencesGiven, EditsKeep(Switches)
  PROVE  Spec => []ReferencesResolve
<1> DEFINE Inv == OrphanInv /\ KeptInv /\ ServingInv
<1>1. Init => Inv
  <2>1. NoCr.phase = ""
    BY DEF NoCr
  <2>2. Init => cr.phase = "" /\ pc = "idle"
    BY <2>1 DEF Init
  <2>3. QED
    BY <2>2, InitOrphan DEF KeptInv, NoDeadPlan, ServingInv, Serving
<1>2. TypeOK /\ StatusInv /\ PlanInv /\ ManifestInv /\ Inv /\ [Next]_vars => Inv'
  BY NextOrphan, NextKept, NextServing
<1>3. ManifestInv /\ Inv => ReferencesResolve
  BY Resolve
<1> HIDE DEF Inv
<1>4. QED
  BY <1>1, <1>2, <1>3, TypeCorrect, StatusAlways, PlanAlways, AlwaysManifest, PTL DEF Spec
=============================================================================
