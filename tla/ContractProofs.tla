---------------------------- MODULE ContractProofs ----------------------------
(***************************************************************************)
(* Lifecycle implements Contract, for every Plan and every sequence of      *)
(* failures, crashes, conflicts and stale CRs.  As in OrphanProofs the      *)
(* cache of namespaces is fresh.                                            *)
(***************************************************************************)
EXTENDS OrphanProofs

(* The branch that a pass has taken tells whether its copy is being deleted.*)
PassLive ==
  /\ pc \in {"addFinalizer", "start"} \cup Provisioning => ~cn.deleting
  /\ pc \in Deleting => cn.deleting

-----------------------------------------------------------------------------
LEMMA GetLive ==
  ASSUME TypeOK, PassLive, Get
  PROVE  PassLive'
<1>1. pc' = Dispatch(cachedCr) /\ (pc' # "idle" => cn' = cachedCr)
  BY DEF Get
<1>2. cachedCr.deleting \in BOOLEAN /\ cachedCr.exists \in BOOLEAN
  BY DEF TypeOK, CachesOK, CR
<1>3. pc' \in {"addFinalizer", "start", "namespace"} => ~cachedCr.deleting
  BY <1>1, <1>2 DEF Dispatch
<1>4. pc' = "cleanup" => cachedCr.deleting
  BY <1>1, <1>2 DEF Dispatch
<1>5. pc' \in {"idle", "cleanup", "addFinalizer", "start", "namespace"}
  BY <1>1, DispatchType
<1>6. CASE pc' \in {"addFinalizer", "start", "namespace"}
  BY <1>1, <1>3, <1>6 DEF PassLive, Deleting
<1>7. CASE pc' = "cleanup"
  BY <1>1, <1>4, <1>7 DEF PassLive, Provisioning, Failing
<1>8. CASE pc' = "idle"
  BY <1>8 DEF PassLive, Provisioning, Failing, Deleting
<1>9. QED
  BY <1>5, <1>6, <1>7, <1>8

(* A pass ends, or goes on with the same branch and the same deletion mark. *)
LEMMA SameBranch ==
  ASSUME TypeOK, PassLive,
         \/ pc' = "idle"
         \/ /\ pc \in {"addFinalizer", "start"} \cup Provisioning
            /\ pc' \in {"start"} \cup Provisioning /\ cn'.deleting = cn.deleting
         \/ pc \in Deleting /\ pc' \in Deleting /\ cn'.deleting = cn.deleting
  PROVE  PassLive'
<1>1. CASE pc' = "idle"
  BY <1>1 DEF PassLive, Provisioning, Failing, Deleting
<1>2. CASE pc \in Deleting /\ pc' \in Deleting /\ cn'.deleting = cn.deleting
  BY <1>2 DEF PassLive, Provisioning, Failing, Deleting
<1>3. CASE /\ pc \in {"addFinalizer", "start"} \cup Provisioning
           /\ pc' \in {"start"} \cup Provisioning /\ cn'.deleting = cn.deleting
  BY <1>3 DEF PassLive, Provisioning, Failing, Deleting
<1>4. QED
  BY <1>1, <1>2, <1>3

LEMMA ReconcileLive ==
  ASSUME TypeOK, OrphanInv, PassLive, Reconcile
  PROVE  PassLive'
<1>1. cn \in CR
  BY DEF TypeOK, WorkerOK
<1>2. CASE AddFinalizer
  <2> DEFINE new == [cn EXCEPT !.finalizer = TRUE]
  <2>1. pc = "addFinalizer" /\ ~cn.deleting /\ cn.exists
    BY <1>2 DEF AddFinalizer, OrphanInv, PassOrphan
  <2>2. new.deleting = cn.deleting /\ new.exists /\ new.finalizer
    BY <1>1, <2>1 DEF CR
  <2>3. \/ pc' = "idle"
        \/ pc' = Dispatch(new) /\ cn' = new
    BY <1>2 DEF AddFinalizer, ReturnError, Return, Continue
  <2>4. Dispatch(new) \in {"idle", "start", "namespace"}
    BY <2>1, <2>2 DEF Dispatch
  <2>5. QED
    BY <2>1, <2>2, <2>3, <2>4, SameBranch DEF Provisioning
<1>3. CASE StartProvisioning
  <2> DEFINE new == [cn EXCEPT !.phase = "Provisioning"]
  <2>1. new.deleting = cn.deleting
    BY <1>1 DEF CR
  <2>2. pc = "start" /\ (pc' = "idle" \/ (pc' = "namespace" /\ cn' = new))
    BY <1>3 DEF StartProvisioning, ReturnError, Return, Continue
  <2>3. QED
    BY <2>1, <2>2, SameBranch DEF Provisioning
<1>4. CASE ensureNamespace
  <2>1. pc = "namespace" /\ cn' = cn /\ pc' \in {"plan", "setFailed"}
    BY <1>4 DEF ensureNamespace, Goto
  <2>2. QED
    BY <2>1, SameBranch DEF Provisioning, Failing
<1>5. CASE SkipStep \/ FindObject \/ ReadObject \/ CreateObject
  <2>1. pc = "plan"
    BY <1>5 DEF SkipStep, FindObject, ReadObject, CreateObject, Creating, AtStep
  <2>2. Goto("plan", k + 1) \/ Fail(Plan[k]) \/ Return(TRUE)
    BY <1>5 DEF SkipStep, FindObject, ReadObject, CreateObject, ReturnError
  <2>3. pc' = "idle" \/ (pc' \in Provisioning /\ cn' = cn)
    BY <2>2 DEF Fail, Goto, Return, Provisioning, Failing
  <2>4. QED
    BY <2>1, <2>3, SameBranch DEF Provisioning
<1>6. CASE ServiceFailed
  <2>1. pc = "serviceFailed" /\ pc' = "setFailed"
    BY <1>6 DEF ServiceFailed
  <2>2. cn'.deleting = cn.deleting
    BY <1>1, <1>6 DEF ServiceFailed, CR
  <2>3. QED
    BY <2>1, <2>2, SameBranch DEF Provisioning, Failing
<1>7. CASE setFailed \/ MarkReady \/ RemoveFinalizer
  BY <1>7, SameBranch DEF setFailed, MarkReady, RemoveFinalizer, ReturnError, Return
<1>8. CASE cleanupClientResources \/ deleteNamespace
  <2>1. pc \in Deleting /\ (pc' = "idle" \/ (pc' \in Deleting /\ cn' = cn))
    BY <1>8, CleanupFrame
    DEF deleteNamespace, CleanedUp, Goto, ReturnError, Return, Deleting
  <2>2. QED
    BY <2>1, SameBranch
<1>9. QED
  BY <1>2, <1>3, <1>4, <1>5, <1>6, <1>7, <1>8, GetLive DEF Reconcile

LEMMA NextLive == TypeOK /\ OrphanInv /\ PassLive /\ [Next]_vars => PassLive'
<1>1. SUFFICES ASSUME TypeOK, OrphanInv, PassLive, [Next]_vars PROVE PassLive'
  OBVIOUS
<1>2. ASSUME UNCHANGED <<pc, cn>> PROVE PassLive'
  BY <1>1, <1>2 DEF PassLive
<1>3. CASE Restart
  BY <1>1, <1>3, SameBranch DEF Restart
<1>4. CASE (Environment /\ ~Restart) \/ Deliver \/ UNCHANGED vars
  <2>1. UNCHANGED <<pc, cn>>
    BY <1>4 DEF Environment, ApplyCr, EditSpec, DeleteCr, UserWrites, EmptyNamespace,
       DropNamespace, Deliver, DeliverCr, DeliverNs, DeliverObj, vars, worker
  <2>2. QED
    BY <1>2, <2>1
<1>5. QED
  BY <1>1, <1>3, <1>4, ReconcileLive DEF Next

-----------------------------------------------------------------------------
(* One lemma for each of the ways in which a step changes what the Contract *)
(* sees.                                                                    *)

LEMMA Stutter ==
  ASSUME UNCHANGED <<cr, ns>>
  PROVE  UNCHANGED Promise!vars
  BY DEF Promise!vars, Life, Home

LEMMA StatusContract ==
  ASSUME TypeOK, StatusInv, OrphanInv, PassLive, UNCHANGED ns,
         NEW call, NEW new, WriteSucceeds(new) \/ WriteFails(call, new),
         new.exists = cn.exists, new.deleting = cn.deleting, new.finalizer = cn.finalizer,
         pc \in {"start"} \cup Provisioning
  PROVE  /\ UNCHANGED <<Life, cr.finalizer, Home>>
         /\ cr.exists /\ cr'.exists /\ cr.finalizer
         /\ cr' = cr \/ (cnCurrent /\ Valid(new) /\ cr' = new /\ ~cr.deleting)
<1>1. cnCurrent =>
        cn.exists = cr.exists /\ cn.deleting = cr.deleting /\ cn.finalizer = cr.finalizer
  BY DEF StatusInv, CopyInv, TypeOK, ServerOK, CR
<1>2. Held(cr) /\ ~cn.deleting
  BY DEF OrphanInv, PassOrphan, PassLive
<1>3. /\ cr'.exists = cr.exists /\ cr'.deleting = cr.deleting
      /\ cr'.finalizer = cr.finalizer
      /\ cr' = cr \/ (cnCurrent /\ Valid(new) /\ cr' = new /\ ~cr.deleting)
  BY <1>1, <1>2, WriteOutcome
<1>4. UNCHANGED <<Life, cr.finalizer, Home>> /\ cr.exists /\ cr.finalizer
  BY <1>2, <1>3 DEF Life, Home, Held
<1>5. cr'.exists = cr.exists /\ cr.exists = TRUE
  BY <1>3, <1>4 DEF TypeOK, ServerOK, CR
<1>6. QED
  BY <1>3, <1>4, <1>5

LEMMA StatusAllowed ==
  ASSUME TypeOK, StatusInv, OrphanInv, PassLive,
         StartProvisioning \/ ServiceFailed \/ setFailed \/ MarkReady
  PROVE  Promise!Next \/ UNCHANGED Promise!vars
<1>0. cn \in CR /\ cr \in CR
  BY DEF TypeOK, ServerOK, WorkerOK
<1>1. \A call, new : WriteSucceeds(new) \/ WriteFails(call, new) => UNCHANGED ns
  BY DEF WriteSucceeds, WriteFails, Accept, Refuse, server
<1>2. CASE StartProvisioning
  <2> DEFINE new == [cn EXCEPT !.phase = "Provisioning"]
  <2>1. /\ new.exists = cn.exists /\ new.deleting = cn.deleting
        /\ new.finalizer = cn.finalizer /\ new.phase = "Provisioning"
    BY <1>0 DEF CR
  <2>2. pc = "start" /\ (WriteSucceeds(new) \/ WriteFails("status", new))
    BY <1>2 DEF StartProvisioning
  <2>3. /\ UNCHANGED <<Life, cr.finalizer, Home>> /\ cr.exists /\ cr.finalizer
        /\ cr' = cr \/ (cnCurrent /\ cr' = new /\ ~cr.deleting)
    BY <1>1, <2>1, <2>2, StatusContract
  <2>4. cnCurrent => cr.phase = ""
    BY <2>2 DEF StatusInv, CopyInv
  <2>5. CASE cr' = cr
    BY <2>3, <2>5 DEF Promise!vars
  <2>6. CASE cnCurrent /\ cr' = new /\ ~cr.deleting
    <3>1. Life = "live"
      BY <2>3, <2>6 DEF Life
    <3>2. cr'.phase = "Provisioning"
      BY <2>1, <2>6
    <3>3. Promise!Start
      BY <2>3, <2>4, <2>6, <3>1, <3>2 DEF Promise!Start
    <3>4. QED
      BY <3>3 DEF Promise!Next
  <2>7. QED
    BY <2>3, <2>5, <2>6
<1>3. CASE ServiceFailed
  <2> DEFINE new == [cn EXCEPT !.marks =
                [n \in StatusNames |-> IF n \in OwnedBy(Plan[k]) THEN "failed"
                                       ELSE Reported(cn.marks, k)[n]]]
  <2>1. /\ new.exists = cn.exists /\ new.deleting = cn.deleting
        /\ new.finalizer = cn.finalizer /\ new.phase = cn.phase
    BY <1>0 DEF CR
  <2>2. pc = "serviceFailed" /\ (WriteSucceeds(new) \/ WriteFails("status", new))
    BY <1>3 DEF ServiceFailed
  <2>3. /\ UNCHANGED <<Life, cr.finalizer, Home>> /\ cr.exists /\ cr.finalizer
        /\ cr' = cr \/ (cnCurrent /\ cr' = new /\ ~cr.deleting)
    BY <1>1, <2>1, <2>2, StatusContract DEF Provisioning, Failing
  <2>4. cnCurrent => cn.phase = cr.phase
    BY <2>2 DEF StatusInv, CopyInv
  <2>5. cr'.phase = cr.phase
    BY <2>1, <2>3, <2>4
  <2>6. QED
    BY <2>3, <2>5 DEF Promise!vars
<1>4. CASE setFailed \/ MarkReady
  <2>1. PICK new :
          /\ new = FailedStatus([cn EXCEPT !.marks = Reported(@, k)])
             \/ new = ReadyStatus([cn EXCEPT !.marks = Reported(@, k)])
          /\ WriteSucceeds(new) \/ WriteFails("status", new)
    BY <1>4 DEF setFailed, MarkReady
  <2>2. /\ new.exists = cn.exists /\ new.deleting = cn.deleting
        /\ new.finalizer = cn.finalizer
    BY <1>0, <2>1 DEF CR, FailedStatus, ReadyStatus
  <2>3. pc \in Provisioning
    BY <1>4 DEF setFailed, MarkReady, Provisioning, Failing
  <2>4. /\ UNCHANGED <<Life, cr.finalizer, Home>>
        /\ cr.exists /\ cr'.exists /\ cr.finalizer
        /\ cr' = cr \/ (cnCurrent /\ Valid(new) /\ cr' = new /\ ~cr.deleting)
    BY <1>1, <2>1, <2>2, <2>3, StatusContract
  <2>5. /\ cnCurrent => cr.phase = cn.phase
        /\ cn.phase \in {"Provisioning", "Failed"}
    <3>1. cnCurrent => cn = [cr EXCEPT !.marks = cn.marks] \/ cn = cr
      BY DEF StatusInv, CopyInv
    <3>2. cnCurrent => cr.phase = cn.phase
      BY <1>0, <3>1 DEF CR
    <3>3. QED
      BY <2>3, <3>2 DEF StatusInv, CopyInv
  <2>6. CASE cr' = cr
    BY <2>4, <2>6 DEF Promise!vars
  <2>7. CASE cnCurrent /\ cr' = new /\ ~cr.deleting
    <3>1. Life = "live"
      BY <2>4, <2>7 DEF Life
    <3>2. new.phase \in {"Ready", "Failed"}
      BY <1>0, <2>1 DEF FailedStatus, ReadyStatus, CR
    <3>3. Promise!Report
      BY <2>4, <2>5, <2>7, <3>1, <3>2 DEF Promise!Report
    <3>4. QED
      BY <3>3 DEF Promise!Next
  <2>8. QED
    BY <2>4, <2>6, <2>7
<1>5. QED
  BY <1>2, <1>3, <1>4

LEMMA AddFinalizerAllowed ==
  ASSUME TypeOK, StatusInv, OrphanInv, AddFinalizer
  PROVE  Promise!Next \/ UNCHANGED Promise!vars
<1> DEFINE new == [cn EXCEPT !.finalizer = TRUE]
<1>1. cn \in CR /\ cn.exists /\ ~cn.deleting /\ (cnCurrent => cn = cr)
  BY DEF AddFinalizer, OrphanInv, PassOrphan, StatusInv, CopyInv, TypeOK, WorkerOK
<1>2. /\ new.exists = cn.exists /\ new.deleting = cn.deleting
      /\ new.phase = cn.phase /\ new.finalizer = TRUE
  BY <1>1 DEF CR
<1>3. UNCHANGED ns /\ (cr' = cr \/ (cnCurrent /\ cr' = new))
  BY DEF AddFinalizer, WriteSucceeds, WriteFails, Accept, Refuse, server
<1>4. CASE cr' = cr
  BY <1>3, <1>4, Stutter
<1>5. CASE cnCurrent /\ cr' = new /\ cr.finalizer
  <2>1. cr'.finalizer = cr.finalizer
    BY <1>1, <1>2, <1>5 DEF CR
  <2>2. UNCHANGED <<Life, cr.finalizer, cr.phase, Home>>
    BY <1>1, <1>2, <1>3, <1>5, <2>1 DEF Life, Home
  <2>3. QED
    BY <2>2 DEF Promise!vars
<1>6. CASE cnCurrent /\ cr' = new /\ ~cr.finalizer
  <2>1. UNCHANGED <<Life, cr.phase, Home>> /\ Life = "live"
    BY <1>1, <1>2, <1>3, <1>6 DEF Life, Home
  <2>2. Promise!Guard
    BY <1>2, <1>6, <2>1 DEF Promise!Guard
  <2>3. QED
    BY <2>2 DEF Promise!Next
<1>7. QED
  BY <1>3, <1>4, <1>5, <1>6

LEMMA NamespaceAllowed ==
  ASSUME TypeOK, FreshNamespace, OrphanInv, PassLive, ensureNamespace \/ deleteNamespace
  PROVE  Promise!Next \/ UNCHANGED Promise!vars
<1>1. UNCHANGED cr /\ UNCHANGED <<Life, cr.finalizer, cr.phase>>
  BY DEF ensureNamespace, deleteNamespace, Life
<1>2. CASE UNCHANGED ns
  BY <1>1, <1>2, Stutter
<1>3. CASE /\ ensureNamespace /\ ns.state = "absent"
           /\ SetNs([state |-> "active", labelled |-> TRUE])
  <2>1. Home = "none" /\ Home' = "ours"
    BY <1>3 DEF Home, SetNs
  <2>2. cr.finalizer
    BY <1>3 DEF ensureNamespace, OrphanInv, PassOrphan, Provisioning, Held
  <2>3. Promise!Make
    BY <1>1, <2>1, <2>2 DEF Promise!Make
  <2>4. QED
    BY <2>3 DEF Promise!Next
<1>4. CASE deleteNamespace /\ Ours /\ SetNs(Terminated(ns))
  <2>1. cachedNs = ns /\ ~Live(cr) /\ ns' = Terminated(ns)
    BY <1>4 DEF deleteNamespace, CleanedUp, OrphanInv, CacheOrphan, PassOrphan, Deleting, SetNs
  <2>2. CASE ns.state = "active"
    <3>1. Home = "ours" /\ Held(cr)
      BY <1>4, <2>1, <2>2 DEF Home, Ours, OrphanInv, Guarded
    <3>2. Home' = "none"
      BY <2>1, <2>2 DEF Home, Terminated, TypeOK, ServerOK, NS
    <3>3. Life = "deleting"
      BY <2>1, <3>1 DEF Life, Live, Held
    <3>4. Promise!Unmake
      BY <1>1, <3>1, <3>2, <3>3 DEF Promise!Unmake
    <3>5. QED
      BY <3>4 DEF Promise!Next
  <2>3. CASE ns.state # "active"
    <3>1. ns' = ns
      BY <2>1, <2>3 DEF Terminated
    <3>2. QED
      BY <1>2, <3>1
  <2>4. QED
    BY <2>2, <2>3
<1>5. UNCHANGED ns \/ (ensureNamespace /\ ns.state = "absent"
           /\ SetNs([state |-> "active", labelled |-> TRUE]))
        \/ (deleteNamespace /\ Ours /\ SetNs(Terminated(ns)))
  BY DEF ensureNamespace, deleteNamespace
<1>6. QED
  BY <1>2, <1>3, <1>4, <1>5

LEMMA RemoveFinalizerAllowed ==
  ASSUME StatusInv, OrphanInv, PassLive, RemoveFinalizer
  PROVE  Promise!Next \/ UNCHANGED Promise!vars
<1>1. UNCHANGED ns /\ (cr' = cr \/ (cnCurrent /\ cr' = NoCr))
  BY DEF RemoveFinalizer, WriteSucceeds, WriteFails, Accept, Refuse, server
<1>2. pc = "removeFinalizer" /\ cn.exists /\ cn.deleting /\ ~Guarded
      /\ (cnCurrent => cn = cr)
  BY DEF RemoveFinalizer, OrphanInv, PassOrphan, PassLive, Deleting, StatusInv, CopyInv
<1>3. CASE cr' = cr
  BY <1>1, <1>3, Stutter
<1>4. CASE cnCurrent /\ cr' = NoCr
  <2>1. Life = "deleting" /\ Home # "ours"
    BY <1>2, <1>4 DEF Life, Home, Guarded
  <2>2. Life' = "none" /\ cr'.finalizer = FALSE /\ cr'.phase = "" /\ Home' = Home
    BY <1>1, <1>4 DEF Life, Home, NoCr
  <2>3. Promise!Release
    BY <2>1, <2>2 DEF Promise!Release
  <2>4. QED
    BY <2>3 DEF Promise!Next
<1>5. QED
  BY <1>1, <1>3, <1>4

LEMMA EnvironmentAllowed ==
  ASSUME TypeOK, Environment
  PROVE  Promise!Next \/ UNCHANGED Promise!vars
<1>1. cr \in CR /\ ns \in NS
  BY DEF TypeOK, ServerOK
<1>2. CASE Restart \/ EmptyNamespace
  BY <1>2, Stutter DEF Restart, EmptyNamespace, server
<1>3. CASE ApplyCr
  <2>1. PICK services \in Manifests : UserWrites(NewCr(services))
    BY <1>3 DEF ApplyCr
  <2>2. /\ NewCr(services).exists /\ ~NewCr(services).deleting
        /\ NewCr(services).finalizer = FALSE /\ NewCr(services).phase = ""
    BY DEF NewCr, NoCr
  <2>3. Life = "none" /\ Life' = "live" /\ Home' = Home
    BY <1>3, <2>1, <2>2 DEF ApplyCr, UserWrites, Life, Home
  <2>4. Promise!Apply
    BY <2>1, <2>2, <2>3 DEF UserWrites, Promise!Apply
  <2>5. QED
    BY <2>4 DEF Promise!Next
<1>4. CASE EditSpec
  <2>1. PICK services \in Manifests : UserWrites([cr EXCEPT !.services = services])
    BY <1>4 DEF EditSpec
  <2>2. UNCHANGED <<Life, cr.finalizer, cr.phase, Home>>
    BY <1>1, <2>1 DEF UserWrites, Life, Home, CR
  <2>3. QED
    BY <2>2 DEF Promise!vars
<1>5. CASE DeleteCr /\ cr.finalizer
  <2>1. UserWrites([cr EXCEPT !.deleting = TRUE]) /\ Life = "live"
    BY <1>5 DEF DeleteCr, Life
  <2>2. UNCHANGED <<cr.finalizer, cr.phase, Home>> /\ Life' = "deleting"
    BY <1>1, <1>5, <2>1 DEF UserWrites, Life, Home, CR, DeleteCr
  <2>3. Promise!Delete
    BY <1>5, <2>1, <2>2 DEF Promise!Delete
  <2>4. QED
    BY <2>3 DEF Promise!Next
<1>6. CASE DeleteCr /\ ~cr.finalizer
  <2>1. UserWrites(NoCr) /\ Life = "live"
    BY <1>6 DEF DeleteCr, Life
  <2>2. Life' = "none" /\ cr'.finalizer = cr.finalizer /\ cr'.phase = "" /\ Home' = Home
    BY <1>1, <1>6, <2>1 DEF UserWrites, Life, Home, NoCr, CR
  <2>3. Promise!Delete
    BY <1>6, <2>1, <2>2 DEF Promise!Delete
  <2>4. QED
    BY <2>3 DEF Promise!Next
<1>7. CASE DropNamespace
  <2>1. UNCHANGED <<Life, cr.finalizer, cr.phase>> /\ Home = "none" /\ Home' = "none"
    BY <1>7 DEF DropNamespace, SetNs, NoNs, Life, Home
  <2>2. QED
    BY <2>1 DEF Promise!vars
<1>8. QED
  BY <1>2, <1>3, <1>4, <1>5, <1>6, <1>7 DEF Environment

LEMMA NextAllowed ==
  ASSUME FreshNamespace
  PROVE  TypeOK /\ StatusInv /\ OrphanInv /\ PassLive /\ [Next]_vars
           => Promise!Next \/ UNCHANGED Promise!vars
<1>1. SUFFICES ASSUME TypeOK, StatusInv, OrphanInv, PassLive, [Next]_vars
               PROVE  Promise!Next \/ UNCHANGED Promise!vars
  OBVIOUS
<1>2. CASE \/ Get \/ SkipStep \/ FindObject \/ ReadObject \/ CreateObject
           \/ cleanupClientResources \/ Deliver \/ UNCHANGED vars
  <2>1. UNCHANGED <<cr, ns>>
    BY <1>2, CleanupFrame
    DEF Get, SkipStep, FindObject, ReadObject, CreateObject,
        Deliver, DeliverCr, DeliverNs, DeliverObj, vars, server
  <2>2. QED
    BY <2>1, Stutter
<1>3. QED
  BY <1>1, <1>2, StatusAllowed, AddFinalizerAllowed, NamespaceAllowed,
     RemoveFinalizerAllowed, EnvironmentAllowed DEF Next, Reconcile

(* Hidden behind its caches and its retries, the operator keeps the         *)
(* Contract: for every Plan, every lag of the caches of CRs and objects and *)
(* every sequence of failures.                                              *)
THEOREM KeepsTheContract == ASSUME FreshNamespace PROVE Spec => Implements
<1>1. Init => Promise!Init
  <2>1. SUFFICES ASSUME Init PROVE Promise!Init
    OBVIOUS
  <2>2. cr = NoCr /\ ns \in {NoNs, [state |-> "active", labelled |-> FALSE]}
    BY <2>1 DEF Init
  <2>3. Life = "none" /\ cr.finalizer = FALSE /\ cr.phase = ""
    BY <2>2 DEF Life, NoCr
  <2>4. Home \in {"none", "foreign"}
    BY <2>2 DEF Home, NoNs
  <2>5. QED
    BY <2>3, <2>4 DEF Promise!Init
<1>2. Init => OrphanInv /\ PassLive
  BY InitOrphan DEF Init, PassLive, Provisioning, Failing, Deleting
<1>3. TypeOK /\ StatusInv /\ OrphanInv /\ PassLive /\ [Next]_vars => OrphanInv' /\ PassLive'
  BY NextOrphan, NextLive
<1>4. TypeOK /\ StatusInv /\ OrphanInv /\ PassLive /\ [Next]_vars
        => [Promise!Next]_(Promise!vars)
  BY NextAllowed
<1>5. QED
  BY <1>1, <1>2, <1>3, <1>4, TypeCorrect, StatusAlways, PTL
  DEF Spec, Implements, Promise!Spec

(* Whoever keeps the Contract leaves no namespace behind: NoOrphan follows  *)
(* from the abstract specification alone.                                   *)
THEOREM ContractLeavesNoOrphan == Implements => []NoOrphan
<1>1. Promise!Init => Promise!Owned
  BY DEF Promise!Init, Promise!Owned
<1>2. Promise!Owned /\ [Promise!Next]_(Promise!vars) => Promise!Owned'
  <2>1. SUFFICES ASSUME Promise!Owned, [Promise!Next]_(Promise!vars) PROVE Promise!Owned'
    OBVIOUS
  <2>2. CASE Promise!Guard \/ Promise!Start \/ Promise!Make \/ Promise!Report
    BY <2>1, <2>2
    DEF Promise!Owned, Promise!Guard, Promise!Start, Promise!Make, Promise!Report
  <2>3. CASE Promise!Apply \/ Promise!Delete
    BY <2>1, <2>3 DEF Promise!Owned, Promise!Apply, Promise!Delete
  <2>4. CASE Promise!Unmake \/ Promise!Release \/ UNCHANGED Promise!vars
    BY <2>1, <2>4 DEF Promise!Owned, Promise!Unmake, Promise!Release, Promise!vars
  <2>5. QED
    BY <2>1, <2>2, <2>3, <2>4 DEF Promise!Next
<1>3. Promise!Owned => NoOrphan
  BY DEF Promise!Owned, NoOrphan, Life, Home
<1>4. QED
  BY <1>1, <1>2, <1>3, PTL DEF Implements, Promise!Spec
=============================================================================
