--------------------------- MODULE LifecycleProofs ---------------------------
(***************************************************************************)
(* Theorems about Lifecycle, for every Plan and every bound.                *)
(***************************************************************************)
EXTENDS Lifecycle, TLAPS

-----------------------------------------------------------------------------
(* Types.                                                                   *)

(* The values that Reconcile writes are CRs.                                *)
LEMMA NoCrType == NoCr \in CR
  BY DEF NoCr, CR, NoServices, ServicesSpec, Phases, Conditions, Marks

LEMMA ReportedType ==
  ASSUME NEW marks \in Marks, NEW step
  PROVE  Reported(marks, step) \in Marks
  BY DEF Reported, Marks

LEMMA DispatchType ==
  ASSUME NEW c
  PROVE  Dispatch(c) \in {"idle", "cleanup", "addFinalizer", "start", "namespace"}
  BY DEF Dispatch

LEMMA PlanLength == Len(Plan) \in Nat
  BY PlanAssumption

LEMMA KindCount == Len(CleanedKinds) = 6 /\ DOMAIN CleanedKinds = 1 .. 6
  BY DEF CleanedKinds

LEMMA KindSet ==
  Cleaned = {"Secret", "ConfigMap", "Deployment", "StatefulSet", "Service",
             "PersistentVolumeClaim"}
<1>1. Cleaned = {CleanedKinds[1], CleanedKinds[2], CleanedKinds[3], CleanedKinds[4],
                 CleanedKinds[5], CleanedKinds[6]}
  BY KindCount DEF Cleaned
<1>2. QED
  BY <1>1 DEF CleanedKinds

LEMMA FaultType ==
  ASSUME BudgetsOK, NEW call, Fault(call)
  PROVE  BudgetsOK'
  BY EnvironmentAssumption DEF BudgetsOK, Fault

LEMMA AcceptType ==
  ASSUME ServerOK, CachesOK, NEW new \in CR, Accept(new)
  PROVE  ServerOK' /\ CachesOK'
  BY DEF ServerOK, CachesOK, Accept

(* A write of a well-formed CR keeps the types, however it turns out.       *)
LEMMA WriteType ==
  ASSUME ServerOK, CachesOK, BudgetsOK, NEW call, NEW new \in CR,
         WriteSucceeds(new) \/ WriteFails(call, new)
  PROVE  ServerOK' /\ CachesOK' /\ BudgetsOK'
<1>1. UNCHANGED budgets => BudgetsOK'
  BY DEF BudgetsOK, budgets
<1>2. Refuse => ServerOK' /\ CachesOK'
  BY DEF Refuse, ServerOK, CachesOK, server, caches
<1>3. QED
  BY <1>1, <1>2, AcceptType, FaultType DEF WriteSucceeds, WriteFails

LEMMA SetNsType ==
  ASSUME NEW new \in NS, SetNs(new), cachedNs \in NS
  PROVE  ns' \in NS /\ cachedNs' \in NS
  BY DEF SetNs

LEMMA SetObjsType ==
  ASSUME NEW new \in SUBSET Resources, SetObjs(new), cachedObjs \subseteq Resources
  PROVE  objs' \subseteq Resources /\ cachedObjs' \subseteq Resources
  BY DEF SetObjs

LEMMA ReturnType ==
  ASSUME WorkerOK, NEW requeue \in BOOLEAN, Return(requeue)
  PROVE  WorkerOK'
<1>1. queued' \in BOOLEAN
  BY Zenon DEF Return
<1>2. 0 \in 0 .. Len(Plan) + 1
  BY PlanLength
<1>3. QED
  BY <1>1, <1>2, NoCrType DEF WorkerOK, Return, Pcs

LEMMA GotoType ==
  ASSUME WorkerOK, pc # "cleanup" \/ listed = {}, NEW next \in Pcs \ {"cleanup"},
         NEW step \in 0 .. Len(Plan) + 1, next = "plan" => step # 0, Goto(next, step)
  PROVE  WorkerOK'
  BY DEF WorkerOK, Goto

LEMMA ContinueType ==
  ASSUME WorkerOK, pc # "cleanup", NEW next \in Pcs, NEW copy \in CR,
         next # "plan", Continue(next, copy, 0)
  PROVE  WorkerOK'
<1>1. 0 \in 0 .. Len(Plan) + 1 /\ 0 \in 0 .. Len(CleanedKinds)
  BY PlanLength, KindCount
<1>2. QED
  BY <1>1 DEF WorkerOK, Continue

LEMMA FailType ==
  ASSUME WorkerOK, pc = "plan", NEW step, Fail(step)
  PROVE  WorkerOK'
<1>1. k \in 0 .. Len(Plan) + 1
  BY DEF WorkerOK
<1>2. CASE OwnedBy(step) = {}
  BY <1>1, <1>2, GotoType DEF Fail, Pcs
<1>3. CASE OwnedBy(step) # {}
  BY <1>1, <1>3, GotoType DEF Fail, Pcs
<1>4. QED
  BY <1>2, <1>3

LEMMA AdvanceType ==
  ASSUME WorkerOK, pc = "plan", k <= Len(Plan), Goto("plan", k + 1)
  PROVE  WorkerOK'
<1>1. k + 1 \in 0 .. Len(Plan) + 1 /\ k + 1 # 0
  BY PlanLength DEF WorkerOK
<1>2. QED
  BY <1>1, GotoType DEF Pcs

LEMMA InitType == Init => TypeOK
<1>1. SUFFICES ASSUME Init PROVE TypeOK
  OBVIOUS
<1>b. cacheCurrent \in BOOLEAN /\ queued \in BOOLEAN /\ cnCurrent \in BOOLEAN
  BY <1>1, Zenon DEF Init
<1>n. NoNs \in NS /\ [state |-> "active", labelled |-> FALSE] \in NS
  BY DEF NoNs, NS
<1>2. ServerOK /\ CachesOK
  BY <1>1, <1>b, <1>n, NoCrType DEF Init, ServerOK, CachesOK
<1>3. WorkerOK
  BY <1>1, <1>b, NoCrType, PlanLength DEF Init, WorkerOK, Pcs
<1>4. BudgetsOK
  BY <1>1, EnvironmentAssumption DEF Init, BudgetsOK
<1>5. QED
  BY <1>2, <1>3, <1>4 DEF TypeOK

(* The cleanup touches nothing but objects that it has listed.              *)
LEMMA CleanupFrame ==
  ASSUME cleanupClientResources
  PROVE  /\ pc = "cleanup"
         /\ UNCHANGED <<cr, ns, cachedCr, cachedNs, cacheCurrent, queued, pc, cn, cnCurrent>>
         /\ \/ /\ listed = {} /\ k < Len(CleanedKinds) /\ k' = k + 1
               /\ listed' = {r \in cachedObjs : r[1] = CleanedKinds[k']}
               /\ UNCHANGED <<objs, cachedObjs, budgets>>
            \/ \E r \in listed :
                 /\ k' = k /\ listed' = listed \ {r}
                 /\ \/ SetObjs(objs \ {r})
                    \/ "delete" \in Faulty /\ UNCHANGED <<objs, cachedObjs>>
<1>1. CASE ListKind
  BY <1>1 DEF ListKind, server, caches
<1>2. CASE DeleteListed
  BY <1>2 DEF DeleteListed, Fault
<1>3. QED
  BY <1>1, <1>2 DEF cleanupClientResources

LEMMA CleanupType == TypeOK /\ cleanupClientResources => TypeOK'
<1>1. SUFFICES ASSUME ServerOK, CachesOK, WorkerOK, BudgetsOK, cleanupClientResources
               PROVE  TypeOK'
  BY DEF TypeOK
<1>2. CASE ListKind
  <2>1. UNCHANGED <<server, caches, queued, pc, cn, cnCurrent, budgets>> /\ pc = "cleanup"
    BY <1>2 DEF ListKind
  <2>2. k' \in 0 .. Len(CleanedKinds)
    BY <1>1, <1>2, KindCount DEF ListKind, WorkerOK
  <2>3. listed' \subseteq Resources
    BY <1>1, <1>2 DEF ListKind, CachesOK
  <2>4. WorkerOK'
    BY <1>1, <2>1, <2>2, <2>3 DEF WorkerOK
  <2>5. QED
    BY <1>1, <2>1, <2>4
    DEF TypeOK, ServerOK, CachesOK, BudgetsOK, server, caches, budgets
<1>3. CASE DeleteListed
  <2>1. UNCHANGED <<cr, ns, cachedCr, cachedNs, cacheCurrent, queued, pc, cn, cnCurrent, k>>
    BY <1>3 DEF DeleteListed
  <2>2. PICK r \in listed :
          /\ pc = "cleanup" /\ listed' = listed \ {r}
          /\ SetObjs(objs \ {r}) \/ UNCHANGED <<objs, cachedObjs>>
          /\ UNCHANGED budgets \/ Fault("delete")
    BY <1>3 DEF DeleteListed
  <2>3. objs' \subseteq Resources /\ cachedObjs' \subseteq Resources
    BY <1>1, <2>2, SetObjsType DEF ServerOK, CachesOK
  <2>4. BudgetsOK'
    BY <1>1, <2>2, FaultType DEF BudgetsOK, budgets
  <2>5. WorkerOK'
    BY <1>1, <2>1, <2>2 DEF WorkerOK
  <2>6. QED
    BY <1>1, <2>1, <2>3, <2>4, <2>5 DEF TypeOK, ServerOK, CachesOK
<1>4. QED
  BY <1>1, <1>2, <1>3 DEF cleanupClientResources

LEMMA ReconcileType == TypeOK /\ Reconcile => TypeOK'
<1>1. SUFFICES ASSUME TypeOK, Reconcile PROVE TypeOK'
  OBVIOUS
<1>0. ServerOK /\ CachesOK /\ WorkerOK /\ BudgetsOK
  BY <1>1 DEF TypeOK
<1>k. 0 \in 0 .. Len(Plan) + 1 /\ 1 \in 0 .. Len(Plan) + 1 /\ 0 \in 0 .. Len(CleanedKinds)
  BY PlanLength, KindCount
<1>2. CASE Get
  <2>1. WorkerOK'
    <3>1. pc = "idle" /\ pc' = Dispatch(cachedCr) /\ queued' = FALSE
          /\ k' = 0 /\ listed' = listed
      BY <1>2 DEF Get
    <3>2. cn' \in CR /\ cnCurrent' \in BOOLEAN
      BY <1>0, <1>2 DEF Get, WorkerOK, CachesOK
    <3>3. QED
      BY <1>0, <1>k, <3>1, <3>2, DispatchType DEF WorkerOK, Pcs
  <2>2. UNCHANGED <<server, caches, budgets>>
    BY <1>2 DEF Get
  <2>3. QED
    BY <1>0, <2>1, <2>2 DEF TypeOK, ServerOK, CachesOK, BudgetsOK, server, caches, budgets
<1>3. CASE AddFinalizer
  <2> DEFINE new == [cn EXCEPT !.finalizer = TRUE]
  <2>1. new \in CR
    BY <1>0 DEF WorkerOK, CR
  <2>2. WriteSucceeds(new) \/ WriteFails("update", new)
    BY <1>3 DEF AddFinalizer
  <2>3. WorkerOK'
    <3>1. /\ pc # "cleanup"
          /\ Return(TRUE) \/ Return(FALSE) \/ Continue(Dispatch(new), new, 0)
      BY <1>3 DEF AddFinalizer, ReturnError
    <3>2. Dispatch(new) \in Pcs \ {"plan"}
      BY DispatchType DEF Pcs
    <3>3. QED
      BY <1>0, <1>k, <2>1, <3>1, <3>2, ReturnType, ContinueType
  <2>4. QED
    BY <1>0, <2>1, <2>2, <2>3, WriteType DEF TypeOK
<1>4. CASE StartProvisioning
  <2> DEFINE new == [cn EXCEPT !.phase = "Provisioning"]
  <2>1. new \in CR
    BY <1>0 DEF WorkerOK, CR, Phases
  <2>2. WriteSucceeds(new) \/ WriteFails("status", new)
    BY <1>4 DEF StartProvisioning
  <2>3. WorkerOK'
    <3>1. pc # "cleanup" /\ (Return(TRUE) \/ Continue("namespace", new, 0))
      BY <1>4 DEF StartProvisioning, ReturnError
    <3>2. QED
      BY <1>0, <1>k, <2>1, <3>1, ReturnType, ContinueType DEF Pcs
  <2>4. QED
    BY <1>0, <2>1, <2>2, <2>3, WriteType DEF TypeOK
<1>5. CASE ensureNamespace
  <2>1. WorkerOK'
    <3>1. pc # "cleanup" /\ (Goto("plan", 1) \/ Goto("setFailed", 0))
      BY <1>5 DEF ensureNamespace
    <3>2. QED
      BY <1>0, <1>k, <3>1, GotoType DEF Pcs
  <2>2. ns' \in NS /\ cachedNs' \in NS
    <3> DEFINE made == [state |-> "active", labelled |-> TRUE]
    <3>1. made \in NS
      BY DEF NS
    <3>2. SetNs(made) \/ UNCHANGED <<ns, cachedNs>>
      BY <1>5 DEF ensureNamespace
    <3>3. QED
      BY <1>0, <3>1, <3>2, SetNsType DEF ServerOK, CachesOK
  <2>3. BudgetsOK'
    <3>1. UNCHANGED budgets \/ Fault("nsGet") \/ Fault("create")
      BY <1>5 DEF ensureNamespace
    <3>2. QED
      BY <1>0, <3>1, FaultType DEF BudgetsOK, budgets
  <2>4. UNCHANGED <<cr, objs, cachedCr, cachedObjs, cacheCurrent>>
    BY <1>5 DEF ensureNamespace
  <2>5. QED
    BY <1>0, <2>1, <2>2, <2>3, <2>4 DEF TypeOK, ServerOK, CachesOK
<1>6. CASE SkipStep \/ FindObject \/ ReadObject
  <2>1. UNCHANGED <<server, caches, budgets>>
    BY <1>6 DEF SkipStep, FindObject, ReadObject
  <2>2. pc = "plan" /\ k <= Len(Plan)
    BY <1>6 DEF SkipStep, FindObject, ReadObject, AtStep
  <2>3. Goto("plan", k + 1) \/ Fail(Plan[k]) \/ Return(TRUE)
    BY <1>6 DEF SkipStep, FindObject, ReadObject, ReturnError
  <2>4. WorkerOK'
    BY <1>0, <2>2, <2>3, AdvanceType, FailType, ReturnType
  <2>5. QED
    BY <1>0, <2>1, <2>4 DEF TypeOK, ServerOK, CachesOK, BudgetsOK, server, caches, budgets
<1>7. CASE CreateObject
  <2>1. pc = "plan" /\ k <= Len(Plan) /\ k \in DOMAIN Plan
    <3>1. pc = "plan" /\ k <= Len(Plan)
      BY <1>7 DEF CreateObject, Creating, AtStep
    <3>2. k \in 1 .. Len(Plan)
      BY <1>0, <3>1, PlanLength DEF WorkerOK
    <3>3. QED
      BY <3>1, <3>2, PlanAssumption
  <2>2. WorkerOK'
    <3>1. Goto("plan", k + 1) \/ Fail(Plan[k])
      BY <1>7 DEF CreateObject
    <3>2. QED
      BY <1>0, <2>1, <3>1, AdvanceType, FailType
  <2>3. objs' \subseteq Resources /\ cachedObjs' \subseteq Resources
    <3>1. Plan[k].res \in Resources
      BY <2>1 DEF Resources
    <3>2. objs \cup {Plan[k].res} \in SUBSET Resources
      BY <1>0, <3>1 DEF ServerOK
    <3>3. SetObjs(objs \cup {Plan[k].res}) \/ UNCHANGED <<objs, cachedObjs>>
      BY <1>7 DEF CreateObject
    <3>4. QED
      BY <1>0, <3>2, <3>3, SetObjsType DEF ServerOK, CachesOK
  <2>4. BudgetsOK'
    <3>1. UNCHANGED budgets \/ Fault("create")
      BY <1>7 DEF CreateObject
    <3>2. QED
      BY <1>0, <3>1, FaultType DEF BudgetsOK, budgets
  <2>5. UNCHANGED <<cr, ns, cachedCr, cachedNs, cacheCurrent>>
    BY <1>7 DEF CreateObject
  <2>6. QED
    BY <1>0, <2>2, <2>3, <2>4, <2>5 DEF TypeOK, ServerOK, CachesOK
<1>8. CASE ServiceFailed
  <2> DEFINE new == [cn EXCEPT !.marks =
                [n \in StatusNames |-> IF n \in OwnedBy(Plan[k]) THEN "failed"
                                       ELSE Reported(cn.marks, k)[n]]]
  <2>1. new \in CR
    <3>1. cn \in CR /\ cn.marks \in Marks
      BY <1>0 DEF WorkerOK, CR
    <3>2. Reported(cn.marks, k) \in Marks
      BY <3>1, ReportedType
    <3>3. [n \in StatusNames |-> IF n \in OwnedBy(Plan[k]) THEN "failed"
                                 ELSE Reported(cn.marks, k)[n]] \in Marks
      BY <3>2 DEF Marks
    <3>4. QED
      BY <3>1, <3>3 DEF CR
  <2>2. WriteSucceeds(new) \/ WriteFails("status", new)
    BY <1>8 DEF ServiceFailed
  <2>3. cnCurrent' \in BOOLEAN
    BY <1>0, <1>8, Zenon DEF ServiceFailed, WorkerOK
  <2>4. /\ pc = "serviceFailed" /\ pc' = "setFailed" /\ cn' = new
        /\ UNCHANGED <<queued, k, listed>>
    BY <1>8 DEF ServiceFailed
  <2>5. WorkerOK'
    BY <1>0, <2>1, <2>3, <2>4 DEF WorkerOK, Pcs
  <2>6. QED
    BY <1>0, <2>1, <2>2, <2>5, WriteType DEF TypeOK
<1>9. CASE setFailed
  <2> DEFINE new == FailedStatus([cn EXCEPT !.marks = Reported(@, k)])
  <2>1. new \in CR
    <3>1. cn \in CR /\ Reported(cn.marks, k) \in Marks
      BY <1>0, ReportedType DEF WorkerOK, CR
    <3>2. QED
      BY <3>1 DEF CR, FailedStatus, Phases, Conditions
  <2>2. (WriteSucceeds(new) \/ WriteFails("status", new)) /\ Return(TRUE)
    BY <1>9 DEF setFailed, ReturnError
  <2>3. QED
    BY <1>0, <2>1, <2>2, WriteType, ReturnType DEF TypeOK
<1>10. CASE MarkReady
  <2> DEFINE new == ReadyStatus([cn EXCEPT !.marks = Reported(@, k)])
  <2>1. Return(TRUE) \/ Return(FALSE)
    BY <1>10 DEF MarkReady, ReturnError
  <2>2. WriteSucceeds(new) \/ WriteFails("status", new)
    BY <1>10 DEF MarkReady
  <2>3. CASE Valid(new)
    <3>1. cn \in CR /\ Reported(cn.marks, k) \in Marks
      BY <1>0, ReportedType DEF WorkerOK, CR
    <3>2. new.conditions = Append(cn.conditions, "True")
      BY <3>1 DEF CR, ReadyStatus
    <3>3. cn.conditions = <<>>
      BY <2>3, <3>1, <3>2 DEF Valid, CR, Conditions
    <3>4. new.conditions \in Conditions
      <4>1. Append(<<>>, "True") = <<"True">>
        OBVIOUS
      <4>2. new.conditions = <<"True">>
        BY <3>2, <3>3, <4>1
      <4>3. QED
        BY <4>2 DEF Conditions
    <3>5. new \in CR
      BY <3>1, <3>2, <3>4 DEF CR, ReadyStatus, Phases
    <3>6. QED
      BY <1>0, <2>1, <2>2, <3>5, WriteType, ReturnType DEF TypeOK
  <2>4. CASE ~Valid(new)
    <3>1. UNCHANGED <<server, caches>>
      BY <2>2, <2>4 DEF WriteSucceeds, WriteFails, Accept, Refuse
    <3>2. UNCHANGED budgets \/ Fault("status")
      BY <2>2 DEF WriteSucceeds, WriteFails
    <3>3. BudgetsOK'
      BY <1>0, <3>2, FaultType DEF BudgetsOK, budgets
    <3>4. QED
      BY <1>0, <2>1, <3>1, <3>3, ReturnType
      DEF TypeOK, ServerOK, CachesOK, server, caches
  <2>5. QED
    BY <2>3, <2>4
<1>11. CASE cleanupClientResources
  BY <1>0, <1>11, CleanupType DEF TypeOK
<1>12. CASE deleteNamespace
  <2>1. (Goto("removeFinalizer", 0) \/ Return(TRUE)) /\ listed = {}
    BY <1>12 DEF deleteNamespace, ReturnError, CleanedUp
  <2>2. WorkerOK'
    BY <1>0, <1>k, <2>1, GotoType, ReturnType DEF Pcs
  <2>3. ns' \in NS /\ cachedNs' \in NS
    <3>1. Terminated(ns) \in NS
      BY <1>0 DEF Terminated, ServerOK, NS
    <3>2. SetNs(Terminated(ns)) \/ UNCHANGED <<ns, cachedNs>>
      BY <1>12 DEF deleteNamespace
    <3>3. QED
      BY <1>0, <3>1, <3>2, SetNsType DEF ServerOK, CachesOK
  <2>4. BudgetsOK'
    <3>1. UNCHANGED budgets \/ Fault("delete") \/ Fault("nsGet")
      BY <1>12 DEF deleteNamespace
    <3>2. QED
      BY <1>0, <3>1, FaultType DEF BudgetsOK, budgets
  <2>5. UNCHANGED <<cr, objs, cachedCr, cachedObjs, cacheCurrent>>
    BY <1>12 DEF deleteNamespace
  <2>6. QED
    BY <1>0, <2>2, <2>3, <2>4, <2>5 DEF TypeOK, ServerOK, CachesOK
<1>13. CASE RemoveFinalizer
  <2>1. Return(TRUE) \/ Return(FALSE)
    BY <1>13 DEF RemoveFinalizer, ReturnError
  <2>2. WriteSucceeds(NoCr) \/ WriteFails("update", NoCr)
    BY <1>13 DEF RemoveFinalizer
  <2>3. QED
    BY <1>0, <2>1, <2>2, NoCrType, WriteType, ReturnType DEF TypeOK
<1>14. QED
  BY <1>1, <1>2, <1>3, <1>4, <1>5, <1>6, <1>7, <1>8, <1>9, <1>10, <1>11, <1>12, <1>13
  DEF Reconcile

LEMMA DeliverType == TypeOK /\ Deliver => TypeOK'
<1>1. SUFFICES ASSUME TypeOK, Deliver PROVE TypeOK'
  OBVIOUS
<1>2. ServerOK /\ CachesOK /\ WorkerOK /\ BudgetsOK
  BY <1>1 DEF TypeOK
<1>3. CASE DeliverCr
  BY <1>2, <1>3
  DEF TypeOK, ServerOK, CachesOK, WorkerOK, BudgetsOK, DeliverCr, server, budgets
<1>4. CASE DeliverNs
  BY <1>2, <1>4
  DEF TypeOK, ServerOK, CachesOK, WorkerOK, BudgetsOK, DeliverNs, server, worker, budgets
<1>5. CASE \E r \in Resources : DeliverObj(r)
  <2>1. PICK r \in Resources : DeliverObj(r)
    BY <1>5
  <2>2. cachedObjs' \subseteq Resources
    BY <1>2, <2>1 DEF DeliverObj, CachesOK
  <2>3. UNCHANGED <<server, cachedCr, cachedNs, cacheCurrent, worker, budgets>>
    BY <2>1 DEF DeliverObj
  <2>4. QED
    BY <1>2, <2>2, <2>3
    DEF TypeOK, ServerOK, CachesOK, WorkerOK, BudgetsOK, server, worker, budgets
<1>6. QED
  BY <1>1, <1>3, <1>4, <1>5 DEF Deliver

LEMMA UserWritesType ==
  ASSUME ServerOK, CachesOK, WorkerOK, BudgetsOK, NEW new \in CR, UserWrites(new)
  PROVE  ServerOK' /\ CachesOK' /\ WorkerOK'
  BY DEF ServerOK, CachesOK, WorkerOK, UserWrites

LEMMA EnvironmentType == TypeOK /\ Environment => TypeOK'
<1>1. SUFFICES ASSUME TypeOK, Environment PROVE TypeOK'
  OBVIOUS
<1>2. ServerOK /\ CachesOK /\ WorkerOK /\ BudgetsOK
  BY <1>1 DEF TypeOK
<1>3. CASE Restart
  <2>1. queued' \in BOOLEAN
    BY <1>2, <1>3 DEF Restart, ServerOK, CR
  <2>2. WorkerOK'
    <3>1. 0 \in 0 .. Len(Plan) + 1 /\ "idle" \in Pcs /\ cnCurrent' \in BOOLEAN
      <4>1. 0 \in 0 .. Len(Plan) + 1
        BY PlanLength
      <4>2. "idle" \in Pcs
        BY DEF Pcs
      <4>3. cnCurrent' \in BOOLEAN
        BY <1>3, Zenon DEF Restart
      <4>4. QED
        BY <4>1, <4>2, <4>3
    <3>2. pc' = "idle" /\ cn' = NoCr /\ k' = 0 /\ listed' = {}
      BY <1>3 DEF Restart
    <3>3. QED
      BY <2>1, <3>1, <3>2, NoCrType DEF WorkerOK
  <2>3. ServerOK' /\ CachesOK'
    BY <1>2, <1>3 DEF Restart, ServerOK, CachesOK, server
  <2>4. BudgetsOK'
    BY <1>2, <1>3, EnvironmentAssumption DEF Restart, BudgetsOK
  <2>5. QED
    BY <2>2, <2>3, <2>4 DEF TypeOK
<1>4. CASE ApplyCr
  <2>1. PICK services \in Manifests : UserWrites(NewCr(services))
    BY <1>4 DEF ApplyCr
  <2>2. NewCr(services) \in CR
    BY <2>1, NoCrType, ManifestsAssumption DEF NewCr, CR
  <2>3. BudgetsOK'
    BY <1>2, <1>4, <2>1, EnvironmentAssumption DEF ApplyCr, BudgetsOK, UserWrites
  <2>4. QED
    BY <1>2, <2>1, <2>2, <2>3, UserWritesType DEF TypeOK
<1>5. CASE EditSpec
  <2>1. PICK services \in Manifests : UserWrites([cr EXCEPT !.services = services])
    BY <1>5 DEF EditSpec
  <2>2. [cr EXCEPT !.services = services] \in CR
    BY <1>2, <2>1, ManifestsAssumption DEF ServerOK, CR
  <2>3. BudgetsOK'
    BY <1>2, <1>5, <2>1, EnvironmentAssumption DEF EditSpec, BudgetsOK, UserWrites
  <2>4. QED
    BY <1>2, <2>1, <2>2, <2>3, UserWritesType DEF TypeOK
<1>6. CASE DeleteCr
  <2>1. PICK new \in CR : UserWrites(new)
    <3>1. [cr EXCEPT !.deleting = TRUE] \in CR
      BY <1>2 DEF ServerOK, CR
    <3>2. QED
      BY <1>6, <3>1, NoCrType DEF DeleteCr
  <2>2. BudgetsOK'
    BY <1>2, <1>6, <2>1 DEF DeleteCr, BudgetsOK, UserWrites
  <2>3. QED
    BY <1>2, <2>1, <2>2, UserWritesType DEF TypeOK
<1>7. CASE EmptyNamespace
  <2>1. PICK r \in objs : SetObjs(objs \ {r})
    BY <1>7 DEF EmptyNamespace
  <2>2. objs' \subseteq Resources /\ cachedObjs' \subseteq Resources
    BY <1>2, <2>1, SetObjsType DEF ServerOK, CachesOK
  <2>3. UNCHANGED <<cr, ns, cachedCr, cachedNs, cacheCurrent, worker, budgets>>
    BY <1>7 DEF EmptyNamespace
  <2>4. QED
    BY <1>2, <2>2, <2>3
    DEF TypeOK, ServerOK, CachesOK, WorkerOK, BudgetsOK, worker, budgets
<1>8. CASE DropNamespace
  <2>1. NoNs \in NS
    BY DEF NoNs, NS
  <2>2. ns' \in NS /\ cachedNs' \in NS
    BY <1>2, <1>8, <2>1, SetNsType DEF DropNamespace, CachesOK
  <2>3. UNCHANGED <<cr, objs, cachedCr, cachedObjs, cacheCurrent, worker, budgets>>
    BY <1>8 DEF DropNamespace
  <2>4. QED
    BY <1>2, <2>2, <2>3
    DEF TypeOK, ServerOK, CachesOK, WorkerOK, BudgetsOK, worker, budgets
<1>9. QED
  BY <1>1, <1>3, <1>4, <1>5, <1>6, <1>7, <1>8 DEF Environment

LEMMA NextType == TypeOK /\ [Next]_vars => TypeOK'
<1>1. TypeOK /\ UNCHANGED vars => TypeOK'
  BY DEF TypeOK, ServerOK, CachesOK, WorkerOK, BudgetsOK, vars, server, caches,
         worker, budgets
<1>2. QED
  BY <1>1, ReconcileType, DeliverType, EnvironmentType DEF Next

(* Every state variable keeps its type: the records written to the API      *)
(* server are CRs, and the step of the Plan stays within it.                *)
THEOREM TypeCorrect == Spec => []TypeOK
  BY InitType, NextType, PTL DEF Spec
=============================================================================
