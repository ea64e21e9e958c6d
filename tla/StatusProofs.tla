---------------------------- MODULE StatusProofs ----------------------------
(***************************************************************************)
(* What Lifecycle says of the status of the CR and of the workqueue, proved *)
(* for every Plan, every lag of the informers of namespaces and objects and *)
(* every sequence of failures.                                              *)
(***************************************************************************)
EXTENDS LifecycleProofs

(* A cache with the resourceVersion of the CR shows the CR.                 *)
CacheInv == cacheCurrent => cachedCr = cr

Failing      == {"serviceFailed", "setFailed"}
Provisioning == {"namespace", "plan"} \cup Failing
Deleting     == {"cleanup", "removeFinalizer"}

(* What the pass knows of the CR: a copy with its resourceVersion is the CR,*)
(* but for what ServiceFailed could not store, and it has a phase that the  *)
(* code at pc can meet.                                                     *)
CopyInv ==
  /\ pc = "idle" => ~cnCurrent
  /\ cnCurrent /\ pc # "setFailed" => cn = cr
  /\ cnCurrent /\ pc = "setFailed" => cn = [cr EXCEPT !.marks = cn.marks]
  /\ pc = "start" => cn.phase = ""
  /\ pc \in Provisioning => cn.phase \in {"Provisioning", "Failed"}

Coherent(c) ==
  c.conditions = CASE c.phase = "Ready"  -> <<"True">>
                   [] c.phase = "Failed" -> <<"False">>
                   [] OTHER              -> <<>>

NoFailure(c) == c.phase = "Ready" => \A n \in StatusNames : c.marks[n] = "ready"

StatusInv == CacheInv /\ CopyInv /\ Coherent(cr) /\ NoFailure(cr)

PhaseStep(c, d) ==
  c.exists /\ d.exists /\ d.phase # c.phase =>
    <<c.phase, d.phase>> \in {<<"", "Provisioning">>, <<"Provisioning", "Failed">>,
                              <<"Provisioning", "Ready">>, <<"Failed", "Ready">>}

-----------------------------------------------------------------------------
(* The shapes of the steps.                                                 *)

(* Whatever a write does, a stored CR is the one the pass meant to store.   *)
LEMMA WriteOutcome ==
  ASSUME NEW call, NEW new, WriteSucceeds(new) \/ WriteFails(call, new)
  PROVE  \/ cr' = cr /\ cachedCr' = cachedCr /\ cacheCurrent' = cacheCurrent
         \/ /\ cnCurrent /\ Valid(new)
            /\ cr' = new /\ cachedCr' = cachedCr /\ cacheCurrent' = FALSE
  BY DEF WriteSucceeds, WriteFails, Accept, Refuse, server, caches

LEMMA WriteStatus ==
  ASSUME StatusInv, NEW call, NEW new, WriteSucceeds(new) \/ WriteFails(call, new),
         cnCurrent /\ Valid(new) => Coherent(new) /\ NoFailure(new) /\ PhaseStep(cr, new)
  PROVE  CacheInv' /\ Coherent(cr') /\ NoFailure(cr') /\ PhaseStep(cr, cr')
<1>1. PhaseStep(cr, cr)
  BY DEF PhaseStep
<1>2. QED
  BY <1>1, WriteOutcome DEF StatusInv, CacheInv

LEMMA ReturnCopy ==
  ASSUME NEW requeue, Return(requeue)
  PROVE  CopyInv'
  BY DEF Return, CopyInv, Provisioning, Failing

LEMMA WriteAndReturn ==
  ASSUME StatusInv, NEW call, NEW new, WriteSucceeds(new) \/ WriteFails(call, new),
         cnCurrent /\ Valid(new) => Coherent(new) /\ NoFailure(new) /\ PhaseStep(cr, new),
         NEW requeue, Return(requeue)
  PROVE  StatusInv' /\ PhaseStep(cr, cr')
<1>1. CacheInv' /\ Coherent(cr') /\ NoFailure(cr') /\ PhaseStep(cr, cr')
  BY WriteStatus
<1>2. CopyInv'
  BY ReturnCopy
<1>3. QED
  BY <1>1, <1>2 DEF StatusInv

(* Steps that leave the CR and its copies alone.                            *)
LEMMA QuietStep ==
  ASSUME TypeOK, StatusInv, cr' = cr, cachedCr' = cachedCr, cacheCurrent' = cacheCurrent,
         \/ \E requeue : Return(requeue)
         \/ \E next, step :
              Goto(next, step) /\ pc \in {"namespace", "plan"} /\ next \in Provisioning
         \/ pc \in Deleting /\ pc' \in Deleting /\ UNCHANGED <<cn, cnCurrent>>
  PROVE  StatusInv' /\ PhaseStep(cr, cr')
<1>1. CacheInv' /\ Coherent(cr') /\ NoFailure(cr') /\ PhaseStep(cr, cr')
  BY DEF StatusInv, CacheInv, PhaseStep
<1>2. CASE \E requeue : Return(requeue)
  BY <1>1, <1>2, ReturnCopy DEF StatusInv
<1>3. ASSUME NEW next, NEW step, Goto(next, step),
             pc \in {"namespace", "plan"}, next \in Provisioning
      PROVE  CopyInv'
  <2>1. cn.phase \in {"Provisioning", "Failed"} /\ (cnCurrent => cn = cr)
    BY <1>3 DEF StatusInv, CopyInv, Provisioning, Failing
  <2>2. cnCurrent => cn = [cr EXCEPT !.marks = cn.marks]
    BY <2>1 DEF TypeOK, ServerOK, CR
  <2>3. cn' = cn /\ cnCurrent' = cnCurrent /\ pc' \in Provisioning
    BY <1>3 DEF Goto
  <2>4. QED
    BY <2>1, <2>2, <2>3 DEF CopyInv, Provisioning, Failing
<1>4. ASSUME pc \in Deleting, pc' \in Deleting, UNCHANGED <<cn, cnCurrent>>
      PROVE  CopyInv'
  BY <1>4 DEF StatusInv, CopyInv, Provisioning, Failing, Deleting
<1>5. QED
  BY <1>1, <1>2, <1>3, <1>4 DEF StatusInv

LEMMA FailGoto ==
  ASSUME NEW step, Fail(step)
  PROVE  \E next \in Failing : Goto(next, k)
  BY DEF Fail, Failing

-----------------------------------------------------------------------------
(* The worker's steps.                                                      *)

LEMMA GetStatus ==
  ASSUME TypeOK, StatusInv, Get
  PROVE  StatusInv' /\ PhaseStep(cr, cr')
<1>1. cr' = cr /\ cachedCr' = cachedCr /\ cacheCurrent' = cacheCurrent
  BY DEF Get, server, caches
<1>2. CacheInv' /\ Coherent(cr') /\ NoFailure(cr') /\ PhaseStep(cr, cr')
  BY <1>1 DEF StatusInv, CacheInv, PhaseStep
<1>3. CASE pc' = "idle"
  <2>1. ~cnCurrent'
    BY <1>3 DEF Get, StatusInv, CopyInv
  <2>2. QED
    BY <1>2, <1>3, <2>1 DEF StatusInv, CopyInv, Provisioning, Failing
<1>4. CASE pc' # "idle"
  <2>1. cn' = cachedCr /\ cnCurrent' = cacheCurrent /\ pc' = Dispatch(cachedCr)
    BY <1>4 DEF Get
  <2>2. cnCurrent' => cn' = cr'
    BY <1>1, <2>1 DEF StatusInv, CacheInv
  <2>3. pc' # "setFailed"
    BY <2>1 DEF Dispatch
  <2>4. /\ pc' = "start" => cn'.phase = ""
        /\ pc' \in Provisioning => cn'.phase \in {"Provisioning", "Failed"}
    <3>1. cachedCr.phase \in Phases
      BY DEF TypeOK, CachesOK, CR
    <3>2. QED
      BY <2>1, <3>1 DEF Dispatch, Provisioning, Failing, Phases
  <2>5. CopyInv'
    BY <1>4, <2>2, <2>3, <2>4 DEF CopyInv
  <2>6. QED
    BY <1>2, <2>5 DEF StatusInv
<1>5. QED
  BY <1>3, <1>4

LEMMA AddFinalizerStatus ==
  ASSUME TypeOK, StatusInv, AddFinalizer
  PROVE  StatusInv' /\ PhaseStep(cr, cr')
<1> DEFINE new == [cn EXCEPT !.finalizer = TRUE]
<1>1. cn \in CR
  BY DEF TypeOK, WorkerOK
<1>2. new.phase = cn.phase /\ new.conditions = cn.conditions /\ new.marks = cn.marks
  BY <1>1 DEF CR
<1>3. cnCurrent => Coherent(new) /\ NoFailure(new) /\ PhaseStep(cr, new)
  <2>1. cnCurrent => cn = cr
    BY DEF AddFinalizer, StatusInv, CopyInv
  <2>2. QED
    BY <1>2, <2>1 DEF StatusInv, Coherent, NoFailure, PhaseStep
<1>4. CASE \E requeue : Return(requeue)
  <2>1. WriteSucceeds(new) \/ WriteFails("update", new)
    BY DEF AddFinalizer
  <2>2. QED
    BY <1>3, <1>4, <2>1, WriteAndReturn
<1>5. CASE WriteSucceeds(new) /\ Continue(Dispatch(new), new, 0) /\ Dispatch(new) # "idle"
  <2>1. CacheInv' /\ Coherent(cr') /\ NoFailure(cr') /\ PhaseStep(cr, cr')
    BY <1>3, <1>5, WriteStatus
  <2>2. cr' = new /\ cn' = new /\ pc' = Dispatch(new)
    BY <1>5 DEF WriteSucceeds, Accept, Continue
  <2>3. /\ pc' = "start" => cn'.phase = ""
        /\ pc' \in Provisioning => cn'.phase \in {"Provisioning", "Failed"}
        /\ pc' # "setFailed" /\ pc' # "idle"
    <3>1. new.phase \in Phases
      BY <1>1, <1>2 DEF CR
    <3>2. QED
      BY <1>5, <2>2, <3>1 DEF Dispatch, Provisioning, Failing, Phases
  <2>4. CopyInv'
    BY <2>2, <2>3 DEF CopyInv
  <2>5. QED
    BY <2>1, <2>4 DEF StatusInv
<1>6. QED
  BY <1>4, <1>5 DEF AddFinalizer, ReturnError

LEMMA StartStatus ==
  ASSUME TypeOK, StatusInv, StartProvisioning
  PROVE  StatusInv' /\ PhaseStep(cr, cr')
<1> DEFINE new == [cn EXCEPT !.phase = "Provisioning"]
<1>1. cn \in CR
  BY DEF TypeOK, WorkerOK
<1>2. cnCurrent => Coherent(new) /\ NoFailure(new) /\ PhaseStep(cr, new)
  <2>1. cn.phase = "" /\ (cnCurrent => cn = cr)
    BY DEF StartProvisioning, StatusInv, CopyInv
  <2>2. new.phase = "Provisioning" /\ new.conditions = cn.conditions
    BY <1>1 DEF CR
  <2>3. QED
    BY <2>1, <2>2 DEF StatusInv, Coherent, NoFailure, PhaseStep
<1>3. CASE WriteSucceeds(new) /\ Continue("namespace", new, 0)
  <2>1. CacheInv' /\ Coherent(cr') /\ NoFailure(cr') /\ PhaseStep(cr, cr')
    BY <1>2, <1>3, WriteStatus
  <2>2. cr' = new /\ cn' = new /\ pc' = "namespace"
    BY <1>3 DEF WriteSucceeds, Accept, Continue
  <2>3. new.phase = "Provisioning"
    BY <1>1 DEF CR
  <2>4. CopyInv'
    BY <2>2, <2>3 DEF CopyInv
  <2>5. QED
    BY <2>1, <2>4 DEF StatusInv
<1>4. CASE WriteFails("status", new) /\ ReturnError
  BY <1>2, <1>4, WriteAndReturn DEF ReturnError
<1>5. QED
  BY <1>3, <1>4 DEF StartProvisioning

LEMMA ServiceFailedStatus ==
  ASSUME TypeOK, StatusInv, ServiceFailed
  PROVE  StatusInv' /\ PhaseStep(cr, cr')
<1> DEFINE marks == [n \in StatusNames |-> IF n \in OwnedBy(Plan[k]) THEN "failed"
                                           ELSE Reported(cn.marks, k)[n]]
           new == [cn EXCEPT !.marks = marks]
<1>1. cn \in CR /\ cr \in CR
  BY DEF TypeOK, WorkerOK, ServerOK
<1>2. WriteSucceeds(new) \/ WriteFails("status", new)
  BY DEF ServiceFailed
<1>3. new.phase = cn.phase /\ new.conditions = cn.conditions /\ new.marks = marks
  BY <1>1 DEF CR
<1>4. cn.phase \in {"Provisioning", "Failed"} /\ (cnCurrent => cn = cr)
  BY DEF ServiceFailed, StatusInv, CopyInv, Provisioning, Failing
<1>5. cnCurrent => Coherent(new) /\ NoFailure(new) /\ PhaseStep(cr, new)
  BY <1>3, <1>4 DEF StatusInv, Coherent, NoFailure, PhaseStep
<1>6. CacheInv' /\ Coherent(cr') /\ NoFailure(cr') /\ PhaseStep(cr, cr')
  BY <1>2, <1>5, WriteStatus
<1>7. pc' = "setFailed" /\ cn' = new
  BY DEF ServiceFailed
<1>8. cnCurrent' => cn' = [cr' EXCEPT !.marks = cn'.marks]
  <2>1. cnCurrent' => cnCurrent /\ (cr' = cr \/ cr' = new)
    BY DEF ServiceFailed, WriteSucceeds, Accept
  <2>2. cnCurrent => new = [cr EXCEPT !.marks = marks]
    BY <1>4
  <2>3. new = [new EXCEPT !.marks = marks]
    BY <1>1 DEF CR
  <2>4. QED
    BY <1>3, <1>7, <2>1, <2>2, <2>3
<1>9. CopyInv'
  BY <1>3, <1>4, <1>7, <1>8 DEF CopyInv
<1>10. QED
  BY <1>6, <1>9 DEF StatusInv

LEMMA setFailedStatus ==
  ASSUME TypeOK, StatusInv, setFailed
  PROVE  StatusInv' /\ PhaseStep(cr, cr')
<1> DEFINE new == FailedStatus([cn EXCEPT !.marks = Reported(@, k)])
<1>1. cn \in CR /\ cr \in CR
  BY DEF TypeOK, WorkerOK, ServerOK
<1>2. new.phase = "Failed" /\ new.conditions = <<"False">>
  BY <1>1 DEF FailedStatus, CR
<1>3. cnCurrent => cr.phase \in {"Provisioning", "Failed"}
  <2>1. cn.phase \in {"Provisioning", "Failed"}
        /\ (cnCurrent => cn = [cr EXCEPT !.marks = cn.marks])
    BY DEF setFailed, StatusInv, CopyInv, Provisioning, Failing
  <2>2. [cr EXCEPT !.marks = cn.marks].phase = cr.phase
    BY <1>1 DEF CR
  <2>3. QED
    BY <2>1, <2>2
<1>4. cnCurrent => Coherent(new) /\ NoFailure(new) /\ PhaseStep(cr, new)
  BY <1>2, <1>3 DEF Coherent, NoFailure, PhaseStep
<1>5. QED
  BY <1>4, WriteAndReturn DEF setFailed, ReturnError

LEMMA MarkReadyStatus ==
  ASSUME TypeOK, StatusInv, MarkReady
  PROVE  StatusInv' /\ PhaseStep(cr, cr')
<1> DEFINE new == ReadyStatus([cn EXCEPT !.marks = Reported(@, k)])
<1>1. cn \in CR
  BY DEF TypeOK, WorkerOK
<1>2. /\ new.phase = "Ready" /\ new.conditions = Append(cn.conditions, "True")
      /\ new.marks = Reported(cn.marks, k)
  BY <1>1 DEF ReadyStatus, CR
<1>3. cn.phase \in {"Provisioning", "Failed"} /\ (cnCurrent => cn = cr)
  BY DEF MarkReady, StatusInv, CopyInv, Provisioning, Failing
<1>4. Valid(new) => cn.conditions = <<>>
  BY <1>1, <1>2 DEF Valid, CR, Conditions
<1>5. cnCurrent /\ Valid(new) => Coherent(new)
  <2>1. Append(<<>>, "True") = <<"True">>
    OBVIOUS
  <2>2. QED
    BY <1>2, <1>4, <2>1 DEF Coherent
<1>6. NoFailure(new)
  <2>1. \A i \in DOMAIN Services : Passed(i, k)
    <3>1. k > Len(Plan) /\ k \in Nat
      BY DEF MarkReady, TypeOK, WorkerOK
    <3>2. \A j \in DOMAIN Plan : j < k
      BY <3>1, PlanAssumption
    <3>3. QED
      BY <3>2 DEF Passed
  <2>2. \A n \in StatusNames : Reported(cn.marks, k)[n] = "ready"
    BY <2>1 DEF Reported, StatusNames
  <2>3. QED
    BY <1>2, <2>2 DEF NoFailure
<1>7. cnCurrent /\ Valid(new) => PhaseStep(cr, new)
  <2>1. cnCurrent /\ Valid(new) => cr.phase = "Provisioning"
    <3>1. <<>> # <<"False">>
      OBVIOUS
    <3>2. QED
      BY <1>3, <1>4, <3>1 DEF StatusInv, Coherent
  <2>2. QED
    BY <1>2, <2>1 DEF PhaseStep
<1>8. QED
  BY <1>5, <1>6, <1>7, WriteAndReturn DEF MarkReady, ReturnError

LEMMA RemoveFinalizerStatus ==
  ASSUME TypeOK, StatusInv, RemoveFinalizer
  PROVE  StatusInv' /\ PhaseStep(cr, cr')
<1>1. Coherent(NoCr) /\ NoFailure(NoCr) /\ PhaseStep(cr, NoCr)
  BY DEF NoCr, Coherent, NoFailure, PhaseStep
<1>2. QED
  BY <1>1, WriteAndReturn DEF RemoveFinalizer, ReturnError

LEMMA ReconcileStatus ==
  ASSUME TypeOK, StatusInv, Reconcile
  PROVE  StatusInv' /\ PhaseStep(cr, cr')
<1>1. CASE ensureNamespace
  <2>1. pc \in {"namespace", "plan"} /\ UNCHANGED <<cr, cachedCr, cacheCurrent>>
    BY <1>1 DEF ensureNamespace
  <2>2. \E next \in Provisioning : \E step : Goto(next, step)
    BY <1>1 DEF ensureNamespace, Provisioning, Failing
  <2>3. QED
    BY <2>1, <2>2, QuietStep
<1>2. CASE SkipStep \/ FindObject \/ ReadObject \/ CreateObject
  <2>1. pc \in {"namespace", "plan"}
    BY <1>2 DEF SkipStep, FindObject, ReadObject, CreateObject, Creating, AtStep
  <2>2. UNCHANGED <<cr, cachedCr, cacheCurrent>>
    BY <1>2 DEF SkipStep, FindObject, ReadObject, CreateObject, server, caches
  <2>3. Goto("plan", k + 1) \/ Fail(Plan[k]) \/ Return(TRUE)
    BY <1>2 DEF SkipStep, FindObject, ReadObject, CreateObject, ReturnError
  <2>4. \/ \E requeue : Return(requeue)
        \/ \E next \in Provisioning : \E step : Goto(next, step)
    BY <2>3, FailGoto DEF Provisioning
  <2>5. QED
    BY <2>1, <2>2, <2>4, QuietStep
<1>3. CASE cleanupClientResources
  BY <1>3, CleanupFrame, QuietStep DEF Deleting
<1>4. CASE deleteNamespace
  <2>1. pc \in Deleting /\ UNCHANGED <<cr, cachedCr, cacheCurrent>>
    BY <1>4 DEF deleteNamespace, CleanedUp, Deleting
  <2>2. Goto("removeFinalizer", 0) \/ Return(TRUE)
    BY <1>4 DEF deleteNamespace, ReturnError
  <2>3. \/ \E requeue : Return(requeue)
        \/ pc' \in Deleting /\ UNCHANGED <<cn, cnCurrent>>
    BY <2>2 DEF Deleting, Goto
  <2>4. QED
    BY <2>1, <2>3, QuietStep
<1>5. QED
  BY <1>1, <1>2, <1>3, <1>4, GetStatus, AddFinalizerStatus, StartStatus, ServiceFailedStatus,
     setFailedStatus, MarkReadyStatus, RemoveFinalizerStatus DEF Reconcile

-----------------------------------------------------------------------------
(* The other steps.                                                         *)

(* A user takes the resourceVersion from the pass, and no phase with it.    *)
LEMMA UserWritesStatus ==
  ASSUME StatusInv, NEW new, UserWrites(new), Coherent(new), NoFailure(new),
         PhaseStep(cr, new)
  PROVE  StatusInv' /\ PhaseStep(cr, cr')
<1>1. CopyInv'
  BY DEF UserWrites, StatusInv, CopyInv
<1>2. QED
  BY <1>1 DEF UserWrites, StatusInv, CacheInv

LEMMA EnvironmentStatus ==
  ASSUME TypeOK, StatusInv, Environment
  PROVE  StatusInv' /\ PhaseStep(cr, cr')
<1>1. cr \in CR
  BY DEF TypeOK, ServerOK
<1>2. CASE Restart
  <2>1. cr' = cr /\ cachedCr' = cr /\ pc' = "idle" /\ cnCurrent' = FALSE
    BY <1>2 DEF Restart, server
  <2>2. CacheInv' /\ CopyInv'
    BY <2>1 DEF CacheInv, CopyInv, Provisioning, Failing
  <2>3. QED
    BY <2>1, <2>2 DEF StatusInv, PhaseStep
<1>3. CASE ApplyCr
  <2>1. PICK services \in Manifests : UserWrites(NewCr(services))
    BY <1>3 DEF ApplyCr
  <2>2. NewCr(services).phase = "" /\ NewCr(services).conditions = <<>>
    BY DEF NewCr, NoCr
  <2>3. Coherent(NewCr(services)) /\ NoFailure(NewCr(services))
        /\ PhaseStep(cr, NewCr(services))
    BY <1>3, <2>2 DEF Coherent, NoFailure, PhaseStep, ApplyCr
  <2>4. QED
    BY <2>1, <2>3, UserWritesStatus
<1>4. CASE EditSpec
  <2>1. PICK services \in Manifests : UserWrites([cr EXCEPT !.services = services])
    BY <1>4 DEF EditSpec
  <2> DEFINE new == [cr EXCEPT !.services = services]
  <2>2. new.phase = cr.phase /\ new.conditions = cr.conditions /\ new.marks = cr.marks
    BY <1>1 DEF CR
  <2>3. Coherent(new) /\ NoFailure(new) /\ PhaseStep(cr, new)
    BY <2>2 DEF StatusInv, Coherent, NoFailure, PhaseStep
  <2>4. QED
    BY <2>1, <2>3, UserWritesStatus
<1>5. CASE DeleteCr
  <2> DEFINE new == [cr EXCEPT !.deleting = TRUE]
  <2>1. new.phase = cr.phase /\ new.conditions = cr.conditions /\ new.marks = cr.marks
    BY <1>1 DEF CR
  <2>2. Coherent(new) /\ NoFailure(new) /\ PhaseStep(cr, new)
    BY <2>1 DEF StatusInv, Coherent, NoFailure, PhaseStep
  <2>3. Coherent(NoCr) /\ NoFailure(NoCr) /\ PhaseStep(cr, NoCr)
    BY DEF NoCr, Coherent, NoFailure, PhaseStep
  <2>4. UserWrites(new) \/ UserWrites(NoCr)
    BY <1>5 DEF DeleteCr
  <2>5. QED
    BY <2>2, <2>3, <2>4, UserWritesStatus
<1>6. CASE EmptyNamespace \/ DropNamespace
  <2>1. UNCHANGED <<cr, cachedCr, cacheCurrent, pc, cn, cnCurrent>>
    BY <1>6 DEF EmptyNamespace, DropNamespace, worker
  <2>2. QED
    BY <2>1 DEF StatusInv, CacheInv, CopyInv, PhaseStep
<1>7. QED
  BY <1>2, <1>3, <1>4, <1>5, <1>6 DEF Environment

(* Steps that touch neither the CR nor the pass.                            *)
LEMMA OutsideStep ==
  ASSUME StatusInv, UNCHANGED <<cr, pc, cn, cnCurrent>>,
         cachedCr' = cr \/ UNCHANGED <<cachedCr, cacheCurrent>>
  PROVE  StatusInv' /\ PhaseStep(cr, cr')
<1>1. CopyInv'
  BY DEF StatusInv, CopyInv
<1>2. CacheInv'
  BY DEF StatusInv, CacheInv
<1>3. QED
  BY <1>1, <1>2 DEF StatusInv, PhaseStep

LEMMA DeliverStatus ==
  ASSUME StatusInv, Deliver
  PROVE  StatusInv' /\ PhaseStep(cr, cr')
<1>1. UNCHANGED <<cr, pc, cn, cnCurrent>>
  BY DEF Deliver, DeliverCr, DeliverNs, DeliverObj, server, worker
<1>2. cachedCr' = cr \/ UNCHANGED <<cachedCr, cacheCurrent>>
  BY DEF Deliver, DeliverCr, DeliverNs, DeliverObj
<1>3. QED
  BY <1>1, <1>2, OutsideStep

LEMMA NextStatus == TypeOK /\ StatusInv /\ [Next]_vars => StatusInv' /\ PhaseStep(cr, cr')
<1>1. UNCHANGED vars => UNCHANGED <<cr, pc, cn, cnCurrent, cachedCr, cacheCurrent>>
  BY DEF vars, server, caches, worker
<1>2. QED
  BY <1>1, ReconcileStatus, EnvironmentStatus, DeliverStatus, OutsideStep DEF Next

LEMMA InitStatus == Init => StatusInv
<1>1. SUFFICES ASSUME Init PROVE StatusInv
  OBVIOUS
<1>2. cr = NoCr /\ cachedCr = cr /\ pc = "idle" /\ cnCurrent = FALSE
  BY <1>1 DEF Init
<1>3. NoCr.phase = "" /\ NoCr.conditions = <<>>
  BY DEF NoCr
<1>4. Coherent(cr) /\ NoFailure(cr)
  BY <1>2, <1>3 DEF Coherent, NoFailure
<1>5. CopyInv
  BY <1>2 DEF CopyInv, Provisioning, Failing
<1>6. QED
  BY <1>2, <1>4, <1>5 DEF StatusInv, CacheInv

LEMMA StatusAlways == Spec => []StatusInv
<1>1. Init => StatusInv
  BY InitStatus
<1>2. TypeOK /\ StatusInv /\ [Next]_vars => StatusInv'
  BY NextStatus
<1>3. QED
  BY <1>1, <1>2, TypeCorrect, PTL DEF Spec

(* The phase and the "Ready" condition always agree: no interleaving of the *)
(* status updates of Reconcile and setFailed with lost answers, conflicts,  *)
(* restarts and edits stores one without the other.                         *)
THEOREM StatusAgrees == Spec => []StatusCoherent
<1>1. StatusInv => StatusCoherent
  BY DEF StatusInv, Coherent, StatusCoherent
<1>2. QED
  BY <1>1, StatusAlways, PTL

(* A Ready CR reports every service as ready.                               *)
THEOREM NoFailureWhenReady == Spec => []ReadyReportsNoFailure
<1>1. StatusInv => ReadyReportsNoFailure
  BY DEF StatusInv, NoFailure, ReadyReportsNoFailure
<1>2. QED
  BY <1>1, StatusAlways, PTL

(* No phase is skipped or undone, and Ready is the last one, from whatever  *)
(* stale copies Reconcile and setFailed write.                              *)
THEOREM PhasesInOrder == Spec => PhaseOrder
<1>1. TypeOK /\ StatusInv /\ [Next]_vars =>
        [cr.exists /\ cr'.exists /\ cr'.phase # cr.phase =>
           <<cr.phase, cr'.phase>> \in {<<"", "Provisioning">>,
                                        <<"Provisioning", "Failed">>,
                                        <<"Provisioning", "Ready">>,
                                        <<"Failed", "Ready">>}]_vars
  BY NextStatus DEF PhaseStep
<1>2. QED
  BY <1>1, TypeCorrect, StatusAlways, PTL DEF Spec, PhaseOrder

-----------------------------------------------------------------------------
(* No lost work.                                                            *)

(* A write that changes the CR is followed by an event; otherwise the pass  *)
(* that ends here has returned an error.                                    *)
LEMMA WriteWork ==
  ASSUME NoLostWork, NEW call, NEW new, WriteSucceeds(new) \/ WriteFails(call, new),
         \/ pc' # "idle"
         \/ queued'
         \/ cacheCurrent' = FALSE
  PROVE  NoLostWork'
<1>1. (cr' = cr /\ cacheCurrent' = cacheCurrent) \/ cacheCurrent' = FALSE
  BY WriteOutcome
<1>2. QED
  BY <1>1 DEF NoLostWork

LEMMA GetWork ==
  ASSUME TypeOK, CacheInv, NoLostWork, Get
  PROVE  NoLostWork'
<1>1. cr' = cr /\ cacheCurrent' = cacheCurrent /\ pc' = Dispatch(cachedCr)
  BY DEF Get, server, caches
<1>2. CASE cacheCurrent
  <2>1. pc' = Dispatch(cr)
    BY <1>1, <1>2 DEF CacheInv
  <2>2. Dispatch(cr) = "idle" => ~(cr.exists /\ (cr.deleting \/ cr.phase # "Ready"))
    <3>1. cr.exists \in BOOLEAN /\ cr.deleting \in BOOLEAN /\ cr.finalizer \in BOOLEAN
      BY DEF TypeOK, ServerOK, CR
    <3>2. QED
      BY <3>1 DEF Dispatch
  <2>3. CASE pc' = "idle"
    <3>1. ~(cr.exists /\ (cr.deleting \/ cr.phase # "Ready"))
      BY <2>1, <2>2, <2>3
    <3>2. cr' = cr
      BY <1>1
    <3>3. QED
      BY <3>1, <3>2, Zenon DEF NoLostWork
  <2>4. CASE pc' # "idle"
    BY <2>4 DEF NoLostWork
  <2>5. QED
    BY <2>3, <2>4
<1>3. CASE ~cacheCurrent
  BY <1>1, <1>3 DEF NoLostWork
<1>4. QED
  BY <1>2, <1>3

LEMMA ReconcileWork ==
  ASSUME TypeOK, CacheInv, NoLostWork, Reconcile
  PROVE  NoLostWork'
<1>e. ReturnError => queued'
  BY DEF ReturnError, Return
<1>a. \A new : WriteSucceeds(new) => cacheCurrent' = FALSE
  BY DEF WriteSucceeds, Accept
<1>1. CASE AddFinalizer
  <2> DEFINE new == [cn EXCEPT !.finalizer = TRUE]
  <2>1. WriteSucceeds(new) \/ WriteFails("update", new)
    BY <1>1 DEF AddFinalizer
  <2>2. cacheCurrent' = FALSE \/ queued'
    BY <1>1, <1>e, <1>a DEF AddFinalizer
  <2>3. QED
    BY <2>1, <2>2, WriteWork
<1>2. CASE StartProvisioning
  <2> DEFINE new == [cn EXCEPT !.phase = "Provisioning"]
  <2>1. WriteSucceeds(new) \/ WriteFails("status", new)
    BY <1>2 DEF StartProvisioning
  <2>2. cacheCurrent' = FALSE \/ queued'
    BY <1>2, <1>e, <1>a DEF StartProvisioning
  <2>3. QED
    BY <2>1, <2>2, WriteWork
<1>3. CASE ServiceFailed
  <2>1. pc' # "idle" /\ \E new : WriteSucceeds(new) \/ WriteFails("status", new)
    BY <1>3 DEF ServiceFailed
  <2>2. QED
    BY <2>1, WriteWork
<1>4. CASE setFailed
  <2>1. \E new : WriteSucceeds(new) \/ WriteFails("status", new)
    BY <1>4 DEF setFailed
  <2>2. queued'
    BY <1>4, <1>e DEF setFailed
  <2>3. QED
    BY <2>1, <2>2, WriteWork
<1>5. CASE MarkReady
  <2> DEFINE new == ReadyStatus([cn EXCEPT !.marks = Reported(@, k)])
  <2>1. WriteSucceeds(new) \/ WriteFails("status", new)
    BY <1>5 DEF MarkReady
  <2>2. cacheCurrent' = FALSE \/ queued'
    BY <1>5, <1>e, <1>a DEF MarkReady
  <2>3. QED
    BY <2>1, <2>2, WriteWork
<1>6. CASE RemoveFinalizer
  <2>1. WriteSucceeds(NoCr) \/ WriteFails("update", NoCr)
    BY <1>6 DEF RemoveFinalizer
  <2>2. cacheCurrent' = FALSE \/ queued'
    BY <1>6, <1>e, <1>a DEF RemoveFinalizer
  <2>3. QED
    BY <2>1, <2>2, WriteWork
<1>7. CASE ensureNamespace \/ SkipStep \/ FindObject \/ ReadObject \/ CreateObject
           \/ cleanupClientResources \/ deleteNamespace
  <2>1. cr' = cr /\ cacheCurrent' = cacheCurrent
    BY <1>7, CleanupFrame
    DEF ensureNamespace, SkipStep, FindObject, ReadObject, CreateObject,
        deleteNamespace, server, caches
  <2>2. pc' # "idle" \/ queued'
    <3>1. \A next, step : Goto(next, step) /\ next # "idle" => pc' # "idle"
      BY DEF Goto
    <3>2. \A step : Fail(step) => pc' # "idle"
      BY <3>1 DEF Fail
    <3>3. CASE ensureNamespace \/ SkipStep \/ FindObject
      BY <1>e, <3>1, <3>3 DEF ensureNamespace, SkipStep, FindObject
    <3>4. CASE ReadObject \/ CreateObject
      BY <1>e, <3>1, <3>2, <3>4 DEF ReadObject, CreateObject
    <3>5. CASE cleanupClientResources \/ deleteNamespace
      BY <1>e, <3>1, <3>5, CleanupFrame DEF deleteNamespace
    <3>6. QED
      BY <1>7, <3>3, <3>4, <3>5
  <2>3. QED
    BY <2>1, <2>2 DEF NoLostWork
<1>8. QED
  BY <1>1, <1>2, <1>3, <1>4, <1>5, <1>6, <1>7, GetWork DEF Reconcile

LEMMA NextWork == TypeOK /\ CacheInv /\ NoLostWork /\ [Next]_vars => NoLostWork'
<1>1. ASSUME NoLostWork, UNCHANGED <<cr, queued, pc, cacheCurrent>> PROVE NoLostWork'
  BY <1>1 DEF NoLostWork
<1>2. UNCHANGED vars => UNCHANGED <<cr, queued, pc, cacheCurrent>>
  BY DEF vars, server, caches, worker
<1>3. DeliverNs \/ (\E r \in Resources : DeliverObj(r)) \/ EmptyNamespace \/ DropNamespace
        => UNCHANGED <<cr, queued, pc, cacheCurrent>>
  BY DEF DeliverNs, DeliverObj, EmptyNamespace, DropNamespace, server, worker
<1>4. DeliverCr => NoLostWork'
  BY DEF DeliverCr, NoLostWork
<1>5. Restart => NoLostWork'
  BY DEF Restart, NoLostWork, server
<1>6. ApplyCr \/ EditSpec \/ DeleteCr => cacheCurrent' = FALSE
  BY DEF ApplyCr, EditSpec, DeleteCr, UserWrites
<1>7. cacheCurrent' = FALSE => NoLostWork'
  BY DEF NoLostWork
<1>8. QED
  BY <1>1, <1>2, <1>3, <1>4, <1>5, <1>6, <1>7, ReconcileWork DEF Next, Deliver, Environment

(* A CR that is not Ready, or is to be deleted, is never forgotten: on every*)
(* return path of Reconcile it stays queued, or an event for it is to come. *)
THEOREM NothingIsLost == Spec => []NoLostWork
<1>1. Init => NoLostWork
  <2>1. Init => cr = NoCr
    BY DEF Init
  <2>2. NoCr.exists = FALSE
    BY DEF NoCr
  <2>3. QED
    BY <2>1, <2>2 DEF NoLostWork
<1>2. TypeOK /\ StatusInv /\ NoLostWork /\ [Next]_vars => NoLostWork'
  BY NextWork DEF StatusInv
<1>3. QED
  BY <1>1, <1>2, TypeCorrect, StatusAlways, PTL DEF Spec
=============================================================================
