---------------------------- MODULE OrphanProofs ----------------------------
(***************************************************************************)
(* The namespace and its CR in Lifecycle.  reconcileDelete trusts its cache *)
(* of namespaces and swallows the error of reading it, so what is proved    *)
(* here assumes that neither misleads it; StaleNamespace.cfg shows that the *)
(* assumption is needed.                                                    *)
(***************************************************************************)
EXTENDS StatusProofs

FreshNamespace == NsObject \notin Lagging /\ "nsGet" \notin Faulty

Held(c) == c.exists /\ c.finalizer
Live(c) == Held(c) /\ ~c.deleting

Guarded == ns.state = "active" /\ ns.labelled

(* A CR seen with its finalizer keeps it until a pass that saw its deletion *)
(* removes it; a deletion that was seen is never of the CR that is live now.*)
CacheOrphan ==
  /\ cachedNs = ns
  /\ Live(cachedCr) => Held(cr)
  /\ cachedCr.exists /\ cachedCr.deleting => ~Live(cr)

PassOrphan ==
  /\ pc # "idle" => cn.exists
  /\ pc = "addFinalizer" => ~cn.deleting /\ (cnCurrent => cacheCurrent)
  /\ pc \in {"start"} \cup Provisioning => Held(cr)
  /\ pc \in Deleting => ~Live(cachedCr) /\ ~Live(cr)
  /\ pc = "removeFinalizer" => ~Guarded

OrphanInv == (Guarded => Held(cr)) /\ CacheOrphan /\ PassOrphan

OnlyDeleted(n, m) == n.state = "active" /\ m.state # "active" =>
                       n.labelled /\ cr.exists /\ cr.deleting

-----------------------------------------------------------------------------
LEMMA IdleOrphan ==
  ASSUME pc' = "idle"
  PROVE  PassOrphan'
  BY DEF PassOrphan, Provisioning, Failing, Deleting

LEMMA SetNsFresh ==
  ASSUME FreshNamespace, NEW new, SetNs(new)
  PROVE  ns' = new /\ cachedNs' = new
  BY DEF FreshNamespace, SetNs

(* Steps that leave the CR, the namespace and their caches alone.           *)
LEMMA QuietOrphan ==
  ASSUME OrphanInv, UNCHANGED <<cr, ns, cachedCr, cachedNs>>,
         \/ \E requeue : Return(requeue)
         \/ \E next, step :
              Goto(next, step) /\ pc \in {"namespace", "plan"} /\ next \in Provisioning
         \/ pc = "cleanup" /\ pc' = "cleanup" /\ cn' = cn
         \/ pc = "cleanup" /\ pc' = "removeFinalizer" /\ cn' = cn /\ ~Guarded
  PROVE  OrphanInv' /\ OnlyDeleted(ns, ns')
<1>1. (Guarded => Held(cr))' /\ CacheOrphan' /\ OnlyDeleted(ns, ns')
  BY DEF OrphanInv, CacheOrphan, Guarded, Held, Live, OnlyDeleted
<1>2. CASE \E requeue : Return(requeue)
  BY <1>1, <1>2, IdleOrphan DEF Return, OrphanInv
<1>3. ASSUME NEW next, NEW step, Goto(next, step),
             pc \in {"namespace", "plan"}, next \in Provisioning
      PROVE  PassOrphan'
  BY <1>3 DEF Goto, OrphanInv, PassOrphan, Provisioning, Failing, Deleting, Held
<1>4. CASE pc = "cleanup" /\ cn' = cn /\ pc' \in Deleting
           /\ (pc' = "removeFinalizer" => ~Guarded)
  <2>1. PassOrphan'
    BY <1>4
    DEF OrphanInv, PassOrphan, Provisioning, Failing, Deleting, Guarded, Live, Held
  <2>2. QED
    BY <1>1, <2>1 DEF OrphanInv
<1>5. QED
  BY <1>1, <1>2, <1>3, <1>4 DEF OrphanInv, Deleting

(* The status updates: the CR keeps its finalizer and its deletion mark.    *)
LEMMA StatusWriteOrphan ==
  ASSUME TypeOK, StatusInv, OrphanInv, UNCHANGED <<ns, cachedNs>>,
         NEW call, NEW new, WriteSucceeds(new) \/ WriteFails(call, new),
         new.exists = cn.exists, new.deleting = cn.deleting, new.finalizer = cn.finalizer,
         pc \in {"start"} \cup Provisioning,
         pc' = "idle" \/ (pc' \in Provisioning /\ cn' = new)
  PROVE  OrphanInv' /\ OnlyDeleted(ns, ns')
<1>1. cnCurrent =>
        cn.exists = cr.exists /\ cn.deleting = cr.deleting /\ cn.finalizer = cr.finalizer
  BY DEF StatusInv, CopyInv, TypeOK, ServerOK, CR
<1>2. /\ cr'.exists = cr.exists /\ cr'.deleting = cr.deleting
      /\ cr'.finalizer = cr.finalizer /\ cachedCr' = cachedCr
  BY <1>1, WriteOutcome
<1>3. (Guarded => Held(cr))' /\ CacheOrphan' /\ OnlyDeleted(ns, ns')
  BY <1>2 DEF OrphanInv, CacheOrphan, Guarded, Held, Live, OnlyDeleted
<1>4. pc # "idle" /\ Held(cr) /\ cn.exists
  BY DEF OrphanInv, PassOrphan, Provisioning, Failing
<1>5. CASE pc' \in Provisioning /\ cn' = new
  <2>1. Held(cr)'
    BY <1>2, <1>4 DEF Held
  <2>2. cn'.exists
    <3>1. cn.exists = TRUE
      BY <1>4 DEF TypeOK, WorkerOK, CR
    <3>2. cn'.exists = cn.exists
      BY <1>5
    <3>3. QED
      BY <3>1, <3>2
  <2>3. pc' \notin {"idle", "addFinalizer"} \cup Deleting
    BY <1>5 DEF Provisioning, Failing, Deleting
  <2>4. PassOrphan'
    BY <2>1, <2>2, <2>3 DEF PassOrphan, Deleting
  <2>5. QED
    BY <1>3, <2>4 DEF OrphanInv
<1>6. QED
  BY <1>3, <1>5, IdleOrphan DEF OrphanInv

-----------------------------------------------------------------------------
(* The worker's steps.                                                      *)

LEMMA GetOrphan ==
  ASSUME TypeOK, StatusInv, OrphanInv, Get
  PROVE  OrphanInv' /\ OnlyDeleted(ns, ns')
<1>1. UNCHANGED <<cr, ns, cachedCr, cachedNs, cacheCurrent>>
  BY DEF Get, server, caches
<1>2. (Guarded => Held(cr))' /\ CacheOrphan' /\ OnlyDeleted(ns, ns')
  BY <1>1 DEF OrphanInv, CacheOrphan, Guarded, Held, Live, OnlyDeleted
<1>3. ASSUME pc' # "idle" PROVE PassOrphan'
  <2>1. pc' = Dispatch(cachedCr) /\ cn' = cachedCr /\ cnCurrent' = cacheCurrent
    BY <1>3 DEF Get
  <2>2. /\ cachedCr.exists \in BOOLEAN /\ cachedCr.deleting \in BOOLEAN
        /\ cachedCr.finalizer \in BOOLEAN
    BY DEF TypeOK, CachesOK, CR
  <2>3. CASE pc' = "cleanup"
    <3>1. cachedCr.exists /\ cachedCr.deleting
      BY <2>1, <2>2, <2>3 DEF Dispatch
    <3>2. ~Live(cachedCr) /\ ~Live(cr)
      BY <3>1 DEF OrphanInv, CacheOrphan, Live
    <3>3. (~Live(cachedCr) /\ ~Live(cr))'
      BY <1>1, <3>2 DEF Live, Held
    <3>4. cn'.exists
      BY <2>1, <3>1
    <3>5. QED
      BY <2>3, <3>3, <3>4 DEF PassOrphan, Provisioning, Failing
  <2>4. CASE pc' = "addFinalizer"
    <3>1. cachedCr.exists /\ ~cachedCr.deleting
      BY <2>1, <2>2, <2>4 DEF Dispatch
    <3>2. cn'.exists /\ ~cn'.deleting /\ (cnCurrent' => cacheCurrent')
      BY <1>1, <2>1, <3>1
    <3>3. QED
      BY <2>4, <3>2 DEF PassOrphan, Provisioning, Failing, Deleting
  <2>5. CASE pc' \in {"start", "namespace"}
    <3>1. cachedCr.exists /\ Live(cachedCr)
      BY <2>1, <2>2, <2>5 DEF Dispatch, Live, Held
    <3>2. Held(cr)
      BY <3>1 DEF OrphanInv, CacheOrphan
    <3>3. Held(cr)'
      BY <1>1, <3>2 DEF Held
    <3>4. cn'.exists
      BY <2>1, <3>1
    <3>5. QED
      BY <2>5, <3>3, <3>4 DEF PassOrphan, Deleting
  <2>6. QED
    BY <1>3, <2>1, <2>3, <2>4, <2>5, DispatchType
<1>4. QED
  BY <1>2, <1>3, IdleOrphan DEF OrphanInv, PassOrphan

LEMMA AddFinalizerOrphan ==
  ASSUME TypeOK, StatusInv, OrphanInv, AddFinalizer
  PROVE  OrphanInv' /\ OnlyDeleted(ns, ns')
<1> DEFINE new == [cn EXCEPT !.finalizer = TRUE]
<1>1. cn \in CR /\ cn.exists /\ ~cn.deleting /\ (cnCurrent => cacheCurrent)
  BY DEF AddFinalizer, OrphanInv, PassOrphan, TypeOK, WorkerOK
<1>2. new.exists /\ ~new.deleting /\ new.finalizer
  BY <1>1 DEF CR
<1>3. UNCHANGED <<ns, cachedCr, cachedNs>>
  BY DEF AddFinalizer, WriteSucceeds, WriteFails, Accept, Refuse, server, caches
<1>4. cr' = cr \/ (cnCurrent /\ cr' = new)
  BY DEF AddFinalizer, WriteSucceeds, WriteFails, Accept, Refuse, server
<1>5. (Guarded => Held(cr))' /\ CacheOrphan' /\ OnlyDeleted(ns, ns')
  <2>1. CASE cr' = cr
    BY <1>3, <2>1 DEF OrphanInv, CacheOrphan, Guarded, Held, Live, OnlyDeleted
  <2>2. CASE cnCurrent /\ cr' = new
    <3>1. cachedCr = cn
      BY <1>1, <2>2 DEF AddFinalizer, StatusInv, CacheInv, CopyInv
    <3>2. ~cachedCr'.deleting
      BY <1>1, <1>3, <3>1
    <3>3. Held(cr')
      BY <1>2, <2>2 DEF Held
    <3>4. cachedNs' = ns'
      BY <1>3 DEF OrphanInv, CacheOrphan
    <3>5. QED
      BY <1>3, <3>2, <3>3, <3>4 DEF CacheOrphan, OnlyDeleted
  <2>3. QED
    BY <1>4, <2>1, <2>2
<1>6. CASE WriteSucceeds(new) /\ Continue(Dispatch(new), new, 0) /\ Dispatch(new) # "idle"
  <2>1. pc' = Dispatch(new) /\ cn' = new /\ cr' = new
    BY <1>6 DEF Continue, WriteSucceeds, Accept
  <2>2. pc' \in {"start", "namespace"}
    BY <1>2, <1>6, <2>1 DEF Dispatch
  <2>3. Held(cr') /\ cn'.exists
    BY <1>2, <2>1 DEF Held
  <2>4. PassOrphan'
    BY <2>2, <2>3 DEF PassOrphan, Deleting
  <2>5. QED
    BY <1>5, <2>4 DEF OrphanInv
<1>7. CASE Return(TRUE) \/ Return(FALSE)
  BY <1>5, <1>7, IdleOrphan DEF OrphanInv, Return
<1>8. QED
  BY <1>6, <1>7 DEF AddFinalizer, ReturnError

LEMMA StatusOrphan ==
  ASSUME TypeOK, StatusInv, OrphanInv,
         StartProvisioning \/ ServiceFailed \/ setFailed \/ MarkReady
  PROVE  OrphanInv' /\ OnlyDeleted(ns, ns')
<1>1. cn \in CR
  BY DEF TypeOK, WorkerOK
<1>2. \A call, new : WriteSucceeds(new) \/ WriteFails(call, new) => UNCHANGED <<ns, cachedNs>>
  BY DEF WriteSucceeds, WriteFails, Accept, Refuse, server, caches
<1>3. CASE StartProvisioning
  <2> DEFINE new == [cn EXCEPT !.phase = "Provisioning"]
  <2>1. new.exists = cn.exists /\ new.deleting = cn.deleting /\ new.finalizer = cn.finalizer
    BY <1>1 DEF CR
  <2>2. WriteSucceeds(new) \/ WriteFails("status", new)
    BY <1>3 DEF StartProvisioning
  <2>3. pc = "start" /\ (pc' = "idle" \/ (pc' = "namespace" /\ cn' = new))
    BY <1>3 DEF StartProvisioning, ReturnError, Return, Continue
  <2>4. QED
    BY <1>2, <2>1, <2>2, <2>3, StatusWriteOrphan DEF Provisioning
<1>4. CASE ServiceFailed
  <2> DEFINE new == [cn EXCEPT !.marks =
                [n \in StatusNames |-> IF n \in OwnedBy(Plan[k]) THEN "failed"
                                       ELSE Reported(cn.marks, k)[n]]]
  <2>1. new.exists = cn.exists /\ new.deleting = cn.deleting /\ new.finalizer = cn.finalizer
    BY <1>1 DEF CR
  <2>2. WriteSucceeds(new) \/ WriteFails("status", new)
    BY <1>4 DEF ServiceFailed
  <2>3. pc = "serviceFailed" /\ pc' = "setFailed" /\ cn' = new
    BY <1>4 DEF ServiceFailed
  <2>4. QED
    BY <1>2, <2>1, <2>2, <2>3, StatusWriteOrphan DEF Provisioning, Failing
<1>5. CASE setFailed
  <2> DEFINE new == FailedStatus([cn EXCEPT !.marks = Reported(@, k)])
  <2>1. new.exists = cn.exists /\ new.deleting = cn.deleting /\ new.finalizer = cn.finalizer
    BY <1>1 DEF CR, FailedStatus
  <2>2. WriteSucceeds(new) \/ WriteFails("status", new)
    BY <1>5 DEF setFailed
  <2>3. pc = "setFailed" /\ pc' = "idle"
    BY <1>5 DEF setFailed, ReturnError, Return
  <2>4. QED
    BY <1>2, <2>1, <2>2, <2>3, StatusWriteOrphan DEF Provisioning, Failing
<1>6. CASE MarkReady
  <2> DEFINE new == ReadyStatus([cn EXCEPT !.marks = Reported(@, k)])
  <2>1. new.exists = cn.exists /\ new.deleting = cn.deleting /\ new.finalizer = cn.finalizer
    BY <1>1 DEF CR, ReadyStatus
  <2>2. WriteSucceeds(new) \/ WriteFails("status", new)
    BY <1>6 DEF MarkReady
  <2>3. pc = "plan" /\ pc' = "idle"
    BY <1>6 DEF MarkReady, ReturnError, Return
  <2>4. QED
    BY <1>2, <2>1, <2>2, <2>3, StatusWriteOrphan DEF Provisioning
<1>7. QED
  BY <1>3, <1>4, <1>5, <1>6

(* ensureNamespace makes the namespace of a CR that still has its finalizer.*)
LEMMA ensureNamespaceOrphan ==
  ASSUME FreshNamespace, OrphanInv, ensureNamespace
  PROVE  OrphanInv' /\ OnlyDeleted(ns, ns')
<1>1. pc = "namespace" /\ cr' = cr /\ cachedCr' = cachedCr
  BY DEF ensureNamespace
<1>2. \E next \in {"plan", "setFailed"} : \E step : Goto(next, step)
  BY DEF ensureNamespace
<1>3. CASE UNCHANGED <<ns, cachedNs>>
  BY <1>1, <1>2, <1>3, QuietOrphan DEF Provisioning, Failing
<1>4. CASE ns.state = "absent" /\ SetNs([state |-> "active", labelled |-> TRUE])
  <2>1. cachedNs' = ns'
    BY <1>4, SetNsFresh
  <2>2. Held(cr) /\ cn.exists
    BY <1>1 DEF OrphanInv, PassOrphan, Provisioning
  <2>3. CacheOrphan'
    BY <1>1, <2>1 DEF OrphanInv, CacheOrphan, Held, Live
  <2>4. pc' \in {"plan", "setFailed"} /\ cn' = cn
    BY <1>2 DEF Goto
  <2>5. Held(cr)'
    BY <1>1, <2>2 DEF Held
  <2>6. cn'.exists
    BY <2>2, <2>4
  <2>7. PassOrphan'
    BY <2>4, <2>5, <2>6 DEF PassOrphan, Deleting
  <2>8. OnlyDeleted(ns, ns')
    BY <1>4 DEF OnlyDeleted
  <2>9. QED
    BY <2>3, <2>5, <2>7, <2>8 DEF OrphanInv
<1>5. QED
  BY <1>3, <1>4 DEF ensureNamespace

(* deleteNamespace terminates the namespace, or has seen that it is not the *)
(* operator's.                                                              *)
LEMMA deleteNamespaceOrphan ==
  ASSUME TypeOK, FreshNamespace, OrphanInv, deleteNamespace
  PROVE  OrphanInv' /\ OnlyDeleted(ns, ns')
<1>1. /\ pc = "cleanup" /\ cr' = cr /\ cachedCr' = cachedCr /\ cachedNs = ns
      /\ ~Live(cachedCr) /\ ~Live(cr) /\ cn.exists
  BY DEF deleteNamespace, CleanedUp, OrphanInv, CacheOrphan, PassOrphan, Deleting
<1>2. \/ ReturnError
      \/ Goto("removeFinalizer", 0)
  BY DEF deleteNamespace
<1>3. CASE ~Ours /\ Goto("removeFinalizer", 0) /\ UNCHANGED <<ns, cachedNs>>
  <2>1. ~Guarded
    BY <1>1, <1>3 DEF Ours, Guarded
  <2>2. QED
    BY <1>1, <1>3, <2>1, QuietOrphan DEF Goto
<1>4. CASE ReturnError /\ UNCHANGED <<ns, cachedNs>>
  BY <1>1, <1>4, QuietOrphan DEF ReturnError
<1>5. CASE Ours /\ SetNs(Terminated(ns))
  <2>1. ns' = Terminated(ns) /\ cachedNs' = ns'
    BY <1>5, SetNsFresh
  <2>2. ns'.state # "active"
    BY <2>1 DEF Terminated, TypeOK, ServerOK, NS
  <2>3. ~Guarded'
    BY <2>2 DEF Guarded
  <2>4. CacheOrphan'
    BY <1>1, <2>1 DEF OrphanInv, CacheOrphan, Held, Live
  <2>5. OnlyDeleted(ns, ns')
    <3>1. Ours => ns.labelled
      BY <1>1 DEF Ours
    <3>2. ns.state = "active" => Held(cr)
      BY <1>5, <3>1 DEF OrphanInv, Guarded
    <3>3. QED
      BY <1>1, <1>5, <3>1, <3>2 DEF OnlyDeleted, Held, Live
  <2>6. PassOrphan'
    <3>1. CASE ReturnError
      BY <3>1, IdleOrphan DEF ReturnError, Return
    <3>2. CASE Goto("removeFinalizer", 0)
      <4>1. pc' = "removeFinalizer" /\ cn' = cn
        BY <3>2 DEF Goto
      <4>2. (~Live(cachedCr) /\ ~Live(cr))'
        BY <1>1 DEF Live, Held
      <4>3. cn'.exists
        BY <1>1, <4>1
      <4>4. QED
        BY <2>3, <4>1, <4>2, <4>3 DEF PassOrphan, Provisioning, Failing
    <3>3. QED
      BY <1>2, <3>1, <3>2
  <2>7. QED
    BY <2>3, <2>4, <2>5, <2>6 DEF OrphanInv
<1>6. ~Fault("nsGet")
  BY DEF FreshNamespace, Fault
<1>7. QED
  BY <1>3, <1>4, <1>5, <1>6 DEF deleteNamespace

LEMMA RemoveFinalizerOrphan ==
  ASSUME OrphanInv, RemoveFinalizer
  PROVE  OrphanInv' /\ OnlyDeleted(ns, ns')
<1>1. /\ UNCHANGED <<ns, cachedCr, cachedNs>>
      /\ cr' = cr \/ cr' = NoCr
  BY DEF RemoveFinalizer, WriteSucceeds, WriteFails, Accept, Refuse, server, caches
<1>2. pc' = "idle"
  BY DEF RemoveFinalizer, ReturnError, Return
<1>3. ~Guarded /\ ~Live(cachedCr) /\ cachedNs = ns
  BY DEF RemoveFinalizer, OrphanInv, CacheOrphan, PassOrphan, Deleting
<1>4. ~Guarded' /\ ~Live(cachedCr)' /\ (cachedNs = ns)' /\ OnlyDeleted(ns, ns')
  BY <1>1, <1>3 DEF Guarded, Live, Held, OnlyDeleted
<1>5. (cachedCr.exists /\ cachedCr.deleting => ~Live(cr))'
  <2>1. ~Live(NoCr)
    BY DEF Live, Held, NoCr
  <2>2. CASE cr' = cr
    BY <1>1, <2>2 DEF OrphanInv, CacheOrphan, Live, Held
  <2>3. CASE cr' = NoCr
    BY <2>1, <2>3 DEF Live, Held
  <2>4. QED
    BY <1>1, <2>2, <2>3
<1>6. QED
  BY <1>2, <1>4, <1>5, IdleOrphan DEF OrphanInv, CacheOrphan

LEMMA ReconcileOrphan ==
  ASSUME TypeOK, FreshNamespace, StatusInv, OrphanInv, Reconcile
  PROVE  OrphanInv' /\ OnlyDeleted(ns, ns')
<1>1. CASE SkipStep \/ FindObject \/ ReadObject \/ CreateObject
  <2>1. pc \in {"namespace", "plan"}
    BY <1>1 DEF SkipStep, FindObject, ReadObject, CreateObject, Creating, AtStep
  <2>2. UNCHANGED <<cr, ns, cachedCr, cachedNs>>
    BY <1>1 DEF SkipStep, FindObject, ReadObject, CreateObject, server, caches
  <2>3. Goto("plan", k + 1) \/ Fail(Plan[k]) \/ Return(TRUE)
    BY <1>1 DEF SkipStep, FindObject, ReadObject, CreateObject, ReturnError
  <2>4. \/ \E requeue : Return(requeue)
        \/ \E next \in Provisioning : \E step : Goto(next, step)
    BY <2>3, FailGoto DEF Provisioning
  <2>5. QED
    BY <2>1, <2>2, <2>4, QuietOrphan
<1>2. CASE cleanupClientResources
  BY <1>2, CleanupFrame, QuietOrphan
<1>3. QED
  BY <1>1, <1>2, GetOrphan, AddFinalizerOrphan, StatusOrphan, ensureNamespaceOrphan,
     deleteNamespaceOrphan, RemoveFinalizerOrphan DEF Reconcile

-----------------------------------------------------------------------------
(* The other steps.                                                         *)

(* A user neither gives a CR its finalizer nor takes it away.               *)
LEMMA UserWritesOrphan ==
  ASSUME OrphanInv, NEW new, UserWrites(new), Held(new) <=> Held(cr), Live(new) => Live(cr)
  PROVE  OrphanInv' /\ OnlyDeleted(ns, ns')
<1>1. /\ cr' = new /\ cnCurrent' = FALSE
      /\ UNCHANGED <<ns, cachedCr, cachedNs, pc, cn>>
  BY DEF UserWrites
<1>2. (Held(cr)' <=> Held(cr)) /\ (Live(cr)' => Live(cr))
  BY <1>1 DEF Held, Live
<1>3. (Guarded' <=> Guarded) /\ (Live(cachedCr)' <=> Live(cachedCr))
  BY <1>1 DEF Guarded, Live, Held
<1>4. CacheOrphan'
  BY <1>1, <1>2, <1>3 DEF OrphanInv, CacheOrphan
<1>5. PassOrphan'
  <2>1. pc # "idle" => cn'.exists
    BY <1>1 DEF OrphanInv, PassOrphan
  <2>2. pc = "addFinalizer" => ~cn'.deleting
    BY <1>1 DEF OrphanInv, PassOrphan
  <2>3. QED
    BY <1>1, <1>2, <1>3, <2>1, <2>2 DEF OrphanInv, PassOrphan
<1>6. QED
  BY <1>1, <1>2, <1>3, <1>4, <1>5 DEF OrphanInv, OnlyDeleted

LEMMA EnvironmentOrphan ==
  ASSUME TypeOK, FreshNamespace, OrphanInv, Environment
  PROVE  OrphanInv' /\ OnlyDeleted(ns, ns')
<1>1. cr \in CR
  BY DEF TypeOK, ServerOK
<1>2. CASE Restart
  <2>1. UNCHANGED <<cr, ns>> /\ cachedCr' = cr /\ cachedNs' = ns /\ pc' = "idle"
    BY <1>2 DEF Restart, server
  <2>2. CacheOrphan'
    BY <2>1 DEF CacheOrphan, Live, Held
  <2>3. (Guarded => Held(cr))' /\ OnlyDeleted(ns, ns')
    BY <2>1 DEF OrphanInv, Guarded, Held, OnlyDeleted
  <2>4. QED
    BY <2>1, <2>2, <2>3, IdleOrphan DEF OrphanInv
<1>3. CASE ApplyCr
  <2>1. PICK services \in Manifests : UserWrites(NewCr(services))
    BY <1>3 DEF ApplyCr
  <2>2. NewCr(services).finalizer = FALSE
    BY DEF NewCr, NoCr
  <2>3. ~Held(NewCr(services)) /\ ~Held(cr)
    BY <1>3, <2>2 DEF Held, ApplyCr
  <2>4. QED
    BY <2>1, <2>3, UserWritesOrphan DEF Live
<1>4. CASE EditSpec
  <2>1. PICK services \in Manifests : UserWrites([cr EXCEPT !.services = services])
    BY <1>4 DEF EditSpec
  <2> DEFINE new == [cr EXCEPT !.services = services]
  <2>2. new.exists = cr.exists /\ new.finalizer = cr.finalizer /\ new.deleting = cr.deleting
    BY <1>1 DEF CR
  <2>3. QED
    BY <2>1, <2>2, UserWritesOrphan DEF Held, Live
<1>5. CASE DeleteCr /\ cr.finalizer
  <2> DEFINE new == [cr EXCEPT !.deleting = TRUE]
  <2>1. new.exists = cr.exists /\ new.finalizer = cr.finalizer /\ new.deleting = TRUE
    BY <1>1 DEF CR
  <2>2. UserWrites(new)
    BY <1>5 DEF DeleteCr
  <2>3. QED
    BY <2>1, <2>2, UserWritesOrphan DEF Held, Live
<1>6. CASE DeleteCr /\ ~cr.finalizer
  <2>1. UserWrites(NoCr)
    BY <1>6 DEF DeleteCr
  <2>2. ~Held(NoCr) /\ ~Held(cr)
    BY <1>6 DEF Held, NoCr
  <2>3. QED
    BY <2>1, <2>2, UserWritesOrphan DEF Live
<1>7. CASE EmptyNamespace
  <2>1. UNCHANGED <<cr, ns, cachedCr, cachedNs, cacheCurrent, pc, cn, cnCurrent>>
    BY <1>7 DEF EmptyNamespace, worker
  <2>2. QED
    BY <2>1
    DEF OrphanInv, CacheOrphan, PassOrphan, Guarded, Held, Live, OnlyDeleted
<1>8. CASE DropNamespace
  <2>1. /\ UNCHANGED <<cr, cachedCr, cacheCurrent, pc, cn, cnCurrent>>
        /\ ns.state = "terminating" /\ ns' = NoNs /\ cachedNs' = ns'
    BY <1>8, SetNsFresh DEF DropNamespace, worker
  <2>2. ~Guarded' /\ OnlyDeleted(ns, ns')
    BY <2>1 DEF Guarded, NoNs, OnlyDeleted
  <2>3. CacheOrphan' /\ PassOrphan'
    BY <2>1, <2>2 DEF OrphanInv, CacheOrphan, PassOrphan, Held, Live
  <2>4. QED
    BY <2>2, <2>3 DEF OrphanInv
<1>9. QED
  BY <1>2, <1>3, <1>4, <1>5, <1>6, <1>7, <1>8 DEF Environment

LEMMA DeliverOrphan ==
  ASSUME OrphanInv, Deliver
  PROVE  OrphanInv' /\ OnlyDeleted(ns, ns')
<1>1. UNCHANGED <<cr, ns, pc, cn, cnCurrent>>
  BY DEF Deliver, DeliverCr, DeliverNs, DeliverObj, server, worker
<1>2. cachedNs' = ns
  BY DEF Deliver, DeliverCr, DeliverNs, DeliverObj, OrphanInv, CacheOrphan
<1>3. (cachedCr' = cr /\ cacheCurrent') \/ UNCHANGED <<cachedCr, cacheCurrent>>
  BY DEF Deliver, DeliverCr, DeliverNs, DeliverObj
<1>4. (Guarded => Held(cr))' /\ OnlyDeleted(ns, ns')
  BY <1>1 DEF OrphanInv, Guarded, Held, OnlyDeleted
<1>5. CacheOrphan'
  BY <1>1, <1>2, <1>3 DEF OrphanInv, CacheOrphan, Held, Live
<1>6. PassOrphan'
  BY <1>1, <1>3 DEF OrphanInv, PassOrphan, Guarded, Held, Live
<1>7. QED
  BY <1>4, <1>5, <1>6 DEF OrphanInv

LEMMA InitOrphan == Init => OrphanInv
<1>1. SUFFICES ASSUME Init PROVE OrphanInv
  OBVIOUS
<1>2. cr = NoCr /\ cachedCr = NoCr /\ cachedNs = ns /\ pc = "idle" /\ ~Guarded
  BY <1>1 DEF Init, Guarded, NoNs
<1>3. ~Held(NoCr) /\ ~Live(NoCr)
  BY DEF Held, Live, NoCr
<1>4. QED
  BY <1>2, <1>3 DEF OrphanInv, CacheOrphan, PassOrphan, Provisioning, Failing, Deleting

LEMMA NextOrphan ==
  ASSUME FreshNamespace
  PROVE  TypeOK /\ StatusInv /\ OrphanInv /\ [Next]_vars => OrphanInv' /\ OnlyDeleted(ns, ns')
<1>1. ASSUME OrphanInv, UNCHANGED vars PROVE OrphanInv' /\ OnlyDeleted(ns, ns')
  <2>1. UNCHANGED <<cr, ns, cachedCr, cachedNs, cacheCurrent, pc, cn, cnCurrent>>
    BY <1>1 DEF vars, server, caches, worker
  <2>2. QED
    BY <1>1, <2>1
    DEF OrphanInv, CacheOrphan, PassOrphan, Guarded, Held, Live, OnlyDeleted
<1>2. QED
  BY <1>1, ReconcileOrphan, EnvironmentOrphan, DeliverOrphan DEF Next

(* With a fresh cache of namespaces, a live namespace with the client label *)
(* has its CR, and the CR its finalizer, for every Plan and every sequence  *)
(* of crashes, conflicts, stale CRs, deletions and re-creations.            *)
THEOREM NoOrphans == ASSUME FreshNamespace PROVE Spec => []NoOrphan
<1>1. Init => OrphanInv
  BY InitOrphan
<1>2. TypeOK /\ StatusInv /\ OrphanInv /\ [Next]_vars => OrphanInv'
  BY NextOrphan
<1>3. OrphanInv => NoOrphan
  BY DEF OrphanInv, Guarded, Held, NoOrphan
<1>4. QED
  BY <1>1, <1>2, <1>3, TypeCorrect, StatusAlways, PTL DEF Spec

(* ... and the namespace is only terminated for a CR that is being deleted, *)
(* if ensureNamespace made it.                                              *)
THEOREM OnlyTheDeletedGo == ASSUME FreshNamespace PROVE Spec => OnlyDeletionTerminates
<1>1. Init => OrphanInv
  BY InitOrphan
<1>2. TypeOK /\ StatusInv /\ OrphanInv /\ [Next]_vars => OrphanInv'
  BY NextOrphan
<1>3. TypeOK /\ StatusInv /\ OrphanInv /\ [Next]_vars =>
        [ns.state = "active" /\ ns'.state # "active"
           => ns.labelled /\ cr.exists /\ cr.deleting]_vars
  BY NextOrphan DEF OnlyDeleted
<1>4. QED
  BY <1>1, <1>2, <1>3, TypeCorrect, StatusAlways, PTL DEF Spec, OnlyDeletionTerminates
=============================================================================
