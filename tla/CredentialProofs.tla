--------------------------- MODULE CredentialProofs ---------------------------
(***************************************************************************)
(* The contents of the stack: for every Plan in which what is copied is made*)
(* before its copies, the passwords agree and the certificates have the     *)
(* stored CA, although copies are made by passes that start from what former*)
(* ones, former processes and former CRs have left.                         *)
(***************************************************************************)
EXTENDS Credentials, StackProofs

-----------------------------------------------------------------------------
(* Credentials only adds contents: whatever is proved of Lifecycle holds.   *)

LEMMA CredentialsStep == [CredentialsNext]_<<vars, secretVars>> => [Next]_vars
  BY DEF CredentialsNext, Next, ReadPostgresPassword, ReadRustfsPassword, DeleteClaim,
     InitCluster

LEMMA CredentialsAreSpec == CredentialsSpec => Spec
  BY CredentialsStep, PTL DEF CredentialsSpec, Spec

-----------------------------------------------------------------------------
(* The CR that the objects belong to, and the manifest it has.              *)

(* Objects that a deletion cleans up belong to a CR that is held.           *)
HeldInv == ns.state = "active" /\ (\E r \in objs : r[1] \in Cleaned) => Held(cr)

(* The pass goes by the manifest of the CR, although its copy may be stale: *)
(* a CR seen alive has not been replaced since.                             *)
ChoiceInv ==
  /\ Live(cachedCr) => Alike(cachedCr.services, cr.services, Choices)
  /\ pc \in {"start"} \cup Provisioning => Alike(cn.services, cr.services, Choices)

(* A held CR keeps its choices until its finalizer goes.                    *)
LEMMA HeldStep ==
  ASSUME EditsKeep(Choices), TypeOK, StatusInv, ManifestInv, [Next]_vars, Held(cr)
  PROVE  RemoveFinalizer \/ (Held(cr') /\ Alike(cr'.services, cr.services, Choices))
<1>1. CASE CrKept
  BY <1>1 DEF CrKept, Alike
<1>2. CASE CrGone \/ CrApplied
  BY <1>2 DEF CrGone, CrApplied, Held
<1>3. CASE CrEdited
  BY <1>3, EditKeeps DEF CrEdited, Held
<1>4. QED
  BY <1>1, <1>2, <1>3, CrStep

(* So does the CR of any object that a cleanup would have deleted.          *)
LEMMA OwnerStep ==
  ASSUME EditsKeep(Choices), TypeOK, StatusInv, ManifestInv, CleanInv, HeldInv, [Next]_vars,
         ns.state = "active", NEW r \in objs, r[1] \in Cleaned
  PROVE  Held(cr') /\ Alike(cr'.services, cr.services, Choices)
<1>1. Held(cr)
  BY DEF HeldInv
<1>2. ~RemoveFinalizer
  BY DEF RemoveFinalizer, CleanInv
<1>3. QED
  BY <1>1, <1>2, HeldStep

LEMMA NextHeld ==
  ASSUME EditsKeep(Choices), TypeOK, StatusInv, OrphanInv, RemovalInv, ManifestInv,
         HeldInv, [Next]_vars
  PROVE  HeldInv'
<1>1. CASE Shrinks \/ CleansUp
  <2>1. SUFFICES ASSUME ns'.state = "active", NEW r \in objs', r[1] \in Cleaned
                 PROVE  Held(cr')
    BY DEF HeldInv
  <2>2. ns.state = "active" /\ r \in objs
    BY <1>1, <2>1 DEF Shrinks, CleansUp
  <2>3. QED
    BY <2>1, <2>2, OwnerStep DEF RemovalInv
<1>2. CASE Creates
  <2>1. cr' = cr /\ Held(cr)
    BY <1>2 DEF Creates, CreateObject, OrphanInv, PassOrphan, Provisioning
  <2>2. QED
    BY <2>1 DEF HeldInv
<1>3. CASE Begins
  BY <1>3 DEF Begins, HeldInv
<1>4. QED
  BY <1>1, <1>2, <1>3, ObjsStep DEF RemovalInv

(* Where the copy of a provisioning pass comes from.                        *)
LEMMA CopyStep ==
  ASSUME TypeOK, StatusInv, OrphanInv, [Next]_vars, pc' \in {"start"} \cup Provisioning
  PROVE  \/ pc \in {"start"} \cup Provisioning /\ cn'.services = cn.services
         \/ Live(cachedCr) /\ cn' = cachedCr /\ cr' = cr
         \/ cn' = cr'
<1>1. cn \in CR /\ cachedCr \in CR
  BY DEF TypeOK, WorkerOK, CachesOK
<1>2. CASE Get
  <2>1. pc' = Dispatch(cachedCr) /\ pc' # "idle" /\ cn' = cachedCr /\ cr' = cr
    BY <1>2 DEF Get, server, Provisioning, Failing
  <2>2. Live(cachedCr)
    BY <1>1, <2>1 DEF Dispatch, Live, Held, CR, Provisioning, Failing
  <2>3. QED
    BY <2>1, <2>2
<1>3. CASE AddFinalizer
  BY <1>3 DEF AddFinalizer, WriteSucceeds, Accept, Continue, ReturnError, Return, Provisioning,
     Failing
<1>4. CASE StartProvisioning
  <2>1. pc = "start" /\ cn' = [cn EXCEPT !.phase = "Provisioning"]
    BY <1>4 DEF StartProvisioning, Continue, ReturnError, Return, Provisioning, Failing
  <2>2. cn'.services = cn.services
    BY <1>1, <2>1 DEF CR
  <2>3. QED
    BY <2>1, <2>2
<1>5. CASE ServiceFailed
  <2>1. pc = "serviceFailed" /\ cn' = [cn EXCEPT !.marks =
          [n \in StatusNames |-> IF n \in OwnedBy(Plan[k]) THEN "failed"
                                 ELSE Reported(cn.marks, k)[n]]]
    BY <1>5 DEF ServiceFailed
  <2>2. cn'.services = cn.services
    BY <1>1, <2>1 DEF CR
  <2>3. QED
    BY <2>1, <2>2 DEF Provisioning, Failing
<1>6. CASE ensureNamespace \/ SkipStep \/ FindObject \/ ReadObject \/ CreateObject
  <2>1. pc \in {"namespace", "plan"}
    BY <1>6 DEF ensureNamespace, SkipStep, FindObject, ReadObject, CreateObject, Creating, AtStep
  <2>2. (\E next, step : Goto(next, step)) \/ ReturnError
    BY <1>6, FailGoto DEF ensureNamespace, SkipStep, FindObject, ReadObject, CreateObject
  <2>3. ~ReturnError
    BY DEF ReturnError, Return, Provisioning, Failing
  <2>4. QED
    BY <2>1, <2>2, <2>3 DEF Goto, Provisioning
<1>7. CASE \/ setFailed \/ MarkReady \/ cleanupClientResources \/ deleteNamespace
           \/ RemoveFinalizer \/ Restart
  BY <1>7, CleanupFrame DEF setFailed, MarkReady, deleteNamespace,
     RemoveFinalizer, Restart, ReturnError, Return, Goto, Provisioning, Failing
<1>8. CASE \/ ApplyCr \/ EditSpec \/ DeleteCr \/ EmptyNamespace \/ DropNamespace \/ Deliver
           \/ UNCHANGED vars
  BY <1>8 DEF ApplyCr, EditSpec, DeleteCr, UserWrites, EmptyNamespace, DropNamespace,
     Deliver, DeliverCr, DeliverNs, DeliverObj, vars, worker
<1>9. QED
  BY <1>2, <1>3, <1>4, <1>5, <1>6, <1>7, <1>8 DEF Next, Reconcile, Environment

LEMMA NextChoice ==
  ASSUME EditsKeep(Choices), TypeOK, StatusInv, OrphanInv, ManifestInv, ChoiceInv, [Next]_vars
  PROVE  ChoiceInv'
<1>1. ASSUME Live(cachedCr), cachedCr' = cachedCr
      PROVE  Alike(cachedCr.services, cr'.services, Choices)
  <2>1. Held(cr) /\ ~RemoveFinalizer
    BY <1>1 DEF OrphanInv, CacheOrphan, PassOrphan, RemoveFinalizer, Deleting
  <2>2. Alike(cr'.services, cr.services, Choices)
    BY <2>1, HeldStep
  <2>3. QED
    BY <1>1, <2>2 DEF ChoiceInv, Alike
<1>2. Live(cachedCr') => Alike(cachedCr'.services, cr'.services, Choices)
  BY <1>1, CachedStep DEF Alike
<1>3. ASSUME pc' \in {"start"} \cup Provisioning
      PROVE  Alike(cn'.services, cr'.services, Choices)
  <2>1. CASE pc \in {"start"} \cup Provisioning /\ cn'.services = cn.services
    <3>1. Held(cr) /\ ~RemoveFinalizer
      BY <2>1 DEF OrphanInv, PassOrphan, RemoveFinalizer, Provisioning, Failing
    <3>2. Alike(cr'.services, cr.services, Choices)
      BY <3>1, HeldStep
    <3>3. QED
      BY <2>1, <3>2 DEF ChoiceInv, Alike
  <2>2. CASE Live(cachedCr) /\ cn' = cachedCr /\ cr' = cr
    BY <2>2 DEF ChoiceInv
  <2>3. CASE cn' = cr'
    BY <2>3 DEF Alike
  <2>4. QED
    BY <1>3, <2>1, <2>2, <2>3, CopyStep
<1>4. QED
  BY <1>2, <1>3 DEF ChoiceInv, Live, Held

(* The generated admin credentials are there before their copies.           *)
AdminInv ==
  "generatedAdminPassword" \in cr.services.enabled =>
    Backed(AdminCredentials, NinegateSecret) /\ Backed(AdminCredentials, DexConfig)

LEMMA HolderKinds ==
  /\ \A r \in Holders : r[1] \in Cleaned
  /\ NinegateSecret \in Holders /\ DexConfig \in Holders /\ AdminCredentials \in Holders
  /\ PostgresSecret \in Holders /\ RustfsSecret \in Holders /\ GlauthConfig \in Holders
  /\ CaSecret \in Holders /\ TlsSecrets \subseteq Holders
  BY KindSet
  DEF Holders, TlsSecrets, NinegateSecret, DexConfig, AdminCredentials, PostgresSecret,
      RustfsSecret, GlauthConfig, CaSecret, Secret, ConfigMap

LEMMA NextAdmin ==
  ASSUME EditsKeep(Choices), CopiesInOrder,
         TypeOK, StatusInv, PlanInv, RemovalInv, ManifestInv, HeldInv, ChoiceInv,
         AdminInv, [Next]_vars
  PROVE  AdminInv'
<1>1. SUFFICES ASSUME "generatedAdminPassword" \in cr'.services.enabled,
                      NEW s \in {NinegateSecret, DexConfig}, ~Removing', ~Bare',
                      ns'.state = "active", s \in objs'
               PROVE  AdminCredentials \in objs'
  BY HolderKinds DEF AdminInv, Backed, Follows, Bare
<1>c. "generatedAdminPassword" \in Choices
  BY DEF Choices
<1>2. ~Removing /\ (Shrinks \/ Creates)
  BY <1>1, RemovalStep
<1>3. CASE Shrinks
  <2>1. ns.state = "active" /\ objs' = objs
    BY <1>1, <1>3 DEF Shrinks
  <2>2. Alike(cr'.services, cr.services, Choices)
    BY <1>1, <2>1, OwnerStep, HolderKinds DEF RemovalInv
  <2>3. "generatedAdminPassword" \in cr.services.enabled
    BY <1>c, <1>1, <2>2 DEF Alike
  <2>4. QED
    BY <1>1, <1>2, <2>1, <2>3 DEF AdminInv, Backed, Follows
<1>4. CASE Creates
  <2>1. cr' = cr
    BY <1>4 DEF Creates, CreateObject
  <2>2. CASE s = Plan[k].res
    <3>1. "generatedAdminPassword" \in cn.services.enabled
      BY <1>c, <1>1, <1>4, <2>1 DEF Creates, ChoiceInv, Provisioning, Alike
    <3>2. PICK i \in DOMAIN Plan : i < k /\ Plan[i].res = AdminCredentials
      BY <1>4, <2>2 DEF Creates, CopiesInOrder
    <3>3. Enabled(cn.services, Plan[i])
      BY <3>1, <3>2 DEF CopiesInOrder, Enabled
    <3>4. QED
      BY <1>4, <3>2, <3>3 DEF Creates, PlanInv, Behind
  <2>3. CASE s # Plan[k].res
    BY <1>1, <1>2, <1>4, <2>1, <2>3 DEF Creates, AdminInv, Backed, Follows
  <2>4. QED
    BY <2>2, <2>3
<1>5. QED
  BY <1>2, <1>3, <1>4

-----------------------------------------------------------------------------
(* The contents of the objects.                                             *)

(* The steps that move them, and the others.                                *)
Moves ==
  /\ MoveContents
  /\ \/ Reconcile /\ (AtPasswords => rustfsPass # None) /\ (CleanedUp => ~claimListed)
     \/ Deliver \/ Environment

Rests ==
  /\ UNCHANGED <<vars, contents>>
  /\ \/ ReadPostgresPassword \/ ReadRustfsPassword \/ DeleteClaim \/ InitCluster
     \/ UNCHANGED <<locals, volume>>

LEMMA MovesOrRests == [CredentialsNext]_<<vars, secretVars>> => Moves \/ Rests
  BY DEF CredentialsNext, Moves, Rests, ReadPostgresPassword, ReadRustfsPassword, DeleteClaim,
     InitCluster, secretVars

LEMMA MovesNext == Moves => [Next]_vars
  BY DEF Moves, Next

LEMMA RestsUnchanged ==
  ASSUME Rests
  PROVE  UNCHANGED <<cr, ns, objs, cachedObjs, pc, cn, k, val, cachedVal>>
  BY DEF Rests, vars, server, caches, worker, contents

LEMMA ValKept ==
  ASSUME StoreContents, NEW r \in Holders, r \in objs, r \in objs'
  PROVE  val'[r] = val[r]
  BY DEF StoreContents

LEMMA ValNew ==
  ASSUME StoreContents, NEW r \in Holders, r \notin objs, r \in objs'
  PROVE  val'[r] = Data(r)
  BY DEF StoreContents

LEMMA HoldersDiffer ==
  /\ PostgresSecret \notin {RustfsSecret, AdminCredentials, NinegateSecret, GlauthConfig,
                            DexConfig, CaSecret} \cup TlsSecrets
  /\ RustfsSecret \notin {AdminCredentials, NinegateSecret, GlauthConfig,
                          DexConfig, CaSecret} \cup TlsSecrets
  /\ AdminCredentials \notin {NinegateSecret, GlauthConfig, DexConfig, CaSecret} \cup TlsSecrets
  /\ NinegateSecret \notin {GlauthConfig, DexConfig, CaSecret} \cup TlsSecrets
  /\ GlauthConfig \notin {DexConfig, CaSecret} \cup TlsSecrets
  /\ DexConfig \notin {CaSecret} \cup TlsSecrets
  /\ CaSecret \notin TlsSecrets
  BY DEF TlsSecrets, NinegateSecret, DexConfig, AdminCredentials, PostgresSecret,
     RustfsSecret, GlauthConfig, CaSecret, Secret, ConfigMap

LEMMA DataOf ==
  /\ Data(PostgresSecret) = [postgres |-> pgPass]
  /\ Data(RustfsSecret) = [rustfs |-> rustfsPass]
  /\ Data(AdminCredentials) = [admin |-> generateRandomPassword("admin")]
  /\ Data(NinegateSecret) = NinegateSecretData
  /\ Data(GlauthConfig) = [postgres |-> cachedVal[PostgresSecret].postgres]
  /\ Data(DexConfig) = DexConfigData
  /\ Data(CaSecret) = GenerateCA
  /\ \A t \in TlsSecrets : Plan[k].owner = "core" => Data(t) = SignCertMultiSAN
  BY HoldersDiffer DEF Data

(* With fresh informers the caches show the contents as they are.           *)
ShownInv == cachedVal = val

LEMMA NextShown ==
  ASSUME PlanInv, PlanInv', ShownInv, Moves \/ Rests
  PROVE  ShownInv'
<1>1. CASE Moves
  BY <1>1 DEF Moves, MoveContents, StoreContents, ShowContents, PlanInv, ShownInv
<1>2. CASE Rests
  BY <1>2, RestsUnchanged DEF ShownInv
<1>3. QED
  BY <1>1, <1>2

(* A pass stays in the plan by going on, or while others take steps.        *)
LEMMA PlanStep ==
  ASSUME TypeOK, [Next]_vars, pc' = "plan"
  PROVE  \/ pc = "namespace" /\ k' = 1
         \/ /\ pc = "plan" /\ cn' = cn
            /\ k' = k \/ (Reconcile /\ k <= Len(Plan) /\ k \in DOMAIN Plan /\ k' = k + 1)
<1>1. CASE ensureNamespace
  BY <1>1 DEF ensureNamespace, Goto
<1>2. CASE SkipStep \/ FindObject \/ ReadObject \/ CreateObject
  <2>1. pc = "plan" /\ k <= Len(Plan)
    BY <1>2 DEF SkipStep, FindObject, ReadObject, CreateObject, Creating, AtStep
  <2>2. Goto("plan", k + 1) \/ Fail(Plan[k]) \/ ReturnError
    BY <1>2 DEF SkipStep, FindObject, ReadObject, CreateObject
  <2>3. Fail(Plan[k]) \/ ReturnError => pc' # "plan"
    BY FailGoto DEF ReturnError, Return, Goto, Failing
  <2>4. k \in DOMAIN Plan
    BY <2>1, PlanAssumption DEF TypeOK, WorkerOK
  <2>5. QED
    BY <1>2, <2>1, <2>2, <2>3, <2>4 DEF Goto, Reconcile
<1>3. CASE \/ Get \/ AddFinalizer \/ StartProvisioning \/ ServiceFailed \/ setFailed \/ MarkReady
           \/ cleanupClientResources \/ deleteNamespace \/ RemoveFinalizer \/ Restart
  <2>1. \A c : Dispatch(c) # "plan"
    BY DispatchType
  <2>2. pc' # "plan"
    BY <1>3, <2>1, CleanupFrame
    DEF Get, AddFinalizer, StartProvisioning, ServiceFailed, setFailed, MarkReady,
        deleteNamespace, RemoveFinalizer, Restart, ReturnError, Return, Continue, Goto
  <2>3. QED
    BY <2>2
<1>4. CASE \/ ApplyCr \/ EditSpec \/ DeleteCr \/ EmptyNamespace \/ DropNamespace \/ Deliver
           \/ UNCHANGED vars
  BY <1>4 DEF ApplyCr, EditSpec, DeleteCr, UserWrites, EmptyNamespace, DropNamespace,
     Deliver, DeliverCr, DeliverNs, DeliverObj, vars, worker
<1>5. QED
  BY <1>1, <1>2, <1>3, <1>4 DEF Next, Reconcile, Environment

-----------------------------------------------------------------------------
(* The passwords that a pass has in hand.                                   *)

LocalsInv ==
  /\ pc # "plan" => pgPass = None /\ rustfsPass = None
  /\ rustfsPass # None => pgPass # None
  /\ pc = "plan" /\ (\E j \in DOMAIN Plan : j < k /\ Plan[j].res = PostgresSecret)
       => rustfsPass # None
  /\ pgPass # None /\ "postgresRootPassword" \in cn.services.enabled
       => pgPass = <<"postgresRootPassword", 0>>
  /\ rustfsPass # None /\ "rustfsRootPassword" \in cn.services.enabled
       => rustfsPass = <<"rustfsRootPassword", 0>>

LEMMA MovesLocals ==
  ASSUME TypeOK, LocalsInv, Moves
  PROVE  LocalsInv'
<1>1. KeepLocals /\ [Next]_vars
  BY MovesNext DEF Moves, MoveContents
<1>2. CASE pc' # "plan"
  BY <1>1, <1>2 DEF KeepLocals, LocalsInv
<1>3. CASE pc' = "plan"
  <2>1. pgPass' = pgPass /\ rustfsPass' = rustfsPass
    BY <1>1, <1>3 DEF KeepLocals
  <2>2. CASE pc = "namespace" /\ k' = 1
    <3>1. \A j \in DOMAIN Plan : ~(j < 1)
      BY PlanAssumption
    <3>2. QED
      BY <1>3, <2>1, <2>2, <3>1 DEF LocalsInv
  <2>3. CASE pc = "plan" /\ cn' = cn /\ k' = k
    BY <1>3, <2>1, <2>3 DEF LocalsInv
  <2>4. CASE /\ pc = "plan" /\ cn' = cn /\ Reconcile /\ k <= Len(Plan) /\ k \in DOMAIN Plan
             /\ k' = k + 1
    <3>1. \A j \in DOMAIN Plan : j < k + 1 => j < k \/ j = k
      BY PlanAssumption DEF TypeOK, WorkerOK
    <3>2. Plan[k].res = PostgresSecret => rustfsPass # None
      <4>1. ~Deliver /\ ~Environment
        <5>1. Deliver => UNCHANGED k
          BY DEF Deliver, DeliverCr, DeliverNs, DeliverObj, worker
        <5>2. Environment => k' = k \/ pc' = "idle"
          BY DEF Environment, Restart, ApplyCr, EditSpec, DeleteCr, UserWrites, EmptyNamespace,
             DropNamespace, worker
        <5>3. k + 1 # k
          BY DEF TypeOK, WorkerOK
        <5>4. QED
          BY <1>3, <2>4, <5>1, <5>2, <5>3
      <4>2. QED
        BY <2>4, <4>1 DEF Moves, AtPasswords
    <3>3. QED
      BY <1>3, <2>1, <2>4, <3>1, <3>2 DEF LocalsInv
  <2>5. QED
    BY <1>1, <1>3, <2>2, <2>3, <2>4, PlanStep
<1>4. QED
  BY <1>2, <1>3

LEMMA RestsLocals ==
  ASSUME LocalsInv, Rests
  PROVE  LocalsInv'
<1>1. UNCHANGED <<pc, cn, k>>
  BY RestsUnchanged
<1>2. CASE ReadPostgresPassword
  <2>1. /\ pc = "plan" /\ rustfsPass = None /\ rustfsPass' = rustfsPass
        /\ pgPass' = getOrCreatePassword("postgresRootPassword", PostgresSecret, "postgres")
    BY <1>2 DEF ReadPostgresPassword, AtPasswords, LocalsInv
  <2>2. "postgresRootPassword" \in cn.services.enabled => pgPass' = <<"postgresRootPassword", 0>>
    BY <2>1 DEF getOrCreatePassword
  <2>3. QED
    BY <1>1, <2>1, <2>2 DEF LocalsInv
<1>3. CASE ReadRustfsPassword
  <2>1. /\ pc = "plan" /\ rustfsPass = None /\ pgPass # None /\ pgPass' = pgPass
        /\ rustfsPass' = getOrCreatePassword("rustfsRootPassword", RustfsSecret, "rustfs")
    BY <1>3 DEF ReadRustfsPassword, AtPasswords
  <2>2. "rustfsRootPassword" \in cn.services.enabled => rustfsPass' = <<"rustfsRootPassword", 0>>
    BY <2>1 DEF getOrCreatePassword
  <2>3. QED
    BY <1>1, <2>1, <2>2 DEF LocalsInv
<1>4. CASE DeleteClaim \/ InitCluster \/ UNCHANGED <<locals, volume>>
  BY <1>1, <1>4 DEF DeleteClaim, InitCluster, locals, LocalsInv
<1>5. QED
  BY <1>2, <1>3, <1>4 DEF Rests

(* Nobody creates an object but the pass, which has both passwords by then. *)
LEMMA CreatesPasswords ==
  ASSUME TypeOK, LocalsInv, Moves, Creates,
         Plan[k].res = PostgresSecret \/
           (\E j \in DOMAIN Plan : j < k /\ Plan[j].res = PostgresSecret)
  PROVE  /\ pgPass # None /\ rustfsPass # None
         /\ "postgresRootPassword" \in cn.services.enabled
              => pgPass = <<"postgresRootPassword", 0>>
         /\ "rustfsRootPassword" \in cn.services.enabled
              => rustfsPass = <<"rustfsRootPassword", 0>>
<1>1. pc = "plan" /\ k \in DOMAIN Plan /\ ns.state = "active" /\ ~(objs' \subseteq objs)
  BY DEF Creates
<1>2. ~Deliver /\ ~Environment
  BY <1>1 DEF Deliver, DeliverCr, DeliverNs, DeliverObj, Environment, Restart, ApplyCr, EditSpec,
     DeleteCr, UserWrites, EmptyNamespace, DropNamespace, server
<1>3. k <= Len(Plan)
  BY <1>1, PlanAssumption
<1>4. rustfsPass # None
  BY <1>1, <1>2, <1>3 DEF Moves, AtPasswords, LocalsInv
<1>5. QED
  BY <1>4 DEF LocalsInv

-----------------------------------------------------------------------------
(* The root Secrets hold what the CR overrides, and what the pass has.      *)

ValueInv ==
  ns.state = "active" =>
    /\ PostgresSecret \in objs /\ "postgresRootPassword" \in cr.services.enabled
         => val[PostgresSecret].postgres = <<"postgresRootPassword", 0>>
    /\ RustfsSecret \in objs /\ "rustfsRootPassword" \in cr.services.enabled
         => val[RustfsSecret].rustfs = <<"rustfsRootPassword", 0>>

PassInv ==
  ns.state = "active" =>
    /\ pgPass # None /\ PostgresSecret \in objs => val[PostgresSecret].postgres = pgPass
    /\ rustfsPass # None /\ RustfsSecret \in objs => val[RustfsSecret].rustfs = rustfsPass

LEMMA RestsValue ==
  ASSUME PlanInv, ShownInv, ChoiceInv, ValueInv, PassInv, Rests
  PROVE  ValueInv' /\ PassInv'
<1>1. UNCHANGED <<cr, ns, objs, cachedObjs, pc, cn, k, val, cachedVal>>
  BY RestsUnchanged
<1>2. ValueInv'
  BY <1>1 DEF ValueInv
<1>3. ASSUME pc = "plan"
      PROVE  \A choice \in Choices : choice \in cn.services.enabled
                                       <=> choice \in cr.services.enabled
  BY <1>3 DEF ChoiceInv, Alike, Provisioning
<1>4. "postgresRootPassword" \in Choices /\ "rustfsRootPassword" \in Choices
  BY DEF Choices
<1>5. CASE ReadPostgresPassword
  <2>1. /\ pc = "plan" /\ rustfsPass' = rustfsPass
        /\ pgPass' = getOrCreatePassword("postgresRootPassword", PostgresSecret, "postgres")
    BY <1>5 DEF ReadPostgresPassword, AtPasswords
  <2>2. ns.state = "active" /\ PostgresSecret \in objs => val[PostgresSecret].postgres = pgPass'
    BY <1>3, <1>4, <2>1 DEF getOrCreatePassword, ValueInv, PlanInv, ShownInv
  <2>3. QED
    BY <1>1, <1>2, <2>1, <2>2 DEF PassInv
<1>6. CASE ReadRustfsPassword
  <2>1. /\ pc = "plan" /\ pgPass' = pgPass
        /\ rustfsPass' = getOrCreatePassword("rustfsRootPassword", RustfsSecret, "rustfs")
    BY <1>6 DEF ReadRustfsPassword, AtPasswords
  <2>2. ns.state = "active" /\ RustfsSecret \in objs => val[RustfsSecret].rustfs = rustfsPass'
    BY <1>3, <1>4, <2>1 DEF getOrCreatePassword, ValueInv, PlanInv, ShownInv
  <2>3. QED
    BY <1>1, <1>2, <2>1, <2>2 DEF PassInv
<1>7. CASE DeleteClaim \/ InitCluster \/ UNCHANGED <<locals, volume>>
  BY <1>1, <1>2, <1>7 DEF DeleteClaim, InitCluster, locals, PassInv
<1>8. QED
  BY <1>5, <1>6, <1>7 DEF Rests

LEMMA MovesValue ==
  ASSUME EditsKeep(Choices), CopiesInOrder,
         TypeOK, StatusInv, PlanInv, RemovalInv, ManifestInv, HeldInv, ChoiceInv,
         LocalsInv, ValueInv, PassInv, Moves
  PROVE  ValueInv' /\ PassInv'
<1>1. StoreContents /\ KeepLocals /\ [Next]_vars
  BY MovesNext DEF Moves, MoveContents
<1>2. PostgresSecret \in Holders /\ RustfsSecret \in Holders /\ PostgresSecret[1] \in Cleaned
      /\ RustfsSecret[1] \in Cleaned /\ PostgresSecret # RustfsSecret
  BY HolderKinds, HoldersDiffer
<1>3. "postgresRootPassword" \in Choices /\ "rustfsRootPassword" \in Choices
  BY DEF Choices
<1>4. /\ pgPass' # None => pgPass' = pgPass
      /\ rustfsPass' # None => rustfsPass' = rustfsPass
  BY <1>1 DEF KeepLocals
<1>5. CASE Shrinks \/ CleansUp
  <2>1. SUFFICES ASSUME ns'.state = "active" PROVE ValueInv' /\ PassInv'
    BY DEF ValueInv, PassInv
  <2>2. ns.state = "active" /\ objs' \subseteq objs
    BY <1>5, <2>1 DEF Shrinks, CleansUp
  <2>3. \A r \in {PostgresSecret, RustfsSecret} : r \in objs' =>
          /\ r \in objs /\ val'[r] = val[r]
          /\ Alike(cr'.services, cr.services, Choices)
    BY <1>1, <1>2, <2>2, ValKept, OwnerStep DEF RemovalInv
  <2>4. ValueInv'
    BY <1>3, <2>2, <2>3 DEF ValueInv, Alike
  <2>5. PassInv'
    BY <1>4, <2>2, <2>3 DEF PassInv
  <2>6. QED
    BY <2>4, <2>5
<1>6. CASE Creates
  <2>1. /\ pc = "plan" /\ ns.state = "active" /\ Plan[k].res \notin objs
        /\ objs' = objs \cup {Plan[k].res} /\ k \in DOMAIN Plan
    BY <1>6 DEF Creates
  <2>2. cr' = cr
    BY <1>6 DEF Creates, CreateObject
  <2>3. \A choice \in Choices : choice \in cr.services.enabled => choice \in cn.services.enabled
    BY <2>1 DEF ChoiceInv, Alike, Provisioning
  <2>4. \A r \in {PostgresSecret, RustfsSecret} : r \in objs => val'[r] = val[r] /\ r # Plan[k].res
    BY <1>1, <1>2, <2>1, ValKept
  <2>5. CASE Plan[k].res = PostgresSecret
    <3>1. val'[PostgresSecret].postgres = pgPass
      <4>1. val'[PostgresSecret] = [postgres |-> pgPass]
        BY <1>1, <1>2, <2>1, <2>5, ValNew, DataOf
      <4>2. QED
        BY <4>1
    <3>2. "postgresRootPassword" \in cr'.services.enabled
            => pgPass = <<"postgresRootPassword", 0>>
      BY <1>3, <1>6, <2>2, <2>3, <2>5, CreatesPasswords
    <3>3. RustfsSecret \in objs' => RustfsSecret \in objs
      BY <1>2, <2>1, <2>5
    <3>4. ValueInv'
      BY <2>1, <2>2, <2>4, <3>1, <3>2, <3>3 DEF ValueInv
    <3>5. PassInv'
      BY <1>4, <2>1, <2>4, <3>1, <3>3 DEF PassInv
    <3>6. QED
      BY <3>4, <3>5
  <2>6. CASE Plan[k].res = RustfsSecret
    <3>1. val'[RustfsSecret].rustfs = rustfsPass
      <4>1. val'[RustfsSecret] = [rustfs |-> rustfsPass]
        BY <1>1, <1>2, <2>1, <2>6, ValNew, DataOf
      <4>2. QED
        BY <4>1
    <3>2. "rustfsRootPassword" \in cr'.services.enabled
            => rustfsPass = <<"rustfsRootPassword", 0>>
      <4>1. \E j \in DOMAIN Plan : j < k /\ Plan[j].res = PostgresSecret
        BY <2>1, <2>6 DEF CopiesInOrder, Before
      <4>2. QED
        BY <1>3, <1>6, <2>2, <2>3, <4>1, CreatesPasswords
    <3>3. PostgresSecret \in objs' => PostgresSecret \in objs
      BY <1>2, <2>1, <2>6
    <3>4. ValueInv'
      BY <2>1, <2>2, <2>4, <3>1, <3>2, <3>3 DEF ValueInv
    <3>5. PassInv'
      BY <1>4, <2>1, <2>4, <3>1, <3>3 DEF PassInv
    <3>6. QED
      BY <3>4, <3>5
  <2>7. CASE Plan[k].res \notin {PostgresSecret, RustfsSecret}
    <3>1. \A r \in {PostgresSecret, RustfsSecret} : r \in objs' => r \in objs
      BY <2>1, <2>7
    <3>2. ValueInv'
      BY <2>1, <2>2, <2>4, <3>1 DEF ValueInv
    <3>3. PassInv'
      BY <1>4, <2>1, <2>4, <3>1 DEF PassInv
    <3>4. QED
      BY <3>2, <3>3
  <2>8. QED
    BY <2>5, <2>6, <2>7
<1>7. CASE Begins
  <2>1. PostgresSecret \notin objs' /\ RustfsSecret \notin objs'
    BY <1>7 DEF Begins
  <2>2. QED
    BY <2>1 DEF ValueInv, PassInv
<1>8. QED
  BY <1>1, <1>5, <1>6, <1>7, ObjsStep DEF RemovalInv

-----------------------------------------------------------------------------
(* The volume of PostgreSQL never outlives its password: the cleanup takes  *)
(* the password first, and lets go of the CR only after the claim.          *)

ClusterInv ==
  /\ ns.state = "absent" => cluster = None
  /\ ns.state = "active" /\ cluster # None => Removing \/ PostgresSecret \in objs
  /\ PostgresSecret \in objs => cluster \in {None, val[PostgresSecret].postgres}
  /\ ns.state = "active" /\ pc = "cleanup" /\ k = Len(CleanedKinds) /\ ~claimListed
       => cluster = None
  /\ ns.state = "active" /\ pc = "removeFinalizer" => cluster = None

LEMMA KindOrder == CleanedKinds[1] = "Secret" /\ CleanedKinds[6] = "PersistentVolumeClaim"
  BY DEF CleanedKinds

(* Nothing starts PostgreSQL again once the claims are listed.              *)
LEMMA NoPassword ==
  ASSUME CleanInv, (pc = "cleanup" /\ k = Len(CleanedKinds)) \/ pc = "removeFinalizer"
  PROVE  PostgresSecret \notin objs
<1>1. PostgresSecret[1] = "Secret" /\ "Secret" \in Cleaned
  BY KindSet DEF PostgresSecret, Secret
<1>2. CASE pc = "cleanup" /\ k = Len(CleanedKinds)
  <2>1. CleanedKindsGone /\ k = 6
    BY <1>2, KindCount DEF CleanInv
  <2>2. PostgresSecret \in objs => PostgresSecret \in listed
    BY <1>1, <2>1, KindOrder DEF CleanedKindsGone
  <2>3. QED
    BY <1>1, <2>1, <2>2, KindOrder DEF CleanedKindsGone
<1>3. QED
  BY <1>1, <1>2 DEF CleanInv

LEMMA RestsCluster ==
  ASSUME NoFailedDelete, CleanInv, ClusterInv, Rests
  PROVE  ClusterInv'
<1>1. UNCHANGED <<cr, cachedCr, ns, objs, pc, k, val>>
  BY DEF Rests, vars, server, caches, worker, contents
<1>2. Removing' <=> Removing
  BY <1>1 DEF Removing
<1>3. CASE InitCluster
  <2>1. PostgresSecret \in postgresql_ensureStatefulSet.uses
    BY DEF postgresql_ensureStatefulSet, Workload, PostgresSecret
  <2>2. /\ ns.state = "active" /\ PostgresSecret \in objs
        /\ cluster' = val[PostgresSecret].postgres
    BY <1>3, <2>1 DEF InitCluster
  <2>3. ~(pc = "cleanup" /\ k = Len(CleanedKinds)) /\ pc # "removeFinalizer"
    BY <2>2, NoPassword
  <2>4. QED
    BY <1>1, <2>2, <2>3 DEF ClusterInv
<1>4. CASE DeleteClaim
  <2>1. cluster' = None
    BY <1>4 DEF DeleteClaim, NoFailedDelete
  <2>2. QED
    BY <2>1 DEF ClusterInv
<1>5. CASE ReadPostgresPassword \/ ReadRustfsPassword \/ UNCHANGED <<locals, volume>>
  <2>1. UNCHANGED <<cluster, claimListed>>
    BY <1>5 DEF ReadPostgresPassword, ReadRustfsPassword, volume
  <2>2. QED
    BY <1>1, <1>2, <2>1 DEF ClusterInv
<1>6. QED
  BY <1>3, <1>4, <1>5 DEF Rests

(* A cleanup begins with the first kind, and ends with deleteNamespace.     *)
LEMMA CleanupStep ==
  ASSUME TypeOK, [Next]_vars
  PROVE  /\ pc' = "cleanup" => pc = "cleanup" \/ k' = 0
         /\ pc' = "removeFinalizer" => pc = "removeFinalizer" \/ deleteNamespace
<1>1. CASE Get \/ AddFinalizer
  <2>1. pc' = "idle" \/ (k' = 0 /\ \E c : pc' = Dispatch(c))
    BY <1>1 DEF Get, AddFinalizer, ReturnError, Return, Continue
  <2>2. QED
    BY <2>1, DispatchType
<1>2. CASE \/ StartProvisioning \/ ensureNamespace \/ ServiceFailed \/ setFailed \/ MarkReady
           \/ RemoveFinalizer \/ Restart
  BY <1>2 DEF StartProvisioning, ensureNamespace, ServiceFailed, setFailed, MarkReady,
     RemoveFinalizer, Restart, ReturnError, Return, Continue, Goto
<1>3. CASE SkipStep \/ FindObject \/ ReadObject \/ CreateObject
  <2>1. Goto("plan", k + 1) \/ Fail(Plan[k]) \/ ReturnError
    BY <1>3 DEF SkipStep, FindObject, ReadObject, CreateObject
  <2>2. QED
    BY <2>1, FailGoto DEF ReturnError, Return, Goto, Failing
<1>4. CASE cleanupClientResources \/ deleteNamespace
  BY <1>4, CleanupFrame DEF deleteNamespace, Goto, ReturnError, Return
<1>5. CASE \/ ApplyCr \/ EditSpec \/ DeleteCr \/ EmptyNamespace \/ DropNamespace \/ Deliver
           \/ UNCHANGED vars
  BY <1>5 DEF ApplyCr, EditSpec, DeleteCr, UserWrites, EmptyNamespace, DropNamespace,
     Deliver, DeliverCr, DeliverNs, DeliverObj, vars, worker
<1>6. QED
  BY <1>1, <1>2, <1>3, <1>4, <1>5 DEF Next, Reconcile, Environment

(* The namespace goes only when the listed claim has gone.                  *)
LEMMA ClaimFirst ==
  ASSUME Moves, pc = "cleanup", pc' = "removeFinalizer", deleteNamespace
  PROVE  k = Len(CleanedKinds) /\ ~claimListed
<1>1. ~Deliver /\ ~Environment
  BY DEF Deliver, DeliverCr, DeliverNs, DeliverObj, Environment, Restart, ApplyCr, EditSpec,
     DeleteCr, UserWrites, EmptyNamespace, DropNamespace, worker
<1>2. QED
  BY <1>1 DEF Moves, deleteNamespace, CleanedUp

LEMMA MovesCluster ==
  ASSUME TypeOK, StatusInv, RemovalInv, ClusterInv, Moves
  PROVE  ClusterInv'
<1>1. StoreContents /\ KeepVolume /\ [Next]_vars
  BY MovesNext DEF Moves, MoveContents
<1>2. EmptyInv /\ CleanInv /\ DeletingInv
  BY DEF RemovalInv
<1>3. cluster' \in {cluster, None} /\ (ns'.state = "absent" => cluster' = None)
  BY <1>1 DEF KeepVolume
<1>4. CASE cluster' = None
  BY <1>4 DEF ClusterInv
<1>5. CASE cluster' # None
  <2>1. cluster' = cluster /\ cluster # None
    BY <1>3, <1>5
  <2>2. Shrinks \/ Creates \/ CleansUp
    <3>1. ~Begins
      BY <2>1 DEF Begins, ClusterInv
    <3>2. QED
      BY <1>1, <1>2, <3>1, ObjsStep
  <2>3. ns'.state = "active" => ns.state = "active"
    BY <2>2 DEF Shrinks, Creates, CleansUp
  <2>4. ns'.state = "active" => Removing' \/ PostgresSecret \in objs'
    <3>1. ASSUME ns'.state = "active", Removing PROVE Removing'
      <4>1. ~RemoveFinalizer
        BY <2>1, <2>3, <3>1 DEF RemoveFinalizer, ClusterInv
      <4>2. QED
        BY <1>1, <1>2, <3>1, <4>1, RemovingStep
    <3>2. ASSUME ns'.state = "active", ~Removing PROVE PostgresSecret \in objs'
      <4>1. PostgresSecret \in objs
        BY <2>1, <2>3, <3>2 DEF ClusterInv
      <4>2. ~Bare
        BY <4>1, HolderKinds DEF Bare
      <4>3. pc \notin Deleting
        BY <1>2, <3>2, <4>2 DEF DeletingInv
      <4>4. ~CleansUp
        BY <4>3, CleanupFrame DEF CleansUp, Deleting
      <4>5. QED
        BY <2>2, <3>2, <4>1, <4>4 DEF Shrinks, Creates
    <3>3. QED
      BY <3>1, <3>2
  <2>5. PostgresSecret \in objs' => cluster' \in {None, val'[PostgresSecret].postgres}
    <3>1. CASE PostgresSecret \in objs /\ PostgresSecret \in objs'
      <4>1. val'[PostgresSecret] = val[PostgresSecret]
        BY <1>1, <3>1, ValKept, HolderKinds
      <4>2. QED
        BY <2>1, <3>1, <4>1 DEF ClusterInv
    <3>2. CASE PostgresSecret \notin objs /\ PostgresSecret \in objs'
      <4>1. Creates
        BY <2>2, <3>2 DEF Shrinks, CleansUp
      <4>2. ns.state = "active" /\ ~Removing
        BY <4>1 DEF Creates, Removing, Deleting
      <4>3. QED
        BY <2>1, <3>2, <4>2 DEF ClusterInv
    <3>3. QED
      BY <3>1, <3>2
  <2>6. ~(ns'.state = "active" /\ pc' = "cleanup" /\ k' = Len(CleanedKinds) /\ ~claimListed')
    <3>1. SUFFICES ASSUME ns'.state = "active", pc' = "cleanup", k' = Len(CleanedKinds),
                          ~claimListed'
                   PROVE  FALSE
      OBVIOUS
    <3>2. pc = "cleanup" /\ CleanedKinds[k'] = "PersistentVolumeClaim"
      BY <1>1, <3>1, KindCount, KindOrder, CleanupStep
    <3>3. CASE k' = k
      BY <1>1, <2>1, <2>3, <3>1, <3>2, <3>3 DEF KeepVolume, ListsClaims, ClusterInv
    <3>4. CASE k' # k
      BY <1>1, <2>1, <3>1, <3>2, <3>4 DEF KeepVolume, ListsClaims
    <3>5. QED
      BY <3>3, <3>4
  <2>7. ~(ns'.state = "active" /\ pc' = "removeFinalizer")
    <3>1. SUFFICES ASSUME ns'.state = "active", pc' = "removeFinalizer" PROVE FALSE
      OBVIOUS
    <3>2. pc # "removeFinalizer"
      BY <2>1, <2>3, <3>1 DEF ClusterInv
    <3>3. deleteNamespace /\ pc = "cleanup"
      BY <1>1, <3>1, <3>2, CleanupStep DEF deleteNamespace, CleanedUp
    <3>4. QED
      BY <2>1, <2>3, <3>1, <3>3, ClaimFirst DEF ClusterInv
  <2>8. QED
    BY <1>3, <2>4, <2>5, <2>6, <2>7 DEF ClusterInv
<1>6. QED
  BY <1>4, <1>5

-----------------------------------------------------------------------------
(* The copies.                                                              *)

(* Only a creation can break an agreement.                                  *)
LEMMA SameStep ==
  ASSUME NEW r \in Holders, NEW s \in Holders, NEW f, NEW g, r # s, Same(r, f, s, g),
         StoreContents, Shrinks \/ Creates \/ CleansUp \/ Begins,
         Creates /\ Plan[k].res = r => s \notin objs,
         Creates /\ Plan[k].res = s /\ r \in objs => Data(s)[g] = val[r][f]
  PROVE  Same(r, f, s, g)'
<1>1. SUFFICES ASSUME r \in objs', s \in objs' PROVE val'[r][f] = val'[s][g]
  BY DEF Same
<1>2. CASE r \in objs /\ s \in objs
  BY <1>1, <1>2, ValKept DEF Same
<1>3. CASE Creates /\ Plan[k].res = s
  <2>1. r \in objs /\ s \notin objs
    BY <1>1, <1>3 DEF Creates
  <2>2. val'[r] = val[r] /\ val'[s] = Data(s)
    BY <1>1, <2>1, ValKept, ValNew
  <2>3. QED
    BY <1>3, <2>1, <2>2
<1>4. CASE Creates /\ Plan[k].res = r
  BY <1>1, <1>4 DEF Creates
<1>5. QED
  BY <1>1, <1>2, <1>3, <1>4 DEF Shrinks, Creates, CleansUp, Begins

(* The root Secrets and what is copied from them are there in this order.   *)
OrderInv ==
  /\ \A s \in {RustfsSecret, NinegateSecret, GlauthConfig} : Backed(PostgresSecret, s)
  /\ Backed(RustfsSecret, NinegateSecret) /\ Backed(NinegateSecret, DexConfig)
  /\ AdminInv

LEMMA MovesAgree ==
  ASSUME CopiesInOrder, TypeOK, StatusInv, PlanInv, RemovalInv, ChoiceInv,
         ShownInv, OrderInv, LocalsInv, PassInv, ClusterInv, CredentialsAgree, Moves
  PROVE  CredentialsAgree'
<1>1. StoreContents /\ KeepLocals /\ [Next]_vars
  BY MovesNext DEF Moves, MoveContents
<1>2. Shrinks \/ Creates \/ CleansUp \/ Begins
  BY <1>1, ObjsStep DEF RemovalInv
<1>3. ClusterInv'
  BY MovesCluster
<1>4. Creates => /\ ns.state = "active" /\ Plan[k].res \notin objs /\ pc = "plan"
                 /\ k \in DOMAIN Plan /\ ~Removing
  BY DEF Creates, Removing, Deleting
<1>5. Creates /\ Plan[k].res = NinegateSecret => pgPass # None /\ rustfsPass # None
  <2>1. ASSUME Creates, Plan[k].res = NinegateSecret
        PROVE  \E j \in DOMAIN Plan : j < k /\ Plan[j].res = PostgresSecret
    BY <1>4, <2>1 DEF CopiesInOrder, Before
  <2>2. QED
    BY <2>1, CreatesPasswords
<1>6. cachedObjs = objs /\ cachedVal = val
  BY DEF PlanInv, ShownInv
<1>7. Same(PostgresSecret, "postgres", NinegateSecret, "postgres")'
  <2>1. Creates /\ Plan[k].res = PostgresSecret => NinegateSecret \notin objs
    BY <1>4 DEF OrderInv, Backed, Follows
  <2>2. Creates /\ Plan[k].res = NinegateSecret /\ PostgresSecret \in objs
          => Data(NinegateSecret)["postgres"] = val[PostgresSecret]["postgres"]
    BY <1>4, <1>5, DataOf DEF NinegateSecretData, PassInv
  <2>3. QED
    BY <1>1, <1>2, <2>1, <2>2, SameStep, HolderKinds, HoldersDiffer DEF CredentialsAgree
<1>8. Same(PostgresSecret, "postgres", GlauthConfig, "postgres")'
  <2>1. Creates /\ Plan[k].res = PostgresSecret => GlauthConfig \notin objs
    BY <1>4 DEF OrderInv, Backed, Follows
  <2>2. Data(GlauthConfig)["postgres"] = val[PostgresSecret]["postgres"]
    BY <1>6, DataOf
  <2>3. QED
    BY <1>1, <1>2, <2>1, <2>2, SameStep, HolderKinds, HoldersDiffer DEF CredentialsAgree
<1>9. Same(RustfsSecret, "rustfs", NinegateSecret, "rustfs")'
  <2>1. Creates /\ Plan[k].res = RustfsSecret => NinegateSecret \notin objs
    BY <1>4 DEF OrderInv, Backed, Follows
  <2>2. Creates /\ Plan[k].res = NinegateSecret /\ RustfsSecret \in objs
          => Data(NinegateSecret)["rustfs"] = val[RustfsSecret]["rustfs"]
    BY <1>4, <1>5, DataOf DEF NinegateSecretData, PassInv
  <2>3. QED
    BY <1>1, <1>2, <2>1, <2>2, SameStep, HolderKinds, HoldersDiffer DEF CredentialsAgree
<1>10. Creates /\ Plan[k].res = AdminCredentials => NinegateSecret \notin objs /\ DexConfig \notin objs
  <2>1. SUFFICES ASSUME Creates, Plan[k].res = AdminCredentials
                 PROVE  NinegateSecret \notin objs /\ DexConfig \notin objs
    OBVIOUS
  <2>2. "generatedAdminPassword" \in cn.services.enabled
    <3>1. Plan[k].when = "generatedAdminPassword"
      BY <2>1 DEF Creates, CopiesInOrder
    <3>2. QED
      BY <2>1, <3>1 DEF Creates, Enabled
  <2>3. "generatedAdminPassword" \in cr.services.enabled
    BY <1>4, <2>1, <2>2 DEF ChoiceInv, Alike, Provisioning, Choices
  <2>4. QED
    BY <1>4, <2>1, <2>3 DEF OrderInv, AdminInv, Backed, Follows
<1>11. Same(AdminCredentials, "admin", NinegateSecret, "admin")'
  <2>1. AdminCredentials \in objs
          => Data(NinegateSecret)["admin"] = val[AdminCredentials]["admin"]
    BY <1>6, DataOf DEF NinegateSecretData, CopyOr
  <2>2. QED
    BY <1>1, <1>2, <1>10, <2>1, SameStep, HolderKinds, HoldersDiffer DEF CredentialsAgree
<1>12. Same(AdminCredentials, "admin", DexConfig, "admin")'
  <2>1. AdminCredentials \in objs
          => Data(DexConfig)["admin"] = val[AdminCredentials]["admin"]
    BY <1>6, DataOf DEF DexConfigData, CopyOr
  <2>2. QED
    BY <1>1, <1>2, <1>10, <2>1, SameStep, HolderKinds, HoldersDiffer DEF CredentialsAgree
<1>13. Same(NinegateSecret, "app", DexConfig, "client")'
  <2>1. Creates /\ Plan[k].res = NinegateSecret => DexConfig \notin objs
    BY <1>4 DEF OrderInv, Backed, Follows
  <2>2. NinegateSecret \in objs => Data(DexConfig)["client"] = val[NinegateSecret]["app"]
    BY <1>6, DataOf DEF DexConfigData, CopyOr
  <2>3. QED
    BY <1>1, <1>2, <2>1, <2>2, SameStep, HolderKinds, HoldersDiffer DEF CredentialsAgree
<1>14. (PostgresSecret \in objs => cluster \in {None, val[PostgresSecret].postgres})'
  BY <1>3 DEF ClusterInv
<1>15. QED
  BY <1>7, <1>8, <1>9, <1>11, <1>12, <1>13, <1>14 DEF CredentialsAgree

LEMMA RestsAgree ==
  ASSUME NoFailedDelete, CleanInv, ClusterInv, CredentialsAgree, Rests
  PROVE  CredentialsAgree'
<1>1. UNCHANGED <<objs, val>>
  BY RestsUnchanged
<1>2. ClusterInv'
  BY RestsCluster
<1>3. QED
  BY <1>1, <1>2 DEF CredentialsAgree, ClusterInv, Same

(* What the lifecycle alone provides.                                       *)
OwnerInv == RemovalInv /\ ManifestInv /\ HeldInv /\ ChoiceInv /\ OrderInv

LEMMA InitOwner == Init => OwnerInv
<1>1. SUFFICES ASSUME Init PROVE OwnerInv
  OBVIOUS
<1>2. objs = {} /\ cachedObjs = {} /\ pc = "idle" /\ cr = NoCr /\ cachedCr = NoCr
  BY <1>1 DEF Init
<1>3. NoCr.exists = FALSE
  BY DEF NoCr
<1>4. RemovalInv /\ ManifestInv /\ HeldInv
  BY <1>1, <1>2, <1>3, InitRemoval DEF ManifestInv, HeldInv
<1>5. ChoiceInv
  BY <1>2, <1>3 DEF ChoiceInv, Live, Held, Provisioning, Failing
<1>6. OrderInv
  BY <1>2 DEF OrderInv, Backed, Follows, AdminInv
<1>7. QED
  BY <1>4, <1>5, <1>6 DEF OwnerInv

LEMMA NextOwner ==
  ASSUME FreshObjects, NoFailedDelete, EditsKeep(Choices), CopiesInOrder,
         TypeOK, StatusInv, OrphanInv, PlanInv, OwnerInv, [Next]_vars
  PROVE  OwnerInv'
<1>1. RemovalInv /\ ManifestInv /\ HeldInv /\ ChoiceInv /\ OrderInv
  BY DEF OwnerInv
<1>2. RemovalInv' /\ ManifestInv' /\ HeldInv' /\ ChoiceInv'
  BY <1>1, NextRemoval, NextManifest, NextHeld, NextChoice
<1>3. AdminInv'
  BY <1>1, NextAdmin DEF OrderInv
<1>4. \A s \in {RustfsSecret, NinegateSecret, GlauthConfig} : Backed(PostgresSecret, s)'
  BY <1>1, NextBacked, HolderKinds DEF OrderInv, CopiesInOrder
<1>5. Backed(RustfsSecret, NinegateSecret)' /\ Backed(NinegateSecret, DexConfig)'
  BY <1>1, NextBacked, HolderKinds DEF OrderInv, CopiesInOrder
<1>6. QED
  BY <1>2, <1>3, <1>4, <1>5 DEF OwnerInv, OrderInv

LEMMA AlwaysOwner ==
  ASSUME FreshObjects, FreshNamespace, NoFailedDelete, EditsKeep(Choices), CopiesInOrder
  PROVE  Spec => [](TypeOK /\ StatusInv /\ OrphanInv /\ PlanInv /\ OwnerInv)
<1>1. Init => OrphanInv /\ OwnerInv
  BY InitOrphan, InitOwner
<1>2. TypeOK /\ StatusInv /\ PlanInv /\ OrphanInv /\ OwnerInv /\ [Next]_vars
        => OrphanInv' /\ OwnerInv'
  BY NextOrphan, NextOwner
<1>3. QED
  BY <1>1, <1>2, TypeCorrect, StatusAlways, PlanAlways, PTL DEF Spec

(* What the contents add to it.                                             *)
SecretInv ==
  ShownInv /\ LocalsInv /\ ValueInv /\ PassInv /\ ClusterInv /\ CredentialsAgree

LEMMA InitSecret == Init /\ SecretsInit => SecretInv
<1>1. SUFFICES ASSUME Init, SecretsInit PROVE SecretInv
  OBVIOUS
<1>2. /\ objs = {} /\ cachedVal = val
      /\ pgPass = None /\ rustfsPass = None /\ cluster = None
  BY <1>1 DEF Init, SecretsInit
<1>3. LocalsInv
  <2>1. pc = "idle"
    BY <1>1 DEF Init
  <2>2. QED
    BY <1>2, <2>1 DEF LocalsInv
<1>4. QED
  BY <1>2, <1>3 DEF SecretInv, ShownInv, ValueInv, PassInv, ClusterInv, CredentialsAgree, Same

LEMMA NextSecret ==
  ASSUME FreshObjects, NoFailedDelete, EditsKeep(Choices), CopiesInOrder,
         TypeOK, StatusInv, PlanInv, PlanInv', OwnerInv, SecretInv,
         [CredentialsNext]_<<vars, secretVars>>
  PROVE  SecretInv'
<1>1. RemovalInv /\ CleanInv /\ ManifestInv /\ HeldInv /\ ChoiceInv /\ OrderInv
  BY DEF OwnerInv, RemovalInv
<1>2. ShownInv /\ LocalsInv /\ ValueInv /\ PassInv /\ ClusterInv /\ CredentialsAgree
  BY DEF SecretInv
<1>3. Moves \/ Rests
  BY MovesOrRests
<1>4. ShownInv'
  BY <1>2, <1>3, NextShown
<1>5. CASE Moves
  <2>1. LocalsInv' /\ ValueInv' /\ PassInv'
    BY <1>1, <1>2, <1>5, MovesLocals, MovesValue
  <2>2. ClusterInv' /\ CredentialsAgree'
    BY <1>1, <1>2, <1>5, MovesCluster, MovesAgree
  <2>3. QED
    BY <1>4, <2>1, <2>2 DEF SecretInv
<1>6. CASE Rests
  <2>1. LocalsInv' /\ ValueInv' /\ PassInv'
    BY <1>1, <1>2, <1>6, RestsLocals, RestsValue
  <2>2. ClusterInv' /\ CredentialsAgree'
    BY <1>1, <1>2, <1>6, RestsCluster, RestsAgree
  <2>3. QED
    BY <1>4, <2>1, <2>2 DEF SecretInv
<1>7. QED
  BY <1>3, <1>5, <1>6

(* All copies of a password agree, and the volume of PostgreSQL was made    *)
(* with the one that is stored, whatever passes, processes and incarnations *)
(* of the CR made them: for every Plan in which a Secret precedes its       *)
(* copies, all manifests whose edits leave the choices of passwords alone,  *)
(* fresh caches and deletes that succeed.                                   *)
THEOREM CredentialsAlwaysAgree ==
  ASSUME FreshObjects, FreshNamespace, NoFailedDelete, EditsKeep(Choices), CopiesInOrder
  PROVE  CredentialsSpec => []CredentialsAgree
<1> DEFINE Base == TypeOK /\ StatusInv /\ OrphanInv /\ PlanInv /\ OwnerInv
<1>1. CredentialsSpec => []Base
  BY CredentialsAreSpec, AlwaysOwner, PTL
<1>2. Init /\ SecretsInit => SecretInv
  BY InitSecret
<1>3. Base /\ Base' /\ SecretInv /\ [CredentialsNext]_<<vars, secretVars>> => SecretInv'
  BY NextSecret
<1>4. SecretInv => CredentialsAgree
  BY DEF SecretInv
<1> HIDE DEF Base
<1>5. QED
  BY <1>1, <1>2, <1>3, <1>4, PTL DEF CredentialsSpec

-----------------------------------------------------------------------------
(* The certificates.                                                        *)

(* A pass that has read the CA has the one that is stored.                  *)
ReadsCa(step) == step.op = "read" /\ step.when = "always"

SignerInv ==
  /\ ns.state = "active" /\ pc = "plan"
  /\ \E j \in DOMAIN Plan : j < k /\ ReadsCa(Plan[j])
  => CaSecret \in objs /\ signer = val[CaSecret].issuer

LEMMA RestsSigner ==
  ASSUME SignerInv, Rests
  PROVE  SignerInv'
<1>1. UNCHANGED <<ns, objs, pc, k, val>>
  BY RestsUnchanged
<1>2. signer' = signer
  BY DEF Rests, ReadPostgresPassword, ReadRustfsPassword, DeleteClaim, InitCluster, locals
<1>3. QED
  BY <1>1, <1>2 DEF SignerInv

LEMMA MovesSigner ==
  ASSUME CertificatesInOrder, TypeOK, PlanInv, PlanInv', EmptyInv, ShownInv, SignerInv, Moves
  PROVE  SignerInv'
<1>1. StoreContents /\ KeepLocals /\ [Next]_vars
  BY MovesNext DEF Moves, MoveContents
<1>2. SUFFICES ASSUME ns'.state = "active", pc' = "plan",
                      NEW j \in DOMAIN Plan, j < k', ReadsCa(Plan[j])
               PROVE  CaSecret \in objs' /\ signer' = val'[CaSecret].issuer
  BY DEF SignerInv
<1>3. /\ pc = "plan"
      /\ k' = k \/ (k \in DOMAIN Plan /\ k <= Len(Plan) /\ k' = k + 1)
  <2>1. ~(k' = 1)
    BY <1>2, PlanAssumption
  <2>2. QED
    BY <1>1, <1>2, <2>1, PlanStep
<1>4. Shrinks \/ Creates
  <2>1. ~CleansUp /\ ~Begins
    BY <1>3, CleanupFrame DEF CleansUp, Begins, ensureNamespace
  <2>2. QED
    BY <1>1, <2>1, ObjsStep
<1>5. ns.state = "active" /\ objs \subseteq objs'
  BY <1>2, <1>4 DEF Shrinks, Creates
<1>6. signer' = signer \/ signer' = val[CaSecret].issuer
  BY <1>1, <1>2 DEF KeepLocals, ParseCA, ShownInv
<1>7. CASE j < k
  <2>1. CaSecret \in objs /\ signer = val[CaSecret].issuer
    BY <1>2, <1>3, <1>5, <1>7 DEF SignerInv
  <2>2. QED
    BY <1>1, <1>5, <1>6, <2>1, ValKept, HolderKinds
<1>8. CASE j = k /\ k <= Len(Plan)
  <2>1. AtStep("read") /\ Plan[k].res = CaSecret
    BY <1>2, <1>3, <1>8 DEF ReadsCa, AtStep, Enabled, CertificatesInOrder
  <2>2. ~Creates
    BY <2>1 DEF Creates, CreateObject, Creating, AtStep
  <2>3. CaSecret \in objs'
    BY <1>2, <1>8, <2>1 DEF PlanInv, Behind, ReadsCa, Enabled
  <2>4. signer' = val[CaSecret].issuer
    BY <1>1, <1>2, <2>1 DEF KeepLocals, ParseCA, ShownInv
  <2>5. CaSecret \in objs
    BY <1>4, <2>2, <2>3 DEF Shrinks
  <2>6. QED
    BY <1>1, <2>3, <2>4, <2>5, ValKept, HolderKinds
<1>9. QED
  <2>1. j < k + 1 => j < k \/ j = k
    BY PlanAssumption DEF TypeOK, WorkerOK
  <2>2. k' = k => j < k
    BY <1>2
  <2>3. QED
    BY <1>2, <1>3, <1>7, <1>8, <2>1, <2>2

(* The core signs with the CA that it has read, and a service controller    *)
(* finds the certificate that the core has made before.                     *)
LEMMA MovesChain ==
  ASSUME CertificatesInOrder, TypeOK, PlanInv, EmptyInv, SignerInv,
         \A t \in TlsSecrets : Backed(CaSecret, t), CertificatesChain, Moves
  PROVE  CertificatesChain'
<1>1. StoreContents /\ [Next]_vars
  BY MovesNext DEF Moves, MoveContents
<1>2. Shrinks \/ Creates \/ CleansUp \/ Begins
  BY <1>1, ObjsStep
<1>3. SUFFICES ASSUME NEW t \in TlsSecrets PROVE Same(CaSecret, "issuer", t, "issuer")'
  BY DEF CertificatesChain
<1>4. Creates /\ Plan[k].res = CaSecret => t \notin objs
  BY DEF Creates, Backed, Follows, Removing, Deleting
<1>5. ASSUME Creates, Plan[k].res = t, CaSecret \in objs
      PROVE  Data(t)["issuer"] = val[CaSecret]["issuer"]
  <2>1. /\ ns.state = "active" /\ pc = "plan" /\ k \in DOMAIN Plan /\ t \notin objs
    BY <1>5 DEF Creates
  <2>2. PICK i \in DOMAIN Plan :
          /\ i < k /\ Plan[i].when = "always"
          /\ IF Plan[k].owner = "core" THEN Plan[i].op = "read" ELSE Plan[i].res = t
    BY <1>5, <2>1 DEF CertificatesInOrder
  <2>3. Plan[i].res \in objs
    BY <2>1, <2>2 DEF PlanInv, Behind, Enabled
  <2>4. Plan[k].owner = "core" /\ Plan[i].op = "read"
    BY <2>1, <2>2, <2>3
  <2>5. signer = val[CaSecret].issuer
    BY <2>1, <2>2, <2>4 DEF SignerInv, ReadsCa
  <2>6. Data(t) = [issuer |-> signer]
    BY <2>4, DataOf DEF SignCertMultiSAN
  <2>7. QED
    BY <2>5, <2>6
<1>6. CaSecret \in Holders /\ t \in Holders /\ CaSecret # t
  BY HolderKinds, HoldersDiffer
<1>7. Same(CaSecret, "issuer", t, "issuer")
  BY DEF CertificatesChain
<1>8. QED
  BY <1>1, <1>2, <1>4, <1>5, <1>6, <1>7, SameStep

ChainInv ==
  ShownInv /\ SignerInv /\ (\A t \in TlsSecrets : Backed(CaSecret, t)) /\ CertificatesChain

LEMMA NextChain ==
  ASSUME CertificatesInOrder, TypeOK, StatusInv, PlanInv, PlanInv', RemovalInv, ChainInv,
         [CredentialsNext]_<<vars, secretVars>>
  PROVE  ChainInv'
<1>1. /\ ShownInv /\ SignerInv /\ CertificatesChain
      /\ (\A t \in TlsSecrets : Backed(CaSecret, t)) /\ EmptyInv
  BY DEF ChainInv, RemovalInv
<1>2. Moves \/ Rests
  BY MovesOrRests
<1>3. ShownInv'
  BY <1>1, <1>2, NextShown
<1>4. ASSUME NEW t \in TlsSecrets PROVE Backed(CaSecret, t)'
  BY <1>1, CredentialsStep, NextBacked, HolderKinds DEF CertificatesInOrder
<1>5. SignerInv'
  BY <1>1, <1>2, MovesSigner, RestsSigner
<1>6. CertificatesChain'
  <2>1. CASE Moves
    BY <1>1, <2>1, MovesChain
  <2>2. CASE Rests
    BY <1>1, <2>2, RestsUnchanged DEF CertificatesChain, Same
  <2>3. QED
    BY <1>2, <2>1, <2>2
<1>7. QED
  BY <1>3, <1>4, <1>5, <1>6 DEF ChainInv

(* Every certificate is signed by the CA of its namespace, although a pass  *)
(* may find the CA of a former one and each controller can make its own: for*)
(* every Plan that makes and reads the CA before the core signs, and has the*)
(* core sign first.                                                         *)
THEOREM CertificatesAlwaysChain ==
  ASSUME FreshObjects, NoFailedDelete, CertificatesInOrder
  PROVE  CredentialsSpec => []CertificatesChain
<1> DEFINE Base == TypeOK /\ StatusInv /\ PlanInv /\ RemovalInv
<1>1. CredentialsSpec => []Base
  BY CredentialsAreSpec, TypeCorrect, StatusAlways, PlanAlways, AlwaysRemoval, PTL
<1>2. Init /\ SecretsInit => ChainInv
  BY DEF Init, SecretsInit, ChainInv, ShownInv, SignerInv, Backed, Follows,
     CertificatesChain, Same
<1>3. Base /\ Base' /\ ChainInv /\ [CredentialsNext]_<<vars, secretVars>> => ChainInv'
  BY NextChain
<1>4. ChainInv => CertificatesChain
  BY DEF ChainInv
<1> HIDE DEF Base
<1>5. QED
  BY <1>1, <1>2, <1>3, <1>4, PTL DEF CredentialsSpec
=============================================================================
