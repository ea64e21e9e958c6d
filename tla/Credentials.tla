----------------------------- MODULE Credentials -----------------------------
(***************************************************************************)
(* What the objects of Stack hold: passwords, client secrets and the CA     *)
(* that signed a certificate.  Each ensureX function generates or copies    *)
(* them when it creates its object, and nothing writes them a second time,  *)
(* so the copies agree only if every pass starts from the same ones.        *)
(*                                                                          *)
(* The steps are those of Lifecycle; here they also move the contents.      *)
(***************************************************************************)
EXTENDS Stack

CONSTANT MaxSecrets    \* bounds the random values of one sort in use at a time

ASSUME SecretsAssumption == MaxSecrets \in Nat \ {0}

VARIABLES
  val,          \* what each object holds, a record of secrets by field
  cachedVal,    \* ... as the informers show it
  pgPass, rustfsPass,   \* the local variables of Reconcile
  signer,       \* the CA that ensureServiceCerts has read
  cluster,      \* the password the data volume of PostgreSQL was made with
  claimListed   \* the claim of that volume is listed, and has yet to be deleted

contents   == <<val, cachedVal>>
locals     == <<pgPass, rustfsPass, signer>>
volume     == <<cluster, claimListed>>
secretVars == <<contents, locals, volume>>

PostgresSecret   == Secret("postgres-secret")
RustfsSecret     == Secret("rustfs-secret")
AdminCredentials == Secret("admin-credentials")
NinegateSecret   == Secret("ninegate-secret")
GlauthConfig     == ConfigMap("ninegate-glauth-config")
DexConfig        == Secret("dex-config")
CaSecret         == Secret("ca")

TlsSecrets == {Secret(name) : name \in {"ninegate-tls", "dex-tls", "rustfs-tls", "glauth-tls",
                                        "nextcloud-tls", "wordpress-tls", "dolibarr-tls"}}

Holders == {PostgresSecret, RustfsSecret, AdminCredentials, NinegateSecret,
            GlauthConfig, DexConfig, CaSecret} \cup TlsSecrets

Nothing == <<>>              \* the contents of an object that is not there
None    == <<"none", 0>>     \* no secret

(* Two random values are never the same; a value that nothing holds any more*)
(* may as well be drawn again.                                              *)
SecretsIn(held) ==
  UNION {{held[r][f] : f \in DOMAIN held[r]} : r \in Holders}

InUse == SecretsIn(val) \cup SecretsIn(cachedVal) \cup {pgPass, rustfsPass, signer, cluster}

generateRandomPassword(sort) ==
  <<sort, CHOOSE n \in 1 .. MaxSecrets :
            <<sort, n>> \notin InUse /\ \A m \in 1 .. n - 1 : <<sort, m>> \in InUse>>

SecretsInit ==
  /\ val = [r \in Holders |-> Nothing] /\ cachedVal = val
  /\ pgPass = None /\ rustfsPass = None /\ signer = None
  /\ cluster = None /\ claimListed = FALSE

-----------------------------------------------------------------------------
(* Reconcile reads both passwords before it ensures the root secrets.       *)

MisgetOrCreatePassword(override, secret, sort) ==   \* no look at the Secret
  IF override \in cn.services.enabled THEN <<override, 0>>
  ELSE generateRandomPassword(sort)

(* The override of spec.storage, the existing password or a new one: a      *)
(* failed read of the cache is not told from a missing Secret.              *)
getOrCreatePassword(override, secret, sort) ==
  IF override \in cn.services.enabled THEN <<override, 0>>
  ELSE IF secret \in cachedObjs THEN cachedVal[secret][sort]
  ELSE generateRandomPassword(sort)

AtPasswords == pc = "plan" /\ k <= Len(Plan) /\ Plan[k].res = PostgresSecret

ReadPostgresPassword ==
  /\ AtPasswords /\ pgPass = None
  /\ pgPass' = getOrCreatePassword("postgresRootPassword", PostgresSecret, "postgres")
  /\ UNCHANGED <<vars, contents, rustfsPass, signer, volume>>

ReadRustfsPassword ==
  /\ AtPasswords /\ pgPass # None /\ rustfsPass = None
  /\ rustfsPass' = getOrCreatePassword("rustfsRootPassword", RustfsSecret, "rustfs")
  /\ UNCHANGED <<vars, contents, pgPass, signer, volume>>

-----------------------------------------------------------------------------
(* The contents with which the step at k creates its object.                *)

(* A field of a Secret that the pass looks up, or a value that it makes up. *)
CopyOr(r, f, sort) ==
  IF r \in cachedObjs THEN cachedVal[r][f] ELSE generateRandomPassword(sort)

NinegateSecretData ==
  [postgres |-> pgPass, rustfs |-> rustfsPass,
   admin |-> CopyOr(AdminCredentials, "admin", "ninegateAdmin"),
   app   |-> generateRandomPassword("app"),
   oidc  |-> generateRandomPassword("oidc")]

(* The static client of Ninegate gets the app-secret.                       *)
DexConfigData ==
  [admin  |-> CopyOr(AdminCredentials, "admin", "dexAdmin"),
   client |-> CopyOr(NinegateSecret, "app", "client")]

(* A CA and a self-signed certificate have a new key; a certificate of the  *)
(* core has the CA of the pass as its issuer, and ParseCA gives that CA     *)
(* back from its Secret.                                                    *)
GenerateCA == [issuer |-> generateRandomPassword("ca")]

ParseCA(data) == data.issuer

SignCertMultiSAN == [issuer |-> signer]

generateRSASelfSignedCert == [issuer |-> generateRandomPassword("selfSigned")]

Data(r) ==
  CASE r = PostgresSecret   -> [postgres |-> pgPass]
    [] r = RustfsSecret     -> [rustfs |-> rustfsPass]
    [] r = AdminCredentials -> [admin |-> generateRandomPassword("admin")]
    [] r = NinegateSecret   -> NinegateSecretData
    [] r = GlauthConfig     -> [postgres |-> cachedVal[PostgresSecret].postgres]
    [] r = DexConfig        -> DexConfigData
    [] r = CaSecret         -> GenerateCA
    [] r \in TlsSecrets     -> IF Plan[k].owner = "core" THEN SignCertMultiSAN
                               ELSE generateRSASelfSignedCert

(* An object has its contents from its creation to its deletion.            *)
StoreContents ==
  val' = [r \in Holders |-> IF r \notin objs' THEN Nothing
                            ELSE IF r \in objs THEN val[r] ELSE Data(r)]

(* A cache shows an object as it was created: one that it shows is never    *)
(* created again.                                                           *)
ShowContents ==
  cachedVal' = [r \in Holders |-> IF r \notin cachedObjs' THEN Nothing
                                  ELSE IF r \in cachedObjs THEN cachedVal[r] ELSE val'[r]]

(* The local variables live as long as the pass.                            *)
KeepLocals ==
  IF pc' # "plan" THEN pgPass' = None /\ rustfsPass' = None /\ signer' = None
  ELSE /\ UNCHANGED <<pgPass, rustfsPass>>
       /\ signer' = IF AtStep("read") THEN ParseCA(cachedVal[CaSecret]) ELSE signer

(* The claim of the volume comes from a template of the StatefulSet, with   *)
(* the labels of the client: the cleanup lists it with the other claims.    *)
(* The volume goes with its claim, or with the namespace.                   *)
ListsClaims ==
  pc = "cleanup" /\ pc' = "cleanup" /\ k' # k /\ CleanedKinds[k'] = "PersistentVolumeClaim"

KeepVolume ==
  /\ cluster' = IF ns'.state = "absent" THEN None ELSE cluster
  /\ claimListed' = (pc' = "cleanup" /\ IF ListsClaims THEN cluster # None ELSE claimListed)

(* A Delete that fails here is not counted as a fault.                      *)
DeleteClaim ==
  /\ claimListed /\ claimListed' = FALSE
  /\ \/ cluster' = None
     \/ "delete" \in Faulty /\ UNCHANGED cluster
  /\ UNCHANGED <<vars, contents, locals>>

MoveContents == StoreContents /\ ShowContents /\ KeepLocals /\ KeepVolume

(* The first start of PostgreSQL: the image makes the volume with the       *)
(* password it is given, and later ones do not look at it.                  *)
InitCluster ==
  /\ cluster = None /\ ns.state = "active"
  /\ postgresql_ensureStatefulSet.step.res \in objs
  /\ postgresql_ensureStatefulSet.uses \subseteq objs
  /\ cluster' = val[PostgresSecret].postgres
  /\ UNCHANGED <<vars, contents, locals, claimListed>>

CredentialsNext ==
  \/ ReadPostgresPassword \/ ReadRustfsPassword \/ DeleteClaim
  \/ /\ Reconcile /\ (AtPasswords => rustfsPass # None) /\ (CleanedUp => ~claimListed)
     /\ MoveContents
  \/ (Deliver \/ Environment) /\ MoveContents
  \/ InitCluster

CredentialsSpec == Init /\ SecretsInit /\ [][CredentialsNext]_<<vars, secretVars>>

-----------------------------------------------------------------------------
(* Properties.                                                              *)

Same(r, f, s, g) == r \in objs /\ s \in objs => val[r][f] = val[s][g]

(* "Generate passwords once and reuse across all secrets": the copies agree *)
(* with what PostgreSQL, RustFS, the administrator and Dex use, whichever   *)
(* passes, processes and incarnations of the CR created them, and the       *)
(* volume of a deleted CR never outlives its password.                      *)
CredentialsAgree ==
  /\ \A r \in {NinegateSecret, GlauthConfig} : Same(PostgresSecret, "postgres", r, "postgres")
  /\ PostgresSecret \in objs => cluster \in {None, val[PostgresSecret].postgres}
  /\ Same(RustfsSecret, "rustfs", NinegateSecret, "rustfs")
  /\ \A r \in {NinegateSecret, DexConfig} : Same(AdminCredentials, "admin", r, "admin")
  /\ Same(NinegateSecret, "app", DexConfig, "client")

(* Every certificate in the namespace is signed by the CA that is stored    *)
(* there, and no service controller makes one of its own.                   *)
CertificatesChain ==
  \A r \in TlsSecrets : Same(CaSecret, "issuer", r, "issuer")

(* Ninegate logs in to Dex with the client secret that Dex knows.           *)
OidcSecretsAgree == Same(NinegateSecret, "oidc", DexConfig, "client")

(* What these rest on.  Of the Plan: a Secret that is copied is made before *)
(* its copies, and the CA is made and read before it signs; a certificate of*)
(* a service controller is one that the core has made before.               *)
CopiesInOrder ==
  /\ \A s \in {RustfsSecret, NinegateSecret, GlauthConfig} : Before(PostgresSecret, s)
  /\ Before(RustfsSecret, NinegateSecret) /\ Before(NinegateSecret, DexConfig)
  /\ \A j \in DOMAIN Plan :
       Plan[j].res = AdminCredentials => Plan[j].when = "generatedAdminPassword"
  /\ \A j \in DOMAIN Plan : Plan[j].res \in {NinegateSecret, DexConfig} =>
       \E i \in DOMAIN Plan : i < j /\ Plan[i].res = AdminCredentials

CertificatesInOrder ==
  /\ \A t \in TlsSecrets : Before(CaSecret, t)
  /\ \A j \in DOMAIN Plan : Plan[j].op = "read" => Plan[j].res = CaSecret
  /\ \A j \in DOMAIN Plan : Plan[j].res \in TlsSecrets =>
       \E i \in DOMAIN Plan :
         /\ i < j /\ Plan[i].when = "always"
         /\ IF Plan[j].owner = "core" THEN Plan[i].op = "read"
            ELSE Plan[i].res = Plan[j].res

(* Of the manifests: what the pass takes from the CR and does not look up.  *)
Choices == {"postgresRootPassword", "rustfsRootPassword", "generatedAdminPassword"}
=============================================================================
