------------------------------ MODULE PlanProofs ------------------------------
(***************************************************************************)
(* The Plan of the operator meets what the other modules assume of one, so  *)
(* that their theorems hold of the operator as it is.  A Plan is followed   *)
(* part by part: the core step by step, as its order is what matters; the   *)
(* service controllers by the objects each makes; the routing by its kinds. *)
(***************************************************************************)
EXTENDS CredentialProofs

-----------------------------------------------------------------------------
(* Sequences of steps, and the steps in them.                               *)

In(steps) == {steps[i] : i \in DOMAIN steps}

Listed(steps) == steps \in Seq(In(steps))

LEMMA CatSteps ==
  ASSUME NEW S, NEW p \in Seq(S), NEW q \in Seq(S)
  PROVE  /\ p \o q \in Seq(S) /\ Len(p \o q) = Len(p) + Len(q)
         /\ \A i \in DOMAIN p : i \in DOMAIN (p \o q) /\ (p \o q)[i] = p[i]
         /\ \A i \in DOMAIN (p \o q) : i \in DOMAIN p \/
              (i > Len(p) /\ i - Len(p) \in DOMAIN q /\ (p \o q)[i] = q[i - Len(p)])
  OBVIOUS

LEMMA SeqListed ==
  ASSUME NEW S, NEW p \in Seq(S)
  PROVE  Listed(p)
  BY DEF Listed, In

LEMMA WiderSeq ==
  ASSUME NEW S, NEW T, S \subseteq T, NEW p \in Seq(S)
  PROVE  p \in Seq(T)
  OBVIOUS

LEMMA BothListed ==
  ASSUME NEW p, Listed(p), NEW q, Listed(q)
  PROVE  p \in Seq(In(p) \cup In(q)) /\ q \in Seq(In(p) \cup In(q))
<1> DEFINE S == In(p) \cup In(q)
<1>1. In(p) \subseteq S /\ In(q) \subseteq S
  OBVIOUS
<1> HIDE DEF S
<1>2. p \in Seq(S) /\ q \in Seq(S)
  BY <1>1, WiderSeq DEF Listed
<1>3. QED
  BY <1>2 DEF S

LEMMA CatLater ==
  ASSUME NEW S, NEW p \in Seq(S), NEW q \in Seq(S), NEW i \in DOMAIN q
  PROVE  Len(p) + i \in DOMAIN (p \o q) /\ (p \o q)[Len(p) + i] = q[i]
<1>1. Len(p) \in Nat /\ Len(q) \in Nat /\ i \in 1 .. Len(q) /\ DOMAIN p = 1 .. Len(p)
  OBVIOUS
<1>2. DOMAIN (p \o q) = 1 .. (Len(p) + Len(q))
  OBVIOUS
<1>3. Len(p) + i \in DOMAIN (p \o q)
  BY <1>1, <1>2
<1>4. (Len(p) + i) - Len(p) = i /\ ~(Len(p) + i \in DOMAIN p)
  BY <1>1
<1>5. QED
  BY <1>3, <1>4, CatSteps

LEMMA CatIn ==
  ASSUME NEW p, Listed(p), NEW q, Listed(q)
  PROVE  Listed(p \o q) /\ In(p \o q) = In(p) \cup In(q)
<1>1. PICK S : p \in Seq(S) /\ q \in Seq(S)
  BY BothListed
<1>2. ASSUME NEW i \in DOMAIN q
      PROVE  Len(p) + i \in DOMAIN (p \o q) /\ (p \o q)[Len(p) + i] = q[i]
  BY <1>1, CatLater
<1>3. In(q) \subseteq In(p \o q)
  BY <1>2 DEF In
<1>4. In(p) \subseteq In(p \o q)
  BY <1>1, CatSteps DEF In
<1>5. In(p \o q) \subseteq In(p) \cup In(q)
  BY <1>1, CatSteps DEF In
<1>6. Listed(p \o q)
  BY <1>1, CatSteps, SeqListed
<1>7. QED
  BY <1>3, <1>4, <1>5, <1>6

-----------------------------------------------------------------------------
(* The steps of a controller: all under its switch, for these objects.      *)

Controls(steps, service, switch, made) ==
  /\ Listed(steps)
  /\ \A x \in In(steps) : /\ x.op = "ensure" /\ x.owner = service /\ x.when = switch
                          /\ x.res \in made
  /\ \A r \in made : \E x \in In(steps) : x.res = r

Ensures(x, r) ==
  \E kind, name, needs :
    /\ r = <<kind, name>>
    /\ x = Ensure(kind, name) \/ x = [Ensure(kind, name) EXCEPT !.needs = needs]

Under(x, service, switch) == [x EXCEPT !.owner = service, !.when = switch]

LEMMA EnsuresUnder ==
  ASSUME NEW x, NEW r, Ensures(x, r), NEW service, NEW switch
  PROVE  LET y == Under(x, service, switch)
         IN  y.op = "ensure" /\ y.owner = service /\ y.when = switch /\ y.res = r
  BY DEF Ensures, Ensure, Under

LEMMA OfUnder ==
  ASSUME NEW steps, NEW service, NEW switch
  PROVE  Of(service, switch, steps) = [i \in DOMAIN steps |-> Under(steps[i], service, switch)]
  BY DEF Of, Under

LEMMA OfControls ==
  ASSUME NEW S, NEW steps \in Seq(S), NEW service, NEW switch, NEW made,
         \A i \in DOMAIN steps : \E r \in made : Ensures(steps[i], r),
         \A r \in made : \E i \in DOMAIN steps : Ensures(steps[i], r)
  PROVE  Controls(Of(service, switch, steps), service, switch, made)
<1> DEFINE some == Of(service, switch, steps)
<1>1. some = [i \in DOMAIN steps |-> Under(steps[i], service, switch)]
  BY OfUnder
<1> HIDE DEF some
<1>2. Listed(some)
  <2>1. DOMAIN steps = 1 .. Len(steps) /\ Len(steps) \in Nat
    OBVIOUS
  <2>2. some \in [1 .. Len(steps) -> In(some)]
    BY <1>1, <2>1 DEF In
  <2>3. QED
    BY <2>1, <2>2 DEF Listed
<1>3. \A x \in In(some) : /\ x.op = "ensure" /\ x.owner = service /\ x.when = switch
                          /\ x.res \in made
  BY <1>1, EnsuresUnder DEF In
<1>4. \A r \in made : \E x \in In(some) : x.res = r
  BY <1>1, EnsuresUnder DEF In
<1>5. QED
  BY <1>2, <1>3, <1>4 DEF Controls, some

LEMMA EnsureEnsures ==
  \A kind, name, needs : /\ Ensures(Ensure(kind, name), <<kind, name>>)
                         /\ Ensures([Ensure(kind, name) EXCEPT !.needs = needs], <<kind, name>>)
  BY DEF Ensures

PostgresqlObjects == {<<"ConfigMap", "postgres-config">>,
    <<"StatefulSet", "postgresql">>,
    <<"Service", "postgresql">>}

LEMMA PostgresqlSteps ==
  Controls(postgresql_Reconcile, "PostgreSQL", "postgresql", PostgresqlObjects)
<1> DEFINE steps == <<Ensure("ConfigMap", "postgres-config"),
                      Ensure("StatefulSet", "postgresql"),
                      Ensure("Service", "postgresql")>>
<1>1. postgresql_Reconcile = Of("PostgreSQL", "postgresql", steps)
  BY DEF postgresql_Reconcile, postgresql_ensureConfigMap, postgresql_ensureStatefulSet,
     postgresql_ensureService, Workload, Expose
<1>2. steps \in Seq({steps[1], steps[2], steps[3]}) /\ DOMAIN steps = {1, 2, 3}
  OBVIOUS
<1>3. /\ Ensures(steps[1], <<"ConfigMap", "postgres-config">>)
      /\ Ensures(steps[2], <<"StatefulSet", "postgresql">>)
      /\ Ensures(steps[3], <<"Service", "postgresql">>)
  BY EnsureEnsures
<1> HIDE DEF steps
<1>4. \A i \in DOMAIN steps : \E r \in PostgresqlObjects : Ensures(steps[i], r)
  BY <1>2, <1>3 DEF PostgresqlObjects
<1>5. \A r \in PostgresqlObjects : \E i \in DOMAIN steps : Ensures(steps[i], r)
  BY <1>2, <1>3 DEF PostgresqlObjects
<1>6. QED
  BY <1>1, <1>2, <1>4, <1>5, OfControls

RedisObjects == {<<"Deployment", "redis">>,
    <<"Service", "redis">>}

LEMMA RedisSteps == Controls(redis_Reconcile, "Redis", "redis", RedisObjects)
<1> DEFINE steps == <<Ensure("Deployment", "redis"),
                      Ensure("Service", "redis")>>
<1>1. redis_Reconcile = Of("Redis", "redis", steps)
  BY DEF redis_Reconcile, redis_ensureDeployment, redis_ensureService, Workload, Expose
<1>2. steps \in Seq({steps[1], steps[2]}) /\ DOMAIN steps = {1, 2}
  OBVIOUS
<1>3. /\ Ensures(steps[1], <<"Deployment", "redis">>)
      /\ Ensures(steps[2], <<"Service", "redis">>)
  BY EnsureEnsures
<1> HIDE DEF steps
<1>4. \A i \in DOMAIN steps : \E r \in RedisObjects : Ensures(steps[i], r)
  BY <1>2, <1>3 DEF RedisObjects
<1>5. \A r \in RedisObjects : \E i \in DOMAIN steps : Ensures(steps[i], r)
  BY <1>2, <1>3 DEF RedisObjects
<1>6. QED
  BY <1>1, <1>2, <1>4, <1>5, OfControls

RustfsObjects == {<<"PersistentVolumeClaim", "rustfs-data">>,
    <<"Deployment", "rustfs">>,
    <<"Service", "rustfs">>}

LEMMA RustfsSteps == Controls(rustfs_Reconcile, "RustFS", "rustfs", RustfsObjects)
<1> DEFINE steps == <<Ensure("PersistentVolumeClaim", "rustfs-data"),
                      Ensure("Deployment", "rustfs"),
                      Ensure("Service", "rustfs")>>
<1>1. rustfs_Reconcile = Of("RustFS", "rustfs", steps)
  BY DEF rustfs_Reconcile, rustfs_ensurePVC, rustfs_ensureDeployment, rustfs_ensureService,
     Workload, Expose
<1>2. steps \in Seq({steps[1], steps[2], steps[3]}) /\ DOMAIN steps = {1, 2, 3}
  OBVIOUS
<1>3. /\ Ensures(steps[1], <<"PersistentVolumeClaim", "rustfs-data">>)
      /\ Ensures(steps[2], <<"Deployment", "rustfs">>)
      /\ Ensures(steps[3], <<"Service", "rustfs">>)
  BY EnsureEnsures
<1> HIDE DEF steps
<1>4. \A i \in DOMAIN steps : \E r \in RustfsObjects : Ensures(steps[i], r)
  BY <1>2, <1>3 DEF RustfsObjects
<1>5. \A r \in RustfsObjects : \E i \in DOMAIN steps : Ensures(steps[i], r)
  BY <1>2, <1>3 DEF RustfsObjects
<1>6. QED
  BY <1>1, <1>2, <1>4, <1>5, OfControls

NinegateObjects == {<<"PersistentVolumeClaim", "ninegate-uploads">>,
    <<"PersistentVolumeClaim", "ninegate-public-uploads">>,
    <<"Deployment", "ninegate">>,
    <<"Service", "ninegate">>}

LEMMA NinegateSteps == Controls(ninegate_Reconcile, "Ninegate", "ninegate", NinegateObjects)
<1> DEFINE steps == <<Ensure("PersistentVolumeClaim", "ninegate-uploads"),
                      Ensure("PersistentVolumeClaim", "ninegate-public-uploads")>>
                   \o <<Ensure("Deployment", "ninegate"),
                      Ensure("Service", "ninegate")>>
<1>1. ninegate_Reconcile = Of("Ninegate", "ninegate", steps)
  BY DEF ninegate_Reconcile, ninegate_ensurePVCs, ninegate_ensureDeployment,
     ninegate_ensureService, Workload, Expose
<1>2. steps \in Seq({steps[1], steps[2], steps[3], steps[4]}) /\ DOMAIN steps = {1, 2, 3, 4}
  OBVIOUS
<1>p. \A a, b, c, d : LET s == <<a, b>> \o <<c, d>>
                      IN  s[1] = a /\ s[2] = b /\ s[3] = c /\ s[4] = d
  OBVIOUS
<1>q. /\ steps[1] = Ensure("PersistentVolumeClaim", "ninegate-uploads")
      /\ steps[2] = Ensure("PersistentVolumeClaim", "ninegate-public-uploads")
      /\ steps[3] = Ensure("Deployment", "ninegate")
      /\ steps[4] = Ensure("Service", "ninegate")
  BY <1>p
<1> HIDE DEF steps
<1>3. /\ Ensures(steps[1], <<"PersistentVolumeClaim", "ninegate-uploads">>)
      /\ Ensures(steps[2], <<"PersistentVolumeClaim", "ninegate-public-uploads">>)
      /\ Ensures(steps[3], <<"Deployment", "ninegate">>)
      /\ Ensures(steps[4], <<"Service", "ninegate">>)
  BY <1>q, EnsureEnsures
<1>4. \A i \in DOMAIN steps : \E r \in NinegateObjects : Ensures(steps[i], r)
  BY <1>2, <1>3 DEF NinegateObjects
<1>5. \A r \in NinegateObjects : \E i \in DOMAIN steps : Ensures(steps[i], r)
  BY <1>2, <1>3 DEF NinegateObjects
<1>6. QED
  BY <1>1, <1>2, <1>4, <1>5, OfControls

GlauthObjects == {<<"ConfigMap", "ninegate-glauth-config">>,
    <<"Secret", "glauth-tls">>,
    <<"Deployment", "glauth">>,
    <<"Service", "glauth">>}

LEMMA GlauthSteps == Controls(glauth_Reconcile, "Glauth", "glauth", GlauthObjects)
<1> DEFINE steps == <<[Ensure("ConfigMap", "ninegate-glauth-config")
                         EXCEPT !.needs = {Secret("postgres-secret")}],
                      Ensure("Secret", "glauth-tls"),
                      Ensure("Deployment", "glauth"),
                      Ensure("Service", "glauth")>>
<1>1. glauth_Reconcile = Of("Glauth", "glauth", steps)
  BY DEF glauth_Reconcile, glauth_ensureConfigMap, glauth_ensureTLSSecret,
     glauth_ensureDeployment, glauth_ensureService, Workload, Expose
<1>2. steps \in Seq({steps[1], steps[2], steps[3], steps[4]}) /\ DOMAIN steps = {1, 2, 3, 4}
  OBVIOUS
<1>3. /\ Ensures(steps[1], <<"ConfigMap", "ninegate-glauth-config">>)
      /\ Ensures(steps[2], <<"Secret", "glauth-tls">>)
      /\ Ensures(steps[3], <<"Deployment", "glauth">>)
      /\ Ensures(steps[4], <<"Service", "glauth">>)
  BY EnsureEnsures
<1> HIDE DEF steps
<1>4. \A i \in DOMAIN steps : \E r \in GlauthObjects : Ensures(steps[i], r)
  BY <1>2, <1>3 DEF GlauthObjects
<1>5. \A r \in GlauthObjects : \E i \in DOMAIN steps : Ensures(steps[i], r)
  BY <1>2, <1>3 DEF GlauthObjects
<1>6. QED
  BY <1>1, <1>2, <1>4, <1>5, OfControls

DexObjects == {<<"Secret", "dex-config">>,
    <<"Secret", "dex-tls">>,
    <<"Deployment", "dex">>,
    <<"Service", "dex">>}

LEMMA DexSteps == Controls(dex_Reconcile, "Dex", "dex", DexObjects)
<1> DEFINE steps == <<Ensure("Secret", "dex-config"),
                      Ensure("Secret", "dex-tls"),
                      Ensure("Deployment", "dex"),
                      Ensure("Service", "dex")>>
<1>1. dex_Reconcile = Of("Dex", "dex", steps)
  BY DEF dex_Reconcile, dex_ensureConfigSecret, dex_ensureTLSSecret, dex_ensureDeployment,
     dex_ensureService, Workload, Expose
<1>2. steps \in Seq({steps[1], steps[2], steps[3], steps[4]}) /\ DOMAIN steps = {1, 2, 3, 4}
  OBVIOUS
<1>3. /\ Ensures(steps[1], <<"Secret", "dex-config">>)
      /\ Ensures(steps[2], <<"Secret", "dex-tls">>)
      /\ Ensures(steps[3], <<"Deployment", "dex">>)
      /\ Ensures(steps[4], <<"Service", "dex">>)
  BY EnsureEnsures
<1> HIDE DEF steps
<1>4. \A i \in DOMAIN steps : \E r \in DexObjects : Ensures(steps[i], r)
  BY <1>2, <1>3 DEF DexObjects
<1>5. \A r \in DexObjects : \E i \in DOMAIN steps : Ensures(steps[i], r)
  BY <1>2, <1>3 DEF DexObjects
<1>6. QED
  BY <1>1, <1>2, <1>4, <1>5, OfControls

ServiceObjects == PostgresqlObjects \cup RedisObjects \cup RustfsObjects
                    \cup NinegateObjects \cup GlauthObjects \cup DexObjects

CoreServices == {"postgresql", "redis", "rustfs", "ninegate", "glauth", "dex"}

LEMMA ServiceSteps ==
  /\ Listed(serviceSteps)
  /\ \A x \in In(serviceSteps) : /\ x.op = "ensure" /\ x.owner # "core"
                                 /\ x.when \in CoreServices /\ x.res \in ServiceObjects
  /\ \A r \in ServiceObjects : \E x \in In(serviceSteps) : x.res = r
  /\ \E p : /\ Listed(p) /\ serviceSteps = p \o dex_Reconcile
            /\ \A x \in In(p) : x.res \in ServiceObjects \ DexObjects
<1> DEFINE p == postgresql_Reconcile \o redis_Reconcile
           q == p \o rustfs_Reconcile
           r == q \o ninegate_Reconcile
           s == r \o glauth_Reconcile
<1>1. /\ Listed(postgresql_Reconcile) /\ Listed(redis_Reconcile) /\ Listed(rustfs_Reconcile)
      /\ Listed(ninegate_Reconcile) /\ Listed(glauth_Reconcile) /\ Listed(dex_Reconcile)
  BY PostgresqlSteps, RedisSteps, RustfsSteps, NinegateSteps, GlauthSteps, DexSteps DEF Controls
<1>2. Listed(p) /\ In(p) = In(postgresql_Reconcile) \cup In(redis_Reconcile)
  BY <1>1, CatIn
<1> HIDE DEF p
<1>3. Listed(q) /\ In(q) = In(p) \cup In(rustfs_Reconcile)
  BY <1>1, <1>2, CatIn
<1> HIDE DEF q
<1>4. Listed(r) /\ In(r) = In(q) \cup In(ninegate_Reconcile)
  BY <1>1, <1>3, CatIn
<1> HIDE DEF r
<1>5. Listed(s) /\ In(s) = In(r) \cup In(glauth_Reconcile)
  BY <1>1, <1>4, CatIn
<1> HIDE DEF s
<1>6. Listed(s \o dex_Reconcile) /\ In(s \o dex_Reconcile) = In(s) \cup In(dex_Reconcile)
  BY <1>1, <1>5, CatIn
<1>7. serviceSteps = s \o dex_Reconcile
  BY DEF serviceSteps, p, q, r, s
<1>8. In(serviceSteps) = In(postgresql_Reconcile) \cup In(redis_Reconcile)
        \cup In(rustfs_Reconcile) \cup In(ninegate_Reconcile) \cup In(glauth_Reconcile)
        \cup In(dex_Reconcile)
  BY <1>2, <1>3, <1>4, <1>5, <1>6, <1>7
<1>9. \A x \in In(serviceSteps) : /\ x.op = "ensure" /\ x.owner # "core"
                                 /\ x.when \in CoreServices /\ x.res \in ServiceObjects
  BY <1>8, PostgresqlSteps, RedisSteps, RustfsSteps, NinegateSteps, GlauthSteps, DexSteps
  DEF Controls, CoreServices, ServiceObjects
<1>10. \A o \in ServiceObjects : \E x \in In(serviceSteps) : x.res = o
  BY <1>8, PostgresqlSteps, RedisSteps, RustfsSteps, NinegateSteps, GlauthSteps, DexSteps
  DEF Controls, ServiceObjects
<1>11. \A x \in In(s) : x.res \in ServiceObjects \ DexObjects
  <2>1. \A x \in In(s) : x.res \in PostgresqlObjects \cup RedisObjects \cup RustfsObjects
                                   \cup NinegateObjects \cup GlauthObjects
    BY <1>2, <1>3, <1>4, <1>5, PostgresqlSteps, RedisSteps, RustfsSteps, NinegateSteps,
       GlauthSteps DEF Controls
  <2>2. QED
    BY <2>1 DEF ServiceObjects, PostgresqlObjects, RedisObjects, RustfsObjects,
       NinegateObjects, GlauthObjects, DexObjects
<1>12. QED
  BY <1>5, <1>6, <1>7, <1>9, <1>10, <1>11

-----------------------------------------------------------------------------
(* The steps of the core, and the routing.                                  *)

Generated(name) == Ensure("Secret", name)
Optional(name, switch) == [Generated(name) EXCEPT !.when = switch]

LEMMA CoreSteps ==
  /\ Len(coreSteps) = 13 /\ DOMAIN coreSteps = 1 .. 13
  /\ coreSteps[1] = Optional("admin-credentials", "generatedAdminPassword")
  /\ coreSteps[2] = Generated("postgres-secret")
  /\ coreSteps[3] = Generated("rustfs-secret")
  /\ coreSteps[4] = Generated("ninegate-secret")
  /\ coreSteps[5] = Generated("ca")
  /\ coreSteps[6] = [Generated("ca") EXCEPT !.op = "read"]
  /\ coreSteps[7] = Generated("ninegate-tls")
  /\ coreSteps[8] = Generated("dex-tls")
  /\ coreSteps[9] = Generated("rustfs-tls")
  /\ coreSteps[10] = Generated("glauth-tls")
  /\ coreSteps[11] = Optional("nextcloud-tls", "nextcloud")
  /\ coreSteps[12] = Optional("wordpress-tls", "wordpress")
  /\ coreSteps[13] = Optional("dolibarr-tls", "dolibarr")
  BY DEF coreSteps, ensureAdminCredentials, ensureRootSecrets, ensureNinegateSecret,
     ensureCA, ensureServiceCerts, getCA, If, Generated, Optional

LEMMA CoreListed == Listed(coreSteps)
  BY DEF coreSteps, ensureAdminCredentials, ensureRootSecrets, ensureNinegateSecret,
     ensureCA, ensureServiceCerts, getCA, If, Listed, In

FixedIngresses    == {"ninegate", "dex", "rustfs", "rustfs-api"}
SwitchedIngresses == {"nextcloud", "wordpress", "dolibarr"}

RoutingStep(x) ==
  /\ x.op \in {"ensure", "create"}
  /\ x.res[1] \in {"Ingress", "IngressRouteTCP", "NetworkPolicy"}
  /\ x.res[1] = "Ingress" =>
       \/ x.res[2] \in FixedIngresses
       \/ x.res[2] \in SwitchedIngresses /\ x.when = x.res[2]

LEMMA FixedSteps ==
  LET some == [i \in DOMAIN ingresses |-> ingresses[i].step]
  IN  Listed(some) /\ \A x \in In(some) : RoutingStep(x)
<1> DEFINE some == [i \in DOMAIN ingresses |-> ingresses[i].step]
<1>1. DOMAIN some = 1 .. 4
  BY DEF ingresses
<1>2. /\ some[1] = Ensure("Ingress", "ninegate") /\ some[2] = Ensure("Ingress", "dex")
      /\ some[3] = Ensure("Ingress", "rustfs") /\ some[4] = Ensure("Ingress", "rustfs-api")
  BY DEF ingresses, ensureIngress
<1> HIDE DEF some
<1>3. ASSUME NEW x, NEW n \in FixedIngresses, x = Ensure("Ingress", n) PROVE RoutingStep(x)
  <2>1. x.op = "ensure" /\ x.res = <<"Ingress", n>>
    BY <1>3 DEF Ensure
  <2>2. x.res[1] = "Ingress" /\ x.res[2] = n
    BY <2>1
  <2>3. /\ x.op \in {"ensure", "create"}
        /\ x.res[1] \in {"Ingress", "IngressRouteTCP", "NetworkPolicy"}
    BY <2>1, <2>2
  <2>4. x.res[2] \in FixedIngresses
    BY <2>2
  <2>5. QED
    BY <2>3, <2>4 DEF RoutingStep
<1>4. \A x \in In(some) : RoutingStep(x)
  <2>1. 1 .. 4 = {1, 2, 3, 4}
    OBVIOUS
  <2>2. RoutingStep(some[1]) /\ RoutingStep(some[2]) /\ RoutingStep(some[3]) /\ RoutingStep(some[4])
    BY <1>2, <1>3 DEF FixedIngresses
  <2>3. QED
    BY <1>1, <2>1, <2>2 DEF In
<1>5. Listed(some)
  BY DEF Listed, In, ingresses, some
<1>6. QED
  BY <1>4, <1>5 DEF some

LEMMA SwitchedSteps ==
  LET some == [i \in DOMAIN optionalIngresses |->
                 [optionalIngresses[i].step EXCEPT !.when = optionalIngresses[i].backend]]
  IN  Listed(some) /\ \A x \in In(some) : RoutingStep(x)
<1> DEFINE some == [i \in DOMAIN optionalIngresses |->
                 [optionalIngresses[i].step EXCEPT !.when = optionalIngresses[i].backend]]
<1>1. DOMAIN some = 1 .. 3 /\ Len(some) = 3
  BY DEF optionalIngresses
<1>2. /\ some[1] = [Ensure("Ingress", "nextcloud") EXCEPT !.when = "nextcloud"]
      /\ some[2] = [Ensure("Ingress", "wordpress") EXCEPT !.when = "wordpress"]
      /\ some[3] = [Ensure("Ingress", "dolibarr") EXCEPT !.when = "dolibarr"]
  BY DEF optionalIngresses, ensureIngress
<1>3. RoutingStep(some[1]) /\ RoutingStep(some[2]) /\ RoutingStep(some[3])
  BY <1>2 DEF RoutingStep, SwitchedIngresses, Ensure
<1>4. \A x \in In(some) : RoutingStep(x)
  BY <1>1, <1>3 DEF In
<1>5. Listed(some)
  BY DEF Listed, In, optionalIngresses
<1>6. QED
  BY <1>4, <1>5

LEMMA RouteSteps ==
  /\ Listed(ensureGlauthIngressRouteTCP)
  /\ \A x \in In(ensureGlauthIngressRouteTCP) : RoutingStep(x)
  /\ \E x \in In(ensureGlauthIngressRouteTCP) : Unconditional(x)
<1> DEFINE x == [Ensure("IngressRouteTCP", "glauth-ldaps") EXCEPT !.op = "create"]
<1>1. x.op = "create" /\ x.res = <<"IngressRouteTCP", "glauth-ldaps">> /\ x.when = "always"
  BY DEF Ensure
<1>2. ensureGlauthIngressRouteTCP = <<x>>
  BY DEF ensureGlauthIngressRouteTCP
<1> HIDE DEF x
<1>3. Listed(<<x>>) /\ In(<<x>>) = {x}
  BY DEF Listed, In
<1>4. RoutingStep(x) /\ Unconditional(x)
  BY <1>1 DEF RoutingStep, Unconditional
<1>5. QED
  BY <1>2, <1>3, <1>4

LEMMA PolicySteps ==
  Listed(ensureNetworkPolicies) /\ \A x \in In(ensureNetworkPolicies) : RoutingStep(x)
  BY DEF ensureNetworkPolicies, Ensure, Listed, In, RoutingStep

LEMMA RoutingSteps ==
  /\ Listed(routingSteps)
  /\ \A x \in In(routingSteps) : RoutingStep(x)
  /\ \E x \in In(routingSteps) : Unconditional(x)
<1> DEFINE fixed == [i \in DOMAIN ingresses |-> ingresses[i].step]
           switched == [i \in DOMAIN optionalIngresses |->
                          [optionalIngresses[i].step EXCEPT !.when = optionalIngresses[i].backend]]
           both == fixed \o switched
<1>1. Listed(fixed) /\ \A x \in In(fixed) : RoutingStep(x)
  BY FixedSteps
<1>2. Listed(switched) /\ \A x \in In(switched) : RoutingStep(x)
  BY SwitchedSteps
<1>3. ensureIngresses = both \o ensureGlauthIngressRouteTCP
  BY DEF ensureIngresses
<1> HIDE DEF fixed, switched
<1>4. Listed(both) /\ In(both) = In(fixed) \cup In(switched)
  BY <1>1, <1>2, CatIn
<1> HIDE DEF both
<1>5. /\ Listed(ensureIngresses)
      /\ In(ensureIngresses) = In(both) \cup In(ensureGlauthIngressRouteTCP)
  BY <1>3, <1>4, RouteSteps, CatIn
<1>6. /\ Listed(routingSteps)
      /\ In(routingSteps) = In(ensureIngresses) \cup In(ensureNetworkPolicies)
  BY <1>5, PolicySteps, CatIn DEF routingSteps
<1>7. QED
  BY <1>1, <1>2, <1>4, <1>5, <1>6, RouteSteps, PolicySteps

-----------------------------------------------------------------------------
(* The whole Plan: the core first.                                          *)

Later == In(serviceSteps) \cup In(routingSteps)

LEMMA PlanParts ==
  ASSUME Plan = FullPlan
  PROVE  /\ \A i \in 1 .. 13 : i \in DOMAIN Plan /\ Plan[i] = coreSteps[i]
         /\ \A j \in DOMAIN Plan : j \in 1 .. 13 \/ (j > 13 /\ Plan[j] \in Later)
         /\ \A x \in Later : \E i \in DOMAIN Plan : Plan[i] = x
<1> DEFINE front == coreSteps \o serviceSteps
<1>1. Listed(front) /\ In(front) = In(coreSteps) \cup In(serviceSteps)
  BY CoreListed, ServiceSteps, CatIn
<1>2. PICK S : coreSteps \in Seq(S) /\ serviceSteps \in Seq(S)
  BY CoreListed, ServiceSteps, BothListed
<1>c. /\ \A i \in DOMAIN coreSteps : i \in DOMAIN front /\ front[i] = coreSteps[i]
      /\ \A i \in DOMAIN front : i \in DOMAIN coreSteps \/
           (/\ i > Len(coreSteps) /\ i - Len(coreSteps) \in DOMAIN serviceSteps
            /\ front[i] = serviceSteps[i - Len(coreSteps)])
      /\ front \in Seq(S) /\ Len(front) = Len(coreSteps) + Len(serviceSteps)
  BY <1>2, CatSteps
<1>5. Plan = front \o routingSteps
  BY DEF FullPlan
<1> HIDE DEF front
<1>3. /\ \A i \in 1 .. 13 : i \in DOMAIN front /\ front[i] = coreSteps[i]
      /\ \A j \in DOMAIN front : j \in 1 .. 13 \/ (j > 13 /\ front[j] \in In(serviceSteps))
  <2>1. DOMAIN coreSteps = 1 .. 13 /\ Len(coreSteps) = 13
    BY CoreSteps
  <2>2. \A i \in 1 .. 13 : i \in DOMAIN front /\ front[i] = coreSteps[i]
    BY <1>c, <2>1
  <2>3. \A j \in DOMAIN front : j \in 1 .. 13 \/
          (j > 13 /\ j - 13 \in DOMAIN serviceSteps /\ front[j] = serviceSteps[j - 13])
    BY <1>c, <2>1
  <2>4. QED
    BY <2>2, <2>3 DEF In
<1>4. Len(front) \in Nat /\ Len(front) >= 13 /\ DOMAIN front = 1 .. Len(front)
  BY <1>2, <1>c, CoreSteps
<1>6. PICK T : front \in Seq(T) /\ routingSteps \in Seq(T)
  BY <1>1, RoutingSteps, BothListed
<1>7. /\ \A i \in DOMAIN front : i \in DOMAIN Plan /\ Plan[i] = front[i]
      /\ \A j \in DOMAIN Plan : j \in DOMAIN front \/
           (j > Len(front) /\ Plan[j] \in In(routingSteps))
  BY <1>5, <1>6, CatSteps DEF In
<1>8. In(Plan) = In(front) \cup In(routingSteps)
  BY <1>1, <1>5, RoutingSteps, CatIn
<1>9. \A j \in DOMAIN Plan : j \in 1 .. 13 \/ (j > 13 /\ Plan[j] \in Later)
  <2>1. \A j \in DOMAIN Plan : j \in Nat
    BY PlanAssumption
  <2>2. QED
    BY <1>3, <1>4, <1>7, <2>1 DEF Later
<1>10. \A x \in Later : \E i \in DOMAIN Plan : Plan[i] = x
  BY <1>1, <1>8 DEF Later, In
<1>11. QED
  BY <1>3, <1>7, <1>9, <1>10

(* What is made in the core is made before all that is not.                 *)
LEMMA CoreBefore ==
  ASSUME Plan = FullPlan, NEW i \in 1 .. 13, coreSteps[i].when = "always",
         NEW s, \A j \in 1 .. 13 : coreSteps[j].res = s => i < j
  PROVE  Before(coreSteps[i].res, s)
<1>1. ASSUME NEW j \in DOMAIN Plan, Plan[j].res = s
      PROVE  i < j
  <2>1. CASE j \in 1 .. 13
    BY <1>1, <2>1, PlanParts
  <2>2. CASE j > 13
    <3>1. j \in Nat
      BY <1>1, PlanAssumption
    <3>2. QED
      BY <2>2, <3>1
  <2>3. QED
    BY <1>1, <2>1, <2>2, PlanParts
<1>2. QED
  BY <1>1, PlanParts DEF Before

LEMMA CoreFields ==
  /\ \A i \in 1 .. 13 : coreSteps[i].owner = "core"
  /\ coreSteps[1].res = AdminCredentials /\ coreSteps[1].when = "generatedAdminPassword"
  /\ \A i \in 2 .. 10 : coreSteps[i].when = "always"
  /\ coreSteps[2].res = PostgresSecret /\ coreSteps[3].res = RustfsSecret
  /\ coreSteps[4].res = NinegateSecret /\ coreSteps[5].res = CaSecret
  /\ \A i \in 1 .. 13 : coreSteps[i].op = "read" <=> i = 6
  /\ coreSteps[6].res = CaSecret /\ coreSteps[7].res = Secret("ninegate-tls")
  /\ coreSteps[8].res = Secret("dex-tls") /\ coreSteps[9].res = Secret("rustfs-tls")
  /\ coreSteps[10].res = Secret("glauth-tls")
  /\ coreSteps[11].res = Secret("nextcloud-tls") /\ coreSteps[11].when = "nextcloud"
  /\ coreSteps[12].res = Secret("wordpress-tls") /\ coreSteps[12].when = "wordpress"
  /\ coreSteps[13].res = Secret("dolibarr-tls") /\ coreSteps[13].when = "dolibarr"
<1>1. \A n : /\ Generated(n).res = Secret(n) /\ Generated(n).op = "ensure"
             /\ Generated(n).when = "always" /\ Generated(n).owner = "core"
  BY DEF Generated, Ensure, Secret
<1>2. \A n, w : /\ Optional(n, w).res = Secret(n) /\ Optional(n, w).op = "ensure"
                /\ Optional(n, w).when = w /\ Optional(n, w).owner = "core"
  BY DEF Optional, Generated, Ensure, Secret
<1>3. /\ coreSteps[6].res = Secret("ca") /\ coreSteps[6].op = "read"
      /\ coreSteps[6].when = "always" /\ coreSteps[6].owner = "core"
  <2>1. coreSteps[6] = [Generated("ca") EXCEPT !.op = "read"]
    BY CoreSteps
  <2>2. QED
    BY <2>1 DEF Generated, Ensure, Secret
<1>4. \A i \in {2, 3, 4, 5, 7, 8, 9, 10} : \E n : coreSteps[i] = Generated(n)
  BY CoreSteps
<1>5. \A i \in {1, 11, 12, 13} : \E n, w : coreSteps[i] = Optional(n, w)
  BY CoreSteps
<1>6. \A i \in {2, 3, 4, 5, 7, 8, 9, 10} :
        coreSteps[i].when = "always" /\ coreSteps[i].op = "ensure" /\ coreSteps[i].owner = "core"
  BY <1>1, <1>4
<1>7. \A i \in {1, 11, 12, 13} : coreSteps[i].op = "ensure" /\ coreSteps[i].owner = "core"
  BY <1>2, <1>5
<1>8. /\ coreSteps[2].res = PostgresSecret /\ coreSteps[3].res = RustfsSecret
      /\ coreSteps[4].res = NinegateSecret /\ coreSteps[5].res = CaSecret
      /\ coreSteps[7].res = Secret("ninegate-tls")
      /\ coreSteps[8].res = Secret("dex-tls") /\ coreSteps[9].res = Secret("rustfs-tls")
      /\ coreSteps[10].res = Secret("glauth-tls")
  BY <1>1, CoreSteps DEF PostgresSecret, RustfsSecret, NinegateSecret, CaSecret
<1>9. /\ coreSteps[1].res = AdminCredentials /\ coreSteps[1].when = "generatedAdminPassword"
      /\ coreSteps[11].res = Secret("nextcloud-tls") /\ coreSteps[11].when = "nextcloud"
      /\ coreSteps[12].res = Secret("wordpress-tls") /\ coreSteps[12].when = "wordpress"
      /\ coreSteps[13].res = Secret("dolibarr-tls") /\ coreSteps[13].when = "dolibarr"
  BY <1>2, CoreSteps DEF AdminCredentials
<1>10. 1 .. 13 = {2, 3, 4, 5, 7, 8, 9, 10} \cup {1, 11, 12, 13} \cup {6}
  OBVIOUS
<1>11. 2 .. 10 = {2, 3, 4, 5, 7, 8, 9, 10} \cup {6}
  OBVIOUS
<1>12. /\ \A i \in 1 .. 13 : coreSteps[i].owner = "core"
       /\ \A i \in 1 .. 13 : coreSteps[i].op = "read" <=> i = 6
       /\ \A i \in 2 .. 10 : coreSteps[i].when = "always"
  BY <1>3, <1>6, <1>7, <1>10, <1>11
<1>13. QED
  BY <1>3, <1>8, <1>9, <1>12 DEF CaSecret

-----------------------------------------------------------------------------
(* The order within the controllers: Dex writes its configuration first.    *)

Precedes(steps, r, s) ==
  \A j \in DOMAIN steps : steps[j].res = s =>
    \E i \in DOMAIN steps :
      i < j /\ steps[i].res = r /\ steps[i].when \in {"always", steps[j].when}

LEMMA AbsentPrecedes ==
  ASSUME NEW p, NEW r, NEW s, \A x \in In(p) : x.res # s
  PROVE  Precedes(p, r, s)
  BY DEF Precedes, In

LEMMA CatPrecedes ==
  ASSUME NEW p, Listed(p), NEW q, Listed(q), NEW r, NEW s,
         Precedes(p, r, s), Precedes(q, r, s)
  PROVE  Precedes(p \o q, r, s)
<1> DEFINE c == p \o q
<1>1. PICK S : p \in Seq(S) /\ q \in Seq(S)
  BY BothListed
<1>2. SUFFICES ASSUME NEW j \in DOMAIN c, c[j].res = s
               PROVE  \E i \in DOMAIN c :
                        i < j /\ c[i].res = r /\ c[i].when \in {"always", c[j].when}
  BY DEF Precedes
<1>3. CASE j \in DOMAIN p
  <2>1. c[j] = p[j]
    BY <1>1, <1>3, CatSteps
  <2>2. PICK i \in DOMAIN p : i < j /\ p[i].res = r /\ p[i].when \in {"always", p[j].when}
    BY <1>2, <1>3, <2>1 DEF Precedes
  <2>3. i \in DOMAIN c /\ c[i] = p[i]
    BY <1>1, CatSteps
  <2>4. QED
    BY <2>1, <2>2, <2>3
<1>4. CASE j \notin DOMAIN p
  <2>1. j - Len(p) \in DOMAIN q /\ c[j] = q[j - Len(p)]
    BY <1>1, <1>4, CatSteps
  <2>2. PICK i \in DOMAIN q : /\ i < j - Len(p) /\ q[i].res = r
                              /\ q[i].when \in {"always", q[j - Len(p)].when}
    BY <1>2, <2>1 DEF Precedes
  <2>3. Len(p) + i \in DOMAIN c /\ c[Len(p) + i] = q[i]
    BY <1>1, CatLater
  <2>4. Len(p) + i < j
    <3>1. Len(p) \in Nat /\ i \in Nat /\ j \in Nat
      BY <1>1, CatSteps
    <3>2. QED
      BY <2>2, <3>1
  <2>5. QED
    BY <2>1, <2>2, <2>3, <2>4
<1>5. QED
  BY <1>3, <1>4

DexDeployment == <<"Deployment", "dex">>

LEMMA DexPrecedes == Precedes(dex_Reconcile, DexConfig, DexDeployment)
<1> DEFINE steps == <<Ensure("Secret", "dex-config"), Ensure("Secret", "dex-tls"),
                      Ensure("Deployment", "dex"), Ensure("Service", "dex")>>
<1>1. dex_Reconcile = [i \in DOMAIN steps |-> Under(steps[i], "Dex", "dex")]
  BY OfUnder DEF dex_Reconcile, dex_ensureConfigSecret, dex_ensureTLSSecret,
     dex_ensureDeployment, dex_ensureService, Workload, Expose
<1>2. DOMAIN dex_Reconcile = 1 .. 4 /\ steps[1] = Ensure("Secret", "dex-config")
  BY <1>1
<1> HIDE DEF steps
<1>3. dex_Reconcile[1].res = DexConfig
  <2>1. dex_Reconcile[1] = Under(Ensure("Secret", "dex-config"), "Dex", "dex")
    BY <1>1, <1>2
  <2>2. QED
    BY <2>1 DEF Under, Ensure, DexConfig, Secret
<1>4. \A i \in 1 .. 4 : dex_Reconcile[i].when = "dex"
  BY <1>2, DexSteps DEF Controls, In
<1>5. \A j \in 1 .. 4 : j = 1 \/ 1 < j
  OBVIOUS
<1>6. DexConfig # DexDeployment
  BY DEF DexConfig, Secret, DexDeployment
<1>7. QED
  BY <1>2, <1>3, <1>4, <1>5, <1>6 DEF Precedes

LEMMA CoreNames == \A i \in 1 .. 13 : \E n : coreSteps[i].res = Secret(n)
<1>1. 1 .. 13 = {1, 2, 3, 4, 5, 6, 7, 8, 9, 10, 11, 12, 13}
  OBVIOUS
<1>2. QED
  BY <1>1, CoreFields DEF AdminCredentials, PostgresSecret, RustfsSecret, NinegateSecret, CaSecret

LEMMA CoreSecrets == \A x \in In(coreSteps) : x.res[1] = "Secret"
<1>1. \A n : Secret(n)[1] = "Secret"
  BY DEF Secret
<1>2. \A i \in 1 .. 13 : coreSteps[i].res[1] = "Secret"
  BY <1>1, CoreNames
<1>3. QED
  BY <1>2, CoreSteps DEF In

LEMMA ConfigBeforeDex ==
  ASSUME Plan = FullPlan
  PROVE  Before(DexConfig, DexDeployment)
<1> DEFINE P(steps) == Precedes(steps, DexConfig, DexDeployment)
<1>1. PICK p : /\ Listed(p) /\ serviceSteps = p \o dex_Reconcile
               /\ \A x \in In(p) : x.res \in ServiceObjects \ DexObjects
  BY ServiceSteps
<1>2. P(p)
  BY <1>1, AbsentPrecedes DEF DexObjects, DexDeployment
<1>3. P(serviceSteps)
  BY <1>1, <1>2, DexPrecedes, DexSteps, CatPrecedes DEF Controls
<1>4. P(coreSteps)
  BY CoreSecrets, AbsentPrecedes DEF DexDeployment
<1>5. P(routingSteps)
  BY RoutingSteps, AbsentPrecedes DEF DexDeployment, RoutingStep
<1>6. P(coreSteps \o serviceSteps) /\ Listed(coreSteps \o serviceSteps)
  BY <1>3, <1>4, CoreListed, ServiceSteps, CatPrecedes, CatIn
<1>7. P(FullPlan)
  BY <1>5, <1>6, RoutingSteps, CatPrecedes DEF FullPlan
<1>8. QED
  BY <1>7 DEF Before, Precedes

-----------------------------------------------------------------------------
(* What StackProofs and CredentialProofs assume of a Plan.                  *)

(* What is made in the core comes before any object that is not a Secret.   *)
LEMMA SecretBefore ==
  ASSUME Plan = FullPlan, NEW i \in 2 .. 10, NEW s, s[1] # "Secret"
  PROVE  Before(coreSteps[i].res, s)
<1>1. \A j \in 1 .. 13 : coreSteps[j].res # s
  BY CoreSteps, CoreSecrets DEF In
<1>2. i \in 1 .. 13 /\ coreSteps[i].when = "always"
  BY CoreFields
<1>3. QED
  BY <1>1, <1>2, CoreBefore

LEMMA WorkloadFields ==
  /\ postgresql_ensureStatefulSet.step.res = <<"StatefulSet", "postgresql">>
  /\ postgresql_ensureStatefulSet.uses = {ConfigMap("postgres-config"), Secret("postgres-secret")}
  /\ redis_ensureDeployment.step.res = <<"Deployment", "redis">>
  /\ redis_ensureDeployment.uses = {}
  /\ rustfs_ensureDeployment.step.res = <<"Deployment", "rustfs">>
  /\ rustfs_ensureDeployment.uses = {Secret("rustfs-secret"), Volume("rustfs-data")}
  /\ ninegate_ensureDeployment.step.res = <<"Deployment", "ninegate">>
  /\ ninegate_ensureDeployment.uses =
       {Secret("ninegate-secret"), Volume("ninegate-uploads"),
        Volume("ninegate-public-uploads"), ConfigMap("ninegate-glauth-config")}
  /\ glauth_ensureDeployment.step.res = <<"Deployment", "glauth">>
  /\ glauth_ensureDeployment.uses = {ConfigMap("ninegate-glauth-config"), Secret("glauth-tls")}
  /\ dex_ensureDeployment.step.res = DexDeployment
  /\ dex_ensureDeployment.uses = {Secret("dex-config"), Secret("dex-tls")}
<1>1. \A kind, name, uses :
        LET w == Workload(kind, name, uses)
        IN  w.step.res = <<kind, name>> /\ w.uses = uses
  BY DEF Workload, Ensure
<1>2. QED
  BY <1>1 DEF postgresql_ensureStatefulSet, redis_ensureDeployment, rustfs_ensureDeployment,
     ninegate_ensureDeployment, glauth_ensureDeployment, dex_ensureDeployment, DexDeployment

LEMMA NotSecrets == \A n : ConfigMap(n)[1] # "Secret" /\ Volume(n)[1] # "Secret"
  BY DEF ConfigMap, Volume

LEMMA PlanSecretsFirst == ASSUME Plan = FullPlan PROVE SecretsFirst
<1> DEFINE Ok(w) == \A r \in w.uses : r[1] = "Secret" => Before(r, w.step.res)
<1>1. ASSUME NEW i \in 2 .. 10, NEW s, s[1] # "Secret"
      PROVE  Before(coreSteps[i].res, s)
  BY <1>1, SecretBefore
<1>2. Ok(postgresql_ensureStatefulSet)
  <2>1. Before(Secret("postgres-secret"), <<"StatefulSet", "postgresql">>)
    BY <1>1, CoreFields DEF PostgresSecret
  <2>2. QED
    BY <2>1, WorkloadFields, NotSecrets
<1>3. Ok(redis_ensureDeployment)
  BY WorkloadFields
<1>4. Ok(rustfs_ensureDeployment)
  <2>1. Before(Secret("rustfs-secret"), <<"Deployment", "rustfs">>)
    BY <1>1, CoreFields DEF RustfsSecret
  <2>2. QED
    BY <2>1, WorkloadFields, NotSecrets
<1>5. Ok(ninegate_ensureDeployment)
  <2>1. Before(Secret("ninegate-secret"), <<"Deployment", "ninegate">>)
    BY <1>1, CoreFields DEF NinegateSecret
  <2>2. QED
    BY <2>1, WorkloadFields, NotSecrets
<1>6. Ok(glauth_ensureDeployment)
  <2>1. Before(Secret("glauth-tls"), <<"Deployment", "glauth">>)
    BY <1>1, CoreFields
  <2>2. QED
    BY <2>1, WorkloadFields, NotSecrets
<1>7. Ok(dex_ensureDeployment)
  <2>1. Before(Secret("dex-tls"), DexDeployment) /\ Before(Secret("dex-config"), DexDeployment)
    BY <1>1, CoreFields, ConfigBeforeDex DEF DexDeployment, DexConfig
  <2>2. QED
    BY <2>1, WorkloadFields
<1>8. \A w \in Workloads : Ok(w)
  <2> HIDE DEF Ok
  <2>1. QED
    BY <1>2, <1>3, <1>4, <1>5, <1>6, <1>7 DEF Workloads
<1>9. QED
  BY <1>8 DEF SecretsFirst

(* Where the Secrets of the core are made: once, unless the controller whose*)
(* certificate it is makes it again.                                        *)
LEMMA SecretNames ==
  /\ \A n, m : Secret(n) = Secret(m) => n = m
  /\ \A n, m : Secret(n) # ConfigMap(m)
  /\ \A n : Secret(n)[1] = "Secret"
  BY DEF Secret, ConfigMap

LEMMA CoreNumbers == 1 .. 13 = {1, 2, 3, 4, 5, 6, 7, 8, 9, 10, 11, 12, 13}
  OBVIOUS

(* What the controllers and the routing make of Secrets.                    *)
LEMMA LaterSecrets ==
  \A x \in Later : x.res[1] = "Secret" =>
    x.owner # "core" /\ x.res \in {Secret("glauth-tls"), Secret("dex-tls"), Secret("dex-config")}
<1>1. \A x \in In(routingSteps) : x.res[1] # "Secret"
  BY RoutingSteps DEF RoutingStep
<1>2. \A r \in ServiceObjects : r[1] = "Secret" =>
        r \in {Secret("glauth-tls"), Secret("dex-tls"), Secret("dex-config")}
  BY DEF ServiceObjects, PostgresqlObjects, RedisObjects, RustfsObjects, NinegateObjects,
     GlauthObjects, DexObjects, Secret
<1>3. QED
  BY <1>1, <1>2, ServiceSteps DEF Later

LEMMA LaterOps ==
  \A x \in Later : x.op # "read"
  BY ServiceSteps, RoutingSteps DEF Later, RoutingStep

LEMMA PlanCopiesInOrder == ASSUME Plan = FullPlan PROVE CopiesInOrder
<1>1. /\ \A j \in 1 .. 13 : coreSteps[j].res = RustfsSecret => j = 3
      /\ \A j \in 1 .. 13 : coreSteps[j].res = NinegateSecret => j = 4
      /\ \A j \in 1 .. 13 : coreSteps[j].res = AdminCredentials => j = 1
  BY CoreFields, CoreNumbers, SecretNames
  DEF RustfsSecret, NinegateSecret, AdminCredentials, PostgresSecret, CaSecret
<1>2. \A j \in 1 .. 13 : coreSteps[j].res # DexConfig /\ coreSteps[j].res # GlauthConfig
  BY CoreFields, CoreNumbers, SecretNames
  DEF RustfsSecret, NinegateSecret, AdminCredentials, PostgresSecret, CaSecret, DexConfig,
      GlauthConfig
<1>3. /\ Before(PostgresSecret, RustfsSecret) /\ Before(PostgresSecret, NinegateSecret)
      /\ Before(PostgresSecret, GlauthConfig)
  <2>1. coreSteps[2].res = PostgresSecret /\ coreSteps[2].when = "always" /\ 2 \in 1 .. 13
    BY CoreFields
  <2>2. QED
    BY <1>1, <1>2, <2>1, CoreBefore
<1>4. Before(RustfsSecret, NinegateSecret)
  <2>1. coreSteps[3].res = RustfsSecret /\ coreSteps[3].when = "always" /\ 3 \in 1 .. 13
    BY CoreFields
  <2>2. QED
    BY <1>1, <2>1, CoreBefore
<1>5. Before(NinegateSecret, DexConfig)
  <2>1. coreSteps[4].res = NinegateSecret /\ coreSteps[4].when = "always" /\ 4 \in 1 .. 13
    BY CoreFields
  <2>2. QED
    BY <1>2, <2>1, CoreBefore
<1>6. \A x \in Later : x.res # AdminCredentials /\ x.res # NinegateSecret
  BY LaterSecrets, SecretNames DEF AdminCredentials, NinegateSecret
<1>7. \A j \in DOMAIN Plan : Plan[j].res = AdminCredentials =>
        j = 1 /\ Plan[j].when = "generatedAdminPassword"
  BY <1>1, <1>6, PlanParts, CoreFields
<1>8. \A j \in DOMAIN Plan : Plan[j].res \in {NinegateSecret, DexConfig} => 1 < j
  <2>1. \A j \in 1 .. 13 : coreSteps[j].res \in {NinegateSecret, DexConfig} => 1 < j
    BY <1>1, <1>2
  <2>2. \A j \in DOMAIN Plan : j \in Nat
    BY PlanAssumption
  <2>3. QED
    BY <2>1, <2>2, PlanParts
<1>9. 1 \in DOMAIN Plan /\ Plan[1].res = AdminCredentials
  <2>1. 1 \in 1 .. 13
    OBVIOUS
  <2>2. QED
    BY <2>1, PlanParts, CoreFields
<1>10. QED
  BY <1>3, <1>4, <1>5, <1>7, <1>8, <1>9 DEF CopiesInOrder

LEMMA PlanCertificatesInOrder == ASSUME Plan = FullPlan PROVE CertificatesInOrder
<1>1. \A j \in 1 .. 13 : coreSteps[j].res \in TlsSecrets => j > 6
  BY CoreFields, CoreNumbers, SecretNames
  DEF TlsSecrets, RustfsSecret, NinegateSecret, AdminCredentials, PostgresSecret, CaSecret
<1>2. \A t \in TlsSecrets : Before(CaSecret, t)
  <2>1. coreSteps[5].res = CaSecret /\ coreSteps[5].when = "always" /\ 5 \in 1 .. 13
    BY CoreFields
  <2>2. \A t \in TlsSecrets : \A j \in 1 .. 13 : coreSteps[j].res = t => 5 < j
    BY <1>1
  <2>3. QED
    BY <2>1, <2>2, CoreBefore
<1>3. \A j \in DOMAIN Plan : Plan[j].op = "read" => Plan[j].res = CaSecret
  BY LaterOps, PlanParts, CoreFields
<1>4. ASSUME NEW j \in DOMAIN Plan, Plan[j].res \in TlsSecrets
      PROVE  \E i \in DOMAIN Plan :
               /\ i < j /\ Plan[i].when = "always"
               /\ IF Plan[j].owner = "core" THEN Plan[i].op = "read"
                  ELSE Plan[i].res = Plan[j].res
  <2>1. \A i \in 1 .. 13 : i \in DOMAIN Plan /\ Plan[i] = coreSteps[i]
    BY PlanParts
  <2>2. CASE j \in 1 .. 13
    <3>1. 6 < j /\ 6 \in DOMAIN Plan /\ Plan[6].when = "always" /\ Plan[6].op = "read"
      BY <1>1, <1>4, <2>1, <2>2, CoreFields
    <3>2. Plan[j].owner = "core"
      BY <2>1, <2>2, CoreFields
    <3>3. QED
      BY <3>1, <3>2
  <2>3. CASE j > 13 /\ Plan[j] \in Later
    <3>1. Plan[j].res[1] = "Secret"
      BY <1>4, SecretNames DEF TlsSecrets
    <3>2. Plan[j].owner # "core" /\ Plan[j].res \in {Secret("glauth-tls"), Secret("dex-tls")}
      BY <1>4, <2>3, <3>1, LaterSecrets, SecretNames DEF TlsSecrets
    <3>3. \E i \in {8, 10} : Plan[i].res = Plan[j].res /\ Plan[i].when = "always"
      BY <2>1, <3>2, CoreFields
    <3>4. \A i \in {8, 10} : i \in DOMAIN Plan /\ i < j
      <4>1. j \in Nat
        BY PlanAssumption
      <4>2. QED
        BY <2>1, <2>3, <4>1
    <3>5. QED
      BY <3>2, <3>3, <3>4
  <2>4. QED
    BY <2>2, <2>3, PlanParts
<1>5. QED
  BY <1>2, <1>3, <1>4 DEF CertificatesInOrder

LEMMA PlanAlwaysCreates == ASSUME Plan = FullPlan PROVE AlwaysCreates
  BY PlanParts, RoutingSteps DEF AlwaysCreates, Later

LEMMA PlanKnownKinds == ASSUME Plan = FullPlan PROVE KnownKinds
<1>1. \A i \in 1 .. 13 : coreSteps[i].res[1] \in Cleaned
  BY CoreNames, SecretNames, KindSet
<1>2. \A r \in ServiceObjects : r[1] \in Cleaned
  BY KindSet
  DEF ServiceObjects, PostgresqlObjects, RedisObjects, RustfsObjects, NinegateObjects,
      GlauthObjects, DexObjects
<1>3. \A x \in In(routingSteps) : x.res[1] \in Routing
  BY RoutingSteps DEF RoutingStep, Routing
<1>4. \A x \in Later : x.res[1] \in Cleaned \cup Routing
  BY <1>2, <1>3, ServiceSteps DEF Later
<1>5. QED
  BY <1>1, <1>4, PlanParts DEF KnownKinds, Resources

-----------------------------------------------------------------------------
(* What a manifest that names the six services gives.                       *)

(* Each manifest enables the six controllers.                               *)
FullManifests == \A services \in Manifests : CoreServices \subseteq services.enabled

LEMMA CoreGives ==
  ASSUME Plan = FullPlan, NEW services, NEW i \in 1 .. 13,
         coreSteps[i].when = "always" \/ coreSteps[i].when \in services.enabled
  PROVE  Gives(services, coreSteps[i].res)
  BY PlanParts DEF Gives, Enabled

LEMMA ServiceGives ==
  ASSUME Plan = FullPlan, NEW services, CoreServices \subseteq services.enabled,
         NEW r \in ServiceObjects
  PROVE  Gives(services, r)
<1>1. PICK x \in In(serviceSteps) : x.res = r
  BY ServiceSteps
<1>2. x.when \in services.enabled /\ x \in Later
  BY <1>1, ServiceSteps DEF Later
<1>3. QED
  BY <1>1, <1>2, PlanParts DEF Gives, Enabled

(* A switched Ingress is given only with the switch.                        *)
LEMMA SwitchedGives ==
  ASSUME Plan = FullPlan, NEW services, NEW n \in SwitchedIngresses,
         Gives(services, <<"Ingress", n>>)
  PROVE  n \in services.enabled
<1>1. PICK j \in DOMAIN Plan : Plan[j].res = <<"Ingress", n>> /\ Enabled(services, Plan[j])
  BY DEF Gives
<1>2. Plan[j].res[1] = "Ingress" /\ Plan[j].res[2] = n
  BY <1>1
<1>3. j \notin 1 .. 13
  BY <1>2, PlanParts, CoreNames, SecretNames
<1>4. Plan[j].res \notin ServiceObjects
  BY <1>1 DEF ServiceObjects, PostgresqlObjects, RedisObjects, RustfsObjects, NinegateObjects,
     GlauthObjects, DexObjects
<1>5. Plan[j] \in In(routingSteps)
  BY <1>3, <1>4, PlanParts, ServiceSteps DEF Later
<1>6. RoutingStep(Plan[j]) /\ n \notin FixedIngresses /\ n # "always"
  BY <1>5, RoutingSteps DEF FixedIngresses, SwitchedIngresses
<1>7. Plan[j].when = n
  BY <1>2, <1>6 DEF RoutingStep
<1>8. QED
  BY <1>1, <1>6, <1>7 DEF Enabled

LEMMA RoutesTo ==
  \A name, port, tls :
    LET i == ensureIngress(name, port, tls)
    IN  i.step.res = <<"Ingress", name>> /\ i.backend = name /\ i.tls = tls
  BY DEF ensureIngress, Ensure

LEMMA IngressFields ==
  /\ \A i \in DOMAIN ingresses : ingresses[i].tls \in {"ninegate-tls", "dex-tls", "rustfs-tls"}
  /\ \A i \in DOMAIN optionalIngresses :
       \/ optionalIngresses[i] = ensureIngress("nextcloud", 80, "nextcloud-tls")
       \/ optionalIngresses[i] = ensureIngress("wordpress", 80, "wordpress-tls")
       \/ optionalIngresses[i] = ensureIngress("dolibarr", 80, "dolibarr-tls")
<1>1. DOMAIN ingresses = {1, 2, 3, 4} /\ DOMAIN optionalIngresses = {1, 2, 3}
  BY DEF ingresses, optionalIngresses
<1>2. /\ ingresses[1] = ensureIngress("ninegate", 80, "ninegate-tls")
      /\ ingresses[2] = ensureIngress("dex", 5556, "dex-tls")
      /\ ingresses[3] = ensureIngress("rustfs", 9001, "rustfs-tls")
      /\ ingresses[4] = ensureIngress("rustfs-api", 9000, "rustfs-tls")
  BY DEF ingresses
<1>3. /\ optionalIngresses[1] = ensureIngress("nextcloud", 80, "nextcloud-tls")
      /\ optionalIngresses[2] = ensureIngress("wordpress", 80, "wordpress-tls")
      /\ optionalIngresses[3] = ensureIngress("dolibarr", 80, "dolibarr-tls")
  BY DEF optionalIngresses
<1>4. /\ ingresses[1].tls = "ninegate-tls" /\ ingresses[2].tls = "dex-tls"
      /\ ingresses[3].tls = "rustfs-tls" /\ ingresses[4].tls = "rustfs-tls"
  BY <1>2, RoutesTo
<1>5. QED
  BY <1>1, <1>3, <1>4

LEMMA ExposedObjects == \A s \in Exposed : s.step.res \in ServiceObjects
<1>1. \A name, ports : Expose(name, ports).step.res = <<"Service", name>>
  BY DEF Expose, Ensure
<1>2. \A name \in CoreServices : <<"Service", name>> \in ServiceObjects
  BY DEF CoreServices, ServiceObjects, PostgresqlObjects, RedisObjects, RustfsObjects,
     NinegateObjects, GlauthObjects, DexObjects
<1>3. \A s \in Exposed : \E name \in CoreServices : \E ports : s = Expose(name, ports)
  BY DEF Exposed, CoreServices, postgresql_ensureService, redis_ensureService,
     rustfs_ensureService, ninegate_ensureService, glauth_ensureService, dex_ensureService
<1>4. ASSUME NEW s \in Exposed
      PROVE  s.step.res \in ServiceObjects
  <2>1. PICK name \in CoreServices : \E ports : s = Expose(name, ports)
    BY <1>3
  <2>2. s.step.res = <<"Service", name>>
    BY <1>1, <2>1
  <2>3. QED
    BY <1>2, <2>2
<1>5. QED
  BY <1>4

LEMMA PlanReferencesGiven ==
  ASSUME Plan = FullPlan, FullManifests PROVE ReferencesGiven
<1> SUFFICES ASSUME NEW services \in Manifests
             PROVE  /\ \A w \in Workloads : \A r \in w.uses : Gives(services, r)
                    /\ \A i \in AllIngresses : Gives(services, i.step.res) =>
                         /\ Gives(services, Secret(i.tls))
                         /\ \A s \in Exposed : s.step.res = <<"Service", i.backend>> =>
                              Gives(services, s.step.res)
  BY DEF ReferencesGiven
<1>1. \A r \in ServiceObjects : Gives(services, r)
  BY ServiceGives DEF FullManifests
<1>2. /\ Gives(services, Secret("postgres-secret")) /\ Gives(services, Secret("rustfs-secret"))
      /\ Gives(services, Secret("ninegate-secret")) /\ Gives(services, Secret("ninegate-tls"))
      /\ Gives(services, Secret("dex-tls")) /\ Gives(services, Secret("rustfs-tls"))
      /\ Gives(services, Secret("glauth-tls"))
  <2>1. \A i \in 2 .. 10 : Gives(services, coreSteps[i].res)
    <3>1. \A i \in 2 .. 10 : i \in 1 .. 13 /\ coreSteps[i].when = "always"
      BY CoreFields
    <3>2. QED
      BY <3>1, CoreGives
  <2>2. {2, 3, 4, 7, 8, 9, 10} \subseteq 2 .. 10
    OBVIOUS
  <2>3. QED
    BY <2>1, <2>2, CoreFields DEF PostgresSecret, RustfsSecret, NinegateSecret
<1>3. {ConfigMap("postgres-config"), Volume("rustfs-data"), Volume("ninegate-uploads"),
       Volume("ninegate-public-uploads"), ConfigMap("ninegate-glauth-config"),
       Secret("dex-config")} \subseteq ServiceObjects
  BY DEF ServiceObjects, PostgresqlObjects, RustfsObjects, NinegateObjects, GlauthObjects,
     DexObjects, ConfigMap, Volume, Secret
<1>4. \A w \in Workloads : \A r \in w.uses : Gives(services, r)
  BY <1>1, <1>2, <1>3, WorkloadFields DEF Workloads
<1>5. ASSUME NEW i \in AllIngresses, Gives(services, i.step.res)
      PROVE  Gives(services, Secret(i.tls))
  <2>1. CASE i.tls \in {"ninegate-tls", "dex-tls", "rustfs-tls"}
    BY <1>2, <2>1
  <2>2. ASSUME NEW n \in SwitchedIngresses, NEW t, i = ensureIngress(n, 80, t),
               NEW j \in 1 .. 13, coreSteps[j].res = Secret(t), coreSteps[j].when = n
        PROVE  Gives(services, Secret(i.tls))
    <3>1. Gives(services, <<"Ingress", n>>) /\ i.tls = t
      BY <1>5, <2>2, RoutesTo
    <3>2. n \in services.enabled
      BY <3>1, SwitchedGives
    <3>3. QED
      BY <2>2, <3>1, <3>2, CoreGives
  <2>3. ASSUME i = ensureIngress("nextcloud", 80, "nextcloud-tls")
        PROVE  Gives(services, Secret(i.tls))
    <3>1. "nextcloud" \in SwitchedIngresses /\ 11 \in 1 .. 13
      BY DEF SwitchedIngresses
    <3>2. coreSteps[11].res = Secret("nextcloud-tls") /\ coreSteps[11].when = "nextcloud"
      BY CoreFields
    <3>3. QED
      BY <2>2, <2>3, <3>1, <3>2
  <2>4. ASSUME i = ensureIngress("wordpress", 80, "wordpress-tls")
        PROVE  Gives(services, Secret(i.tls))
    <3>1. "wordpress" \in SwitchedIngresses /\ 12 \in 1 .. 13
      BY DEF SwitchedIngresses
    <3>2. coreSteps[12].res = Secret("wordpress-tls") /\ coreSteps[12].when = "wordpress"
      BY CoreFields
    <3>3. QED
      BY <2>2, <2>4, <3>1, <3>2
  <2>5. ASSUME i = ensureIngress("dolibarr", 80, "dolibarr-tls")
        PROVE  Gives(services, Secret(i.tls))
    <3>1. "dolibarr" \in SwitchedIngresses /\ 13 \in 1 .. 13
      BY DEF SwitchedIngresses
    <3>2. coreSteps[13].res = Secret("dolibarr-tls") /\ coreSteps[13].when = "dolibarr"
      BY CoreFields
    <3>3. QED
      BY <2>2, <2>5, <3>1, <3>2
  <2>6. QED
    BY <2>1, <2>3, <2>4, <2>5, IngressFields DEF AllIngresses
<1>6. QED
  BY <1>1, <1>4, <1>5, ExposedObjects

-----------------------------------------------------------------------------
(* The operator's own Plan, with the six services enabled: each pod is      *)
(* created over its Secrets and loses none before the deletion of the CR,   *)
(* all that a Ready CR refers to exists, its passwords agree and its        *)
(* certificates have the stored CA.                                         *)
THEOREM TheStackIsSafe ==
  ASSUME Plan = FullPlan, FullManifests,
         FreshObjects, FreshNamespace, NoFailedDelete, EditsKeep(Switches), EditsKeep(Choices)
  PROVE  CredentialsSpec =>
           /\ SecretsBeforePods
           /\ [](PodsKeepSecrets /\ ReferencesResolve /\ CredentialsAgree /\ CertificatesChain)
<1>1. SecretsFirst /\ ReferencesGiven /\ CopiesInOrder /\ CertificatesInOrder /\ AlwaysCreates
  BY PlanSecretsFirst, PlanReferencesGiven, PlanCopiesInOrder, PlanCertificatesInOrder,
     PlanAlwaysCreates
<1>2. Spec => SecretsBeforePods /\ []PodsKeepSecrets
  BY <1>1, SecretsAlwaysFirst, PodsAlwaysKeepSecrets
<1>3. Spec => []ReferencesResolve
  BY <1>1, ReferencesAlwaysResolve
<1>4. CredentialsSpec => []CredentialsAgree
  BY <1>1, CredentialsAlwaysAgree
<1>5. CredentialsSpec => []CertificatesChain
  BY <1>1, CertificatesAlwaysChain
<1>6. QED
  BY <1>2, <1>3, <1>4, <1>5, CredentialsAreSpec, PTL
=============================================================================
