-------------------------------- MODULE Stack --------------------------------
(***************************************************************************)
(* The real Plan of Lifecycle: every object that Reconcile ensures, in the  *)
(* order of the calls, with what the pods read, what the Services expose    *)
(* and where the Ingresses lead.  One definition per ensureX function, with *)
(* the controller's package name in front where two controllers have one of *)
(* the same name.                                                           *)
(***************************************************************************)
EXTENDS Lifecycle, FiniteSets

Ensure(kind, name) ==
  [op |-> "ensure", res |-> <<kind, name>>, owner |-> "core",
   when |-> "always", needs |-> {}]

If(switch, steps) == [i \in DOMAIN steps |-> [steps[i] EXCEPT !.when = switch]]

(* The steps of a service controller whose Reconcile tests its switch.      *)
Of(service, switch, steps) ==
  [i \in DOMAIN steps |-> [steps[i] EXCEPT !.owner = service, !.when = switch]]

(* A workload and the objects its pods mount or take their environment from;*)
(* a Service and its ports; an Ingress, its TLS secret and its backend.     *)
Workload(kind, name, uses) == [step |-> Ensure(kind, name), uses |-> uses]
Expose(name, ports) == [step |-> Ensure("Service", name), ports |-> ports]

Secret(name)    == <<"Secret", name>>
ConfigMap(name) == <<"ConfigMap", name>>
Volume(name)    == <<"PersistentVolumeClaim", name>>

-----------------------------------------------------------------------------
(* Credentials, CA and certificates: steps of the core.                     *)

(* Nothing is created for a passwordSecretRef.                              *)
ensureAdminCredentials ==
  If("generatedAdminPassword", <<Ensure("Secret", "admin-credentials")>>)

ensureRootSecrets ==
  <<Ensure("Secret", "postgres-secret"), Ensure("Secret", "rustfs-secret")>>

ensureNinegateSecret == <<Ensure("Secret", "ninegate-secret")>>

ensureCA == <<Ensure("Secret", "ca")>>

getCA == <<[Ensure("Secret", "ca") EXCEPT !.op = "read"]>>

MisensureServiceCerts ==     \* leaves those of Dex and Glauth to their controllers
  getCA \o <<Ensure("Secret", "ninegate-tls"), Ensure("Secret", "rustfs-tls")>>
        \o If("nextcloud", <<Ensure("Secret", "nextcloud-tls")>>)

ensureServiceCerts ==
  getCA \o <<Ensure("Secret", "ninegate-tls"), Ensure("Secret", "dex-tls"),
             Ensure("Secret", "rustfs-tls"), Ensure("Secret", "glauth-tls")>>
        \o If("nextcloud", <<Ensure("Secret", "nextcloud-tls")>>)
        \o If("wordpress", <<Ensure("Secret", "wordpress-tls")>>)
        \o If("dolibarr", <<Ensure("Secret", "dolibarr-tls")>>)

-----------------------------------------------------------------------------
(* PostgreSQL                                                               *)

postgresql_ensureConfigMap == Ensure("ConfigMap", "postgres-config")

postgresql_ensureStatefulSet ==
  Workload("StatefulSet", "postgresql",
           {ConfigMap("postgres-config"), Secret("postgres-secret")})

postgresql_ensureService == Expose("postgresql", {5432})

postgresql_Reconcile ==
  Of("PostgreSQL", "postgresql",
     <<postgresql_ensureConfigMap, postgresql_ensureStatefulSet.step,
       postgresql_ensureService.step>>)

-----------------------------------------------------------------------------
(* Redis                                                                    *)

redis_ensureDeployment == Workload("Deployment", "redis", {})

redis_ensureService == Expose("redis", {6379})

redis_Reconcile ==
  Of("Redis", "redis", <<redis_ensureDeployment.step, redis_ensureService.step>>)

-----------------------------------------------------------------------------
(* RustFS                                                                   *)

rustfs_ensurePVC == Ensure("PersistentVolumeClaim", "rustfs-data")

rustfs_ensureDeployment ==
  Workload("Deployment", "rustfs", {Secret("rustfs-secret"), Volume("rustfs-data")})

rustfs_ensureService == Expose("rustfs", {9000, 9001})

rustfs_Reconcile ==
  Of("RustFS", "rustfs",
     <<rustfs_ensurePVC, rustfs_ensureDeployment.step, rustfs_ensureService.step>>)

-----------------------------------------------------------------------------
(* Ninegate                                                                 *)

Misninegate_ensurePVCs == <<Ensure("PersistentVolumeClaim", "ninegate-uploads")>>

ninegate_ensurePVCs ==
  <<Ensure("PersistentVolumeClaim", "ninegate-uploads"),
    Ensure("PersistentVolumeClaim", "ninegate-public-uploads")>>

ninegate_ensureDeployment ==
  Workload("Deployment", "ninegate",
           {Secret("ninegate-secret"), Volume("ninegate-uploads"),
            Volume("ninegate-public-uploads"), ConfigMap("ninegate-glauth-config")})

ninegate_ensureService == Expose("ninegate", {80})

ninegate_Reconcile ==
  Of("Ninegate", "ninegate",
     ninegate_ensurePVCs \o <<ninegate_ensureDeployment.step,
                              ninegate_ensureService.step>>)

-----------------------------------------------------------------------------
(* Glauth                                                                   *)

(* The configuration is written with the password of postgres-secret.       *)
glauth_ensureConfigMap ==
  [Ensure("ConfigMap", "ninegate-glauth-config")
     EXCEPT !.needs = {Secret("postgres-secret")}]

glauth_ensureTLSSecret == Ensure("Secret", "glauth-tls")

glauth_ensureDeployment ==
  Workload("Deployment", "glauth",
           {ConfigMap("ninegate-glauth-config"), Secret("glauth-tls")})

glauth_ensureService == Expose("glauth", {3893, 636})

glauth_Reconcile ==
  Of("Glauth", "glauth",
     <<glauth_ensureConfigMap, glauth_ensureTLSSecret,
       glauth_ensureDeployment.step, glauth_ensureService.step>>)

-----------------------------------------------------------------------------
(* Dex                                                                      *)

dex_ensureConfigSecret == Ensure("Secret", "dex-config")

dex_ensureTLSSecret == Ensure("Secret", "dex-tls")

dex_ensureDeployment ==
  Workload("Deployment", "dex", {Secret("dex-config"), Secret("dex-tls")})

dex_ensureService == Expose("dex", {5556, 5557})

Misdex_Reconcile ==       \* the Deployment before its configuration
  Of("Dex", "dex",
     <<dex_ensureDeployment.step, dex_ensureConfigSecret, dex_ensureTLSSecret,
       dex_ensureService.step>>)

dex_Reconcile ==
  Of("Dex", "dex",
     <<dex_ensureConfigSecret, dex_ensureTLSSecret, dex_ensureDeployment.step,
       dex_ensureService.step>>)

-----------------------------------------------------------------------------
(* Ingresses, the LDAPS route and the network policies.                     *)

(* ensureIngress routes to the Service that has the name of the Ingress.    *)
ensureIngress(name, port, tls) ==
  [step |-> Ensure("Ingress", name), backend |-> name, port |-> port, tls |-> tls]

ingresses == <<ensureIngress("ninegate", 80, "ninegate-tls"),
               ensureIngress("dex", 5556, "dex-tls"),
               ensureIngress("rustfs", 9001, "rustfs-tls"),
               ensureIngress("rustfs-api", 9000, "rustfs-tls")>>

optionalIngresses == <<ensureIngress("nextcloud", 80, "nextcloud-tls"),
                       ensureIngress("wordpress", 80, "wordpress-tls"),
                       ensureIngress("dolibarr", 80, "dolibarr-tls")>>

(* The route is looked up among the Secrets, where it never is.             *)
ensureGlauthIngressRouteTCP ==
  <<[Ensure("IngressRouteTCP", "glauth-ldaps") EXCEPT !.op = "create"]>>

ensureIngresses ==
  [i \in DOMAIN ingresses |-> ingresses[i].step]
    \o [i \in DOMAIN optionalIngresses |->
          [optionalIngresses[i].step EXCEPT !.when = optionalIngresses[i].backend]]
    \o ensureGlauthIngressRouteTCP

ensureNetworkPolicies ==
  <<Ensure("NetworkPolicy", "ninekube-allow-all-egress"),
    Ensure("NetworkPolicy", "ninekube-allow-all-ingress")>>

-----------------------------------------------------------------------------
(* The whole pass, and the controllers that main.go registers.              *)

RegisteredServices ==
  <<"PostgreSQL", "Redis", "RustFS", "Ninegate", "Glauth", "Dex">>

coreSteps ==
  ensureAdminCredentials \o ensureRootSecrets \o ensureNinegateSecret
    \o ensureCA \o ensureServiceCerts

serviceSteps ==
  postgresql_Reconcile \o redis_Reconcile \o rustfs_Reconcile
    \o ninegate_Reconcile \o glauth_Reconcile \o dex_Reconcile

routingSteps == ensureIngresses \o ensureNetworkPolicies

FullPlan == coreSteps \o serviceSteps \o routingSteps

Workloads == {postgresql_ensureStatefulSet, redis_ensureDeployment,
              rustfs_ensureDeployment, ninegate_ensureDeployment,
              glauth_ensureDeployment, dex_ensureDeployment}

Exposed == {postgresql_ensureService, redis_ensureService, rustfs_ensureService,
            ninegate_ensureService, glauth_ensureService, dex_ensureService}

AllIngresses == {ingresses[i] : i \in DOMAIN ingresses}
                  \cup {optionalIngresses[i] : i \in DOMAIN optionalIngresses}

-----------------------------------------------------------------------------
(* Properties.                                                              *)

Serving == cr.phase = "Ready" /\ ~cr.deleting

(* A pod is never created before the Secrets it reads, in whatever passes   *)
(* the objects were created: the order of the calls of Reconcile and of the *)
(* service controllers.                                                     *)
SecretsBeforePods ==
  [][\A w \in Workloads : w.step.res \in objs' \ objs =>
       \A r \in w.uses : r[1] = "Secret" => r \in objs']_vars

(* Only the deletion of the CR takes a Secret from under a pod.  The cleanup*)
(* begins with the Secrets, and it may stop anywhere, but whatever stops it,*)
(* the CR stays until no such pod is left.                                  *)
PodsKeepSecrets ==
  ns.state = "active" =>
    \A w \in Workloads : \A r \in w.uses :
      w.step.res \in objs /\ r[1] = "Secret" /\ r \notin objs => cr.deleting

Gives(services, r) == \E i \in DOMAIN Plan : Plan[i].res = r /\ Enabled(services, Plan[i])

Wanted(step) == Gives(cr.services, step.res)

(* Everything the pods of a Ready CR mount exists, and so do the TLS secret *)
(* of each of its Ingresses and the port it leads to, if any controller     *)
(* makes a Service of that name: they come from different controllers, the  *)
(* glauth ConfigMap of Ninegate from Glauth's, the dex and glauth           *)
(* certificates from the core.                                              *)
ReferencesResolve ==
  Serving =>
    /\ \A w \in Workloads : w.step.res \in objs => w.uses \subseteq objs
    /\ \A i \in AllIngresses : Wanted(i.step) =>
         /\ i.step.res \in objs => Secret(i.tls) \in objs
         /\ \A s \in Exposed : s.step.res = <<"Service", i.backend>> =>
              s.step.res \in objs /\ i.port \in s.ports

(* What these rest on.  Of the Plan: the steps that make the Secrets of a   *)
(* workload come before the one that makes the workload, under no switch    *)
(* that it is not under.  Of the manifests: what pods mount is made under   *)
(* all of them, and so is what an Ingress leads to, if the Ingress is.      *)
Before(r, s) ==
  \A j \in DOMAIN Plan : Plan[j].res = s =>
    \E i \in DOMAIN Plan :
      i < j /\ Plan[i].res = r /\ Plan[i].when \in {"always", Plan[j].when}

SecretsFirst ==
  \A w \in Workloads : \A r \in w.uses : r[1] = "Secret" => Before(r, w.step.res)

ReferencesGiven ==
  \A services \in Manifests :
    /\ \A w \in Workloads : \A r \in w.uses : Gives(services, r)
    /\ \A i \in AllIngresses : Gives(services, i.step.res) =>
         /\ Gives(services, Secret(i.tls))
         /\ \A s \in Exposed : s.step.res = <<"Service", i.backend>> =>
              Gives(services, s.step.res)

(* Edits do not touch the switches of these names.                          *)
EditsKeep(switches) ==
  MaxEdits = 0 \/
  \A s, t \in Manifests : s.enabled \cap switches = t.enabled \cap switches
=============================================================================
