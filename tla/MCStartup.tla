------------------------------ MODULE MCStartup ------------------------------
(* Instances for the model checking of Startup.                             *)
EXTENDS Startup

Waiting == <<"PostgreSQL", "Ninegate", "Glauth">>

WaitingOwners == {Waiting[i] : i \in DOMAIN Waiting}

Needed == {Secret("postgres-secret"), Secret("ninegate-secret"), Secret("glauth-tls")}

(* FullPlan without the services that no pod waits for.                     *)
WaitingPlan ==
  SelectSeq(FullPlan, LAMBDA step : \/ step.owner \in WaitingOwners
                                    \/ step.res \in Needed
                                    \/ step.res[1] \in {"IngressRouteTCP", "NetworkPolicy"})

AllWaiting ==
  {[given |-> TRUE, enabled |-> {"postgresql", "ninegate", "glauth"}]}
=============================================================================
