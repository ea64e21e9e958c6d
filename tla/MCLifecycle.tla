---------------------------- MODULE MCLifecycle ----------------------------
(* Small plans for the model checking of Lifecycle.                         *)
EXTENDS Lifecycle

Password   == <<"Secret", "postgres-secret">>
Ca         == <<"Secret", "ca">>
StatefulPg == <<"StatefulSet", "postgresql">>
Redis      == <<"Deployment", "redis">>
Route      == <<"IngressRouteTCP", "glauth-ldaps">>

Do(op, res, owner, when) ==
  [op |-> op, res |-> res, owner |-> owner, when |-> when, needs |-> {}]

(* One step of each sort, in the order of Reconcile: two Secrets of the     *)
(* core, the read of the CA, one object of each of two services, the route  *)
(* that is created without a look.                                          *)
SmallPlan == <<Do("ensure", Password, "core", "always"),
               Do("ensure", Ca, "core", "always"),
               Do("read", Ca, "core", "always"),
               Do("ensure", StatefulPg, "PostgreSQL", "postgresql"),
               Do("ensure", Redis, "Redis", "redis"),
               Do("create", Route, "core", "always")>>

Everything == {Ca, Redis, NsObject}
OnlyCa     == {Ca}
OnlyNs     == {NsObject}

TwoServices == <<"PostgreSQL", "Redis">>

Choosing(enabled) == [given |-> TRUE, enabled |-> enabled]

Both      == {Choosing({"postgresql", "redis"})}
NilOrBoth == Both \cup {NoServices}
OneOrBoth == {Choosing({"redis"}), Choosing({"postgresql", "redis"})}
=============================================================================
