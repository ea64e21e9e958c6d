------------------------------ MODULE Contract ------------------------------
(***************************************************************************)
(* What the operator promises of one ClientNamespace, whatever its caches   *)
(* show and whatever fails: the abstract specification that Lifecycle       *)
(* implements (Lifecycle!Implements).  The resource and its namespace have  *)
(* no copies here, and every step is one change that a user can observe.    *)
(***************************************************************************)

VARIABLES
  life,      \* the resource: "none", "live" or "deleting"
  guarded,   \* it has the finalizer
  phase,     \* its status.phase
  home       \* the namespace: "none", "foreign" or "ours"

vars == <<life, guarded, phase, home>>

Init ==
  life = "none" /\ guarded = FALSE /\ phase = "" /\ home \in {"none", "foreign"}

(* The users.  Without a finalizer a deletion is immediate.                 *)
Apply ==
  /\ life = "none"
  /\ life' = "live" /\ guarded' = FALSE /\ phase' = "" /\ UNCHANGED home

Delete ==
  /\ life = "live"
  /\ \/ guarded /\ life' = "deleting" /\ UNCHANGED <<guarded, phase, home>>
     \/ ~guarded /\ life' = "none" /\ UNCHANGED <<guarded, home>> /\ phase' = ""

(* The operator takes charge of the resource before it makes anything ...   *)
Guard ==
  /\ life = "live" /\ ~guarded
  /\ guarded' = TRUE /\ UNCHANGED <<life, phase, home>>

Start ==
  /\ life = "live" /\ guarded /\ phase = ""
  /\ phase' = "Provisioning" /\ UNCHANGED <<life, guarded, home>>

(* ... the namespace perhaps for a resource whose deletion it has not seen. *)
Make ==
  /\ guarded /\ home = "none"
  /\ home' = "ours" /\ UNCHANGED <<life, guarded, phase>>

(* A failure that is reported may be overcome, and Ready is final.          *)
Report ==
  /\ life = "live" /\ guarded /\ phase \in {"Provisioning", "Failed"}
  /\ phase' \in {"Ready", "Failed"} /\ UNCHANGED <<life, guarded, home>>

(* A deletion takes the namespace, if it is the operator's, and only then   *)
(* the resource.                                                            *)
Unmake ==
  /\ life = "deleting" /\ home = "ours"
  /\ home' = "none" /\ UNCHANGED <<life, guarded, phase>>

Release ==
  /\ life = "deleting" /\ home # "ours"
  /\ life' = "none" /\ guarded' = FALSE /\ phase' = "" /\ UNCHANGED home

Next == Apply \/ Delete \/ Guard \/ Start \/ Make \/ Report \/ Unmake \/ Release

Spec == Init /\ [][Next]_vars

-----------------------------------------------------------------------------
(* What it is for: a namespace of the operator's has a resource that is     *)
(* guarded, and a guarded resource is there.                                *)
Owned == (home = "ours" => guarded) /\ (guarded => life # "none")
=============================================================================
