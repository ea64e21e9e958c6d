------------------------------- MODULE Backup -------------------------------
(***************************************************************************)
(* task/backup.sh and task/restore.sh for one volume of a client.  Each     *)
(* starts a helper pod that mounts the volume and runs tar, and exchanges   *)
(* the archive with it by kubectl cp; the pod and the script run side by    *)
(* side.  No script looks at the outcome of a command.                      *)
(***************************************************************************)
EXTENDS Naturals

CONSTANT MaxWrites     \* bounds what the services write to the volume

VARIABLES
  script,    \* the function that runs, or "none"
  at,        \* the command it is at
  helper,    \* the phase of its pod, or "none"
  tar,       \* what the command of the pod has done: "todo", "doing", "done"
  inPod,     \* the archive in the emptyDir of the pod
  archive,   \* the archive in the directory of backups
  volume     \* the volume

vars == <<script, at, helper, tar, inPod, archive, volume>>

(* Contents are named by the number of writes they have seen; what is there *)
(* only in part, of an archive or of a damaged volume, has the contents 0.  *)
Absent == MaxWrites + 2
Part   == 0

Init ==
  /\ script = "none" /\ at = "end" /\ helper = "none" /\ tar = "todo"
  /\ inPod = Absent /\ archive = Absent /\ volume = 1

pod    == <<helper, tar, inPod>>
stored == <<archive, volume>>

-----------------------------------------------------------------------------
(* The commands of the two functions, in their order.                       *)

Commands(s) == IF s = "backup_pvc" THEN <<"run", "wait", "cp", "delete", "ok">>
                                   ELSE <<"run", "cp", "wait", "delete", "ok">>

GoOn ==
  /\ UNCHANGED script
  /\ \E i \in 1 .. 4 : at = Commands(script)[i] /\ at' = Commands(script)[i + 1]

Call ==
  /\ at = "end" /\ script' \in {"backup_pvc", "restore_pvc"} /\ at' = "run"
  /\ script' = "restore_pvc" => archive # Absent
  /\ UNCHANGED <<pod, stored>>

RunPod ==
  /\ at = "run" /\ GoOn
  /\ helper' = "Pending" /\ tar' = "todo" /\ inPod' = Absent
  /\ UNCHANGED stored

(* Thirty looks at the phase; that there was no success is not looked at.   *)
k8s_wait_pod == at = "wait" /\ GoOn /\ UNCHANGED <<pod, stored>>

(* kubectl cp needs a running container, and copies what is there.          *)
Copy ==
  /\ at = "cp" /\ GoOn
  /\ CASE script = "backup_pvc" /\ helper = "Running" /\ inPod # Absent ->
            archive' = inPod /\ UNCHANGED <<pod, volume>>
       [] script = "restore_pvc" /\ helper = "Running" ->
            inPod' = archive /\ UNCHANGED <<helper, tar, stored>>
       [] OTHER -> UNCHANGED <<pod, stored>>

DeletePod ==
  /\ at = "delete" /\ GoOn
  /\ helper' = "none" /\ tar' = "todo" /\ inPod' = Absent /\ UNCHANGED stored

Ok == at = "ok" /\ at' = "end" /\ UNCHANGED <<script, pod, stored>>

-----------------------------------------------------------------------------
(* The pod, and the services that go on writing.                            *)

StartContainer ==
  /\ helper = "Pending" /\ helper' = "Running"
  /\ UNCHANGED <<script, at, tar, inPod, stored>>

Tar ==
  /\ helper = "Running" /\ UNCHANGED <<script, at, archive>>
  /\ \/ /\ script = "backup_pvc" /\ tar = "todo" /\ tar' = "doing"
        /\ inPod' = Part /\ UNCHANGED <<helper, volume>>
     \/ /\ script = "backup_pvc" /\ tar = "doing" /\ tar' = "done"
        /\ inPod' = volume /\ UNCHANGED <<helper, volume>>
     \/ /\ script = "restore_pvc" /\ tar = "todo" /\ inPod = Absent   \* no file
        /\ helper' = "Failed" /\ UNCHANGED <<tar, inPod, volume>>
     \/ /\ script = "restore_pvc" /\ tar = "todo" /\ inPod # Absent
        /\ tar' = "done" /\ volume' = inPod /\ UNCHANGED <<helper, inPod>>

Write ==
  /\ volume \in 1 .. MaxWrites /\ volume' = volume + 1
  /\ UNCHANGED <<script, at, pod, archive>>

(* What restore.sh is there for.                                            *)
Damage ==
  /\ volume # Part /\ volume' = Part
  /\ UNCHANGED <<script, at, pod, archive>>

Next ==
  \/ Call \/ RunPod \/ k8s_wait_pod \/ Copy \/ DeletePod \/ Ok
  \/ StartContainer \/ Tar \/ Write \/ Damage

Spec == Init /\ [][Next]_vars

-----------------------------------------------------------------------------
(* "PVC ... restored": what the script has just said is restored from a     *)
(* whole archive is on the volume, or the services have written since.      *)
OkMeansRestored ==
  [][at = "ok" /\ script = "restore_pvc" /\ at' = "end" /\ archive # Part
       => volume >= archive]_vars
=============================================================================
