--------------------------- MODULE TrackingRepair ---------------------------
(* The repair of a tracking label (web_tracking.py): a user previews and      *)
(* approves the label of one service; a job writes it into the Compose file,  *)
(* recreates the service from the image that it runs already, verifies the    *)
(* result and records it, or goes all the way back.                           *)
(*                                                                            *)
(* The file holds the old text, the approved new one, or what somebody else   *)
(* saved in between.  Image 1 is the one that runs at first.                  *)
EXTENDS Naturals

CONSTANT MaxOutside     \* bound: saves, pulls and stops by others

Texts == {"old", "new", "edited"}

VARIABLES
    file, disk,         \* the Compose file, and what a power loss may leave of it
    image,              \* what the tag of the service names locally
    ctr,                \* the container: its image, its label, whether it runs
    pc,
    approved,           \* plan_id of the approved preview
    expected,           \* expected_image_id
    backup,             \* the text of the backup file, or "none"
    wrote,              \* written_hashes is not empty
    started,            \* recreate_started
    trouble,            \* rollback_error is not empty
    job, audit,         \* status of the job and of its row in update_runs
    outside

outer == <<file, disk, image, ctr>>
local == <<approved, expected, backup, wrote, started, trouble>>
vars == <<outer, pc, local, job, audit, outside>>

TypeOK ==
    /\ file \in Texts /\ disk \subseteq Texts /\ image \in 1..2
    /\ ctr \in [image : 1..2, label : Texts, runs : BOOLEAN]
    /\ pc \in {"idle", "request", "queued", "audit", "backup", "write", "check", "up",
               "verify", "finish", "fail", "again", "record", "end", "over"}
    /\ approved \in {<<>>} \cup (Texts \X (0..2)) /\ expected \in 0..2
    /\ backup \in Texts \cup {"none"}
    /\ wrote \in BOOLEAN /\ started \in BOOLEAN /\ trouble \in BOOLEAN
    /\ job \in {"none", "queued", "running", "success", "failure"}
    /\ audit \in {"none", "running", "success", "failure"}
    /\ outside \in 0..MaxOutside

Init ==
    /\ file = "old" /\ disk = {"old"} /\ image = 1
    /\ ctr = [image |-> 1, label |-> "old", runs |-> TRUE]
    /\ pc = "idle" /\ approved = <<>> /\ expected = 0 /\ backup = "none"
    /\ wrote = FALSE /\ started = FALSE /\ trouble = FALSE
    /\ job = "none" /\ audit = "none" /\ outside = 0

-----------------------------------------------------------------------------
(* The rest of the world *)

Outside ==
    /\ outside < MaxOutside /\ outside' = outside + 1 /\ pc # "over"
    /\ \/ file' = "edited" /\ disk' = {"edited"} /\ UNCHANGED <<image, ctr>>
       \/ image' = 2 /\ UNCHANGED <<file, disk, ctr>>
       \/ ctr' = [ctr EXCEPT !.runs = FALSE] /\ UNCHANGED <<file, disk, image>>
    /\ UNCHANGED <<pc, local, job, audit>>

PowerLoss ==
    /\ pc # "over" /\ pc' = "over"
    /\ \E t \in disk : file' = t
    /\ UNCHANGED <<disk, image, ctr, local, job, audit, outside>>

-----------------------------------------------------------------------------
(* _matching_runtime_image_id: 0 unless the one container runs what the tag names *)
RuntimeImage == IF ctr.runs /\ ctr.image = image THEN image ELSE 0

(* build_tracking_repair_plan *)
PlanId == <<file, RuntimeImage>>
CanApply == ctr.runs /\ RuntimeImage # 0

To(step) == pc' = step /\ UNCHANGED <<outer, job, audit, outside>>

(* api_tracking_repair_plan: the user sees the plan and approves it. *)
Preview ==
    /\ pc = "idle" /\ CanApply
    /\ approved' = PlanId
    /\ To("request")
    /\ UNCHANGED <<expected, backup, wrote, started, trouble>>

(* api_apply_tracking_repair: 409 for a stale or blocked plan *)
Request ==
    /\ pc = "request"
    /\ \/ /\ approved = PlanId /\ CanApply
          /\ pc' = "queued" /\ job' = "queued"
       \/ /\ ~(approved = PlanId /\ CanApply)
          /\ pc' = "over" /\ UNCHANGED job
    /\ UNCHANGED <<outer, local, audit, outside>>

(* Any step of the job may raise. *)
Raise == To("fail") /\ UNCHANGED local

(* _revalidate_tracking_repair *)
Revalidate ==
    /\ pc = "queued" /\ job' = "running"
    /\ \/ /\ approved = PlanId /\ CanApply /\ expected' = RuntimeImage
          /\ pc' = "audit"
       \/ pc' = "fail" /\ UNCHANGED expected
    /\ UNCHANGED <<outer, approved, backup, wrote, started, trouble, audit, outside>>

InsertAudit ==
    /\ pc = "audit"
    /\ \/ pc' = "backup" /\ audit' = "running" /\ UNCHANGED <<outer, local, job, outside>>
       \/ Raise /\ UNCHANGED audit

TakeBackup ==
    /\ pc = "backup"
    /\ \/ /\ To("write") /\ backup' = file
          /\ UNCHANGED <<approved, expected, wrote, started, trouble>>
       \/ Raise

(* Mutant: the file is replaced whatever it holds. *)
HoldsAlways(text) == TRUE

(* The hash check under the lock of _atomic_replace_compose *)
Holds(text) == file = text

(* os.replace, and then the sync of the directory *)
Replace(text, synced) ==
    /\ file' = text
    /\ disk' = IF synced THEN {text} ELSE disk \cup {text}

(* apply_compose_tracking_label: a failed sync raises after the text is written. *)
WriteLabel ==
    /\ pc = "write"
    /\ \/ /\ Holds("old")
          /\ \E synced \in BOOLEAN :
                 Replace("new", synced) /\ pc' = IF synced THEN "check" ELSE "fail"
          /\ wrote' = TRUE
          /\ UNCHANGED <<image, ctr, approved, expected, backup, started, trouble, job, audit,
                         outside>>
       \/ Raise

(* The source and the image are looked at before the recreation. *)
CheckRuntime ==
    /\ pc = "check"
    /\ \/ file = "new" /\ RuntimeImage = expected /\ To("up") /\ UNCHANGED local
       \/ Raise

(* Mutant: the flag is set after compose up. *)
StartedBeforeUpLate == FALSE

StartedBeforeUp == TRUE

(* compose up without pull or build; it may fail before or after the container *)
(* was replaced, or leave it stopped.                                          *)
Recreate(runs) == ctr' = [image |-> image, label |-> file, runs |-> runs]

Up ==
    /\ pc = "up"
    /\ \/ /\ file = "new"
          /\ \/ Recreate(TRUE) /\ pc' = "verify" /\ started' = TRUE
             \/ /\ (\E r \in BOOLEAN : Recreate(r)) \/ UNCHANGED ctr
                /\ pc' = "fail" /\ started' = StartedBeforeUp
          /\ UNCHANGED <<file, disk, image, approved, expected, backup, wrote, trouble, job,
                         audit, outside>>
       \/ Raise

(* Mutant: the image of the new container is not compared. *)
SameImageUnchecked == TRUE

SameImage == ctr.image = expected

(* _verify_recreated_service *)
Verify ==
    /\ pc = "verify"
    /\ \/ file = "new" /\ ctr.runs /\ SameImage /\ To("finish") /\ UNCHANGED local
       \/ Raise

(* _finish_tracking_audit is one transaction; the job's status follows it. *)
Finish ==
    /\ pc = "finish"
    /\ \/ /\ audit' = "success" /\ job' = "success" /\ pc' = "end"
          /\ UNCHANGED <<outer, local, outside>>
       \/ Raise

-----------------------------------------------------------------------------
(* _finish_failed_tracking_repair and _rollback_tracking_repair *)

(* Mutant: a restored file whose directory was not synced counts as safe. *)
KeepBackupNever(synced) == FALSE

KeepBackup(synced) == ~synced

Fail ==
    /\ pc = "fail"
    /\ \/ /\ wrote /\ Holds("new")
          /\ \E synced \in BOOLEAN :
                 Replace(backup, synced) /\ trouble' = KeepBackup(synced)
          /\ pc' = "again"
       \/ /\ wrote
          /\ pc' = "record" /\ trouble' = TRUE /\ UNCHANGED <<file, disk>>
       \/ /\ ~wrote
          /\ pc' = "record" /\ UNCHANGED <<file, disk, trouble>>
    /\ UNCHANGED <<image, ctr, approved, expected, backup, wrote, started, job, audit, outside>>

(* Mutant: the way back uses whatever the tag names now. *)
ImageStaysUnchecked == TRUE

ImageStays == image = expected

(* The recreation from the restored file *)
RestoreService ==
    /\ pc = "again" /\ pc' = "record"
    /\ \/ ~started /\ UNCHANGED <<ctr, trouble>>
       \/ started /\ ImageStays /\ Recreate(TRUE) /\ UNCHANGED trouble
       \/ /\ started
          /\ \/ ImageStays /\ (\E r \in BOOLEAN : Recreate(r))
             \/ UNCHANGED ctr
          /\ trouble' = TRUE
    /\ UNCHANGED <<file, disk, image, approved, expected, backup, wrote, started, job, audit,
                   outside>>

(* Mutant: the row is finished the same way on both paths. *)
FailureRowSame == IF audit = "none" THEN "none" ELSE "success"

(* Mutant: a status that the table does not know. *)
FailureRowTypo == IF audit = "none" THEN "none" ELSE "failed"

FailureRow == IF audit = "none" THEN "none" ELSE "failure"

(* The row may stay as it is when the database fails; the job ends anyway. *)
RecordFailure ==
    /\ pc = "record"
    /\ \/ audit' = FailureRow
       \/ UNCHANGED audit /\ audit = "running"
    /\ job' = "failure" /\ pc' = "end"
    /\ UNCHANGED <<outer, local, outside>>

(* finally: the backup goes unless the way back met trouble. *)
DropBackup ==
    /\ pc = "end" /\ pc' = "over"
    /\ backup' = IF trouble THEN backup ELSE "none"
    /\ UNCHANGED <<outer, approved, expected, wrote, started, trouble, job, audit, outside>>

Next ==
    \/ Outside \/ PowerLoss
    \/ Preview \/ Request
    \/ Revalidate \/ InsertAudit \/ TakeBackup \/ WriteLabel \/ CheckRuntime \/ Up
    \/ Verify \/ Finish
    \/ Fail \/ RestoreService \/ RecordFailure \/ DropBackup

Spec == Init /\ [][Next]_vars

-----------------------------------------------------------------------------
(* A repair that is reported as done has put the approved label on a container *)
(* of the image that was approved, however the tag was moved meanwhile.        *)
RepairedAsApproved ==
    job = "success" => ctr.label = "new" /\ ctr.image = approved[2]

(* A failed repair without a preserved backup has left nothing behind: neither *)
(* the label in the file, nor on the container, nor another image.             *)
FailureLeavesNothing ==
    (pc = "over" /\ job = "failure" /\ backup = "none")
        => file # "new" /\ ctr.label # "new" /\ ctr.image = 1

(* Until the repair has succeeded, the old text is the only one on the disk or *)
(* in the backup, or somebody else has saved the file.                         *)
OldTextStays == job = "success" \/ "new" \notin disk \/ backup = "old"

(* What somebody else saved is never overwritten. *)
SavesStay == [][file = "edited" => file' = "edited"]_vars

(* The row and the job agree on the outcome; a row may be left as running. *)
RowAgrees ==
    /\ audit = "success" => job = "success"
    /\ audit = "failure" => job = "failure"
    /\ job = "success" => audit = "success"
=============================================================================
