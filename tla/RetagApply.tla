------------------------------ MODULE RetagApply ------------------------------
(* A retag job (web_retags.py, web_retag_apply.py, web_retag_audit.py):       *)
(* preview, approval, the job that builds the plan again, and per stack the   *)
(* rewrite of the Compose file, pull, recreate, record and, after a failure,  *)
(* the way back.                                                              *)
(*                                                                            *)
(* A file is one value: the old text, the text with the approved target, or   *)
(* what somebody else saved; its hash is the value itself.  Each call of      *)
(* docker compose and each transaction is one step.  Outside of the job an    *)
(* editor, a user of Docker, a registry and another writer of the database    *)
(* may act at any time.  The gate that admits the job is MutationGate; the    *)
(* lock and the replacement of the file are in StackLifecycle.                *)
EXTENDS Naturals, Sequences, FiniteSets, Functions, SequencesExt

CONSTANTS
    Stacks,         \* the selected stacks, in the order of their index
    ServicesOf,     \* the selected services of each stack
    Consent,        \* services whose start the user approved (allow_start)
    Ambiguous,      \* services whose key names several: not recorded
    Own,            \* services that may be WUDup itself or its Docker endpoint
    None,
    MaxOutside      \* bound: events outside of the job

Involved == UNION {ServicesOf[st] : st \in Range(Stacks)}
UpdateModes == {"pause", "stop", "restart"}
Tagged == {"t1", "t2"}
Texts == {"old", "edited"} \cup Tagged

VARIABLES
    file,           \* the Compose file of each stack
    durable,        \* stacks whose file would survive a crash
    img, up,        \* image and state of each service's container
    known,          \* known_images
    target,         \* what the chosen tag resolves to now
    own, mode,      \* the protected service; update_mode
    approved,       \* the plan that was previewed and approved
    built,          \* the image of the plan that the job built
    pc, at,         \* where the job is, and the index of its stack
    backups,        \* stacks with a backup file
    written,        \* written_hashes of the stack: None or what was written
    touched,        \* services_recreated
    stopped,        \* stopped_services
    changes,        \* known_image_changes: the rows that were replaced
    done,           \* stacks whose updates are successful_updates
    retained,       \* retained_known_image_updates
    trouble,        \* the error says that the way back is incomplete
    job, audit,     \* status of the job; events of the audit run
    outside,        \* number of events outside so far
    idle            \* history: services known to be stopped before their stack
                    \* was looked at

world == <<img, up, known, target, own, mode>>
stackVars == <<written, touched, stopped, changes>>
result == <<done, retained, trouble, job, audit>>
history == <<outside, idle>>
vars == <<file, durable, world, approved, built, pc, at, backups, stackVars, result, history>>

Stack == Stacks[at]
Selected == ServicesOf[Stack]

Plan == [to : Tagged, hash : [Range(Stacks) -> Texts],
         runtime : [Involved -> {"running", "not-running", "unknown"}]]

TypeOK ==
    /\ file \in [Range(Stacks) -> Texts] /\ durable \subseteq Range(Stacks)
    /\ img \in [Involved -> Texts]
    /\ up \in [Involved -> {"running", "stopped", "paused"}]
    /\ known \in [Involved -> {"old", "other"} \cup Tagged]
    /\ target \in Tagged /\ own \in Involved \cup {None} /\ mode \in UpdateModes
    /\ approved \in Plan \cup {None} /\ built \in Tagged \cup {None}
    /\ pc \in {"preview", "approved", "audit", "scope", "validate", "backup", "write",
               "pull", "recreate", "health", "record", "commit", "failed", "restore",
               "restoreStopped", "restoreRunning", "settle", "reconcile", "finish", "done"}
    /\ at \in 1..Len(Stacks) + 1
    /\ backups \subseteq Range(Stacks) /\ done \subseteq Range(Stacks)
    /\ written \in Tagged \cup {None} /\ touched \in BOOLEAN
    /\ stopped \subseteq Involved /\ retained \subseteq Involved
    /\ DOMAIN changes \subseteq Involved
    /\ trouble \in BOOLEAN /\ job \in {"queued", "running", "success", "failure"}
    /\ audit \in [status : {"none", "running", "success", "failure"},
                  success : SUBSET Involved, recorded : SUBSET Involved]
    /\ outside \in 0..MaxOutside /\ idle \subseteq Involved

NoStack == /\ written' = None /\ touched' = FALSE /\ stopped' = {} /\ changes' = <<>>

Init ==
    /\ file = [st \in Range(Stacks) |-> "old"] /\ durable = Range(Stacks)
    /\ img = [sv \in Involved |-> "old"] /\ known = [sv \in Involved |-> "old"]
    /\ own \in Own \cup {None} /\ mode \in UpdateModes /\ target = "t1"
    /\ \E S \in SUBSET Involved :
           /\ own \notin S
           /\ up = [sv \in Involved |-> IF sv \in S THEN "stopped" ELSE "running"]
           /\ idle = S
    /\ approved = None /\ built = None /\ pc = "preview" /\ at = 1 /\ backups = {}
    /\ written = None /\ touched = FALSE /\ stopped = {} /\ changes = <<>>
    /\ done = {} /\ retained = {} /\ trouble = FALSE
    /\ job = "queued" /\ audit = [status |-> "none", success |-> {}, recorded |-> {}]
    /\ outside = 0

-----------------------------------------------------------------------------
(* Plans *)

(* _retag_target_records_for_stacks: docker ps may not answer *)
Runtime(answers) ==
    [sv \in Involved |->
        IF ~answers THEN "unknown"
        ELSE IF up[sv] = "running" THEN "running" ELSE "not-running"]

(* build_retag_plan, when the target can be resolved *)
BuildPlan(answers) == [to |-> target, hash |-> file, runtime |-> Runtime(answers)]

(* Mutant: the identity of a plan leaves out the resolved image. *)
PlanIdWithoutTarget(plan) == [plan EXCEPT !.to = "t1"]

(* retag_plan_id *)
PlanId(plan) == plan

(* retag_plan_status: a service that does not run needs consent, and the new  *)
(* text can only be made from the old one.                                    *)
CanApply(plan) ==
    /\ \A sv \in Involved : plan.runtime[sv] # "running" => sv \in Consent
    /\ \A st \in Range(Stacks) : plan.hash[st] = "old"

(* api_create_retag_plan or the preview job, and the user's approval *)
Preview ==
    /\ pc = "preview"
    /\ \E answers \in BOOLEAN : approved' = BuildPlan(answers) /\ CanApply(approved')
    /\ pc' = "approved" /\ job' = "running"
    /\ UNCHANGED <<file, durable, world, built, at, backups, stackVars, done, retained, trouble,
                   audit, history>>

(* _run_retag_apply_job until the audit run is there.  Without a run there is *)
(* nothing to finish.                                                         *)
Rebuild ==
    /\ pc = "approved"
    /\ \/ \E answers \in BOOLEAN :
              LET plan == BuildPlan(answers)
              IN  PlanId(plan) = PlanId(approved) /\ CanApply(plan) /\ built' = plan.to
          /\ pc' = "audit" /\ UNCHANGED job
       \/ pc' = "done" /\ job' = "failure" /\ UNCHANGED built
    /\ UNCHANGED <<file, durable, world, approved, at, backups, stackVars, done, retained,
                   trouble, audit, history>>

(* _insert_retag_audit_run *)
InsertAudit ==
    /\ pc = "audit"
    /\ \/ pc' = "scope" /\ audit' = [audit EXCEPT !.status = "running"] /\ UNCHANGED job
       \/ pc' = "done" /\ job' = "failure" /\ UNCHANGED audit
    /\ UNCHANGED <<file, durable, world, approved, built, at, backups, stackVars, done, retained,
                   trouble, history>>

(* Mutant: only the first stack is looked at. *)
InScopeFirst == ServicesOf[Stacks[1]]

(* The services validate_retag_recreate_scope looks at: of every stack *)
InScope == Involved

(* validate_retag_recreate_scope: the identity of a container may be unknown. *)
Scope ==
    /\ pc = "scope"
    /\ \/ pc' = "validate" /\ own \notin InScope
       \/ pc' = "finish"
    /\ job' = IF pc' = "finish" THEN "failure" ELSE job
    /\ UNCHANGED <<file, durable, world, approved, built, at, backups, stackVars, done, retained,
                   trouble, audit, history>>

-----------------------------------------------------------------------------
(* _apply_retag_stack *)

jobRest == <<world, approved, built, at, result, history>>

Goto(where) == pc' = where

(* Mutant: a service that was stopped meanwhile is taken as it is. *)
StartableAll(sv) == TRUE

Startable(sv) == up[sv] = "running" \/ sv \in Consent

(* _revalidate_retag_runtime_before_apply *)
Revalidate ==
    /\ pc = "validate"
    /\ \/ /\ \A sv \in Selected : Startable(sv)
          /\ stopped' = {sv \in Selected : up[sv] # "running"}
          /\ Goto("backup")
       \/ Goto("failed") /\ UNCHANGED stopped
    /\ UNCHANGED <<file, durable, jobRest, backups, written, touched, changes>>

(* _backup_compose, and the comparison with the hash of the plan *)
Backup ==
    /\ pc = "backup"
    /\ \/ /\ backups' = backups \cup {Stack}
          /\ Goto(IF file[Stack] = approved.hash[Stack] THEN "write" ELSE "failed")
       \/ Goto("failed") /\ UNCHANGED backups
    /\ UNCHANGED <<file, durable, jobRest, stackVars>>

(* Mutant: the text is not compared again. *)
UntouchedSinceAlways(text) == TRUE

(* expected_source_hash *)
UntouchedSince(text) == file[Stack] = text

(* apply_compose_retag_updates or apply_compose_digest_pins.  The new text is *)
(* on disk when the directory could be synced, too.                           *)
Write ==
    /\ pc = "write"
    /\ \/ /\ UntouchedSince(approved.hash[Stack])
          /\ file' = [file EXCEPT ![Stack] = built]
          /\ durable' \in {durable, durable \ {Stack}}
          /\ written' = built
          /\ Goto(IF Stack \in durable' THEN "pull" ELSE "failed")
       \/ Goto("failed") /\ UNCHANGED <<file, durable, written>>
    /\ UNCHANGED <<jobRest, backups, touched, stopped, changes>>

Pull ==
    /\ pc = "pull"
    /\ Goto("recreate") \/ Goto("failed")
    /\ UNCHANGED <<file, durable, jobRest, backups, stackVars>>

(* What pause or stop leaves of a container that up did not recreate: unpause *)
(* may fail, too.                                                             *)
Left(sv) ==
    CASE pc = "recreate" /\ mode = "stop" -> "stopped"
      [] pc = "recreate" /\ mode = "pause" /\ up[sv] = "running" -> "paused"
      [] OTHER -> up[sv]

(* docker compose up of the services S: all of them, or an error with some *)
Up(S, ok) ==
    \E T \in IF ok THEN {S} ELSE SUBSET S :
    \E state \in IF ok THEN {"running"} ELSE {"running", "stopped"} :
    \E undone \in BOOLEAN :
        /\ img' = [sv \in Involved |-> IF sv \in T THEN file[Stack] ELSE img[sv]]
        /\ up' = [sv \in Involved |->
                     IF sv \in T THEN state
                     ELSE IF sv \in S /\ ~undone THEN Left(sv)
                     ELSE up[sv]]

(* _recreate_retag_services.  Pausing may fail and does not matter; stopping  *)
(* may fail and makes the whole fail, although up was tried; unpause undoes   *)
(* the pause in either case.  With --wait, up also knows the health.          *)
Recreate ==
    /\ pc = "recreate"
    /\ touched' = TRUE
    /\ \/ Up(Selected, TRUE) /\ (Goto("health") \/ (mode # "pause" /\ Goto("record")))
       \/ \E ok \in BOOLEAN : Up(Selected, ok) /\ Goto("failed")
    /\ UNCHANGED <<file, durable, known, target, own, mode, approved, built, at, backups, written,
                   stopped, changes, result, history>>

(* _wait_for_retag_health *)
Health ==
    /\ pc = "health"
    /\ Goto("record") \/ Goto("failed")
    /\ UNCHANGED <<file, durable, jobRest, backups, stackVars>>

(* _record_successful_retag_known_images: one transaction *)
Record ==
    /\ pc = "record"
    /\ \/ LET keys == Selected \ Ambiguous
          IN  /\ changes' = Restrict(known, keys)
              /\ known' = [sv \in Involved |-> IF sv \in keys THEN built ELSE known[sv]]
              /\ Goto("commit")
       \/ Goto("failed") /\ UNCHANGED <<changes, known>>
    /\ UNCHANGED <<file, durable, img, up, target, own, mode, approved, built, at, backups, written,
                   touched, stopped, result, history>>

(* The backup goes, and the next stack or the end of the run comes. *)
Commit ==
    /\ pc = "commit"
    /\ \/ /\ backups' = backups \ {Stack} /\ done' = done \cup {Stack}
          /\ NoStack /\ at' = at + 1
          /\ Goto(IF at = Len(Stacks) THEN "finish" ELSE "validate")
       \/ Goto("failed") /\ UNCHANGED <<backups, done, stackVars, at>>
    /\ UNCHANGED <<file, durable, world, approved, built, retained, trouble, job, audit,
                   history>>

-----------------------------------------------------------------------------
(* The way back *)

(* The except clause of _apply_retag_stack *)
Failed ==
    /\ pc = "failed"
    /\ \/ /\ Stack \notin backups /\ Goto("reconcile") /\ UNCHANGED <<backups, trouble>>
       \/ /\ Stack \in backups /\ written # None
          /\ Goto("restore") /\ UNCHANGED <<backups, trouble>>
       \/ /\ Stack \in backups /\ written = None
          /\ Goto("reconcile")
          /\ \/ backups' = backups \ {Stack} /\ UNCHANGED trouble
             \/ trouble' = TRUE /\ UNCHANGED backups
    /\ UNCHANGED <<file, durable, world, approved, built, at, stackVars, done, retained, job, audit,
                   history>>

(* restore_compose_backup: refuses a file that somebody has changed *)
Restore ==
    /\ pc = "restore"
    /\ \/ /\ UntouchedSince(written)
          /\ file' = [file EXCEPT ![Stack] = "old"]
          /\ durable' \in {durable \cup {Stack}, durable \ {Stack}}
          /\ Goto("restoreStopped") /\ UNCHANGED trouble
       \/ Goto("reconcile") /\ trouble' = TRUE /\ UNCHANGED <<file, durable>>
    /\ UNCHANGED <<world, approved, built, at, backups, stackVars, done, retained, job, audit,
                   history>>

(* Mutant: only the services that ran are recreated. *)
RestoredStoppedNone == {}

RestoredStopped == IF touched THEN Selected \cap stopped ELSE {}

(* _recreate_retag_services_stopped: up --no-start, a look, and a stop when   *)
(* the look fails or finds a container.                                       *)
RestoreStopped ==
    /\ pc = "restoreStopped"
    /\ LET S == RestoredStopped
       IN  \/ /\ img' = [sv \in Involved |-> IF sv \in S THEN file[Stack] ELSE img[sv]]
              /\ up' = [sv \in Involved |-> IF sv \in S THEN "stopped" ELSE up[sv]]
              /\ UNCHANGED trouble
           \/ /\ S # {}
              /\ Up(S, FALSE) \/ UNCHANGED <<img, up>>
              /\ trouble' = TRUE
    /\ Goto("restoreRunning")
    /\ UNCHANGED <<file, durable, known, target, own, mode, approved, built, at, backups, stackVars,
                   done, retained, job, audit, history>>

(* The services that ran: up, and the health when up does not know it.  They  *)
(* are tried even if the others failed.                                       *)
RestoreRunning ==
    /\ pc = "restoreRunning"
    /\ LET S == IF touched THEN Selected \ stopped ELSE {}
       IN  \/ Up(S, TRUE) /\ UNCHANGED trouble
           \/ S # {} /\ Up(S, FALSE) /\ trouble' = TRUE
    /\ Goto("settle")
    /\ UNCHANGED <<file, durable, known, target, own, mode, approved, built, at, backups, stackVars,
                   done, retained, job, audit, history>>

(* Mutant: the backup goes once the file is restored. *)
SettledAlways == TRUE

Settled == Stack \in durable

(* _settle_retag_rollback_backup *)
Settle ==
    /\ pc = "settle"
    /\ \/ (trouble \/ ~Settled) /\ UNCHANGED <<backups, trouble>>
       \/ ~trouble /\ Settled /\ backups' = backups \ {Stack} /\ UNCHANGED trouble
       \/ ~trouble /\ Settled /\ trouble' = TRUE /\ UNCHANGED backups
    /\ Goto("reconcile")
    /\ UNCHANGED <<file, durable, world, approved, built, at, stackVars, done, retained, job, audit,
                   history>>

(* Mutant: the rows are put back in any case. *)
RestoreRowsAlways == [sv \in Involved |-> IF sv \in DOMAIN changes THEN changes[sv] ELSE known[sv]]

(* _restore_retag_known_images: only rows that still hold what was written *)
RestoreRows ==
    [sv \in Involved |->
        IF sv \in DOMAIN changes /\ known[sv] = built THEN changes[sv] ELSE known[sv]]

(* Mutant: the records of a failed stack are left alone. *)
ReconcileNothing ==
    /\ pc = "reconcile"
    /\ job' = "failure" /\ Goto("finish")
    /\ UNCHANGED <<file, durable, world, approved, built, at, backups, stackVars, done, retained,
                   trouble, audit, history>>

(* _retag_stack_failure and _reconcile_retag_known_images; then the job fails *)
Reconcile ==
    /\ pc = "reconcile"
    /\ LET kept == DOMAIN changes
       IN  \/ /\ kept = {} /\ UNCHANGED <<known, retained, trouble>>
           \/ /\ kept # {} /\ file[Stack] = written
              /\ retained' = kept /\ UNCHANGED <<known, trouble>>
           \/ /\ kept # {} /\ file[Stack] = "old"
              /\ known' = RestoreRows /\ UNCHANGED <<retained, trouble>>
           \/ /\ kept # {}
              /\ retained' = kept /\ trouble' = TRUE /\ UNCHANGED known
    /\ job' = "failure" /\ Goto("finish")
    /\ UNCHANGED <<file, durable, img, up, target, own, mode, approved, built, at, backups,
                   stackVars, done, audit, history>>

(* _finish_retag_audit_run.  A failing finish of a good run is tried again as *)
(* a failure.                                                                 *)
FinishAudit ==
    /\ pc = "finish"
    /\ LET good == UNION {ServicesOf[st] : st \in done}
       IN  \/ /\ audit' = [status |-> IF job = "failure" THEN "failure" ELSE "success",
                           success |-> good,
                           recorded |-> (good \cup retained) \ Ambiguous]
              /\ job' = IF job = "failure" THEN job ELSE "success"
              /\ Goto("done")
           \/ job # "failure" /\ job' = "failure" /\ UNCHANGED <<audit, pc>>
           \/ job = "failure" /\ Goto("done") /\ UNCHANGED <<audit, job>>
    /\ UNCHANGED <<file, durable, world, approved, built, at, backups, stackVars, done, retained,
                   trouble, history>>

-----------------------------------------------------------------------------
(* Outside of the job *)

Outside ==
    /\ outside < MaxOutside /\ outside' = outside + 1
    /\ UNCHANGED <<durable, img, own, mode, approved, built, pc, at, backups, stackVars, result>>

Edit(st) ==
    /\ Outside /\ file' = [file EXCEPT ![st] = "edited"]
    /\ UNCHANGED <<up, known, target, idle>>

(* The tag moves to another image. *)
Publish ==
    /\ Outside /\ target' = "t2"
    /\ UNCHANGED <<file, up, known, idle>>

(* Someone stops a container.  idle is about those whose stack comes later.   *)
StopService(sv) ==
    /\ Outside /\ up[sv] = "running" /\ sv # own
    /\ up' = [up EXCEPT ![sv] = "stopped"]
    /\ idle' = IF \E i \in DOMAIN Stacks :
                      /\ sv \in ServicesOf[Stacks[i]]
                      /\ i > at \/ (i = at /\ pc \in {"preview", "approved", "audit", "scope",
                                                      "validate"})
               THEN idle \cup {sv} ELSE idle
    /\ UNCHANGED <<file, known, target>>

(* Another run records an image of the service. *)
OtherRecord(sv) ==
    /\ Outside /\ known' = [known EXCEPT ![sv] = "other"]
    /\ UNCHANGED <<file, up, target, idle>>

Next ==
    \/ Preview \/ Rebuild \/ InsertAudit \/ Scope
    \/ Revalidate \/ Backup \/ Write \/ Pull \/ Recreate \/ Health \/ Record \/ Commit
    \/ Failed \/ Restore \/ RestoreStopped \/ RestoreRunning \/ Settle \/ Reconcile
    \/ FinishAudit
    \/ \E st \in Range(Stacks) : Edit(st)
    \/ \E sv \in Involved : StopService(sv) \/ OtherRecord(sv)
    \/ Publish

Spec == Init /\ [][Next]_vars

-----------------------------------------------------------------------------
(* A job that failed and does not complain about its way back has left every  *)
(* stack as the plan wants it or as it was before: file, images, and which    *)
(* services run ("return services to their state before the apply",           *)
(* _restore_retag_compose).                                                   *)
AllOrNothing ==
    pc = "done" /\ ~trouble /\ outside = 0 =>
        \A st \in Range(Stacks) : \A sv \in ServicesOf[st] :
            IF st \in done
            THEN file[st] = built /\ img[sv] = built /\ up[sv] = "running"
            ELSE /\ file[st] = "old" /\ img[sv] = "old"
                 /\ up[sv] = IF sv \in idle THEN "stopped" ELSE "running"

(* The text before the job is never lost: it is in the file, safe from a      *)
(* crash, or in the backup, until the stack has succeeded.                    *)
OldTextKept ==
    \A st \in Range(Stacks) :
        \/ st \in backups \cup done
        \/ file[st] = "edited"
        \/ file[st] = "old" /\ st \in durable

(* What an editor saves is never overwritten, neither by the rewrite nor by   *)
(* the way back.                                                              *)
EditsKept == [][\A st \in Range(Stacks) : file[st] = "edited" => file'[st] = "edited"]_vars

(* Only the image that was shown and approved gets into a file, even if the   *)
(* tag has moved since.                                                       *)
OnlyApproved == \A st \in Range(Stacks) : file[st] \in Tagged => file[st] = approved.to

(* A service that was stopped when its stack's turn came is started only with *)
(* consent.                                                                   *)
NoSurpriseStart == \A sv \in idle \ Consent : up[sv] = "stopped"

(* WUDup's own container and its Docker endpoint are never touched, nor is    *)
(* any other service of a job that has them in its scope.                     *)
OwnUntouched == own # None => \A sv \in Involved : img[sv] = "old"

(* The known images say what the files say when the job ends, unless its      *)
(* error says that they do not.                                               *)
RecordsAgree ==
    pc = "done" /\ ~trouble /\ outside = 0 =>
        \A st \in Range(Stacks) : \A sv \in ServicesOf[st] \ Ambiguous :
            known[sv] = file[st]

(* The history tells which services were updated and which records were       *)
(* written, also when the way back is incomplete.                             *)
HistoryAgrees ==
    pc = "done" /\ audit.status \in {"success", "failure"} /\ outside = 0 =>
        /\ audit.recorded = {sv \in Involved : known[sv] \in Tagged}
        /\ \A sv \in audit.success : img[sv] = built
        /\ audit.status = "success" => audit.success = Involved

(* A record that somebody else has written since is not rolled back. *)
NewerRecordsKept ==
    [][\A sv \in Involved :
           known[sv] = "other" /\ pc # "record" => known'[sv] = "other"]_vars
=============================================================================
