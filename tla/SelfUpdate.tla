----------------------------- MODULE SelfUpdate -----------------------------
(* WUDup updates itself (web_self_update.py).  A container that runs a release *)
(* tag is prepared in two requests: the first writes a one-line plan file,     *)
(* plans it and caches the plan; the second rebuilds the plan, rewrites the    *)
(* tag in the Compose file, pulls, pins the digest, and goes back when         *)
(* anything fails.  A container that runs a floating tag is only pulled.       *)
(* Request threads interleave; the reservation of the mutation gate            *)
(* (MutationGate) lets one of them mutate at a time.                           *)
(*                                                                             *)
(* Release 0 is the one that runs.  A Compose file is its tag, its pinned      *)
(* digest (0 for none) and whether somebody else has edited it.                *)
EXTENDS Naturals, FiniteSets

CONSTANTS Threads, MaxPlans, MaxOutside

Nobody == 0
PlanIds == 1..MaxPlans
Texts == [tag : 0..2, pin : 0..2, edit : BOOLEAN]
NoText == [tag |-> 3, pin |-> 0, edit |-> FALSE]
Gone == [latest |-> 0]

VARIABLES
    floating,       \* the container runs a floating tag such as latest
    pinning,        \* the setting digest_pin_updates
    latest,         \* the latest release
    digest,         \* what the release's tag names in the registry
    running, local, \* the container's release; the pulled release and its digest
    file, disk,     \* the Compose file, and what a power loss may leave of it
    plans,          \* web_self_update_plans
    planFiles,      \* plan files on disk
    aged,           \* plans older than SELF_UPDATE_PLAN_TTL_SECONDS
    owner,          \* thread that holds web_self_update_active
    backup, wrote,  \* texts of the backup and of the last write, or NoText
    kept,           \* texts of backups that are left for the user
    prepared,       \* history: a preparation has succeeded
    th,             \* threads: pc, plan id, the plan in hand, status of the audit row
    outside

world == <<floating, pinning, latest, digest, running>>
cache == <<plans, planFiles, aged>>
text == <<file, disk, backup, wrote, kept>>
vars == <<world, local, text, cache, prepared, owner, th, outside>>

Plan == [latest : 1..2, base : Texts, digest : 1..2]

TypeOK ==
    /\ floating \in BOOLEAN /\ pinning \in BOOLEAN /\ prepared \in BOOLEAN
    /\ latest \in 1..2 /\ digest \in 1..2
    /\ running \in 0..2 /\ local \in [release : 0..2, digest : 0..2]
    /\ file \in Texts /\ disk \subseteq Texts
    /\ plans \in [PlanIds -> Plan \cup {Gone}]
    /\ planFiles \subseteq PlanIds /\ aged \subseteq PlanIds
    /\ owner \in Threads \cup {Nobody}
    /\ backup \in Texts \cup {NoText} /\ wrote \in Texts \cup {NoText}
    /\ kept \subseteq Texts
    /\ \A t \in Threads :
           /\ th[t].pc \in {"idle", "build", "cache", "check", "rebuild", "audit", "backup",
                            "tag", "pull", "verify", "pin", "restore", "end", "remove",
                            "image", "imaged"}
           /\ th[t].id \in 0..MaxPlans /\ th[t].plan \in Plan \cup {Gone}
           /\ th[t].row \in {"none", "scheduled", "failure", "tag_prepared",
                             "image_prepared", "running_image_verified"}
    /\ outside \in 0..MaxOutside

Idle == [pc |-> "idle", id |-> 0, plan |-> Gone, row |-> "none"]

Init ==
    /\ floating \in BOOLEAN /\ pinning \in BOOLEAN /\ prepared = FALSE
    /\ latest = 1 /\ digest = 1 /\ running = 0 /\ local = [release |-> 0, digest |-> 0]
    /\ file = [tag |-> 0, pin |-> 0, edit |-> FALSE] /\ disk = {file}
    /\ plans = [i \in PlanIds |-> Gone] /\ planFiles = {} /\ aged = {}
    /\ owner = Nobody /\ backup = NoText /\ wrote = NoText /\ kept = {}
    /\ th = [t \in Threads |-> Idle] /\ outside = 0

-----------------------------------------------------------------------------
(* A release, a moved tag, an edit, a recreated container, an hour that passes *)
Outside ==
    /\ outside < MaxOutside /\ outside' = outside + 1
    /\ \/ /\ latest' = 2 /\ UNCHANGED <<floating, pinning, digest, running, text, cache>>
       \/ /\ digest' = 2 /\ UNCHANGED <<floating, pinning, latest, running, text, cache>>
       \/ /\ floating /\ running' = local.release
          /\ UNCHANGED <<floating, pinning, latest, digest, text, cache>>
       \/ /\ file' = [file EXCEPT !.edit = TRUE] /\ disk' = {file'}
          /\ UNCHANGED <<world, backup, wrote, kept, cache>>
       \/ /\ aged' = PlanIds /\ UNCHANGED <<world, text, plans, planFiles>>
    /\ UNCHANGED <<local, prepared, owner, th>>

Go(t, step) == th' = [th EXCEPT ![t].pc = step]

(* _self_update_response: an update to the latest release is available *)
CanUpdate == latest > running

(* Aged entries leave the cache with their files. *)
Prune(keep) ==
    LET stale == {i \in PlanIds : plans[i] # Gone /\ i \in aged}
    IN  /\ plans' = [i \in PlanIds |->
                        IF i \in DOMAIN keep THEN keep[i]
                        ELSE IF i \in stale THEN Gone ELSE plans[i]]
        /\ planFiles' = planFiles \ stale

-----------------------------------------------------------------------------
(* api_plan_self_update: a plan file with one line *)
PlanStart(t) ==
    /\ th[t].pc = "idle" /\ owner = Nobody /\ CanUpdate /\ ~floating
    /\ \E i \in PlanIds :
           /\ i \notin planFiles /\ plans[i] = Gone /\ i \notin aged
           /\ \A u \in Threads : th[u].id # i
           /\ \A j \in 1..(i - 1) : j \in planFiles \/ plans[j] # Gone \/ j \in aged
           /\ planFiles' = planFiles \cup {i}
           /\ th' = [th EXCEPT ![t] = [Idle EXCEPT !.pc = "build", !.id = i,
                                  !.plan = [latest |-> latest, base |-> file, digest |-> 1]]]
    /\ UNCHANGED <<world, prepared, local, text, plans, aged, owner, outside>>

(* _build_self_update_plan_from_file with what it finds now; a plan tells what *)
(* it changes, not what else the Compose file holds                            *)
Rebuilt(release) ==
    [latest |-> release, base |-> [file EXCEPT !.edit = FALSE],
     digest |-> IF pinning THEN digest ELSE 1]

(* Mutant: only a plan that cannot be built takes its file along. *)
PlanFailureKeeps(t) == th' = [th EXCEPT ![t] = Idle] /\ UNCHANGED planFiles

PlanFailure(t) ==
    th' = [th EXCEPT ![t] = Idle] /\ planFiles' = planFiles \ {th[t].id}

(* The plan is built and validated; it names exactly the services of release 0. *)
PlanBuild(t) ==
    /\ th[t].pc = "build"
    /\ \/ /\ file.tag = 0
          /\ th' = [th EXCEPT ![t].pc = "cache", ![t].plan = Rebuilt(@.latest)]
          /\ UNCHANGED planFiles
       \/ PlanFailure(t)
    /\ UNCHANGED <<world, prepared, local, text, plans, aged, owner, outside>>

(* _cache_self_update_plan *)
PlanCache(t) ==
    /\ th[t].pc = "cache"
    /\ Prune([i \in {th[t].id} |-> th[t].plan])
    /\ th' = [th EXCEPT ![t] = Idle]
    /\ UNCHANGED <<world, prepared, local, text, aged, owner, outside>>

-----------------------------------------------------------------------------
(* api_prepare_self_update: the user confirms a plan that he was shown. *)
PrepareStart(t) ==
    /\ th[t].pc = "idle" /\ owner = Nobody
    /\ owner' = t
    /\ \E i \in PlanIds :
           /\ plans[i] # Gone
           /\ th' = [th EXCEPT ![t] = [Idle EXCEPT !.pc = "check", !.id = i, !.plan = plans[i]]]
    /\ UNCHANGED <<world, prepared, local, text, cache, outside>>

(* _self_update_confirmation_stale and _self_update_cached_plan_stale *)
Confirmed(t) == th[t].plan.latest = latest

(* The status, the confirmation and the cached plan *)
PrepareCheck(t) ==
    /\ th[t].pc = "check"
    /\ \/ /\ ~(CanUpdate /\ ~floating /\ Confirmed(t))
          /\ UNCHANGED <<plans, planFiles>> /\ Go(t, "end")
       \/ /\ CanUpdate /\ ~floating /\ Confirmed(t)
          /\ Prune([i \in {} |-> Gone])
          /\ Go(t, IF plans'[th[t].id] = Gone THEN "end" ELSE "rebuild")
    /\ UNCHANGED <<world, prepared, local, text, aged, owner, outside>>

(* _plan_id of the rebuilt plan; an edit that changes the plan ends the request *)
SamePlan(t) == Rebuilt(th[t].plan.latest) = th[t].plan

(* _rebuild_self_update_cached_plan, its identity, and the container *)
PrepareRebuild(t) ==
    /\ th[t].pc = "rebuild"
    /\ \/ th[t].id \in planFiles /\ SamePlan(t) /\ Go(t, "audit")
       \/ Go(t, "end")
    /\ UNCHANGED <<world, prepared, local, text, cache, owner, outside>>

(* _insert_self_update_audit *)
PrepareAudit(t) ==
    /\ th[t].pc = "audit"
    /\ \/ th' = [th EXCEPT ![t].pc = "backup", ![t].row = "scheduled"]
       \/ Go(t, "end")
    /\ UNCHANGED <<world, prepared, local, text, cache, owner, outside>>

-----------------------------------------------------------------------------
(* _prepare_self_update_tag_update *)

TakeBackup(t) ==
    /\ th[t].pc = "backup"
    /\ \/ backup' = file /\ Go(t, "tag")
       \/ UNCHANGED backup /\ Go(t, "end")
    /\ UNCHANGED <<world, prepared, local, file, disk, wrote, kept, cache, owner, outside>>

(* Mutant: the file is replaced whatever it holds. *)
ReplaceBlindly(old, new, synced) ==
    file' = new /\ disk' = IF synced THEN {new} ELSE disk \cup {new}

(* The check of the hash and os.replace, with or without the directory's sync *)
Replace(old, new, synced) ==
    /\ file = old
    /\ file' = new /\ disk' = IF synced THEN {new} ELSE disk \cup {new}

Write(t, old, new, next) ==
    \/ \E synced \in BOOLEAN :
           /\ Replace(old, new, synced)
           /\ wrote' = new
           /\ Go(t, IF synced THEN next ELSE "restore")
    \/ UNCHANGED <<file, disk, wrote>> /\ Go(t, "restore")

WriteTag(t) ==
    /\ th[t].pc = "tag"
    /\ Write(t, backup, [backup EXCEPT !.tag = th[t].plan.latest], "pull")
    /\ UNCHANGED <<world, prepared, local, backup, kept, cache, owner, outside>>

PullTag(t) ==
    /\ th[t].pc = "pull"
    /\ \/ local' = [release |-> file.tag, digest |-> digest]
          /\ Go(t, IF pinning THEN "verify" ELSE "end")
       \/ UNCHANGED local /\ Go(t, "restore")
    /\ UNCHANGED <<world, prepared, text, cache, owner, outside>>

(* Mutant: the tag is not resolved again. *)
PinTargetStaysUnchecked(t) == TRUE

PinTargetStays(t) == digest = th[t].plan.digest

(* _verify_self_update_digest_pin_updates *)
VerifyPins(t) ==
    /\ th[t].pc = "verify"
    /\ \/ PinTargetStays(t) /\ Go(t, "pin")
       \/ Go(t, "restore")
    /\ UNCHANGED <<world, prepared, local, text, cache, owner, outside>>

WritePins(t) ==
    /\ th[t].pc = "pin"
    /\ Write(t, wrote, [wrote EXCEPT !.pin = th[t].plan.digest], "end")
    /\ UNCHANGED <<world, prepared, local, backup, kept, cache, owner, outside>>

(* Mutant: the backup goes although the restored file was not synced. *)
KeepBackupNever(synced) == FALSE

KeepBackup(synced) == ~synced

(* _restore_self_update_compose: the backup is deleted when nothing was        *)
(* written or the old text is back on the disk.                                *)
Restore(t) ==
    /\ th[t].pc = "restore"
    /\ \/ wrote = NoText /\ UNCHANGED <<file, disk, kept>>
       \/ /\ wrote # NoText
          /\ \E synced \in BOOLEAN :
                 /\ Replace(wrote, backup, synced)
                 /\ kept' = IF KeepBackup(synced) THEN kept \cup {backup} ELSE kept
       \/ wrote # NoText /\ kept' = kept \cup {backup} /\ UNCHANGED <<file, disk>>
    /\ wrote' = NoText /\ backup' = NoText
    /\ Go(t, "end")
    /\ UNCHANGED <<world, prepared, local, cache, owner, outside>>

(* The status of the row, which a failing database leaves as it is; the backup *)
(* after a success; the reservation                                            *)
End(t) ==
    /\ th[t].pc = "end"
    /\ owner' = Nobody
    /\ wrote' = NoText
    /\ backup' = NoText
    /\ prepared' = (prepared \/ wrote # NoText)
    /\ \/ th' = [th EXCEPT ![t].pc = "remove", ![t].row =
                      IF wrote # NoText THEN "tag_prepared"
                      ELSE IF @ = "scheduled" THEN "failure" ELSE @]
       \/ Go(t, "remove")
    /\ UNCHANGED <<world, local, file, disk, kept, cache, outside>>

(* _remove_self_update_cached_plan, after the release of the reservation *)
Remove(t) ==
    /\ th[t].pc = "remove"
    /\ plans' = [plans EXCEPT ![th[t].id] = Gone]
    /\ planFiles' = IF plans[th[t].id] = Gone THEN planFiles ELSE planFiles \ {th[t].id}
    /\ th' = [th EXCEPT ![t] = Idle]
    /\ UNCHANGED <<world, prepared, local, text, aged, owner, outside>>

-----------------------------------------------------------------------------
(* api_apply_self_update for a floating tag *)
ApplyStart(t) ==
    /\ th[t].pc = "idle" /\ owner = Nobody /\ floating /\ CanUpdate
    /\ owner' = t
    /\ th' = [th EXCEPT ![t] = [Idle EXCEPT !.pc = "image"]]
    /\ UNCHANGED <<world, prepared, local, text, cache, outside>>

(* The row is inserted and the image pulled; either may fail. *)
ApplyPull(t) ==
    /\ th[t].pc = "image"
    /\ \/ local' = [release |-> latest, digest |-> digest] /\ th' = [th EXCEPT ![t].pc = "imaged", ![t].row = "scheduled"]
       \/ UNCHANGED local /\ th' = [th EXCEPT ![t].pc = "remove", ![t].row = "failure"]
    /\ owner' = IF th'[t].pc = "remove" THEN Nobody ELSE owner
    /\ UNCHANGED <<world, prepared, text, cache, outside>>

Verified == running = local.release

ApplyVerify(t) ==
    /\ th[t].pc = "imaged"
    /\ owner' = Nobody
    /\ \/ th' = [th EXCEPT ![t].pc = "idle",
                           ![t].row = IF Verified THEN "running_image_verified"
                                      ELSE "image_prepared"]
       \/ Go(t, "idle")
    /\ UNCHANGED <<world, prepared, local, text, cache, outside>>

ApplyRefused(t) ==
    /\ th[t].pc = "remove" /\ th[t].id = 0
    /\ th' = [th EXCEPT ![t] = Idle]
    /\ UNCHANGED <<world, prepared, local, text, cache, owner, outside>>

Next ==
    \/ Outside
    \/ \E t \in Threads :
           \/ PlanStart(t) \/ PlanBuild(t) \/ PlanCache(t)
           \/ PrepareStart(t) \/ PrepareCheck(t) \/ PrepareRebuild(t) \/ PrepareAudit(t)
           \/ TakeBackup(t) \/ WriteTag(t) \/ PullTag(t) \/ VerifyPins(t) \/ WritePins(t)
           \/ Restore(t) \/ End(t) \/ (th[t].id # 0 /\ Remove(t))
           \/ ApplyStart(t) \/ ApplyPull(t) \/ ApplyVerify(t) \/ ApplyRefused(t)

Spec == Init /\ [][Next]_vars

-----------------------------------------------------------------------------
(* When a preparation is reported, the Compose file holds the release that     *)
(* the user reviewed and confirmed; with pinning on, the reviewed digest is    *)
(* pinned and it is the one that was pulled.                                   *)
PreparedAsReviewed ==
    [][\A t \in Threads :
           th[t].row # "tag_prepared" /\ th'[t].row = "tag_prepared" =>
               /\ file.tag = th[t].plan.latest
               /\ pinning => file.pin = th[t].plan.digest /\ file.pin = local.digest]_vars

(* A rewritten file that may survive a power loss is prepared, or a backup     *)
(* holds the text before it: while it is being prepared, and after a way back  *)
(* that failed.                                                                *)
OldComposeKept == (\E s \in disk : s.tag # 0) => prepared \/ backup # NoText \/ kept # {}

(* What somebody else has written into the Compose file is never lost. *)
EditsStay == [][file.edit => file'.edit]_vars

(* Every plan file belongs to a cached plan or to the request that builds it:  *)
(* none is left behind by refused, expired or finished requests.               *)
PlanFilesCollected ==
    \A i \in planFiles :
        plans[i] # Gone \/ \E t \in Threads : th[t].id = i /\ th[t].pc \in {"build", "cache"}
=============================================================================
