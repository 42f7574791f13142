----------------------------- MODULE ComposeFile -----------------------------
(* Everything that writes Compose files: an update, a retag, tag exclusions,  *)
(* a tracking repair and the rewriting of labels.  They exclude each other by *)
(* the mutation gate, so that one of them runs in each behaviour.             *)
EXTENDS StackLifecycle, Sequences

CONSTANTS ra_Stacks, ra_ServicesOf, ra_Consent, ra_Ambiguous, ra_Own, ra_MaxOutside
CONSTANTS te_Stacks, te_ServicesOf, te_Repo, te_Provider, te_TagOf, te_Matches,
    te_Writable, te_Authored, te_MayStop, te_Overridden, te_MaxRuns
CONSTANT tr_MaxOutside
CONSTANTS cl_Services, cl_Tags, cl_Versioned, cl_FourPart, cl_Extends, cl_StartFiles,
    cl_Edited, cl_EditedLabels, cl_Targets, cl_MaxEdits, cl_MaxApprovals, cl_MaxPreviews

VARIABLE part      \* the component that runs
VARIABLES ra_file, ra_durable, ra_img, ra_up, ra_known, ra_target, ra_own, ra_mode,
    ra_approved, ra_built, ra_pc, ra_at, ra_backups, ra_written, ra_touched, ra_stopped,
    ra_changes, ra_done, ra_retained, ra_trouble, ra_job, ra_audit, ra_outside, ra_idle
VARIABLES te_label, te_rules, te_carried, te_up, te_lost, te_pc, te_updates, te_applied,
    te_recreate, te_failed, te_todo, te_pending, te_runs
VARIABLES tr_file, tr_disk, tr_image, tr_ctr, tr_pc, tr_approved, tr_expected,
    tr_backup, tr_wrote, tr_started, tr_trouble, tr_job, tr_audit, tr_outside
VARIABLES cl_file, cl_stage, cl_plan, cl_approvals, cl_text, cl_source, cl_edits,
    cl_previews

RA == INSTANCE RetagApply WITH
    Stacks <- ra_Stacks, ServicesOf <- ra_ServicesOf, Consent <- ra_Consent,
    Ambiguous <- ra_Ambiguous, Own <- ra_Own, None <- None, MaxOutside <- ra_MaxOutside,
    file <- ra_file, durable <- ra_durable, img <- ra_img, up <- ra_up,
    known <- ra_known, target <- ra_target, own <- ra_own, mode <- ra_mode,
    approved <- ra_approved, built <- ra_built, pc <- ra_pc, at <- ra_at,
    backups <- ra_backups, written <- ra_written, touched <- ra_touched,
    stopped <- ra_stopped, changes <- ra_changes, done <- ra_done,
    retained <- ra_retained, trouble <- ra_trouble, job <- ra_job, audit <- ra_audit,
    outside <- ra_outside, idle <- ra_idle
TE == INSTANCE TagExclusions WITH
    Stacks <- te_Stacks, ServicesOf <- te_ServicesOf, Repo <- te_Repo,
    Provider <- te_Provider, TagOf <- te_TagOf, Matches <- te_Matches,
    Writable <- te_Writable, Authored <- te_Authored, MayStop <- te_MayStop,
    Overridden <- te_Overridden, MaxRuns <- te_MaxRuns, label <- te_label,
    rules <- te_rules, carried <- te_carried, up <- te_up, lost <- te_lost, pc <- te_pc,
    updates <- te_updates, applied <- te_applied, recreate <- te_recreate,
    failed <- te_failed, todo <- te_todo, pending <- te_pending, runs <- te_runs
TR == INSTANCE TrackingRepair WITH
    MaxOutside <- tr_MaxOutside, file <- tr_file, disk <- tr_disk, image <- tr_image, ctr <- tr_ctr,
    pc <- tr_pc, approved <- tr_approved, expected <- tr_expected, backup <- tr_backup,
    wrote <- tr_wrote, started <- tr_started, trouble <- tr_trouble, job <- tr_job,
    audit <- tr_audit, outside <- tr_outside
CL == INSTANCE ComposeLabels WITH
    Services <- cl_Services, Tags <- cl_Tags, Versioned <- cl_Versioned,
    FourPart <- cl_FourPart, Extends <- cl_Extends, StartFiles <- cl_StartFiles,
    Edited <- cl_Edited, EditedLabels <- cl_EditedLabels, Targets <- cl_Targets,
    MaxEdits <- cl_MaxEdits, MaxApprovals <- cl_MaxApprovals,
    MaxPreviews <- cl_MaxPreviews, file <- cl_file,
    stage <- cl_stage, plan <- cl_plan, approvals <- cl_approvals, text <- cl_text,
    source <- cl_source, edits <- cl_edits, previews <- cl_previews


(* The stacks of a retag are distinct and share no service, WUDup's own       *)
(* services are among the involved ones, and None is no value of the model.   *)
RetagShape ==
    /\ ra_Stacks \in Seq(RA!Range(ra_Stacks)) /\ ra_Stacks # <<>>
    /\ \A i, j \in DOMAIN ra_Stacks : i # j =>
           /\ ra_Stacks[i] # ra_Stacks[j]
           /\ ra_ServicesOf[ra_Stacks[i]] \cap ra_ServicesOf[ra_Stacks[j]] = {}
    /\ ra_Own \subseteq RA!Involved
    /\ None \notin RA!Tagged /\ None \notin RA!Plan /\ None \notin RA!Involved
    /\ ra_MaxOutside \in Nat
ASSUME RetagAssumption == RetagShape

(* No service belongs to two stacks, and service:x names one of the stack.    *)
ExclusionShape ==
    /\ \A s, t \in te_Stacks : s # t => te_ServicesOf[s] \cap te_ServicesOf[t] = {}
    /\ \A sv \in TE!Existing :
           sv \in DOMAIN te_Provider => te_Provider[sv] \in te_ServicesOf[TE!StackOf(sv)]
    /\ \A l \in TE!Lines : te_Matches[l] \subseteq TE!Existing
    /\ te_Overridden \subseteq te_Stacks /\ te_MaxRuns \in Nat
ASSUME ExclusionAssumption == ExclusionShape

ASSUME RepairAssumption == tr_MaxOutside \in Nat

(* No image is garbled; labels that come through a merge key are no service's *)
(* own; and no service blanks out the transform it gets from another file.    *)
WellFormed(f) ==
    /\ \A n \in CL!Nodes : f.images[n] # CL!Garbled
    /\ \A s, o \in cl_Services : <<s, "labels">> \in f.merged => f.lab[o] # s
    /\ \A s \in cl_Services \cap cl_Extends : CL!LabelsOf(f, s).transform # "blank"
LabelShape ==
    /\ cl_StartFiles \subseteq CL!Files /\ cl_StartFiles # {}
    /\ \A f \in cl_StartFiles : WellFormed(f)
    /\ cl_EditedLabels \subseteq CL!Labels /\ \A l \in cl_EditedLabels : l.transform # "blank"
    /\ cl_Edited \subseteq cl_Services /\ cl_Targets \subseteq Seq(cl_Services) \ {<<>>}
    /\ cl_MaxEdits \in Nat /\ cl_MaxPreviews \in Nat
ASSUME LabelAssumption == LabelShape

-----------------------------------------------------------------------------
raVars == <<ra_file, ra_durable, ra_img, ra_up, ra_known, ra_target, ra_own, ra_mode,
    ra_approved, ra_built, ra_pc, ra_at, ra_backups, ra_written, ra_touched, ra_stopped,
    ra_changes, ra_done, ra_retained, ra_trouble, ra_job, ra_audit, ra_outside,
    ra_idle>>
teVars == <<te_label, te_rules, te_carried, te_up, te_lost, te_pc, te_updates,
    te_applied, te_recreate, te_failed, te_todo, te_pending, te_runs>>
trVars == <<tr_file, tr_disk, tr_image, tr_ctr, tr_pc, tr_approved, tr_expected,
    tr_backup, tr_wrote, tr_started, tr_trouble, tr_job, tr_audit, tr_outside>>
clVars == <<cl_file, cl_stage, cl_plan, cl_approvals, cl_text, cl_source, cl_edits,
    cl_previews>>
partsVars == <<vars, raVars, teVars, trVars, clVars, part>>

PartsInit ==
    /\ part \in {"stack", "retag", "exclude", "repair", "labels"}
    /\ Init /\ RA!Init /\ TE!Init /\ TR!Init /\ CL!Init

(* A step of one component leaves the others alone.                         *)
OnlyStack == part = "stack" /\ UNCHANGED <<raVars, teVars, trVars, clVars, part>>
OnlyRetag == part = "retag" /\ UNCHANGED <<vars, teVars, trVars, clVars, part>>
OnlyExclude == part = "exclude" /\ UNCHANGED <<vars, raVars, trVars, clVars, part>>
OnlyRepair == part = "repair" /\ UNCHANGED <<vars, raVars, teVars, clVars, part>>
OnlyLabels == part = "labels" /\ UNCHANGED <<vars, raVars, teVars, trVars, part>>

PartsNext ==
    \/ OnlyStack /\ Next
    \/ OnlyRetag /\ RA!Next
    \/ OnlyExclude /\ TE!Next
    \/ OnlyRepair /\ TR!Next
    \/ OnlyLabels /\ CL!Next

PartsSpec == PartsInit /\ [][PartsNext]_partsVars

(* The variables of everything that writes Compose files keep their types.  *)
ComposeFileTypes ==
    /\ TypeOK
    /\ part = "retag" => RA!TypeOK
    /\ part = "exclude" => TE!TypeOK
    /\ part = "repair" => TR!TypeOK
    /\ part = "labels" => CL!TypeOK

(* Whatever a job reports is what the user approved: only approved images   *)
(* are written, although files, tags and containers changed after the       *)
(* preview; no stopped service is started without consent; WUDup and its    *)
(* Docker endpoint stay untouched (retag). A repair that is done has the    *)
(* approved label on the approved image. A line leaves the pending file     *)
(* only when its tag is excluded for every service it names, and no service *)
(* is left running without its network. A service that two updates select   *)
(* is rewritten once.                                                       *)
DoneAsApproved ==
    /\ part = "retag" => RA!OnlyApproved /\ RA!NoSurpriseStart /\ RA!OwnUntouched
    /\ part = "exclude" => TE!ResolvedMeansExcluded /\ TE!NetworksKept
    /\ part = "repair" => TR!RepairedAsApproved
    /\ part = "labels" => CL!NothingGarbled

(* A job that fails leaves every stack as it was or as planned, or says     *)
(* that it could not: files, images and running services go back together,  *)
(* the old text is in the file or in a backup that survives a power loss,   *)
(* and known images, history and rows agree with the files.                 *)
FailuresUndone ==
    /\ part = "retag" =>
          /\ RA!AllOrNothing
          /\ RA!OldTextKept
          /\ RA!RecordsAgree
          /\ RA!HistoryAgrees
    /\ part = "repair" => TR!FailureLeavesNothing /\ TR!OldTextStays /\ TR!RowAgrees

(* No step undoes the work of others: what an editor saves while a job runs *)
(* is not overwritten by its rewrite nor by its way back, a newer record is *)
(* not rolled back, earlier exclusions and stopped services stay, a stack   *)
(* that cannot be recreated gets no label, and the rewriting of one service *)
(* keeps other services, foreign filters and transforms, and leaves a       *)
(* filter that accepts the tag in use.                                      *)
WorkOfOthersKept ==
    /\ RA!EditsKept
    /\ RA!NewerRecordsKept
    /\ TE!ExclusionsKept
    /\ TE!StoppedStayStopped
    /\ TE!RefusedUntouched
    /\ TR!SavesStay
    /\ CL!OthersUntouched
    /\ CL!OwnFilterKept
    /\ CL!WatchesWhatRuns
    /\ CL!TransformKept
==============================================================================
