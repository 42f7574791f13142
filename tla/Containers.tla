----------------------------- MODULE Containers ------------------------------
(* What is done to containers: an update of a stack, the guard that keeps     *)
(* WUDup itself out of one, WUDup's update of itself, the check that the      *)
(* pulled image is the right one, and the commands all of them run.           *)
(* One of them runs in each behaviour.                                        *)
EXTENDS StackLifecycle

CONSTANTS su_Threads, su_MaxPlans, su_MaxOutside
CONSTANTS sc_Defined, sc_Orphans, sc_Others, sc_Networks, sc_MayStop, sc_MayLabel,
    sc_HopLimit
CONSTANTS cp_MaxLines, cp_MaxPartial, cp_MaxOutput, cp_MaxInterrupts
CONSTANTS dv_Images, dv_Indexes, dv_Tags, dv_MaxMoves

VARIABLE part      \* the component that runs
VARIABLES su_floating, su_pinning, su_latest, su_digest, su_running, su_local, su_file,
    su_disk, su_plans, su_planFiles, su_aged, su_owner, su_backup, su_wrote, su_kept,
    su_prepared, su_th, su_outside
VARIABLES sc_net, sc_mode, sc_own, sc_server, sc_path, sc_selected, sc_running,
    sc_labelled, sc_pc, sc_protectedId, sc_scope, sc_keepOrphans, sc_touched
VARIABLES cp_call, cp_pc, cp_proc, cp_output, cp_read, cp_tail, cp_interrupts, cp_gap,
    cp_early
VARIABLES dv_tag, dv_local, dv_call, dv_pc, dv_doc, dv_found, dv_todo, dv_result,
    dv_named, dv_failed, dv_moves

SU == INSTANCE SelfUpdate WITH
    Threads <- su_Threads, MaxPlans <- su_MaxPlans, MaxOutside <- su_MaxOutside, floating <- su_floating,
    pinning <- su_pinning, latest <- su_latest, digest <- su_digest,
    running <- su_running, local <- su_local, file <- su_file, disk <- su_disk,
    plans <- su_plans, planFiles <- su_planFiles, aged <- su_aged, owner <- su_owner,
    backup <- su_backup, wrote <- su_wrote, kept <- su_kept, prepared <- su_prepared,
    th <- su_th, outside <- su_outside
SC == INSTANCE SelfScope WITH
    Defined <- sc_Defined, Orphans <- sc_Orphans, Others <- sc_Others,
    Networks <- sc_Networks, MayStop <- sc_MayStop, MayLabel <- sc_MayLabel,
    HopLimit <- sc_HopLimit, net <- sc_net, mode <- sc_mode,
    own <- sc_own, server <- sc_server, path <- sc_path, selected <- sc_selected,
    running <- sc_running, labelled <- sc_labelled, pc <- sc_pc,
    protectedId <- sc_protectedId, scope <- sc_scope, keepOrphans <- sc_keepOrphans,
    touched <- sc_touched
CP == INSTANCE CommandProcesses WITH
    MaxLines <- cp_MaxLines, MaxPartial <- cp_MaxPartial, MaxOutput <- cp_MaxOutput,
    MaxInterrupts <- cp_MaxInterrupts, call <- cp_call,
    pc <- cp_pc, proc <- cp_proc, output <- cp_output, read <- cp_read, tail <- cp_tail,
    interrupts <- cp_interrupts, gap <- cp_gap, early <- cp_early
DV == INSTANCE DigestVerification WITH
    Images <- dv_Images, Indexes <- dv_Indexes, Tags <- dv_Tags, MaxMoves <- dv_MaxMoves, tag <- dv_tag,
    local <- dv_local, call <- dv_call, pc <- dv_pc, doc <- dv_doc, found <- dv_found,
    todo <- dv_todo, result <- dv_result, named <- dv_named, failed <- dv_failed,
    moves <- dv_moves

-----------------------------------------------------------------------------
(* What the constants stand for.  Nobody is no thread.                        *)
SelfUpdateSizes ==
    su_MaxPlans \in Nat /\ su_MaxOutside \in Nat /\ SU!Nobody \notin su_Threads
ASSUME SelfUpdateAssumption == SelfUpdateSizes

(* A network mode names a container or nothing, and no container of a project *)
(* is both defined and left over.                                             *)
ScopeSizes ==
    /\ sc_Networks \subseteq [SC!Containers -> SC!Names] /\ "none" \notin SC!Containers
    /\ IsFiniteSet(SC!Containers) /\ sc_Defined \cap sc_Orphans = {}
    /\ sc_HopLimit \in Nat /\ sc_MayLabel \subseteq sc_Defined
ASSUME ScopeAssumption == ScopeSizes

OutputSizes == cp_MaxLines \in Nat /\ cp_MaxPartial \in Nat \ {0}
ASSUME OutputAssumption == OutputSizes

(* Digests are those of the documents they name: an image, an index of images *)
(* and a configuration have different ones, and a configuration belongs to    *)
(* one image.  An index lists one image for a platform.                       *)
DigestsDistinct ==
    /\ DOMAIN dv_Images \cap DOMAIN dv_Indexes = {} /\ dv_Tags \subseteq DV!Digests
    /\ \A i \in DOMAIN dv_Indexes : dv_Indexes[i] \subseteq DOMAIN dv_Images
    /\ "" \notin DV!Digests /\ "tag" \notin DV!Digests /\ "lookup" \notin DV!Digests
    /\ "integrity" \notin DV!Digests
    /\ \A m \in DOMAIN dv_Images :
           dv_Images[m].config \notin DV!Digests /\ dv_Images[m].config # ""
    /\ \A m, n \in DOMAIN dv_Images : dv_Images[m].config = dv_Images[n].config => m = n
    /\ \A i \in DOMAIN dv_Indexes : \A m, n \in dv_Indexes[i] :
           dv_Images[m].platform = dv_Images[n].platform => m = n
ASSUME DigestAssumption == DigestsDistinct

-----------------------------------------------------------------------------
suVars == <<su_floating, su_pinning, su_latest, su_digest, su_running, su_local,
    su_file, su_disk, su_plans, su_planFiles, su_aged, su_owner, su_backup, su_wrote,
    su_kept, su_prepared, su_th, su_outside>>
scVars == <<sc_net, sc_mode, sc_own, sc_server, sc_path, sc_selected, sc_running,
    sc_labelled, sc_pc, sc_protectedId, sc_scope, sc_keepOrphans, sc_touched>>
cpVars == <<cp_call, cp_pc, cp_proc, cp_output, cp_read, cp_tail, cp_interrupts, cp_gap,
    cp_early>>
dvVars == <<dv_tag, dv_local, dv_call, dv_pc, dv_doc, dv_found, dv_todo, dv_result,
    dv_named, dv_failed, dv_moves>>
partsVars == <<vars, suVars, scVars, cpVars, dvVars, part>>

PartsInit ==
    /\ part \in {"stack", "self_update", "self_scope", "command", "digest"}
    /\ Init /\ SU!Init /\ SC!Init /\ CP!Init /\ DV!Init

(* A step of one component leaves the others alone.                         *)
OnlyStack == part = "stack" /\ UNCHANGED <<suVars, scVars, cpVars, dvVars, part>>
OnlySelfUpdate == part = "self_update" /\ UNCHANGED <<vars, scVars, cpVars, dvVars,
    part>>
OnlySelfScope == part = "self_scope" /\ UNCHANGED <<vars, suVars, cpVars, dvVars, part>>
OnlyCommand == part = "command" /\ UNCHANGED <<vars, suVars, scVars, dvVars, part>>
OnlyDigest == part = "digest" /\ UNCHANGED <<vars, suVars, scVars, cpVars, part>>

PartsNext ==
    \/ OnlyStack /\ Next
    \/ OnlySelfUpdate /\ SU!Next
    \/ OnlySelfScope /\ SC!Next
    \/ OnlyCommand /\ CP!Next
    \/ OnlyDigest /\ DV!Next

PartsSpec == PartsInit /\ [][PartsNext]_partsVars

(* The variables of the components around a stack update keep their types.  *)
ContainerTypes ==
    /\ part = "self_update" => SU!TypeOK
    /\ part = "self_scope" => SC!TypeOK
    /\ part = "command" => CP!TypeOK
    /\ part = "digest" => DV!TypeOK

(* No update stops, recreates or removes the container of WUDup or the one  *)
(* that answers DOCKER_HOST, however networks, labels and leftover          *)
(* containers draw them in and whatever changes after the preflight. A      *)
(* self-update that fails or loses power has the old Compose file on disk   *)
(* or in a backup, and leaves no plan file behind. A command never ends     *)
(* with its child running or a zombie, however often it is interrupted,     *)
(* leaves no helper that heeds SIGTERM, and returns the end of its output.  *)
OwnProcessesSafe ==
    /\ part = "self_update" => SU!OldComposeKept /\ SU!PlanFilesCollected
    /\ part = "self_scope" => SC!OwnSurvives /\ SC!EndpointSurvives
    /\ part = "command" => CP!ChildReaped /\ CP!NoHelperLeft /\ CP!TailIsEndOfOutput

(* What a digest check concludes is true however the tag moves during it,   *)
(* whatever the registry serves and whichever store keeps the image: an     *)
(* accepted image is the expected one and the right one is accepted,        *)
(* "current" and "stale" were so at some moment of the check, and a scan    *)
(* subject belongs to the digest that is reported.                          *)
DigestsTold ==
    /\ part = "digest" =>
          /\ DV!VerifiedMeansExpected
          /\ DV!RightImageAccepted
          /\ DV!CurrentWasCurrent
          /\ DV!ExactIsOfReported
          /\ DV!StaleIsTrue

(* A preparation that is reported has put the release and the digest that   *)
(* the user reviewed into the Compose file and never overwrites what        *)
(* somebody else wrote into it; the guard of WUDup's own container blocks   *)
(* no stack that has nothing to do with it.                                 *)
PreparedAsReviewed ==
    /\ SU!PreparedAsReviewed
    /\ SU!EditsStay
    /\ SC!NotBlockedInVain
==============================================================================
