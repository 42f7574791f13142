------------------------------- MODULE Updates -------------------------------
(* An update on its way: the observations of it that are kept, a plan that is *)
(* reviewed and applied, and a run of the updater on the pending file.  One   *)
(* of them runs in each behaviour.                                            *)
EXTENDS UpdaterRun

CONSTANTS None, po_Sources, po_Containers
CONSTANTS pa_Slots, pa_Lines, pa_Targets, pa_Images, pa_Lists, pa_Files, pa_Options,
    pa_PlanLimit, pa_MaxOutside

VARIABLE part      \* the component that runs
VARIABLES po_config, po_pending, po_shown, po_db, po_origin
VARIABLES pa_list, pa_compose, pa_cfg, pa_reg, pa_gate, pa_phase, pa_req, pa_plan,
    pa_source, pa_jobCfg, pa_newer, pa_reason, pa_applied, pa_changes, pa_late,
    pa_outside

PO == INSTANCE PendingObservations WITH
    Sources <- po_Sources, Containers <- po_Containers, None <- None, config <- po_config,
    pending <- po_pending, shown <- po_shown, db <- po_db, origin <- po_origin
PA == INSTANCE PlanApply WITH
    Slots <- pa_Slots, Lines <- pa_Lines, Targets <- pa_Targets, Images <- pa_Images,
    Lists <- pa_Lists, Files <- pa_Files, Options <- pa_Options,
    PlanLimit <- pa_PlanLimit, MaxOutside <- pa_MaxOutside, list <- pa_list,
    compose <- pa_compose, cfg <- pa_cfg, reg <- pa_reg, gate <- pa_gate,
    phase <- pa_phase, req <- pa_req, plan <- pa_plan, source <- pa_source,
    jobCfg <- pa_jobCfg, newer <- pa_newer, reason <- pa_reason, applied <- pa_applied,
    changes <- pa_changes, late <- pa_late, outside <- pa_outside

(* Lists and Compose files have their types, and WUD names an image by a tag: *)
(* no entry is about "pin".                                                   *)
PlanEntries ==
    pa_Targets \cup {PA!NoEntry} \cup {t[n] : t \in pa_Lists, n \in pa_Lines}
PlanShape ==
    /\ \A t \in pa_Lists : t \in [pa_Lines -> {t[n] : n \in pa_Lines}]
    /\ \A e \in PlanEntries : e.from # "pin"
    /\ pa_Files \subseteq [pa_Slots -> pa_Images] /\ "v1a" \in pa_Images
    /\ pa_PlanLimit \in Nat /\ pa_MaxOutside \in Nat
ASSUME PlanAssumption == PlanShape

poVars == <<po_config, po_pending, po_shown, po_db, po_origin>>
paVars == <<pa_list, pa_compose, pa_cfg, pa_reg, pa_gate, pa_phase, pa_req, pa_plan,
    pa_source, pa_jobCfg, pa_newer, pa_reason, pa_applied, pa_changes, pa_late,
    pa_outside>>
partsVars == <<vars, poVars, paVars, part>>

PartsInit ==
    /\ part \in {"run", "pending", "plan"}
    /\ Init /\ PO!Init /\ PA!Init

(* A step of one component leaves the others alone.                         *)
OnlyRun == part = "run" /\ UNCHANGED <<poVars, paVars, part>>
OnlyPending == part = "pending" /\ UNCHANGED <<vars, paVars, part>>
OnlyPlan == part = "plan" /\ UNCHANGED <<vars, poVars, part>>

PartsNext ==
    \/ OnlyRun /\ Next
    \/ OnlyPending /\ PO!Next
    \/ OnlyPlan /\ PA!Next

PartsSpec == PartsInit /\ [][PartsNext]_partsVars

(* The variables of the run, of the observations, and of a reviewed plan    *)
(* and its job keep their types.                                            *)
UpdateTypes ==
    /\ TypeOK
    /\ part = "pending" => PO!TypeOK
    /\ part = "plan" => PA!TypeOK

(* What is applied is fresh and as reviewed. A line is fresh only if every  *)
(* container of its repository was checked well; an old result is kept only *)
(* for the very image it was about and by the API it came from, also across *)
(* restarts. A job does what was reviewed unless something changed after    *)
(* the plan was compared, with stack selections even then; no service gets  *)
(* the tag of one line while another asks for a different one; and a plan   *)
(* is refused as stale only for a reason that is true.                      *)
AppliedAsReviewed ==
    /\ part = "pending" =>
          /\ PO!FreshLineIsFresh
          /\ PO!RetainedIsAboutThisImage
          /\ PO!ObservationsStayHome
    /\ part = "plan" =>
          /\ PA!AppliedAsReviewed
          /\ PA!ScopedAsReviewed
          /\ PA!OneTagEach
          /\ PA!ReasonIsTrue
==============================================================================
