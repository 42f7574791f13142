-------------------------- MODULE ComposeFileProofs --------------------------
(* What everything that writes Compose files promises, for any selection of   *)
(* stacks and services, any labels and networks, and any number of edits,     *)
(* saves, pulls, stops and power losses of others.                            *)
EXTENDS ComposeFile, StackLifecycleProofs, SequenceTheorems, FiniteSetTheorems, TLAPS

-----------------------------------------------------------------------------
(****************************************************************************)
(* RetagApply                                                               *)
(****************************************************************************)

RetagSteps == {"preview", "approved", "audit", "scope", "validate", "backup", "write", "pull",
               "recreate", "health", "record", "commit", "failed", "restore", "restoreStopped",
               "restoreRunning", "settle", "reconcile", "finish", "done"}
Early == {"preview", "approved", "audit", "scope", "validate", "backup", "write"}
Writing == {"pull", "recreate", "health", "record", "commit"}
Returning == {"restoreStopped", "restoreRunning", "settle"}
Ended == {"finish", "done"}
InStack == ra_at \in 1..Len(ra_Stacks)

(* What the job knows of its plan. *)
RetagPlanInv ==
    /\ ra_pc # "preview" => ra_approved \in RA!Plan
    /\ ra_approved # None => ra_approved \in RA!Plan /\ \A st \in RA!Range(ra_Stacks) : ra_approved.hash[st] = "old"
    /\ ra_pc \in {"preview", "approved"} => ra_built = None
    /\ ra_pc \notin {"preview", "approved", "done"} => ra_built \in RA!Tagged
    /\ ra_built # None => ra_approved # None /\ ra_built = ra_approved.to

(* Where the job is. *)
PlaceInv ==
    /\ ra_pc \notin Ended => InStack
    /\ ra_done = {ra_Stacks[i] : i \in 1..(ra_at - 1)}
    /\ ra_pc \in {"preview", "approved", "audit", "scope"} => ra_at = 1
    /\ ra_written # None => InStack /\ ra_written = ra_built
    /\ ra_pc \in Early => ra_written = None
    /\ ra_pc \in Writing \cup Returning \cup {"restore"} => ra_written # None
    /\ ra_pc \in {"write", "restore"} \cup Writing \cup Returning => RA!Stack \in ra_backups
    /\ ra_pc = "failed" /\ ra_written # None => RA!Stack \in ra_backups

(* A file that is not the old text, safe from a crash, or an editor's, is of *)
(* this stack or of one that has succeeded.                                  *)
RetagTextInv ==
    /\ \A st \in RA!Range(ra_Stacks) :
           \/ ra_file[st] = "edited"
           \/ ra_file[st] = "old" /\ st \in ra_durable
           \/ InStack /\ ra_written # None /\ st = RA!Stack
           \/ st \in ra_done
    /\ \A st \in RA!Range(ra_Stacks) : ra_file[st] \in RA!Tagged => ra_file[st] = ra_built
    /\ ra_pc \in Returning => ra_file[RA!Stack] \in {"old", "edited"}
    /\ RA!OldTextKept

OwnInv == ra_own # None => ra_pc \in {"preview", "approved", "audit", "scope"} \cup Ended /\ RA!OwnUntouched

IdleInv ==
    /\ (ra_pc \in {"backup", "write", "restore"} \cup Writing \cup Returning
               \/ (ra_pc = "failed" /\ ra_written # None))
              => ra_idle \cap RA!Selected \subseteq ra_Consent
    /\ RA!NoSurpriseStart

(* Without events from outside: the services of a stack before, and after *)
First(sv) == ra_img[sv] = "old" /\ ra_up[sv] = IF sv \in ra_idle THEN "stopped" ELSE "running"
Updated(sv) == ra_img[sv] = ra_built /\ ra_up[sv] = "running"
OthersFirst ==
    /\ \A st \in ra_done : ra_file[st] = ra_built /\ \A sv \in ra_ServicesOf[st] : Updated(sv)
    /\ \A i \in DOMAIN ra_Stacks :
           i > ra_at => ra_file[ra_Stacks[i]] = "old" /\ \A sv \in ra_ServicesOf[ra_Stacks[i]] : First(sv)
StackFirst ==
    /\ ra_written = None => ra_file[RA!Stack] = "old" /\ ~ra_touched
    /\ ~ra_touched => \A sv \in RA!Selected : First(sv)
    /\ ra_pc \in Early \cup {"pull", "recreate"} => ~ra_touched
    /\ ra_pc \in Writing \cup {"restore"} => ra_file[RA!Stack] = ra_built
    /\ ra_pc = "failed" /\ ra_written # None => ra_file[RA!Stack] = ra_built
    /\ ra_pc \in {"health", "record", "commit"} => \A sv \in RA!Selected : Updated(sv)
    /\ (ra_pc \in {"backup", "write", "restore"} \cup Writing \cup Returning
               \/ (ra_pc = "failed" /\ ra_written # None)) => ra_stopped = RA!Selected \cap ra_idle
    /\ ra_pc \in Returning => ra_file[RA!Stack] = "old"
    /\ ra_pc = "restoreRunning" /\ ~ra_trouble => \A sv \in RA!Selected \cap ra_idle : First(sv)
    /\ ra_pc \in {"settle", "reconcile"} \cup Ended /\ ~ra_trouble => \A sv \in RA!Selected : First(sv)
    /\ ra_pc \in {"reconcile"} \cup Ended /\ ~ra_trouble => ra_file[RA!Stack] = "old"
RetagServiceInv == ra_outside = 0 => OthersFirst /\ (InStack => StackFirst)

(* ... and what is known of them *)
Recorded(sv) == ra_known[sv] = IF sv \in ra_Ambiguous THEN "old" ELSE ra_built
OthersKnown ==
    /\ \A st \in ra_done : \A sv \in ra_ServicesOf[st] : Recorded(sv)
    /\ \A i \in DOMAIN ra_Stacks : i > ra_at => \A sv \in ra_ServicesOf[ra_Stacks[i]] : ra_known[sv] = "old"
StackKnown ==
    /\ DOMAIN ra_changes \subseteq RA!Selected \ ra_Ambiguous
    /\ \A sv \in DOMAIN ra_changes : ra_changes[sv] = "old"
    /\ ra_pc \notin Ended =>
              \A sv \in RA!Selected : ra_known[sv] = IF sv \in DOMAIN ra_changes THEN ra_built ELSE "old"
    /\ ra_pc \in Ended =>
              \A sv \in RA!Selected : ra_known[sv] = IF sv \in ra_retained THEN ra_built ELSE "old"
    /\ ra_pc \in Early \cup (Writing \ {"commit"}) => DOMAIN ra_changes = {}
    /\ ra_pc = "commit" => DOMAIN ra_changes = RA!Selected \ ra_Ambiguous
    /\ ra_retained \subseteq RA!Selected \ ra_Ambiguous
    /\ ra_pc \in Ended /\ ~ra_trouble => ra_retained = {}
    /\ DOMAIN ra_changes # {} => ra_written # None
KnownInv ==
    /\ ra_outside = 0 => OthersKnown /\ (InStack => StackKnown)
    /\ ra_pc \notin Ended => ra_retained = {}
    /\ ~InStack => ra_retained = {}

(* What the history says. *)
RetagGood == UNION {ra_ServicesOf[st] : st \in ra_done}
AuditInv ==
    /\ ra_pc = "finish" /\ ra_job # "failure" => ~InStack
    /\ ra_audit.status \in {"success", "failure"} =>
           /\ ra_pc = "done" /\ ra_built \in RA!Tagged
           /\ ra_audit.success = RetagGood /\ ra_audit.recorded = (RetagGood \cup ra_retained) \ ra_Ambiguous
           /\ ra_audit.status = "success" => ~InStack

Rows == {"old", "other"} \cup RA!Tagged
ChangesInv == \A sv \in DOMAIN ra_changes : ra_changes[sv] \in Rows

RetagInv ==
         /\ RA!TypeOK /\ ChangesInv /\ RetagPlanInv /\ PlaceInv /\ RetagTextInv /\ OwnInv /\ IdleInv /\ RetagServiceInv
         /\ KnownInv /\ AuditInv

-----------------------------------------------------------------------------
(* The constants *)

LEMMA StacksAre ==
  ASSUME RetagShape
  PROVE  /\ Len(ra_Stacks) \in Nat \ {0} /\ DOMAIN ra_Stacks = 1..Len(ra_Stacks)
         /\ RA!Range(ra_Stacks) = {ra_Stacks[i] : i \in 1..Len(ra_Stacks)}
         /\ \A i \in 1..Len(ra_Stacks) : ra_Stacks[i] \in RA!Range(ra_Stacks)
         /\ \A st \in RA!Range(ra_Stacks) : ra_ServicesOf[st] \subseteq RA!Involved
<1>1. Len(ra_Stacks) \in Nat /\ DOMAIN ra_Stacks = 1..Len(ra_Stacks)
  BY LenProperties DEF RetagShape
<1>2. Len(ra_Stacks) # 0
  BY EmptySeq DEF RetagShape
<1>3. RA!Range(ra_Stacks) = {ra_Stacks[i] : i \in 1..Len(ra_Stacks)}
  BY <1>1 DEF RA!Range
<1>4. \A st \in RA!Range(ra_Stacks) : ra_ServicesOf[st] \subseteq RA!Involved
  BY DEF RA!Involved
<1>5. QED BY <1>1, <1>2, <1>3, <1>4

LEMMA RetagStackIs ==
  ASSUME RetagShape, InStack
  PROVE  RA!Stack \in RA!Range(ra_Stacks) /\ RA!Selected \subseteq RA!Involved
BY StacksAre DEF InStack, RA!Stack, RA!Selected

(* A service belongs to one stack. *)
LEMMA Apart ==
  ASSUME RetagShape, NEW i \in 1..Len(ra_Stacks), NEW j \in 1..Len(ra_Stacks), i # j
  PROVE  /\ ra_Stacks[i] # ra_Stacks[j]
         /\ \A sv \in ra_ServicesOf[ra_Stacks[i]] : sv \notin ra_ServicesOf[ra_Stacks[j]]
BY StacksAre DEF RetagShape

-----------------------------------------------------------------------------
(* Types, in five parts *)

RetagStates == {"running", "stopped", "paused"}
RetagFileTypes ==
    /\ ra_file \in [RA!Range(ra_Stacks) -> RA!Texts] /\ ra_durable \subseteq RA!Range(ra_Stacks)
    /\ ra_backups \subseteq RA!Range(ra_Stacks) /\ ra_done \subseteq RA!Range(ra_Stacks)
ServiceTypes == ra_img \in [RA!Involved -> RA!Texts] /\ ra_up \in [RA!Involved -> RetagStates]
RecordTypes ==
    /\ ra_known \in [RA!Involved -> Rows] /\ DOMAIN ra_changes \subseteq RA!Involved /\ ChangesInv
    /\ ra_retained \subseteq RA!Involved
PlanTypes ==
    /\ ra_target \in RA!Tagged /\ ra_own \in RA!Involved \cup {None} /\ ra_mode \in RA!UpdateModes
    /\ ra_approved \in RA!Plan \cup {None} /\ ra_built \in RA!Tagged \cup {None}
    /\ ra_written \in RA!Tagged \cup {None}
JobTypes ==
    /\ ra_pc \in RetagSteps /\ ra_at \in 1..Len(ra_Stacks) + 1
    /\ ra_touched \in BOOLEAN /\ ra_stopped \subseteq RA!Involved
    /\ ra_trouble \in BOOLEAN /\ ra_job \in {"queued", "running", "success", "failure"}
    /\ ra_outside \in 0..ra_MaxOutside /\ ra_idle \subseteq RA!Involved
AuditTypes ==
    ra_audit \in [status : {"none", "running", "success", "failure"},
                  success : SUBSET RA!Involved, recorded : SUBSET RA!Involved]
RetagParts ==
    /\ RetagFileTypes /\ ServiceTypes /\ RecordTypes /\ PlanTypes /\ JobTypes /\ AuditTypes

LEMMA RetagTypesAre ==
  RA!TypeOK /\ ChangesInv <=> RetagParts
BY DEF RA!TypeOK, RetagParts, RetagFileTypes, ServiceTypes, RecordTypes, PlanTypes, JobTypes,
   AuditTypes,
       RetagStates, Rows, RetagSteps

(* docker compose up changes the services that it is called for.             *)
LEMMA UpIs ==
  ASSUME NEW S, NEW ok \in BOOLEAN, RA!Up(S, ok), ServiceTypes, ra_file[RA!Stack] \in RA!Texts
  PROVE  /\ ServiceTypes'
         /\ \A sv \in RA!Involved : sv \notin S => ra_img'[sv] = ra_img[sv] /\ ra_up'[sv] = ra_up[sv]
         /\ ok => \A sv \in RA!Involved : sv \in S => ra_img'[sv] = ra_file[RA!Stack] /\ ra_up'[sv] = "running"
<1>1. PICK T \in IF ok THEN {S} ELSE SUBSET S :
      \E state \in IF ok THEN {"running"} ELSE {"running", "stopped"} :
      \E undone \in BOOLEAN :
        /\ ra_img' = [sv \in RA!Involved |-> IF sv \in T THEN ra_file[RA!Stack] ELSE ra_img[sv]]
        /\ ra_up' = [sv \in RA!Involved |->
                        IF sv \in T THEN state
                        ELSE IF sv \in S /\ ~undone THEN RA!Left(sv)
                        ELSE ra_up[sv]]
  BY DEF RA!Up
<1>2. PICK state \in IF ok THEN {"running"} ELSE {"running", "stopped"} :
      \E undone \in BOOLEAN :
        /\ ra_img' = [sv \in RA!Involved |-> IF sv \in T THEN ra_file[RA!Stack] ELSE ra_img[sv]]
        /\ ra_up' = [sv \in RA!Involved |->
                        IF sv \in T THEN state
                        ELSE IF sv \in S /\ ~undone THEN RA!Left(sv)
                        ELSE ra_up[sv]]
  BY <1>1
<1>3. PICK undone \in BOOLEAN :
        /\ ra_img' = [sv \in RA!Involved |-> IF sv \in T THEN ra_file[RA!Stack] ELSE ra_img[sv]]
        /\ ra_up' = [sv \in RA!Involved |->
                        IF sv \in T THEN state
                        ELSE IF sv \in S /\ ~undone THEN RA!Left(sv)
                        ELSE ra_up[sv]]
  BY <1>2
<1>4. T \subseteq S /\ (ok => T = S) /\ state \in RetagStates /\ (ok => state = "running")
  BY <1>1, <1>2 DEF RetagStates
<1>5. \A sv \in RA!Involved : RA!Left(sv) \in RetagStates
  BY DEF RA!Left, ServiceTypes, RetagStates
<1>6. ServiceTypes'
  BY <1>3, <1>4, <1>5 DEF ServiceTypes
<1>7. QED BY <1>3, <1>4, <1>6

(* Only three steps and somebody outside touch the containers, and each of   *)
(* them those of its own stack.                                              *)
Touching == {"recreate", "restoreStopped", "restoreRunning"}
TouchesStack ==
    /\ ra_pc \in Touching /\ UNCHANGED <<ra_idle, ra_outside>>
    /\ \A sv \in RA!Involved : sv \notin RA!Selected => ra_img'[sv] = ra_img[sv] /\ ra_up'[sv] = ra_up[sv]

LEMMA ContainersMove ==
  ASSUME RetagShape, RetagParts, PlaceInv, RA!Next
  PROVE  /\ ServiceTypes'
         /\ \/ UNCHANGED <<ra_img, ra_up, ra_idle>>
            \/ \E sv \in RA!Involved : RA!StopService(sv)
            \/ TouchesStack
<1>t. ServiceTypes /\ RetagFileTypes
  BY DEF RetagParts
<1>s. ASSUME ra_pc \notin Ended
      PROVE  ra_file[RA!Stack] \in RA!Texts /\ RA!Selected \subseteq RA!Involved
  BY <1>s, <1>t, RetagStackIs DEF RetagFileTypes, PlaceInv
<1>u. ASSUME NEW S, S \subseteq RA!Selected, NEW ok \in BOOLEAN, RA!Up(S, ok),
             ra_pc \in Touching, UNCHANGED <<ra_idle, ra_outside>>
      PROVE  ServiceTypes' /\ TouchesStack
  BY <1>t, <1>s, <1>u, UpIs DEF TouchesStack, Touching, Ended
<1>k. ASSUME UNCHANGED <<ra_img, ra_up>>
      PROVE  ServiceTypes'
  BY <1>t, <1>k DEF ServiceTypes
<1>1. CASE RA!Preview \/ RA!Rebuild \/ RA!InsertAudit \/ RA!Scope
  BY <1>k, <1>1 DEF RA!Preview, RA!Rebuild, RA!InsertAudit, RA!Scope, RA!world, RA!history
<1>2. CASE RA!Revalidate \/ RA!Backup \/ RA!Write \/ RA!Pull \/ RA!Health
  BY <1>k, <1>2 DEF RA!Revalidate, RA!Backup, RA!Write, RA!Pull, RA!Health, RA!jobRest, RA!world,
     RA!history
<1>3. CASE RA!Record \/ RA!Commit \/ RA!Failed \/ RA!Restore \/ RA!Settle \/ RA!Reconcile \/ RA!FinishAudit
  BY <1>k, <1>3 DEF RA!Record, RA!Commit, RA!Failed, RA!Restore, RA!Settle, RA!Reconcile,
     RA!FinishAudit, RA!world,
                    RA!history
<1>4. CASE RA!Recreate
  <2>1. ra_pc \in Touching /\ UNCHANGED <<ra_idle, ra_outside>>
    BY <1>4 DEF RA!Recreate, Touching, RA!history
  <2>2. \E ok \in BOOLEAN : RA!Up(RA!Selected, ok)
    BY <1>4 DEF RA!Recreate
  <2>3. QED BY <1>u, <2>1, <2>2
<1>5. CASE RA!RestoreStopped
  <2>1. ra_pc \in Touching /\ UNCHANGED <<ra_idle, ra_outside>>
    BY <1>5 DEF RA!RestoreStopped, Touching, RA!history
  <2>2. RA!RestoredStopped \subseteq RA!Selected
    BY DEF RA!RestoredStopped
  <2>3. CASE RA!Up(RA!RestoredStopped, FALSE)
    BY <1>u, <2>1, <2>2, <2>3
  <2>4. CASE UNCHANGED <<ra_img, ra_up>>
    BY <1>k, <2>1, <2>4
  <2>5. CASE /\ ra_img' = [sv \in RA!Involved |->
                              IF sv \in RA!RestoredStopped THEN ra_file[RA!Stack] ELSE ra_img[sv]]
             /\ ra_up' = [sv \in RA!Involved |->
                              IF sv \in RA!RestoredStopped THEN "stopped" ELSE ra_up[sv]]
    <3>1. ra_pc \notin Ended
      BY <2>1 DEF Touching, Ended
    <3>2. ServiceTypes'
      BY <1>t, <1>s, <2>5, <3>1 DEF ServiceTypes, RetagStates
    <3>3. QED BY <2>1, <2>2, <2>5, <3>2 DEF TouchesStack
  <2>6. QED BY <1>5, <2>3, <2>4, <2>5 DEF RA!RestoreStopped
<1>6. CASE RA!RestoreRunning
  <2>1. ra_pc \in Touching /\ UNCHANGED <<ra_idle, ra_outside>>
    BY <1>6 DEF RA!RestoreRunning, Touching, RA!history
  <2>2. \E ok \in BOOLEAN : RA!Up(IF ra_touched THEN RA!Selected \ ra_stopped ELSE {}, ok)
    BY <1>6 DEF RA!RestoreRunning
  <2>3. QED BY <1>u, <2>1, <2>2
<1>7. ASSUME NEW sv \in RA!Involved, RA!StopService(sv)
      PROVE  ServiceTypes'
  BY <1>t, <1>7 DEF RA!StopService, RA!Outside, ServiceTypes, RetagStates
<1>8. CASE RA!Publish \/ (\E st \in RA!Range(ra_Stacks) : RA!Edit(st)) \/ (\E sv \in RA!Involved : RA!OtherRecord(sv))
  BY <1>k, <1>8 DEF RA!Publish, RA!Edit, RA!OtherRecord, RA!Outside
<1>9. QED BY <1>1, <1>2, <1>3, <1>4, <1>5, <1>6, <1>7, <1>8 DEF RA!Next

LEMMA FilesStep ==
  ASSUME RetagShape, RetagParts, PlaceInv, RetagPlanInv, RA!Next
  PROVE  RetagFileTypes'
<1>t. RetagFileTypes
  BY DEF RetagParts
<1>s. ASSUME ra_pc \notin Ended
      PROVE  RA!Stack \in RA!Range(ra_Stacks)
  BY <1>s, RetagStackIs DEF PlaceInv
<1>b. ra_pc = "write" => ra_built \in RA!Texts
  BY DEF RetagPlanInv, RA!Texts
<1>k. ASSUME UNCHANGED <<ra_file, ra_durable, ra_backups, ra_done>>
      PROVE  RetagFileTypes'
  BY <1>t, <1>k DEF RetagFileTypes
<1>1. CASE RA!Preview \/ RA!Rebuild \/ RA!InsertAudit \/ RA!Scope \/ RA!Revalidate \/ RA!Pull \/ RA!Health
  BY <1>k, <1>1 DEF RA!Preview, RA!Rebuild, RA!InsertAudit, RA!Scope, RA!Revalidate, RA!Pull,
     RA!Health, RA!jobRest,
                    RA!result
<1>2. CASE RA!Recreate \/ RA!Record \/ RA!RestoreStopped \/ RA!RestoreRunning \/ RA!Reconcile \/ RA!FinishAudit
  BY <1>k, <1>2 DEF RA!Recreate, RA!Record, RA!RestoreStopped, RA!RestoreRunning, RA!Reconcile,
     RA!FinishAudit,
                    RA!result
<1>3. CASE RA!Backup
  BY <1>t, <1>s, <1>3 DEF RA!Backup, RetagFileTypes, RA!jobRest, RA!result, Ended
<1>4. CASE RA!Write
  BY <1>t, <1>s, <1>b, <1>4 DEF RA!Write, RetagFileTypes, RA!jobRest, RA!result, Ended
<1>5. CASE RA!Commit
  BY <1>t, <1>s, <1>5 DEF RA!Commit, RetagFileTypes, Ended
<1>6. CASE RA!Failed \/ RA!Settle
  BY <1>t, <1>6 DEF RA!Failed, RA!Settle, RetagFileTypes
<1>7. CASE RA!Restore
  BY <1>t, <1>s, <1>7 DEF RA!Restore, RetagFileTypes, RA!Texts, Ended
<1>8. CASE RA!Publish \/ (\E sv \in RA!Involved : RA!StopService(sv) \/ RA!OtherRecord(sv))
  BY <1>k, <1>8 DEF RA!Publish, RA!StopService, RA!OtherRecord, RA!Outside, RA!result
<1>9. CASE \E st \in RA!Range(ra_Stacks) : RA!Edit(st)
  BY <1>t, <1>9 DEF RA!Edit, RA!Outside, RA!result, RetagFileTypes, RA!Texts
<1>10. QED BY <1>1, <1>2, <1>3, <1>4, <1>5, <1>6, <1>7, <1>8, <1>9 DEF RA!Next

LEMMA RecordsStep ==
  ASSUME RetagShape, RetagParts, PlaceInv, RetagPlanInv, RA!Next
  PROVE  RecordTypes'
<1>t. RecordTypes
  BY DEF RetagParts
<1>k. ASSUME UNCHANGED <<ra_known, ra_changes, ra_retained>>
      PROVE  RecordTypes'
  BY <1>t, <1>k DEF RecordTypes, ChangesInv
<1>1. CASE RA!Preview \/ RA!Rebuild \/ RA!InsertAudit \/ RA!Scope \/ RA!Revalidate \/ RA!Backup \/ RA!Write
  BY <1>k, <1>1 DEF RA!Preview, RA!Rebuild, RA!InsertAudit, RA!Scope, RA!Revalidate, RA!Backup,
     RA!Write, RA!jobRest,
                    RA!result, RA!world, RA!stackVars
<1>2. CASE RA!Pull \/ RA!Recreate \/ RA!Health \/ RA!Failed \/ RA!Restore
  BY <1>k, <1>2 DEF RA!Pull, RA!Recreate, RA!Health, RA!Failed, RA!Restore, RA!jobRest, RA!result,
     RA!world, RA!stackVars
<1>3. CASE RA!RestoreStopped \/ RA!RestoreRunning \/ RA!Settle \/ RA!FinishAudit
  BY <1>k, <1>3 DEF RA!RestoreStopped, RA!RestoreRunning, RA!Settle, RA!FinishAudit, RA!result,
     RA!world, RA!stackVars
<1>4. CASE RA!Record
  <2>1. CASE UNCHANGED <<ra_known, ra_changes>>
    BY <1>k, <1>4, <2>1 DEF RA!Record, RA!result
  <2>2. CASE ~UNCHANGED <<ra_known, ra_changes>>
    <3> DEFINE keys == RA!Selected \ ra_Ambiguous
    <3>1. /\ ra_changes' = [x \in keys |-> ra_known[x]] /\ ra_retained' = ra_retained
          /\ ra_known' = [sv \in RA!Involved |-> IF sv \in keys THEN ra_built ELSE ra_known[sv]]
      BY <1>4, <2>2 DEF RA!Record, RA!Restrict, RA!result
    <3>2. keys \subseteq RA!Involved /\ ra_built \in Rows
      BY <1>4, RetagStackIs DEF RA!Record, PlaceInv, RetagPlanInv, Ended, Rows
    <3> HIDE DEF keys
    <3>3. QED BY <1>t, <3>1, <3>2 DEF RecordTypes, ChangesInv
  <2>3. QED BY <2>1, <2>2
<1>5. CASE RA!Commit
  <2>1. CASE UNCHANGED ra_changes
    BY <1>k, <1>5, <2>1 DEF RA!Commit, RA!world
  <2>2. CASE ra_changes' = <<>>
    BY <1>t, <1>5, <2>2 DEF RA!Commit, RA!world, RecordTypes, ChangesInv
  <2>3. QED BY <1>5, <2>1, <2>2 DEF RA!Commit, RA!NoStack, RA!stackVars
<1>6. CASE RA!Reconcile
  <2>1. ra_changes' = ra_changes /\ ra_retained' \in {ra_retained, DOMAIN ra_changes}
    BY <1>6 DEF RA!Reconcile, RA!stackVars
  <2>2. ra_known' = ra_known \/ ra_known' = RA!RestoreRows
    BY <1>6 DEF RA!Reconcile
  <2>3. RA!RestoreRows \in [RA!Involved -> Rows]
    BY <1>t DEF RA!RestoreRows, RecordTypes, ChangesInv
  <2>4. QED BY <1>t, <2>1, <2>2, <2>3 DEF RecordTypes, ChangesInv
<1>7. CASE RA!Publish \/ (\E st \in RA!Range(ra_Stacks) : RA!Edit(st)) \/ (\E sv \in RA!Involved : RA!StopService(sv))
  BY <1>k, <1>7 DEF RA!Publish, RA!Edit, RA!StopService, RA!Outside, RA!result, RA!stackVars
<1>8. ASSUME NEW sv \in RA!Involved, RA!OtherRecord(sv)
      PROVE  RecordTypes'
  BY <1>t, <1>8 DEF RA!OtherRecord, RA!Outside, RA!result, RA!stackVars, RecordTypes, ChangesInv,
     Rows
<1>9. QED BY <1>1, <1>2, <1>3, <1>4, <1>5, <1>6, <1>7, <1>8 DEF RA!Next

(* What the job has of its plan only changes where the plan is made.         *)
LEMMA PlansStep ==
  ASSUME RetagShape, RetagParts, RetagPlanInv, RA!Next
  PROVE  PlanTypes' /\ RetagPlanInv'
<1>t. PlanTypes /\ RetagPlanInv /\ ra_pc \in RetagSteps
  BY DEF RetagParts, JobTypes
<1>k. ASSUME UNCHANGED <<ra_own, ra_mode, ra_approved, ra_built>>, ra_target' \in RA!Tagged,
             ra_written' \in {ra_written, ra_built, None}, ra_pc # "preview",
             ra_pc' # ra_pc => ra_pc \notin {"approved", "done"} /\ ra_pc' \notin {"preview", "approved"}
      PROVE  PlanTypes' /\ RetagPlanInv'
  BY <1>t, <1>k DEF PlanTypes, RetagPlanInv
<1>o. ASSUME UNCHANGED <<ra_own, ra_mode, ra_approved, ra_built, ra_written, ra_pc>>, ra_target' \in RA!Tagged
      PROVE  PlanTypes' /\ RetagPlanInv'
  BY <1>t, <1>o DEF PlanTypes, RetagPlanInv
<1>1. CASE RA!Preview
  <2>1. PICK answers \in BOOLEAN : ra_approved' = RA!BuildPlan(answers)
    BY <1>1 DEF RA!Preview
  <2>2. RA!BuildPlan(answers) \in RA!Plan
    <3>1. RA!Runtime(answers) \in [RA!Involved -> {"running", "not-running", "unknown"}]
      BY DEF RA!Runtime
    <3>2. ra_file \in [RA!Range(ra_Stacks) -> RA!Texts] /\ ra_target \in RA!Tagged
      BY <1>t DEF RetagParts, RetagFileTypes, PlanTypes
    <3>3. QED BY <3>1, <3>2 DEF RA!BuildPlan, RA!Plan
  <2>3. \A st \in RA!Range(ra_Stacks) : ra_approved'.hash[st] = "old"
    BY <1>1 DEF RA!Preview, RA!CanApply
  <2>4. /\ ra_pc = "preview" /\ ra_pc' = "approved"
        /\ UNCHANGED <<ra_target, ra_own, ra_mode, ra_built, ra_written>>
    BY <1>1 DEF RA!Preview, RA!world, RA!stackVars
  <2>5. QED BY <1>t, <2>1, <2>2, <2>3, <2>4 DEF PlanTypes, RetagPlanInv, RetagShape
<1>2. CASE RA!Rebuild
  <2>1. ra_approved \in RA!Plan
    BY <1>t, <1>2 DEF RA!Rebuild, RetagPlanInv
  <2>2. /\ ra_built' # ra_built => ra_built' = ra_approved.to
        /\ ra_pc' = "audit" => ra_built' = ra_approved.to
    BY <1>2 DEF RA!Rebuild, RA!PlanId, RA!BuildPlan
  <2>3. ra_approved.to \in RA!Tagged
    BY <2>1 DEF RA!Plan
  <2>4. /\ ra_pc = "approved" /\ ra_pc' \in {"audit", "done"}
        /\ UNCHANGED <<ra_target, ra_own, ra_mode, ra_approved, ra_written>>
    BY <1>2 DEF RA!Rebuild, RA!world, RA!stackVars
  <2>5. QED BY <1>t, <2>1, <2>2, <2>3, <2>4 DEF PlanTypes, RetagPlanInv, RetagShape
<1>g. PlanTypes => ra_target \in RA!Tagged
  BY DEF PlanTypes
<1>3. CASE RA!InsertAudit \/ RA!Scope \/ RA!Revalidate \/ RA!Backup
  BY <1>t, <1>g, <1>k, <1>3 DEF RA!InsertAudit, RA!Scope, RA!Revalidate, RA!Backup, RA!Goto,
     RA!jobRest, RA!world,
                                RA!stackVars
<1>4. CASE RA!Write \/ RA!Pull \/ RA!Recreate \/ RA!Health \/ RA!Record \/ RA!Commit
  BY <1>t, <1>g, <1>k, <1>4 DEF RA!Write, RA!Pull, RA!Recreate, RA!Health, RA!Record, RA!Commit,
     RA!NoStack, RA!Goto,
                                RA!jobRest, RA!world, RA!stackVars
<1>5. CASE RA!Failed \/ RA!Restore \/ RA!RestoreStopped
  BY <1>t, <1>g, <1>k, <1>5 DEF RA!Failed, RA!Restore, RA!RestoreStopped, RA!Goto, RA!world,
     RA!stackVars
<1>6. CASE RA!RestoreRunning \/ RA!Settle \/ RA!Reconcile \/ RA!FinishAudit
  BY <1>t, <1>g, <1>k, <1>6 DEF RA!RestoreRunning, RA!Settle, RA!Reconcile, RA!FinishAudit, RA!Goto,
     RA!world,
                                RA!stackVars
<1>7. CASE RA!Publish
  BY <1>o, <1>7 DEF RA!Publish, RA!Outside, RA!stackVars, RA!Tagged
<1>8. CASE \/ \E st \in RA!Range(ra_Stacks) : RA!Edit(st)
           \/ \E sv \in RA!Involved : RA!StopService(sv) \/ RA!OtherRecord(sv)
  BY <1>t, <1>g, <1>o, <1>8 DEF RA!Edit, RA!StopService, RA!OtherRecord, RA!Outside, RA!stackVars
<1>9. QED BY <1>1, <1>2, <1>3, <1>4, <1>5, <1>6, <1>7, <1>8 DEF RA!Next

LEMMA JobsStep ==
  ASSUME RetagShape, RetagParts, PlaceInv, RA!Next
  PROVE  JobTypes'
<1>t. JobTypes /\ (ra_pc \notin Ended => RA!Selected \subseteq RA!Involved)
  BY RetagStackIs DEF RetagParts, PlaceInv
<1>n. Len(ra_Stacks) \in Nat /\ ra_MaxOutside \in Nat
  BY StacksAre DEF RetagShape
<1>1. CASE RA!Preview \/ RA!Rebuild \/ RA!InsertAudit \/ RA!Scope
  BY <1>t, <1>1 DEF RA!Preview, RA!Rebuild, RA!InsertAudit, RA!Scope, RA!stackVars, RA!history,
     JobTypes, RetagSteps
<1>2. CASE RA!Revalidate
  BY <1>t, <1>2 DEF RA!Revalidate, RA!Goto, RA!jobRest, RA!result, RA!history, JobTypes, RetagSteps,
     Ended
<1>3. CASE RA!Backup \/ RA!Write \/ RA!Pull \/ RA!Health
  BY <1>t, <1>3 DEF RA!Backup, RA!Write, RA!Pull, RA!Health, RA!Goto, RA!jobRest, RA!result,
     RA!stackVars, RA!history,
                    JobTypes, RetagSteps
<1>4. CASE RA!Recreate \/ RA!Record
  BY <1>t, <1>4 DEF RA!Recreate, RA!Record, RA!Goto, RA!result, RA!history, JobTypes, RetagSteps
<1>5. CASE RA!Commit
  <2>1. ra_at <= Len(ra_Stacks)
    BY <1>5 DEF RA!Commit, PlaceInv, Ended, InStack
  <2>2. ra_at' \in 1..Len(ra_Stacks) + 1
    BY <1>t, <1>n, <1>5, <2>1 DEF RA!Commit, JobTypes
  <2>3. QED BY <1>t, <1>5, <2>2 DEF RA!Commit, RA!NoStack, RA!Goto, RA!stackVars, RA!history, JobTypes, RetagSteps
<1>6. CASE RA!Failed \/ RA!Restore \/ RA!RestoreStopped
  BY <1>t, <1>6 DEF RA!Failed, RA!Restore, RA!RestoreStopped, RA!Goto, RA!stackVars, RA!history,
     JobTypes, RetagSteps
<1>7. CASE RA!RestoreRunning \/ RA!Settle \/ RA!Reconcile
  BY <1>t, <1>7 DEF RA!RestoreRunning, RA!Settle, RA!Reconcile, RA!Goto, RA!stackVars, RA!history,
     JobTypes, RetagSteps
<1>8. CASE RA!FinishAudit
  BY <1>t, <1>8 DEF RA!FinishAudit, RA!Goto, RA!stackVars, RA!history, JobTypes, RetagSteps
<1>9. ASSUME RA!Outside, ra_idle' \subseteq RA!Involved
      PROVE  JobTypes'
  BY <1>t, <1>n, <1>9 DEF RA!Outside, RA!stackVars, RA!result, JobTypes
<1>10. CASE \/ RA!Publish \/ \E st \in RA!Range(ra_Stacks) : RA!Edit(st)
            \/ \E sv \in RA!Involved : RA!StopService(sv) \/ RA!OtherRecord(sv)
  BY <1>t, <1>9, <1>10 DEF RA!Publish, RA!Edit, RA!StopService, RA!OtherRecord, JobTypes
<1>11. QED BY <1>1, <1>2, <1>3, <1>4, <1>5, <1>6, <1>7, <1>8, <1>10 DEF RA!Next

(* Where the job is.                                                         *)
LEMMA PlaceStep ==
  ASSUME RetagShape, RetagParts, RetagPlanInv, PlaceInv, RA!Next
  PROVE  PlaceInv'
<1>t. /\ PlaceInv /\ ra_pc \in RetagSteps /\ ra_at \in 1..Len(ra_Stacks) + 1 /\ Len(ra_Stacks) \in Nat \ {0}
      /\ RetagPlanInv /\ ra_written \in RA!Tagged \cup {None}
  BY StacksAre DEF RetagParts, JobTypes, PlanTypes
<1> USE DEF PlaceInv, InStack, Early, Writing, Returning, Ended, RA!Stack
<1>1. CASE RA!Preview \/ RA!Rebuild \/ RA!InsertAudit \/ RA!Scope
  BY <1>t, <1>1 DEF RA!Preview, RA!Rebuild, RA!InsertAudit, RA!Scope, RA!stackVars, RetagPlanInv
<1>2. CASE RA!Revalidate
  BY <1>t, <1>2 DEF RA!Revalidate, RA!Goto, RA!jobRest, RA!result
<1>3. CASE RA!Backup
  BY <1>t, <1>3 DEF RA!Backup, RA!Goto, RA!jobRest, RA!result, RA!stackVars
<1>4. CASE RA!Write
  BY <1>t, <1>4 DEF RA!Write, RA!Goto, RA!jobRest, RA!result, RetagPlanInv, RetagShape
<1>5. CASE RA!Pull \/ RA!Health
  BY <1>t, <1>5 DEF RA!Pull, RA!Health, RA!Goto, RA!jobRest, RA!result, RA!stackVars
<1>6. CASE RA!Recreate \/ RA!Record
  BY <1>t, <1>6 DEF RA!Recreate, RA!Record, RA!Goto, RA!result
<1>7. CASE RA!Commit
  <2>1. CASE ra_at' = ra_at
    BY <1>t, <1>7, <2>1 DEF RA!Commit, RA!Goto, RA!stackVars
  <2>2. CASE ra_at' # ra_at
    <3>1. /\ ra_at' = ra_at + 1 /\ ra_done' = ra_done \cup {ra_Stacks[ra_at]} /\ ra_written' = None
          /\ ra_pc' = IF ra_at = Len(ra_Stacks) THEN "finish" ELSE "validate"
      BY <1>7, <2>2 DEF RA!Commit, RA!NoStack, RA!Goto
    <3>2. ra_at \in 1..Len(ra_Stacks)
      BY <1>t, <1>7 DEF RA!Commit
    <3>3. ra_done' = {ra_Stacks[i] : i \in 1..(ra_at' - 1)}
      BY <1>t, <3>1, <3>2
    <3>4. QED BY <1>t, <3>1, <3>2, <3>3
  <2>3. QED BY <2>1, <2>2
<1>8. CASE RA!Failed
  BY <1>t, <1>8 DEF RA!Failed, RA!Goto, RA!stackVars
<1>9. CASE RA!Restore \/ RA!RestoreStopped \/ RA!RestoreRunning
  BY <1>t, <1>9 DEF RA!Restore, RA!RestoreStopped, RA!RestoreRunning, RA!Goto, RA!stackVars
<1>10. CASE RA!Settle \/ RA!Reconcile \/ RA!FinishAudit
  BY <1>t, <1>10 DEF RA!Settle, RA!Reconcile, RA!FinishAudit, RA!Goto, RA!stackVars
<1>11. CASE RA!Outside
  BY <1>t, <1>11 DEF RA!Outside, RA!stackVars, RA!result
<1>12. QED BY <1>1, <1>2, <1>3, <1>4, <1>5, <1>6, <1>7, <1>8, <1>9, <1>10, <1>11
           DEF RA!Next, RA!Publish, RA!Edit, RA!StopService, RA!OtherRecord

-----------------------------------------------------------------------------
(* Texts: a file changes when an editor saves it, when the approved text     *)
(* replaces the old one, and when the old one replaces that.                 *)

FilesKept == UNCHANGED <<ra_file, ra_durable>>
FileEdited == ra_durable' = ra_durable /\ \E st \in RA!Range(ra_Stacks) : ra_file' = [ra_file EXCEPT ![st] = "edited"]
FileWritten ==
    /\ ra_pc = "write" /\ ra_file[RA!Stack] = "old" /\ ra_file' = [ra_file EXCEPT ![RA!Stack] = ra_built]
    /\ ra_durable' \in {ra_durable, ra_durable \ {RA!Stack}} /\ ra_written' = ra_built
FileRestored ==
    /\ ra_pc = "restore" /\ ra_file[RA!Stack] = ra_written /\ ra_file' = [ra_file EXCEPT ![RA!Stack] = "old"]
    /\ ra_durable' \in {ra_durable \cup {RA!Stack}, ra_durable \ {RA!Stack}} /\ ra_written' = ra_written
    /\ ra_pc' = "restoreStopped"

LEMMA FilesMove ==
  ASSUME RetagShape, RetagParts, PlaceInv, RetagPlanInv, RA!Next
  PROVE  \/ FilesKept
         \/ FileEdited /\ RA!Outside
         \/ FileWritten /\ RA!Write
         \/ FileRestored /\ RA!Restore
<1>1. CASE RA!Write
  <2>1. ra_approved \in RA!Plan /\ RA!Stack \in RA!Range(ra_Stacks)
    BY <1>1, RetagStackIs DEF RA!Write, RetagPlanInv, PlaceInv, Ended
  <2>2. ra_approved.hash[RA!Stack] = "old"
    BY <2>1 DEF RetagPlanInv, RetagShape
  <2>3. QED BY <1>1, <2>2 DEF RA!Write, RA!UntouchedSince, FileWritten, FilesKept
<1>2. CASE RA!Restore
  BY <1>2 DEF RA!Restore, RA!UntouchedSince, FileRestored, FilesKept, RA!Goto, RA!stackVars
<1>3. CASE \E st \in RA!Range(ra_Stacks) : RA!Edit(st)
  BY <1>3 DEF RA!Edit, RA!Outside, FileEdited
<1>4. CASE RA!Preview \/ RA!Rebuild \/ RA!InsertAudit \/ RA!Scope \/ RA!Revalidate \/ RA!Backup \/ RA!Pull \/ RA!Health
  BY <1>4 DEF RA!Preview, RA!Rebuild, RA!InsertAudit, RA!Scope, RA!Revalidate, RA!Backup, RA!Pull,
     RA!Health, FilesKept
<1>5. CASE RA!Recreate \/ RA!Record \/ RA!Commit \/ RA!Failed \/ RA!RestoreStopped \/ RA!RestoreRunning
  BY <1>5 DEF RA!Recreate, RA!Record, RA!Commit, RA!Failed, RA!RestoreStopped, RA!RestoreRunning,
     FilesKept
<1>6. CASE \/ RA!Settle \/ RA!Reconcile \/ RA!FinishAudit \/ RA!Publish
           \/ \E sv \in RA!Involved : RA!StopService(sv) \/ RA!OtherRecord(sv)
  BY <1>6 DEF RA!Settle, RA!Reconcile, RA!FinishAudit, RA!Publish, RA!StopService, RA!OtherRecord,
     RA!Outside,
              FilesKept
<1>7. QED BY <1>1, <1>2, <1>3, <1>4, <1>5, <1>6 DEF RA!Next

LEMMA RetagTextStep ==
  ASSUME RetagShape, RetagParts, PlaceInv, RetagPlanInv, RetagTextInv, RA!Next
  PROVE  RetagTextInv'
<1>t. /\ RetagFileTypes /\ PlaceInv /\ ra_pc \in RetagSteps /\ RetagPlanInv /\ RetagTextInv
      /\ ra_pc \notin Ended => InStack /\ RA!Stack \in RA!Range(ra_Stacks)
      /\ ra_written \in RA!Tagged \cup {None} /\ None \notin RA!Tagged
  BY RetagStackIs DEF RetagParts, JobTypes, PlanTypes, PlaceInv, RetagShape
<1>v. "old" \notin RA!Tagged /\ "edited" \notin RA!Tagged
  BY DEF RA!Tagged
<1>b. ASSUME UNCHANGED <<ra_file, ra_durable, ra_backups, ra_written, ra_done, ra_at, ra_built>>,
             ra_pc' \in Returning => ra_pc \in Returning
      PROVE  RetagTextInv'
  BY <1>t, <1>b DEF RetagTextInv, RA!OldTextKept, InStack, RA!Stack
<1>1. CASE RA!Preview \/ RA!InsertAudit \/ RA!Scope \/ RA!Revalidate \/ RA!Pull \/ RA!Health
  BY <1>b, <1>1 DEF RA!Preview, RA!InsertAudit, RA!Scope, RA!Revalidate, RA!Pull, RA!Health,
     RA!jobRest,
                    RA!result, RA!stackVars, RA!Goto, Returning
<1>2. CASE RA!Recreate \/ RA!Record \/ RA!RestoreStopped \/ RA!RestoreRunning \/ RA!Reconcile \/ RA!FinishAudit
  BY <1>b, <1>2 DEF RA!Recreate, RA!Record, RA!RestoreStopped, RA!RestoreRunning, RA!Reconcile,
     RA!FinishAudit,
                    RA!result, RA!stackVars, RA!Goto, Returning
<1>3. CASE RA!Rebuild
  <2>1. \A st \in RA!Range(ra_Stacks) : ra_file[st] \notin RA!Tagged
    BY <1>t, <1>3 DEF RA!Rebuild, RetagPlanInv, RetagTextInv
  <2>2. /\ UNCHANGED <<ra_file, ra_durable, ra_backups, ra_written, ra_done, ra_at>>
        /\ ra_pc' \notin Returning
    BY <1>3 DEF RA!Rebuild, RA!stackVars, Returning
  <2>3. QED BY <1>t, <2>1, <2>2 DEF RetagTextInv, RA!OldTextKept, InStack, RA!Stack
<1>4. CASE RA!Backup
  <2>1. /\ UNCHANGED <<ra_file, ra_durable, ra_written, ra_done, ra_at, ra_built>> /\ ra_backups \subseteq ra_backups'
        /\ ra_pc' \notin Returning
    BY <1>4 DEF RA!Backup, RA!Goto, Returning, RA!jobRest, RA!result, RA!stackVars
  <2>2. QED BY <1>t, <2>1 DEF RetagTextInv, RA!OldTextKept, InStack, RA!Stack
<1>5. CASE FileWritten /\ RA!Write
  <2>1. /\ UNCHANGED <<ra_backups, ra_done, ra_at, ra_built>> /\ RA!Stack \in ra_backups /\ ra_pc' \notin Returning
        /\ InStack /\ ra_built \in RA!Tagged
    BY <1>t, <1>5 DEF FileWritten, RA!Write, RA!Goto, Returning, RA!jobRest, RA!result, PlaceInv,
       RetagPlanInv,
                      Ended
  <2>2. /\ ra_file'[RA!Stack] = ra_built /\ ra_written' # None
        /\ \A st \in RA!Range(ra_Stacks) : st # RA!Stack => ra_file'[st] = ra_file[st] /\ (st \in ra_durable' <=> st \in ra_durable)
    BY <1>t, <1>5, <2>1 DEF FileWritten, RetagFileTypes
  <2>3. QED BY <1>t, <1>v, <2>1, <2>2 DEF RetagTextInv, RA!OldTextKept, InStack, RA!Stack
<1>6. CASE FileRestored /\ RA!Restore
  <2>1. /\ UNCHANGED <<ra_backups, ra_done, ra_at, ra_built>> /\ RA!Stack \in ra_backups
        /\ InStack /\ ra_written # None /\ RA!Stack \in RA!Range(ra_Stacks)
    BY <1>t, <1>6 DEF FileRestored, RA!Restore, PlaceInv, Ended
  <2>2. /\ ra_file'[RA!Stack] = "old" /\ ra_written' = ra_written
        /\ \A st \in RA!Range(ra_Stacks) : st # RA!Stack => ra_file'[st] = ra_file[st] /\ (st \in ra_durable' <=> st \in ra_durable)
    BY <1>t, <1>6, <2>1 DEF FileRestored, RetagFileTypes
  <2>3. QED BY <1>t, <1>v, <2>1, <2>2 DEF RetagTextInv, RA!OldTextKept, InStack, RA!Stack
<1>7. CASE (RA!Write \/ RA!Restore) /\ FilesKept
  <2>1. /\ UNCHANGED <<ra_backups, ra_done, ra_at, ra_built>>
        /\ RA!Write => UNCHANGED ra_written \/ (ra_written' = ra_built /\ ra_pc = "write")
        /\ RA!Restore => UNCHANGED ra_written
    BY <1>7 DEF RA!Write, RA!Restore, RA!jobRest, RA!result, RA!stackVars
  <2>2. ra_pc' \notin Returning \/ (ra_pc = "restore" /\ ra_file'[RA!Stack] = "old" /\ RA!Restore)
    BY <1>t, <1>7 DEF RA!Write, RA!Restore, RA!Goto, Returning, RetagFileTypes, Ended
  <2>3. ra_written # None => ra_written' # None
    BY <1>t, <1>7, <2>1 DEF PlaceInv, Early
  <2>4. QED BY <1>t, <1>7, <2>1, <2>2, <2>3 DEF RetagTextInv, RA!OldTextKept, InStack, RA!Stack, FilesKept
<1>8. CASE RA!Commit
  <2>1. /\ UNCHANGED <<ra_file, ra_durable, ra_built>> /\ ra_pc' \notin Returning
        /\ \/ UNCHANGED <<ra_backups, ra_written, ra_done, ra_at>>
           \/ ra_backups' = ra_backups \ {RA!Stack} /\ ra_done' = ra_done \cup {RA!Stack}
    BY <1>8 DEF RA!Commit, RA!Goto, Returning, RA!stackVars
  <2>2. QED BY <1>t, <2>1 DEF RetagTextInv, RA!OldTextKept, InStack, RA!Stack
<1>9. CASE RA!Failed
  <2>1. /\ UNCHANGED <<ra_file, ra_durable, ra_written, ra_done, ra_at, ra_built>> /\ ra_pc' \notin Returning
        /\ \/ ra_backups' = ra_backups
           \/ ra_backups' = ra_backups \ {RA!Stack} /\ ra_written = None
    BY <1>9 DEF RA!Failed, RA!Goto, Returning, RA!stackVars
  <2>2. QED BY <1>t, <2>1 DEF RetagTextInv, RA!OldTextKept, InStack, RA!Stack
<1>10. CASE RA!Settle
  <2>1. /\ UNCHANGED <<ra_file, ra_durable, ra_written, ra_done, ra_at, ra_built>> /\ ra_pc' \notin Returning
        /\ \/ ra_backups' = ra_backups
           \/ ra_backups' = ra_backups \ {RA!Stack} /\ RA!Stack \in ra_durable /\ ra_pc \in Returning
    BY <1>10 DEF RA!Settle, RA!Settled, RA!Goto, Returning, RA!stackVars
  <2>2. QED BY <1>t, <2>1 DEF RetagTextInv, RA!OldTextKept, InStack, RA!Stack
<1>11. ASSUME RA!Outside, FilesKept
       PROVE  RetagTextInv'
  BY <1>b, <1>11 DEF RA!Outside, FilesKept, RA!stackVars, RA!result
<1>12. CASE FileEdited /\ RA!Outside
  <2>1. /\ UNCHANGED <<ra_durable, ra_backups, ra_written, ra_done, ra_at, ra_built, ra_pc>>
        /\ \A st \in RA!Range(ra_Stacks) : ra_file'[st] \in {ra_file[st], "edited"}
    BY <1>t, <1>12 DEF FileEdited, RA!Outside, RA!stackVars, RA!result, RetagFileTypes
  <2>2. ra_pc \in Returning => RA!Stack \in RA!Range(ra_Stacks)
    BY <1>t DEF Returning, Ended
  <2>3. QED BY <1>t, <1>v, <2>1, <2>2 DEF RetagTextInv, RA!OldTextKept, InStack, RA!Stack
<1>13. QED BY <1>1, <1>2, <1>3, <1>4, <1>5, <1>6, <1>7, <1>8, <1>9, <1>10, <1>11, <1>12,
              FilesMove DEF RA!Next, RA!Publish, RA!Edit, RA!StopService, RA!OtherRecord

-----------------------------------------------------------------------------
(* Containers: WUDup's own one, and those that were stopped                  *)

(* Only the first steps precede the look at what is WUDup's own.             *)
LEMMA OwnPlace ==
  ASSUME RetagParts, ra_own # None, ra_pc \in {"preview", "approved", "audit", "scope"} \cup Ended, RA!Next
  PROVE  ra_own' = ra_own /\ ra_pc' \in {"preview", "approved", "audit", "scope"} \cup Ended
<1>t. ra_own \in RA!Involved
  BY DEF RetagParts, PlanTypes
<1>1. CASE RA!Preview \/ RA!Rebuild \/ RA!InsertAudit
  BY <1>1 DEF RA!Preview, RA!Rebuild, RA!InsertAudit, RA!world, Ended
<1>2. CASE RA!Scope
  BY <1>t, <1>2 DEF RA!Scope, RA!InScope, RA!world, Ended
<1>3. CASE RA!FinishAudit
  BY <1>3 DEF RA!FinishAudit, RA!Goto, RA!world, Ended
<1>4. CASE \/ RA!Publish \/ \E st \in RA!Range(ra_Stacks) : RA!Edit(st)
           \/ \E sv \in RA!Involved : RA!StopService(sv) \/ RA!OtherRecord(sv)
  BY <1>4 DEF RA!Publish, RA!Edit, RA!StopService, RA!OtherRecord, RA!Outside
<1>5. ra_pc \notin {"validate", "backup", "write", "pull", "recreate", "health", "record", "commit",
                    "failed", "restore", "restoreStopped", "restoreRunning", "settle", "reconcile"}
  BY DEF Ended
<1>6. ~(RA!Revalidate \/ RA!Backup \/ RA!Write \/ RA!Pull \/ RA!Recreate \/ RA!Health \/ RA!Record)
  BY <1>5 DEF RA!Revalidate, RA!Backup, RA!Write, RA!Pull, RA!Recreate, RA!Health, RA!Record
<1>7. ~(RA!Commit \/ RA!Failed \/ RA!Restore \/ RA!RestoreStopped \/ RA!RestoreRunning \/ RA!Settle \/ RA!Reconcile)
  BY <1>5 DEF RA!Commit, RA!Failed, RA!Restore, RA!RestoreStopped, RA!RestoreRunning, RA!Settle,
     RA!Reconcile
<1>8. QED BY <1>1, <1>2, <1>3, <1>4, <1>6, <1>7 DEF RA!Next

LEMMA OwnKept ==
  ASSUME RA!Next
  PROVE  ra_own' = ra_own
<1>1. CASE RA!Preview \/ RA!Rebuild \/ RA!InsertAudit \/ RA!Scope \/ RA!Revalidate \/ RA!Backup \/ RA!Write \/ RA!Pull
  BY <1>1 DEF RA!Preview, RA!Rebuild, RA!InsertAudit, RA!Scope, RA!Revalidate, RA!Backup, RA!Write,
     RA!Pull, RA!jobRest,
              RA!world
<1>2. CASE RA!Recreate \/ RA!Health \/ RA!Record \/ RA!Commit \/ RA!Failed \/ RA!Restore \/ RA!RestoreStopped
  BY <1>2 DEF RA!Recreate, RA!Health, RA!Record, RA!Commit, RA!Failed, RA!Restore,
     RA!RestoreStopped, RA!jobRest, RA!world
<1>3. CASE RA!RestoreRunning \/ RA!Settle \/ RA!Reconcile \/ RA!FinishAudit
  BY <1>3 DEF RA!RestoreRunning, RA!Settle, RA!Reconcile, RA!FinishAudit, RA!world
<1>4. CASE \/ RA!Publish \/ \E st \in RA!Range(ra_Stacks) : RA!Edit(st)
           \/ \E sv \in RA!Involved : RA!StopService(sv) \/ RA!OtherRecord(sv)
  BY <1>4 DEF RA!Publish, RA!Edit, RA!StopService, RA!OtherRecord, RA!Outside
<1>5. QED BY <1>1, <1>2, <1>3, <1>4 DEF RA!Next

LEMMA OwnStep ==
  ASSUME RetagShape, RetagParts, PlaceInv, OwnInv, RA!Next
  PROVE  OwnInv'
<1>1. SUFFICES ASSUME ra_own' # None
               PROVE  /\ ra_pc' \in {"preview", "approved", "audit", "scope"} \cup Ended
                      /\ \A sv \in RA!Involved : ra_img'[sv] = "old"
  BY DEF OwnInv, RA!OwnUntouched
<1>2. ra_own # None
  BY <1>1, OwnKept
<1>3. /\ ra_pc \in {"preview", "approved", "audit", "scope"} \cup Ended
      /\ \A sv \in RA!Involved : ra_img[sv] = "old"
  BY <1>2 DEF OwnInv, RA!OwnUntouched
<1>4. ~TouchesStack
  BY <1>3 DEF TouchesStack, Touching, Ended
<1>5. ra_img' = ra_img
  BY <1>4, ContainersMove DEF RA!StopService, RA!Outside
<1>6. QED BY <1>2, <1>3, <1>5, OwnPlace

(* The stack whose services have been looked at and may be changed           *)
Admitted ==
    \/ ra_pc \in {"backup", "write", "restore"} \cup Writing \cup Returning
    \/ ra_pc = "failed" /\ ra_written # None

(* The steps that look at a stack's services, and those that go on with it.  *)
LEMMA AdmittedStep ==
  ASSUME RetagParts, PlaceInv, RA!Next, Admitted'
  PROVE  \/ Admitted /\ ra_at' = ra_at
         \/ RA!Revalidate /\ ra_at' = ra_at /\ \A sv \in RA!Selected : RA!Startable(sv)
<1>t. ra_pc \in RetagSteps /\ ra_written \in RA!Tagged \cup {None} /\ PlaceInv
  BY DEF RetagParts, JobTypes, PlanTypes
<1> USE DEF Admitted, Writing, Returning
<1>1. CASE RA!Preview \/ RA!Rebuild \/ RA!InsertAudit \/ RA!Scope
  BY <1>1 DEF RA!Preview, RA!Rebuild, RA!InsertAudit, RA!Scope
<1>2. CASE RA!Revalidate
  BY <1>t, <1>2 DEF RA!Revalidate, RA!Goto, RA!jobRest, PlaceInv, Early
<1>3. CASE RA!Backup \/ RA!Write \/ RA!Pull \/ RA!Health
  BY <1>3 DEF RA!Backup, RA!Write, RA!Pull, RA!Health, RA!jobRest
<1>4. CASE RA!Recreate \/ RA!Record \/ RA!RestoreStopped \/ RA!RestoreRunning
  BY <1>4 DEF RA!Recreate, RA!Record, RA!RestoreStopped, RA!RestoreRunning
<1>5. CASE RA!Commit
  BY <1>5 DEF RA!Commit, RA!Goto
<1>6. CASE RA!Failed \/ RA!Restore
  BY <1>6 DEF RA!Failed, RA!Restore, RA!Goto
<1>7. CASE RA!Settle \/ RA!Reconcile \/ RA!FinishAudit
  BY <1>7 DEF RA!Settle, RA!Reconcile, RA!FinishAudit, RA!Goto
<1>8. CASE RA!Outside
  BY <1>8 DEF RA!Outside, RA!stackVars
<1>9. QED BY <1>1, <1>2, <1>3, <1>4, <1>5, <1>6, <1>7, <1>8
          DEF RA!Next, RA!Publish, RA!Edit, RA!StopService, RA!OtherRecord

LEMMA IdleStep ==
  ASSUME RetagShape, RetagParts, PlaceInv, IdleInv, RA!Next
  PROVE  IdleInv'
<1>t. /\ IdleInv /\ PlaceInv /\ ra_pc \in RetagSteps /\ ra_idle \subseteq RA!Involved /\ ServiceTypes
      /\ ra_at \in 1..Len(ra_Stacks) + 1 /\ Len(ra_Stacks) \in Nat /\ DOMAIN ra_Stacks = 1..Len(ra_Stacks)
  BY StacksAre DEF RetagParts, JobTypes
<1>a. Admitted => InStack /\ ra_idle \cap RA!Selected \subseteq ra_Consent /\ ra_pc \notin Early \ {"backup", "write"}
  BY <1>t DEF Admitted, IdleInv, PlaceInv, Writing, Returning, Ended, Early
<1>i. Touching \subseteq {"backup", "write", "restore"} \cup Writing \cup Returning
  BY DEF Touching, Writing, Returning
<1>1. RA!NoSurpriseStart'
  <2>1. CASE UNCHANGED <<ra_img, ra_up, ra_idle>>
    BY <1>t, <2>1 DEF IdleInv, RA!NoSurpriseStart
  <2>2. ASSUME NEW sv \in RA!Involved, RA!StopService(sv)
        PROVE  RA!NoSurpriseStart'
    <3>1. /\ ra_up' = [ra_up EXCEPT ![sv] = "stopped"]
          /\ ra_idle' = ra_idle \/ ra_idle' = ra_idle \cup {sv}
      BY <2>2 DEF RA!StopService
    <3>2. QED BY <1>t, <3>1 DEF IdleInv, RA!NoSurpriseStart, ServiceTypes
  <2>3. CASE TouchesStack
    <3>1. Admitted
      BY <1>i, <2>3 DEF TouchesStack, Admitted
    <3>2. QED BY <1>t, <1>a, <2>3, <3>1 DEF TouchesStack, IdleInv, RA!NoSurpriseStart
  <2>4. QED BY <2>1, <2>2, <2>3, ContainersMove
<1>2. ASSUME Admitted'
      PROVE  ra_idle' \cap RA!Selected' \subseteq ra_Consent
  <2>1. CASE RA!Revalidate /\ ra_at' = ra_at /\ \A sv \in RA!Selected : RA!Startable(sv)
    <3>1. ra_idle' = ra_idle
      BY <2>1 DEF RA!Revalidate, RA!jobRest, RA!history
    <3>2. RA!Selected' = RA!Selected
      BY <2>1 DEF RA!Selected, RA!Stack
    <3>3. \A sv \in RA!Selected \cap ra_idle : sv \in ra_Consent
      BY <1>t, <2>1 DEF IdleInv, RA!NoSurpriseStart, RA!Startable
    <3>4. QED BY <3>1, <3>2, <3>3
  <2>2. CASE Admitted /\ ra_at' = ra_at
    <3>1. RA!Selected' = RA!Selected
      BY <2>2 DEF RA!Selected, RA!Stack
    <3>2. CASE ra_idle' = ra_idle
      BY <1>a, <2>2, <3>1, <3>2
    <3>3. ASSUME NEW sv \in RA!Involved, RA!StopService(sv)
          PROVE  ra_idle' \cap RA!Selected' \subseteq ra_Consent
      <4>1. CASE ra_idle' = ra_idle
        BY <1>a, <2>2, <3>1, <4>1
      <4>2. CASE ra_idle' # ra_idle
        <5>1. PICK i \in DOMAIN ra_Stacks :
                /\ sv \in ra_ServicesOf[ra_Stacks[i]]
                /\ i > ra_at \/ (i = ra_at /\ ra_pc \in {"preview", "approved", "audit", "scope",
                                                         "validate"})
          BY <3>3, <4>2 DEF RA!StopService
        <5>2. ra_idle' = ra_idle \cup {sv}
          BY <3>3, <4>2 DEF RA!StopService
        <5>3. i # ra_at /\ ra_at \in 1..Len(ra_Stacks) /\ i \in 1..Len(ra_Stacks)
          BY <1>t, <1>a, <2>2, <5>1 DEF InStack, Early
        <5>4. sv \notin RA!Selected
          BY <5>1, <5>3, Apart DEF RA!Selected, RA!Stack
        <5>5. QED BY <1>a, <2>2, <3>1, <5>2, <5>4
      <4>3. QED BY <4>1, <4>2
    <3>4. QED BY <3>2, <3>3, ContainersMove DEF TouchesStack
  <2>3. QED BY <1>2, <2>1, <2>2, AdmittedStep
<1>3. QED BY <1>1, <1>2 DEF IdleInv, Admitted

-----------------------------------------------------------------------------
(* Without events from outside: every stack as before, or as the plan wants it *)

(* A step only changes the files and containers of the stack that it is at.  *)
LEMMA Elsewhere ==
  ASSUME RetagShape, RetagParts, PlaceInv, RetagPlanInv, RA!Next, ~RA!Outside,
         NEW i \in DOMAIN ra_Stacks, InStack => i # ra_at
  PROVE  /\ ra_file'[ra_Stacks[i]] = ra_file[ra_Stacks[i]]
         /\ \A sv \in ra_ServicesOf[ra_Stacks[i]] : ra_img'[sv] = ra_img[sv] /\ ra_up'[sv] = ra_up[sv]
<1>t. RetagFileTypes /\ DOMAIN ra_Stacks = 1..Len(ra_Stacks) /\ PlaceInv
  BY StacksAre DEF RetagParts
<1>1. ra_Stacks[i] \in RA!Range(ra_Stacks) /\ ra_ServicesOf[ra_Stacks[i]] \subseteq RA!Involved
  BY <1>t, StacksAre
<1>2. ra_pc \notin Ended => /\ ra_Stacks[i] # RA!Stack /\ RA!Stack \in RA!Range(ra_Stacks)
                            /\ \A sv \in ra_ServicesOf[ra_Stacks[i]] : sv \notin RA!Selected
  BY <1>t, Apart, RetagStackIs DEF PlaceInv, InStack, RA!Stack, RA!Selected
<1>3. ra_file'[ra_Stacks[i]] = ra_file[ra_Stacks[i]]
  <2>1. CASE FilesKept
    BY <2>1 DEF FilesKept
  <2>2. CASE FileWritten \/ FileRestored
    BY <1>t, <1>1, <1>2, <2>2 DEF FileWritten, FileRestored, RetagFileTypes, Ended
  <2>3. QED BY <2>1, <2>2, FilesMove
<1>4. ASSUME NEW sv \in ra_ServicesOf[ra_Stacks[i]]
      PROVE  ra_img'[sv] = ra_img[sv] /\ ra_up'[sv] = ra_up[sv]
  <2>1. CASE UNCHANGED <<ra_img, ra_up, ra_idle>>
    BY <2>1
  <2>2. CASE TouchesStack
    BY <1>1, <1>2, <2>2 DEF TouchesStack, Touching, Ended
  <2>3. QED BY <2>1, <2>2, ContainersMove DEF RA!StopService
<1>5. QED BY <1>3, <1>4

LEMMA IdleKept ==
  ASSUME RetagShape, RetagParts, PlaceInv, RA!Next, ~RA!Outside
  PROVE  ra_idle' = ra_idle
BY ContainersMove DEF RA!StopService, TouchesStack

Advance ==
    /\ ra_pc = "commit" /\ ra_at' = ra_at + 1 /\ ra_done' = ra_done \cup {RA!Stack} /\ RA!NoStack
    /\ ra_pc' = IF ra_at = Len(ra_Stacks) THEN "finish" ELSE "validate"
    /\ UNCHANGED <<ra_file, ra_img, ra_up, ra_known, ra_built, ra_retained, ra_trouble, ra_job, ra_audit>>

(* A stack is left for the next one by a commit, and only the rebuilt plan   *)
(* changes what the job works with.                                          *)
LEMMA Progress ==
  ASSUME RA!Next, ~RA!Outside
  PROVE  /\ UNCHANGED <<ra_at, ra_done>> \/ (RA!Commit /\ Advance)
         /\ ra_built' = ra_built \/ ra_pc = "approved"
         /\ ra_outside' = ra_outside
<1>1. CASE RA!Preview \/ RA!Rebuild \/ RA!InsertAudit \/ RA!Scope \/ RA!Revalidate \/ RA!Backup
  BY <1>1 DEF RA!Preview, RA!Rebuild, RA!InsertAudit, RA!Scope, RA!Revalidate, RA!Backup,
     RA!jobRest, RA!result, RA!history
<1>2. CASE RA!Write \/ RA!Pull \/ RA!Recreate \/ RA!Health \/ RA!Record
  BY <1>2 DEF RA!Write, RA!Pull, RA!Recreate, RA!Health, RA!Record, RA!jobRest, RA!result,
     RA!history
<1>3. CASE RA!Commit
  BY <1>3 DEF RA!Commit, Advance, RA!Goto, RA!world, RA!history
<1>4. CASE RA!Failed \/ RA!Restore \/ RA!RestoreStopped \/ RA!RestoreRunning
  BY <1>4 DEF RA!Failed, RA!Restore, RA!RestoreStopped, RA!RestoreRunning, RA!history
<1>5. CASE RA!Settle \/ RA!Reconcile \/ RA!FinishAudit
  BY <1>5 DEF RA!Settle, RA!Reconcile, RA!FinishAudit, RA!history
<1>6. QED BY <1>1, <1>2, <1>3, <1>4, <1>5
          DEF RA!Next, RA!Publish, RA!Edit, RA!StopService, RA!OtherRecord

LEMMA OthersStep ==
  ASSUME RetagShape, RetagParts, PlaceInv, RetagPlanInv, OthersFirst, InStack => StackFirst, RA!Next, ~RA!Outside
  PROVE  OthersFirst'
<1>t. /\ ra_at \in 1..Len(ra_Stacks) + 1 /\ Len(ra_Stacks) \in Nat /\ DOMAIN ra_Stacks = 1..Len(ra_Stacks)
      /\ ra_done = {ra_Stacks[i] : i \in 1..(ra_at - 1)}
      /\ ra_idle' = ra_idle /\ (ra_pc = "approved" => ra_at = 1)
  BY StacksAre, IdleKept DEF RetagParts, JobTypes, PlaceInv
<1>b. ra_done # {} => ra_built' = ra_built
  BY <1>t, Progress
<1>1. ASSUME NEW i \in DOMAIN ra_Stacks, i > ra_at
      PROVE  ra_file'[ra_Stacks[i]] = "old" /\ \A sv \in ra_ServicesOf[ra_Stacks[i]] : First(sv)'
  <2>1. ra_file[ra_Stacks[i]] = "old" /\ \A sv \in ra_ServicesOf[ra_Stacks[i]] : First(sv)
    BY <1>1 DEF OthersFirst
  <2>2. /\ ra_file'[ra_Stacks[i]] = ra_file[ra_Stacks[i]]
        /\ \A sv \in ra_ServicesOf[ra_Stacks[i]] : ra_img'[sv] = ra_img[sv] /\ ra_up'[sv] = ra_up[sv]
    BY <1>t, <1>1, Elsewhere
  <2>3. QED BY <1>t, <2>1, <2>2 DEF First
<1>2. ASSUME NEW st \in ra_done
      PROVE  ra_file'[st] = ra_built' /\ \A sv \in ra_ServicesOf[st] : Updated(sv)'
  <2>1. PICK i \in 1..(ra_at - 1) : st = ra_Stacks[i]
    BY <1>t
  <2>2. i \in DOMAIN ra_Stacks /\ i # ra_at
    BY <1>t, <2>1
  <2>3. ra_file[st] = ra_built /\ (\A sv \in ra_ServicesOf[st] : Updated(sv)) /\ ra_built' = ra_built
    BY <1>b, <1>2 DEF OthersFirst
  <2>4. /\ ra_file'[st] = ra_file[st]
        /\ \A sv \in ra_ServicesOf[st] : ra_img'[sv] = ra_img[sv] /\ ra_up'[sv] = ra_up[sv]
    BY <2>1, <2>2, Elsewhere
  <2>5. QED BY <2>3, <2>4 DEF Updated
<1>3. CASE UNCHANGED <<ra_at, ra_done>>
  BY <1>1, <1>2, <1>3 DEF OthersFirst
<1>4. CASE Advance
  <2>1. InStack /\ StackFirst
    BY <1>4 DEF Advance, PlaceInv, Ended
  <2>2. ra_file[RA!Stack] = ra_built /\ \A sv \in RA!Selected : Updated(sv)
    BY <1>4, <2>1 DEF Advance, StackFirst, Writing
  <2>3. ra_file'[RA!Stack] = ra_built' /\ \A sv \in ra_ServicesOf[RA!Stack] : Updated(sv)'
    BY <1>4, <2>2 DEF Advance, Updated, RA!Selected
  <2>4. ra_done' = ra_done \cup {RA!Stack} /\ ra_at' = ra_at + 1
    BY <1>4 DEF Advance
  <2>5. \A st \in ra_done' : ra_file'[st] = ra_built' /\ \A sv \in ra_ServicesOf[st] : Updated(sv)'
    BY <1>2, <2>3, <2>4
  <2>6. \A i \in DOMAIN ra_Stacks :
            i > ra_at' => ra_file'[ra_Stacks[i]] = "old" /\ \A sv \in ra_ServicesOf[ra_Stacks[i]] : First(sv)'
    BY <1>1, <1>t, <2>4
  <2>7. QED BY <2>5, <2>6 DEF OthersFirst
<1>5. QED BY <1>3, <1>4, Progress

LEMMA StackAdvanced ==
  ASSUME RetagShape, RetagParts, PlaceInv, OthersFirst, Advance, InStack', ra_idle' = ra_idle
  PROVE  StackFirst'
<1>1. ra_at \in 1..Len(ra_Stacks) /\ ra_at + 1 \in DOMAIN ra_Stacks /\ ra_at + 1 > ra_at /\ Len(ra_Stacks) \in Nat
  BY StacksAre DEF Advance, PlaceInv, Ended, InStack
<1>2. /\ ra_file[ra_Stacks[ra_at + 1]] = "old"
      /\ \A sv \in ra_ServicesOf[ra_Stacks[ra_at + 1]] : First(sv)
  BY <1>1 DEF OthersFirst
<1>3. RA!Stack' = ra_Stacks[ra_at + 1] /\ RA!Selected' = ra_ServicesOf[ra_Stacks[ra_at + 1]]
  BY DEF Advance, RA!Stack, RA!Selected
<1>4. /\ ra_file'[RA!Stack'] = "old" /\ \A sv \in RA!Selected' : First(sv)'
      /\ ra_written' = None /\ ra_touched' = FALSE /\ ra_pc' = "validate"
  BY <1>1, <1>2, <1>3 DEF Advance, First, RA!NoStack, InStack
<1>5. QED BY <1>4 DEF StackFirst, Writing, Returning, Ended

LEMMA StackStays ==
  ASSUME RetagShape, RetagParts, PlaceInv, RetagPlanInv, StackFirst, RA!Next, ~RA!Outside, InStack,
         UNCHANGED <<ra_at, ra_done>>
  PROVE  StackFirst'
<1>t. /\ ra_pc \in RetagSteps /\ PlaceInv /\ StackFirst /\ ra_trouble \in BOOLEAN /\ ra_touched \in BOOLEAN
      /\ ra_written \in RA!Tagged \cup {None} /\ ra_idle' = ra_idle /\ ServiceTypes /\ RetagFileTypes
      /\ RA!Stack' = RA!Stack /\ RA!Selected' = RA!Selected
      /\ RA!Stack \in RA!Range(ra_Stacks) /\ RA!Selected \subseteq RA!Involved
  BY IdleKept, RetagStackIs DEF RetagParts, JobTypes, PlanTypes, RA!Stack, RA!Selected
<1>b. ra_built' = ra_built \/ ra_pc = "approved"
  BY Progress
<1>k. ASSUME ra_img' = ra_img, ra_up' = ra_up
      PROVE  /\ \A sv \in RA!Selected : First(sv)' <=> First(sv)
             /\ ra_pc # "approved" => \A sv \in RA!Selected : Updated(sv)' <=> Updated(sv)
  BY <1>t, <1>b, <1>k DEF First, Updated
<1> USE DEF StackFirst, Early, Writing, Returning, Ended
<1>1. CASE RA!Preview \/ RA!Rebuild \/ RA!InsertAudit \/ RA!Scope
  <2>1. /\ UNCHANGED <<ra_file, ra_img, ra_up, ra_written, ra_touched, ra_stopped, ra_trouble>>
        /\ ra_pc \in {"preview", "approved", "audit", "scope"}
        /\ ra_pc' \in {"approved", "audit", "scope", "validate"} \cup Ended
    BY <1>1 DEF RA!Preview, RA!Rebuild, RA!InsertAudit, RA!Scope, RA!world, RA!stackVars
  <2>2. ra_written = None
    BY <1>t, <2>1 DEF PlaceInv
  <2>3. QED BY <1>t, <1>k, <2>1, <2>2
<1>2. CASE RA!Revalidate
  <2>1. /\ UNCHANGED <<ra_file, ra_img, ra_up, ra_written, ra_touched, ra_trouble, ra_built>> /\ ra_pc = "validate"
        /\ \/ ra_pc' = "backup" /\ ra_stopped' = {sv \in RA!Selected : ra_up[sv] # "running"}
           \/ ra_pc' = "failed"
    BY <1>2 DEF RA!Revalidate, RA!Goto, RA!jobRest, RA!world, RA!result
  <2>2. ra_written = None /\ \A sv \in RA!Selected : First(sv)
    BY <1>t, <2>1 DEF PlaceInv
  <2>3. {sv \in RA!Selected : ra_up[sv] # "running"} = RA!Selected \cap ra_idle
    BY <2>2 DEF First
  <2>4. QED BY <1>t, <1>k, <2>1, <2>2, <2>3
<1>3. CASE RA!Backup
  <2>1. /\ UNCHANGED <<ra_file, ra_img, ra_up, ra_written, ra_touched, ra_stopped, ra_trouble, ra_built>>
        /\ ra_pc = "backup" /\ ra_pc' \in {"write", "failed"}
    BY <1>3 DEF RA!Backup, RA!Goto, RA!jobRest, RA!world, RA!result, RA!stackVars
  <2>2. ra_written = None
    BY <1>t, <2>1 DEF PlaceInv
  <2>3. QED BY <1>t, <1>k, <2>1, <2>2
<1>4. CASE RA!Write
  <2>1. /\ UNCHANGED <<ra_img, ra_up, ra_touched, ra_stopped, ra_trouble, ra_built>> /\ ra_pc = "write"
        /\ \/ ra_file'[RA!Stack] = ra_built /\ ra_written' = ra_built /\ ra_pc' \in {"pull", "failed"}
           \/ ra_file' = ra_file /\ ra_written' = ra_written /\ ra_pc' = "failed"
    BY <1>t, <1>4 DEF RA!Write, RA!Goto, RA!jobRest, RA!world, RA!result, RetagFileTypes
  <2>2. ra_written = None /\ ra_built # None
    BY <1>t, <2>1 DEF PlaceInv, RetagPlanInv, RetagShape
  <2>3. QED BY <1>t, <1>k, <2>1, <2>2
<1>5. CASE RA!Pull \/ RA!Health
  <2>1. /\ UNCHANGED <<ra_file, ra_img, ra_up, ra_written, ra_touched, ra_stopped, ra_trouble, ra_built>>
        /\ \/ ra_pc = "pull" /\ ra_pc' \in {"recreate", "failed"}
           \/ ra_pc = "health" /\ ra_pc' \in {"record", "failed"}
    BY <1>5 DEF RA!Pull, RA!Health, RA!Goto, RA!jobRest, RA!world, RA!result, RA!stackVars
  <2>2. ra_written # None
    BY <1>t, <2>1 DEF PlaceInv
  <2>3. QED BY <1>t, <1>k, <2>1, <2>2
<1>6. CASE RA!Record
  <2>1. /\ UNCHANGED <<ra_file, ra_img, ra_up, ra_written, ra_touched, ra_stopped, ra_trouble, ra_built>>
        /\ ra_pc = "record" /\ ra_pc' \in {"commit", "failed"}
    BY <1>6 DEF RA!Record, RA!Goto, RA!result
  <2>2. ra_written # None
    BY <1>t, <2>1 DEF PlaceInv
  <2>3. QED BY <1>t, <1>k, <2>1, <2>2
<1>7. CASE RA!Commit
  <2>1. /\ UNCHANGED <<ra_file, ra_img, ra_up, ra_written, ra_touched, ra_stopped, ra_trouble, ra_built>>
        /\ ra_pc = "commit" /\ ra_pc' = "failed"
    BY <1>t, <1>7 DEF RA!Commit, RA!Goto, RA!world, RA!stackVars, RetagParts, JobTypes
  <2>2. ra_written # None
    BY <1>t, <2>1 DEF PlaceInv
  <2>3. QED BY <1>t, <1>k, <2>1, <2>2
<1>8. CASE RA!Recreate
  <2>1. /\ UNCHANGED <<ra_file, ra_written, ra_stopped, ra_trouble, ra_built>> /\ ra_pc = "recreate"
        /\ ra_touched' = TRUE /\ ra_pc' \in {"health", "record", "failed"}
        /\ ra_pc' # "failed" => RA!Up(RA!Selected, TRUE)
    BY <1>8 DEF RA!Recreate, RA!Goto, RA!result
  <2>2. ra_written # None /\ ra_file[RA!Stack] = ra_built /\ ra_file[RA!Stack] \in RA!Texts
    BY <1>t, <2>1 DEF PlaceInv, RetagFileTypes
  <2>3. ra_pc' # "failed" => \A sv \in RA!Selected : Updated(sv)'
    BY <1>t, <2>1, <2>2, UpIs DEF Updated
  <2>4. QED BY <1>t, <2>1, <2>2, <2>3
<1>9. CASE RA!Failed
  <2>1. /\ UNCHANGED <<ra_file, ra_img, ra_up, ra_written, ra_touched, ra_stopped, ra_built>>
        /\ ra_pc = "failed" /\ ra_pc' \in {"reconcile", "restore"}
        /\ ra_pc' = "restore" => ra_written # None
        /\ ra_pc' = "reconcile" => RA!Stack \notin ra_backups \/ ra_written = None
        /\ ra_trouble' \in {ra_trouble, TRUE}
    BY <1>9 DEF RA!Failed, RA!Goto, RA!world, RA!stackVars
  <2>2. ra_pc' = "reconcile" => ra_written = None
    BY <1>t, <2>1 DEF PlaceInv
  <2>3. QED BY <1>t, <1>k, <2>1, <2>2
<1>10. CASE RA!Restore
  <2>1. /\ UNCHANGED <<ra_img, ra_up, ra_written, ra_touched, ra_stopped, ra_built>> /\ ra_pc = "restore"
        /\ \/ ra_file'[RA!Stack] = "old" /\ ra_pc' = "restoreStopped" /\ ra_trouble' = ra_trouble
           \/ ra_trouble' = TRUE /\ ra_pc' = "reconcile" /\ ra_file' = ra_file
    BY <1>t, <1>10 DEF RA!Restore, RA!Goto, RA!world, RA!stackVars, RetagFileTypes
  <2>2. ra_written # None
    BY <1>t, <2>1 DEF PlaceInv
  <2>3. QED BY <1>t, <1>k, <2>1, <2>2
<1>11. CASE RA!RestoreStopped
  <2>1. /\ UNCHANGED <<ra_file, ra_written, ra_touched, ra_stopped, ra_built>>
        /\ ra_pc = "restoreStopped" /\ ra_pc' = "restoreRunning"
    BY <1>11 DEF RA!RestoreStopped, RA!Goto, RA!stackVars
  <2>2. ra_written # None /\ ra_file[RA!Stack] = "old" /\ ra_stopped = RA!Selected \cap ra_idle
    BY <1>t, <2>1 DEF PlaceInv
  <2>3. CASE ~ra_touched
    <3>1. \A sv \in RA!Selected : First(sv)
      BY <1>t, <2>3
    <3>2. ra_img' = ra_img /\ ra_up' = ra_up
      <4>1. RA!RestoredStopped = {}
        BY <2>3 DEF RA!RestoredStopped
      <4>2. QED BY <1>t, <1>11, <4>1 DEF RA!RestoreStopped, ServiceTypes
    <3>3. QED BY <1>t, <1>k, <2>1, <2>2, <3>1, <3>2
  <2>4. CASE ra_touched
    <3>1. RA!RestoredStopped = RA!Selected \cap ra_idle
      BY <2>2, <2>4 DEF RA!RestoredStopped
    <3>2. ~ra_trouble' => \A sv \in RA!Selected \cap ra_idle : First(sv)'
      BY <1>t, <1>11, <2>2, <3>1 DEF RA!RestoreStopped, First
    <3>3. QED BY <1>t, <2>1, <2>2, <2>4, <3>2
  <2>5. QED BY <1>t, <2>3, <2>4
<1>12. CASE RA!RestoreRunning
  <2>1. /\ UNCHANGED <<ra_file, ra_written, ra_touched, ra_stopped, ra_built>>
        /\ ra_pc = "restoreRunning" /\ ra_pc' = "settle"
    BY <1>12 DEF RA!RestoreRunning, RA!Goto, RA!stackVars
  <2>2. /\ ra_written # None /\ ra_file[RA!Stack] = "old" /\ ra_file[RA!Stack] \in RA!Texts
        /\ ra_stopped = RA!Selected \cap ra_idle
    BY <1>t, <2>1 DEF PlaceInv, RetagFileTypes
  <2>3. CASE ~ra_touched
    <3>1. \A sv \in RA!Selected : First(sv)
      BY <1>t, <2>3
    <3>2. RA!Up({}, TRUE)
      BY <1>12, <2>3 DEF RA!RestoreRunning
    <3>3. \A sv \in RA!Involved : ra_img'[sv] = ra_img[sv] /\ ra_up'[sv] = ra_up[sv]
      <4> DEFINE S == {}
      <4>1. RA!Up(S, TRUE)
        BY <3>2
      <4> HIDE DEF S
      <4>2. \A sv \in RA!Involved : sv \notin S => ra_img'[sv] = ra_img[sv] /\ ra_up'[sv] = ra_up[sv]
        BY <1>t, <2>2, <4>1, UpIs
      <4>3. QED BY <4>2 DEF S
    <3>4. \A sv \in RA!Selected : First(sv)'
      BY <1>t, <3>1, <3>3 DEF First
    <3>5. QED BY <1>t, <2>1, <2>2, <3>4
  <2>4. CASE ra_touched
    <3>1. ~ra_trouble' => RA!Up(RA!Selected \ ra_idle, TRUE) /\ ~ra_trouble
      <4>1. RA!Selected \ ra_stopped = RA!Selected \ ra_idle
        BY <2>2
      <4>2. QED BY <1>t, <1>12, <2>4, <4>1 DEF RA!RestoreRunning
    <3>2. ~ra_trouble' => \A sv \in RA!Selected : First(sv)'
      <4>1. SUFFICES ASSUME ~ra_trouble', NEW sv \in RA!Selected
                     PROVE  First(sv)'
        OBVIOUS
      <4>2. RA!Up(RA!Selected \ ra_idle, TRUE) /\ sv \in RA!Involved
        BY <1>t, <3>1, <4>1
      <4> DEFINE S == RA!Selected \ ra_idle
      <4> HIDE DEF S
      <4>3. RA!Up(S, TRUE)
        BY <4>2 DEF S
      <4>4. /\ sv \notin S => ra_img'[sv] = ra_img[sv] /\ ra_up'[sv] = ra_up[sv]
            /\ sv \in S => ra_img'[sv] = "old" /\ ra_up'[sv] = "running"
        BY <1>t, <2>2, <4>2, <4>3, UpIs
      <4>5. sv \in ra_idle => First(sv)
        BY <1>t, <2>1, <3>1, <4>1
      <4>6. QED BY <1>t, <4>1, <4>4, <4>5 DEF First, S
    <3>3. QED BY <1>t, <2>1, <2>2, <2>4, <3>2
  <2>5. QED BY <1>t, <2>3, <2>4
<1>13. CASE RA!Settle
  <2>1. /\ UNCHANGED <<ra_file, ra_img, ra_up, ra_written, ra_touched, ra_stopped, ra_built>>
        /\ ra_pc = "settle" /\ ra_pc' = "reconcile" /\ ra_trouble' \in {ra_trouble, TRUE}
    BY <1>13 DEF RA!Settle, RA!Goto, RA!world, RA!stackVars
  <2>2. ra_written # None
    BY <1>t, <2>1 DEF PlaceInv
  <2>3. QED BY <1>t, <1>k, <2>1, <2>2
<1>14. CASE RA!Reconcile \/ RA!FinishAudit
  <2>1. /\ UNCHANGED <<ra_file, ra_img, ra_up, ra_written, ra_touched, ra_stopped, ra_built>>
        /\ ra_pc \in {"reconcile", "finish"} /\ ra_pc' \in Ended /\ ra_trouble' \in {ra_trouble, TRUE}
    BY <1>14 DEF RA!Reconcile, RA!FinishAudit, RA!Goto, RA!world, RA!stackVars
  <2>2. ~ra_trouble' => ~ra_trouble
    BY <1>t, <2>1
  <2>3. /\ \A sv \in RA!Selected : First(sv)' <=> First(sv)
        /\ ra_file'[RA!Stack'] = ra_file[RA!Stack]
    BY <1>t, <1>k, <2>1
  <2>4. QED BY <1>t, <2>1, <2>2, <2>3
<1>15. QED BY <1>1, <1>2, <1>3, <1>4, <1>5, <1>6, <1>7, <1>8, <1>9, <1>10, <1>11, <1>12,
              <1>13, <1>14 DEF RA!Next, RA!Publish, RA!Edit, RA!StopService, RA!OtherRecord

LEMMA RetagServiceStep ==
  ASSUME RetagShape, RetagParts, PlaceInv, RetagPlanInv, RetagServiceInv, RA!Next
  PROVE  RetagServiceInv'
<1>1. SUFFICES ASSUME ra_outside' = 0
               PROVE  OthersFirst' /\ (InStack' => StackFirst')
  BY DEF RetagServiceInv
<1>2. ~RA!Outside
  BY <1>1 DEF RA!Outside, RetagParts, JobTypes
<1>3. ra_outside = 0 /\ OthersFirst /\ (InStack => StackFirst)
  BY <1>1, <1>2, Progress DEF RetagServiceInv
<1>4. OthersFirst'
  BY <1>2, <1>3, OthersStep
<1>5. ASSUME InStack'
      PROVE  StackFirst'
  <2>1. CASE UNCHANGED <<ra_at, ra_done>>
    BY <1>2, <1>3, <1>5, <2>1, StackStays DEF InStack
  <2>2. CASE Advance
    BY <1>2, <1>3, <1>5, <2>2, StackAdvanced, IdleKept
  <2>3. QED BY <1>2, <2>1, <2>2, Progress
<1>6. QED BY <1>4, <1>5

-----------------------------------------------------------------------------
(* ... and what is known and told of it                                      *)

RecordsKept == UNCHANGED <<ra_known, ra_changes, ra_retained>>
Recording ==
    /\ ra_pc = "record" /\ ra_pc' = "commit" /\ UNCHANGED <<ra_retained, ra_built, ra_written, ra_at, ra_done>>
    /\ ra_changes' = [sv \in RA!Selected \ ra_Ambiguous |-> ra_known[sv]]
    /\ ra_known' = [sv \in RA!Involved |-> IF sv \in RA!Selected \ ra_Ambiguous THEN ra_built ELSE ra_known[sv]]

(* The steps of the job that leave the records alone go on in this order.    *)
LEMMA RecordsMove ==
  ASSUME RetagParts, RA!Next, ~RA!Outside
  PROVE  \/ Recording
         \/ RA!Reconcile
         \/ RA!Commit /\ Advance
         \/ /\ RecordsKept /\ UNCHANGED <<ra_at, ra_done>>
            /\ ra_pc' \in Early \cup (Writing \ {"commit"})
                      => ra_pc \in Early \cup (Writing \ {"commit"})
            /\ ra_pc' # "commit"
            /\ ra_pc' \in Ended => ra_pc \in {"approved", "audit", "scope"} \cup Ended
            /\ ra_pc \in Ended => ra_pc' \in Ended /\ ra_trouble' = ra_trouble
            /\ ra_written' = ra_written \/ ra_written' = ra_built
            /\ ra_built' = ra_built \/ ra_pc = "approved"
<1>t. ra_pc \in RetagSteps
  BY DEF RetagParts, JobTypes
<1> USE DEF RecordsKept, Early, Writing, Ended
<1>1. CASE RA!Preview \/ RA!Rebuild \/ RA!InsertAudit \/ RA!Scope
  BY <1>1 DEF RA!Preview, RA!Rebuild, RA!InsertAudit, RA!Scope, RA!world, RA!stackVars
<1>2. CASE RA!Revalidate \/ RA!Backup \/ RA!Write
  BY <1>2 DEF RA!Revalidate, RA!Backup, RA!Write, RA!Goto, RA!jobRest, RA!world, RA!result,
     RA!stackVars
<1>3. CASE RA!Pull \/ RA!Health
  BY <1>3 DEF RA!Pull, RA!Health, RA!Goto, RA!jobRest, RA!world, RA!result, RA!stackVars
<1>4. CASE RA!Recreate
  BY <1>4 DEF RA!Recreate, RA!Goto, RA!result
<1>5. CASE RA!Record
  BY <1>5 DEF RA!Record, Recording, RA!Restrict, RA!Goto, RA!result
<1>6. CASE RA!Commit
  <2>1. CASE UNCHANGED <<ra_at, ra_done>>
    <3>1. ra_at' # ra_at + 1
      BY <2>1 DEF RetagParts, JobTypes
    <3>2. QED BY <1>6, <2>1, <3>1 DEF RA!Commit, RA!Goto, RA!world, RA!stackVars
  <2>2. CASE RA!Commit /\ Advance
    BY <2>2
  <2>3. QED BY <2>1, <2>2, Progress
<1>7. CASE RA!Failed \/ RA!Restore \/ RA!RestoreStopped
  BY <1>7 DEF RA!Failed, RA!Restore, RA!RestoreStopped, RA!Goto, RA!world, RA!stackVars
<1>8. CASE RA!RestoreRunning \/ RA!Settle
  BY <1>8 DEF RA!RestoreRunning, RA!Settle, RA!Goto, RA!world, RA!stackVars
<1>9. CASE RA!FinishAudit
  BY <1>9 DEF RA!FinishAudit, RA!Goto, RA!world, RA!stackVars
<1>10. QED BY <1>1, <1>2, <1>3, <1>4, <1>5, <1>6, <1>7, <1>8, <1>9
           DEF RA!Next, RA!Publish, RA!Edit, RA!StopService, RA!OtherRecord

(* An event outside is no step of the job.                                   *)
LEMMA OutsideIs ==
  ASSUME RetagParts, RA!Next, RA!Outside
  PROVE  \/ RA!Publish \/ \E st \in RA!Range(ra_Stacks) : RA!Edit(st)
         \/ \E sv \in RA!Involved : RA!StopService(sv) \/ RA!OtherRecord(sv)
<1>1. ra_outside' # ra_outside
  BY DEF RA!Outside, RetagParts, JobTypes
<1>2. ~(RA!Preview \/ RA!Rebuild \/ RA!InsertAudit \/ RA!Scope \/ RA!Revalidate \/ RA!Backup \/ RA!Write)
  BY <1>1 DEF RA!Preview, RA!Rebuild, RA!InsertAudit, RA!Scope, RA!Revalidate, RA!Backup, RA!Write,
     RA!jobRest, RA!history
<1>3. ~(RA!Pull \/ RA!Recreate \/ RA!Health \/ RA!Record \/ RA!Commit \/ RA!Failed \/ RA!Restore)
  BY <1>1 DEF RA!Pull, RA!Recreate, RA!Health, RA!Record, RA!Commit, RA!Failed, RA!Restore,
     RA!jobRest, RA!history
<1>4. ~(RA!RestoreStopped \/ RA!RestoreRunning \/ RA!Settle \/ RA!Reconcile \/ RA!FinishAudit)
  BY <1>1 DEF RA!RestoreStopped, RA!RestoreRunning, RA!Settle, RA!Reconcile, RA!FinishAudit,
     RA!history
<1>5. QED BY <1>2, <1>3, <1>4 DEF RA!Next

(* What _reconcile_retag_known_images leaves.                                *)
LEMMA Reconciled ==
  ASSUME RetagShape, RetagParts, PlaceInv, RetagPlanInv, InStack, StackFirst, StackKnown, ra_retained = {}, RA!Reconcile
  PROVE  /\ \A sv \in RA!Involved : sv \notin RA!Selected => ra_known'[sv] = ra_known[sv]
         /\ StackKnown'
<1>t. /\ ra_pc = "reconcile" /\ ra_pc' = "finish" /\ UNCHANGED <<ra_file, ra_built, ra_at, ra_changes, ra_written, ra_done>>
      /\ ra_trouble' \in {ra_trouble, TRUE}
  BY DEF RA!Reconcile, RA!Goto, RA!stackVars
<1>s. /\ RA!Stack' = RA!Stack /\ RA!Selected' = RA!Selected /\ RA!Selected \subseteq RA!Involved
      /\ RecordTypes /\ ra_trouble \in BOOLEAN
  BY <1>t, RetagStackIs DEF RA!Stack, RA!Selected, RetagParts, JobTypes
<1>k. /\ DOMAIN ra_changes \subseteq RA!Selected \ ra_Ambiguous
      /\ \A sv \in DOMAIN ra_changes : ra_changes[sv] = "old"
      /\ \A sv \in RA!Selected : ra_known[sv] = IF sv \in DOMAIN ra_changes THEN ra_built ELSE "old"
      /\ DOMAIN ra_changes # {} => ra_written # None
  BY <1>t DEF StackKnown, Ended
<1>f. ASSUME /\ \A sv \in RA!Selected : ra_known'[sv] = IF sv \in ra_retained' THEN ra_built ELSE "old",
             ra_retained' \subseteq RA!Selected \ ra_Ambiguous,
             ~ra_trouble' => ra_retained' = {}
      PROVE  StackKnown'
  BY <1>t, <1>s, <1>k, <1>f DEF StackKnown, Ended, Early, Writing
<1>1. CASE DOMAIN ra_changes = {} /\ UNCHANGED <<ra_known, ra_retained, ra_trouble>>
  BY <1>k, <1>f, <1>1
<1>2. CASE DOMAIN ra_changes # {} /\ ra_file[RA!Stack] = ra_written
           /\ ra_retained' = DOMAIN ra_changes /\ UNCHANGED <<ra_known, ra_trouble>>
  <2>1. ra_written \in RA!Tagged
    BY <1>k, <1>2 DEF RetagParts, PlanTypes
  <2>2. ra_trouble
    BY <1>t, <1>2, <2>1 DEF StackFirst, RA!Tagged
  <2>3. QED BY <1>k, <1>f, <1>2, <2>2
<1>3. CASE DOMAIN ra_changes # {} /\ ra_known' = RA!RestoreRows /\ UNCHANGED <<ra_retained, ra_trouble>>
  <2>1. \A sv \in RA!Involved : ra_known'[sv] = IF sv \in DOMAIN ra_changes /\ ra_known[sv] = ra_built
                                                THEN ra_changes[sv] ELSE ra_known[sv]
    BY <1>3 DEF RA!RestoreRows
  <2>2. \A sv \in RA!Selected : ra_known'[sv] = "old"
    BY <1>s, <1>k, <2>1
  <2>3. StackKnown'
    BY <1>f, <1>3, <2>2
  <2>4. QED BY <1>k, <2>1, <2>3
<1>4. CASE ra_retained' = DOMAIN ra_changes /\ ra_trouble' = TRUE /\ UNCHANGED ra_known
  BY <1>k, <1>f, <1>4
<1>5. QED BY <1>1, <1>2, <1>3, <1>4 DEF RA!Reconcile

LEMMA StackRecords ==
  ASSUME RetagShape, RetagParts, PlaceInv, RetagPlanInv, RetagServiceInv, KnownInv, ra_outside = 0, RA!Next, ~RA!Outside
  PROVE  /\ OthersKnown' /\ (InStack' => StackKnown')
         /\ ra_pc' \notin Ended => ra_retained' = {}
         /\ ~InStack' => ra_retained' = {}
<1>t. /\ ra_at \in 1..Len(ra_Stacks) + 1 /\ Len(ra_Stacks) \in Nat /\ DOMAIN ra_Stacks = 1..Len(ra_Stacks)
      /\ ra_done = {ra_Stacks[i] : i \in 1..(ra_at - 1)} /\ ra_pc \in RetagSteps
      /\ ra_pc \in {"preview", "approved", "audit", "scope"} => ra_at = 1
      /\ ra_pc \notin Ended => InStack
      /\ \A i \in DOMAIN ra_Stacks : ra_ServicesOf[ra_Stacks[i]] \subseteq RA!Involved
  BY StacksAre DEF RetagParts, JobTypes, PlaceInv
<1>k. /\ OthersKnown /\ (InStack => StackKnown /\ StackFirst)
      /\ ra_pc \notin Ended => ra_retained = {}
      /\ ~InStack => ra_retained = {}
  BY DEF KnownInv, RetagServiceInv
<1>o. ASSUME UNCHANGED <<ra_at, ra_done>>, ra_built' = ra_built \/ ra_pc = "approved",
             \A sv \in RA!Involved : ra_known'[sv] # ra_known[sv] => InStack /\ sv \in RA!Selected
      PROVE  OthersKnown'
  <2>1. ASSUME NEW i \in DOMAIN ra_Stacks, i # ra_at, NEW sv \in ra_ServicesOf[ra_Stacks[i]]
        PROVE  ra_known'[sv] = ra_known[sv]
    BY <1>t, <1>o, <2>1, Apart DEF InStack, RA!Selected, RA!Stack
  <2>2. ASSUME NEW st \in ra_done
        PROVE  ra_built' = ra_built /\ \E i \in DOMAIN ra_Stacks : i # ra_at /\ st = ra_Stacks[i]
    BY <1>t, <1>o, <2>2
  <2>3. \A st \in ra_done : \A sv \in ra_ServicesOf[st] : Recorded(sv)'
    BY <1>k, <2>1, <2>2 DEF OthersKnown, Recorded
  <2>4. \A i \in DOMAIN ra_Stacks : i > ra_at => \A sv \in ra_ServicesOf[ra_Stacks[i]] : ra_known'[sv] = "old"
    BY <1>t, <1>k, <2>1 DEF OthersKnown
  <2>5. QED BY <1>o, <2>3, <2>4 DEF OthersKnown
<1>1. CASE Recording
  <2>1. InStack /\ StackKnown /\ ra_retained = {} /\ RA!Selected \subseteq RA!Involved /\ ra_written # None
        /\ RA!Stack' = RA!Stack /\ RA!Selected' = RA!Selected
    BY <1>t, <1>k, <1>1, RetagStackIs DEF Recording, Ended, PlaceInv, Writing, RA!Stack, RA!Selected
  <2>2. /\ \A sv \in RA!Selected : ra_known[sv] = "old"
        /\ \A sv \in RA!Involved : ra_known'[sv] = IF sv \in RA!Selected \ ra_Ambiguous THEN ra_built ELSE ra_known[sv]
        /\ DOMAIN ra_changes' = RA!Selected \ ra_Ambiguous
        /\ \A sv \in DOMAIN ra_changes' : ra_changes'[sv] = "old"
    BY <1>1, <2>1 DEF Recording, StackKnown, Writing, Early, Ended
  <2>3. OthersKnown'
    BY <1>1, <1>o, <2>1, <2>2 DEF Recording
  <2>4. StackKnown'
    BY <1>1, <2>1, <2>2 DEF Recording, StackKnown, Ended, Early, Writing
  <2>5. QED BY <1>1, <2>1, <2>3, <2>4 DEF Recording, InStack
<1>2. CASE RA!Reconcile
  <2>1. InStack /\ StackKnown /\ StackFirst /\ ra_retained = {} /\ ra_pc' \in Ended /\ ra_pc \notin Ended
        /\ UNCHANGED <<ra_at, ra_done, ra_built>>
    BY <1>t, <1>k, <1>2 DEF RA!Reconcile, RA!Goto, Ended
  <2>2. /\ \A sv \in RA!Involved : sv \notin RA!Selected => ra_known'[sv] = ra_known[sv]
        /\ StackKnown'
    BY <1>2, <2>1, Reconciled
  <2>3. OthersKnown'
    BY <1>o, <2>1, <2>2
  <2>4. QED BY <2>1, <2>2, <2>3 DEF InStack
<1>3. CASE Advance
  <2>1. /\ InStack /\ StackKnown /\ ra_retained = {} /\ ra_retained' = {} /\ ra_known' = ra_known
        /\ ra_built' = ra_built /\ ra_at' = ra_at + 1 /\ ra_done' = ra_done \cup {RA!Stack} /\ ra_changes' = <<>>
        /\ ra_pc = "commit" /\ ra_written' = None
        /\ ra_pc' = IF ra_at = Len(ra_Stacks) THEN "finish" ELSE "validate"
    BY <1>t, <1>k, <1>3 DEF Advance, RA!NoStack, Ended
  <2>2. \A sv \in RA!Selected : Recorded(sv)'
    BY <2>1 DEF StackKnown, Recorded, Ended
  <2>3. \A st \in ra_done' : \A sv \in ra_ServicesOf[st] : Recorded(sv)'
    BY <1>k, <2>1, <2>2 DEF OthersKnown, Recorded, RA!Selected
  <2>4. \A i \in DOMAIN ra_Stacks : i > ra_at' => \A sv \in ra_ServicesOf[ra_Stacks[i]] : ra_known'[sv] = "old"
    <3>1. \A i \in DOMAIN ra_Stacks : i > ra_at' => i > ra_at
      <4>1. ra_at' = ra_at + 1
        BY <2>1
      <4>2. ra_at \in Int
        BY <1>t
      <4>3. \A i \in DOMAIN ra_Stacks : i \in Int
        BY <1>t
      <4>4. QED BY <4>1, <4>2, <4>3
    <3>2. QED BY <1>k, <2>1, <3>1 DEF OthersKnown
  <2>5. ASSUME InStack'
        PROVE  StackKnown'
    <3>1. /\ RA!Selected' = ra_ServicesOf[ra_Stacks[ra_at + 1]] /\ ra_at + 1 \in DOMAIN ra_Stacks
          /\ ra_pc' = "validate"
      <4>1. RA!Selected' = ra_ServicesOf[ra_Stacks[ra_at + 1]]
        BY <2>1 DEF RA!Selected, RA!Stack
      <4>2. ra_at + 1 \in 1..Len(ra_Stacks) /\ ra_at # Len(ra_Stacks)
        <5>1. ra_at' \in 1..Len(ra_Stacks) /\ ra_at' = ra_at + 1
          BY <2>1, <2>5 DEF InStack
        <5>2. ra_at \in Int /\ Len(ra_Stacks) \in Int
          BY <1>t
        <5>3. QED BY <5>1, <5>2
      <4>3. QED BY <1>t, <2>1, <4>1, <4>2
    <3>2. \A sv \in RA!Selected' : ra_known'[sv] = "old"
      <4>1. ra_at + 1 > ra_at
        <5>1. ra_at \in Int
          BY <1>t
        <5>2. QED BY <5>1
      <4>2. \A sv \in ra_ServicesOf[ra_Stacks[ra_at + 1]] : ra_known[sv] = "old"
        <5>1. \A i \in DOMAIN ra_Stacks : i > ra_at =>
                 \A sv \in ra_ServicesOf[ra_Stacks[i]] : ra_known[sv] = "old"
          BY <1>k DEF OthersKnown
        <5>2. QED BY <3>1, <4>1, <5>1
      <4>3. ra_known' = ra_known
        BY <2>1
      <4>4. QED BY <3>1, <4>2, <4>3
    <3>3. DOMAIN ra_changes' = {}
      BY <2>1
    <3>4. QED BY <2>1, <3>1, <3>2, <3>3 DEF StackKnown, Ended
  <2>6. QED BY <2>1, <2>3, <2>4, <2>5 DEF OthersKnown
<1>4. CASE /\ RecordsKept /\ UNCHANGED <<ra_at, ra_done>>
           /\ ra_pc' \in Early \cup (Writing \ {"commit"})
                     => ra_pc \in Early \cup (Writing \ {"commit"})
           /\ ra_pc' # "commit"
           /\ ra_pc' \in Ended => ra_pc \in {"approved", "audit", "scope"} \cup Ended
           /\ ra_pc \in Ended => ra_pc' \in Ended /\ ra_trouble' = ra_trouble
           /\ ra_written' = ra_written \/ ra_written' = ra_built
           /\ ra_built' = ra_built \/ ra_pc = "approved"
  <2>1. OthersKnown'
    BY <1>o, <1>4 DEF RecordsKept
  <2>2. ASSUME InStack
        PROVE  StackKnown'
    <3>1. /\ StackKnown /\ RA!Selected' = RA!Selected /\ UNCHANGED <<ra_known, ra_changes, ra_retained>>
      BY <1>k, <1>4, <2>2 DEF RecordsKept, RA!Selected, RA!Stack
    <3>2. ra_pc \in Early => DOMAIN ra_changes = {}
      BY <3>1 DEF StackKnown
    <3>3. DOMAIN ra_changes # {} => ra_built' = ra_built /\ ra_built # None /\ ra_written # None
      BY <1>4, <3>1, <3>2 DEF StackKnown, PlaceInv, RetagPlanInv, Early, RetagShape
    <3>4. DOMAIN ra_changes' # {} => ra_written' # None
      BY <1>4, <3>1, <3>3
    <3>5. CASE ra_pc \notin Ended /\ ra_pc' \in Ended
      <4>1. ra_pc \in Early /\ ra_retained = {}
        BY <1>k, <1>4, <3>5 DEF Early
      <4>2. QED BY <3>1, <3>2, <3>4, <3>5, <4>1 DEF StackKnown, Ended, Early, Writing
    <3>6. CASE ra_pc \in Ended
      <4>1. ra_built' = ra_built
        BY <1>4, <3>6 DEF Ended
      <4>2. ra_pc' \in Ended /\ ra_trouble' = ra_trouble
        BY <1>4, <3>6
      <4>3. QED BY <3>1, <3>4, <3>6, <4>1, <4>2 DEF StackKnown, Ended, Early, Writing
    <3>7. CASE ra_pc \notin Ended /\ ra_pc' \notin Ended
      <4>1. \A sv \in RA!Selected : ra_known[sv] = IF sv \in DOMAIN ra_changes THEN ra_built' ELSE "old"
        BY <3>1, <3>3, <3>7 DEF StackKnown
      <4>2. QED BY <1>4, <3>1, <3>4, <3>7, <4>1 DEF StackKnown
    <3>8. QED BY <3>5, <3>6, <3>7
  <2>3. QED BY <1>k, <1>4, <2>1, <2>2 DEF RecordsKept, InStack
<1>5. QED BY <1>1, <1>2, <1>3, <1>4, RecordsMove

LEMMA RetainedStep ==
  ASSUME RetagParts, PlaceInv, KnownInv, RA!Next
  PROVE  /\ ra_pc' \notin Ended => ra_retained' = {}
         /\ ~InStack' => ra_retained' = {}
<1>t. /\ ra_at \in 1..Len(ra_Stacks) + 1 /\ ra_pc \in RetagSteps /\ (ra_pc \notin Ended => InStack)
      /\ ra_pc \notin Ended => ra_retained = {}
      /\ ~InStack => ra_retained = {}
  BY DEF RetagParts, JobTypes, PlaceInv, KnownInv
<1>1. CASE RA!Outside
  BY <1>t, <1>1 DEF RA!Outside, RA!result, InStack
<1>2. CASE ~RA!Outside
  <2>1. CASE Recording
    BY <1>t, <2>1 DEF Recording, Ended, InStack
  <2>2. CASE RA!Reconcile
    BY <1>t, <2>2 DEF RA!Reconcile, RA!Goto, Ended, InStack
  <2>3. CASE Advance
    BY <1>t, <2>3 DEF Advance, Ended
  <2>4. CASE RecordsKept /\ UNCHANGED ra_at /\ (ra_pc \in Ended => ra_pc' \in Ended)
    BY <1>t, <2>4 DEF RecordsKept, InStack
  <2>5. QED BY <1>2, <2>1, <2>2, <2>3, <2>4, RecordsMove
<1>3. QED BY <1>1, <1>2

LEMMA KnownStep ==
  ASSUME RetagShape, RetagParts, PlaceInv, RetagPlanInv, RetagServiceInv, KnownInv, RA!Next
  PROVE  KnownInv'
<1>1. ASSUME ra_outside' = 0
      PROVE  OthersKnown' /\ (InStack' => StackKnown')
  <2>1. ~RA!Outside
    BY <1>1 DEF RA!Outside, RetagParts, JobTypes
  <2>2. ra_outside = 0
    BY <1>1, <2>1, Progress
  <2>3. QED BY <2>1, <2>2, StackRecords
<1>2. QED BY <1>1, RetainedStep DEF KnownInv

(* The history is written at the end, from what was done.                    *)
LEMMA AuditStep ==
  ASSUME RetagShape, RetagParts, PlaceInv, RetagPlanInv, AuditInv, RA!Next
  PROVE  AuditInv' /\ AuditTypes'
<1>t. /\ AuditInv /\ AuditTypes /\ ra_pc \in RetagSteps /\ ra_job \in {"queued", "running", "success", "failure"}
      /\ RetagFileTypes /\ ra_retained \subseteq RA!Involved
      /\ ra_at \in 1..Len(ra_Stacks) + 1 /\ Len(ra_Stacks) \in Nat
      /\ RetagGood \subseteq RA!Involved
  <2>1. RetagGood \subseteq RA!Involved
    BY StacksAre DEF RetagGood, RetagParts, RetagFileTypes
  <2>2. QED BY <2>1, StacksAre DEF RetagParts, JobTypes, RecordTypes
<1>s. ra_pc # "done" => ra_audit.status \notin {"success", "failure"}
  BY <1>t DEF AuditInv
<1>k. ASSUME UNCHANGED ra_audit, ra_pc # "done",
             ra_pc' = "finish" /\ ra_job' # "failure" => ~InStack'
      PROVE  AuditInv' /\ AuditTypes'
  BY <1>t, <1>s, <1>k DEF AuditInv, AuditTypes
<1>1. CASE RA!Preview \/ RA!Rebuild \/ RA!Scope
  BY <1>k, <1>1 DEF RA!Preview, RA!Rebuild, RA!Scope
<1>2. CASE RA!InsertAudit
  <2>1. CASE UNCHANGED ra_audit
    BY <1>k, <1>2, <2>1 DEF RA!InsertAudit
  <2>2. CASE ra_audit' = [ra_audit EXCEPT !.status = "running"]
    <3>1. ra_audit'.status = "running" /\ AuditTypes'
      BY <1>t, <2>2 DEF AuditTypes
    <3>2. ra_pc' # "finish"
      BY <1>2 DEF RA!InsertAudit
    <3>3. QED BY <3>1, <3>2 DEF AuditInv
  <2>3. QED BY <1>2, <2>1, <2>2 DEF RA!InsertAudit
<1>3. CASE RA!Revalidate \/ RA!Backup \/ RA!Write \/ RA!Pull \/ RA!Recreate \/ RA!Health \/ RA!Record
  BY <1>k, <1>3 DEF RA!Revalidate, RA!Backup, RA!Write, RA!Pull, RA!Recreate, RA!Health, RA!Record,
     RA!Goto, RA!jobRest,
                    RA!result
<1>4. CASE RA!Commit
  <2>1. ra_pc' = "finish" => ~InStack'
    BY <1>t, <1>4 DEF RA!Commit, RA!Goto, InStack
  <2>2. QED BY <1>k, <1>4, <2>1 DEF RA!Commit
<1>5. CASE RA!Failed \/ RA!Restore \/ RA!RestoreStopped \/ RA!RestoreRunning \/ RA!Settle \/ RA!Reconcile
  BY <1>k, <1>5 DEF RA!Failed, RA!Restore, RA!RestoreStopped, RA!RestoreRunning, RA!Settle,
     RA!Reconcile, RA!Goto
<1>6. CASE RA!FinishAudit
  <2>1. CASE UNCHANGED ra_audit
    BY <1>k, <1>6, <2>1 DEF RA!FinishAudit, RA!Goto
  <2>2. CASE ra_audit' # ra_audit
    <3>1. /\ ra_audit' = [status |-> IF ra_job = "failure" THEN "failure" ELSE "success",
                          success |-> RetagGood, recorded |-> (RetagGood \cup ra_retained) \ ra_Ambiguous]
          /\ ra_pc = "finish" /\ ra_pc' = "done" /\ UNCHANGED <<ra_done, ra_retained, ra_at, ra_built>>
      BY <1>6, <2>2 DEF RA!FinishAudit, RetagGood, RA!Goto
    <3>2. RetagGood' = RetagGood
      BY <3>1 DEF RetagGood
    <3>3. AuditTypes'
      BY <1>t, <3>1 DEF AuditTypes
    <3>4. ra_built \in RA!Tagged /\ (ra_job # "failure" => ~InStack)
      BY <1>t, <3>1 DEF RetagPlanInv, AuditInv
    <3>5. QED BY <3>1, <3>2, <3>3, <3>4 DEF AuditInv, InStack
  <2>3. QED BY <2>1, <2>2
<1>7. CASE RA!Outside
  <2>1. UNCHANGED <<ra_audit, ra_pc, ra_job, ra_at, ra_done, ra_retained, ra_built>>
    BY <1>7 DEF RA!Outside, RA!result
  <2>2. RetagGood' = RetagGood
    BY <2>1 DEF RetagGood
  <2>3. QED BY <1>t, <2>1, <2>2 DEF AuditInv, AuditTypes, InStack
<1>8. QED BY <1>1, <1>2, <1>3, <1>4, <1>5, <1>6, <1>7
          DEF RA!Next, RA!Publish, RA!Edit, RA!StopService, RA!OtherRecord

-----------------------------------------------------------------------------
LEMMA RetagInvInit ==
  ASSUME RetagShape, RA!Init
  PROVE  RetagInv
<1>n. /\ Len(ra_Stacks) \in Nat \ {0} /\ DOMAIN ra_Stacks = 1..Len(ra_Stacks)
      /\ \A i \in DOMAIN ra_Stacks : /\ ra_Stacks[i] \in RA!Range(ra_Stacks)
                                     /\ ra_ServicesOf[ra_Stacks[i]] \subseteq RA!Involved
      /\ ra_Own \subseteq RA!Involved /\ ra_MaxOutside \in Nat
  BY StacksAre DEF RetagShape
<1>s. /\ ra_up \in [RA!Involved -> RetagStates] /\ ra_idle \subseteq RA!Involved
      /\ \A sv \in RA!Involved : ra_up[sv] = IF sv \in ra_idle THEN "stopped" ELSE "running"
  BY DEF RA!Init, RetagStates
<1>c. ra_changes = <<>> /\ DOMAIN ra_changes = {}
  BY DEF RA!Init
<1>1. RetagParts
  <2>1. RetagFileTypes /\ ServiceTypes
    BY <1>s DEF RA!Init, RetagFileTypes, ServiceTypes, RA!Texts
  <2>2. RecordTypes
    BY <1>c DEF RA!Init, RecordTypes, ChangesInv, Rows
  <2>3. PlanTypes
    BY <1>n DEF RA!Init, PlanTypes, RA!Tagged
  <2>4. JobTypes
    <3>1. ra_at \in 1..Len(ra_Stacks) + 1 /\ ra_outside \in 0..ra_MaxOutside
      BY <1>n DEF RA!Init
    <3>2. ra_pc \in RetagSteps /\ ra_stopped \subseteq RA!Involved /\ ra_job = "queued"
      BY DEF RA!Init, RetagSteps
    <3>3. ra_touched = FALSE /\ ra_trouble = FALSE
      BY DEF RA!Init
    <3>4. QED BY <1>s, <3>1, <3>2, <3>3 DEF JobTypes
  <2>5. AuditTypes
    BY DEF RA!Init, AuditTypes
  <2>6. QED BY <2>1, <2>2, <2>3, <2>4, <2>5 DEF RetagParts
<1>2. RetagPlanInv
  BY DEF RA!Init, RetagPlanInv
<1>3. PlaceInv
  <2>1. ra_done = {} /\ ra_at = 1 /\ 1..(ra_at - 1) = {}
    BY DEF RA!Init
  <2>2. QED BY <1>n, <2>1 DEF RA!Init, PlaceInv, InStack, Early, Writing, Returning, Ended
<1>4. RetagTextInv
  BY DEF RA!Init, RetagTextInv, RA!OldTextKept, RA!Tagged, Returning
<1>5. OwnInv
  BY DEF RA!Init, OwnInv, RA!OwnUntouched
<1>6. IdleInv
  BY <1>s DEF RA!Init, IdleInv, RA!NoSurpriseStart, Writing, Returning
<1>7. RetagServiceInv
  <2>1. \A sv \in RA!Involved : First(sv)
    BY <1>s DEF RA!Init, First
  <2>2. OthersFirst
    BY <1>n, <2>1 DEF RA!Init, OthersFirst
  <2>3. InStack => RA!Stack \in RA!Range(ra_Stacks) /\ RA!Selected \subseteq RA!Involved
    BY RetagStackIs
  <2>4. InStack => StackFirst
    BY <2>1, <2>3 DEF RA!Init, StackFirst, Writing, Returning, Ended
  <2>5. QED BY <2>2, <2>4 DEF RetagServiceInv
<1>8. KnownInv
  <2>1. \A sv \in RA!Involved : ra_known[sv] = "old"
    BY DEF RA!Init
  <2>2. OthersKnown
    BY <1>n, <2>1 DEF RA!Init, OthersKnown
  <2>3. InStack => RA!Selected \subseteq RA!Involved
    BY RetagStackIs
  <2>4. InStack => StackKnown
    BY <1>c, <2>1, <2>3 DEF RA!Init, StackKnown, Ended
  <2>5. QED BY <2>2, <2>4 DEF RA!Init, KnownInv
<1>9. AuditInv
  BY DEF RA!Init, AuditInv
<1>10. QED BY <1>1, <1>2, <1>3, <1>4, <1>5, <1>6, <1>7, <1>8, <1>9, RetagTypesAre DEF RetagInv

LEMMA RetagInvStep ==
  ASSUME RetagShape, RetagInv, [RA!Next]_(RA!vars)
  PROVE  RetagInv'
<1>t. RetagParts
  BY RetagTypesAre DEF RetagInv
<1>1. CASE RA!Next
  <2>1. RetagParts'
    BY <1>t, <1>1, FilesStep, ContainersMove, RecordsStep, PlansStep, JobsStep, AuditStep
       DEF RetagInv, RetagParts
  <2>2. RA!TypeOK' /\ ChangesInv'
    BY <2>1 DEF RA!TypeOK, RetagParts, RetagFileTypes, ServiceTypes, RecordTypes, PlanTypes,
       JobTypes,
                AuditTypes, RetagStates, Rows, RetagSteps
  <2>3. (RetagPlanInv /\ PlaceInv /\ RetagTextInv /\ OwnInv /\ IdleInv)'
    BY <1>t, <1>1, PlansStep, PlaceStep, RetagTextStep, OwnStep, IdleStep DEF RetagInv
  <2>4. (RetagServiceInv /\ KnownInv /\ AuditInv)'
    BY <1>t, <1>1, RetagServiceStep, KnownStep, AuditStep DEF RetagInv
  <2>5. QED BY <2>2, <2>3, <2>4 DEF RetagInv
<1>2. CASE UNCHANGED RA!vars
  <2> USE <1>2 DEF RA!vars, RA!world, RA!stackVars, RA!result, RA!history
  <2>1. RA!TypeOK' /\ ChangesInv'
    BY DEF RetagInv, RA!TypeOK, ChangesInv
  <2>2. (RetagPlanInv /\ PlaceInv /\ RetagTextInv /\ OwnInv /\ IdleInv)'
    BY DEF RetagInv, RetagPlanInv, PlaceInv, RetagTextInv, OwnInv, IdleInv, RA!OldTextKept,
       RA!OwnUntouched,
           RA!NoSurpriseStart, InStack, RA!Stack, RA!Selected
  <2>3. RA!Stack' = RA!Stack /\ RA!Selected' = RA!Selected /\ InStack' = InStack /\ RetagGood' = RetagGood
    BY DEF RA!Stack, RA!Selected, InStack, RetagGood
  <2>4. RetagServiceInv'
    BY <2>3 DEF RetagInv, RetagServiceInv, OthersFirst, StackFirst, First, Updated
  <2>5. KnownInv'
    BY <2>3 DEF RetagInv, KnownInv, OthersKnown, StackKnown, Recorded
  <2>6. AuditInv'
    BY <2>3 DEF RetagInv, AuditInv
  <2>7. QED BY <2>1, <2>2, <2>4, <2>5, <2>6 DEF RetagInv
<1>3. QED BY <1>1, <1>2

LEMMA RetagInvariant ==
  ASSUME RetagShape
  PROVE  RA!Spec => []RetagInv
<1>1. RA!Init => RetagInv
  BY RetagInvInit
<1>2. RetagInv /\ [RA!Next]_(RA!vars) => RetagInv'
  BY RetagInvStep
<1>3. QED BY <1>1, <1>2, PTL DEF RA!Spec

(* Every service belongs to a stack before, at or after the one of the job.  *)
LEMMA Places ==
  ASSUME RetagShape, RetagParts, PlaceInv, NEW st \in RA!Range(ra_Stacks)
  PROVE  \E i \in DOMAIN ra_Stacks :
            /\ st = ra_Stacks[i]
            /\ (i < ra_at /\ st \in ra_done) \/ (i = ra_at /\ InStack /\ st = RA!Stack) \/ i > ra_at
<1>1. /\ Len(ra_Stacks) \in Nat /\ DOMAIN ra_Stacks = 1..Len(ra_Stacks) /\ ra_at \in 1..Len(ra_Stacks) + 1
      /\ ra_done = {ra_Stacks[i] : i \in 1..(ra_at - 1)}
  BY StacksAre DEF RetagParts, JobTypes, PlaceInv
<1>2. PICK i \in 1..Len(ra_Stacks) : st = ra_Stacks[i]
  BY StacksAre
<1>3. i < ra_at => st \in ra_done
  BY <1>1, <1>2
<1>4. QED BY <1>1, <1>2, <1>3 DEF InStack, RA!Stack

LEMMA NotDone ==
  ASSUME RetagShape, RetagParts, PlaceInv, NEW i \in DOMAIN ra_Stacks, i >= ra_at
  PROVE  ra_Stacks[i] \notin ra_done /\ \A sv \in ra_ServicesOf[ra_Stacks[i]] : sv \notin RetagGood
<1>1. /\ Len(ra_Stacks) \in Nat /\ DOMAIN ra_Stacks = 1..Len(ra_Stacks) /\ ra_at \in 1..Len(ra_Stacks) + 1
      /\ ra_done = {ra_Stacks[j] : j \in 1..(ra_at - 1)}
  BY StacksAre DEF RetagParts, JobTypes, PlaceInv
<1>2. ASSUME NEW j \in 1..(ra_at - 1)
      PROVE  /\ ra_Stacks[i] # ra_Stacks[j]
             /\ \A sv \in ra_ServicesOf[ra_Stacks[i]] : sv \notin ra_ServicesOf[ra_Stacks[j]]
  <2>1. j \in 1..Len(ra_Stacks) /\ i \in 1..Len(ra_Stacks) /\ i # j
    BY <1>1, <1>2
  <2>2. QED BY <2>1, Apart
<1>3. QED BY <1>1, <1>2 DEF RetagGood

-----------------------------------------------------------------------------
(* The theorems *)

(* The job's files, records and reports stay within their types.             *)
THEOREM RetagTypes ==
  ASSUME RetagShape
  PROVE  RA!Spec => []RA!TypeOK
<1>1. RetagInv => RA!TypeOK
  BY DEF RetagInv
<1>2. QED BY <1>1, RetagInvariant, PTL

(* However a retag ends, a crash included, the text before it is in the file, *)
(* in the backup, or replaced by an editor or by a stack that has succeeded   *)
(* (_backup_compose, restore_compose_backup, _settle_retag_rollback_backup).  *)
THEOREM RetagsKeepOldText ==
  ASSUME RetagShape
  PROVE  RA!Spec => []RA!OldTextKept
<1>1. RetagInv => RA!OldTextKept
  BY DEF RetagInv, RetagTextInv
<1>2. QED BY <1>1, RetagInvariant, PTL

(* What is written is what was approved, a stopped service is started only    *)
(* with consent, and no job touches WUDup's own containers                    *)
(* (_run_retag_apply_job, _revalidate_retag_runtime_before_apply,             *)
(* validate_retag_recreate_scope), whatever happens outside of the job.       *)
THEOREM RetagsAreAsApproved ==
  ASSUME RetagShape
  PROVE  RA!Spec => [](RA!OnlyApproved /\ RA!NoSurpriseStart /\ RA!OwnUntouched)
<1>1. RetagInv => RA!OnlyApproved
  <2> SUFFICES ASSUME RetagInv, NEW st \in RA!Range(ra_Stacks), ra_file[st] \in RA!Tagged
               PROVE  ra_file[st] = ra_approved.to
    BY DEF RA!OnlyApproved
  <2>1. ra_file[st] = ra_built
    BY DEF RetagInv, RetagTextInv
  <2>2. QED BY <2>1 DEF RetagInv, RetagPlanInv, RetagShape
<1>2. RetagInv => RA!NoSurpriseStart
  BY DEF RetagInv, IdleInv
<1>3. RetagInv => RA!OwnUntouched
  BY DEF RetagInv, OwnInv, RA!OwnUntouched
<1>4. QED BY <1>1, <1>2, <1>3, RetagInvariant, PTL

(* Undisturbed, a job that does not complain about its way back leaves every  *)
(* stack entirely as the plan wants it or entirely as before                  *)
(* (_restore_retag_compose, _recreate_retag_services_stopped).                *)
THEOREM RetagsAreAllOrNothing ==
  ASSUME RetagShape
  PROVE  RA!Spec => []RA!AllOrNothing
<1>1. ASSUME RetagInv
      PROVE  RA!AllOrNothing
  <2>1. SUFFICES ASSUME ra_pc = "done", ~ra_trouble, ra_outside = 0,
                        NEW st \in RA!Range(ra_Stacks), NEW sv \in ra_ServicesOf[st]
                 PROVE  IF st \in ra_done
                        THEN ra_file[st] = ra_built /\ ra_img[sv] = ra_built /\ ra_up[sv] = "running"
                        ELSE /\ ra_file[st] = "old" /\ ra_img[sv] = "old"
                             /\ ra_up[sv] = IF sv \in ra_idle THEN "stopped" ELSE "running"
    BY DEF RA!AllOrNothing
  <2>2. RetagParts /\ PlaceInv /\ OthersFirst /\ (InStack => StackFirst)
    BY <1>1, <2>1, RetagTypesAre DEF RetagInv, RetagServiceInv
  <2>3. CASE st \in ra_done
    BY <2>2, <2>3 DEF OthersFirst, Updated
  <2>4. CASE st \notin ra_done
    <3>1. PICK i \in DOMAIN ra_Stacks : st = ra_Stacks[i] /\ ((InStack /\ st = RA!Stack) \/ i > ra_at)
      BY <2>2, <2>4, Places
    <3>2. ra_file[st] = "old" /\ First(sv)
      BY <2>1, <2>2, <3>1 DEF OthersFirst, StackFirst, RA!Selected, Ended
    <3>3. QED BY <2>4, <3>2 DEF First
  <2>5. QED BY <2>3, <2>4
<1>2. QED BY <1>1, RetagInvariant, PTL

(* Undisturbed, the known images say what the files say unless the error says *)
(* that they do not (_reconcile_retag_known_images), and the history names    *)
(* the services that were updated and the records that were written           *)
(* (_finish_retag_audit_run).                                                 *)
THEOREM RetagRecordsAreTrue ==
  ASSUME RetagShape
  PROVE  RA!Spec => [](RA!RecordsAgree /\ RA!HistoryAgrees)
<1>v. "old" \notin RA!Tagged
  BY DEF RA!Tagged
<1>1. ASSUME RetagInv
      PROVE  RA!RecordsAgree
  <2>1. SUFFICES ASSUME ra_pc = "done", ~ra_trouble, ra_outside = 0,
                        NEW st \in RA!Range(ra_Stacks), NEW sv \in ra_ServicesOf[st] \ ra_Ambiguous
                 PROVE  ra_known[sv] = ra_file[st]
    BY DEF RA!RecordsAgree
  <2>2. /\ RetagParts /\ PlaceInv /\ OthersFirst /\ (InStack => StackFirst)
        /\ OthersKnown /\ (InStack => StackKnown)
    BY <1>1, <2>1, RetagTypesAre DEF RetagInv, RetagServiceInv, KnownInv
  <2>3. CASE st \in ra_done
    BY <2>1, <2>2, <2>3 DEF OthersFirst, OthersKnown, Recorded
  <2>4. CASE st \notin ra_done
    <3>1. PICK i \in DOMAIN ra_Stacks : st = ra_Stacks[i] /\ ((InStack /\ st = RA!Stack) \/ i > ra_at)
      BY <2>2, <2>4, Places
    <3>2. ra_file[st] = "old"
      BY <2>1, <2>2, <3>1 DEF OthersFirst, StackFirst, Ended
    <3>3. ra_known[sv] = "old"
      BY <2>1, <2>2, <3>1 DEF OthersKnown, StackKnown, RA!Selected, Ended
    <3>4. QED BY <3>2, <3>3
  <2>5. QED BY <2>3, <2>4
<1>2. ASSUME RetagInv
      PROVE  RA!HistoryAgrees
  <2>1. SUFFICES ASSUME ra_pc = "done", ra_audit.status \in {"success", "failure"}, ra_outside = 0
                 PROVE  /\ ra_audit.recorded = {sv \in RA!Involved : ra_known[sv] \in RA!Tagged}
                        /\ \A sv \in ra_audit.success : ra_img[sv] = ra_built
                        /\ ra_audit.status = "success" => ra_audit.success = RA!Involved
    BY DEF RA!HistoryAgrees
  <2>2. /\ RetagParts /\ PlaceInv /\ OthersFirst /\ OthersKnown /\ (InStack => StackKnown)
        /\ ~InStack => ra_retained = {}
        /\ ra_audit.success = RetagGood /\ ra_audit.recorded = (RetagGood \cup ra_retained) \ ra_Ambiguous
        /\ ra_audit.status = "success" => ~InStack
        /\ ra_built \in RA!Tagged
    BY <1>2, <2>1, RetagTypesAre DEF RetagInv, RetagServiceInv, KnownInv, AuditInv
  <2>3. \A sv \in RetagGood : ra_img[sv] = ra_built
    BY <2>2 DEF RetagGood, OthersFirst, Updated
  <2>4. RetagGood \subseteq RA!Involved /\ ra_retained \subseteq RA!Involved
    BY <2>2, StacksAre DEF RetagGood, RetagParts, RetagFileTypes, RecordTypes
  <2>5. ASSUME NEW sv \in RA!Involved
        PROVE  sv \in (RetagGood \cup ra_retained) \ ra_Ambiguous <=> ra_known[sv] \in RA!Tagged
    <3>1. PICK st \in RA!Range(ra_Stacks) : sv \in ra_ServicesOf[st]
      BY <2>5 DEF RA!Involved
    <3>2. PICK i \in DOMAIN ra_Stacks :
            /\ st = ra_Stacks[i]
            /\ (i < ra_at /\ st \in ra_done) \/ (i = ra_at /\ InStack /\ st = RA!Stack) \/ i > ra_at
      BY <2>2, Places
    <3>3. i \in Int /\ ra_at \in Int
      BY <2>2, StacksAre DEF RetagParts, JobTypes
    <3>4. CASE st \in ra_done
      <4>1. sv \in RetagGood
        BY <3>1, <3>4 DEF RetagGood
      <4>2. ra_known[sv] = IF sv \in ra_Ambiguous THEN "old" ELSE ra_built
        BY <2>2, <3>1, <3>4 DEF OthersKnown, Recorded
      <4>3. QED BY <1>v, <2>2, <4>1, <4>2
    <3>5. CASE i = ra_at /\ InStack /\ st = RA!Stack
      <4>1. sv \notin RetagGood
        <5>1. i >= ra_at
          BY <3>3, <3>5
        <5>2. QED BY <2>2, <3>1, <3>2, <5>1, NotDone
      <4>2. /\ ra_known[sv] = IF sv \in ra_retained THEN ra_built ELSE "old"
            /\ ra_retained \cap ra_Ambiguous = {}
        BY <2>1, <2>2, <3>1, <3>5 DEF StackKnown, RA!Selected, Ended
      <4>3. QED BY <1>v, <2>2, <4>1, <4>2
    <3>6. CASE i > ra_at
      <4>1. sv \notin RetagGood
        BY <2>2, <3>1, <3>2, <3>3, <3>6, NotDone
      <4>2. sv \notin ra_retained
        <5>1. CASE ~InStack
          BY <2>2, <5>1
        <5>2. CASE InStack
          <6>1. i \in 1..Len(ra_Stacks) /\ ra_at \in 1..Len(ra_Stacks) /\ i # ra_at
            BY <3>3, <3>6, <5>2, StacksAre DEF InStack
          <6>2. sv \notin RA!Selected
            BY <3>1, <3>2, <6>1, Apart DEF RA!Selected, RA!Stack
          <6>3. QED BY <2>2, <5>2, <6>2 DEF StackKnown
        <5>3. QED BY <5>1, <5>2
      <4>3. ra_known[sv] = "old"
        BY <2>2, <3>1, <3>2, <3>6 DEF OthersKnown
      <4>4. QED BY <1>v, <4>1, <4>2, <4>3
    <3>7. QED BY <3>2, <3>4, <3>5, <3>6
  <2>6. ~InStack => RetagGood = RA!Involved
    <3>1. SUFFICES ASSUME ~InStack, NEW sv \in RA!Involved
                   PROVE  sv \in RetagGood
      BY <2>4
    <3>2. PICK st \in RA!Range(ra_Stacks) : sv \in ra_ServicesOf[st]
      BY DEF RA!Involved
    <3>3. Len(ra_Stacks) \in Nat /\ ra_at = Len(ra_Stacks) + 1 /\ DOMAIN ra_Stacks = 1..Len(ra_Stacks)
      BY <2>2, <3>1, StacksAre DEF InStack, RetagParts, JobTypes
    <3>4. PICK i \in DOMAIN ra_Stacks :
            /\ st = ra_Stacks[i]
            /\ (i < ra_at /\ st \in ra_done) \/ (i = ra_at /\ InStack /\ st = RA!Stack) \/ i > ra_at
      BY <2>2, Places
    <3>5. st \in ra_done
      BY <3>1, <3>3, <3>4
    <3>6. QED BY <3>2, <3>5 DEF RetagGood
  <2>7. ra_audit.recorded = {sv \in RA!Involved : ra_known[sv] \in RA!Tagged}
    BY <2>2, <2>4, <2>5
  <2>8. QED BY <2>2, <2>3, <2>6, <2>7
<1>3. QED BY <1>1, <1>2, RetagInvariant, PTL

(* No step of the job, its way back included, overwrites what an editor has   *)
(* saved (expected_source_hash, restore_compose_backup).                      *)
THEOREM RetagsKeepEdits ==
  ASSUME RetagShape
  PROVE  RA!Spec => RA!EditsKept
<1>1. RetagInv /\ [RA!Next]_(RA!vars) =>
               [\A st \in RA!Range(ra_Stacks) : ra_file[st] = "edited" => ra_file'[st] = "edited"]_(RA!vars)
  <2> SUFFICES ASSUME RetagInv, RA!Next, NEW st \in RA!Range(ra_Stacks), ra_file[st] = "edited"
               PROVE  ra_file'[st] = "edited"
    BY DEF RA!vars
  <2>1. RetagParts /\ RetagFileTypes /\ PlaceInv /\ RetagPlanInv /\ "edited" \notin RA!Tagged
    BY RetagTypesAre DEF RetagInv, RetagParts, RA!Tagged
  <2>2. CASE FilesKept
    BY <2>2 DEF FilesKept
  <2>3. CASE FileEdited
    BY <2>1, <2>3 DEF FileEdited, RetagFileTypes
  <2>4. CASE FileWritten
    BY <2>1, <2>4 DEF FileWritten, RetagFileTypes
  <2>5. CASE FileRestored
    <3>1. ra_written \in RA!Tagged
      BY <2>1, <2>5 DEF FileRestored, PlaceInv, RetagParts, PlanTypes
    <3>2. st # RA!Stack
      BY <2>1, <2>5, <3>1 DEF FileRestored
    <3>3. QED BY <2>1, <2>5, <3>2 DEF FileRestored, RetagFileTypes
  <2>6. QED BY <2>1, <2>2, <2>3, <2>4, <2>5, FilesMove
<1>2. QED BY <1>1, RetagInvariant, PTL DEF RA!Spec, RA!EditsKept

(* A record that somebody else has written since is not rolled back           *)
(* (_restore_retag_known_images).                                             *)
THEOREM NewerRecordsAreKept ==
  ASSUME RetagShape
  PROVE  RA!Spec => RA!NewerRecordsKept
<1>1. RetagInv /\ [RA!Next]_(RA!vars) =>
               [\A sv \in RA!Involved :
                    ra_known[sv] = "other" /\ ra_pc # "record" => ra_known'[sv] = "other"]_(RA!vars)
  <2> SUFFICES ASSUME RetagInv, RA!Next, NEW sv \in RA!Involved, ra_known[sv] = "other", ra_pc # "record"
               PROVE  ra_known'[sv] = "other"
    BY DEF RA!vars
  <2>1. RetagParts /\ RetagPlanInv
    BY RetagTypesAre DEF RetagInv
  <2>2. CASE RA!Outside
    BY <2>1, <2>2, OutsideIs DEF RA!Publish, RA!Edit, RA!StopService, RA!OtherRecord, RetagParts,
       RecordTypes
  <2>3. CASE ~RA!Outside
    <3>1. CASE RA!Reconcile
      <4>1. ra_built # "other"
        BY <2>1, <3>1 DEF RA!Reconcile, RetagPlanInv, RA!Tagged
      <4>2. ra_known' = ra_known \/ ra_known' = RA!RestoreRows
        BY <3>1 DEF RA!Reconcile
      <4>3. QED BY <4>1, <4>2 DEF RA!RestoreRows
    <3>2. CASE Advance \/ RecordsKept
      BY <3>2 DEF Advance, RecordsKept
    <3>3. QED BY <2>1, <2>3, <3>1, <3>2, RecordsMove DEF Recording
  <2>4. QED BY <2>2, <2>3
<1>2. QED BY <1>1, RetagInvariant, PTL DEF RA!Spec, RA!NewerRecordsKept

-----------------------------------------------------------------------------
(****************************************************************************)
(* TagExclusions                                                            *)
(****************************************************************************)

(* A planned pair is written, or its stack failed or is still to come; a line *)
(* that is planned at all is planned for every service that it names.         *)
Written(u) == te_TagOf[u[2]] \in TE!Excluded(te_label[u[1]])
Failing(u) == <<TE!StackOf(u[1]), u[2]>> \in te_failed
ExcludePlanInv ==
    /\ \A u \in te_updates : te_Matches[u[2]] \X {u[2]} \subseteq te_updates
    /\ te_pc = "write" =>
              \A u \in te_updates : TE!StackOf(u[1]) \in te_todo \/ Failing(u) \/ Written(u)
    /\ te_pc \in {"recreate", "mark"} => \A u \in te_updates : Failing(u) \/ Written(u)

(* Only stacks with something to recreate come, and a service that lost its   *)
(* network is of a stack that failed.                                         *)
NetworkInv ==
    /\ te_pc = "recreate" => te_todo \subseteq {TE!StackOf(u[1]) : u \in te_applied}
    /\ te_pc # "idle" => \A sv \in te_lost : \E l \in TE!Lines : <<TE!StackOf(sv), l>> \in te_failed

ExclusionInv == TE!TypeOK /\ ExcludePlanInv /\ NetworkInv /\ TE!ResolvedMeansExcluded

-----------------------------------------------------------------------------
LEMMA ExcludeStackIs ==
  ASSUME ExclusionShape
  PROVE  /\ \A sv \in TE!Existing : TE!StackOf(sv) \in te_Stacks /\ sv \in te_ServicesOf[TE!StackOf(sv)]
         /\ \A st \in te_Stacks : \A sv \in te_ServicesOf[st] : sv \in TE!Existing /\ TE!StackOf(sv) = st
<1>1. \A sv \in TE!Existing : TE!StackOf(sv) \in te_Stacks /\ sv \in te_ServicesOf[TE!StackOf(sv)]
  BY DEF TE!Existing, TE!StackOf
<1>2. \A st \in te_Stacks : \A sv \in te_ServicesOf[st] : sv \in TE!Existing
  BY DEF TE!Existing
<1>3. ASSUME NEW st \in te_Stacks, NEW sv \in te_ServicesOf[st]
      PROVE  TE!StackOf(sv) = st
  BY <1>1, <1>2 DEF ExclusionShape
<1> QED
  BY <1>1, <1>2, <1>3

LEMMA RangeIs ==
  ASSUME NEW T, NEW s \in Seq(T), NEW t \in T
  PROVE  /\ TE!Range(Append(s, t)) = TE!Range(s) \cup {t}
         /\ TE!Range(<<t>>) = {t} /\ Append(s, t) \in Seq(T) /\ <<t>> \in Seq(T)
<1>1. /\ Append(s, t) \in Seq(T) /\ Len(Append(s, t)) = Len(s) + 1 /\ Len(s) \in Nat
      /\ \A i \in 1..Len(s) : Append(s, t)[i] = s[i]
      /\ Append(s, t)[Len(s) + 1] = t /\ DOMAIN s = 1..Len(s)
      /\ DOMAIN Append(s, t) = 1..(Len(s) + 1)
  OBVIOUS
<1>2. 1..(Len(s) + 1) = (1..Len(s)) \cup {Len(s) + 1}
  BY <1>1
<1>3. TE!Range(Append(s, t)) = {Append(s, t)[i] : i \in (1..Len(s)) \cup {Len(s) + 1}}
  BY <1>1, <1>2 DEF TE!Range
<1>4. TE!Range(s) = {s[i] : i \in 1..Len(s)}
  BY <1>1 DEF TE!Range
<1>5. TE!Range(Append(s, t)) = TE!Range(s) \cup {t}
  BY <1>1, <1>3, <1>4
<1>6. <<t>> \in Seq(T) /\ DOMAIN <<t>> = {1} /\ <<t>>[1] = t
  OBVIOUS
<1>7. TE!Range(<<t>>) = {t}
  BY <1>6 DEF TE!Range
<1> QED
  BY <1>1, <1>5, <1>6, <1>7

Parts == SUBSET (TE!Tags \cup {"user"})

(* Merging drops no alternative, and adds the managed one. *)
LEMMA MergeKeeps ==
  ASSUME NEW c \in TE!Labels, NEW p \in Parts, NEW n \in Parts, p \subseteq n
  PROVE  /\ TE!Merge(c, p, n) \in TE!Labels
         /\ TE!Excluded(c) \subseteq TE!Excluded(TE!Merge(c, p, n))
         /\ n \subseteq TE!Excluded(TE!Merge(c, p, n))
<1> DEFINE T == Parts
<1>0. c \in Seq(T) /\ TE!Labels = Seq(T)
  BY DEF TE!Labels, Parts
<1> HIDE DEF T
<1>1. /\ TE!Range(Append(c, n)) = TE!Range(c) \cup {n} /\ TE!Range(<<n>>) = {n}
      /\ Append(c, n) \in Seq(T) /\ <<n>> \in Seq(T) /\ TE!Range(<<p>>) = {p}
  BY <1>0, RangeIs DEF T
<1>2. TE!Range(<<>>) = {}
  BY DEF TE!Range
<1>3. CASE c = <<>>
  <2>1. TE!Merge(c, p, n) = <<n>>
    BY <1>3 DEF TE!Merge
  <2> QED
    BY <1>0, <1>1, <1>2, <1>3, <2>1 DEF TE!Excluded
<1>4. CASE c # <<>> /\ c = <<p>>
  <2>1. TE!Merge(c, p, n) = <<n>>
    BY <1>4 DEF TE!Merge
  <2> QED
    BY <1>0, <1>1, <1>4, <2>1 DEF TE!Excluded
<1>5. CASE c # <<>> /\ c # <<p>> /\ c = <<n>>
  <2>1. TE!Merge(c, p, n) = c
    BY <1>5 DEF TE!Merge
  <2> QED
    BY <1>0, <1>1, <1>5, <2>1 DEF TE!Excluded
<1>6. CASE c # <<>> /\ c # <<p>> /\ c # <<n>>
  <2>1. TE!Merge(c, p, n) = Append(c, n)
    BY <1>6 DEF TE!Merge
  <2> QED
    BY <1>0, <1>1, <2>1 DEF TE!Excluded
<1> QED
  BY <1>3, <1>4, <1>5, <1>6

-----------------------------------------------------------------------------
(* What a write does to the labels. *)
Mine(st) == {u[1] : u \in TE!OfStack(st, te_updates)}
LEMMA Writes ==
  ASSUME ExclusionShape, TE!TypeOK, NEW st \in te_Stacks, TE!WriteStack(st)
  PROVE  /\ te_label' \in [TE!Existing -> TE!Labels] /\ te_rules' \in [TE!Existing -> SUBSET TE!Tags]
         /\ te_applied' \subseteq te_updates /\ te_failed' \subseteq te_Stacks \X TE!Lines
         /\ te_failed \subseteq te_failed'
         /\ \A sv \in TE!Existing : TE!Excluded(te_label[sv]) \subseteq TE!Excluded(te_label'[sv])
         /\ \A sv \in TE!Existing : TE!StackOf(sv) # st \/ TE!Refused(st) => te_label'[sv] = te_label[sv]
         /\ \A u \in TE!OfStack(st, te_updates) :
                <<st, u[2]>> \in te_failed' \/ te_TagOf[u[2]] \in TE!Excluded(te_label'[u[1]])
<1> USE DEF TE!OfStack
<1>0. /\ Mine(st) \subseteq TE!Existing /\ \A sv \in Mine(st) : TE!StackOf(sv) = st
      /\ te_updates \subseteq TE!Existing \X TE!Lines
  BY DEF Mine, TE!TypeOK
<1>1. CASE /\ TE!FailStack(st, te_updates) /\ UNCHANGED <<te_label, te_rules, te_applied>>
  <2>1. te_failed' = te_failed \cup {<<st, u[2]>> : u \in TE!OfStack(st, te_updates)}
    BY <1>1 DEF TE!FailStack
  <2>2. \A u \in TE!OfStack(st, te_updates) : u[2] \in TE!Lines /\ <<st, u[2]>> \in te_failed'
    BY <2>1, <1>0
  <2>3. te_failed' \subseteq te_Stacks \X TE!Lines /\ te_failed \subseteq te_failed'
    BY <2>1, <2>2 DEF TE!TypeOK
  <2> QED
    BY <1>1, <2>2, <2>3 DEF TE!TypeOK
<1>2. CASE /\ ~TE!Refused(st)
           /\ te_label' = [sv \in TE!Existing |-> IF sv \in Mine(st)
                              THEN TE!Merge(te_label[sv], te_rules[sv], TE!NextManaged(sv)) ELSE te_label[sv]]
           /\ te_rules' = [sv \in TE!Existing |->
                              IF sv \in Mine(st) THEN te_rules[sv] \cup TE!NewTags(sv) ELSE te_rules[sv]]
           /\ te_applied' \subseteq te_applied \cup te_updates
           /\ UNCHANGED te_failed
  <2>1. \A sv \in TE!Existing : TE!NewTags(sv) \subseteq TE!Tags
    BY <1>0 DEF TE!NewTags, TE!Tags
  <2>2. \A sv \in TE!Existing : te_rules[sv] \subseteq TE!Tags /\ te_label[sv] \in TE!Labels
    BY DEF TE!TypeOK
  <2>3. ASSUME NEW sv \in TE!Existing
        PROVE  /\ TE!Merge(te_label[sv], te_rules[sv], TE!NextManaged(sv)) \in TE!Labels
               /\ TE!Excluded(te_label[sv]) \subseteq
                    TE!Excluded(TE!Merge(te_label[sv], te_rules[sv], TE!NextManaged(sv)))
               /\ TE!NextManaged(sv) \subseteq
                    TE!Excluded(TE!Merge(te_label[sv], te_rules[sv], TE!NextManaged(sv)))
    <3>1. te_rules[sv] \in Parts /\ TE!NextManaged(sv) \in Parts /\ te_rules[sv] \subseteq TE!NextManaged(sv)
      BY <2>1, <2>2 DEF Parts, TE!NextManaged
    <3> QED
      BY <3>1, <2>2, MergeKeeps
  <2>4. \A u \in TE!OfStack(st, te_updates) :
            u[1] \in Mine(st) /\ te_TagOf[u[2]] \in TE!NewTags(u[1]) /\ u[1] \in TE!Existing
    BY <1>0 DEF Mine, TE!NewTags
  <2>5. \A u \in TE!OfStack(st, te_updates) : te_TagOf[u[2]] \in TE!Excluded(te_label'[u[1]])
    BY <2>3, <2>4, <1>2 DEF TE!NextManaged
  <2>6. te_label' \in [TE!Existing -> TE!Labels]
    BY <2>2, <2>3, <1>2
  <2>7. te_rules' \in [TE!Existing -> SUBSET TE!Tags]
    BY <2>1, <2>2, <1>2
  <2>8. \A sv \in TE!Existing : TE!Excluded(te_label[sv]) \subseteq TE!Excluded(te_label'[sv])
    BY <2>3, <1>2
  <2>9. \A sv \in TE!Existing : TE!StackOf(sv) # st \/ TE!Refused(st) => te_label'[sv] = te_label[sv]
    BY <1>0, <1>2
  <2> QED
    BY <2>5, <2>6, <2>7, <2>8, <2>9, <1>2 DEF TE!TypeOK
<1>3. \/ /\ TE!FailStack(st, te_updates) /\ UNCHANGED <<te_label, te_rules, te_applied>>
      \/ /\ ~TE!Refused(st)
         /\ te_label' = [sv \in TE!Existing |-> IF sv \in Mine(st)
                            THEN [x \in Mine(st) |-> TE!Merge(te_label[x], te_rules[x], TE!NextManaged(x))][sv]
                            ELSE te_label[sv]]
         /\ te_rules' = [sv \in TE!Existing |->
                            IF sv \in Mine(st) THEN te_rules[sv] \cup TE!NewTags(sv) ELSE te_rules[sv]]
         /\ te_applied' \subseteq te_applied \cup te_updates
         /\ UNCHANGED te_failed
  BY DEF TE!WriteStack, Mine
<1> QED
  BY <1>1, <1>2, <1>3

-----------------------------------------------------------------------------
LEMMA ExpandIs ==
  ASSUME NEW S \in SUBSET TE!Existing
  PROVE  /\ S \subseteq TE!Expand(S) /\ TE!Expand(S) \subseteq TE!Existing
         /\ TE!Consumers(TE!Expand(S)) \subseteq TE!Expand(S)
<1>1. S \subseteq TE!Expand(S) /\ TE!Expand(S) \subseteq TE!Existing
  BY DEF TE!Expand
<1>2. ASSUME NEW sv \in TE!Consumers(TE!Expand(S)), NEW T \in SUBSET TE!Existing,
             S \subseteq T, TE!Consumers(T) \subseteq T
      PROVE  sv \in T
  <2>1. sv \in TE!Existing /\ sv \in DOMAIN te_Provider /\ te_Provider[sv] \in TE!Expand(S)
    BY <1>2 DEF TE!Consumers
  <2>2. te_Provider[sv] \in T
    BY <1>2, <2>1 DEF TE!Expand
  <2> QED
    BY <1>2, <2>1, <2>2 DEF TE!Consumers
<1>3. \A sv \in TE!Consumers(TE!Expand(S)) : sv \in TE!Existing
  BY DEF TE!Consumers
<1> QED
  BY <1>1, <1>2, <1>3 DEF TE!Expand

LEMMA ExpandStays ==
  ASSUME ExclusionShape, NEW st \in te_Stacks, NEW S \in SUBSET te_ServicesOf[st]
  PROVE  /\ TE!Expand(S) \subseteq te_ServicesOf[st] /\ TE!Missing(S) \subseteq te_ServicesOf[st]
         /\ \A T \in SUBSET te_ServicesOf[st] : TE!Consumers(T) \subseteq te_ServicesOf[st]
<1>1. te_ServicesOf[st] \subseteq TE!Existing /\ \A sv \in te_ServicesOf[st] : TE!StackOf(sv) = st
  BY ExcludeStackIs
<1>2. ASSUME NEW T \in SUBSET te_ServicesOf[st]
      PROVE  TE!Consumers(T) \subseteq te_ServicesOf[st]
  <2>1. SUFFICES ASSUME NEW sv \in TE!Consumers(T)
                 PROVE  sv \in te_ServicesOf[st]
    OBVIOUS
  <2>2. sv \in TE!Existing /\ sv \in DOMAIN te_Provider /\ te_Provider[sv] \in te_ServicesOf[st]
    BY DEF TE!Consumers
  <2>3. te_Provider[sv] \in te_ServicesOf[TE!StackOf(sv)] /\ TE!StackOf(sv) \in te_Stacks
    BY <2>2, ExcludeStackIs DEF ExclusionShape
  <2>4. TE!StackOf(sv) = st
    BY <2>2, <2>3, ExcludeStackIs
  <2> QED
    BY <2>2, <2>4, ExcludeStackIs
<1>3. TE!Expand(S) \subseteq te_ServicesOf[st]
  BY <1>1, <1>2 DEF TE!Expand
<1>4. TE!Missing(S) \subseteq te_ServicesOf[st]
  BY <1>1 DEF TE!Missing, ExclusionShape
<1> QED
  BY <1>2, <1>3, <1>4

(* What a recreation does to the networks. *)
LEMMA Recreates ==
  ASSUME ExclusionShape, TE!TypeOK, NetworkInv, NEW st \in te_Stacks, TE!RecreateStack(st)
  PROVE  /\ te_carried' \in [TE!Existing -> TE!Labels] /\ te_lost' \subseteq TE!Existing
         /\ te_failed' \subseteq te_Stacks \X TE!Lines /\ te_failed \subseteq te_failed' /\ te_up' = te_up
         /\ \A sv \in te_lost' : \E l \in TE!Lines : <<TE!StackOf(sv), l>> \in te_failed'
<1> DEFINE changed == {u[1] : u \in TE!OfStack(st, te_applied)}
           S == TE!Expand(changed) \cup TE!Missing(changed)
<1>1. changed \in SUBSET te_ServicesOf[st]
  BY ExcludeStackIs DEF TE!TypeOK, TE!OfStack
<1>2. te_ServicesOf[st] \subseteq TE!Existing /\ \A sv \in te_ServicesOf[st] : TE!StackOf(sv) = st
  BY ExcludeStackIs
<1>3. S \subseteq te_ServicesOf[st]
  BY <1>1, ExpandStays
<1>4. \A T \in SUBSET S : TE!Recreated(T) =>
          /\ te_carried' \in [TE!Existing -> TE!Labels]
          /\ te_lost' = (te_lost \ T) \cup ((TE!Consumers(T \cap te_up) \cap te_up) \ T)
  BY DEF TE!Recreated, TE!TypeOK
<1>5. te_pc = "recreate" /\ st \in te_todo
  BY DEF TE!RecreateStack
<1>6. PICK u \in te_applied : TE!StackOf(u[1]) = st
  BY <1>5 DEF NetworkInv
<1>7. u[2] \in TE!Lines
  BY <1>6 DEF TE!TypeOK
<1>8. \A sv \in te_lost : \E l \in TE!Lines : <<TE!StackOf(sv), l>> \in te_failed
  BY <1>5 DEF NetworkInv
<1>9. te_lost \subseteq TE!Existing /\ te_failed \subseteq te_Stacks \X TE!Lines
  BY DEF TE!TypeOK
<1>10. CASE TE!Recreated(S) /\ te_up' = te_up \cup TE!Started(S) /\ UNCHANGED te_failed
  <2>1. te_up' = te_up
    BY <1>10 DEF TE!Started
  <2>2. S \cap te_up \subseteq TE!Expand(changed)
    BY DEF TE!Missing
  <2>3. TE!Consumers(S \cap te_up) \subseteq TE!Consumers(TE!Expand(changed))
    BY <2>2 DEF TE!Consumers
  <2>4. TE!Consumers(S \cap te_up) \subseteq S
    BY <2>3, <1>1, <1>2, ExpandIs
  <2>5. te_lost' = te_lost \ S /\ te_carried' \in [TE!Existing -> TE!Labels]
    <3>1. /\ te_lost' = (te_lost \ S) \cup ((TE!Consumers(S \cap te_up) \cap te_up) \ S)
          /\ te_carried' \in [TE!Existing -> TE!Labels]
      BY <1>10 DEF TE!Recreated, TE!TypeOK
    <3> HIDE DEF S
    <3> QED
      BY <2>4, <3>1
  <2> QED
    BY <2>1, <2>5, <1>8, <1>9, <1>10
<1>11. CASE /\ TE!FailStack(st, te_applied) /\ UNCHANGED te_up
            /\ \E T \in SUBSET S : TE!Recreated(T)
  <2>1. te_failed' = te_failed \cup {<<st, x[2]>> : x \in TE!OfStack(st, te_applied)}
    BY <1>11 DEF TE!FailStack
  <2>2. <<st, u[2]>> \in te_failed'
    BY <2>1, <1>6 DEF TE!OfStack
  <2>3. te_failed' \subseteq te_Stacks \X TE!Lines /\ te_failed \subseteq te_failed'
    BY <2>1, <1>9 DEF TE!OfStack, TE!TypeOK
  <2>4. PICK T \in SUBSET S : TE!Recreated(T)
    BY <1>11
  <2>5. T \cap te_up \in SUBSET te_ServicesOf[st]
    BY <1>3
  <2>6. TE!Consumers(T \cap te_up) \subseteq te_ServicesOf[st]
    BY <2>5, <1>1, ExpandStays
  <2>7. /\ te_lost' = (te_lost \ T) \cup ((TE!Consumers(T \cap te_up) \cap te_up) \ T)
        /\ te_carried' \in [TE!Existing -> TE!Labels]
    BY <2>4, <1>4
  <2>8. \A sv \in te_lost' : sv \in te_lost \/ sv \in te_ServicesOf[st]
    BY <2>6, <2>7
  <2>9. \A sv \in te_lost' : \E l \in TE!Lines : <<TE!StackOf(sv), l>> \in te_failed'
    BY <2>8, <2>2, <2>3, <1>2, <1>7, <1>8
  <2>10. te_lost' \subseteq TE!Existing
    BY <2>8, <1>2, <1>9
  <2> QED
    BY <2>3, <2>7, <2>9, <2>10, <1>11
<1>12. \/ TE!Recreated(S) /\ te_up' = te_up \cup TE!Started(S) /\ UNCHANGED te_failed
       \/ TE!FailStack(st, te_applied) /\ UNCHANGED te_up /\ \E T \in SUBSET S : TE!Recreated(T)
  BY DEF TE!RecreateStack
<1> QED
  BY <1>10, <1>11, <1>12

-----------------------------------------------------------------------------
LEMMA ExclusionInit ==
  ASSUME ExclusionShape, TE!Init
  PROVE  ExclusionInv
<1>1. te_label \in [TE!Existing -> TE!Labels]
  <2>1. <<>> \in TE!Labels /\ <<{"user"}>> \in TE!Labels
    <3>1. {"user"} \in SUBSET (TE!Tags \cup {"user"})
      OBVIOUS
    <3> QED
      BY <3>1 DEF TE!Labels
  <2> QED
    BY <2>1 DEF TE!Init
<1>2. te_up \subseteq TE!Existing
  BY DEF TE!Init
<1>3. TE!TypeOK
  <2>1. te_label \in [TE!Existing -> TE!Labels] /\ te_carried \in [TE!Existing -> TE!Labels]
    BY <1>1 DEF TE!Init
  <2>2. te_rules \in [TE!Existing -> SUBSET TE!Tags] /\ te_runs \in 0..te_MaxRuns
    BY DEF TE!Init, ExclusionShape
  <2> QED
    BY <1>2, <2>1, <2>2 DEF TE!Init, TE!TypeOK
<1> QED
  BY <1>3 DEF TE!Init, ExclusionInv, ExcludePlanInv, NetworkInv, TE!ResolvedMeansExcluded

LEMMA PlannedIs ==
  ASSUME ExclusionShape, NEW l \in TE!Lines
  PROVE  TE!Planned(l) \subseteq TE!Existing /\ (TE!Planned(l) # {} => te_Matches[l] \subseteq TE!Planned(l))
<1>1. TE!SameRepo(l) \subseteq TE!Existing /\ te_Matches[l] \subseteq TE!SameRepo(l)
  BY DEF TE!SameRepo, ExclusionShape
<1> QED
  BY <1>1 DEF TE!Planned, ExclusionShape

LEMMA ExcludeExclusionStep ==
  ASSUME ExclusionShape, ExclusionInv, [TE!Next]_(TE!vars)
  PROVE  ExclusionInv'
<1>0. TE!TypeOK /\ ExcludePlanInv /\ NetworkInv /\ TE!ResolvedMeansExcluded
  BY DEF ExclusionInv
<1>1. CASE TE!StartRun
  <2>1. PICK L \in SUBSET te_pending : te_updates' = UNION {TE!Planned(l) \X {l} : l \in L}
    BY <1>1 DEF TE!StartRun
  <2>2. L \subseteq TE!Lines
    BY <1>0 DEF TE!TypeOK
  <2>3. te_updates' \subseteq TE!Existing \X TE!Lines
    BY <2>1, <2>2, PlannedIs
  <2>4. \A u \in te_updates' : te_Matches[u[2]] \X {u[2]} \subseteq te_updates'
    <3>1. SUFFICES ASSUME NEW u \in te_updates', NEW sv \in te_Matches[u[2]]
                   PROVE  <<sv, u[2]>> \in te_updates'
      OBVIOUS
    <3>2. PICK l \in L : u \in TE!Planned(l) \X {l}
      BY <2>1
    <3>3. u[2] = l /\ TE!Planned(l) # {} /\ l \in TE!Lines
      BY <3>2, <2>2
    <3>4. sv \in TE!Planned(l)
      BY <3>3, PlannedIs
    <3> QED
      BY <3>3, <3>4, <2>1
  <2>5. te_todo' = {TE!StackOf(u[1]) : u \in te_updates'} /\ te_todo' \subseteq te_Stacks
    BY <1>1, <2>3, ExcludeStackIs DEF TE!StartRun
  <2>6. te_runs' \in 0..te_MaxRuns
    BY <1>1, <1>0 DEF TE!StartRun, TE!TypeOK, ExclusionShape
  <2>7. /\ te_recreate' \in BOOLEAN /\ te_applied' = {} /\ te_failed' = {} /\ te_pc' = "write" /\ te_lost' = {}
        /\ UNCHANGED <<te_label, te_rules, te_carried, te_up, te_pending>>
    BY <1>1 DEF TE!StartRun
  <2>8. TE!TypeOK'
    BY <2>3, <2>5, <2>6, <2>7, <1>0 DEF TE!TypeOK
  <2>9. ExcludePlanInv'
    BY <2>4, <2>5, <2>7 DEF ExcludePlanInv
  <2>10. NetworkInv' /\ TE!ResolvedMeansExcluded'
    BY <2>7, <1>0 DEF NetworkInv, TE!ResolvedMeansExcluded
  <2> QED
    BY <2>8, <2>9, <2>10 DEF ExclusionInv
<1>2. ASSUME NEW st \in te_Stacks, TE!WriteStack(st)
      PROVE  ExclusionInv'
  <2>1. /\ te_pc = "write" /\ te_todo' = te_todo \ {st}
        /\ UNCHANGED <<te_carried, te_up, te_lost, te_pc, te_updates, te_recreate, te_pending, te_runs>>
    BY <1>2 DEF TE!WriteStack
  <2>2. /\ te_label' \in [TE!Existing -> TE!Labels] /\ te_rules' \in [TE!Existing -> SUBSET TE!Tags]
        /\ te_applied' \subseteq te_updates /\ te_failed' \subseteq te_Stacks \X TE!Lines
        /\ te_failed \subseteq te_failed'
    BY <1>2, <1>0, Writes
  <2>3. \A sv \in TE!Existing : TE!Excluded(te_label[sv]) \subseteq TE!Excluded(te_label'[sv])
    BY <1>2, <1>0, Writes
  <2>4. \A u \in TE!OfStack(st, te_updates) :
            <<st, u[2]>> \in te_failed' \/ te_TagOf[u[2]] \in TE!Excluded(te_label'[u[1]])
    BY <1>2, <1>0, Writes
  <2>5. TE!TypeOK'
    BY <2>1, <2>2, <1>0 DEF TE!TypeOK
  <2>6. \A u \in te_updates : u[1] \in TE!Existing
    BY <1>0 DEF TE!TypeOK
  <2>7. ExcludePlanInv'
    <3>1. SUFFICES ASSUME NEW u \in te_updates
                   PROVE  TE!StackOf(u[1]) \in te_todo' \/ Failing(u)' \/ Written(u)'
      BY <2>1, <1>0 DEF ExcludePlanInv
    <3>2. TE!StackOf(u[1]) \in te_todo \/ Failing(u) \/ Written(u)
      BY <2>1, <1>0 DEF ExcludePlanInv
    <3>3. CASE TE!StackOf(u[1]) = st
      BY <3>3, <2>4 DEF TE!OfStack, Failing, Written
    <3>4. CASE TE!StackOf(u[1]) # st
      BY <3>2, <3>4, <2>1, <2>2, <2>3, <2>6 DEF Failing, Written
    <3> QED
      BY <3>3, <3>4
  <2>8. NetworkInv'
    BY <2>1, <2>2, <1>0 DEF NetworkInv
  <2>9. TE!ResolvedMeansExcluded'
    BY <2>1, <2>3, <1>0 DEF TE!ResolvedMeansExcluded, ExclusionShape
  <2> QED
    BY <2>5, <2>7, <2>8, <2>9 DEF ExclusionInv
<1>3. CASE TE!WritesDone
  <2>1. /\ te_pc = "write" /\ te_todo = {} /\ te_pc' = IF te_recreate THEN "recreate" ELSE "mark"
        /\ te_todo' = IF te_recreate THEN {TE!StackOf(u[1]) : u \in te_applied} ELSE {}
        /\ UNCHANGED <<te_label, te_rules, te_carried, te_up, te_lost, te_updates, te_applied, te_recreate, te_failed,
                       te_pending, te_runs>>
    BY <1>3 DEF TE!WritesDone
  <2>2. {TE!StackOf(u[1]) : u \in te_applied} \subseteq te_Stacks
    BY <1>0, ExcludeStackIs DEF TE!TypeOK
  <2>3. TE!TypeOK'
    BY <2>1, <2>2, <1>0 DEF TE!TypeOK
  <2>4. ExcludePlanInv'
    BY <2>1, <1>0 DEF ExcludePlanInv, Failing, Written
  <2>5. NetworkInv' /\ TE!ResolvedMeansExcluded'
    BY <2>1, <1>0 DEF NetworkInv, TE!ResolvedMeansExcluded
  <2> QED
    BY <2>3, <2>4, <2>5 DEF ExclusionInv
<1>4. ASSUME NEW st \in te_Stacks, TE!RecreateStack(st)
      PROVE  ExclusionInv'
  <2>1. /\ te_pc = "recreate" /\ te_todo' = te_todo \ {st}
        /\ UNCHANGED <<te_label, te_rules, te_pc, te_updates, te_applied, te_recreate, te_pending, te_runs>>
    BY <1>4 DEF TE!RecreateStack
  <2>2. /\ te_carried' \in [TE!Existing -> TE!Labels] /\ te_lost' \subseteq TE!Existing
        /\ te_failed' \subseteq te_Stacks \X TE!Lines /\ te_failed \subseteq te_failed' /\ te_up' = te_up
        /\ \A sv \in te_lost' : \E l \in TE!Lines : <<TE!StackOf(sv), l>> \in te_failed'
    BY <1>4, <1>0, Recreates
  <2>3. TE!TypeOK'
    BY <2>1, <2>2, <1>0 DEF TE!TypeOK
  <2>4. ExcludePlanInv'
    BY <2>1, <2>2, <1>0 DEF ExcludePlanInv, Failing, Written
  <2>5. NetworkInv' /\ TE!ResolvedMeansExcluded'
    BY <2>1, <2>2, <1>0 DEF NetworkInv, TE!ResolvedMeansExcluded
  <2> QED
    BY <2>3, <2>4, <2>5 DEF ExclusionInv
<1>5. CASE TE!RecreateDone
  <2>1. /\ te_pc = "recreate" /\ te_pc' = "mark"
        /\ UNCHANGED <<te_label, te_rules, te_carried, te_up, te_lost, te_updates, te_applied, te_recreate, te_failed,
                       te_todo, te_pending, te_runs>>
    BY <1>5 DEF TE!RecreateDone
  <2>2. TE!TypeOK' /\ ExcludePlanInv'
    BY <2>1, <1>0 DEF TE!TypeOK, ExcludePlanInv, Failing, Written
  <2>3. NetworkInv' /\ TE!ResolvedMeansExcluded'
    BY <2>1, <1>0 DEF NetworkInv, TE!ResolvedMeansExcluded
  <2> QED
    BY <2>2, <2>3 DEF ExclusionInv
<1>6. CASE TE!Mark
  <2>1. /\ te_pc = "mark" /\ te_pc' = "idle" /\ te_updates' = {} /\ te_applied' = {} /\ te_failed' = {}
        /\ te_recreate' = FALSE /\ te_pending' = {l \in te_pending : ~TE!LineOk(l)}
        /\ UNCHANGED <<te_label, te_rules, te_carried, te_up, te_lost, te_todo, te_runs>>
    BY <1>6 DEF TE!Mark
  <2>2. TE!TypeOK' /\ ExcludePlanInv' /\ NetworkInv'
    BY <2>1, <1>0 DEF TE!TypeOK, ExcludePlanInv, NetworkInv
  <2>3. ASSUME NEW l \in TE!Lines, TE!LineOk(l), NEW sv \in te_Matches[l]
        PROVE  te_TagOf[l] \in TE!Excluded(te_label[sv])
    <3>1. PICK u \in te_updates : u[2] = l
      BY <2>3 DEF TE!LineOk
    <3>2. <<sv, l>> \in te_updates
      BY <3>1, <1>0 DEF ExcludePlanInv
    <3>3. Failing(<<sv, l>>) \/ Written(<<sv, l>>)
      BY <3>2, <2>1, <1>0 DEF ExcludePlanInv
    <3>4. ~Failing(<<sv, l>>)
      BY <3>2, <2>3 DEF TE!LineOk, Failing
    <3> QED
      BY <3>3, <3>4 DEF Written
  <2>4. TE!ResolvedMeansExcluded'
    BY <2>1, <2>3, <1>0 DEF TE!ResolvedMeansExcluded
  <2> QED
    BY <2>2, <2>4 DEF ExclusionInv
<1>7. CASE UNCHANGED TE!vars
  <2>1. TE!TypeOK' /\ ExcludePlanInv'
    BY <1>7, <1>0 DEF TE!vars, TE!runVars, TE!TypeOK, ExcludePlanInv, Failing, Written
  <2>2. NetworkInv' /\ TE!ResolvedMeansExcluded'
    BY <1>7, <1>0 DEF TE!vars, TE!runVars, NetworkInv, TE!ResolvedMeansExcluded
  <2> QED
    BY <2>1, <2>2 DEF ExclusionInv
<1> QED
  BY <1>1, <1>2, <1>3, <1>4, <1>5, <1>6, <1>7 DEF TE!Next

LEMMA ExclusionInvariant ==
  ASSUME ExclusionShape
  PROVE  TE!Spec => []ExclusionInv
<1>1. TE!Init => ExclusionInv
  BY ExclusionInit
<1>2. ExclusionInv /\ [TE!Next]_(TE!vars) => ExclusionInv'
  BY ExcludeExclusionStep
<1> QED
  BY <1>1, <1>2, PTL DEF TE!Spec

(* The labels, the rules and the sets of a run keep their types               *)
(* (updater_tag_exclusions.py).                                               *)
THEOREM ExclusionTypes ==
  ASSUME ExclusionShape
  PROVE  TE!Spec => []TE!TypeOK
<1>1. ExclusionInv => TE!TypeOK
  BY DEF ExclusionInv
<1> QED
  BY <1>1, ExclusionInvariant, PTL

(* A line leaves the pending file only when its tag is excluded for every     *)
(* service it names, over any number of runs.                                 *)
THEOREM ResolvedAreExcluded ==
  ASSUME ExclusionShape
  PROVE  TE!Spec => []TE!ResolvedMeansExcluded
<1>1. ExclusionInv => TE!ResolvedMeansExcluded
  BY DEF ExclusionInv
<1> QED
  BY <1>1, ExclusionInvariant, PTL

(* No service is left running without its network unless its stack is         *)
(* reported as failed, for networks shared over any number of services.       *)
THEOREM NetworksAreKept ==
  ASSUME ExclusionShape
  PROVE  TE!Spec => []TE!NetworksKept
<1>1. ExclusionInv => TE!NetworksKept
  BY DEF ExclusionInv, NetworkInv, TE!NetworksKept
<1> QED
  BY <1>1, ExclusionInvariant, PTL

(* No run drops an alternative from a label, or starts a stopped service, and *)
(* a stack that cannot be recreated gets no label.                            *)
THEOREM ExclusionsStay ==
  ASSUME ExclusionShape
  PROVE  TE!Spec => TE!ExclusionsKept /\ TE!StoppedStayStopped /\ TE!RefusedUntouched
<1> DEFINE Kept ==
             /\ \A sv \in TE!Existing : TE!Excluded(te_label[sv]) \subseteq TE!Excluded(te_label'[sv])
             /\ te_up' = te_up
             /\ \A st \in te_Overridden : te_recreate =>
                    \A sv \in te_ServicesOf[st] : te_label'[sv] = te_label[sv]
<1>1. ExclusionInv /\ [TE!Next]_(TE!vars) => Kept
  <2>1. SUFFICES ASSUME ExclusionInv, [TE!Next]_(TE!vars)
                 PROVE  Kept
    OBVIOUS
  <2>2. TE!TypeOK /\ NetworkInv
    BY <2>1 DEF ExclusionInv
  <2>3. ASSUME NEW st \in te_Stacks, TE!WriteStack(st)
        PROVE  Kept
    <3>1. \A sv \in TE!Existing : TE!StackOf(sv) # st \/ TE!Refused(st) => te_label'[sv] = te_label[sv]
      BY <2>1, <2>2, <2>3, Writes
    <3>2. ASSUME NEW s \in te_Overridden, te_recreate, NEW sv \in te_ServicesOf[s]
          PROVE  te_label'[sv] = te_label[sv]
      <4>1. sv \in TE!Existing /\ TE!StackOf(sv) = s
        BY <2>1, ExcludeStackIs DEF ExclusionShape
      <4>2. s = st => TE!Refused(st)
        BY <3>2 DEF TE!Refused
      <4> QED
        BY <3>1, <4>1, <4>2
    <3>3. te_up' = te_up
      BY <2>3 DEF TE!WriteStack
    <3> QED
      BY <2>1, <2>2, <2>3, <3>2, <3>3, Writes
  <2>4. ASSUME NEW st \in te_Stacks, TE!RecreateStack(st)
        PROVE  te_up' = te_up /\ te_label' = te_label
    <3>1. te_label' = te_label
      BY <2>4 DEF TE!RecreateStack
    <3> QED
      BY <3>1, <2>1, <2>2, <2>4, Recreates
  <2>5. TE!StartRun \/ TE!WritesDone \/ TE!RecreateDone \/ TE!Mark \/ UNCHANGED TE!vars =>
            te_up' = te_up /\ te_label' = te_label
    BY DEF TE!StartRun, TE!WritesDone, TE!RecreateDone, TE!Mark, TE!vars
  <2> QED
    BY <2>1, <2>3, <2>4, <2>5 DEF TE!Next
<1>2. ExclusionInv /\ [TE!Next]_(TE!vars) =>
          /\ [\A sv \in TE!Existing : TE!Excluded(te_label[sv]) \subseteq TE!Excluded(te_label'[sv])]_(TE!vars)
          /\ [te_up' = te_up]_(TE!vars)
          /\ [\A st \in te_Overridden : te_recreate =>
                  \A sv \in te_ServicesOf[st] : te_label'[sv] = te_label[sv]]_(TE!vars)
  BY <1>1
<1> QED
  BY <1>2, ExclusionInvariant, PTL DEF TE!Spec, TE!ExclusionsKept, TE!StoppedStayStopped,
     TE!RefusedUntouched

-----------------------------------------------------------------------------
(****************************************************************************)
(* TrackingRepair                                                           *)
(****************************************************************************)

Before == {"idle", "request", "queued", "audit", "backup", "write"}
RepairAfter == {"check", "up", "verify", "finish"}
RepairUndone == {"again", "record", "end"}

(* The row and the job are open until the end. *)
RowInv ==
    /\ tr_pc \notin {"end", "over"} =>
              tr_job \notin {"success", "failure"} /\ tr_audit \in {"none", "running"}
    /\ TR!RowAgrees

(* The label is in no text before it is written; what is written has its old  *)
(* text in the backup; and a way back without trouble has removed it from the *)
(* disk.  A save by somebody else is on the disk at once.                     *)
RepairTextInv ==
    /\ (tr_file = "edited" \/ "edited" \in tr_disk) => tr_file = "edited" /\ tr_disk = {"edited"}
    /\ ~tr_wrote => tr_file # "new" /\ "new" \notin tr_disk
    /\ tr_pc \in Before => ~tr_wrote
    /\ tr_pc \in RepairAfter => tr_wrote
    /\ tr_wrote /\ tr_pc # "over" => tr_backup = "old"
    /\ tr_pc = "write" => tr_backup \in {"old", "edited"} /\ (tr_backup = "edited" => tr_file = "edited")
    /\ (tr_pc \in RepairUndone /\ ~tr_trouble /\ tr_job # "success") => tr_file # "new" /\ "new" \notin tr_disk
    /\ TR!OldTextStays

(* The container is the first one until compose up; the image that the job    *)
(* expects is the approved one, which is the first; and a way back without    *)
(* trouble has put the container back, too.                                   *)
RepairServiceInv ==
    /\ ~tr_started => tr_ctr.label = "old" /\ tr_ctr.image = 1
    /\ tr_started => tr_wrote /\ tr_expected = 1
    /\ tr_pc \in Before \cup {"check", "up"} => ~tr_started
    /\ tr_pc \in {"audit", "backup", "write"} \cup RepairAfter => tr_expected = 1 /\ tr_approved[2] = 1
    /\ tr_pc \in {"verify", "finish"} => tr_ctr.label = "new"
    /\ tr_pc = "finish" => tr_ctr.image = tr_expected
    /\ (tr_pc \in {"record", "end"} /\ ~tr_trouble /\ tr_job # "success")
              => tr_ctr.label # "new" /\ tr_ctr.image = 1
    /\ TR!RepairedAsApproved /\ TR!FailureLeavesNothing

(* TypeOK in three parts *)
Approvals == {<<>>} \cup (TR!Texts \X (0..2))
RepairContainers == [image : 1..2, label : TR!Texts, runs : BOOLEAN]
RepairSteps == {"idle", "request", "queued", "audit", "backup", "write", "check", "up", "verify",
                "finish", "fail", "again", "record", "end", "over"}
OuterTypes == tr_file \in TR!Texts /\ tr_disk \subseteq TR!Texts /\ tr_image \in 1..2 /\ tr_ctr \in RepairContainers
LocalTypes ==
    /\ tr_approved \in Approvals /\ tr_expected \in 0..2 /\ tr_backup \in TR!Texts \cup {"none"}
    /\ tr_wrote \in BOOLEAN /\ tr_started \in BOOLEAN /\ tr_trouble \in BOOLEAN
StatusTypes ==
    /\ tr_pc \in RepairSteps /\ tr_outside \in 0..tr_MaxOutside
    /\ tr_job \in {"none", "queued", "running", "success", "failure"}
    /\ tr_audit \in {"none", "running", "success", "failure"}

RepairInv == TR!TypeOK /\ RowInv /\ RepairTextInv /\ RepairServiceInv

-----------------------------------------------------------------------------
LEMMA RepairTypesAre ==
  TR!TypeOK <=> OuterTypes /\ LocalTypes /\ StatusTypes
BY DEF TR!TypeOK, OuterTypes, LocalTypes, StatusTypes, Approvals, RepairContainers, RepairSteps

LEMMA RepairInvInit ==
  ASSUME tr_MaxOutside \in Nat, TR!Init
  PROVE  RepairInv
<1>1. TR!TypeOK
  <2>1. OuterTypes
    BY DEF TR!Init, OuterTypes, TR!Texts, RepairContainers
  <2>2. LocalTypes
    <3>1. tr_approved \in Approvals
      BY DEF TR!Init, Approvals
    <3>2. /\ tr_expected = 0 /\ tr_backup = "none"
          /\ tr_wrote = FALSE /\ tr_started = FALSE /\ tr_trouble = FALSE
      BY DEF TR!Init
    <3>3. tr_expected \in 0..2 /\ tr_backup \in TR!Texts \cup {"none"}
      BY <3>2
    <3>4. tr_wrote \in BOOLEAN /\ tr_started \in BOOLEAN /\ tr_trouble \in BOOLEAN
      BY <3>2
    <3>5. QED BY <3>1, <3>3, <3>4 DEF LocalTypes
  <2>3. StatusTypes
    BY DEF TR!Init, StatusTypes, RepairSteps
  <2>4. QED BY <2>1, <2>2, <2>3, RepairTypesAre
<1>2. RowInv /\ RepairTextInv
  BY DEF TR!Init, RowInv, TR!RowAgrees, RepairTextInv, TR!OldTextStays, Before, RepairAfter,
     RepairUndone
<1>3. RepairServiceInv
  BY DEF TR!Init, RepairServiceInv, TR!RepairedAsApproved, TR!FailureLeavesNothing, Before,
     RepairAfter
<1>4. QED BY <1>1, <1>2, <1>3 DEF RepairInv

(* What an exception, and a container that compose up made, look like.       *)
LEMMA RaiseIs ==
  ASSUME TR!Raise
  PROVE  /\ tr_pc' = "fail"
         /\ UNCHANGED <<tr_file, tr_disk, tr_image, tr_ctr, tr_approved, tr_expected, tr_backup, tr_wrote, tr_started,
                        tr_trouble, tr_job, tr_audit, tr_outside>>
BY DEF TR!Raise, TR!To, TR!outer, TR!local

LEMMA RecreateIs ==
  ASSUME OuterTypes, NEW on \in BOOLEAN, TR!Recreate(on)
  PROVE  /\ tr_ctr' \in RepairContainers
         /\ tr_ctr'.image = tr_image /\ tr_ctr'.label = tr_file /\ tr_ctr'.runs = on
BY DEF OuterTypes, TR!Recreate, RepairContainers

LEMMA StopIs ==
  ASSUME OuterTypes, tr_ctr' = [tr_ctr EXCEPT !.runs = FALSE]
  PROVE  tr_ctr' \in RepairContainers /\ tr_ctr'.image = tr_ctr.image /\ tr_ctr'.label = tr_ctr.label
BY DEF OuterTypes, RepairContainers

LEMMA OuterStep ==
  ASSUME OuterTypes, LocalTypes, TR!Next, tr_pc = "fail" /\ tr_wrote => tr_backup = "old"
  PROVE  OuterTypes'
<1>k. ASSUME UNCHANGED TR!outer
      PROVE  OuterTypes'
  BY <1>k DEF TR!outer, OuterTypes
<1>r. ASSUME TR!Raise
      PROVE  OuterTypes'
  BY <1>r, RaiseIs DEF OuterTypes
<1>1. CASE TR!Outside
  <2>1. tr_file' \in TR!Texts /\ tr_disk' \subseteq TR!Texts /\ tr_image' \in 1..2
    BY <1>1 DEF TR!Outside, OuterTypes, TR!Texts
  <2>2. tr_ctr' = tr_ctr \/ tr_ctr' = [tr_ctr EXCEPT !.runs = FALSE]
    BY <1>1 DEF TR!Outside
  <2>3. QED BY <2>1, <2>2, StopIs DEF OuterTypes
<1>2. CASE TR!PowerLoss
  BY <1>2 DEF TR!PowerLoss, OuterTypes
<1>3. CASE TR!WriteLabel
  <2>1. CASE TR!Raise
    BY <1>r, <2>1
  <2>2. CASE ~TR!Raise
    BY <1>3, <2>2 DEF TR!WriteLabel, TR!Replace, OuterTypes, TR!Texts
  <2>3. QED BY <2>1, <2>2
<1>4. CASE TR!Up
  <2>1. CASE TR!Raise
    BY <1>r, <2>1
  <2>2. CASE ~TR!Raise
    <3>1. UNCHANGED <<tr_file, tr_disk, tr_image>>
      BY <1>4, <2>2 DEF TR!Up
    <3>2. tr_ctr' = tr_ctr \/ \E r \in BOOLEAN : TR!Recreate(r)
      BY <1>4, <2>2 DEF TR!Up
    <3>3. QED BY <3>1, <3>2, RecreateIs DEF OuterTypes
  <2>3. QED BY <2>1, <2>2
<1>5. CASE TR!Fail
  BY <1>5 DEF TR!Fail, TR!Replace, OuterTypes, TR!Texts
<1>6. CASE TR!RestoreService
  <2>1. UNCHANGED <<tr_file, tr_disk, tr_image>>
    BY <1>6 DEF TR!RestoreService
  <2>2. tr_ctr' = tr_ctr \/ \E r \in BOOLEAN : TR!Recreate(r)
    BY <1>6 DEF TR!RestoreService
  <2>3. QED BY <2>1, <2>2, RecreateIs DEF OuterTypes
<1>7. CASE TR!Preview \/ TR!Request \/ TR!Revalidate \/ TR!InsertAudit \/ TR!TakeBackup
  BY <1>7, <1>k, <1>r DEF TR!Preview, TR!Request, TR!Revalidate, TR!InsertAudit, TR!TakeBackup,
     TR!To
<1>8. CASE TR!CheckRuntime \/ TR!Verify \/ TR!Finish \/ TR!RecordFailure \/ TR!DropBackup
  BY <1>8, <1>k, <1>r DEF TR!CheckRuntime, TR!Verify, TR!Finish, TR!RecordFailure, TR!DropBackup,
     TR!To
<1>9. QED BY <1>1, <1>2, <1>3, <1>4, <1>5, <1>6, <1>7, <1>8 DEF TR!Next

LEMMA LocalStep ==
  ASSUME OuterTypes, LocalTypes, TR!Next
  PROVE  LocalTypes'
<1>k. ASSUME UNCHANGED TR!local
      PROVE  LocalTypes'
  BY <1>k DEF TR!local, LocalTypes
<1>r. ASSUME TR!Raise
      PROVE  LocalTypes'
  BY <1>k, <1>r DEF TR!Raise
<1>1. CASE TR!Preview
  <2>1. TR!RuntimeImage \in 0..2 /\ tr_file \in TR!Texts
    BY DEF TR!RuntimeImage, OuterTypes
  <2>2. TR!PlanId \in Approvals
    BY <2>1 DEF TR!PlanId, Approvals
  <2>3. QED BY <1>1, <2>2 DEF TR!Preview, LocalTypes
<1>2. CASE TR!Revalidate
  <2>1. TR!RuntimeImage \in 0..2
    BY DEF TR!RuntimeImage, OuterTypes
  <2>2. QED BY <1>2, <2>1 DEF TR!Revalidate, LocalTypes
<1>3. CASE TR!TakeBackup
  BY <1>3, <1>r DEF TR!TakeBackup, LocalTypes, OuterTypes
<1>4. CASE TR!WriteLabel
  BY <1>4, <1>r DEF TR!WriteLabel, LocalTypes
<1>5. CASE TR!Up
  BY <1>5, <1>r DEF TR!Up, LocalTypes, TR!StartedBeforeUp
<1>6. CASE TR!Fail
  BY <1>6 DEF TR!Fail, LocalTypes, TR!KeepBackup
<1>7. CASE TR!RestoreService
  BY <1>7 DEF TR!RestoreService, LocalTypes
<1>8. CASE TR!DropBackup
  BY <1>8 DEF TR!DropBackup, LocalTypes
<1>9. CASE TR!Outside \/ TR!PowerLoss \/ TR!Request \/ TR!InsertAudit \/ TR!CheckRuntime \/ TR!Verify \/ TR!Finish
           \/ TR!RecordFailure
  BY <1>9, <1>k, <1>r DEF TR!Outside, TR!PowerLoss, TR!Request, TR!InsertAudit, TR!CheckRuntime,
     TR!Verify,
                          TR!Finish, TR!RecordFailure
<1>10. QED BY <1>1, <1>2, <1>3, <1>4, <1>5, <1>6, <1>7, <1>8, <1>9 DEF TR!Next

LEMMA StatusStep ==
  ASSUME tr_MaxOutside \in Nat, StatusTypes, TR!Next
  PROVE  StatusTypes'
<1>r. ASSUME TR!Raise
      PROVE  StatusTypes'
  BY <1>r, RaiseIs DEF StatusTypes, RepairSteps
<1>1. CASE TR!Outside \/ TR!PowerLoss \/ TR!Preview \/ TR!Request \/ TR!Revalidate
  BY <1>1 DEF TR!Outside, TR!PowerLoss, TR!Preview, TR!Request, TR!Revalidate, TR!To, StatusTypes,
     RepairSteps
<1>2. CASE TR!InsertAudit \/ TR!TakeBackup \/ TR!WriteLabel \/ TR!CheckRuntime
  BY <1>2, <1>r DEF TR!InsertAudit, TR!TakeBackup, TR!WriteLabel, TR!CheckRuntime, TR!To,
     StatusTypes, RepairSteps
<1>3. CASE TR!Up \/ TR!Verify \/ TR!Finish
  BY <1>3, <1>r DEF TR!Up, TR!Verify, TR!Finish, TR!To, StatusTypes, RepairSteps
<1>4. CASE TR!Fail \/ TR!RestoreService \/ TR!RecordFailure \/ TR!DropBackup
  BY <1>4 DEF TR!Fail, TR!RestoreService, TR!RecordFailure, TR!DropBackup, TR!FailureRow,
     StatusTypes, RepairSteps
<1>5. QED BY <1>1, <1>2, <1>3, <1>4 DEF TR!Next

-----------------------------------------------------------------------------
LEMMA RowStep ==
  ASSUME RepairInv, TR!Next
  PROVE  RowInv'
<1>t. StatusTypes /\ RowInv
  BY RepairTypesAre DEF RepairInv
<1>r. ASSUME TR!Raise, tr_pc \notin {"end", "over"}
      PROVE  RowInv'
  BY <1>t, <1>r, RaiseIs DEF RowInv, TR!RowAgrees
<1>1. CASE TR!Outside \/ TR!PowerLoss \/ TR!Preview \/ TR!Request \/ TR!Revalidate
  BY <1>t, <1>1 DEF TR!Outside, TR!PowerLoss, TR!Preview, TR!Request, TR!Revalidate, TR!To, RowInv,
     TR!RowAgrees
<1>2. CASE TR!InsertAudit \/ TR!TakeBackup \/ TR!WriteLabel \/ TR!CheckRuntime
  BY <1>t, <1>2, <1>r DEF TR!InsertAudit, TR!TakeBackup, TR!WriteLabel, TR!CheckRuntime, TR!To,
     RowInv,
                          TR!RowAgrees
<1>3. CASE TR!Up \/ TR!Verify \/ TR!Finish
  BY <1>t, <1>3, <1>r DEF TR!Up, TR!Verify, TR!Finish, TR!To, RowInv, TR!RowAgrees
<1>4. CASE TR!Fail \/ TR!RestoreService \/ TR!RecordFailure \/ TR!DropBackup
  BY <1>t, <1>4 DEF TR!Fail, TR!RestoreService, TR!RecordFailure, TR!DropBackup, TR!FailureRow,
     RowInv,
                    TR!RowAgrees
<1>5. QED BY <1>1, <1>2, <1>3, <1>4 DEF TR!Next

LEMMA RepairTextStep ==
  ASSUME RepairInv, TR!Next
  PROVE  RepairTextInv'
<1>t. OuterTypes /\ LocalTypes /\ StatusTypes /\ RowInv /\ RepairTextInv
  BY RepairTypesAre DEF RepairInv
<1>r. ASSUME TR!Raise, tr_pc \in Before \cup RepairAfter
      PROVE  RepairTextInv'
  BY <1>t, <1>r, RaiseIs DEF RepairTextInv, TR!OldTextStays, Before, RepairAfter, RepairUndone
<1> USE DEF RepairTextInv, TR!OldTextStays, Before, RepairAfter, RepairUndone
<1>1. CASE TR!Outside
  BY <1>t, <1>1 DEF TR!Outside, TR!local
<1>2. CASE TR!PowerLoss
  BY <1>t, <1>2 DEF TR!PowerLoss, TR!local, OuterTypes, TR!Texts
<1>3. CASE TR!Preview
  BY <1>t, <1>3 DEF TR!Preview, TR!To, TR!outer
<1>4. CASE TR!Request
  BY <1>t, <1>4 DEF TR!Request, TR!outer, TR!local
<1>5. CASE TR!Revalidate
  BY <1>t, <1>5 DEF TR!Revalidate, TR!outer
<1>6. CASE TR!InsertAudit
  BY <1>t, <1>6, <1>r DEF TR!InsertAudit, TR!outer, TR!local
<1>7. CASE TR!TakeBackup
  BY <1>t, <1>7, <1>r DEF TR!TakeBackup, TR!To, TR!outer, OuterTypes, TR!Texts
<1>8. CASE TR!WriteLabel
  BY <1>t, <1>8, <1>r DEF TR!WriteLabel, TR!Holds, TR!Replace
<1>9. CASE TR!CheckRuntime
  BY <1>t, <1>9, <1>r DEF TR!CheckRuntime, TR!To, TR!outer, TR!local
<1>10. CASE TR!Up
  BY <1>t, <1>10, <1>r DEF TR!Up
<1>11. CASE TR!Verify
  BY <1>t, <1>11, <1>r DEF TR!Verify, TR!To, TR!outer, TR!local
<1>12. CASE TR!Finish
  BY <1>t, <1>12, <1>r DEF TR!Finish, TR!outer, TR!local
<1>13. CASE TR!Fail
  BY <1>t, <1>13 DEF TR!Fail, TR!Holds, TR!Replace, TR!KeepBackup, LocalTypes, RowInv
<1>14. CASE TR!RestoreService
  BY <1>t, <1>14 DEF TR!RestoreService, LocalTypes
<1>15. CASE TR!RecordFailure
  BY <1>t, <1>15 DEF TR!RecordFailure, TR!outer, TR!local, RowInv
<1>16. CASE TR!DropBackup
  BY <1>t, <1>16 DEF TR!DropBackup, TR!outer
<1>17. QED BY <1>1, <1>2, <1>3, <1>4, <1>5, <1>6, <1>7, <1>8, <1>9, <1>10, <1>11, <1>12,
              <1>13, <1>14, <1>15, <1>16 DEF TR!Next

LEMMA RepairServiceStep ==
  ASSUME RepairInv, TR!Next
  PROVE  RepairServiceInv'
<1>t. OuterTypes /\ LocalTypes /\ StatusTypes /\ RowInv /\ RepairTextInv /\ RepairServiceInv
  BY RepairTypesAre DEF RepairInv
<1>r. ASSUME TR!Raise, tr_pc \in Before \cup RepairAfter
      PROVE  RepairServiceInv'
  BY <1>t, <1>r, RaiseIs DEF RepairServiceInv, RowInv, Before, RepairAfter, TR!RepairedAsApproved,
                             TR!FailureLeavesNothing
<1> USE DEF RepairServiceInv, Before, RepairAfter, TR!RepairedAsApproved, TR!FailureLeavesNothing
<1>1. CASE TR!Outside
  <2>1. tr_ctr'.image = tr_ctr.image /\ tr_ctr'.label = tr_ctr.label
    BY <1>t, <1>1, StopIs DEF TR!Outside
  <2>2. QED BY <1>t, <1>1, <2>1 DEF TR!Outside, TR!local
<1>2. CASE TR!PowerLoss
  BY <1>t, <1>2 DEF TR!PowerLoss, TR!local, OuterTypes, RepairTextInv, RowInv, StatusTypes,
     RepairSteps
<1>3. CASE TR!Preview
  BY <1>t, <1>3 DEF TR!Preview, TR!To, TR!outer, RowInv
<1>4. CASE TR!Request
  BY <1>t, <1>4 DEF TR!Request, TR!outer, TR!local, RowInv
<1>5. CASE TR!Revalidate
  <2>1. (tr_approved = TR!PlanId /\ TR!CanApply) => TR!RuntimeImage = 1 /\ tr_approved[2] = 1
    BY <1>t, <1>5 DEF TR!Revalidate, TR!PlanId, TR!CanApply, TR!RuntimeImage
  <2>2. QED BY <1>t, <1>5, <2>1 DEF TR!Revalidate, TR!outer, RowInv
<1>6. CASE TR!InsertAudit
  BY <1>t, <1>6, <1>r DEF TR!InsertAudit, TR!outer, TR!local, RowInv
<1>7. CASE TR!TakeBackup
  BY <1>t, <1>7, <1>r DEF TR!TakeBackup, TR!To, TR!outer, RowInv
<1>8. CASE TR!WriteLabel
  BY <1>t, <1>8, <1>r DEF TR!WriteLabel, TR!Holds, TR!Replace, RowInv
<1>9. CASE TR!CheckRuntime
  BY <1>t, <1>9, <1>r DEF TR!CheckRuntime, TR!To, TR!outer, TR!local, RowInv
<1>10. CASE TR!Up
  <2>1. CASE TR!Raise
    BY <1>10, <1>r, <2>1 DEF TR!Up
  <2>2. CASE ~TR!Raise
    <3>1. ASSUME TR!Recreate(TRUE), tr_file = "new"
          PROVE  tr_ctr'.label = "new"
      BY <1>t, <3>1, RecreateIs
    <3>2. /\ tr_started' = TRUE /\ tr_pc' \in {"verify", "fail"} /\ tr_file = "new"
          /\ tr_pc' = "verify" => TR!Recreate(TRUE)
          /\ UNCHANGED <<tr_file, tr_disk, tr_image, tr_approved, tr_expected, tr_backup, tr_wrote, tr_trouble, tr_job,
                         tr_audit, tr_outside>>
      BY <1>10, <2>2 DEF TR!Up, TR!StartedBeforeUp
    <3>3. QED BY <1>t, <1>10, <3>1, <3>2 DEF TR!Up, RepairTextInv, RowInv
  <2>3. QED BY <2>1, <2>2
<1>11. CASE TR!Verify
  BY <1>t, <1>11, <1>r DEF TR!Verify, TR!SameImage, TR!To, TR!outer, TR!local, RowInv
<1>12. CASE TR!Finish
  BY <1>t, <1>12, <1>r DEF TR!Finish, TR!outer, TR!local, RowInv
<1>13. CASE TR!Fail
  BY <1>t, <1>13 DEF TR!Fail, RowInv, LocalTypes
<1>14. CASE TR!RestoreService
  <2>1. /\ tr_pc = "again" /\ tr_pc' = "record" /\ tr_job \notin {"success", "failure"}
        /\ UNCHANGED <<tr_file, tr_disk, tr_image, tr_approved, tr_expected, tr_backup, tr_wrote, tr_started, tr_job,
                       tr_audit, tr_outside>>
    BY <1>t, <1>14 DEF TR!RestoreService, RowInv
  <2>2. CASE ~tr_started
    <3>1. UNCHANGED <<tr_ctr, tr_trouble>>
      BY <1>14, <2>2 DEF TR!RestoreService
    <3>2. QED BY <1>t, <2>1, <2>2, <3>1
  <2>3. CASE tr_started /\ tr_trouble' = TRUE
    BY <1>t, <2>1, <2>3
  <2>4. CASE tr_started /\ tr_trouble' # TRUE
    <3>1. tr_image = 1 /\ TR!Recreate(TRUE) /\ tr_trouble' = tr_trouble
      BY <1>t, <1>14, <2>4 DEF TR!RestoreService, TR!ImageStays
    <3>2. tr_ctr'.label = tr_file /\ tr_ctr'.image = 1
      BY <1>t, <3>1, RecreateIs
    <3>3. ~tr_trouble => tr_file # "new"
      BY <1>t, <2>1 DEF RepairTextInv, RepairUndone
    <3>4. QED BY <1>t, <2>1, <2>4, <3>1, <3>2, <3>3
  <2>5. QED BY <2>2, <2>3, <2>4
<1>15. CASE TR!RecordFailure
  BY <1>t, <1>15 DEF TR!RecordFailure, TR!outer, TR!local, RowInv
<1>16. CASE TR!DropBackup
  BY <1>t, <1>16 DEF TR!DropBackup, TR!outer, RepairTextInv, RepairUndone, LocalTypes
<1>17. QED BY <1>1, <1>2, <1>3, <1>4, <1>5, <1>6, <1>7, <1>8, <1>9, <1>10, <1>11, <1>12,
              <1>13, <1>14, <1>15, <1>16 DEF TR!Next

LEMMA RepairInvStep ==
  ASSUME tr_MaxOutside \in Nat, RepairInv, [TR!Next]_(TR!vars)
  PROVE  RepairInv'
<1>1. CASE TR!Next
  <2>1. OuterTypes /\ LocalTypes /\ StatusTypes /\ (tr_pc = "fail" /\ tr_wrote => tr_backup = "old")
    BY RepairTypesAre DEF RepairInv, RepairTextInv
  <2>2. (OuterTypes /\ LocalTypes /\ StatusTypes)'
    BY <1>1, <2>1, OuterStep, LocalStep, StatusStep
  <2>3. TR!TypeOK'
    BY <2>2 DEF TR!TypeOK, OuterTypes, LocalTypes, StatusTypes, Approvals, RepairContainers,
       RepairSteps
  <2>4. QED BY <1>1, <2>3, RowStep, RepairTextStep, RepairServiceStep DEF RepairInv
<1>2. CASE UNCHANGED TR!vars
  BY <1>2 DEF TR!vars, TR!outer, TR!local, RepairInv, TR!TypeOK, RowInv, TR!RowAgrees,
     RepairTextInv, TR!OldTextStays,
              RepairServiceInv, TR!RepairedAsApproved, TR!FailureLeavesNothing
<1>3. QED BY <1>1, <1>2

(* The repair's state stays within its types.                                *)
THEOREM RepairTypes ==
  ASSUME tr_MaxOutside \in Nat
  PROVE  TR!Spec => []TR!TypeOK
<1>1. TR!Init => RepairInv
  BY RepairInvInit
<1>2. RepairInv /\ [TR!Next]_(TR!vars) => RepairInv'
  BY RepairInvStep
<1>3. RepairInv => TR!TypeOK
  BY DEF RepairInv
<1>4. QED BY <1>1, <1>2, <1>3, PTL DEF TR!Spec

(* A repair that is reported as done has put the approved label on a          *)
(* container of the approved image; one that is reported as failed, without a *)
(* preserved backup, has left nothing behind; and its row in update_runs      *)
(* agrees (_verify_recreated_service, _rollback_tracking_repair,              *)
(* _finish_tracking_audit).                                                   *)
THEOREM RepairsAreReportedTruly ==
  ASSUME tr_MaxOutside \in Nat
  PROVE  TR!Spec => [](TR!RepairedAsApproved /\ TR!FailureLeavesNothing /\ TR!RowAgrees)
<1>1. TR!Init => RepairInv
  BY RepairInvInit
<1>2. RepairInv /\ [TR!Next]_(TR!vars) => RepairInv'
  BY RepairInvStep
<1>3. RepairInv => TR!RepairedAsApproved /\ TR!FailureLeavesNothing /\ TR!RowAgrees
  BY DEF RepairInv, RepairServiceInv, RowInv
<1>4. QED BY <1>1, <1>2, <1>3, PTL DEF TR!Spec

(* The old text stays on the disk or in the backup until the repair is done,  *)
(* a power loss included.                                                     *)
THEOREM RepairKeepsOldText ==
  ASSUME tr_MaxOutside \in Nat
  PROVE  TR!Spec => []TR!OldTextStays
<1>1. TR!Init => RepairInv
  BY RepairInvInit
<1>2. RepairInv /\ [TR!Next]_(TR!vars) => RepairInv'
  BY RepairInvStep
<1>3. RepairInv => TR!OldTextStays
  BY DEF RepairInv, RepairTextInv
<1>4. QED BY <1>1, <1>2, <1>3, PTL DEF TR!Spec

(* No step of the repair, its way back and a power loss included, overwrites  *)
(* what somebody else saved (the hash check of _atomic_replace_compose).      *)
THEOREM SavesAreKept ==
  ASSUME tr_MaxOutside \in Nat
  PROVE  TR!Spec => TR!SavesStay
<1>1. TR!Init => RepairInv
  BY RepairInvInit
<1>2. RepairInv /\ [TR!Next]_(TR!vars) => RepairInv'
  BY RepairInvStep
<1>3. RepairInv /\ [TR!Next]_(TR!vars) => [tr_file = "edited" => tr_file' = "edited"]_(TR!vars)
  <2> SUFFICES ASSUME RepairInv, TR!Next, tr_file = "edited"
               PROVE  tr_file' = "edited"
    BY DEF TR!vars, TR!outer
  <2>1. tr_disk = {"edited"}
    BY DEF RepairInv, RepairTextInv
  <2>r. ASSUME TR!Raise
        PROVE  tr_file' = "edited"
    BY <2>r, RaiseIs
  <2>2. CASE TR!Outside \/ TR!PowerLoss \/ TR!Preview \/ TR!Request \/ TR!Revalidate
    BY <2>1, <2>2 DEF TR!Outside, TR!PowerLoss, TR!Preview, TR!Request, TR!Revalidate, TR!To,
       TR!outer
  <2>3. CASE TR!InsertAudit \/ TR!TakeBackup \/ TR!WriteLabel \/ TR!CheckRuntime
    BY <2>3, <2>r DEF TR!InsertAudit, TR!TakeBackup, TR!WriteLabel, TR!Holds, TR!CheckRuntime,
       TR!To, TR!outer
  <2>4. CASE TR!Up \/ TR!Verify \/ TR!Finish
    BY <2>4, <2>r DEF TR!Up, TR!Verify, TR!Finish, TR!To, TR!outer
  <2>5. CASE TR!Fail \/ TR!RestoreService \/ TR!RecordFailure \/ TR!DropBackup
    BY <2>5 DEF TR!Fail, TR!Holds, TR!RestoreService, TR!RecordFailure, TR!DropBackup, TR!outer
  <2>6. QED BY <2>2, <2>3, <2>4, <2>5 DEF TR!Next
<1>4. QED BY <1>1, <1>2, <1>3, PTL DEF TR!Spec, TR!SavesStay

-----------------------------------------------------------------------------
(****************************************************************************)
(* ComposeLabels                                                            *)
(****************************************************************************)

GoodFile(f) == f \in CL!Files /\ WellFormed(f)

(* A request that was previewed. *)
PlanOK ==
    /\ cl_plan.op \in CL!Ops /\ cl_plan.tag \in cl_Tags /\ cl_plan.labels \in [cl_Services -> CL!Includes]
    /\ cl_plan.targets \in Seq(cl_Services)
    /\ cl_plan.op \in CL!TransformOps =>
           \A s \in cl_Services \cap cl_Extends : cl_plan.transforms[s] # "none"

-----------------------------------------------------------------------------
(* What the rewriting of the file f to r does to a service. *)
IncludeKept(f, r, s) ==
    \/ ~CL!Foreign(CL!SeenInclude(f, s))
    \/ CL!SeenInclude(r, s) = CL!SeenInclude(f, s)
    \/ cl_plan.op = "track" /\ cl_plan.labels[s] = CL!SeenInclude(f, s)
    \/ \E a \in cl_approvals : a.s = s /\ a.tag = cl_plan.tag /\ a.current = CL!SeenInclude(f, s)
ExcludeKept(f, r, s) ==
    /\ CL!LabelsOf(f, s).exclude \subseteq CL!LabelsOf(r, s).exclude
    /\ "var" \in CL!LabelsOf(f, s).exclude => CL!LabelsOf(r, s).exclude = CL!LabelsOf(f, s).exclude
TransformStays(f, r, s) ==
    CL!SeenTransform(f, s) # "none" => CL!SeenTransform(r, s) = CL!SeenTransform(f, s)
Kept(f, r) ==
    \A s \in cl_Services : IncludeKept(f, r, s) /\ ExcludeKept(f, r, s) /\ TransformStays(f, r, s)
Watching == cl_plan.op \in CL!Ops \ {"tag", "track", "exclude"}
Watched(r, s) ==
    Watching =>
         /\ CL!Accepts(CL!SeenInclude(r, s), cl_plan.tag)
         /\ CL!ImageOf(r, s).of = cl_plan.tag
         /\ cl_plan.op \in {"pin", "pinStream"} => r.notes[s] = {cl_plan.tag}
         /\ cl_plan.op \in {"retag", "unpin"} => r.notes[s] = {}
Same(f, r, o) ==
    /\ CL!ImageOf(r, o) = CL!ImageOf(f, o) /\ CL!LabelsOf(r, o) = CL!LabelsOf(f, o)
    /\ r.notes[o] = f.notes[o]

LEMMA SameSeen ==
  ASSUME NEW f, NEW r, NEW o, Same(f, r, o)
  PROVE  /\ CL!SeenInclude(r, o) = CL!SeenInclude(f, o) /\ CL!SeenTransform(r, o) = CL!SeenTransform(f, o)
         /\ CL!Seen(r, o) = CL!Seen(f, o)
         /\ IncludeKept(f, r, o) /\ ExcludeKept(f, r, o) /\ TransformStays(f, r, o)
         /\ Watched(f, o) => Watched(r, o)
<1>1. /\ CL!SeenInclude(r, o) = CL!SeenInclude(f, o) /\ CL!SeenTransform(r, o) = CL!SeenTransform(f, o)
  BY DEF Same, CL!SeenInclude, CL!SeenTransform
<1> QED
  BY <1>1 DEF Same, CL!Seen, IncludeKept, ExcludeKept, TransformStays, Watched

LEMMA KeptOn ==
  ASSUME NEW f, NEW g, NEW r, Kept(f, g), Kept(g, r)
  PROVE  Kept(f, r)
<1> SUFFICES ASSUME NEW s \in cl_Services
             PROVE  IncludeKept(f, r, s) /\ ExcludeKept(f, r, s) /\ TransformStays(f, r, s)
  BY DEF Kept
<1>1. /\ IncludeKept(f, g, s) /\ ExcludeKept(f, g, s) /\ TransformStays(f, g, s)
      /\ IncludeKept(g, r, s) /\ ExcludeKept(g, r, s) /\ TransformStays(g, r, s)
  BY DEF Kept
<1>2. IncludeKept(f, r, s)
  BY <1>1 DEF IncludeKept
<1>3. ExcludeKept(f, r, s)
  BY <1>1 DEF ExcludeKept
<1>4. TransformStays(f, r, s)
  BY <1>1 DEF TransformStays
<1> QED
  BY <1>2, <1>3, <1>4

-----------------------------------------------------------------------------
(* The files, and the pieces that a rewrite replaces. *)
LEMMA FileIs ==
  ASSUME NEW f \in CL!Files
  PROVE  /\ f.img \in [cl_Services -> CL!Nodes] /\ f.lab \in [cl_Services -> CL!Nodes]
         /\ f.merged \in SUBSET (cl_Services \X CL!Parts) /\ f.anchored \in SUBSET cl_Services
         /\ f.images \in [CL!Nodes -> CL!Images] /\ f.labels \in [CL!Nodes -> CL!Labels]
         /\ f.notes \in [cl_Services -> SUBSET cl_Tags]
BY DEF CL!Files

LEMMA ServiceIs ==
  ASSUME NEW f \in CL!Files, NEW s \in cl_Services
  PROVE  /\ f.img[s] \in CL!Nodes /\ f.lab[s] \in CL!Nodes /\ CL!LabelsOf(f, s) \in CL!Labels
         /\ CL!ImageOf(f, s) \in CL!Images /\ f.notes[s] \in SUBSET cl_Tags /\ s \in CL!Nodes
BY FileIs DEF CL!LabelsOf, CL!ImageOf, CL!Nodes

LEMMA LabelsSet ==
  ASSUME NEW f \in CL!Files, NEW s \in cl_Services, NEW l \in CL!Labels, CL!OwnLabels(f, s)
  PROVE  LET r == [f EXCEPT !.labels[f.lab[s]] = l] IN
         /\ r \in CL!Files /\ r.img = f.img /\ r.lab = f.lab /\ r.merged = f.merged
         /\ r.images = f.images /\ r.notes = f.notes
         /\ CL!LabelsOf(r, s) = l /\ \A o \in cl_Services : CL!ImageOf(r, o) = CL!ImageOf(f, o)
         /\ \A o \in cl_Services \ {s} : CL!LabelsOf(r, o) = CL!LabelsOf(f, o)
<1> DEFINE n == f.lab[s]
           L == [f.labels EXCEPT ![n] = l]
           r == [f EXCEPT !.labels = L]
<1>1. n \in CL!Nodes /\ f.labels \in [CL!Nodes -> CL!Labels] /\ f.lab \in [cl_Services -> CL!Nodes]
  BY FileIs
<1>2. L \in [CL!Nodes -> CL!Labels] /\ L[n] = l /\ \A m \in CL!Nodes \ {n} : L[m] = f.labels[m]
  BY <1>1
<1>3. \A o \in cl_Services \ {s} : f.lab[o] \in CL!Nodes \ {n}
  BY <1>1 DEF CL!OwnLabels
<1> HIDE DEF L
<1>4. /\ r \in CL!Files /\ r.img = f.img /\ r.lab = f.lab /\ r.merged = f.merged
      /\ r.images = f.images /\ r.notes = f.notes /\ r.labels = L
  BY <1>2, FileIs DEF CL!Files
<1>5. [f EXCEPT !.labels[f.lab[s]] = l] = r
  BY DEF L
<1> HIDE DEF r
<1>6. CL!LabelsOf(r, s) = l
  BY <1>2, <1>4 DEF CL!LabelsOf
<1>7. \A o \in cl_Services \ {s} : CL!LabelsOf(r, o) = CL!LabelsOf(f, o)
  BY <1>2, <1>3, <1>4 DEF CL!LabelsOf
<1>8. \A o \in cl_Services : CL!ImageOf(r, o) = CL!ImageOf(f, o)
  BY <1>4 DEF CL!ImageOf
<1> QED
  BY <1>4, <1>5, <1>6, <1>7, <1>8

LEMMA ImageSet ==
  ASSUME NEW f \in CL!Files, NEW s \in cl_Services, NEW i \in CL!Images, CL!OwnImage(f, s)
  PROVE  LET r == [f EXCEPT !.images[f.img[s]] = i] IN
         /\ r \in CL!Files /\ r.img = f.img /\ r.lab = f.lab /\ r.merged = f.merged
         /\ r.labels = f.labels /\ r.notes = f.notes
         /\ CL!ImageOf(r, s) = i /\ \A o \in cl_Services : CL!LabelsOf(r, o) = CL!LabelsOf(f, o)
         /\ \A o \in cl_Services \ {s} : CL!ImageOf(r, o) = CL!ImageOf(f, o)
         /\ \A n \in CL!Nodes : r.images[n] \in {i, f.images[n]}
<1> DEFINE n == f.img[s]
           I == [f.images EXCEPT ![n] = i]
           r == [f EXCEPT !.images = I]
<1>1. n \in CL!Nodes /\ f.images \in [CL!Nodes -> CL!Images] /\ f.img \in [cl_Services -> CL!Nodes]
  BY FileIs
<1>2. I \in [CL!Nodes -> CL!Images] /\ I[n] = i /\ \A m \in CL!Nodes \ {n} : I[m] = f.images[m]
  BY <1>1
<1>3. \A o \in cl_Services \ {s} : f.img[o] \in CL!Nodes \ {n}
  BY <1>1 DEF CL!OwnImage
<1> HIDE DEF I
<1>4. /\ r \in CL!Files /\ r.img = f.img /\ r.lab = f.lab /\ r.merged = f.merged
      /\ r.labels = f.labels /\ r.notes = f.notes /\ r.images = I
  BY <1>2, FileIs DEF CL!Files
<1>5. [f EXCEPT !.images[f.img[s]] = i] = r
  BY DEF I
<1> HIDE DEF r
<1>6. CL!ImageOf(r, s) = i
  BY <1>2, <1>4 DEF CL!ImageOf
<1>7. \A o \in cl_Services \ {s} : CL!ImageOf(r, o) = CL!ImageOf(f, o)
  BY <1>2, <1>3, <1>4 DEF CL!ImageOf
<1>8. \A o \in cl_Services : CL!LabelsOf(r, o) = CL!LabelsOf(f, o)
  BY <1>4 DEF CL!LabelsOf
<1>9. \A m \in CL!Nodes : r.images[m] \in {i, f.images[m]}
  BY <1>2, <1>4
<1> QED
  BY <1>4, <1>5, <1>6, <1>7, <1>8, <1>9

LEMMA NotesSet ==
  ASSUME NEW f \in CL!Files, NEW s \in cl_Services, NEW N \in SUBSET cl_Tags
  PROVE  LET r == [f EXCEPT !.notes[s] = N] IN
         /\ r \in CL!Files /\ r.img = f.img /\ r.lab = f.lab /\ r.merged = f.merged
         /\ r.labels = f.labels /\ r.images = f.images
         /\ r.notes[s] = N /\ \A o \in cl_Services \ {s} : r.notes[o] = f.notes[o]
         /\ \A o \in cl_Services : CL!LabelsOf(r, o) = CL!LabelsOf(f, o) /\ CL!ImageOf(r, o) = CL!ImageOf(f, o)
<1> DEFINE M == [f.notes EXCEPT ![s] = N]
           r == [f EXCEPT !.notes = M]
<1>1. M \in [cl_Services -> SUBSET cl_Tags] /\ M[s] = N /\ \A o \in cl_Services \ {s} : M[o] = f.notes[o]
  BY FileIs
<1> HIDE DEF M
<1>2. /\ r \in CL!Files /\ r.img = f.img /\ r.lab = f.lab /\ r.merged = f.merged
      /\ r.labels = f.labels /\ r.images = f.images /\ r.notes = M
  BY <1>1, FileIs DEF CL!Files
<1>3. [f EXCEPT !.notes[s] = N] = r
  BY DEF M
<1> HIDE DEF r
<1>4. \A o \in cl_Services : CL!LabelsOf(r, o) = CL!LabelsOf(f, o) /\ CL!ImageOf(r, o) = CL!ImageOf(f, o)
  BY <1>2 DEF CL!LabelsOf, CL!ImageOf
<1> QED
  BY <1>1, <1>2, <1>3, <1>4

(* A file with other labels, images or notes is as well formed. *)
LEMMA StaysWell ==
  ASSUME NEW f, NEW r, WellFormed(f), r.lab = f.lab, r.merged = f.merged,
         \A n \in CL!Nodes : r.images[n] # CL!Garbled,
         \A s \in cl_Services \cap cl_Extends : CL!LabelsOf(r, s).transform # "blank"
  PROVE  WellFormed(r)
BY DEF WellFormed

LEMMA MaterializeIs ==
  ASSUME NEW g, GoodFile(g), NEW s \in cl_Services
  PROVE  LET f == CL!Materialize(g, s) IN
         /\ GoodFile(f) /\ f.img = g.img /\ f.images = g.images /\ f.notes = g.notes
         /\ \A o \in cl_Services : CL!LabelsOf(f, o) = CL!LabelsOf(g, o) /\ CL!ImageOf(f, o) = CL!ImageOf(g, o)
<1>1. CASE <<s, "labels">> \notin g.merged
  <2>1. CL!Materialize(g, s) = g
    BY <1>1 DEF CL!Materialize
  <2> QED
    BY <2>1
<1>2. CASE <<s, "labels">> \in g.merged
  <2> DEFINE M == g.merged \ {<<s, "labels">>}
             B == [g.lab EXCEPT ![s] = s]
             L == [g.labels EXCEPT ![s] = CL!LabelsOf(g, s)]
             f == [g EXCEPT !.merged = M, !.lab = B, !.labels = L]
  <2>0. /\ g.lab \in [cl_Services -> CL!Nodes] /\ g.labels \in [CL!Nodes -> CL!Labels] /\ s \in CL!Nodes
        /\ CL!LabelsOf(g, s) \in CL!Labels /\ g.merged \in SUBSET (cl_Services \X CL!Parts)
    BY FileIs, ServiceIs DEF GoodFile
  <2>1. /\ M \in SUBSET (cl_Services \X CL!Parts) /\ B \in [cl_Services -> CL!Nodes] /\ B[s] = s
        /\ \A o \in cl_Services \ {s} : B[o] = g.lab[o]
    BY <2>0
  <2>2. /\ L \in [CL!Nodes -> CL!Labels] /\ L[s] = CL!LabelsOf(g, s)
        /\ \A n \in CL!Nodes \ {s} : L[n] = g.labels[n]
    BY <2>0
  <2>3. \A o \in cl_Services : g.lab[o] \in CL!Nodes \ {s}
    BY <1>2, <2>0 DEF GoodFile, WellFormed
  <2>4. CL!Materialize(g, s) = f
    BY <1>2 DEF CL!Materialize
  <2> HIDE DEF B, L
  <2>5. /\ f \in CL!Files /\ f.img = g.img /\ f.images = g.images /\ f.notes = g.notes
        /\ f.merged = M /\ f.lab = B /\ f.labels = L
    BY <2>1, <2>2, FileIs DEF CL!Files, GoodFile
  <2> HIDE DEF f
  <2>6. \A o \in cl_Services : CL!LabelsOf(f, o) = CL!LabelsOf(g, o)
    BY <2>1, <2>2, <2>3, <2>5 DEF CL!LabelsOf
  <2>7. \A o \in cl_Services : CL!ImageOf(f, o) = CL!ImageOf(g, o)
    BY <2>5 DEF CL!ImageOf
  <2>8. \A x, o \in cl_Services : <<x, "labels">> \in f.merged => f.lab[o] # x
    <3>1. SUFFICES ASSUME NEW x \in cl_Services, NEW o \in cl_Services, <<x, "labels">> \in M
                   PROVE  B[o] # x
      BY <2>5
    <3>2. x # s /\ g.lab[o] # x
      BY <3>1 DEF GoodFile, WellFormed
    <3> QED
      BY <3>2, <2>1
  <2>9. WellFormed(f)
    BY <2>5, <2>6, <2>8 DEF WellFormed, GoodFile
  <2> QED
    BY <2>4, <2>5, <2>6, <2>7, <2>9 DEF GoodFile
<1> QED
  BY <1>1, <1>2

-----------------------------------------------------------------------------
(* The labels of a service after a rewrite *)
Needed(s) ==
    /\ cl_plan.op \in CL!TransformOps
    /\ cl_plan.tag \in cl_FourPart /\ CL!Proposed(cl_plan.op, cl_plan.tag) # CL!Exact(cl_plan.tag)
    /\ cl_plan.transforms[s] = "none"
NewLabels(l, k, s) ==
    /\ k \in CL!Labels /\ k.include = CL!Proposed(cl_plan.op, cl_plan.tag) /\ k.second = l.second
    /\ k.exclude = l.exclude
    /\ k.transform = IF Needed(s) THEN "managed" ELSE l.transform

LEMMA ProposedIs ==
  ASSUME NEW t \in cl_Tags, NEW op
  PROVE  CL!Proposed(op, t) \in CL!Includes /\ CL!Accepts(CL!Proposed(op, t), t)
<1>1. CL!Exact(t) \in CL!Includes /\ CL!Accepts(CL!Exact(t), t)
  BY DEF CL!Exact, CL!Includes, CL!Accepts, CL!Include
<1>2. t \in cl_Versioned => CL!Include("line", CL!NoTag) \in CL!Includes /\ CL!Accepts(CL!Include("line", CL!NoTag), t)
  BY DEF CL!Includes, CL!Accepts, CL!Include
<1> QED
  BY <1>1, <1>2 DEF CL!Proposed, CL!Line

LEMMA LabelledIs ==
  ASSUME PlanOK, NEW f \in CL!Files, NEW s \in cl_Services, CL!OwnLabels(f, s)
  PROVE  LET inc == CL!Proposed(cl_plan.op, cl_plan.tag)
             r == CL!AddTransform(CL!SetInclude(f, s, inc), s, cl_plan.tag, inc)
         IN  /\ r \in CL!Files /\ r.img = f.img /\ r.lab = f.lab /\ r.merged = f.merged
             /\ r.images = f.images /\ r.notes = f.notes
             /\ NewLabels(CL!LabelsOf(f, s), CL!LabelsOf(r, s), s)
             /\ \A o \in cl_Services \ {s} : CL!LabelsOf(r, o) = CL!LabelsOf(f, o)
             /\ \A o \in cl_Services : CL!ImageOf(r, o) = CL!ImageOf(f, o)
<1> DEFINE inc == CL!Proposed(cl_plan.op, cl_plan.tag)
           l == CL!LabelsOf(f, s)
           l1 == [l EXCEPT !.include = inc]
           f1 == [f EXCEPT !.labels[f.lab[s]] = l1]
           l2 == [l1 EXCEPT !.transform = "managed"]
           f2 == [f1 EXCEPT !.labels[f1.lab[s]] = l2]
<1>0. inc \in CL!Includes /\ l \in CL!Labels
  BY ProposedIs, ServiceIs DEF PlanOK
<1> HIDE DEF inc, l
<1>1. /\ l1 \in CL!Labels /\ l1.include = inc /\ l1.second = l.second /\ l1.exclude = l.exclude
      /\ l1.transform = l.transform
  BY <1>0 DEF CL!Labels
<1>2. CL!SetInclude(f, s, inc) = f1
  BY DEF CL!SetInclude, l, CL!LabelsOf
<1> HIDE DEF l1
<1>3. /\ f1 \in CL!Files /\ f1.img = f.img /\ f1.lab = f.lab /\ f1.merged = f.merged
      /\ f1.images = f.images /\ f1.notes = f.notes
      /\ CL!LabelsOf(f1, s) = l1 /\ \A o \in cl_Services : CL!ImageOf(f1, o) = CL!ImageOf(f, o)
      /\ \A o \in cl_Services \ {s} : CL!LabelsOf(f1, o) = CL!LabelsOf(f, o)
  BY <1>1, LabelsSet
<1> HIDE DEF f1
<1>4. /\ l2 \in CL!Labels /\ l2.include = inc /\ l2.second = l.second /\ l2.exclude = l.exclude
      /\ l2.transform = "managed"
  BY <1>1 DEF CL!Labels
<1>5. [f1 EXCEPT !.labels[f1.lab[s]].transform = "managed"] = f2
  BY <1>3 DEF CL!LabelsOf
<1> HIDE DEF l2
<1>6. CL!OwnLabels(f1, s)
  BY <1>3 DEF CL!OwnLabels
<1>7. /\ f2 \in CL!Files /\ f2.img = f1.img /\ f2.lab = f1.lab /\ f2.merged = f1.merged
      /\ f2.images = f1.images /\ f2.notes = f1.notes
      /\ CL!LabelsOf(f2, s) = l2 /\ \A o \in cl_Services : CL!ImageOf(f2, o) = CL!ImageOf(f1, o)
      /\ \A o \in cl_Services \ {s} : CL!LabelsOf(f2, o) = CL!LabelsOf(f1, o)
  BY <1>3, <1>4, <1>6, LabelsSet
<1>8. CL!AddTransform(f1, s, cl_plan.tag, inc) = IF Needed(s) THEN f2 ELSE f1
  BY <1>5, Zenon DEF CL!AddTransform, CL!TransformNeeded, Needed, inc
<1> HIDE DEF f2
<1>9. CASE Needed(s)
  <2>1. NewLabels(l, l2, s)
    BY <1>4, <1>9 DEF NewLabels, inc
  <2> QED
    BY <2>1, <1>2, <1>3, <1>7, <1>8, <1>9 DEF inc, l
<1>10. CASE ~Needed(s)
  <2>1. NewLabels(l, l1, s)
    BY <1>1, <1>10 DEF NewLabels, inc
  <2> QED
    BY <2>1, <1>2, <1>3, <1>8, <1>10 DEF inc, l
<1> QED
  BY <1>9, <1>10

LEMMA RelabelKeeps ==
  ASSUME LabelShape, PlanOK, NEW f, GoodFile(f), NEW r, NEW s \in cl_Services,
         NewLabels(CL!LabelsOf(f, s), CL!LabelsOf(r, s), s), CL!ListedOnce(f, s), CL!TransformAllowed(f, s)
  PROVE  /\ CL!SeenInclude(f, s) = CL!LabelsOf(f, s).include
         /\ CL!SeenInclude(r, s) = CL!Proposed(cl_plan.op, cl_plan.tag)
         /\ TransformStays(f, r, s) /\ ExcludeKept(f, r, s)
         /\ s \in cl_Extends => CL!LabelsOf(r, s).transform # "blank"
<1>1. /\ CL!SeenInclude(f, s) = CL!LabelsOf(f, s).include
      /\ CL!SeenInclude(r, s) = CL!Proposed(cl_plan.op, cl_plan.tag)
  BY DEF CL!SeenInclude, CL!ListedOnce, NewLabels
<1>2. ExcludeKept(f, r, s)
  BY DEF ExcludeKept, NewLabels
<1>3. CASE Needed(s)
  <2>1. CL!LabelsOf(f, s).transform = "none" /\ s \notin cl_Extends
    BY <1>3 DEF Needed, CL!TransformAllowed, CL!TransformRefused, CL!TransformNeeded, PlanOK
  <2>2. CL!SeenTransform(f, s) = "none"
    BY <2>1 DEF CL!SeenTransform
  <2> QED
    BY <1>1, <1>2, <2>1, <2>2 DEF TransformStays
<1>4. CASE ~Needed(s)
  <2>1. CL!LabelsOf(r, s).transform = CL!LabelsOf(f, s).transform
    BY <1>4 DEF NewLabels
  <2>2. CL!SeenTransform(r, s) = CL!SeenTransform(f, s)
    BY <2>1 DEF CL!SeenTransform
  <2>3. s \in cl_Extends => CL!LabelsOf(r, s).transform # "blank"
    BY <2>1 DEF GoodFile, WellFormed
  <2> QED
    BY <1>1, <1>2, <2>2, <2>3 DEF TransformStays
<1> QED
  BY <1>3, <1>4

(* A rewrite of s that leaves the others alone *)
LabelRewrite(g, r, s) ==
    /\ GoodFile(r) /\ \A o \in cl_Services \ {s} : Same(g, r, o)
    /\ IncludeKept(g, r, s) /\ ExcludeKept(g, r, s) /\ TransformStays(g, r, s)
    /\ Watched(r, s)

LEMMA RewriteKeeps ==
  ASSUME NEW g, NEW r, NEW s \in cl_Services, LabelRewrite(g, r, s)
  PROVE  Kept(g, r)
<1> SUFFICES ASSUME NEW o \in cl_Services
             PROVE  IncludeKept(g, r, o) /\ ExcludeKept(g, r, o) /\ TransformStays(g, r, o)
  BY DEF Kept
<1>1. CASE o = s
  BY <1>1 DEF LabelRewrite
<1>2. CASE o # s
  BY <1>2, SameSeen DEF LabelRewrite
<1> QED
  BY <1>1, <1>2

(* Images and notes at the end of a pin, a retag or an unpin *)
Relabelled(g, f, h, s) ==
    /\ GoodFile(g) /\ GoodFile(f) /\ h \in CL!Files
    /\ f.img = g.img /\ f.images = g.images /\ f.notes = g.notes
    /\ h.img = f.img /\ h.lab = f.lab /\ h.merged = f.merged /\ h.images = f.images
    /\ h.notes = f.notes
    /\ \A o \in cl_Services : CL!LabelsOf(f, o) = CL!LabelsOf(g, o) /\ CL!ImageOf(f, o) = CL!ImageOf(g, o)
    /\ \A o \in cl_Services : CL!ImageOf(h, o) = CL!ImageOf(f, o)
    /\ \A o \in cl_Services \ {s} : CL!LabelsOf(h, o) = CL!LabelsOf(f, o)
    /\ s \in cl_Extends => CL!LabelsOf(h, s).transform # "blank"

FinalFile(f, h, s, form, N) ==
    [[h EXCEPT !.images[f.img[s]] = CL!Image(form, cl_plan.tag)] EXCEPT !.notes[s] = N]

LEMMA Finished ==
  ASSUME PlanOK, NEW g, NEW f, NEW h, NEW s \in cl_Services, Relabelled(g, f, h, s),
         CL!OwnImage(g, s), NEW form \in {"tag", "digest"}, NEW N \in SUBSET cl_Tags, NEW r,
         r = FinalFile(f, h, s, form, N)
  PROVE  /\ GoodFile(r) /\ \A o \in cl_Services \ {s} : Same(g, r, o)
         /\ CL!LabelsOf(r, s) = CL!LabelsOf(h, s) /\ CL!ImageOf(r, s).of = cl_plan.tag /\ r.notes[s] = N
<1> USE DEF Relabelled
<1> DEFINE i == CL!Image(form, cl_plan.tag)
           h1 == [h EXCEPT !.images[h.img[s]] = i]
           h2 == [h1 EXCEPT !.notes[s] = N]
<1>1. i \in CL!Images /\ i # CL!Garbled /\ i.of = cl_plan.tag
  BY DEF CL!Images, CL!Image, CL!Garbled, PlanOK
<1> HIDE DEF i
<1>2. CL!OwnImage(h, s)
  BY DEF CL!OwnImage
<1>3. /\ h1 \in CL!Files /\ h1.img = h.img /\ h1.lab = h.lab /\ h1.merged = h.merged
      /\ h1.labels = h.labels /\ h1.notes = h.notes
      /\ CL!ImageOf(h1, s) = i /\ \A o \in cl_Services : CL!LabelsOf(h1, o) = CL!LabelsOf(h, o)
      /\ \A o \in cl_Services \ {s} : CL!ImageOf(h1, o) = CL!ImageOf(h, o)
      /\ \A n \in CL!Nodes : h1.images[n] \in {i, h.images[n]}
  BY <1>1, <1>2, ImageSet
<1> HIDE DEF h1
<1>4. /\ h2 \in CL!Files /\ h2.img = h1.img /\ h2.lab = h1.lab /\ h2.merged = h1.merged
      /\ h2.labels = h1.labels /\ h2.images = h1.images
      /\ h2.notes[s] = N /\ \A o \in cl_Services \ {s} : h2.notes[o] = h1.notes[o]
      /\ \A o \in cl_Services : CL!LabelsOf(h2, o) = CL!LabelsOf(h1, o) /\ CL!ImageOf(h2, o) = CL!ImageOf(h1, o)
  BY <1>3, NotesSet
<1>5. r = h2
  BY DEF h1, i, FinalFile
<1> HIDE DEF h2
<1>6. \A o \in cl_Services \ {s} : Same(g, r, o)
  BY <1>3, <1>4, <1>5 DEF Same
<1>7. \A n \in CL!Nodes : r.images[n] # CL!Garbled
  <2>1. \A n \in CL!Nodes : f.images[n] # CL!Garbled
    BY DEF GoodFile, WellFormed
  <2>2. r.images = h1.images /\ h.images = f.images
    BY <1>4, <1>5
  <2>3. \A n \in CL!Nodes : h1.images[n] = i \/ h1.images[n] = h.images[n]
    BY <1>3
  <2> HIDE DEF CL!Garbled
  <2> QED
    BY <1>1, <2>1, <2>2, <2>3
<1>8. ASSUME NEW o \in cl_Services \cap cl_Extends
      PROVE  CL!LabelsOf(r, o).transform # "blank"
  BY <1>3, <1>4, <1>5, <1>8 DEF GoodFile, WellFormed
<1>9. WellFormed(r)
  BY <1>3, <1>4, <1>5, <1>7, <1>8, StaysWell DEF GoodFile
<1> QED
  BY <1>1, <1>3, <1>4, <1>5, <1>6, <1>9 DEF GoodFile

LEMMA IncludesDiffer ==
  ASSUME NEW t, NEW k
  PROVE  /\ CL!Image("tag", t).form = "tag" /\ CL!Image("tag", t).of = t
         /\ CL!NoInclude.k = "none" /\ CL!Exact(t).k = "exact" /\ CL!Exact(t).t = t
BY DEF CL!Image, CL!NoInclude, CL!Include, CL!Exact

(* The label that is replaced is no foreign one, or its replacement approved. *)
LEMMA RetagMayReplace ==
  ASSUME PlanOK, cl_plan.op = "pinStream" => CL!StreamsApproved, NEW f, NEW s \in CL!Range(cl_plan.targets),
         CL!ImageExpected(f, s), CL!RetagLabelAllowed(f, s), cl_plan.op # "track",
         NEW c, c = CL!LabelsOf(f, s).include, c \in CL!Includes
  PROVE  \/ ~CL!Foreign(c) \/ c = CL!Proposed(cl_plan.op, cl_plan.tag)
         \/ \E a \in cl_approvals : a.s = s /\ a.tag = cl_plan.tag /\ a.current = c
<1>0. \A op : CL!Approved(op, s, c, cl_plan.tag) =>
          \E a \in cl_approvals : a.s = s /\ a.tag = cl_plan.tag /\ a.current = c
  BY DEF CL!Approved
<1>1. c = CL!NoInclude \/ c.k = "exact" => ~CL!Foreign(c)
  BY DEF CL!Foreign, CL!NoInclude, CL!Include
<1>2. c.k = "plain" /\ (c.t = cl_plan.tag \/ cl_plan.old = CL!Image("tag", c.t)) => ~CL!Foreign(c)
  BY DEF CL!Foreign
<1>3. CASE cl_plan.op = "pinStream"
  <2>1. c = cl_plan.labels[s] \/ c = CL!Proposed(cl_plan.op, cl_plan.tag)
    BY <1>3 DEF CL!RetagLabelAllowed, CL!StreamUnchanged
  <2>2. CL!StreamApproved(s, cl_plan.labels[s], cl_plan.old, cl_plan.tag)
    BY <1>3 DEF CL!StreamsApproved
  <2>3. CL!Proposed("stream", cl_plan.tag) = CL!Proposed(cl_plan.op, cl_plan.tag)
    BY <1>3 DEF CL!Proposed
  <2> QED
    BY <1>0, <1>1, <1>2, <2>1, <2>2, <2>3 DEF CL!StreamApproved
<1>4. CASE cl_plan.op # "pinStream"
  <2>1. CL!PinMayReplace(cl_plan.op, s, c, CL!ImageOf(f, s), cl_plan.tag)
    BY <1>4 DEF CL!RetagLabelAllowed
  <2>2. CL!ImageOf(f, s) = cl_plan.old \/ CL!ImageOf(f, s) = CL!Image("tag", cl_plan.tag)
    BY DEF CL!ImageExpected, CL!ImageIs
  <2>3. CL!Image("tag", cl_plan.tag) = CL!Image("tag", c.t) => cl_plan.tag = c.t
    BY DEF CL!Image
  <2> QED
    BY <1>0, <1>1, <1>2, <2>1, <2>2, <2>3 DEF CL!PinMayReplace, CL!IsExactTag
<1> QED
  BY <1>3, <1>4

LEMMA TargetIs ==
  ASSUME PlanOK, NEW s \in CL!Range(cl_plan.targets)
  PROVE  s \in cl_Services
BY DEF PlanOK, CL!Range

LEMMA RetagStep ==
  ASSUME LabelShape, PlanOK, cl_plan.op = "pinStream" => CL!StreamsApproved,
         cl_plan.op \in {"pin", "pinStream", "retag"},
         NEW g, GoodFile(g), NEW s \in CL!Range(cl_plan.targets), NEW r \in CL!RetagRewritten(g, s)
  PROVE  LabelRewrite(g, r, s)
<1> DEFINE f == CL!Materialize(g, s)
           inc == CL!Proposed(cl_plan.op, cl_plan.tag)
           h == CL!AddTransform(CL!SetInclude(f, s, inc), s, cl_plan.tag, inc)
           form == IF cl_plan.op \in {"pin", "pinStream"} THEN "digest" ELSE "tag"
           N == IF cl_plan.op \in {"pin", "pinStream"} THEN {cl_plan.tag} ELSE {}
<1>0. s \in cl_Services
  BY TargetIs
<1>1. /\ CL!OwnImage(g, s) /\ CL!ImageExpected(g, s) /\ CL!OwnLabels(f, s) /\ CL!ListedOnce(f, s)
      /\ CL!RetagLabelAllowed(f, s) /\ CL!TransformAllowed(f, s)
      /\ r = CL!Marked([h EXCEPT !.images[f.img[s]] = CL!FinalImage], s)
  BY DEF CL!RetagRewritten, CL!Rewritable, CL!Labelled
<1>2. /\ GoodFile(f) /\ f.img = g.img /\ f.images = g.images /\ f.notes = g.notes
      /\ \A o \in cl_Services : CL!LabelsOf(f, o) = CL!LabelsOf(g, o) /\ CL!ImageOf(f, o) = CL!ImageOf(g, o)
  BY <1>0, MaterializeIs
<1> HIDE DEF f
<1>3. /\ h \in CL!Files /\ h.img = f.img /\ h.lab = f.lab /\ h.merged = f.merged
      /\ h.images = f.images /\ h.notes = f.notes
      /\ NewLabels(CL!LabelsOf(f, s), CL!LabelsOf(h, s), s)
      /\ \A o \in cl_Services \ {s} : CL!LabelsOf(h, o) = CL!LabelsOf(f, o)
      /\ \A o \in cl_Services : CL!ImageOf(h, o) = CL!ImageOf(f, o)
  BY <1>0, <1>1, <1>2, LabelledIs DEF GoodFile
<1> HIDE DEF h
<1>4. form \in {"tag", "digest"} /\ N \in SUBSET cl_Tags /\ CL!FinalImage = CL!Image(form, cl_plan.tag)
  BY DEF PlanOK, CL!FinalImage
<1>5. r = FinalFile(f, h, s, form, N)
  BY <1>1, <1>4 DEF CL!Marked, CL!Unmarked, FinalFile
<1>6. s \in cl_Extends => CL!LabelsOf(h, s).transform # "blank"
  BY <1>0, <1>1, <1>2, <1>3, RelabelKeeps
<1> HIDE DEF form, N
<1>7. /\ GoodFile(r) /\ \A o \in cl_Services \ {s} : Same(g, r, o)
      /\ CL!LabelsOf(r, s) = CL!LabelsOf(h, s) /\ CL!ImageOf(r, s).of = cl_plan.tag /\ r.notes[s] = N
  <2>1. Relabelled(g, f, h, s)
    BY <1>2, <1>3, <1>6 DEF Relabelled
  <2>2. PICK h0, m0, N0 : h0 = h /\ m0 = form /\ N0 = N
    OBVIOUS
  <2>3. /\ Relabelled(g, f, h0, s) /\ CL!OwnImage(g, s) /\ m0 \in {"tag", "digest"}
        /\ N0 \in SUBSET cl_Tags /\ r = FinalFile(f, h0, s, m0, N0)
    BY <1>1, <1>4, <1>5, <2>1, <2>2
  <2>4. /\ GoodFile(r) /\ \A o \in cl_Services \ {s} : Same(g, r, o)
        /\ CL!LabelsOf(r, s) = CL!LabelsOf(h0, s) /\ CL!ImageOf(r, s).of = cl_plan.tag /\ r.notes[s] = N0
    BY <1>0, <2>3, Finished
  <2> QED
    BY <2>2, <2>4
<1>8. /\ NewLabels(CL!LabelsOf(g, s), CL!LabelsOf(r, s), s) /\ CL!ListedOnce(g, s)
      /\ CL!TransformAllowed(g, s)
  BY <1>0, <1>1, <1>2, <1>3, <1>7 DEF CL!ListedOnce, CL!TransformAllowed, CL!TransformRefused,
     CL!TransformNeeded
<1>9. /\ CL!SeenInclude(g, s) = CL!LabelsOf(g, s).include /\ CL!SeenInclude(r, s) = inc
      /\ TransformStays(g, r, s) /\ ExcludeKept(g, r, s)
  BY <1>0, <1>8, RelabelKeeps
<1>10. IncludeKept(g, r, s)
  <2> DEFINE c == CL!LabelsOf(f, s).include
  <2>1. c \in CL!Includes /\ c = CL!SeenInclude(g, s)
    BY <1>0, <1>2, <1>9, ServiceIs DEF CL!Labels, GoodFile
  <2>2. CL!ImageExpected(f, s) /\ cl_plan.op # "track"
    BY <1>0, <1>1, <1>2 DEF CL!ImageExpected, CL!ImageIs
  <2>3. \/ ~CL!Foreign(c) \/ c = inc
        \/ \E a \in cl_approvals : a.s = s /\ a.tag = cl_plan.tag /\ a.current = c
    BY <2>1, <2>2, <1>1, RetagMayReplace
  <2> QED
    BY <2>1, <2>3, <1>9 DEF IncludeKept
<1>11. Watched(r, s)
  BY <1>7, <1>9, ProposedIs DEF Watched, N, PlanOK
<1> QED
  BY <1>7, <1>9, <1>10, <1>11 DEF LabelRewrite

LEMMA UnpinStep ==
  ASSUME LabelShape, PlanOK, cl_plan.op = "unpin",
         NEW g, GoodFile(g), NEW s \in CL!Range(cl_plan.targets), NEW r \in CL!UnpinRewritten(g, s)
  PROVE  LabelRewrite(g, r, s)
<1> DEFINE f == CL!Materialize(g, s)
           inc == CL!Proposed(cl_plan.op, cl_plan.tag)
           h == CL!AddTransform(CL!SetInclude(f, s, inc), s, cl_plan.tag, inc)
<1>0. s \in cl_Services
  BY TargetIs
<1>1. /\ CL!OwnImage(g, s) /\ CL!OwnLabels(f, s) /\ CL!ListedOnce(f, s)
      /\ CL!UnpinMayReplace(CL!LabelsOf(f, s).include, cl_plan.tag) /\ CL!TransformAllowed(f, s)
      /\ r = [CL!Unmarked(h, s) EXCEPT !.images[f.img[s]] = CL!Image("tag", cl_plan.tag)]
  BY DEF CL!UnpinRewritten, CL!Rewritable, CL!Labelled
<1>2. /\ GoodFile(f) /\ f.img = g.img /\ f.images = g.images /\ f.notes = g.notes
      /\ \A o \in cl_Services : CL!LabelsOf(f, o) = CL!LabelsOf(g, o) /\ CL!ImageOf(f, o) = CL!ImageOf(g, o)
  BY <1>0, MaterializeIs
<1> HIDE DEF f
<1>3. /\ h \in CL!Files /\ h.img = f.img /\ h.lab = f.lab /\ h.merged = f.merged
      /\ h.images = f.images /\ h.notes = f.notes
      /\ NewLabels(CL!LabelsOf(f, s), CL!LabelsOf(h, s), s)
      /\ \A o \in cl_Services \ {s} : CL!LabelsOf(h, o) = CL!LabelsOf(f, o)
      /\ \A o \in cl_Services : CL!ImageOf(h, o) = CL!ImageOf(f, o)
  BY <1>0, <1>1, <1>2, LabelledIs DEF GoodFile
<1> HIDE DEF h
<1>4. {} \in SUBSET cl_Tags
  OBVIOUS
<1>5. r = FinalFile(f, h, s, "tag", {})
  BY <1>1, <1>3 DEF CL!Unmarked, CL!Files, FinalFile
<1>6. s \in cl_Extends => CL!LabelsOf(h, s).transform # "blank"
  BY <1>0, <1>1, <1>2, <1>3, RelabelKeeps
<1>7. /\ GoodFile(r) /\ \A o \in cl_Services \ {s} : Same(g, r, o)
      /\ CL!LabelsOf(r, s) = CL!LabelsOf(h, s) /\ CL!ImageOf(r, s).of = cl_plan.tag /\ r.notes[s] = {}
  <2>1. Relabelled(g, f, h, s)
    BY <1>2, <1>3, <1>6 DEF Relabelled
  <2>2. PICK h0, m0, N0 : h0 = h /\ m0 = "tag" /\ N0 = {}
    OBVIOUS
  <2>3. /\ Relabelled(g, f, h0, s) /\ CL!OwnImage(g, s) /\ m0 \in {"tag", "digest"}
        /\ N0 \in SUBSET cl_Tags /\ r = FinalFile(f, h0, s, m0, N0)
    BY <1>1, <1>4, <1>5, <2>1, <2>2
  <2>4. /\ GoodFile(r) /\ \A o \in cl_Services \ {s} : Same(g, r, o)
        /\ CL!LabelsOf(r, s) = CL!LabelsOf(h0, s) /\ CL!ImageOf(r, s).of = cl_plan.tag /\ r.notes[s] = N0
    BY <1>0, <2>3, Finished
  <2> QED
    BY <2>2, <2>4
<1>8. /\ NewLabels(CL!LabelsOf(g, s), CL!LabelsOf(r, s), s) /\ CL!ListedOnce(g, s)
      /\ CL!TransformAllowed(g, s)
  BY <1>0, <1>1, <1>2, <1>3, <1>7 DEF CL!ListedOnce, CL!TransformAllowed, CL!TransformRefused,
     CL!TransformNeeded
<1>9. /\ CL!SeenInclude(g, s) = CL!LabelsOf(g, s).include /\ CL!SeenInclude(r, s) = inc
      /\ TransformStays(g, r, s) /\ ExcludeKept(g, r, s)
  BY <1>0, <1>8, RelabelKeeps
<1>10. IncludeKept(g, r, s)
  <2>1. CL!UnpinMayReplace(CL!SeenInclude(g, s), cl_plan.tag)
    BY <1>0, <1>1, <1>2, <1>9
  <2>2. ~CL!Foreign(CL!SeenInclude(g, s))
    BY <2>1 DEF CL!UnpinMayReplace, CL!Foreign, CL!NoInclude, CL!Include
  <2> QED
    BY <2>2 DEF IncludeKept
<1>11. Watched(r, s)
  BY <1>7, <1>9, ProposedIs DEF Watched, PlanOK
<1> QED
  BY <1>7, <1>9, <1>10, <1>11 DEF LabelRewrite

LEMMA TrackStep ==
  ASSUME LabelShape, PlanOK, cl_plan.op = "track",
         NEW g, GoodFile(g), NEW s \in CL!Range(cl_plan.targets), NEW r \in CL!TrackingRewritten(g, s)
  PROVE  LabelRewrite(g, r, s)
<1> DEFINE f == CL!Materialize(g, s)
           inc == CL!Proposed(cl_plan.op, cl_plan.tag)
           h == CL!AddTransform(CL!SetInclude(f, s, inc), s, cl_plan.tag, inc)
<1>0. s \in cl_Services
  BY TargetIs
<1>1. /\ CL!OwnLabels(f, s) /\ CL!ListedOnce(f, s) /\ CL!LabelsOf(f, s).include = cl_plan.labels[s]
      /\ CL!TransformAllowed(f, s) /\ r = h
  BY DEF CL!TrackingRewritten, CL!Labelled
<1>2. /\ GoodFile(f) /\ f.img = g.img /\ f.images = g.images /\ f.notes = g.notes
      /\ \A o \in cl_Services : CL!LabelsOf(f, o) = CL!LabelsOf(g, o) /\ CL!ImageOf(f, o) = CL!ImageOf(g, o)
  BY <1>0, MaterializeIs
<1> HIDE DEF f
<1>3. /\ h \in CL!Files /\ h.img = f.img /\ h.lab = f.lab /\ h.merged = f.merged
      /\ h.images = f.images /\ h.notes = f.notes
      /\ NewLabels(CL!LabelsOf(f, s), CL!LabelsOf(h, s), s)
      /\ \A o \in cl_Services \ {s} : CL!LabelsOf(h, o) = CL!LabelsOf(f, o)
      /\ \A o \in cl_Services : CL!ImageOf(h, o) = CL!ImageOf(f, o)
  BY <1>0, <1>1, <1>2, LabelledIs DEF GoodFile
<1> HIDE DEF h
<1>4. /\ CL!SeenInclude(f, s) = CL!LabelsOf(f, s).include
      /\ TransformStays(f, r, s) /\ ExcludeKept(f, r, s)
      /\ s \in cl_Extends => CL!LabelsOf(r, s).transform # "blank"
  BY <1>0, <1>1, <1>2, <1>3, RelabelKeeps
<1>5. Same(g, f, s)
  BY <1>0, <1>2 DEF Same
<1>6. /\ CL!SeenInclude(f, s) = CL!SeenInclude(g, s) /\ CL!SeenTransform(f, s) = CL!SeenTransform(g, s)
      /\ CL!LabelsOf(f, s) = CL!LabelsOf(g, s)
  BY <1>5, SameSeen DEF Same
<1>7. TransformStays(g, r, s) /\ ExcludeKept(g, r, s) /\ IncludeKept(g, r, s)
  BY <1>1, <1>4, <1>6 DEF TransformStays, ExcludeKept, IncludeKept
<1>8. \A o \in cl_Services \ {s} : Same(g, r, o)
  BY <1>1, <1>2, <1>3 DEF Same
<1>9. ASSUME NEW o \in cl_Services \cap cl_Extends
      PROVE  CL!LabelsOf(r, o).transform # "blank"
  <2>1. CL!LabelsOf(f, o).transform # "blank"
    BY <1>2 DEF GoodFile, WellFormed
  <2> QED
    BY <2>1, <1>1, <1>3, <1>4
<1>10. \A n \in CL!Nodes : r.images[n] # CL!Garbled
  BY <1>1, <1>2, <1>3 DEF GoodFile, WellFormed
<1>11. GoodFile(r)
  BY <1>1, <1>2, <1>3, <1>9, <1>10, StaysWell DEF GoodFile
<1> QED
  BY <1>7, <1>8, <1>11 DEF LabelRewrite, Watched, Watching

LEMMA LabelExclusionStep ==
  ASSUME LabelShape, PlanOK, cl_plan.op = "exclude",
         NEW g, GoodFile(g), NEW s \in CL!Range(cl_plan.targets), NEW r \in CL!ExclusionRewritten(g, s)
  PROVE  LabelRewrite(g, r, s)
<1> DEFINE f == CL!Materialize(g, s)
           l == CL!LabelsOf(f, s)
           k == [l EXCEPT !.exclude = @ \cup {"managed"}]
           h == [f EXCEPT !.labels[f.lab[s]] = k]
<1>0. s \in cl_Services
  BY TargetIs
<1>1. CL!OwnLabels(f, s) /\ "var" \notin l.exclude /\ r = h
  BY DEF CL!ExclusionRewritten, CL!LabelsOf
<1>2. /\ GoodFile(f) /\ f.img = g.img /\ f.images = g.images /\ f.notes = g.notes
      /\ \A o \in cl_Services : CL!LabelsOf(f, o) = CL!LabelsOf(g, o) /\ CL!ImageOf(f, o) = CL!ImageOf(g, o)
  BY <1>0, MaterializeIs
<1> HIDE DEF f
<1>3. l \in CL!Labels
  BY <1>0, <1>2, ServiceIs DEF GoodFile
<1> HIDE DEF l
<1>4. /\ k \in CL!Labels /\ k.include = l.include /\ k.second = l.second
      /\ k.transform = l.transform /\ l.exclude \subseteq k.exclude
  BY <1>3 DEF CL!Labels
<1> HIDE DEF k
<1>5. /\ h \in CL!Files /\ h.img = f.img /\ h.lab = f.lab /\ h.merged = f.merged
      /\ h.images = f.images /\ h.notes = f.notes
      /\ CL!LabelsOf(h, s) = k /\ \A o \in cl_Services : CL!ImageOf(h, o) = CL!ImageOf(f, o)
      /\ \A o \in cl_Services \ {s} : CL!LabelsOf(h, o) = CL!LabelsOf(f, o)
  BY <1>0, <1>1, <1>2, <1>4, LabelsSet DEF GoodFile
<1> HIDE DEF h
<1>6. CL!LabelsOf(g, s) = l /\ CL!LabelsOf(r, s) = k
  BY <1>0, <1>1, <1>2, <1>5 DEF l
<1>7. /\ CL!SeenInclude(r, s) = CL!SeenInclude(g, s) /\ CL!SeenTransform(r, s) = CL!SeenTransform(g, s)
  BY <1>4, <1>6 DEF CL!SeenInclude, CL!SeenTransform
<1>8. TransformStays(g, r, s) /\ ExcludeKept(g, r, s) /\ IncludeKept(g, r, s)
  BY <1>1, <1>4, <1>6, <1>7 DEF TransformStays, ExcludeKept, IncludeKept
<1>9. \A o \in cl_Services \ {s} : Same(g, r, o)
  BY <1>1, <1>2, <1>5 DEF Same
<1>10. ASSUME NEW o \in cl_Services \cap cl_Extends
       PROVE  CL!LabelsOf(r, o).transform # "blank"
  <2>1. CL!LabelsOf(f, o).transform # "blank"
    BY <1>2 DEF GoodFile, WellFormed
  <2> QED
    BY <2>1, <1>1, <1>4, <1>5 DEF l
<1>11. \A n \in CL!Nodes : r.images[n] # CL!Garbled
  BY <1>1, <1>2, <1>5 DEF GoodFile, WellFormed
<1>12. GoodFile(r)
  BY <1>1, <1>2, <1>5, <1>10, <1>11, StaysWell DEF GoodFile
<1> QED
  BY <1>8, <1>9, <1>12 DEF LabelRewrite, Watched, Watching

LEMMA LabelServiceStep ==
  ASSUME LabelShape, PlanOK, cl_plan.op \notin {"tag", "stream"},
         cl_plan.op = "pinStream" => CL!StreamsApproved,
         NEW g, GoodFile(g), NEW s \in CL!Range(cl_plan.targets), NEW r \in CL!ServiceRewritten(g, s)
  PROVE  LabelRewrite(g, r, s)
<1>1. cl_plan.op \in {"pin", "pinStream", "retag", "unpin", "track", "exclude"}
  BY DEF PlanOK, CL!Ops
<1>2. CASE cl_plan.op = "track"
  BY <1>2, TrackStep DEF CL!ServiceRewritten
<1>3. CASE cl_plan.op = "exclude"
  BY <1>3, LabelExclusionStep DEF CL!ServiceRewritten
<1>4. CASE cl_plan.op = "unpin"
  BY <1>4, UnpinStep DEF CL!ServiceRewritten
<1>5. CASE cl_plan.op \in {"pin", "pinStream", "retag"}
  <2>1. r \in CL!RetagRewritten(g, s)
    BY <1>5 DEF CL!ServiceRewritten
  <2> QED
    BY <2>1, <1>5, RetagStep
<1> QED
  BY <1>1, <1>2, <1>3, <1>4, <1>5

-----------------------------------------------------------------------------
(* A rewrite of all targets *)
LabelRewrites(g, r) ==
    /\ GoodFile(r) /\ Kept(g, r)
    /\ \A s \in CL!Range(cl_plan.targets) : Watched(r, s)
    /\ \A o \in cl_Services \ CL!Range(cl_plan.targets) : CL!Seen(r, o) = CL!Seen(g, o)

(* What the first k services have become *)
Turned(g, f, k) ==
    /\ GoodFile(f) /\ Kept(g, f)
    /\ \A i \in 1..k : Watched(f, cl_plan.targets[i])
    /\ \A o \in cl_Services : (\A i \in 1..k : cl_plan.targets[i] # o) => CL!Seen(f, o) = CL!Seen(g, o)

LEMMA TurnStep ==
  ASSUME PlanOK, NEW g, NEW f, NEW r, NEW k \in 1..Len(cl_plan.targets),
         Turned(g, f, k - 1), LabelRewrite(f, r, cl_plan.targets[k])
  PROVE  Turned(g, r, k)
<1> DEFINE s == cl_plan.targets[k]
<1>0. s \in cl_Services /\ \A i \in 1..Len(cl_plan.targets) : cl_plan.targets[i] \in cl_Services
  BY DEF PlanOK
<1>1. GoodFile(r) /\ Kept(g, r)
  <2>1. \A x \in cl_Services : LabelRewrite(f, r, x) => Kept(f, r)
    BY RewriteKeeps
  <2> QED
    BY <1>0, <2>1, KeptOn DEF Turned, LabelRewrite
<1>2. \A o \in cl_Services \ {s} : CL!Seen(r, o) = CL!Seen(f, o) /\ (Watched(f, o) => Watched(r, o))
  BY SameSeen DEF LabelRewrite
<1>3. Watched(r, s)
  BY DEF LabelRewrite
<1>4. 1..k = 1..(k - 1) \cup {k} /\ \A i \in 1..k : i \in 1..Len(cl_plan.targets)
  <2>1. Len(cl_plan.targets) \in Nat
    BY DEF PlanOK
  <2> QED
    BY <2>1
<1>5. \A i \in 1..k : Watched(r, cl_plan.targets[i])
  <2>1. SUFFICES ASSUME NEW i \in 1..k
                 PROVE  Watched(r, cl_plan.targets[i])
    OBVIOUS
  <2>2. PICK x : x = cl_plan.targets[i]
    OBVIOUS
  <2>3. x \in cl_Services
    BY <1>0, <1>4, <2>2
  <2>4. CASE x = s
    BY <1>3, <2>2, <2>4
  <2>5. CASE x # s
    <3>1. i # k /\ i \in 1..(k - 1)
      BY <2>2, <2>5, <1>4
    <3>2. Watched(f, x)
      BY <3>1, <2>2 DEF Turned
    <3> QED
      BY <3>2, <2>2, <2>3, <2>5, <1>2
  <2> QED
    BY <2>4, <2>5
<1>6. \A o \in cl_Services : (\A i \in 1..k : cl_plan.targets[i] # o) => CL!Seen(r, o) = CL!Seen(g, o)
  <2>1. SUFFICES ASSUME NEW o \in cl_Services, \A i \in 1..k : cl_plan.targets[i] # o
                 PROVE  CL!Seen(r, o) = CL!Seen(g, o)
    OBVIOUS
  <2>2. o # s /\ \A i \in 1..(k - 1) : cl_plan.targets[i] # o
    BY <2>1, <1>4
  <2>3. CL!Seen(f, o) = CL!Seen(g, o)
    BY <2>2 DEF Turned
  <2> QED
    BY <2>2, <2>3, <1>2
<1> QED
  BY <1>1, <1>5, <1>6 DEF Turned

LEMMA KeptSelf ==
  ASSUME NEW g
  PROVE  Kept(g, g)
<1>1. \A o : Same(g, g, o)
  BY DEF Same
<1> QED
  BY <1>1, SameSeen DEF Kept

LEMMA InTurnIs ==
  ASSUME LabelShape, PlanOK, cl_plan.op \notin {"tag", "stream"},
         cl_plan.op = "pinStream" => CL!StreamsApproved,
         NEW g, GoodFile(g), NEW r \in CL!InTurn(g)
  PROVE  LabelRewrites(g, r)
<1> DEFINE Fine == {f \in CL!Files : WellFormed(f)}
           Later(F, k) == UNION {CL!ServiceRewritten(f, cl_plan.targets[k]) : f \in F}
           N == Len(cl_plan.targets)
           Is(a) == a = [k \in 0..N |-> IF k = 0 THEN {g} ELSE Later(a[k - 1], k)]
           S == SUBSET Fine
<1>0. N \in Nat /\ \A k \in 1..N : cl_plan.targets[k] \in CL!Range(cl_plan.targets)
  BY DEF PlanOK, CL!Range
<1>1. ASSUME NEW k \in 1..N, NEW f, GoodFile(f), NEW x \in CL!ServiceRewritten(f, cl_plan.targets[k])
      PROVE  LabelRewrite(f, x, cl_plan.targets[k])
  <2>1. PICK s \in CL!Range(cl_plan.targets) : s = cl_plan.targets[k]
    BY <1>0
  <2>2. LabelRewrite(f, x, s)
    BY <1>1, <2>1, LabelServiceStep
  <2> QED
    BY <2>1, <2>2
<1>2. \A k \in 1..N, F \in S : Later(F, k) \in S
  <2>1. SUFFICES ASSUME NEW k \in 1..N, NEW F \in S, NEW f \in F,
                        NEW x \in CL!ServiceRewritten(f, cl_plan.targets[k])
                 PROVE  x \in Fine
    OBVIOUS
  <2>2. GoodFile(f)
    BY DEF GoodFile
  <2>3. GoodFile(x)
    BY <2>2, <1>1 DEF LabelRewrite
  <2> QED
    BY <2>3 DEF GoodFile
<1>3. PICK n, st : /\ n = N
                   /\ st = [k \in 1..N |-> [F \in S |-> Later(F, k)]]
  OBVIOUS
<1> HIDE DEF Later
<1>4. st \in [1..n -> [S -> S]] /\ n \in Nat /\ {g} \in S
  BY <1>0, <1>2, <1>3 DEF GoodFile
<1>5. PICK a : Steps(a, n, S, st, {g})
  BY <1>4, InSteps
<1>6. a \in [0..N -> S] /\ a[0] = {g} /\ \A k \in 1..N : a[k] = Later(a[k - 1], k)
  <2>1. a \in [0..N -> S] /\ a[0] = {g} /\ \A k \in 1..N : a[k] = st[k][a[k - 1]]
    BY <1>3, <1>5 DEF Steps
  <2> HIDE DEF S, N
  <2>2. \A k \in 1..N : a[k - 1] \in S
    <3>1. \A k \in 1..N : k - 1 \in 0..N
      BY <1>0
    <3> QED
      BY <2>1, <3>1
  <2> QED
    BY <2>1, <2>2, <1>3
<1>7. Is(a)
  <2>1. \A k \in 0..N : a[k] = IF k = 0 THEN {g} ELSE Later(a[k - 1], k)
    <3>1. ASSUME NEW k \in 0..N, k # 0
          PROVE  a[k] = Later(a[k - 1], k)
      <4>1. k \in 1..N
        BY <3>1, <1>0
      <4> HIDE DEF N
      <4> QED
        BY <4>1, <1>6
    <3> HIDE DEF N, S
    <3> QED
      BY <3>1, <1>6
  <2> HIDE DEF N, S
  <2> QED
    BY <2>1, <1>6
<1>8. PICK b : b = (CHOOSE x : Is(x)) /\ r \in b[N]
  BY DEF CL!InTurn, Later
<1>9. Is(b)
  <2> HIDE DEF Is
  <2> QED
    BY <1>7, <1>8
<1>10. \A k \in 0..N : b[k] = IF k = 0 THEN {g} ELSE Later(b[k - 1], k)
  BY <1>9
<1> DEFINE Bad == {k \in Nat : k <= N /\ \E f \in b[k] : ~Turned(g, f, k)}
<1>11. Bad = {}
  <2> SUFFICES ASSUME Bad # {} PROVE FALSE
    OBVIOUS
  <2>1. PICK B : B = Bad
    OBVIOUS
  <2>2. PICK k \in B : \A m \in B : k <= m
    <3>1. B \in SUBSET Nat /\ B # {}
      BY <2>1
    <3> QED
      BY <3>1, LeastMember
  <2>3. k \in Nat /\ k <= N /\ \E f \in b[k] : ~Turned(g, f, k)
    BY <2>1, <2>2
  <2>4. PICK x \in b[k] : ~Turned(g, x, k)
    BY <2>3
  <2>5. CASE k = 0
    <3>1. x = g
      BY <2>4, <2>5, <1>0, <1>10
    <3> QED
      BY <3>1, <2>4, <2>5, KeptSelf DEF Turned
  <2>6. CASE k # 0
    <3>1. k \in 1..N /\ k - 1 \in Nat /\ k - 1 <= N /\ k \in 0..N /\ ~(k <= k - 1)
      BY <2>3, <2>6, <1>0
    <3>2. \A f \in b[k - 1] : Turned(g, f, k - 1)
      <4>1. k - 1 \notin Bad
        BY <2>1, <2>2, <3>1
      <4> QED
        BY <4>1, <3>1
    <3>3. PICK f \in b[k - 1] : x \in CL!ServiceRewritten(f, cl_plan.targets[k])
      <4>1. b[k] = Later(b[k - 1], k)
        BY <2>6, <3>1, <1>10
      <4> HIDE DEF Is, Bad, N
      <4> QED
        BY <2>4, <4>1 DEF Later
    <3>4. Turned(g, f, k - 1)
      BY <3>2
    <3>5. LabelRewrite(f, x, cl_plan.targets[k])
      BY <3>1, <3>3, <3>4, <1>1 DEF Turned
    <3>6. Turned(g, x, k)
      BY <3>1, <3>4, <3>5, TurnStep
    <3> QED
      BY <2>4, <3>6
  <2> QED
    BY <2>5, <2>6
<1>12. Turned(g, r, N)
  <2>1. N \notin Bad /\ N <= N
    BY <1>0, <1>11
  <2> QED
    BY <1>0, <1>8, <2>1
<1>13. CL!Range(cl_plan.targets) = {cl_plan.targets[i] : i \in 1..N}
  BY DEF PlanOK, CL!Range
<1> QED
  BY <1>12, <1>13 DEF Turned, LabelRewrites

-----------------------------------------------------------------------------
(* The rewrites in the text *)
TagsWritten(g, r) ==
    /\ GoodFile(r) /\ r.lab = g.lab /\ r.merged = g.merged /\ r.labels = g.labels
    /\ r.notes = g.notes /\ r.img = g.img
    /\ \A s \in CL!Range(cl_plan.targets) : CL!ImageOf(r, s) = CL!Image("tag", cl_plan.tag)
    /\ \A o \in cl_Services \ CL!Range(cl_plan.targets) : CL!ImageOf(r, o) = CL!ImageOf(g, o)
    /\ \A o \in cl_Services : CL!LabelsOf(r, o) = CL!LabelsOf(g, o)

LEMMA LabelCounts == \A S : CL!Cardinality(S) = Cardinality(S)
BY Zenon DEF CL!Cardinality, Cardinality

LEMMA TagsIs ==
  ASSUME LabelShape, PlanOK, NEW g, GoodFile(g), NEW r \in CL!TagsRewritten(g)
  PROVE  TagsWritten(g, r)
<1> DEFINE T == CL!Range(cl_plan.targets)
           Once(s) == CL!Cardinality({i \in DOMAIN cl_plan.targets : cl_plan.targets[i] = s}) = 1
           touched(n) == \E s \in T : g.img[s] = n
           i == CL!Image("tag", cl_plan.tag)
           I == [n \in CL!Nodes |->
                   IF ~touched(n) THEN g.images[n]
                   ELSE IF \A s \in T : g.img[s] = n => Once(s) THEN CL!Image("tag", cl_plan.tag)
                   ELSE CL!Garbled]
<1>1. /\ CL!SpansUnique(cl_plan.targets) /\ \A s \in T : CL!Rewritable(g, s)
      /\ r = [g EXCEPT !.images = I]
  BY DEF CL!TagsRewritten
<1>2. T \subseteq cl_Services
  BY TargetIs
<1>3. ASSUME NEW s \in T
      PROVE  Once(s)
  <2>1. PICK j \in DOMAIN cl_plan.targets : cl_plan.targets[j] = s
    BY DEF CL!Range
  <2>2. {x \in DOMAIN cl_plan.targets : cl_plan.targets[x] = s} = {j}
    BY <1>1, <2>1 DEF CL!SpansUnique, CL!IsInjective
  <2> QED
    BY <2>2, FS_Singleton, LabelCounts
<1>4. i \in CL!Images /\ i # CL!Garbled
  BY DEF CL!Images, CL!Image, CL!Garbled, PlanOK
<1>5. g \in CL!Files /\ g.images \in [CL!Nodes -> CL!Images] /\ g.img \in [cl_Services -> CL!Nodes]
      /\ \A n \in CL!Nodes : g.images[n] # CL!Garbled
  BY FileIs DEF GoodFile, WellFormed
<1> HIDE DEF Once
<1>6. \A n \in CL!Nodes : I[n] = IF touched(n) THEN i ELSE g.images[n]
  <2> DEFINE All(n) == \A s \in T : g.img[s] = n => Once(s)
  <2>1. \A n \in CL!Nodes : All(n)
    BY <1>3
  <2>2. \A n \in CL!Nodes : I[n] = IF ~touched(n) THEN g.images[n]
                                    ELSE IF All(n) THEN i ELSE CL!Garbled
    OBVIOUS
  <2> HIDE DEF All, I, i, T
  <2> SUFFICES ASSUME NEW n \in CL!Nodes
               PROVE  I[n] = IF touched(n) THEN i ELSE g.images[n]
    OBVIOUS
  <2>3. PICK p \in BOOLEAN : p = touched(n)
    BY DEF touched
  <2>4. PICK q \in BOOLEAN : q = All(n)
    BY DEF All
  <2>5. I[n] = IF ~p THEN g.images[n] ELSE IF q THEN i ELSE CL!Garbled
    BY <2>2, <2>3, <2>4
  <2>6. q = TRUE
    BY <2>1, <2>4
  <2>7. CASE p = TRUE
    <3>1. I[n] = i
      BY <2>5, <2>6, <2>7
    <3> QED
      BY <2>3, <2>7, <3>1
  <2>8. CASE p = FALSE
    <3>1. I[n] = g.images[n]
      BY <2>5, <2>8
    <3> QED
      BY <2>3, <2>8, <3>1
  <2> QED
    BY <2>7, <2>8
<1> HIDE DEF I
<1>7. I \in [CL!Nodes -> CL!Images]
  <2>1. I = [n \in CL!Nodes |-> I[n]]
    BY DEF I
  <2> HIDE DEF i, T
  <2> QED
    BY <1>4, <1>5, <1>6, <2>1
<1>8. /\ r \in CL!Files /\ r.img = g.img /\ r.lab = g.lab /\ r.merged = g.merged
      /\ r.labels = g.labels /\ r.notes = g.notes /\ r.images = I
  BY <1>1, <1>5, <1>7, FileIs DEF CL!Files
<1>9. \A n \in CL!Nodes : r.images[n] # CL!Garbled
  <2> HIDE DEF i, T, CL!Garbled
  <2> QED
    BY <1>4, <1>5, <1>6, <1>8
<1>10. \A s \in T : CL!ImageOf(r, s) = i
  BY <1>2, <1>5, <1>6, <1>8 DEF CL!ImageOf
<1>11. \A o \in cl_Services \ T : ~touched(g.img[o])
  BY <1>1, <1>2 DEF CL!Rewritable, CL!OwnImage
<1>12. \A o \in cl_Services \ T : CL!ImageOf(r, o) = CL!ImageOf(g, o)
  BY <1>5, <1>6, <1>8, <1>11 DEF CL!ImageOf
<1>13. \A o \in cl_Services : CL!LabelsOf(r, o) = CL!LabelsOf(g, o)
  BY <1>8 DEF CL!LabelsOf
<1>14. \A s \in cl_Services \cap cl_Extends : CL!LabelsOf(r, s).transform # "blank"
  BY <1>13 DEF GoodFile, WellFormed
<1>15. GoodFile(r)
  BY <1>8, <1>9, <1>14, StaysWell DEF GoodFile
<1> QED
  BY <1>8, <1>10, <1>12, <1>13, <1>15 DEF TagsWritten

LEMMA TagsStep ==
  ASSUME LabelShape, PlanOK, cl_plan.op = "tag", NEW g, GoodFile(g), NEW r \in CL!TagsRewritten(g)
  PROVE  LabelRewrites(g, r)
<1>1. TagsWritten(g, r)
  BY TagsIs
<1>2. ASSUME NEW s \in cl_Services
      PROVE  /\ CL!SeenInclude(r, s) = CL!SeenInclude(g, s) /\ CL!SeenTransform(r, s) = CL!SeenTransform(g, s)
             /\ CL!LabelsOf(r, s) = CL!LabelsOf(g, s)
  BY <1>1 DEF TagsWritten, CL!SeenInclude, CL!SeenTransform
<1>3. Kept(g, r)
  BY <1>2 DEF Kept, IncludeKept, ExcludeKept, TransformStays
<1>4. \A o \in cl_Services \ CL!Range(cl_plan.targets) : CL!Seen(r, o) = CL!Seen(g, o)
  BY <1>1, <1>2 DEF TagsWritten, CL!Seen
<1> QED
  BY <1>1, <1>3, <1>4 DEF LabelRewrites, TagsWritten, Watched, Watching

LEMMA StreamsStep ==
  ASSUME LabelShape, PlanOK, cl_plan.op = "stream", NEW g, GoodFile(g),
         NEW r \in CL!StreamsRewritten(g)
  PROVE  LabelRewrites(g, r)
<1> DEFINE T == CL!Range(cl_plan.targets)
           inc == CL!Proposed("stream", cl_plan.tag)
<1>1. /\ CL!StreamsApproved
      /\ \A s \in T : CL!OwnLabels(g, s) /\ CL!ListedOnce(g, s)
                      /\ CL!StreamUnchanged(s, CL!LabelsOf(g, s).include)
      /\ \E t \in CL!TagsRewritten(g) : r = CL!SetIncludeInText(t, T, inc)
  BY DEF CL!StreamsRewritten, CL!Labelled
<1>2. PICK t \in CL!TagsRewritten(g) : r = CL!SetIncludeInText(t, T, inc)
  BY <1>1
<1>3. TagsWritten(g, t)
  BY TagsIs
<1>4. T \subseteq cl_Services
  BY TargetIs
<1>5. inc \in CL!Includes /\ CL!Accepts(inc, cl_plan.tag)
  BY ProposedIs DEF PlanOK
<1>6. /\ t \in CL!Files /\ t.labels = g.labels /\ t.lab = g.lab /\ t.labels \in [CL!Nodes -> CL!Labels]
      /\ t.lab \in [cl_Services -> CL!Nodes]
  BY <1>3, FileIs DEF TagsWritten, GoodFile
<1> DEFINE With(l) == [l EXCEPT !.include = inc]
           L == [n \in CL!Nodes |-> IF \E s \in T : t.lab[s] = n THEN With(t.labels[n]) ELSE t.labels[n]]
<1>7. r = [t EXCEPT !.labels = L]
  BY <1>2 DEF CL!SetIncludeInText
<1> HIDE DEF inc, T
<1>8. \A l \in CL!Labels : /\ With(l) \in CL!Labels /\ With(l).include = inc
                           /\ With(l).second = l.second /\ With(l).exclude = l.exclude
                           /\ With(l).transform = l.transform
  BY <1>5 DEF CL!Labels
<1> HIDE DEF With
<1>9. L \in [CL!Nodes -> CL!Labels]
  BY <1>6, <1>8
<1> HIDE DEF L
<1>10. /\ r \in CL!Files /\ r.img = t.img /\ r.lab = t.lab /\ r.merged = t.merged
       /\ r.images = t.images /\ r.notes = t.notes /\ r.labels = L
  BY <1>6, <1>7, <1>9, FileIs DEF CL!Files
<1>11. \A s \in cl_Services : CL!LabelsOf(r, s) = IF s \in T THEN With(CL!LabelsOf(g, s)) ELSE CL!LabelsOf(g, s)
  <2>1. SUFFICES ASSUME NEW s \in cl_Services
                 PROVE  L[g.lab[s]] = IF s \in T THEN With(g.labels[g.lab[s]])
                                      ELSE g.labels[g.lab[s]]
    BY <1>6, <1>10 DEF CL!LabelsOf
  <2>2. g.lab[s] \in CL!Nodes
    BY <1>6
  <2>3. s \notin T => ~\E x \in T : g.lab[x] = g.lab[s]
    BY <1>1, <1>4 DEF CL!OwnLabels
  <2> QED
    BY <2>2, <2>3, <1>6 DEF L
<1>12. \A s \in cl_Services : CL!ImageOf(r, s) = CL!ImageOf(t, s) /\ r.notes[s] = g.notes[s]
  BY <1>3, <1>10 DEF CL!ImageOf, TagsWritten
<1>13. \A s \in cl_Services : CL!LabelsOf(g, s) \in CL!Labels
  BY ServiceIs DEF GoodFile
<1>14. \A s \in cl_Services : /\ CL!LabelsOf(r, s).exclude = CL!LabelsOf(g, s).exclude
                              /\ CL!LabelsOf(r, s).transform = CL!LabelsOf(g, s).transform
                              /\ CL!LabelsOf(r, s).second = CL!LabelsOf(g, s).second
  BY <1>8, <1>11, <1>13
<1>15. \A s \in T : CL!SeenInclude(r, s) = inc /\ CL!SeenInclude(g, s) = CL!LabelsOf(g, s).include
  <2>1. \A s \in T : CL!LabelsOf(r, s).include = inc /\ CL!LabelsOf(g, s).second = CL!NoInclude
    BY <1>1, <1>4, <1>8, <1>11, <1>13 DEF CL!ListedOnce
  <2> QED
    BY <2>1, <1>4, <1>14 DEF CL!SeenInclude
<1>16. GoodFile(r)
  <2>1. \A n \in CL!Nodes : r.images[n] # CL!Garbled
    BY <1>3, <1>10 DEF TagsWritten, GoodFile, WellFormed
  <2>2. \A s \in cl_Services \cap cl_Extends : CL!LabelsOf(r, s).transform # "blank"
    BY <1>14 DEF GoodFile, WellFormed
  <2>3. r.lab = g.lab /\ r.merged = g.merged
    BY <1>3, <1>10 DEF TagsWritten
  <2> QED
    BY <1>10, <2>1, <2>2, <2>3, StaysWell DEF GoodFile
<1>17. ASSUME NEW s \in cl_Services
       PROVE  IncludeKept(g, r, s)
  <2>1. CASE s \notin T
    <3>1. CL!LabelsOf(r, s) = CL!LabelsOf(g, s)
      BY <2>1, <1>11
    <3> QED
      BY <3>1 DEF IncludeKept, CL!SeenInclude
  <2>2. CASE s \in T
    <3> DEFINE c == CL!LabelsOf(g, s).include
    <3>1. c = cl_plan.labels[s] /\ CL!StreamApproved(s, cl_plan.labels[s], cl_plan.old, cl_plan.tag)
      BY <2>2, <1>1 DEF CL!StreamUnchanged, CL!StreamsApproved, T
    <3>2. \/ c = CL!NoInclude \/ c = inc
          \/ c.k = "exact" \/ (c.k = "plain" /\ cl_plan.old = CL!Image("tag", c.t))
          \/ CL!Approved("stream", s, c, cl_plan.tag)
      BY <3>1 DEF CL!StreamApproved, inc
    <3>3. c = CL!NoInclude \/ c.k = "exact" \/ (c.k = "plain" /\ cl_plan.old = CL!Image("tag", c.t))
             => ~CL!Foreign(c)
      BY DEF CL!Foreign, CL!NoInclude, CL!Include
    <3>4. CL!Approved("stream", s, c, cl_plan.tag) =>
             \E a \in cl_approvals : a.s = s /\ a.tag = cl_plan.tag /\ a.current = c
      BY DEF CL!Approved
    <3>5. CL!SeenInclude(g, s) = c /\ CL!SeenInclude(r, s) = inc
      BY <2>2, <1>15
    <3> HIDE DEF c
    <3> QED
      BY <3>2, <3>3, <3>4, <3>5 DEF IncludeKept
  <2> QED
    BY <2>1, <2>2
<1>18. \A s \in cl_Services : ExcludeKept(g, r, s) /\ TransformStays(g, r, s)
  BY <1>14 DEF ExcludeKept, TransformStays, CL!SeenTransform
<1>19. \A s \in T : Watched(r, s)
  <2>1. SUFFICES ASSUME NEW s \in T
                 PROVE  Watched(r, s)
    OBVIOUS
  <2>2. CL!ImageOf(r, s) = CL!Image("tag", cl_plan.tag)
    BY <1>3, <1>4, <1>12 DEF TagsWritten, T
  <2>3. CL!ImageOf(r, s).of = cl_plan.tag
    BY <2>2 DEF CL!Image
  <2> QED
    BY <2>3, <1>5, <1>15 DEF Watched
<1>20. \A o \in cl_Services \ T : CL!Seen(r, o) = CL!Seen(g, o)
  <2>1. SUFFICES ASSUME NEW o \in cl_Services \ T
                 PROVE  CL!Seen(r, o) = CL!Seen(g, o)
    OBVIOUS
  <2>2. Same(g, r, o)
    BY <1>3, <1>11, <1>12 DEF Same, TagsWritten, T
  <2> QED
    BY <2>2, SameSeen
<1> QED
  BY <1>16, <1>17, <1>18, <1>19, <1>20 DEF LabelRewrites, Kept, T

LEMMA Renders ==
  ASSUME LabelShape, PlanOK, NEW g, GoodFile(g), NEW r \in CL!Rendered(g)
  PROVE  LabelRewrites(g, r)
<1>1. CASE cl_plan.op = "tag"
  BY <1>1, TagsStep DEF CL!Rendered
<1>2. CASE cl_plan.op = "stream"
  BY <1>2, StreamsStep DEF CL!Rendered
<1>3. CASE cl_plan.op \notin {"tag", "stream"}
  <2>1. r \in CL!InTurn(g) /\ (cl_plan.op = "pinStream" => CL!StreamsApproved)
    BY <1>3 DEF CL!Rendered
  <2> QED
    BY <1>3, <2>1, InTurnIs
<1> QED
  BY <1>1, <1>2, <1>3

-----------------------------------------------------------------------------
(* The file, the rendered text and its source are good files, and the text    *)
(* is a rewrite of the source for the request.                                *)
LabelInv ==
    /\ CL!TypeOK /\ GoodFile(cl_file) /\ GoodFile(cl_text) /\ GoodFile(cl_source)
    /\ cl_stage # "idle" => PlanOK
    /\ cl_stage = "rendered" => LabelRewrites(cl_source, cl_text)

LEMMA NoFileIs ==
  ASSUME LabelShape
  PROVE  /\ GoodFile(CL!NoFile) /\ CL!NoFile \in CL!Files
         /\ CL!NoPlan.op = "none" /\ CL!NoPlan.labels \in [cl_Services -> CL!Includes]
<1>1. CL!NoFile \in cl_StartFiles
  BY DEF CL!NoFile, LabelShape
<1>2. CL!NoInclude \in CL!Includes
  BY DEF CL!Includes
<1> QED
  BY <1>1, <1>2 DEF LabelShape, GoodFile, CL!NoPlan

LEMMA LabelInit ==
  ASSUME LabelShape, CL!Init
  PROVE  LabelInv
<1>1. GoodFile(cl_file) /\ GoodFile(cl_text) /\ GoodFile(cl_source)
  BY NoFileIs DEF CL!Init, LabelShape, GoodFile
<1>2. CL!TypeOK
  BY <1>1, NoFileIs DEF CL!Init, CL!TypeOK, LabelShape, GoodFile
<1> QED
  BY <1>1, <1>2 DEF CL!Init, LabelInv

(* What is rendered stays a rewrite while the request and the approvals stay. *)
LEMMA RewritesStay ==
  ASSUME LabelRewrites(cl_source, cl_text), UNCHANGED <<cl_plan, cl_approvals, cl_source, cl_text>>
  PROVE  LabelRewrites(cl_source, cl_text)'
<1>1. PICK f, r : f = cl_source /\ r = cl_text
  OBVIOUS
<1>2. LabelRewrites(f, r)
  BY <1>1
<1>3. Kept(f, r)'
  BY <1>2 DEF LabelRewrites, Kept, IncludeKept, CL!Foreign
<1>4. \A s \in CL!Range(cl_plan.targets) : Watched(r, s)'
  BY <1>2 DEF LabelRewrites, Watched, Watching
<1>5. GoodFile(r) /\ \A o \in cl_Services \ CL!Range(cl_plan.targets) : CL!Seen(r, o) = CL!Seen(f, o)
  BY <1>2 DEF LabelRewrites
<1>6. f = cl_source' /\ r = cl_text' /\ cl_plan' = cl_plan
  BY <1>1
<1> QED
  BY <1>3, <1>4, <1>5, <1>6 DEF LabelRewrites

LEMMA PlanStays ==
  ASSUME PlanOK, UNCHANGED cl_plan
  PROVE  PlanOK'
BY DEF PlanOK

LEMMA PreviewStep ==
  ASSUME LabelShape, LabelInv, NEW op \in CL!Ops, NEW targets \in cl_Targets, NEW t \in cl_Tags,
         CL!Preview(op, targets, t)
  PROVE  LabelInv'
<1>0. /\ cl_stage = "idle" /\ cl_stage' = "shown" /\ cl_previews < cl_MaxPreviews /\ cl_previews' = cl_previews + 1
      /\ UNCHANGED <<cl_file, cl_approvals, cl_text, cl_source, cl_edits>>
      /\ cl_plan' = [op |-> op, targets |-> targets, tag |-> t, old |-> CL!ImageOf(cl_file, Head(targets)),
                     labels |-> [s \in cl_Services |->
                       IF s \in CL!Range(targets) /\ op \in CL!ReadsLabel
                       THEN CL!LabelsOf(cl_file, s).include ELSE CL!NoInclude],
                     transforms |-> [s \in cl_Services |->
                       IF op \in CL!TransformOps THEN CL!SeenTransform(cl_file, s) ELSE "none"],
                     source |-> IF op = "track" THEN cl_file ELSE CL!NoFile]
  BY DEF CL!Preview
<1>1. /\ CL!TypeOK /\ GoodFile(cl_file) /\ GoodFile(cl_text) /\ GoodFile(cl_source)
  BY DEF LabelInv
<1>2. \A s \in cl_Services : CL!LabelsOf(cl_file, s).include \in CL!Includes
  BY <1>1, ServiceIs DEF GoodFile, CL!Labels
<1>3. CL!NoInclude \in CL!Includes /\ targets \in Seq(cl_Services)
  BY DEF CL!Includes, LabelShape
<1>4. cl_plan'.labels \in [cl_Services -> CL!Includes]
  BY <1>0, <1>2, <1>3
<1>5. /\ cl_plan'.op = op /\ cl_plan'.tag = t /\ cl_plan'.targets = targets
      /\ cl_plan'.transforms = [s \in cl_Services |->
            IF op \in CL!TransformOps THEN CL!SeenTransform(cl_file, s) ELSE "none"]
  BY <1>0
<1>6. \A s \in cl_Services \cap cl_Extends : CL!SeenTransform(cl_file, s) # "none"
  BY <1>1 DEF CL!SeenTransform, GoodFile, WellFormed
<1>7. PlanOK'
  BY <1>3, <1>4, <1>5, <1>6 DEF PlanOK
<1>8. CL!TypeOK'
  <2>1. cl_previews' \in 0..cl_MaxPreviews
    BY <1>0, <1>1 DEF CL!TypeOK, LabelShape
  <2> QED
    BY <1>0, <1>1, <1>4, <1>5, <2>1 DEF CL!TypeOK
<1> QED
  BY <1>0, <1>1, <1>7, <1>8 DEF LabelInv

LEMMA ApproveStep ==
  ASSUME LabelShape, LabelInv, NEW s \in cl_Services, CL!Approve(s)
  PROVE  LabelInv'
<1>0. /\ cl_stage = "shown" /\ cl_stage' = "idle" /\ cl_plan' = CL!NoPlan
      /\ cl_approvals' = cl_approvals \cup {[op |-> IF cl_plan.op = "pin" THEN "pin" ELSE "stream",
                                             s |-> s, current |-> cl_plan.labels[s], tag |-> cl_plan.tag]}
      /\ UNCHANGED <<cl_file, cl_text, cl_source, cl_edits, cl_previews>>
  BY DEF CL!Approve
<1>1. /\ CL!TypeOK /\ GoodFile(cl_file) /\ GoodFile(cl_text) /\ GoodFile(cl_source) /\ PlanOK
  BY <1>0 DEF LabelInv
<1>2. cl_plan.labels[s] \in CL!Includes /\ cl_plan.tag \in cl_Tags
  BY <1>1 DEF PlanOK
<1>3. cl_approvals' \subseteq [op : {"pin", "stream"}, s : cl_Services, current : CL!Includes, tag : cl_Tags]
  BY <1>0, <1>1, <1>2 DEF CL!TypeOK
<1>4. CL!TypeOK'
  BY <1>0, <1>1, <1>3, NoFileIs DEF CL!TypeOK
<1> QED
  BY <1>0, <1>1, <1>4 DEF LabelInv

LEMMA RenderStep ==
  ASSUME LabelShape, LabelInv, CL!Render
  PROVE  LabelInv'
<1>0. cl_stage = "shown" /\ UNCHANGED <<cl_file, cl_approvals, cl_edits, cl_previews>>
  BY DEF CL!Render
<1>1. /\ CL!TypeOK /\ GoodFile(cl_file) /\ GoodFile(cl_text) /\ GoodFile(cl_source) /\ PlanOK
  BY <1>0 DEF LabelInv
<1>2. CASE cl_stage' = "idle" /\ cl_plan' = CL!NoPlan /\ UNCHANGED <<cl_text, cl_source>>
  <2>1. CL!TypeOK'
    BY <1>0, <1>1, <1>2, NoFileIs DEF CL!TypeOK
  <2> QED
    BY <2>1, <1>0, <1>1, <1>2 DEF LabelInv
<1>3. CASE cl_text' \in CL!Rendered(cl_file) /\ cl_source' = cl_file /\ cl_stage' = "rendered" /\ cl_plan' = cl_plan
  <2>1. PICK f, r : f = cl_file /\ r = cl_text'
    OBVIOUS
  <2>2. LabelRewrites(f, r)
    <3>1. r \in CL!Rendered(f) /\ GoodFile(f)
      BY <2>1, <1>1, <1>3
    <3> QED
      BY <3>1, <1>1, Renders
  <2>3. Kept(f, r)'
    BY <2>2, <1>0, <1>3 DEF LabelRewrites, Kept, IncludeKept, CL!Foreign
  <2>4. \A s \in CL!Range(cl_plan.targets) : Watched(r, s)'
    BY <2>2, <1>3 DEF LabelRewrites, Watched, Watching
  <2>5. GoodFile(r) /\ \A o \in cl_Services \ CL!Range(cl_plan.targets) : CL!Seen(r, o) = CL!Seen(f, o)
    BY <2>2 DEF LabelRewrites
  <2>6. f = cl_source' /\ r = cl_text'
    BY <2>1, <1>3
  <2>7. LabelRewrites(cl_source, cl_text)'
    BY <2>3, <2>4, <2>5, <2>6, <1>3 DEF LabelRewrites
  <2>8. GoodFile(cl_text') /\ GoodFile(cl_source')
    BY <2>5, <2>6, <1>1, <1>3
  <2>9. PlanOK'
    BY <1>1, <1>3, PlanStays
  <2>10. CL!TypeOK'
    BY <2>8, <1>0, <1>1, <1>3 DEF CL!TypeOK, GoodFile
  <2> QED
    BY <2>7, <2>8, <2>9, <2>10, <1>0, <1>1 DEF LabelInv
<1> QED
  BY <1>2, <1>3 DEF CL!Render

LEMMA ReplaceStep ==
  ASSUME LabelShape, LabelInv, CL!Replace
  PROVE  LabelInv'
<1>0. /\ cl_stage = "rendered" /\ (cl_file' = cl_text \/ cl_file' = cl_file)
      /\ cl_stage' = "idle" /\ cl_plan' = CL!NoPlan /\ cl_text' = CL!NoFile /\ cl_source' = CL!NoFile
      /\ UNCHANGED <<cl_approvals, cl_edits, cl_previews>>
  BY DEF CL!Replace
<1>1. /\ CL!TypeOK /\ GoodFile(cl_file) /\ GoodFile(cl_text)
  BY DEF LabelInv
<1>2. GoodFile(cl_file') /\ GoodFile(cl_text') /\ GoodFile(cl_source')
  BY <1>0, <1>1, NoFileIs
<1>3. CL!TypeOK'
  BY <1>0, <1>1, <1>2, NoFileIs DEF CL!TypeOK, GoodFile
<1> QED
  BY <1>0, <1>2, <1>3 DEF LabelInv

LEMMA EditStep ==
  ASSUME LabelShape, LabelInv, NEW s \in cl_Edited, CL!Edit(s)
  PROVE  LabelInv'
<1>0. /\ cl_edits < cl_MaxEdits /\ cl_edits' = cl_edits + 1
      /\ UNCHANGED <<cl_stage, cl_plan, cl_approvals, cl_text, cl_source, cl_previews>>
  BY DEF CL!Edit
<1>1. /\ CL!TypeOK /\ GoodFile(cl_file) /\ GoodFile(cl_text) /\ GoodFile(cl_source) /\ s \in cl_Services
      /\ cl_file \in CL!Files
  BY DEF LabelInv, LabelShape, GoodFile
<1>2. PICK f : f = cl_file
  OBVIOUS
<1>3. ASSUME NEW l \in cl_EditedLabels, cl_file' = [cl_file EXCEPT !.labels[cl_file.lab[s]] = l]
      PROVE  GoodFile(cl_file')
  <2> DEFINE n == f.lab[s]
             L == [f.labels EXCEPT ![n] = l]
             r == [f EXCEPT !.labels = L]
  <2>1. l \in CL!Labels /\ l.transform # "blank" /\ f \in CL!Files /\ GoodFile(f)
    BY <1>1, <1>2 DEF LabelShape
  <2>2. n \in CL!Nodes /\ f.labels \in [CL!Nodes -> CL!Labels] /\ f.lab \in [cl_Services -> CL!Nodes]
    BY <1>1, <2>1, FileIs
  <2>3. L \in [CL!Nodes -> CL!Labels] /\ \A m \in CL!Nodes : L[m] = l \/ L[m] = f.labels[m]
    BY <2>1, <2>2
  <2>4. cl_file' = r
    BY <1>2, <1>3
  <2> HIDE DEF L
  <2>5. /\ r \in CL!Files /\ r.lab = f.lab /\ r.merged = f.merged /\ r.images = f.images
        /\ r.labels = L
    BY <2>1, <2>3, FileIs DEF CL!Files
  <2> HIDE DEF r
  <2>6. \A o \in cl_Services : CL!LabelsOf(r, o) = l \/ CL!LabelsOf(r, o) = CL!LabelsOf(f, o)
    BY <2>2, <2>3, <2>5 DEF CL!LabelsOf
  <2>7. \A m \in CL!Nodes : r.images[m] # CL!Garbled
    BY <2>1, <2>5 DEF GoodFile, WellFormed
  <2>8. \A o \in cl_Services \cap cl_Extends : CL!LabelsOf(r, o).transform # "blank"
    BY <2>1, <2>6 DEF GoodFile, WellFormed
  <2>9. WellFormed(r)
    BY <2>1, <2>5, <2>7, <2>8, StaysWell DEF GoodFile
  <2> QED
    BY <2>4, <2>5, <2>9 DEF GoodFile
<1>4. ASSUME NEW t \in cl_Tags, NEW form \in {"tag", "digest"},
             cl_file' = [cl_file EXCEPT !.images[cl_file.img[s]] = CL!Image(form, t)]
      PROVE  GoodFile(cl_file')
  <2> DEFINE n == f.img[s]
             i == CL!Image(form, t)
             I == [f.images EXCEPT ![n] = i]
             r == [f EXCEPT !.images = I]
  <2>1. f \in CL!Files /\ GoodFile(f) /\ i \in CL!Images /\ i # CL!Garbled
    BY <1>1, <1>2 DEF CL!Images, CL!Image, CL!Garbled
  <2>2. n \in CL!Nodes /\ f.images \in [CL!Nodes -> CL!Images]
    BY <1>1, <2>1, FileIs
  <2>3. cl_file' = r
    BY <1>2, <1>4
  <2> HIDE DEF i
  <2>4. I \in [CL!Nodes -> CL!Images] /\ \A m \in CL!Nodes : I[m] = i \/ I[m] = f.images[m]
    BY <2>1, <2>2
  <2> HIDE DEF I
  <2>5. /\ r \in CL!Files /\ r.lab = f.lab /\ r.merged = f.merged /\ r.labels = f.labels
        /\ r.images = I
    BY <2>1, <2>4, FileIs DEF CL!Files
  <2> HIDE DEF r
  <2>6. \A m \in CL!Nodes : f.images[m] # CL!Garbled
    BY <2>1 DEF GoodFile, WellFormed
  <2>7. \A m \in CL!Nodes : r.images[m] # CL!Garbled
    <3> HIDE DEF CL!Garbled
    <3> QED
      BY <2>1, <2>4, <2>5, <2>6
  <2>8. \A o \in cl_Services \cap cl_Extends : CL!LabelsOf(r, o).transform # "blank"
    BY <2>1, <2>5 DEF GoodFile, WellFormed, CL!LabelsOf
  <2>9. WellFormed(r)
    BY <2>1, <2>5, <2>7, <2>8, StaysWell DEF GoodFile
  <2> QED
    BY <2>3, <2>5, <2>9 DEF GoodFile
<1>5. ASSUME NEW t \in cl_Tags, cl_file' = [cl_file EXCEPT !.notes[s] = @ \cup {t}]
      PROVE  GoodFile(cl_file')
  <2> DEFINE N == f.notes[s] \cup {t}
             r == [f EXCEPT !.notes[s] = N]
  <2>1. f \in CL!Files /\ GoodFile(f) /\ N \in SUBSET cl_Tags
    BY <1>1, <1>2, <1>5, ServiceIs
  <2>2. cl_file' = r
    BY <1>2, <1>5
  <2> HIDE DEF N
  <2>3. /\ r \in CL!Files /\ r.lab = f.lab /\ r.merged = f.merged /\ r.images = f.images
        /\ \A o \in cl_Services : CL!LabelsOf(r, o) = CL!LabelsOf(f, o)
    BY <1>1, <2>1, NotesSet
  <2> HIDE DEF r
  <2>4. \A m \in CL!Nodes : r.images[m] # CL!Garbled
    BY <2>1, <2>3 DEF GoodFile, WellFormed
  <2>5. \A o \in cl_Services \cap cl_Extends : CL!LabelsOf(r, o).transform # "blank"
    BY <2>1, <2>3 DEF GoodFile, WellFormed
  <2>6. WellFormed(r)
    BY <2>1, <2>3, <2>4, <2>5, StaysWell DEF GoodFile
  <2> QED
    BY <2>2, <2>3, <2>6 DEF GoodFile
<1>6. GoodFile(cl_file')
  BY <1>3, <1>4, <1>5 DEF CL!Edit
<1>7. CL!TypeOK'
  <2>1. cl_edits' \in 0..cl_MaxEdits
    BY <1>0, <1>1 DEF CL!TypeOK, LabelShape
  <2> QED
    BY <2>1, <1>0, <1>1, <1>6 DEF CL!TypeOK, GoodFile
<1>8. cl_stage # "idle" => PlanOK'
  BY <1>0, PlanStays DEF LabelInv
<1>9. cl_stage = "rendered" => LabelRewrites(cl_source, cl_text)'
  BY <1>0, RewritesStay DEF LabelInv
<1> QED
  BY <1>0, <1>1, <1>6, <1>7, <1>8, <1>9 DEF LabelInv

LEMMA LabelStep ==
  ASSUME LabelShape, LabelInv, [CL!Next]_(CL!vars)
  PROVE  LabelInv'
<1>1. CASE CL!Next
  BY <1>1, PreviewStep, ApproveStep, RenderStep, ReplaceStep, EditStep DEF CL!Next
<1>2. CASE UNCHANGED CL!vars
  <2>1. UNCHANGED <<cl_file, cl_stage, cl_plan, cl_approvals, cl_text, cl_source, cl_edits, cl_previews>>
    BY <1>2 DEF CL!vars
  <2>2. CL!TypeOK' /\ GoodFile(cl_file') /\ GoodFile(cl_text') /\ GoodFile(cl_source')
    BY <2>1 DEF LabelInv, CL!TypeOK
  <2>3. cl_stage # "idle" => PlanOK'
    BY <2>1, PlanStays DEF LabelInv
  <2>4. cl_stage = "rendered" => LabelRewrites(cl_source, cl_text)'
    BY <2>1, RewritesStay DEF LabelInv
  <2> QED
    BY <2>1, <2>2, <2>3, <2>4 DEF LabelInv
<1> QED
  BY <1>1, <1>2

LEMMA LabelInvariant ==
  ASSUME LabelShape
  PROVE  CL!Spec => []LabelInv
<1>1. CL!Init => LabelInv
  BY LabelInit
<1>2. LabelInv /\ [CL!Next]_(CL!vars) => LabelInv'
  BY LabelStep
<1> QED
  BY <1>1, <1>2, PTL DEF CL!Spec

(* The file, the request and the approvals keep their types, and no two       *)
(* replacements overlap (compose_source.py, compose_rewrite.py).              *)
THEOREM LabelTypes ==
  ASSUME LabelShape
  PROVE  CL!Spec => [](CL!TypeOK /\ CL!NothingGarbled)
<1>1. LabelInv => CL!TypeOK /\ CL!NothingGarbled
  BY DEF LabelInv, CL!NothingGarbled, GoodFile, WellFormed
<1> QED
  BY <1>1, LabelInvariant, PTL

(* A rewrite leaves the other services, foreign filters, exclusions and       *)
(* transforms alone, and leaves a filter that accepts the tag in use, for any *)
(* number of services in a request and any edits in between.                  *)
THEOREM RewritesAreKind ==
  ASSUME LabelShape
  PROVE  CL!Spec => CL!OthersUntouched /\ CL!OwnFilterKept /\ CL!WatchesWhatRuns /\ CL!TransformKept
<1>1. ASSUME LabelInv, CL!Next, CL!Wrote
      PROVE  LabelRewrites(cl_file, cl_file') /\ cl_stage = "rendered"
  <2>1. cl_stage = "rendered" /\ cl_stage' = "idle" /\ cl_file' # cl_file
    BY <1>1 DEF CL!Wrote
  <2>2. CL!Replace
    BY <1>1, <2>1 DEF CL!Next, CL!Preview, CL!Approve, CL!Render, CL!Edit
  <2>3. cl_file = cl_source /\ cl_file' = cl_text
    BY <2>1, <2>2 DEF CL!Replace, CL!SourceUnchanged
  <2>4. LabelRewrites(cl_source, cl_text)
    BY <1>1, <2>1 DEF LabelInv
  <2> QED
    BY <2>1, <2>3, <2>4
<1>2. LabelInv /\ [CL!Next]_(CL!vars) =>
        [CL!Wrote => \A o \in cl_Services \ CL!Range(cl_plan.targets) : CL!Seen(cl_file', o) = CL!Seen(cl_file, o)]_(CL!vars)
  BY <1>1 DEF LabelRewrites
<1>3. LabelInv /\ [CL!Next]_(CL!vars) =>
        [CL!Wrote => \A s \in cl_Services :
           /\ \/ ~CL!Foreign(CL!SeenInclude(cl_file, s))
              \/ CL!SeenInclude(cl_file', s) = CL!SeenInclude(cl_file, s)
              \/ cl_plan.op = "track" /\ cl_plan.labels[s] = CL!SeenInclude(cl_file, s)
              \/ \E a \in cl_approvals : /\ a.s = s /\ a.tag = cl_plan.tag
                                         /\ a.current = CL!SeenInclude(cl_file, s)
           /\ CL!LabelsOf(cl_file, s).exclude \subseteq CL!LabelsOf(cl_file', s).exclude
           /\ "var" \in CL!LabelsOf(cl_file, s).exclude =>
                CL!LabelsOf(cl_file', s).exclude = CL!LabelsOf(cl_file, s).exclude]_(CL!vars)
  BY <1>1 DEF LabelRewrites, Kept, IncludeKept, ExcludeKept
<1>4. LabelInv /\ [CL!Next]_(CL!vars) =>
        [CL!Wrote /\ cl_plan.op \in CL!Ops \ {"tag", "track", "exclude"} =>
           \A s \in CL!Range(cl_plan.targets) :
             /\ CL!Accepts(CL!SeenInclude(cl_file', s), cl_plan.tag)
             /\ CL!ImageOf(cl_file', s).of = cl_plan.tag
             /\ cl_plan.op \in {"pin", "pinStream"} => cl_file'.notes[s] = {cl_plan.tag}
             /\ cl_plan.op \in {"retag", "unpin"} => cl_file'.notes[s] = {}]_(CL!vars)
  BY <1>1 DEF LabelRewrites, Watched, Watching
<1>5. LabelInv /\ [CL!Next]_(CL!vars) =>
        [CL!Wrote => \A s \in cl_Services :
           CL!SeenTransform(cl_file, s) # "none" => CL!SeenTransform(cl_file', s) = CL!SeenTransform(cl_file, s)]_(CL!vars)
  BY <1>1 DEF LabelRewrites, Kept, TransformStays
<1> QED
  BY <1>2, <1>3, <1>4, <1>5, LabelInvariant, PTL
     DEF CL!Spec, CL!OthersUntouched, CL!OwnFilterKept, CL!WatchesWhatRuns, CL!TransformKept

-----------------------------------------------------------------------------
(****************************************************************************)
(* The components together                                                  *)
(****************************************************************************)

LEMMA StackRuns == PartsSpec => Spec
<1>1. PartsInit => Init
  BY DEF PartsInit
<1>2. [PartsNext]_partsVars => [Next]_vars
  BY DEF PartsNext, OnlyStack, OnlyRetag, OnlyExclude, OnlyRepair, OnlyLabels, partsVars,
     vars, diskVars, dockerVars, writeVars, scopeVars, reportVars
<1> QED
  BY <1>1, <1>2, PTL DEF PartsSpec, Spec

LEMMA RetagRuns == PartsSpec => RA!Spec
<1>1. PartsInit => RA!Init
  BY DEF PartsInit
<1>2. [PartsNext]_partsVars => [RA!Next]_(RA!vars)
  BY DEF PartsNext, OnlyStack, OnlyRetag, OnlyExclude, OnlyRepair, OnlyLabels, partsVars,
     raVars, RA!vars, RA!world, RA!stackVars, RA!result, RA!history
<1> QED
  BY <1>1, <1>2, PTL DEF PartsSpec, RA!Spec

LEMMA ExcludeRuns == PartsSpec => TE!Spec
<1>1. PartsInit => TE!Init
  BY DEF PartsInit
<1>2. [PartsNext]_partsVars => [TE!Next]_(TE!vars)
  BY DEF PartsNext, OnlyStack, OnlyRetag, OnlyExclude, OnlyRepair, OnlyLabels, partsVars,
     teVars, TE!vars, TE!runVars
<1> QED
  BY <1>1, <1>2, PTL DEF PartsSpec, TE!Spec

LEMMA RepairRuns == PartsSpec => TR!Spec
<1>1. PartsInit => TR!Init
  BY DEF PartsInit
<1>2. [PartsNext]_partsVars => [TR!Next]_(TR!vars)
  BY DEF PartsNext, OnlyStack, OnlyRetag, OnlyExclude, OnlyRepair, OnlyLabels, partsVars,
     trVars, TR!vars, TR!outer, TR!local
<1> QED
  BY <1>1, <1>2, PTL DEF PartsSpec, TR!Spec

LEMMA LabelsRun == PartsSpec => CL!Spec
<1>1. PartsInit => CL!Init
  BY DEF PartsInit
<1>2. [PartsNext]_partsVars => [CL!Next]_(CL!vars)
  BY DEF PartsNext, OnlyStack, OnlyRetag, OnlyExclude, OnlyRepair, OnlyLabels, partsVars,
     clVars, CL!vars
<1> QED
  BY <1>1, <1>2, PTL DEF PartsSpec, CL!Spec

(* The variables of everything that writes Compose files keep their types.    *)
THEOREM ComposeFileTyped == PartsSpec => []ComposeFileTypes
<1>1. PartsSpec => []TypeOK
  BY StackRuns, LifecycleTypes, PTL
<1>2. PartsSpec => []RA!TypeOK
  BY RetagRuns, RetagTypes, RetagAssumption, PTL
<1>3. PartsSpec => []TE!TypeOK
  BY ExcludeRuns, ExclusionTypes, ExclusionAssumption, PTL
<1>4. PartsSpec => []TR!TypeOK
  BY RepairRuns, RepairTypes, RepairAssumption, PTL
<1>5. PartsSpec => [](CL!TypeOK /\ CL!NothingGarbled)
  BY LabelsRun, LabelTypes, LabelAssumption, PTL
<1>6. TypeOK /\ RA!TypeOK /\ TE!TypeOK /\ TR!TypeOK /\ CL!TypeOK => ComposeFileTypes
  BY DEF ComposeFileTypes
<1> QED
  BY <1>1, <1>2, <1>3, <1>4, <1>5, <1>6, PTL

(* What a job reports as done is what the user approved: only approved images *)
(* are written and no stopped service starts without consent, whatever files, *)
(* tags and containers did after the preview; a line leaves the pending file  *)
(* only when its tag is excluded for every service that it names, and no      *)
(* service runs without its network; and nothing is written twice.            *)
THEOREM DoneIsApproved == PartsSpec => []DoneAsApproved
<1>1. PartsSpec => [](RA!OnlyApproved /\ RA!NoSurpriseStart /\ RA!OwnUntouched)
  BY RetagRuns, RetagsAreAsApproved, RetagAssumption, PTL
<1>2. PartsSpec => []TE!ResolvedMeansExcluded
  BY ExcludeRuns, ResolvedAreExcluded, ExclusionAssumption, PTL
<1>3. PartsSpec => []TE!NetworksKept
  BY ExcludeRuns, NetworksAreKept, ExclusionAssumption, PTL
<1>4. PartsSpec => [](TR!RepairedAsApproved /\ TR!FailureLeavesNothing /\ TR!RowAgrees)
  BY RepairRuns, RepairsAreReportedTruly, RepairAssumption, PTL
<1>5. PartsSpec => [](CL!TypeOK /\ CL!NothingGarbled)
  BY LabelsRun, LabelTypes, LabelAssumption, PTL
<1>6. /\ RA!OnlyApproved /\ RA!NoSurpriseStart /\ RA!OwnUntouched
      /\ TE!ResolvedMeansExcluded /\ TE!NetworksKept /\ TR!RepairedAsApproved
      /\ CL!NothingGarbled
      => DoneAsApproved
  BY DEF DoneAsApproved
<1> QED
  BY <1>1, <1>2, <1>3, <1>4, <1>5, <1>6, PTL

(* A retag or a repair that fails has put files, images, containers, records  *)
(* and rows back together, or says that it could not; the old text is in the  *)
(* file or in a backup that a power loss leaves.                              *)
THEOREM FailuresAreUndone == PartsSpec => []FailuresUndone
<1>1. PartsSpec => []RA!AllOrNothing
  BY RetagRuns, RetagsAreAllOrNothing, RetagAssumption, PTL
<1>2. PartsSpec => []RA!OldTextKept
  BY RetagRuns, RetagsKeepOldText, RetagAssumption, PTL
<1>3. PartsSpec => [](RA!RecordsAgree /\ RA!HistoryAgrees)
  BY RetagRuns, RetagRecordsAreTrue, RetagAssumption, PTL
<1>4. PartsSpec => [](TR!RepairedAsApproved /\ TR!FailureLeavesNothing /\ TR!RowAgrees)
  BY RepairRuns, RepairsAreReportedTruly, RepairAssumption, PTL
<1>5. PartsSpec => []TR!OldTextStays
  BY RepairRuns, RepairKeepsOldText, RepairAssumption, PTL
<1>6. /\ RA!AllOrNothing /\ RA!OldTextKept /\ RA!RecordsAgree /\ RA!HistoryAgrees
      /\ TR!FailureLeavesNothing /\ TR!OldTextStays /\ TR!RowAgrees
      => FailuresUndone
  BY DEF FailuresUndone
<1> QED
  BY <1>1, <1>2, <1>3, <1>4, <1>5, <1>6, PTL

(* No step undoes what somebody else did: saved edits, newer records, earlier *)
(* exclusions, stopped services, and the images, filters and transforms of    *)
(* the services that a rewriting is not about stay.                           *)
THEOREM WorkOfOthersIsKept == PartsSpec => WorkOfOthersKept
<1>1. PartsSpec => RA!EditsKept
  BY RetagRuns, RetagsKeepEdits, RetagAssumption, PTL
<1>2. PartsSpec => RA!NewerRecordsKept
  BY RetagRuns, NewerRecordsAreKept, RetagAssumption, PTL
<1>3. PartsSpec => TE!ExclusionsKept /\ TE!StoppedStayStopped /\ TE!RefusedUntouched
  BY ExcludeRuns, ExclusionsStay, ExclusionAssumption, PTL
<1>4. PartsSpec => TR!SavesStay
  BY RepairRuns, SavesAreKept, RepairAssumption, PTL
<1>5. PartsSpec => /\ CL!OthersUntouched /\ CL!OwnFilterKept
                   /\ CL!WatchesWhatRuns /\ CL!TransformKept
  BY LabelsRun, RewritesAreKind, LabelAssumption, PTL
<1> QED
  BY <1>1, <1>2, <1>3, <1>4, <1>5 DEF WorkOfOthersKept
==============================================================================
