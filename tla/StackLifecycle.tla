----------------------------- MODULE StackLifecycle -----------------------------
(***************************************************************************)
(* The update of one Compose stack (updater_lifecycle*.py) and the writes   *)
(* of its Compose file (compose_persistence.py): backup, rewrite, pull,     *)
(* recreate, health gate, rollback.  Docker commands may fail half-way,     *)
(* others edit the file, the run may be interrupted or the power may fail,  *)
(* and a failed update is tried again.                                      *)
(***************************************************************************)
EXTENDS Integers, FiniteSets

CONSTANTS
    Services,           \* the services of the update's scope
    Targets,            \* the ones whose images are updated
    Modes,              \* the values of options.mode to consider
    Plans,              \* the sets of rewrites an update may need
    None,               \* Python's None
    InterruptInReplace, \* may a signal arrive between os.replace and append?
    MaxRuns,            \* bound on updates of the stack
    MaxEdits,           \* bound on edits of the file by others
    MaxKills            \* bound on power losses

Rewrites == {"tag", "unpin", "pin"}

ASSUME LifecycleAssumption ==
    /\ Targets \subseteq Services
    /\ Modes \subseteq {"live", "pause", "stop"}
    /\ Plans \subseteq SUBSET Rewrites
    /\ InterruptInReplace \in BOOLEAN
    /\ MaxRuns \in Nat /\ MaxEdits \in Nat /\ MaxKills \in Nat

(* A version of the Compose file: how often others edited it, and which      *)
(* rewrites of which runs it has.  It also stands for the file's hash.       *)
Versions == [edits : Nat, rewrites : SUBSET (Nat \X Rewrites)]

ASSUME NoneAssumption == None \notin Versions

(* 0: the first image, 1: a newer image of the same tag, r + 1: the image of  *)
(* the tag that run r writes.                                                *)
Images == 0..(MaxRuns + 1)

(* "created" was never started, "failed" is created and could not start,     *)
(* "none" has no container.                                                  *)
States == {"running", "exited", "created", "failed", "paused", "none"}

VARIABLES
    file,       \* the Compose file
    durable,    \* what the file is if the power fails now
    backups,    \* the backups on disk, as pairs of a run and a version
    trusted,    \* the last version that passed the health gate or is not ours
    con,        \* service -> its container
    local,      \* the local image of the first tag
    pc,         \* the step that the update takes next
    runs,       \* how many updates have begun; it names the current one
    mode,       \* options.mode
    plan,       \* the rewrites of this update
    backup,     \* what state.compose_backup holds, or None
    unnoted,    \* a version in place and not yet in compose_written_hashes
    written,    \* state.compose_written_hashes[-1], or None
    restored,   \* state.compose_restored
    verified,   \* state.health_verified
    before,     \* state.before: the image of the targets
    running, stopped, startFailed,
    stopSet,    \* running_stop_services or running_services
    stopFailed, \* _StopResult.failed
    halted,     \* services the update stopped or paused and did not resume
    after,      \* stack_runtime_states_after: is the service running?  or None
    told,       \* the operator was told that services need attention
    result,
    kills

diskVars == <<file, durable, backups, trusted>>
dockerVars == <<con, local>>
writeVars == <<backup, unnoted, written, restored, verified>>
scopeVars == <<runs, mode, plan, before, running, stopped, startFailed, stopSet>>
reportVars == <<stopFailed, halted, after, told>>
vars == <<diskVars, dockerVars, writeVars, scopeVars, reportVars, pc, result, kills>>

Pcs == Rewrites \cup
    {"idle", "pull", "finish", "recreate", "prepare", "up", "verify", "unpause",
     "upFailed", "verifyFailed", "restart", "health", "rollback", "services",
     "discard"}

(* What the files and the state of the update may hold *)
TypeOK ==
    /\ {file, durable, trusted} \subseteq Versions
    /\ backups \subseteq (1..MaxRuns) \X Versions
    /\ con \in [Services -> [state : States, image : Images]]
    /\ local \in {0, 1}
    /\ pc \in Pcs
    /\ runs \in 0..MaxRuns
    /\ mode \in Modes
    /\ plan \subseteq Rewrites
    /\ {backup, unnoted, written} \subseteq Versions \cup {None}
    /\ {restored, verified, stopFailed, told} \subseteq BOOLEAN
    /\ before \in Images
    /\ UNION {running, stopped, startFailed, stopSet, halted} \subseteq Services
    /\ after \in [Services -> BOOLEAN] \cup {None}
    /\ result \in {"none", "success", "failure", "interrupted", "killed"}
    /\ kills \in 0..MaxKills

(* A stack on its first images, whose services may be up or down *)
Init ==
    /\ file = [edits |-> 0, rewrites |-> {}]
    /\ durable = file /\ trusted = file /\ backups = {}
    /\ con \in [Services -> [state : States, image : {0}]]
    /\ local = 0
    /\ pc = "idle"
    /\ runs = 0
    /\ mode \in Modes
    /\ plan = {}
    /\ backup = None /\ unnoted = None /\ written = None
    /\ restored = FALSE /\ verified = FALSE
    /\ before = 0
    /\ running = {} /\ stopped = {} /\ startFailed = {} /\ stopSet = {}
    /\ stopFailed = FALSE
    /\ halted = {}
    /\ after = None
    /\ told = FALSE
    /\ result = "none"
    /\ kills = 0

-----------------------------------------------------------------------------
(* Docker and Docker Compose (external): what a command may leave behind      *)

(* The image that the Compose file asks for, for the targets *)
Wanted ==
    LET tagRuns == {r \in 1..MaxRuns : <<r, "tag">> \in file.rewrites}
    IN  IF tagRuns = {} THEN local
        ELSE 1 + (CHOOSE r \in tagRuns : \A t \in tagRuns : t <= r)

New(s, state) ==
    [state |-> state, image |-> IF s \in Targets THEN Wanted ELSE 0]

(* The containers after a command that makes of s any member of each[s]      *)
Outcomes(c, each) ==
    LET can(s) == IF s \in DOMAIN each THEN each[s] ELSE {c[s]}
    IN  {d \in [Services -> UNION {can(s) : s \in Services}] :
            \A s \in Services : d[s] \in can(s)}

(* stop, pause, unpause and start move containers from the states of From.   *)
Moved(c, S, From, to) ==
    [s \in Services |-> IF s \in S /\ c[s].state \in From
                        THEN [c[s] EXCEPT !.state = to] ELSE c[s]]

MovedSome(c, S, From, to) == {Moved(c, T, From, to) : T \in SUBSET S}

IsUp == {"running", "paused"}
IsDown == {"exited", "created", "failed"}

(* up: a container may exit at once, and a paused one that need not be       *)
(* created anew cannot be started.  Services of stopped may start, too (a    *)
(* restart policy).                                                          *)
UpDone(c) ==
    LET each == [s \in running |-> IF c[s] = New(s, "paused") THEN {}
                                   ELSE {New(s, "running"), New(s, "exited")}]
    IN  UNION {MovedSome(d, stopped, IsDown, "running") : d \in Outcomes(c, each)}

UpBroken(c) ==
    LET made == {"running", "exited", "failed", "none"}
    IN  Outcomes(c, [s \in running |-> {c[s]} \cup {New(s, st) : st \in made}])

(* up --no-start of the stopped services, which may start one all the same   *)
NoStartDone(c) ==
    LET kept(s) == c[s].image = New(s, "created").image /\ c[s].state # "none"
    IN  Outcomes(c, [s \in stopped |->
                        {New(s, "running"),
                         IF kept(s) THEN c[s] ELSE New(s, "created")}])

NoStartBroken(c) ==
    Outcomes(c, [s \in stopped |-> {c[s], New(s, "created"), New(s, "none")}])

(* Mutant: nobody looks whether they started. *)
AllStoppedUnchecked(c) == TRUE

(* What compose ps must show after a recreate *)
AllStopped(c) == \A s \in stopped : c[s].state \notin IsUp
AllRunning(c) == \A s \in running : c[s].state = "running"

(* Mutant: the running services alone, not both tuples *)
RuntimeRecordHalf == [s \in running |-> TRUE]

RuntimeRecord == [s \in Services |-> s \in running]

-----------------------------------------------------------------------------
(* _start_failed_target: an update target that was created and did not start *)
StartFailedTargets == {s \in Targets : con[s].state = "failed"}

(* _update_scope: all running services are stopped, or only the targets where*)
(* a service they depend on is missing.                                      *)
StopSets(run) ==
    {run, IF run \cap Targets = {} THEN run ELSE run \cap Targets}

(* The update is refused: a service is in a state that cannot be preserved, or*)
(* Docker cannot tell, or the stack runs with other Compose files.           *)
Refuse ==
    /\ pc = "idle" /\ runs < MaxRuns
    /\ runs' = runs + 1
    /\ halted' = {} /\ told' = FALSE
    /\ after' = None
    /\ result' = "failure"
    /\ UNCHANGED <<diskVars, dockerVars, writeVars, mode, plan, before, running, stopped,
                   startFailed, stopSet, stopFailed, pc, kills>>

(* _build_stack_update_state: the runtime state is read and recorded before  *)
(* anything is changed.  A target whose start failed counts as running.      *)
BuildState ==
    /\ pc = "idle" /\ runs < MaxRuns
    /\ \A s \in Services : con[s].state # "paused"
    /\ runs' = runs + 1
    /\ mode' \in Modes
    /\ plan' \in Plans
    /\ backup' = None /\ written' = None
    /\ restored' = FALSE /\ verified' = FALSE
    /\ stopFailed' = FALSE /\ halted' = {} /\ told' = FALSE
    /\ before' = Wanted
    /\ startFailed' = StartFailedTargets
    /\ running' = {s \in Services : con[s].state = "running"} \cup startFailed'
    /\ stopped' = Services \ running'
    /\ stopSet' \in StopSets(running')
    /\ after' = [s \in Services |-> s \in running' \ startFailed']
    /\ \/ pc' = "tag" /\ result' = "none"
       \/ pc' = "idle" /\ result' = "failure" \* the rewrites cannot be planned
    /\ UNCHANGED <<diskVars, dockerVars, unnoted, kills>>

(* A failed step: the rewritten file is rolled back, or nothing is to undo    *)
(* (_handle_compose_rewrite_failure).                                        *)
Fail ==
    /\ result' = "failure"
    /\ pc' = IF written # None THEN "rollback" ELSE "discard"

-----------------------------------------------------------------------------
(* The three rewrites of the Compose file; the second one goes before the    *)
(* pull and the third one after it.                                          *)
After(x) == CASE x = "tag" -> "unpin" [] x = "unpin" -> "pull" [] x = "pin" -> "finish"

SkipRewrite(x) ==
    /\ pc = x /\ x \notin plan
    /\ pc' = After(x)
    /\ UNCHANGED <<diskVars, dockerVars, writeVars, scopeVars, reportVars, result, kills>>

(* _ensure_compose_backup: copied and synced with its directory *)
EnsureBackup(x) ==
    /\ pc = x /\ x \in plan /\ backup = None
    /\ \/ /\ backup' = file
          /\ backups' = backups \cup {<<runs, file>>}
          /\ durable' = file
          /\ UNCHANGED <<pc, result>>
       \/ /\ Fail
          /\ UNCHANGED <<backup, backups, durable>>
    /\ UNCHANGED <<file, trusted, dockerVars, unnoted, written, restored, verified,
                   scopeVars, reportVars, kills>>

(* _expected_compose_hash *)
Expected == IF written # None THEN written ELSE backup

(* The rewrite raises before os.replace: it cannot be rendered, the file is   *)
(* not the expected version, or an OSError.                                  *)
RewriteFails(x) ==
    /\ pc = x /\ x \in plan /\ backup # None /\ unnoted = None
    /\ Fail
    /\ UNCHANGED <<diskVars, dockerVars, writeVars, scopeVars, reportVars, kills>>

(* _atomic_replace_compose: compare the hash and replace, under the lock     *)
Replace(x) ==
    /\ pc = x /\ x \in plan /\ backup # None /\ unnoted = None
    /\ file = Expected
    /\ file' = [file EXCEPT !.rewrites = @ \cup {<<runs, x>>}]
    /\ unnoted' = file'
    /\ UNCHANGED <<durable, backups, trusted, dockerVars, pc, backup, written,
                   restored, verified, scopeVars, reportVars, result, kills>>

(* The hash is noted, then the directory is synced; the rewritten file is    *)
(* read again and validated.                                                 *)
RecordWrite(x) ==
    /\ pc = x /\ unnoted # None
    /\ written' = unnoted
    /\ unnoted' = None
    /\ \/ durable' = file /\ pc' = After(x) /\ UNCHANGED result
       \/ durable' \in {durable, file} /\ pc' = "rollback" /\ result' = "failure"
    /\ UNCHANGED <<file, backups, trusted, dockerVars, backup, restored, verified,
                   scopeVars, reportVars, kills>>

Rewrite(x) ==
    SkipRewrite(x) \/ EnsureBackup(x) \/ RewriteFails(x) \/ Replace(x) \/ RecordWrite(x)

-----------------------------------------------------------------------------
(* _pull_and_verify_images: the pull, or one of the digest checks, may fail  *)
(* after the local image has changed.                                        *)
Pull ==
    /\ pc = "pull"
    /\ local' \in {local, 1}
    /\ \/ pc' = "pin" /\ UNCHANGED result
       \/ Fail
    /\ UNCHANGED <<diskVars, con, writeVars, scopeVars, reportVars, kills>>

(* Mutant: stopped services are not looked at. *)
BehindRunning == \E s \in Targets \cap running : con[s].image # Wanted

(* _check_container_images: a container is on an older image. *)
Behind == \E s \in Targets : con[s].image # Wanted

(* _finish_pull_phase: without a change of the file or of an image, the      *)
(* containers are compared with the image (_find_unfinished_update).         *)
FinishPull ==
    /\ pc = "finish"
    /\ LET needed == written # None \/ Wanted # before \/ startFailed # {}
           missing == \E s \in Targets : con[s].state = "none"
       IN  \/ /\ needed \/ (~missing /\ Behind)
              /\ pc' = "recreate" /\ UNCHANGED result
           \/ /\ ~needed \* missing, or an image that cannot be read
              /\ Fail
           \/ /\ ~needed /\ ~missing /\ ~Behind
              /\ pc' = "discard" /\ result' = "success"
    /\ UNCHANGED <<diskVars, dockerVars, writeVars, scopeVars, reportVars, kills>>

(* _recreate_and_verify_stack, first the stopped services.  Where they are   *)
(* found running or cannot be listed, they are stopped again.                *)
RecreateStopped ==
    /\ pc = "recreate"
    /\ after' = None
    /\ \/ /\ con' \in {c \in NoStartDone(con) : AllStopped(c)}
          /\ pc' = "prepare" /\ UNCHANGED result
       \/ /\ stopped # {}
          /\ con' \in NoStartBroken(con) \cup
                      UNION {MovedSome(c, stopped, IsUp, "exited") : c \in NoStartDone(con)}
          /\ Fail
    /\ UNCHANGED <<diskVars, local, writeVars, scopeVars, stopFailed, halted, told,
                   kills>>

(* _prepare_for_recreate: a failed pause is ignored, a failed stop is noted. *)
Prepare ==
    /\ pc = "prepare"
    /\ \/ mode = "live" /\ UNCHANGED <<con, stopFailed>>
       \/ /\ mode = "pause"
          /\ con' \in MovedSome(con, stopSet, {"running"}, "paused")
          /\ UNCHANGED stopFailed
       \/ /\ mode = "stop"
          /\ con' = Moved(con, stopSet, IsUp, "exited")
          /\ UNCHANGED stopFailed
       \/ /\ mode = "stop" /\ stopSet # {}
          /\ con' \in MovedSome(con, stopSet, IsUp, "exited")
          /\ stopFailed' = TRUE
    /\ halted' = {s \in Services : con'[s] # con[s]}
    /\ pc' = "up"
    /\ UNCHANGED <<diskVars, local, writeVars, scopeVars, after, told, result, kills>>

(* _run_compose_up.  With --wait the command itself is the health gate: its  *)
(* success is a success of Health, too.                                      *)
Up ==
    /\ pc = "up"
    /\ \/ /\ running # {}
          /\ con' \in UpDone(con)
          /\ halted' = {}
          /\ pc' = "verify"
       \/ /\ running # {}
          /\ con' \in UpBroken(con)
          /\ halted' = {s \in halted : con'[s].state # "running"}
          /\ pc' = "upFailed"
       \/ /\ running = {}
          /\ pc' = "verify" /\ UNCHANGED <<con, halted>>
    /\ UNCHANGED <<diskVars, local, writeVars, scopeVars, stopFailed, after, told,
                   result, kills>>

(* _verify_services_stopped *)
VerifyStopped ==
    /\ pc = "verify"
    /\ \/ AllStopped(con) /\ pc' = "unpause" /\ UNCHANGED con
       \/ /\ stopped # {}
          /\ con' \in MovedSome(con, stopped, IsUp, "exited")
          /\ pc' = "verifyFailed"
    /\ UNCHANGED <<diskVars, local, writeVars, scopeVars, reportVars, result, kills>>

(* _unpause_after_recreate, which succeeds and goes on with next, or fails   *)
UnpauseThen(next) ==
    \/ /\ mode # "pause" \/ running = {}
       /\ next /\ UNCHANGED <<con, halted, told>>
    \/ /\ mode = "pause" /\ running # {}
       /\ con' = Moved(con, running, {"paused"}, "running")
       /\ halted' = {}
       /\ next /\ UNCHANGED told
    \/ /\ mode = "pause" /\ running # {}
       /\ con' \in MovedSome(con, running, {"paused"}, "running")
       /\ told' = TRUE
       /\ Fail /\ UNCHANGED halted

Unpause ==
    /\ pc = "unpause"
    /\ UnpauseThen(pc' = "health" /\ UNCHANGED result)
    /\ UNCHANGED <<diskVars, local, writeVars, scopeVars, stopFailed, after, kills>>

(* Mutant: after a stop that failed half-way, nothing is started again. *)
RestartNeededIfStopped ==
    written = None /\ pc = "upFailed" /\ mode = "stop" /\ ~stopFailed

RestartNeeded == written = None /\ pc = "upFailed" /\ mode = "stop"

(* _handle_compose_up_failure: services that stop mode stopped are started   *)
(* again, unless they are up already.                                        *)
UpFailed ==
    /\ pc \in {"upFailed", "verifyFailed"}
    /\ UnpauseThen(IF RestartNeeded THEN pc' = "restart" /\ UNCHANGED result ELSE Fail)
    /\ UNCHANGED <<diskVars, local, writeVars, scopeVars, stopFailed, after, kills>>

(* _restart_services_stopped_for_update, the only attempt *)
Restart ==
    /\ pc = "restart"
    /\ \/ /\ \A s \in stopSet : con[s].state # "none"
          /\ con' = Moved(con, stopSet, IsDown, "running")
          /\ halted' = {}
          /\ UNCHANGED told
       \/ /\ con' \in MovedSome(con, stopSet, IsDown, "running")
          /\ halted' = {s \in halted : con'[s].state # "running"}
          /\ told' = TRUE
    /\ Fail
    /\ UNCHANGED <<diskVars, local, writeVars, scopeVars, stopFailed, after, kills>>

(* _finish_health_after_recreate *)
Health ==
    /\ pc = "health"
    /\ \/ /\ AllRunning(con) /\ ~stopFailed
          /\ verified' = TRUE
          /\ trusted' = IF written # None THEN file ELSE trusted
          /\ after' = IF running = {} THEN after ELSE RuntimeRecord
          /\ pc' = "discard" /\ result' = "success"
       \/ /\ running # {} \* not healthy in time, or the stop had failed
          /\ Fail
          /\ UNCHANGED <<verified, trusted, after>>
    /\ UNCHANGED <<file, durable, backups, dockerVars, backup, unnoted, written,
                   restored, scopeVars, stopFailed, halted, told, kills>>

-----------------------------------------------------------------------------
(* Mutant: the backup replaces whatever is there. *)
WrittenInPlaceOrNot == TRUE

(* The check of restore_compose_backup: the file is the version last written.*)
WrittenInPlace == file = written

(* _handle_tag_update_failure: put the backup in place of the version last   *)
(* written, and of no other.  An unsynced restore does not count as one.     *)
Rollback ==
    /\ pc = "rollback"
    /\ \/ /\ WrittenInPlace
          /\ file' = backup
          /\ \/ durable' = backup /\ restored' = TRUE
             \/ UNCHANGED <<durable, restored>>
          /\ pc' = "services" /\ UNCHANGED told
       \/ /\ pc' = "discard" /\ told' = TRUE
          /\ UNCHANGED <<file, durable, restored>>
    /\ UNCHANGED <<backups, trusted, dockerVars, backup, unnoted, written, verified,
                   scopeVars, stopFailed, halted, after, result, kills>>

(* _restore_tag_update_services and the record of its result                 *)
RestoreServices ==
    /\ pc = "services"
    /\ \/ /\ \E c \in NoStartDone(con) :
                /\ AllStopped(c)
                /\ con' \in IF running = {} THEN {c} ELSE UpDone(c)
          /\ AllStopped(con') /\ AllRunning(con')
          /\ after' = RuntimeRecord
          /\ halted' = {}
          /\ UNCHANGED told
       \/ /\ \E c \in NoStartDone(con) \cup NoStartBroken(con) :
             \E d \in UpDone(c) \cup UpBroken(c) :
                con' \in MovedSome(d, stopped, IsUp, "exited")
          /\ after' = None
          /\ told' = TRUE
          /\ UNCHANGED halted
    /\ pc' = "discard"
    /\ UNCHANGED <<diskVars, local, writeVars, scopeVars, stopFailed, result, kills>>

(* Mutant: a restored file counts, synced or not. *)
BackupNeededIfChanged ==
    result # "success" /\ written # None /\ file # backup /\ ~verified

BackupNeeded ==
    result # "success" /\ written # None /\ ~restored /\ ~verified

(* _discard_compose_backup: the file may turn out not to be removable. *)
Discard ==
    /\ pc = "discard"
    /\ backups' \in IF backup = None \/ BackupNeeded THEN {backups}
                    ELSE {backups, backups \ {<<runs, backup>>}}
    /\ pc' = "idle"
    /\ UNCHANGED <<file, durable, trusted, dockerVars, writeVars, scopeVars,
                   reportVars, result, kills>>

-----------------------------------------------------------------------------
(* A signal or an unexpected error (the except branch of _update_stack): only*)
(* the file is restored (_restore_compose_after_abort).  During the discard  *)
(* it leaves the backup alone.                                               *)
Interrupt ==
    /\ pc # "idle"
    /\ unnoted = None \/ InterruptInReplace
    /\ unnoted' = None
    /\ result' = "interrupted"
    /\ LET restorable == /\ pc # "discard" /\ backup # None /\ written # None
                         /\ ~restored /\ ~verified
       IN  /\ \/ /\ restorable /\ WrittenInPlace
                 /\ file' = backup
                 /\ \/ durable' = backup /\ restored' = TRUE
                    \/ UNCHANGED <<durable, restored>>
              \/ UNCHANGED <<file, durable, restored>>
           /\ told' = (told \/ restorable)
    /\ pc' = IF pc = "discard" THEN "idle" ELSE "discard"
    /\ UNCHANGED <<backups, trusted, dockerVars, backup, written, verified, scopeVars,
                   stopFailed, halted, after, kills>>

(* The process ends at once: with the power, what was not synced may be lost.*)
Kill ==
    /\ kills < MaxKills
    /\ kills' = kills + 1
    /\ file' \in {file, durable} /\ durable' = file'
    /\ unnoted' = None
    /\ pc' = "idle" /\ result' = "killed"
    /\ UNCHANGED <<backups, trusted, dockerVars, backup, written, restored, verified,
                   scopeVars, reportVars>>

(* Another writer that takes the directory lock (_compose_write_lock)        *)
Edit ==
    /\ unnoted = None /\ file.edits < MaxEdits
    /\ file' = [file EXCEPT !.edits = @ + 1]
    /\ durable' = file' /\ trusted' = file'
    /\ UNCHANGED <<backups, dockerVars, writeVars, scopeVars, reportVars, pc, result,
                   kills>>

(* _run_stack_update_steps, one disjunct per step *)
Step ==
    \/ Refuse \/ BuildState
    \/ \E x \in Rewrites : Rewrite(x)
    \/ Pull \/ FinishPull
    \/ RecreateStopped \/ Prepare \/ Up \/ VerifyStopped \/ Unpause \/ UpFailed
    \/ Restart \/ Health
    \/ Rollback \/ RestoreServices \/ Discard

Next == Step \/ Interrupt \/ Kill \/ Edit

Spec == Init /\ [][Next]_vars

-----------------------------------------------------------------------------
GoodBackup == \E r \in 1..MaxRuns : <<r, trusted>> \in backups

(* Whatever happens (a failed step, an interrupt, a lost directory sync, a   *)
(* power loss and a retry on top), the last good version of the Compose file *)
(* is in place, or else one of the backups on disk still has it.             *)
GoodVersionKept ==
    \A f \in {file, durable} : f = trusted \/ GoodBackup

(* No step, the rollback and the interrupt included, undoes an edit that     *)
(* another writer made while the update was running.                         *)
EditsKept == [][file'.edits >= file.edits]_vars

(* What an update that returned records as the runtime state afterwards      *)
(* (stack_runtime_states_after) is what Docker shows.                        *)
RuntimeRecordTrue ==
    pc = "idle" /\ result \in {"success", "failure"} /\ after # None =>
        \A s \in Services : after[s] <=> con[s].state = "running"

(* Success means that the file has every planned rewrite and that every      *)
(* target's container has the image the file asks for, on a retry of a       *)
(* half-done update, too.                                                    *)
SuccessMeansApplied ==
    pc = "idle" /\ result = "success" =>
        /\ \A x \in plan : <<runs, x>> \in file.rewrites
        /\ \A s \in Targets : con[s].image = Wanted

(* A failed update leaves no service stopped or paused behind without telling*)
(* the operator: the next run would take it for one stopped on purpose       *)
(* (_restart_services_stopped_for_update).  An interrupt is left out: after  *)
(* one without a rewrite, _restore_compose_after_abort says nothing.         *)
NotLeftDown ==
    pc = "idle" /\ result = "failure" /\ halted # {} => told

(* What an update reports about the services is so, in every mode, from every*)
(* state and on a retry: the recorded runtime state, the success, and the    *)
(* services that it could not start again.                                   *)
ServicesAsReported == RuntimeRecordTrue /\ SuccessMeansApplied /\ NotLeftDown
=============================================================================
