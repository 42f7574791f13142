------------------------------ MODULE MutationGate ------------------------------
(***************************************************************************)
(* The one-mutation-at-a-time gate of the WebUI (web_job_registry.py) and   *)
(* everything that goes through it: apply, scheduled apply, retag and       *)
(* tracking-repair jobs, which share a registry and a one-thread executor;  *)
(* security scan refreshes, which have a registry, a lock and an executor   *)
(* of their own; self-update requests; and container restarts.              *)
(*                                                                          *)
(* Request threads and the scheduler thread hold web_apply_lock (which is   *)
(* also the lock of web_apply_condition) from the check of what is active   *)
(* to the reservation, and take web_security_scan_lock inside it.  The two  *)
(* executor threads take one lock at a time.                                *)
(***************************************************************************)
EXTENDS Naturals, FiniteSets

CONSTANTS
    Requests,       \* threads that serve mutation requests
    Scheduler,      \* the auto-update scheduler thread
    ScanWorker,     \* the thread of web_security_scan_executor
    NoThread,       \* "nobody holds the lock"
    JobLimit,       \* WEB_APPLY_JOB_LIMIT
    ScanLimit,      \* keep of _prune_security_scan_jobs_unlocked
    MaxJobs,        \* bound on the jobs ever registered
    MaxScans        \* bound on the scans ever registered

Clients == Requests \cup {Scheduler}

ASSUME GateAssumption ==
    /\ Scheduler \notin Requests
    /\ ScanWorker \notin Clients
    /\ NoThread \notin Clients \cup {ScanWorker}
    /\ IsFiniteSet(Requests)
    /\ JobLimit \in Nat \ {0}
    /\ ScanLimit \in Nat \ {0}
    /\ MaxJobs \in Nat
    /\ MaxScans \in Nat

VARIABLES
    applyLock,      \* the thread in web_apply_lock
    scanLock,       \* the thread in web_security_scan_lock
    pc,             \* where each client is in its handler
    op,             \* what each client was asked to do
    mine,           \* the job or scan a client has just registered
    jobs,           \* web_apply_jobs: registered ids, oldest first by number
    status,         \* job.status
    kind,           \* which handler registered the job
    nextJob,        \* the next job id (secrets.token_urlsafe: never used before)
    started,        \* jobs that have no start_event or whose start_event is set
    queue,          \* jobs submitted to web_apply_executor and not yet taken
    workerPc,       \* the thread of web_apply_executor
    workerJob,
    selfUpdateRunning,      \* web_self_update_running
    restartRunning,         \* web_container_restart_running
    scans,          \* web_security_scan_jobs
    scanStatus,
    nextScan,
    scanQueue,      \* scans submitted to web_security_scan_executor
    scanPc,         \* the thread of web_security_scan_executor
    scanJob,
    accepting       \* FALSE once the executors are shut down

lockVars == <<applyLock, scanLock>>
jobVars  == <<jobs, status, kind, nextJob, started, queue>>
workVars == <<workerPc, workerJob>>
flagVars == <<selfUpdateRunning, restartRunning>>
scanVars == <<scans, scanStatus, nextScan, scanQueue>>
scanWorkVars == <<scanPc, scanJob>>
clientVars == <<pc, op, mine>>
vars == <<lockVars, jobVars, workVars, flagVars, scanVars, scanWorkVars,
          clientVars, accepting>>

-----------------------------------------------------------------------------
(* Types *)

JobKinds == {"apply", "auto", "retag", "tracking"}
Ops == JobKinds \cup {"selfUpdate", "restart", "scan"}
Active == {"queued", "running"}
Terminal == {"success", "failure"}
Statuses == {"none"} \cup Active \cup Terminal
JobIds == 1..MaxJobs
ScanIds == 1..MaxScans
HoldsApply == {"check", "scanCheck", "reserve", "scanInsert"}
ClientPcs == HoldsApply \cup
    {"idle", "lockApply", "startJob", "selfWork", "selfRelease",
     "restartPrep", "restartTask", "restartRelease", "submitScan", "popScan"}
WorkerPcs == {"idle", "wait", "work", "tail"}
ScanPcs == {"idle", "start", "starting", "work", "finishing"}

TypeOK ==
    /\ applyLock \in Clients \cup {NoThread}
    /\ scanLock \in Clients \cup {ScanWorker, NoThread}
    /\ pc \in [Clients -> ClientPcs]
    /\ op \in [Clients -> Ops \cup {"none"}]
    /\ mine \in [Clients -> Nat]
    /\ jobs \subseteq JobIds
    /\ status \in [JobIds -> Statuses]
    /\ kind \in [JobIds -> JobKinds]
    /\ nextJob \in 1..(MaxJobs + 1)
    /\ started \subseteq Nat
    /\ queue \subseteq JobIds
    /\ workerPc \in WorkerPcs
    /\ workerJob \in Nat
    /\ selfUpdateRunning \in BOOLEAN
    /\ restartRunning \in BOOLEAN
    /\ scans \subseteq ScanIds
    /\ scanStatus \in [ScanIds -> Statuses]
    /\ nextScan \in 1..(MaxScans + 1)
    /\ scanQueue \subseteq Nat
    /\ scanPc \in ScanPcs
    /\ scanJob \in Nat
    /\ accepting \in BOOLEAN

-----------------------------------------------------------------------------
(* Initial state: initialize_apply_job_state and initialize_security_scan_state *)

Init ==
    /\ applyLock = NoThread
    /\ scanLock = NoThread
    /\ pc = [c \in Clients |-> "idle"]
    /\ op = [c \in Clients |-> "none"]
    /\ mine = [c \in Clients |-> 0]
    /\ jobs = {}
    /\ status = [j \in JobIds |-> "none"]
    /\ kind = [j \in JobIds |-> "apply"]
    /\ nextJob = 1
    /\ started = {}
    /\ queue = {}
    /\ workerPc = "idle"
    /\ workerJob = 0
    /\ selfUpdateRunning = FALSE
    /\ restartRunning = FALSE
    /\ scans = {}
    /\ scanStatus = [s \in ScanIds |-> "none"]
    /\ nextScan = 1
    /\ scanQueue = {}
    /\ scanPc = "idle"
    /\ scanJob = 0
    /\ accepting = TRUE

-----------------------------------------------------------------------------
(* What the gate looks at *)

ActiveJobs == {j \in jobs : status[j] \in Active}
ActiveScans == {s \in scans : scanStatus[s] \in Active}

(* Mutant: the gate forgets container restarts. *)
GateFreeNoRestart == ActiveJobs = {} /\ ~selfUpdateRunning

(* _active_mutation_error_unlocked, before it looks at the scans *)
GateFree == ActiveJobs = {} /\ ~selfUpdateRunning /\ ~restartRunning

(* The n oldest members of a set of ids. *)
Oldest(S, n) == {i \in S : Cardinality({k \in S : k < i}) < n}

(* Mutant: the slot of the job that is being added is not counted. *)
EvictedJobsOffByOne ==
    LET size == Cardinality(jobs)
    IN  Oldest(jobs \ ActiveJobs,
               IF size >= JobLimit THEN size - JobLimit ELSE 0)

(* _register_apply_job_unlocked: evicted when one more job is added *)
EvictedJobs ==
    LET size == Cardinality(jobs)
    IN  Oldest(jobs \ ActiveJobs,
               IF size >= JobLimit THEN size - JobLimit + 1 ELSE 0)

(* _prune_security_scan_jobs_unlocked, applied to registry S with statuses st *)
PrunedScans(S, st) ==
    LET size == Cardinality(S)
    IN  S \ Oldest({s \in S : st[s] \notin Active},
                   IF size > ScanLimit THEN size - ScanLimit ELSE 0)

-----------------------------------------------------------------------------
(* Clients: from the request to the reservation *)

(* Bounds the ids: a request begins only if an id is left for it. *)
RoomFor(next, max, ops) ==
    next + Cardinality({c \in Clients : op[c] \in ops}) <= max

(* The request is answered, or the tick is over. *)
Done(c) ==
    /\ pc' = [pc EXCEPT ![c] = "idle"]
    /\ op' = [op EXCEPT ![c] = "none"]
    /\ mine' = [mine EXCEPT ![c] = 0]

(* Go on to the next step of the handler. *)
Goto(c, step) ==
    /\ pc' = [pc EXCEPT ![c] = step]
    /\ UNCHANGED <<op, mine>>

(* A mutation request, or a scheduler tick with something to submit, arrives. *)
Begin(c, o) ==
    /\ pc[c] = "idle"
    /\ o \in IF c = Scheduler THEN {"auto"} ELSE Ops \ {"auto"}
    /\ o \in JobKinds => RoomFor(nextJob, MaxJobs, JobKinds)
    /\ o = "scan" => RoomFor(nextScan, MaxScans, {"scan"})
    /\ pc' = [pc EXCEPT ![c] = "lockApply"]
    /\ op' = [op EXCEPT ![c] = o]
    /\ UNCHANGED <<lockVars, jobVars, workVars, flagVars, scanVars,
                   scanWorkVars, mine, accepting>>

AcquireApply(c) ==
    /\ pc[c] = "lockApply"
    /\ applyLock = NoThread
    /\ applyLock' = c
    /\ pc' = [pc EXCEPT ![c] = "check"]
    /\ UNCHANGED <<scanLock, jobVars, workVars, flagVars, scanVars,
                   scanWorkVars, op, mine, accepting>>

(* The gate is busy: leave the lock and answer 409. *)
Reject(c) ==
    /\ applyLock' = NoThread
    /\ Done(c)

(* _active_mutation_error_unlocked; a scan does not ask about scans here. *)
CheckActive(c) ==
    /\ pc[c] = "check"
    /\ \/ /\ GateFree
          /\ Goto(c, IF op[c] = "scan" THEN "reserve" ELSE "scanCheck")
          /\ UNCHANGED applyLock
       \/ ~GateFree /\ Reject(c)
    /\ UNCHANGED <<scanLock, jobVars, workVars, flagVars, scanVars,
                   scanWorkVars, accepting>>

(* _active_security_scan_error_in_state, inside web_apply_lock *)
CheckScans(c) ==
    /\ pc[c] = "scanCheck"
    /\ scanLock = NoThread
    /\ \/ /\ ActiveScans = {}
          /\ Goto(c, "reserve")
          /\ UNCHANGED applyLock
       \/ ActiveScans # {} /\ Reject(c)
    /\ UNCHANGED <<scanLock, jobVars, workVars, flagVars, scanVars,
                   scanWorkVars, accepting>>

(* Register the job, evict old ones, submit it.  A submit that fails (the    *)
(* executor is shut down) takes the job out again, in the same section.      *)
RegisterJob(c) ==
    /\ pc[c] = "reserve"
    /\ op[c] \in JobKinds
    /\ nextJob \in JobIds
    /\ nextJob' = nextJob + 1
    /\ \/ /\ accepting
          /\ jobs' = (jobs \ EvictedJobs) \cup {nextJob}
          /\ status' = [status EXCEPT ![nextJob] = "queued"]
          /\ kind' = [kind EXCEPT ![nextJob] = op[c]]
          /\ queue' = queue \cup {nextJob}
          /\ started' = IF op[c] = "auto" THEN started
                                          ELSE started \cup {nextJob}
          /\ \/ /\ op[c] = "auto"
                /\ mine' = [mine EXCEPT ![c] = nextJob]
                /\ pc' = [pc EXCEPT ![c] = "startJob"]
                /\ UNCHANGED op
             \/ op[c] # "auto" /\ Done(c)
       \/ /\ ~accepting
          /\ jobs' = jobs \ EvictedJobs
          /\ Done(c)
          /\ UNCHANGED <<status, kind, queue, started>>
    /\ applyLock' = NoThread
    /\ UNCHANGED <<scanLock, workVars, flagVars, scanVars, scanWorkVars,
                   accepting>>

(* Mutant: a tick that fails to write the rows leaves the event unset. *)
StartJobUnlessError(c) ==
    /\ pc[c] = "startJob"
    /\ started' \in {started, started \cup {mine[c]}}
    /\ Done(c)
    /\ UNCHANGED <<lockVars, jobs, status, kind, nextJob, queue, workVars,
                   flagVars, scanVars, scanWorkVars, accepting>>

(* The tick has written the schedule rows, or failed to: start_event.set() *)
StartJob(c) ==
    /\ pc[c] = "startJob"
    /\ started' = started \cup {mine[c]}
    /\ Done(c)
    /\ UNCHANGED <<lockVars, jobs, status, kind, nextJob, queue, workVars,
                   flagVars, scanVars, scanWorkVars, accepting>>

-----------------------------------------------------------------------------
(* Self-update and container restart: a flag is the reservation *)

(* _reserve_self_update, _reserve_container_restart *)
ReserveFlag(c) ==
    /\ pc[c] = "reserve"
    /\ op[c] \in {"selfUpdate", "restart"}
    /\ \/ /\ op[c] = "selfUpdate"
          /\ selfUpdateRunning' = TRUE
          /\ pc' = [pc EXCEPT ![c] = "selfWork"]
          /\ UNCHANGED restartRunning
       \/ /\ op[c] = "restart"
          /\ restartRunning' = TRUE
          /\ pc' = [pc EXCEPT ![c] = "restartPrep"]
          /\ UNCHANGED selfUpdateRunning
    /\ applyLock' = NoThread
    /\ UNCHANGED <<scanLock, jobVars, workVars, scanVars, scanWorkVars, op,
                   mine, accepting>>

(* Pull or prepare the image; whatever happens, the finally clause is next. *)
SelfUpdateWork(c) ==
    /\ pc[c] = "selfWork"
    /\ pc' = [pc EXCEPT ![c] = "selfRelease"]
    /\ UNCHANGED <<lockVars, jobVars, workVars, flagVars, scanVars,
                   scanWorkVars, op, mine, accepting>>

(* Mutant: the reservation is released with the response, not by the task. *)
PrepareRestartReleased(c) ==
    /\ pc[c] = "restartPrep"
    /\ restartRunning' = FALSE
    /\ Goto(c, "restartTask")
    /\ UNCHANGED <<lockVars, jobVars, workVars, selfUpdateRunning, scanVars,
                   scanWorkVars, accepting>>

(* Mutant: a failed preparation raises without releasing. *)
PrepareRestartLeaked(c) ==
    /\ pc[c] = "restartPrep"
    /\ Goto(c, "restartTask") \/ Done(c)
    /\ UNCHANGED <<lockVars, jobVars, workVars, flagVars, scanVars,
                   scanWorkVars, accepting>>

(* _prepare_container_restart fails and releases, or a background task is left *)
PrepareRestart(c) ==
    /\ pc[c] = "restartPrep"
    /\ \E next \in {"restartTask", "restartRelease"} :
           pc' = [pc EXCEPT ![c] = next]
    /\ UNCHANGED <<lockVars, jobVars, workVars, flagVars, scanVars,
                   scanWorkVars, op, mine, accepting>>

(* _run_container_restart: bounded by the command timeout *)
RestartTask(c) ==
    /\ pc[c] = "restartTask"
    /\ pc' = [pc EXCEPT ![c] = "restartRelease"]
    /\ UNCHANGED <<lockVars, jobVars, workVars, flagVars, scanVars,
                   scanWorkVars, op, mine, accepting>>

(* _release_self_update, _release_container_restart *)
ReleaseFlag(c) ==
    /\ pc[c] \in {"selfRelease", "restartRelease"}
    /\ applyLock = NoThread
    /\ \/ /\ pc[c] = "selfRelease"
          /\ selfUpdateRunning' = FALSE
          /\ UNCHANGED restartRunning
       \/ /\ pc[c] = "restartRelease"
          /\ restartRunning' = FALSE
          /\ UNCHANGED selfUpdateRunning
    /\ Done(c)
    /\ UNCHANGED <<lockVars, jobVars, workVars, scanVars, scanWorkVars,
                   accepting>>

-----------------------------------------------------------------------------
(* Security scan refresh *)

(* Mutant: web_apply_lock is left before web_security_scan_lock is entered. *)
LockScansHandOver(c) ==
    /\ pc[c] = "reserve"
    /\ op[c] = "scan"
    /\ scanLock = NoThread
    /\ scanLock' = c
    /\ applyLock' = NoThread
    /\ Goto(c, "scanInsert")
    /\ UNCHANGED <<jobVars, workVars, flagVars, scanVars, scanWorkVars,
                   accepting>>

(* reserve_scan_job enters web_security_scan_lock inside web_apply_lock. *)
LockScans(c) ==
    /\ pc[c] = "reserve"
    /\ op[c] = "scan"
    /\ scanLock = NoThread
    /\ scanLock' = c
    /\ pc' = [pc EXCEPT ![c] = "scanInsert"]
    /\ UNCHANGED <<applyLock, jobVars, workVars, flagVars, scanVars,
                   scanWorkVars, op, mine, accepting>>

(* The body of reserve_scan_job, and both locks released. *)
RegisterScan(c) ==
    /\ pc[c] = "scanInsert"
    /\ nextScan \in ScanIds
    /\ \/ /\ ActiveScans = {}
          /\ scanStatus' = [scanStatus EXCEPT ![nextScan] = "queued"]
          /\ scans' = PrunedScans(scans \cup {nextScan}, scanStatus')
          /\ nextScan' = nextScan + 1
          /\ mine' = [mine EXCEPT ![c] = nextScan]
          /\ pc' = [pc EXCEPT ![c] = "submitScan"]
          /\ UNCHANGED op
       \/ /\ ActiveScans # {}
          /\ Done(c)
          /\ UNCHANGED <<scans, scanStatus, nextScan>>
    /\ applyLock' = NoThread
    /\ scanLock' = NoThread
    /\ UNCHANGED <<scanQueue, jobVars, workVars, flagVars, scanWorkVars,
                   accepting>>

(* executor.submit, outside every lock *)
SubmitScan(c) ==
    /\ pc[c] = "submitScan"
    /\ \/ /\ accepting
          /\ scanQueue' = scanQueue \cup {mine[c]}
          /\ Done(c)
       \/ /\ ~accepting
          /\ Goto(c, "popScan")
          /\ UNCHANGED scanQueue
    /\ UNCHANGED <<lockVars, jobVars, workVars, flagVars, scans, scanStatus,
                   nextScan, scanWorkVars, accepting>>

(* The submit failed: pop the scan under its lock. *)
PopScan(c) ==
    /\ pc[c] = "popScan"
    /\ scanLock = NoThread
    /\ scans' = scans \ {mine[c]}
    /\ Done(c)
    /\ UNCHANGED <<lockVars, jobVars, workVars, flagVars, scanStatus,
                   nextScan, scanQueue, scanWorkVars, accepting>>

-----------------------------------------------------------------------------
(* The thread of web_apply_executor *)

WorkerTake ==
    /\ workerPc = "idle"
    /\ \E j \in Oldest(queue, 1) :
           /\ workerJob' = j
           /\ queue' = queue \ {j}
    /\ workerPc' = "wait"
    /\ UNCHANGED <<lockVars, jobs, status, kind, nextJob, started, flagVars,
                   scanVars, scanWorkVars, clientVars, accepting>>

(* Mutant: a status outside the API's vocabulary *)
SetJobStatusTypo(j, s) ==
    status' = IF j \in jobs
              THEN [status EXCEPT ![j] = IF s = "success" THEN "succeeded" ELSE s]
              ELSE status

(* _update_apply_job: a job that is no longer registered is left alone. *)
SetJobStatus(j, s) ==
    status' = IF j \in jobs THEN [status EXCEPT ![j] = s] ELSE status

(* Mutant: the job is not marked as running. *)
WorkerStartSilent ==
    /\ workerPc = "wait"
    /\ workerJob \in started
    /\ workerPc' = "work"
    /\ UNCHANGED <<lockVars, jobVars, workerJob, flagVars, scanVars,
                   scanWorkVars, clientVars, accepting>>

(* start_event.wait(), then status = "running" *)
WorkerStart ==
    /\ workerPc = "wait"
    /\ workerJob \in started
    /\ applyLock = NoThread
    /\ SetJobStatus(workerJob, "running")
    /\ workerPc' = "work"
    /\ UNCHANGED <<lockVars, jobs, kind, nextJob, started, queue, workerJob,
                   flagVars, scanVars, scanWorkVars, clientVars, accepting>>

(* Work done after the last status update: a failed retag still writes its    *)
(* audit row, a tracking repair still removes its backup.                     *)
HasTail(j, outcome) ==
    kind[j] = "tracking" \/ (kind[j] = "retag" /\ outcome = "failure")

(* The handler's last status update *)
WorkerFinish ==
    /\ workerPc = "work"
    /\ applyLock = NoThread
    /\ \E outcome \in Terminal :
           /\ SetJobStatus(workerJob, outcome)
           /\ workerPc' = IF HasTail(workerJob, outcome) THEN "tail" ELSE "idle"
    /\ workerJob' = 0
    /\ UNCHANGED <<lockVars, jobs, kind, nextJob, started, queue, flagVars,
                   scanVars, scanWorkVars, clientVars, accepting>>

WorkerTail ==
    /\ workerPc = "tail"
    /\ workerPc' = "idle"
    /\ UNCHANGED <<lockVars, jobVars, workerJob, flagVars, scanVars,
                   scanWorkVars, clientVars, accepting>>

-----------------------------------------------------------------------------
(* The thread of web_security_scan_executor *)

ScanTake ==
    /\ scanPc = "idle"
    /\ \E s \in Oldest(scanQueue, 1) :
           /\ scanJob' = s
           /\ scanQueue' = scanQueue \ {s}
    /\ scanPc' = "start"
    /\ UNCHANGED <<lockVars, jobVars, workVars, flagVars, scans, scanStatus,
                   nextScan, clientVars, accepting>>

(* _update_job enters web_security_scan_lock, to start or to finish. *)
ScanLock ==
    /\ scanPc \in {"start", "work"}
    /\ scanLock = NoThread
    /\ scanLock' = ScanWorker
    /\ scanPc' = IF scanPc = "start" THEN "starting" ELSE "finishing"
    /\ UNCHANGED <<applyLock, jobVars, workVars, flagVars, scanVars, scanJob,
                   clientVars, accepting>>

(* Mutant: under the scan lock, the worker asks for web_apply_lock too. *)
ScanUpdateNested ==
    /\ applyLock = NoThread
    /\ scanPc \in {"starting", "finishing"}
    /\ \E s \in IF scanPc = "starting" THEN {"running"} ELSE Terminal :
           scanStatus' = [scanStatus EXCEPT ![scanJob] = s]
    /\ scanPc' = IF scanPc = "starting" THEN "work" ELSE "idle"
    /\ scanJob' = IF scanPc = "starting" THEN scanJob ELSE 0
    /\ scanLock' = NoThread
    /\ UNCHANGED <<applyLock, jobVars, workVars, flagVars, scans, nextScan,
                   scanQueue, clientVars, accepting>>

(* The body of _update_job: set the status, prune, leave the lock.  (The     *)
(* updates in between change only the job's counters, and prune a registry   *)
(* that the last update has already pruned.)                                 *)
ScanUpdate ==
    /\ scanPc \in {"starting", "finishing"}
    /\ \E s \in IF scanPc = "starting" THEN {"running"} ELSE Terminal :
           scanStatus' = IF scanJob \in scans
                         THEN [scanStatus EXCEPT ![scanJob] = s]
                         ELSE scanStatus
    /\ scans' = IF scanJob \in scans THEN PrunedScans(scans, scanStatus')
                                     ELSE scans
    /\ scanPc' = IF scanPc = "starting" THEN "work" ELSE "idle"
    /\ scanJob' = IF scanPc = "starting" THEN scanJob ELSE 0
    /\ scanLock' = NoThread
    /\ UNCHANGED <<applyLock, jobVars, workVars, flagVars, nextScan,
                   scanQueue, clientVars, accepting>>

-----------------------------------------------------------------------------
(* shutdown_security_scan_state and shutdown_apply_job_state: no new work,   *)
(* queued futures are cancelled, running ones go on.                         *)
Shutdown ==
    /\ accepting
    /\ accepting' = FALSE
    /\ queue' = {}
    /\ scanQueue' = {}
    /\ UNCHANGED <<lockVars, jobs, status, kind, nextJob, started, workVars,
                   flagVars, scans, scanStatus, nextScan, scanWorkVars,
                   clientVars>>

-----------------------------------------------------------------------------

(* The steps of a client once it has begun. *)
ClientStep(c) ==
    \/ AcquireApply(c) \/ CheckActive(c) \/ CheckScans(c)
    \/ RegisterJob(c) \/ StartJob(c)
    \/ ReserveFlag(c) \/ SelfUpdateWork(c)
    \/ PrepareRestart(c) \/ RestartTask(c) \/ ReleaseFlag(c)
    \/ LockScans(c) \/ RegisterScan(c) \/ SubmitScan(c) \/ PopScan(c)

WorkerStep == WorkerTake \/ WorkerStart \/ WorkerFinish \/ WorkerTail

ScanStep == ScanTake \/ ScanLock \/ ScanUpdate

Next ==
    \/ \E c \in Clients : (\E o \in Ops : Begin(c, o)) \/ ClientStep(c)
    \/ WorkerStep
    \/ ScanStep
    \/ Shutdown

Spec == Init /\ [][Next]_vars

(* A thread that can go on does, and a thread that waits for a lock which is *)
(* released over and over gets it in the end.                                *)
Fairness ==
    /\ \A c \in Clients : SF_vars(ClientStep(c))
    /\ SF_vars(WorkerStep)
    /\ SF_vars(ScanStep)

FairSpec == Spec /\ Fairness

-----------------------------------------------------------------------------
(* Properties *)

(* What holds the permission to mutate. *)
Holders ==
    {<<"job", j>> : j \in ActiveJobs}
        \cup {<<"scan", s>> : s \in ActiveScans}
        \cup {<<"selfUpdate", 0>> : x \in {y \in {1} : selfUpdateRunning}}
        \cup {<<"restart", 0>> : x \in {y \in {1} : restartRunning}}

Owners ==
    ({"job"} \X JobIds) \cup ({"scan"} \X ScanIds)
        \cup {<<"selfUpdate", 0>>, <<"restart", 0>>}

(* The threads that are, right now, changing files, images or containers. *)
Mutators ==
    {c \in Clients : pc[c] \in {"selfWork", "restartPrep", "restartTask"}}
        \cup {"applyWorker" : x \in {y \in {1} : workerPc = "work"}}
        \cup {ScanWorker : x \in {y \in {1} : scanPc \in {"work", "finishing"}}}

(* One active job at a time: of all queued or running jobs and scans and the  *)
(* two flags, at most one is set, whichever threads raced for the gate.       *)
(* (docs/wiki/webui-container.md, "one active job at a time")                 *)
OneHolder == \A a, b \in Holders : a = b

(* The gate guards what it is for: whatever thread is at work, it is the only *)
(* one, and the permission is taken by the very job or flag it works for.  An *)
(* evicted, popped or already finished job is never still being worked on.    *)
OneMutator ==
    /\ \A c \in Clients : pc[c] = "selfWork" => Holders = {<<"selfUpdate", 0>>}
    /\ \A c \in Clients : pc[c] \in {"restartPrep", "restartTask"}
                              => Holders = {<<"restart", 0>>}
    /\ workerPc = "work" => Holders = {<<"job", workerJob>>}
    /\ scanPc \in {"work", "finishing"} => Holders = {<<"scan", scanJob>>}
    /\ \A a, b \in Mutators : a = b

(* Both registries have a limit. *)
RegistriesBounded ==
    /\ Cardinality(jobs) <= JobLimit
    /\ Cardinality(scans) <= ScanLimit

(* The order of statuses: what a poll of a job may see next. *)
MayFollow(old, new) ==
    \/ new = old
    \/ old = "none" /\ new = "queued"
    \/ old = "queued" /\ new = "running"
    \/ old = "running" /\ new \in Terminal

(* However adding, evicting and finishing jobs interleave, no registry        *)
(* outgrows its limit (_register_apply_job_unlocked,                          *)
(* _prune_security_scan_jobs_unlocked), a job only goes forward, and "queued  *)
(* and running jobs are never evicted" (_register_apply_job_unlocked).        *)
RegistriesKept ==
    [][/\ RegistriesBounded'
       /\ \A j \in JobIds :
              /\ MayFollow(status[j], status'[j])
              /\ j \in jobs \ jobs' => status[j] \in Terminal]_vars

(* The gate with all its locks and registries is one token, taken only when   *)
(* free and given back before it is taken again.                              *)
Token == INSTANCE SingleMutation WITH holders <- Holders
GateIsOneToken == Token!Spec

(* The permission is always given back, unless the executors were shut down   *)
(* with a job in the queue: no error path keeps a reservation.                *)
PermissionReturned == Holders # {} ~> (Holders = {} \/ ~accepting)

(* Every request is answered and every tick ends: nobody waits for ever on    *)
(* the two locks, in whichever order they were asked for.                     *)
RequestsAnswered == \A c \in Clients : pc[c] # "idle" ~> pc[c] = "idle"

(* A job that got the gate is finished by the worker, although it may wait    *)
(* for a start event that another thread sets.                                *)
JobsFinish ==
    \A j \in JobIds : status[j] = "queued" ~> (status[j] \in Terminal \/ ~accepting)

(* Nobody waits for ever: not for the permission, which every error path      *)
(* gives back; not on the two locks; and not for a job whose start event      *)
(* another thread has to set.                                                 *)
NobodyWaitsForEver == PermissionReturned /\ RequestsAnswered /\ JobsFinish
=============================================================================
