# TLA+ models of WUDup

WUDup applies the container updates that WUD (What's Up Docker) reports: it reads
a list of pending entries, finds the Compose stacks that use the images, pulls and
recreates them, and keeps a history. It has a command-line updater, a WebUI that
plans and applies the same updates, and a scheduler that applies them at a time of
day. This directory models the parts of it in which order, failure and concurrency
matter, checks them with TLC, and proves the most important properties with TLAPS.

All source paths below are relative to `src/src/wudup/`.

## The system

### Components

| Component | State | Operations | Talks to |
|---|---|---|---|
| Mutation gate (`web_job_registry.py`, `web_jobs.py`) | `web_apply_jobs`, two running flags, one lock with a condition | reserve, register, evict, update status, shut down | every handler that changes something |
| Job executor (`web_jobs.py`, `web_retag_apply.py`, `web_tracking.py`) | one thread, its queue, the start event of a scheduled job | run an apply, retag or tracking-repair job | the registry, the updater |
| Security scans (`web_security.py`) | own registry, lock and executor | reserve inside the gate, scan, prune | the gate |
| Self-update, restart (`web_self_update.py`) | a flag each, a plan cache | pull or prepare the WUDup image, restart a container in a background task | the gate, Docker |
| Auto-update scheduler (`web_scheduler.py`) | held slots in memory; policies, snoozes, schedule rows in SQLite | one tick per poll: due, missed, hold, plan, reserve, submit, queue | the gate, the executor, the database (shared with other processes) |
| Updater run (`updater.py` and its mixins) | what it read, matches, statuses, the entries in flight | parse, match, remove, preflight, exclude, update stacks, reconcile, finish, abort | the pending file, Compose, the audit rows |
| Pending file and lock (`wud_file.py`, `locks.py`) | the file, `path.lock` | remove lines, restore lines, acquire, release | several runs and whatever appends entries |
| Audit history (`updater_audit.py`) | `update_runs`, `pending_updates`, `update_events` | start, mark, finish | the WebUI's History |
| Stack lifecycle (`updater_lifecycle*.py`) | which services ran before, the backup, the hashes written, what was restored and verified | rewrite, pull, verify digests, recreate, wait for health, roll back | Docker Compose, the Compose file |
| Compose file persistence (`compose_persistence.py`) | the Compose file, its backups, a directory lock | back up, replace, sync, restore | the lifecycle, retag, tag exclusions, self-update |
| Plans (`plans.py`, `plan_*.py`, `web_plans.py`, `web_plan_staleness.py`) | reviewed plans by id | build, compare, refuse a stale plan | the gate, the pending source |
| Job stream (`web_jobs.py`) | progress list, log file, open streams | snapshot, wait, send, finish, evict | browsers, the gate |
| WUD API cache and observations (`web_wud_*.py`, `web_pending_*.py`) | cached answers, observations by container, pauses | fetch, refresh, rescan, store | the WUD server |
| Operator state (`web_state.py`, `release_skips.py`, `db.py`) | policies, snoozes, skips, exclusion rules | edit, end by an update | the scheduler, the pending list |
| Writers of Compose files: retag (`web_retag_*.py`), tag exclusions (`updater_tag_exclusions.py`), tracking repair (`web_tracking.py`), self-update (`web_self_update.py`) | approved plans, backups, what was written | preview, rewrite, recreate, verify, go back | Docker, the gate, `compose_persistence.py` |
| Compose rewriting (`compose_rewrite.py`, `compose_source.py`) | the YAML graph, approvals | pin, unpin, retag, label | all writers above |
| Self-scope guard (`updater_self_scope.py`, `container_identity.py`, `updater_preflight.py`) | the verified scope | look up, compare, block | the lifecycle |
| Digests (`digest_verifier.py`) | documents of one check | fetch, compare, resolve | the registry, Docker |
| Security scans (`web_security.py`, `security_*.py`) | result rows, failed lookups | refresh, scan, compare, show | the scanner, the gate |
| Authentication (`web_auth.py`, `web_integration_auth.py`) | accounts, sessions, claims, throttles | set up, log in, recover, expire | every request |
| Release notes and notifications (`web_release_notifications.py`, `web_discord.py`) | cached notes, notification rows | detect, reserve, send, record | GitHub, Discord |
| Commands and shared reads (`command.py`, `request_scope.py`) | child processes, output, reads of a request | run, interrupt, reuse | Docker |
| Database schema (`db_schema.py`) | tables and their version | create, check, migrate | several processes |
| Settings, health, CLI, views | rows, pages | format | |

### What is hard, and what makes it correct

* **Gate.** Seven kinds of requests and a scheduler thread race for one permission;
  two locks nest; a restart keeps its reservation after the response is sent; the only
  executor thread may wait for another thread. Correct: at most one holder, only the
  holder works, every error path gives the permission back, nobody waits for ever.
* **Scheduler.** A slot (service, date, time) is claimed by a row in a database that
  outlives the process and that other processes share, while the reason to come back
  to it later is kept in memory only. Correct: a slot runs at most once whatever
  crashes; its row tells the truth and never goes back; no slot is submitted early, too
  late, or by a process that was not up in its window; a slot that was blocked in its
  window is not forgotten.
* **Updater run.** A run takes its entries out of a shared file, keeps them in memory
  for minutes, and puts back those that failed, by line number and by count. Correct:
  no entry is lost, no rewrite overlaps another, the history does not claim an update
  that did not happen, a run always ends.
* **Stack lifecycle.** An update rewrites a file that others edit, up to three times,
  stops or pauses services and recreates them; any command may fail half-way, a signal
  or a power loss may come at any point, and a retry starts from what is left.
  Correct: the last version of the file that is known to work is never lost, nobody's
  edit is undone, services are running or stopped as before or the operator is told,
  and success means that the new image is in use.

* **Other writers of Compose files.** They change a file that the operator edits, and
  containers that the operator stops, minutes after the operator approved a preview.
  Correct: what is reported as done is what was approved; a failure is undone as a
  whole, or told; nobody's work is overwritten; WUDup does not stop itself.
* **Data from outside.** WUD, the registry, the scanner, GitHub and Docker answer
  late, partly, in another order, or not at all, and their answers are cached. Correct:
  what is shown or applied is no older than it says, an error is not taken for an
  answer, and a message is posted once.
* **Accounts and throttles.** Passwords are checked outside every lock, and a recovery
  may come between a check and its session. Correct: guesses are bounded, old passwords
  and claims stay dead, and nobody is locked out for ever.
* **Processes and the database.** An interrupt may come while another one is handled;
  two processes may migrate one file and die. Correct: no child is left, the database is
  always a whole version, and everybody gets to use it.

`PROJECT.json` lists the most important hazards one by one, each at its line and with
the properties about it.

## Modules

| Module | What it is |
|---|---|
| `SingleMutation` | what the gate promises: one token |
| `MutationGate` | the gate, its clients and both executors |
| `AutoUpdateScheduler` | the scheduler, its job, the shared database, crashes |
| `UpdaterRun` | updater runs on one pending file, with lock and audit rows |
| `StackLifecycle` | the update of one stack and the writes of its Compose file |
| `MutationGateProofs`, `AutoUpdateSchedulerProofs`, `StackLifecycleProofs`, `WebSessionsProofs` | theorems about single components |
| `CountingLemmas` | facts about least members, finite sets and ranks, for the proofs |
| `PlanApply` | a plan from its review to the run that applies it |
| `WudObservations`, `WudCache`, `PendingObservations` | WUD's payload; its cache under concurrent requests; what outlives a refresh |
| `JobStream` | an apply job and the event streams that follow it |
| `RetagApply`, `TagExclusions`, `TrackingRepair`, `SelfUpdate` | the other jobs that rewrite Compose files |
| `ComposeLabels` | what a rewrite does to images and labels that services share |
| `SelfScope` | the guard of WUDup's own container and of its Docker endpoint |
| `DigestVerification` | what a digest check may conclude |
| `SecurityScans` | a scan refresh, its result rows and the page |
| `ServiceHolds` | policies, snoozes, skips and the events that end them |
| `WebSessions`, `LoginThrottle` | accounts and sessions; the limit on wrong secrets |
| `ReleaseNotifications` | reserve, post and record, by a poll and by requests |
| `DatabaseSchema` | creation and migration by racing processes |
| `CommandProcesses`, `RequestReuse` | one docker command; what a request may reuse |
| `Updates` | observations, plans and updater runs side by side |
| `ComposeFile` | everything that writes a Compose file: update, retag, exclusions, repair, labels |
| `Containers` | a stack update, the self-scope guard, self-update, commands and digest checks |
| `UpdatesProofs`, `ComposeFileProofs`, `ContainersProofs` | theorems about these three and each component in them |
| `MCMutationGate`, `MCAutoUpdateScheduler`, `MCUpdaterRun`, `MCStackLifecycle`, `MCUpdates`, `MCComposeFile`, `MCContainers` | instances for TLC: values of the constants |
| `MCWebState`, `MCWebLive` | instances of several components each |

`Updates`, `ComposeFile`, `Containers`, `MCWebState` and `MCWebLive` put components with
one question side by side. The variable `part` says
which of them runs in a behaviour; the others stay in an initial state. A run therefore
has one behaviour set per component, not their product. The jobs among them may not
overlap anyway (that is what `MutationGate` proves); what others do to the same files,
containers, rows and caches at the same time is a part of each module (`Outside`,
`Edit`, `OtherJob`, `StopService` and the like). A property of these modules is a
conjunction of properties that the component modules state and comment one by one.

In every module the definitions marked `Mutant:` are wrong variants of the definition
that follows. No specification uses them; they show that a property can fail.

### MutationGate

`applyLock` is `web_apply_lock` (also the lock of `web_apply_condition`), `scanLock` is
`web_security_scan_lock`. `pc`, `op` and `mine` are the program counters of the
request threads and of the scheduler; `jobs`, `status`, `kind`, `started` and `queue`
are the registry and the executor's queue; `scans` and `scanStatus` the other registry.

A client takes the apply lock (`AcquireApply`), looks at jobs and flags
(`CheckActive`), at the scans under their lock (`CheckScans`), and reserves:
`RegisterJob` for the four kinds of jobs, `ReserveFlag` for self-update and restart,
`LockScans` and `RegisterScan` for a scan. A section under the apply lock that takes
no other lock is one step; every point at which another thread can interfere is a step
boundary. `WorkerStart` waits for the start event of a scheduled job, `WorkerFinish` is
the last status update, and `WorkerTail` is the work some handlers do after it.
`Shutdown` cancels what is queued and refuses new work. Ids are numbers in
the order of registration, in place of the insertion order of the dictionary and of
random tokens that never repeat.

The reservation of the whole gate is refined to `SingleMutation`: its variable is the
set of active jobs, active scans and set flags.

### AutoUpdateScheduler

`row` is `auto_update_schedule_runs`, with the policies and snoozes the state that
survives a crash and that all processes see. `held`, `tick`, `due`, `missed`,
`selected`, `job` and `startEvent` belong to a process. `ran` counts, as history, the
jobs started for a slot.

A tick is the sequence `TickStart` (read the clock, policies and held slots),
`RecordMissed` (one transaction), `CheckGate`, `BuildPlan` or `PlanError`, `Reserve`
(one transaction), `Submit`, and then `Queue` or `Release`. Between any two of them
the clock, the user, the other process, the job and a crash may come in. `BuildPlan` chooses
freely which lines are pending and for which update modes the plan is blocked; the
selection of one mode, the order of the modes and what is held afterwards are the
code's. `Fault` makes a transaction fail, or the executor refuse a job; a failed
`Release` or `JobFinish` is only logged in the code, and the model goes on.

A `Crash` includes a clean stop: a stopped scheduler does not finish its tick, and the
next start sets `web_auto_update_started_at` again. Time zones, and with them hours
that are skipped or repeated, are not modelled: an instant is a number and a day
has `Day` of them.

### UpdaterRun

`file` is the pending file as a sequence of raw lines, `lockDir` is `path.lock`. A run
reads the file (`Parse`), chooses which lines to update, exclude or remove, starts its
audit (`Prepare`, with the second read of `audit_parsed_file`), takes the lock and
removes the lines (`Acquire`, `TakeOut`), and works on the stacks (`PreflightDigests`,
`ApplyExclusions`, `UpdateStack`). Then it restores what did not succeed
(`Reconcile`, `Restore`), and writes the history (`MarkFailed`, `Finish`, `Report`). `Interrupt` and the
failing alternatives lead into `_abort_run` (`AbortRestore`, `Abort`). `Kill` is a
SIGKILL: nothing is cleaned up and the lock may stay.

`RemoveLines` and `RestoreLines` are the two rewrites, with the counting of
equal lines of the code. Matching and digest results are chosen freely; stacks fail
freely. `done`, `dropped` and `lost` are history variables for `NothingLost`: stacks
updated for an entry, entries that are out for a good reason, and entries that the
code knows it cannot keep (a kill, or a failed restore that is reported to the user).

Simplifications: the three reads of `_parse_wud_files` are one step; mkdir and the read
under the lock are one step, as are the atomic replacement and rmdir (a failing rmdir
has the effect of a run killed while it holds the lock); whatever appends entries is
assumed to respect the lock; comment lines are left out.

### StackLifecycle

This is the step `UpdateStack` of `UpdaterRun` in detail. The file is a *version*: how
often others edited it, and which rewrites of which updates it has; a version also
stands for its hash. `durable` is what a power loss would leave, `backups` the backups
on disk, `trusted` (history) the last version that passed the health gate or that
somebody else wrote. `backup`, `written`, `restored` and `verified` are the fields of
`_StackUpdateState`; `con` is what Docker has, one container per service.

An update reads the runtime state (`BuildState`, or `Refuse`), makes up to three
rewrites (`Rewrite`: a backup, the replacement, then the note of its hash and the
directory sync), pulls (`Pull`), decides whether anything is to be done (`FinishPull`),
recreates first the stopped and then the running services (`RecreateStopped`,
`Prepare`, `Up`, `VerifyStopped`, `Unpause`) and waits for their health (`Health`).
Failures lead to `Rollback` and `RestoreServices` when the file was rewritten, and
otherwise, in stop mode, to `Restart`; `Discard` ends every update. `Interrupt` is the
`except BaseException` of `_update_stack`. A command that an interrupt cuts short has the
effect of the command that fails, followed by the interrupt.

Docker is external: `UpDone`, `UpBroken`, `NoStartDone`, `NoStartBroken`, `Moved` and
`MovedSome` say what a command may leave behind, including services that start although
they should not. `up --wait` is an `Up` followed by a passing `Health`. Which digests are
expected and what the registry says is a free choice in `Pull`; scaled services and
paused ones are refused before anything happens. `Edit` is a writer that takes the
directory lock, as all of WUDup's do.

`InterruptInReplace` says whether a signal may arrive between `os.replace` and the
`append` of the new hash. The code does not exclude it; the passing run and the proofs
do, and `stack_replace_window` shows what happens otherwise.

### PlanApply, WudObservations, WudCache, PendingObservations

`PlanApply` follows one request: `Review` builds a plan, `AskGate`, `FetchList`,
`Recheck` and `Submit` are the steps of `api_create_job`, `StartJob` and `Run` the job,
which reads settings and Compose files again. `BuildPlan`, `PlanId` and what they use
translate matching, issues and the hashed fields; `StaleReason` is `stale_plan_reason`. Every
input may change between any two steps. A hash is what is hashed.

`WudCache` has the threads that ask for a snapshot, watch containers or rescan.
`_refresh_lock` is a variable, a section under `_cache_lock` is one step, and every
payload is possible at every request. `PendingObservations` takes a whole refresh as one
step and adds restarts, the copy in the database and a change of the API. Both use
`WudObservations` for what the code makes of a payload.

### JobStream

The worker's steps are those of `_run_apply_job`, up to the row and the clean-up that
may fail before the final status. A stream takes a snapshot under the condition, reads
the log without it, and sends its events one by one; it may be slow or go away, and the
job may be evicted.

### RetagApply, TagExclusions, TrackingRepair, SelfUpdate, ComposeLabels

A file is one of a few texts: the old one, the approved one, what somebody else saved.
Each call of Docker and each transaction is one step and may fail with the effect done
or not done; the way back is modelled step by step. `TagExclusions` repeats runs, because
a label is recognised by its text from run to run. `SelfUpdate` has two request threads
that share the cache of plans and its files, and the pull of a floating tag.
`ComposeLabels` sees the file as a graph: services refer to image and label nodes, which
aliases and merge keys share. It models which node a rewrite changes, copies or refuses.

### SelfScope, DigestVerification, CommandProcesses, RequestReuse

`SelfScope` chooses freely which container is WUDup, which one answers `DOCKER_HOST` and
how it is reached; the code sees names, ports and networks only, each of which may fail
to be found. `DigestVerification` has images, an index, a tag that moves, a registry that
fails or lies, and both image stores. `CommandProcesses` has a child and a helper, output
cut into chunks, and interrupts, in the three ways of running a command. `RequestReuse`
has two workers, a body that outlives its request and the remembered checks.

### SecurityScans, ServiceHolds, WebSessions, LoginThrottle, ReleaseNotifications, DatabaseSchema

A transaction is one step everywhere. In `SecurityScans` the scanner's database may be
replaced at any time, also between a scan and the question which one it was. In
`ServiceHolds` time is in whole seconds, as the database keeps it. `LoginThrottle` is
about one of three doors at a time (password, bearer token, read-only token).
`ReleaseNotifications` keeps of a time stamp only whether it is old enough. A
notification has a key, which is all that tells two senders that they speak of one note.
The key of a verified security note also hashes the tags and digests of WUD's metadata
(`VerifiedSecurity`): the poll and a request for pending lines have them, since the
pending lines are read from WUD's API together with their metadata; a request for a run
takes the lines from the database and has none. The text of a line is assumed to name its
target; WUD's tag is hashed for every note otherwise.
`DatabaseSchema` runs the statements of a migration one by one, each of which may fail
or be the last one of the process.

## Runs

| Run | Module and cfg | Result | Distinct states |
|---|---|---|---|
| `mutation_gate` | `MCMutationGate`, `MutationGate.cfg` | passes | 0.1 million |
| `scheduler` | `MCAutoUpdateScheduler`, `Scheduler.cfg` | passes | 0.1 million |
| `scheduler_shared` | `MCAutoUpdateScheduler`, `SchedulerShared.cfg` | passes | 0.6 million |
| `scheduler_held_lost` | `MCAutoUpdateScheduler`, `SchedulerHeldLost.cfg` | violates `HeldStaysDue` | |
| `updates` | `MCUpdates`, `Updates.cfg` | passes | 1.6 million |
| `updater_shared` | `MCUpdaterRun`, `UpdaterShared.cfg` | passes | 0.37 million |
| `updater_reread` | `MCUpdaterRun`, `UpdaterReread.cfg` | violates `NothingLost` | |
| `compose_file` | `MCComposeFile`, `ComposeFile.cfg` | passes | 1.0 million |
| `containers` | `MCContainers`, `Containers.cfg` | passes | 1.0 million |
| `stack_replace_window` | `MCStackLifecycle`, `StackReplaceWindow.cfg` | violates `GoodVersionKept` | |
| `web_state` | `MCWebState`, `WebState.cfg` | passes | 1.1 million |
| `web_live` | `MCWebLive`, `WebLive.cfg` | passes | 0.1 million |

Run one with `tlc -workers 2 -config Updates.cfg MCUpdates`.

What they check, apart from types:

* `mutation_gate`: one holder (`OneHolder`), who alone works (`OneMutator`); registries
  at their limits lose no job (`RegistriesKept`); the refinement to one token
  (`GateIsOneToken`); nobody waits for ever (`NobodyWaitsForEver`).
* `scheduler`, `scheduler_shared`: a slot is submitted on time (`SubmittedOnTime`), at
  most once (`RunsOnce`), with a true row that goes forward (`RowsTellTheTruth`,
  `RowsGoForward`); without a database error no held slot is forgotten
  (`HeldWithoutFaults`); jobs and holds end (`NothingHangs`).
* `updates`, `updater_shared`: no entry is lost (`NothingLost`), the history is true
  (`HistoryTruthful`, `FinishedOnce`), rewrites do not overlap (`OneEditor`) and only
  remove what was asked for (`RemovalOnlyRemoves`), runs end (`RunsEnd`); what is applied
  is fresh and as reviewed (`AppliedAsReviewed`).
* `compose_file`: the good file and the edits survive an update (`GoodVersionKept`,
  `EditsKept`); the other jobs do what was approved (`DoneAsApproved`), undo a failure
  as a whole (`FailuresUndone`), and keep the work of others (`WorkOfOthersKept`).
* `containers`: an update tells the truth about its services (`ServicesAsReported`);
  WUDup, its endpoint, its plan files and its child processes are safe
  (`OwnProcessesSafe`); a prepared self-update is the reviewed one
  (`PreparedAsReviewed`); digest checks are right (`DigestsTold`).
* `web_state`: decisions of operators, accounts and the database survive races and
  crashes (`DecisionsKept`); answers are as fresh and as true as they say
  (`AnswersTrue`); stored results go forward (`ResultsGoForward`).
* `web_live`: streams, throttle and notifications (`ToldOnceInOrder`), and the liveness
  of seven components at once (`WaitingEnds`).

### Bounds

* Gate: a request thread, the scheduler and the two executor threads contend for the
  gate and its locks; the theorems cover any number of request threads. Registries have
  small limits and ids reach beyond them, so that eviction happens.
* Scheduler: a day has four units, the window one, the late limit two, so that a
  slot can be in its window, late, and too late, and so that a policy at time 3 is late
  across midnight. Two update modes are the least for one mode to defer another; two
  processes the least to share a database; one line with two services the least
  for a row-set to be reserved in part. A write may fail in both runs; `HeldWithoutFaults`
  speaks of behaviours in which none did, because with one it fails (see below).
* Updater: two entries, one of them in two stacks, and an initial file with two equal
  lines cover partial selection and counting. Two faults let the abort fail as well as
  the step before it. Two runs are the least to interfere. `UpdaterShared.cfg` has two
  runs on a file with one entry, a second entry appended at some time (`Appendable` says
  which), a fault and a kill; what one run puts back is to the other run an appended
  line.
* Stack: two updates, so that the second one starts from what the first one left: a
  pulled image with old containers, a file that a power loss brought back, a kept
  backup. `ComposeFile.cfg` has one service, since files do not depend on how many there
  are, and plans with one rewrite, with two before the pull, and with one on each side
  of it; one edit and one power loss can fall between any two steps. `Containers.cfg`
  has a target and a service that is recreated with it, in all 36 combinations of
  states, and leaves out edits and power losses.
* The other components: two of everything that may race (threads, clients, processes,
  streams), one or two of what happens around them (edits, faults, moves of a tag), and
  tables whose limit is reached. `TagExclusions` has two runs on a stack in which one
  service lends its network; `RetagApply` two stacks, so that the second may fail after
  the first has succeeded; `DatabaseSchema` starts from every version; `ComposeLabels`
  from eight files that share nodes in different ways; `RequestReuse` has a request for
  the preview of a plan, one for a page and one that changes something, of which two run;
  `ReleaseNotifications` has a fault where poll and requests share a key, and none where
  they do not, which keeps the graph of the liveness check small. The constants are in
  the MC modules, with the reason where it is not obvious.

### Fairness

* Gate: strong fairness of each thread. Python's locks are not fair, but a critical
  section is short and a thread that asks for a lock again and again gets it. Work
  steps end: a restart is bounded by the 60 second command timeout; an
  apply job's Docker commands have no timeout, so that they return is an assumption.
* Scheduler: weak fairness of the clock, of the poll loop, of each tick and of each
  job. Nothing is assumed about users, other mutations or crashes.
* Updater: weak fairness of each run. The wait for the lock is bounded by the code, so
  nothing is assumed about who holds it.
* `web_live`: weak fairness of a job's worker and of its streams; of time and of requests
  under way for the throttle; of a call of the WUD cache, which ends by its HTTP timeout,
  with strong fairness of taking `_refresh_lock`; of the poll and of requests under way
  for notifications (faults and crashes are bounded, the clients' requests are not
  assumed); strong fairness of a process that waits for SQLite's lock; weak fairness of a
  scan job and of the clean-up of a command. As one component runs in a behaviour, the
  n-th conditions of all components are stated together (`Weak`, `Strong`).
* Stack: no liveness is checked; the steps of an update form no loop except the health
  wait, which the code bounds by `max_wait`.

Most runs have terminal states (`CHECK_DEADLOCK FALSE` where a cfg says so): a job that
has ended does nothing more, and bounded ids, edits and faults run out.

### What the violations show

* `scheduler_held_lost`: `_auto_update_candidate` replaces the held slots before
  the reservation (`web_scheduler.py:427`); if the reservation's transaction fails,
  the selected slots are not held again. A slot that was past its window
  is then never looked at, although "A held slot ... stays due until the late limit".
* `updater_reread`: when a tag-exclusion or removal line is not a target,
  `audit_parsed_file` reads the file again, and the line numbers of the first read
  are applied to the second. If another run removed a line in between, an entry
  that nobody selected is removed and not put back.
* `stack_replace_window`: a signal just after `os.replace`, before the hash is noted,
  makes the update believe that it wrote nothing. The new tag stays in the Compose
  file without having passed the health gate, and the backup is deleted.

Three properties are stated for less than one might wish, because of what the code does.
`RemovalOnlyRemoves` is checked for one run and an appender: with two runs,
`remove_lines_before_run` writes the lines of the run's own snapshot, and an entry that
the other run has in flight or has finished comes back. `NotLeftDown` leaves interrupts
out: one between `compose stop` and `compose up`, in an update without a rewrite, leaves
the services stopped, and `_restore_compose_after_abort` returns before its message.
`NoUnwantedRepeat` and `UrgentNotRepeated` (in `ToldOnceInOrder`) except a verified note
that one sender sends with WUD's metadata and another, for a run, without: it has two
keys (`web_release_notification_state.py:443`, `web_release_notifications.py:647`), so
Discord shows it twice although nobody asked for a resend and nothing was lost. Without
the exception (`j = k` alone in `NoUnwantedRepeat`) TLC finds it in twelve steps of
`web_live`: the poll sends the note with the metadata, a request for the run that resolved
its line sends it without, in either order, and neither finds the other's reservation. The repository disagrees with itself here: "line previews and run previews
must de-dupe even when WUD metadata is unavailable in one path" says the comment at
`web_release_notification_state.py:398`, and `tests/test_python_web_release_notifications.py:1760`
tests it for an unverified note; line 187 of the same file asserts that the keys of a
verified note differ.

## Proofs

`tlapm <module>` checks each of the eight modules with theorems. They hold for any
constants that satisfy the named assumption of the module (`GateAssumption`,
`SchedulerAssumption`, `UpdaterAssumption`, `LifecycleAssumption` with `NoneAssumption`;
those of the compositions are below), which TLC evaluates in every run, or the hypothesis
named below. Every inductive invariant was checked by TLC before it was proved.

The theorems about a composition (`PartsSpec => ...`) say exactly what its run checks.
Each follows from the theorems of the components: a behaviour of the composition is, for
each component in it, a behaviour of that component (`RetagRuns`, `PlanRuns`, ...).

* **CountingLemmas.** The provers cannot apply a rule of induction, since it takes a
  predicate. Instead, a set of natural numbers that is not empty has a least member
  (`LeastMember`), because strict inclusion of finite sets is well founded; a
  counterexample to what is claimed of all positions thus has a first one. From it: the
  rank of a number in a set of numbers grows with it, is unique, and takes every value
  up to the size of the set (`RankGrows`, `RankUnique`, `RankOnto`).
* **MutationGateProofs.** `TypeCorrect`, `AtMostOneHolder`, `OnlyHolderWorks` and
  `GateImplementsToken`. The invariant adds to the types: at most one place has the
  permission (`Exclusive`); a thread is in a critical section if and only if it holds
  the lock, and past its check it still sees a free gate (`GateInv`), since only the
  holder of the apply lock may take the permission; and the links between a worker and
  its job, a scan worker and its scan, and a flag and the client that set it (`JobInv`,
  `ScanInv`, `FlagInv`). `OneHolder` alone is not inductive: it says nothing of a
  thread between check and reservation. `RegistriesAreKept` follows from the same
  invariant: while a job or scan is added no other is active, so that a registry which
  was within its limit has a finished entry to evict, and one eviction is enough.
* **AutoUpdateSchedulerProofs.** `SchedulerTypes`, `EachSlotRunsOnce`, `RowsAreTrue`
  and `RowsNeverGoBack`. The key is ownership: from `Reserve` until the job or the
  process is gone, a slot belongs to one process (`Own`), and owned slots of
  different processes are disjoint and have rows that are reserved or queued
  (`OwnInv`). `RanInv` counts runs by row and owner: a row that is absent or missed, or
  whose job has not started, was run zero times. `JobInv` ties the tick to its job: in
  particular a job whose tick has not written "queued" yet has not started.
  `SlotsAreSubmittedOnTime` needs that what a tick works on was due when it began
  (`TimeInv`), held slots included. `HeldSlotsStayDue` needs that the slots of a tick
  have no row before it inserts one (`LeftInv`) and is proved for one process: with two,
  a tick that finds its slots reserved drops them, and the other process may still
  release them.
* **UpdatesProofs**, the run. `RewritesApart` and `OutcomeRecordedOnce`, from the shapes of
  the variables used, `LockInv` (who rewrites holds the lock and its buffer is the file)
  and `RowInv` (a run past its audit has a row, and only a run that has not reported is
  still `started`). `UpdaterTypes` needs what selecting, restoring and removing make of a
  sequence of lines (`LinesAtPlaces`, `RestoreHas`, `RemoveHas`). `HistoryIsTrue` adds
  that the plan of a run matches what it parsed (`PlanInv`), that no row of a line that
  is worked on is resolved before the updates are over, and when nothing is in
  flight (`HistInv`).
  `NothingIsLost` counts for each entry where it is (`KeepInv`, `Accounted`): listed, on
  a line that a living run will put back, done in every stack, dropped or reported. It
  needs that the second read of the file has the lines of the first, hence the
  hypothesis `OneReading`: there is one run, or no line is excluded or discarded, so
  that the file is read once. Without it the claim is false (`updater_reread`).
  `RemovalRemoves` counts lines (`RemoveCount`, `ExtraCount`) and is for one run, as
  its run is: the file then begins with the lines that the run has read (`BeginInv`).
* **UpdatesProofs**, observations and plans. `ObservationsAreTrue` says that a fresh
  line is fresh and that a kept result is about its own image and API. `PlansAreKept` is
  about a plan between review and job. Its invariant `ApplyInv` adds to the types:
  the plan was built from a list and Compose files that were there (`ReviewInv`), and
  what is not among the recorded changes is as it was then; a plan that passed the
  comparison would be built again as long as nothing has changed since (`CheckedInv`);
  and what was applied is the run of that plan (`DoneInv`). That the job does as planned
  is a chain of lemmas about the matching code: the same entry and the same file give
  the same tags, ids and reasons (`TagsAgree`, `IdsAgree`, `ReasonTold`), so a run of
  the same list does as planned (`RunAsPlanned`), and a run of chosen stacks does so
  even if other parts changed (`RunAsSelected`). `UpdatesTyped` and `AppliedIsReviewed`
  are about the composition. `PlanAssumption`: lists and files have their types and no
  entry of WUD has an image named "pin".
* **StackLifecycleProofs.** `GoodVersionNeverLost` and `EditsSurvive`, under
  `~InterruptInReplace`, for any services and whatever Docker does: containers do not
  occur in the argument. `GoodVersionKept` alone is not inductive. `FileInv` adds that
  the backup of an update under way is on disk (`BackupOnDisk`); that between the
  replacement and the note, and afterwards until the health gate, the good version is
  backed up unless another writer has replaced ours (`InReplace`, `WrittenBacked`);
  that the steps which go forward have synced the file (`Synced`); that wherever the
  backup may be deleted it is not needed (`BackupNotNeeded`, with `Flags` on when the
  flags can be set); and that the backup and every version written have the same edits
  (`SameEdits`), so that an edited file is never mistaken for ours. Steps that do not
  touch the files are dealt with once (`QuietKeeps`), the others one by one.
  `LifecycleTypes` and `ReportsAreTrue` have no hypothesis: an interrupt in the replace
  window does not make a report untrue. `ServicesInv` says which rewrites are done at
  which step, which services have the image of the file (`ImagesInv`), that no record
  of the services exists while they change (`RecordInv`), and who is halted
  where (`HaltInv`).
* **WebSessionsProofs.** `SessionTypes`, `RecoveryEndsOldLogins` (`RecoveryEndsSessions`,
  `OldPasswordsStayDead`) and `AccountsAreSafe` (`OneAdmin`, `ClaimsAreSpent`,
  `NobodyLockedOut`), for any requests, passwords and bounds, if `None` is no password,
  claim or hash (`Constants`). `ClaimsInv` adds that a stored claim was issued, is
  unspent and is of one kind; `UsersInv` that a request which is about to rehash has
  found an account.
* **ComposeFileProofs**, repair. `RepairTypes`, `RepairsAreReportedTruly`
  (`RepairedAsApproved`, `FailureLeavesNothing`, `RowAgrees`), `RepairKeepsOldText`
  (`OldTextStays`) and `SavesAreKept` (`SavesStay`), for any number of events outside.
  `RepairTextInv` says which texts can be in the file, on the disk and in the backup at
  which step, and that a save by somebody else is on the disk at once; `RepairServiceInv`
  the same of the container, its image and its label; `RowInv` that job and row are open
  until the end.
* **ComposeFileProofs**, retag. `RetagTypes`, `RetagsKeepOldText` (`OldTextKept`),
  `RetagsAreAsApproved` (`OnlyApproved`, `NoSurpriseStart`, `OwnUntouched`),
  `RetagsAreAllOrNothing`, `RetagRecordsAreTrue` (`RecordsAgree`, `HistoryAgrees`),
  `RetagsKeepEdits` and `NewerRecordsAreKept`, for any stacks that are distinct and
  share no service (`RetagAssumption`), any consent and any number of events outside. The
  invariant goes along the sequence of stacks: those done are as planned, those
  to come as before, and the one at work has the state of its step, for texts
  (`RetagTextInv`), containers (`RetagServiceInv`), known images (`KnownInv`) and the
  history (`AuditInv`). `RetagPlanInv` ties the job to its approval, `PlaceInv` and
  `IdleInv` say at which step it may be.
* **ComposeFileProofs**, exclusions. `ExclusionTypes`, `ResolvedAreExcluded`,
  `NetworksAreKept` and `ExclusionsStay`, for any stacks that share no service and any
  chains of `network_mode: service:x` within a stack (`ExclusionAssumption`).
  `ExcludePlanInv`: a planned pair is written, or its stack has failed or is still to
  come. `NetworkInv`: a service that lost its network is of a stack that is
  reported as failed. What is recreated is the least set closed under
  "lends its network to" (`ExpandIs`, `ExpandStays`), so chains need no induction.
* **ComposeFileProofs**, labels. `LabelTypes` and `RewritesAreKind` (other services,
  foreign filters and transforms, filters that accept the tag in use). The rewriting of a
  file is the rewriting of its services in turn (`InTurnIs`); what one turn does is a lemma for each operation
  (`RetagStep`, `UnpinStep`, `TrackStep`, `LabelExclusionStep`). `LabelAssumption` asks
  that start files are well formed: no image is garbled, labels that come
  through a merge key are no service's own node, and no extending service blanks out the
  transform it inherits. The last one leaves a window out: if an operator removes
  such a blank label between the preview and the rewriting of an unpin, a managed transform
  may be added over the inherited one; retags and trackings are guarded against it by
  `expected_source_hash`.
* **ComposeFileProofs**, together. `ComposeFileTyped`, `DoneIsApproved`,
  `FailuresAreUndone` and `WorkOfOthersIsKept`.
* **ContainersProofs**, self-update. `SelfUpdateTyped`, `OldComposeStays`,
  `FilesCollected`, `ReviewedPrepared` and `EditsSurvive`, for any number of threads,
  plans and events outside (`SelfUpdateAssumption`). `OwnerInv`: the holder of the
  reservation is the only thread at work. `TagInv` and `PinInv`: which texts are
  written at which step, tied to the plan of that thread. `FileInv`: a plan that is being
  built has a file, and every file a plan or a builder.
* **ContainersProofs**, scope. `ScopeSafe` and `BlocksForCause`, for any network
  (`ScopeAssumption`). Within the hop limit a chain of network modes has one end
  (`Hops`, `OneEnd`), so that the guard finds the endpoint however it is reached
  (`EndpointSeen`); `ScopeInv`: neither it nor WUDup is in the verified scope.
* **ContainersProofs**, commands. `CallsEndWell`, for any output, chunk and tail size
  (`OutputAssumption`): children are reaped, helpers that heed the signal are gone, and the
  tail is the end of the output. The last part is about sequences: lines
  tile a stretch of the text (`LinesTile`, `PiecesTile`), what is read next goes on
  where the last reading ended (`FedTail`, `AppendedTiles`), and the tail's text is that
  stretch (`TextIsEnd`).
* **ContainersProofs**, digests. `DigestsAreTold`, for any images, indexes and
  moves of the tag, if digests name one document each and an index has one image for a
  platform (`DigestAssumption`). `Where` says what is known of the tag's
  document while other documents are fetched.
* **ContainersProofs**, together. `ContainersTyped`, `OwnProcessesAreSafe`,
  `DigestsToldTrue` and `PreparedIsReviewed`.

The proofs corrected the models in a few places, each checked against the code again:
`Expand` of `TagExclusions` is the closure of the whole chain and a network is only lost
through a provider that ran; `ComposeLabels` rewrites the filters in a text at once, and
its services in turn; `SplitLines` of `CommandProcesses` cuts a text as
`splitlines` does; and the unpin candidates of `PlanApply` must have the
text of the selected entry, as in `updater_runner_matching.py`: otherwise the unpin of
another digest line would have been taken for the reviewed one.

`AccountsAreSafe` and `RecoveryEndsOldLogins` are those parts of `DecisionsKept`
(`web_state`) that speak of sessions.

Only model-checked:

* liveness, which needs fairness and ENABLED: `NobodyWaitsForEver`, `NothingHangs`,
  `RunsEnd`, `WaitingEnds`;
* what is said of holds, schema, request reuse, scans, the cache, streams, the throttle
  and notifications: the other parts of `DecisionsKept`, and `AnswersTrue`,
  `ResultsGoForward` and `ToldOnceInOrder`.

False, so outside of the theorems: `NothingLost` with two runs that exclude or discard,
`RemovalOnlyRemoves` with two runs, and `HeldWithoutFaults` with two processes.

## Hazards without a property

What the code is exposed to, was met while modelling, and is covered by no property,
because no document or test promises more or because it lies below the models:

* `web_jobs.py:177`: `ThreadPoolExecutor.submit` may queue a job and then raise while it
  starts a thread. `web_self_update.py:488`: the restart flag is released by a background
  task that the web server might drop.
* `web_scheduler.py:168`, `:823`: a policy edited while the plan is built is not looked at
  again; a row left as reserved by a crash is never resolved.
* `updater.py:472`, `:491`: removed lines are marked as resolved before the lock is taken;
  a run killed between removal and restore loses its entries.
* `updater_lifecycle_recreate.py:107`: a signal between `compose stop` and `compose up`
  leaves services stopped. `updater_lifecycle_health.py:532`: a paused container may pass
  the gate on an old health status.
* `compose_persistence.py:124`, `web_retag_apply.py:762`: an editor without the directory
  lock, or somebody who stops a service, may act between the last look and the change.
* `updater_tag_exclusions.py:400`: after a failed recreation the retry finds the label in
  the file and resolves the line, as a test expects.
* `web_wud_cache.py:570`, `:941`: a pause that starts during a batch does not stop it; an
  overtaken refresh drops what only it saw. `web_pending_rescan.py:32`: a rescan looks at
  the gate without reserving it; it only reads.
* `web_release_notification_state.py:74`, `:200`: an outage of GitHub gives an update a
  second key; a repeat that fails under the cooldown policy is not tried again.
* `digest_verifier.py:455`, `:772`: a failed request for the expected digest is called
  stale; two requests of one check may see two positions of a tag.
* `security_scanner.py:76`: the scanner's database is asked for after the scan.
* `command.py:263`, `:285`: an interrupt in the few instructions outside the `try`; a
  helper that keeps the output open for ever.
* `web_state.py:575`: two services that wait for each other are both kept back.
* `plan_matching.py:237`: a selection of a whole line takes in services added after the
  plan was compared.

## Not modelled

* The text of Compose files below the YAML graph (quoting, flow style, indentation), HTTP
  and the registry's protocol, SQL text, HTML and the TypeScript front end: strings and
  views. The parsing of image references, tags and versions is modelled by what it
  tells apart, where a property depends on it.
* Cryptography of sessions and tokens, cookies and origin checks.
* Settings, health, diagnostics, onboarding, storage report, command line and doctor:
  handlers that read and format, or write one row.
* The wording of events, logs and issues, and `update_events` other than those that end a
  hold.
* Time zones of the scheduler.
* A step that spans two components of one MC module: each is modelled with what the
  others may do to it, not with the others themselves.

## Plan

Done: the gate, the scheduler, the updater run and the stack lifecycle; observations and
plans; everything that writes Compose files; self-update, self-scope, commands and
digests; sessions; all with proofs of their safety properties. The other components of
the table above are model-checked. Next:

1. Proofs about the components of `web_state` and `web_live` that have none, starting with
   those whose properties need the fewest facts about data: `WholeVersion`
   (`DatabaseSchema`), `NoUnwantedRepeat` (`ReleaseNotifications`), `GuessRate`
   (`LoginThrottle`).
2. `StackUpdate`: what the lifecycle promises to the run ("a stack is on its old or its
   new version, or the operator is told"), as a specification that `StackLifecycle`,
   `RetagApply` and `TrackingRepair` implement.
