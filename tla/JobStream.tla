------------------------------ MODULE JobStream ------------------------------
(* An apply job as its readers see it: the worker thread that runs it         *)
(* (_run_apply_job), and the server-sent event streams that browsers keep     *)
(* open on it (_apply_job_stream).  A stream takes a snapshot of the job      *)
(* under web_apply_condition, reads the log file without the lock, and        *)
(* yields the events one by one to a client that may be slow or go away.      *)
(*                                                                            *)
(* Progress events and log lines are numbered in the order they are written.  *)
(* Heartbeats, which carry nothing, are left out.                             *)
EXTENDS Naturals, Sequences

CONSTANTS
    Streams,
    None,
    MaxProgress,    \* progress events of the updater, a bound of the model
    TailLines       \* max_bytes of the log tail, in lines

VARIABLES
    job,        \* its entry in web_apply_jobs, None once evicted
    worker,     \* where _run_apply_job is
    fields,     \* terminal_job_fields: its status, and whether it has a log
    source,     \* a pending source was read from the API for the plan
    lines,      \* lines of the log file, None before it is there
    row,        \* the auto-update schedule row of the job
    pc, snap, cursor, out,  \* of a stream: _apply_job_stream's locals
    got         \* history: what the client of a stream was sent

workerVars == <<job, worker, fields, source, lines, row>>
streamVars == <<pc, snap, cursor, out, got>>
vars == <<workerVars, streamVars>>

Terminal == {"success", "failure"}
Statuses == {"queued", "running"} \cup Terminal
Job == [status : Statuses, version : Nat, progress : Nat, log : BOOLEAN]

Initial == [status |-> "failure", log |-> FALSE]

TypeOK ==
    /\ job \in Job \cup {None}
    /\ worker \in {"queued", "prepare", "options", "run", "refresh", "row", "except", "exceptRow",
                   "final", "done"}
    /\ fields \in [status : Terminal, log : BOOLEAN]
    /\ source \in BOOLEAN
    /\ lines \in Nat \cup {None}
    /\ row \in {"queued"} \cup Terminal
    /\ pc \in [Streams -> {"idle", "top", "wait", "log", "yield", "ended", "gone"}]
    /\ \A s \in Streams : snap[s] = None \/ snap[s].job \in Job

NewCursor == [version |-> None, progress |-> 0, log |-> None, final |-> FALSE]

Init ==
    /\ job = [status |-> "queued", version |-> 0, progress |-> 0, log |-> FALSE]
    /\ worker = "queued" /\ fields = Initial /\ source \in BOOLEAN
    /\ lines = None /\ row = "queued"
    /\ pc = [s \in Streams |-> "idle"]
    /\ snap = [s \in Streams |-> None]
    /\ cursor = [s \in Streams |-> NewCursor]
    /\ out = [s \in Streams |-> <<>>]
    /\ got = [s \in Streams |-> [progress |-> <<>>, status |-> None, log |-> None]]

-----------------------------------------------------------------------------
(* The worker *)

(* _update_apply_job: nothing happens to a job that is not registered. *)
UpdateApplyJob(j) == IF job = None THEN None ELSE [j EXCEPT !.version = @ + 1]

(* _append_apply_job_progress: the version stays. *)
AppendProgress == IF job = None THEN None ELSE [job EXCEPT !.progress = @ + 1]

WorkerAt(from, to) == worker = from /\ worker' = to /\ UNCHANGED <<streamVars, source>>

(* Mutant: a status no reader knows. *)
JobStartTypo ==
    /\ WorkerAt("queued", "prepare")
    /\ job' = UpdateApplyJob([job EXCEPT !.status = "started"])
    /\ UNCHANGED <<fields, lines, row>>

(* Once the start event, if there is one, is set *)
JobStart ==
    /\ WorkerAt("queued", "prepare")
    /\ job' = UpdateApplyJob([job EXCEPT !.status = "running"])
    /\ UNCHANGED <<fields, lines, row>>

(* _pending_source_wud_file: no snapshot of the pending source, or no disk    *)
(* for it, ends the job.                                                      *)
PendingSourceFile ==
    /\ \/ source /\ WorkerAt("prepare", "options")
       \/ WorkerAt("prepare", "except")
    /\ UNCHANGED <<job, fields, lines, row>>

(* _apply_options reads the effective configuration; then the runner, whose   *)
(* log has a name, is there.                                                  *)
ApplyOptions ==
    /\ \/ /\ WorkerAt("options", "run")
          /\ job' = UpdateApplyJob([job EXCEPT !.log = TRUE])
       \/ WorkerAt("options", "except") /\ UNCHANGED job
    /\ UNCHANGED <<fields, lines, row>>

(* runner.run: progress_callback, and the lines of the log *)
RunProgress ==
    /\ WorkerAt("run", "run")
    /\ job.progress < MaxProgress
    /\ job' = AppendProgress
    /\ lines' = IF lines = None THEN 1 ELSE lines + 1
    /\ UNCHANGED <<fields, row>>

(* The exit status, or an exception *)
RunEnd ==
    /\ \/ WorkerAt("run", "refresh") /\ fields' \in [status : Terminal, log : {TRUE}]
       \/ WorkerAt("run", "except") /\ UNCHANGED fields
    /\ UNCHANGED <<job, lines, row>>

(* _refresh_api_pending_source_after_apply: its errors are only reported. *)
RefreshPending ==
    /\ WorkerAt("refresh", "row")
    /\ job' = AppendProgress
    /\ UNCHANGED <<fields, lines, row>>

(* auto_update_schedule_run_updater, which may fail with the database *)
RecordRow ==
    /\ \/ WorkerAt("row", "final") /\ row' = fields.status
       \/ WorkerAt("row", "except") /\ UNCHANGED row
    /\ UNCHANGED <<job, fields, lines>>

ExceptProgress ==
    /\ WorkerAt("except", "exceptRow")
    /\ job' = AppendProgress
    /\ UNCHANGED <<fields, lines, row>>

(* Mutant: the result of the updater outlives the error. *)
ExceptRowKeeps ==
    /\ WorkerAt("exceptRow", "final")
    /\ row' \in {row, "failure"}
    /\ UNCHANGED <<job, fields, lines>>

(* A second error here leaves terminal_job_fields as they were at first. *)
ExceptRow ==
    /\ WorkerAt("exceptRow", "final")
    /\ \/ row' = "failure" /\ fields' = [status |-> "failure", log |-> job # None /\ job.log]
       \/ UNCHANGED row /\ fields' = Initial
    /\ UNCHANGED <<job, lines>>

(* Mutant: an error of the clean-up leaves the finally clause. *)
FinishJobCleanFirst ==
    /\ WorkerAt("final", "done")
    /\ \/ job' = UpdateApplyJob([job EXCEPT !.status = fields.status, !.log = fields.log])
       \/ UNCHANGED job
    /\ UNCHANGED <<fields, lines, row>>

(* finally: _cleanup_apply_job_resources hands its error on, and it is raised *)
(* once the job is over.                                                      *)
FinishJob ==
    /\ WorkerAt("final", "done")
    /\ job' = UpdateApplyJob([job EXCEPT !.status = fields.status, !.log = fields.log])
    /\ UNCHANGED <<fields, lines, row>>

(* A later job takes the place of this one: _register_apply_job_unlocked *)
Evict ==
    /\ job # None /\ job.status \in Terminal
    /\ job' = None
    /\ UNCHANGED <<worker, fields, source, lines, row, streamVars>>

-----------------------------------------------------------------------------
(* A stream *)

(* api_job_stream *)
OpenStream(s) ==
    /\ pc[s] = "idle" /\ job # None
    /\ pc' = [pc EXCEPT ![s] = "top"]
    /\ UNCHANGED <<workerVars, snap, cursor, out, got>>

(* Mutant: the events of a snapshot without a new version are not counted. *)
SeenProgressIfNew(s) ==
    IF job.version = cursor[s].version THEN cursor[s].progress ELSE job.progress

(* last_progress_count after the snapshot *)
SeenProgress(s) == job.progress

(* The rest of _apply_job_stream_snapshot, under the lock *)
TakeSnapshot(s) ==
    /\ snap' = [snap EXCEPT ![s] =
           [job |-> job,
            changed |-> job.version # cursor[s].version,
            progress |-> [i \in 1..(job.progress - cursor[s].progress) |->
                              cursor[s].progress + i],
            terminal |-> job.status \in Terminal]]
    /\ cursor' = [cursor EXCEPT ![s].version = job.version,
                                ![s].progress = SeenProgress(s)]
    /\ pc' = [pc EXCEPT ![s] = "log"]

Gone(s) == job = None /\ pc' = [pc EXCEPT ![s] = "ended"] /\ UNCHANGED <<snap, cursor>>

(* The first look: nothing new means waiting for a notification. *)
Snapshot(s) ==
    /\ pc[s] = "top"
    /\ \/ Gone(s)
       \/ /\ job # None
          /\ job.version = cursor[s].version /\ job.progress = cursor[s].progress
          /\ pc' = [pc EXCEPT ![s] = "wait"]
          /\ UNCHANGED <<snap, cursor>>
       \/ /\ job # None
          /\ job.version # cursor[s].version \/ job.progress # cursor[s].progress
          /\ TakeSnapshot(s)
    /\ UNCHANGED <<workerVars, out, got>>

(* Notified, or after JOB_STREAM_LOG_POLL_SECONDS *)
Wake(s) ==
    /\ pc[s] = "wait"
    /\ Gone(s) \/ (job # None /\ TakeSnapshot(s))
    /\ UNCHANGED <<workerVars, out, got>>

(* _safe_log_path and _read_log_tail *)
LogTail ==
    IF lines = None THEN [error |-> TRUE, last |-> 0, truncated |-> FALSE]
    ELSE [error |-> FALSE, last |-> lines, truncated |-> lines > TailLines]

(* _apply_job_log_response: a file that is not there yet is an error to tell. *)
LogResponse(j) == IF j.log THEN LogTail ELSE None

(* _apply_job_stream_log_event *)
EmitsLog(s, log) ==
    /\ log # None
    /\ \/ log # cursor[s].log
       \/ snap[s].terminal /\ ~cursor[s].final

LogEvents(s, log) ==
    IF EmitsLog(s, log) THEN <<[kind |-> "log", value |-> log]>> ELSE <<>>

ProgressEvents(s) ==
    [i \in DOMAIN snap[s].progress |-> [kind |-> "progress", value |-> snap[s].progress[i]]]

JobEvents(s) ==
    IF snap[s].changed THEN <<[kind |-> "job", value |-> snap[s].job.status]>> ELSE <<>>

(* Mutant: the log is always the last. *)
EventsLogLast(s, log) == ProgressEvents(s) \o JobEvents(s) \o LogEvents(s, log)

(* The order of the events of a snapshot: the last log before the verdict *)
Events(s, log) ==
    IF snap[s].terminal
    THEN LogEvents(s, log) \o ProgressEvents(s) \o JobEvents(s)
    ELSE ProgressEvents(s) \o JobEvents(s) \o LogEvents(s, log)

ReadLog(s) ==
    /\ pc[s] = "log"
    /\ LET log == LogResponse(snap[s].job)
       IN  /\ out' = [out EXCEPT ![s] = Events(s, log)]
           /\ cursor' = IF EmitsLog(s, log)
                        THEN [cursor EXCEPT ![s].log = log,
                                            ![s].final = @ \/ snap[s].terminal]
                        ELSE cursor
    /\ pc' = [pc EXCEPT ![s] = "yield"]
    /\ UNCHANGED <<workerVars, snap, got>>

(* Mutant: the loop asks for the status of the job again. *)
EndsNow(s) == job = None \/ job.status \in Terminal

(* if snapshot.terminal: return *)
Ends(s) == snap[s].terminal

(* One event to the client, or the end of the loop's body *)
Yield(s) ==
    /\ pc[s] = "yield"
    /\ \/ /\ out[s] # <<>>
          /\ LET e == Head(out[s])
             IN  got' = CASE e.kind = "progress" -> [got EXCEPT ![s].progress = Append(@, e.value)]
                          [] e.kind = "job" -> [got EXCEPT ![s].status = e.value]
                          [] e.kind = "log" -> [got EXCEPT ![s].log = e.value]
          /\ out' = [out EXCEPT ![s] = Tail(@)]
          /\ UNCHANGED pc
       \/ /\ out[s] = <<>>
          /\ pc' = [pc EXCEPT ![s] = IF Ends(s) THEN "ended" ELSE "top"]
          /\ UNCHANGED <<out, got>>
    /\ UNCHANGED <<workerVars, snap, cursor>>

(* The client closes the connection: the generator is closed at a yield. *)
Disconnect(s) ==
    /\ pc[s] = "yield"
    /\ pc' = [pc EXCEPT ![s] = "gone"]
    /\ UNCHANGED <<workerVars, snap, cursor, out, got>>

-----------------------------------------------------------------------------
Work == JobStart \/ PendingSourceFile \/ ApplyOptions \/ RunProgress \/ RunEnd \/ RefreshPending \/ RecordRow
            \/ ExceptProgress \/ ExceptRow \/ FinishJob

StreamStep(s) == Snapshot(s) \/ Wake(s) \/ ReadLog(s) \/ Yield(s)

Next ==
    \/ Work \/ Evict
    \/ \E s \in Streams : OpenStream(s) \/ StreamStep(s) \/ Disconnect(s)

Spec == Init /\ [][Next]_vars

(* The worker thread goes on, and a stream goes on as its client reads. *)
FairSpec ==
    /\ Spec
    /\ WF_vars(Work)
    /\ \A s \in Streams : WF_vars(StreamStep(s))

-----------------------------------------------------------------------------
(* A client gets every progress event once and in order, however the          *)
(* snapshots, the waits and the worker interleave.                            *)
ProgressOnce ==
    \A s \in Streams :
        got[s].progress = [i \in 1..Len(got[s].progress) |-> i]

(* A stream that ends by itself with the job has sent the whole of it: every  *)
(* progress event and the final status.  Only an eviction cuts a stream       *)
(* short.                                                                     *)
EndedComplete ==
    \A s \in Streams :
        (pc[s] = "ended" /\ job # None) =>
            /\ got[s].status = job.status /\ job.status \in Terminal
            /\ Len(got[s].progress) = job.progress

(* When a client is told that the job is over, it already has the log to its  *)
(* last line: browsers close the stream at the final status.                  *)
LogBeforeVerdict ==
    \A s \in Streams :
        (got[s].status \in Terminal /\ snap[s].job.log) =>
            /\ got[s].log # None
            /\ lines # None => got[s].log.last = lines

(* The schedule row of a finished job says what the job says, or was never    *)
(* written: no order of errors writes the one as success, the other not.      *)
RowAgrees ==
    (worker = "done" /\ row # "queued") => row = fields.status

Open(s) == pc[s] # "idle"
Over(s) == pc[s] \in {"ended", "gone"}

(* Every stream comes to an end: the job finishes on every path, also when    *)
(* its clean-up or the schedule row fails.                                    *)
StreamsEnd == \A s \in Streams : Open(s) ~> Over(s)
=============================================================================
