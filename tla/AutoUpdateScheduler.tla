-------------------------- MODULE AutoUpdateScheduler --------------------------
(***************************************************************************)
(* The auto-update scheduler (web_scheduler.py): every service may have a   *)
(* policy with a time of day, every occurrence of that time is a slot, and a *)
(* slot is run once, recorded once as missed, or passes with nothing to do.  *)
(*                                                                          *)
(* The schedule rows and the policies are in the database, which survives a  *)
(* crash and which several processes may share.  The held slots, the job and *)
(* its start event live in a process.                                       *)
(*                                                                          *)
(* Time is in units of the grace window's granularity; a local day has Day   *)
(* units (the hour a zone skips or repeats is not modelled).                *)
(***************************************************************************)
EXTENDS Integers, FiniteSets, FiniteSetsExt

CONSTANTS
    Processes,      \* WebUI processes on one database
    Services,       \* service keys
    UpdateMode,     \* update_mode of each service, in the order of the names
    Lines,          \* pending lines: each is the set of services it updates
    Policies,       \* the policies a user may choose: [time, days] records
    NoPolicy,       \* auto_update = 0
    Day,            \* length of a day
    Grace,          \* AUTO_UPDATE_GRACE_SECONDS
    MaxLate,        \* AUTO_UPDATE_MAX_LATE_SECONDS
    MaxTime,        \* bound on the clock
    MaxCrashes,     \* bound on the crashes
    MaxFaults,      \* bound on the failing database writes and submissions
    MaxEdits        \* bound on the policy and snooze edits

ASSUME SchedulerAssumption ==
    /\ Grace \in Nat \ {0}
    /\ MaxLate \in Nat /\ Grace <= MaxLate
    /\ Day \in Nat /\ MaxLate < Day
    /\ MaxTime \in Nat
    /\ {MaxCrashes, MaxFaults, MaxEdits} \subseteq Nat
    /\ UpdateMode \in [Services -> Nat]
    /\ Lines \subseteq SUBSET Services /\ {} \notin Lines
    /\ NoPolicy \notin Policies
    /\ \A p \in Policies : p.time \in 0..(Day - 1)

VARIABLES
    now,            \* the clock
    policy,         \* service_policy
    snoozed,        \* services with an active snooze
    row,            \* auto_update_schedule_runs: status by schedule key
    ran,            \* history: how many jobs have started for a slot
    startedAt,      \* web_auto_update_started_at
    held,           \* web_auto_update_held
    tick,           \* where _auto_update_tick is
    tickNow,        \* now_utc of the tick
    due, missed,    \* slots _due_auto_update_policies returned
    selected,       \* schedule_keys of the last selection
    job,            \* the scheduler's job: its state and its slots
    startEvent,     \* its start_event
    otherBusy,      \* some other mutation holds the gate
    crashes, faults, edits

dbVars == <<policy, snoozed, row>>
tickVars == <<tickNow, due, missed>>
jobVars == <<job, startEvent>>
boundVars == <<crashes, faults, edits>>
vars == <<now, dbVars, ran, startedAt, held, tick, tickVars, selected,
          jobVars, otherBusy, boundVars>>

-----------------------------------------------------------------------------
(* Slots *)

(* _auto_update_schedule_key: service, local date and time *)
Days == 0..(MaxTime \div Day)
Slots == [service : Services, date : Days, time : {p.time : p \in Policies}]
ScheduledFor(k) == k.date * Day + k.time
WindowEnd(k) == ScheduledFor(k) + Grace
LateLimit(k) == ScheduledFor(k) + MaxLate

Statuses == {"none", "reserved", "queued", "success", "failure", "missed"}
Recorded == {k \in Slots : row[k] # "none"}
Jobs == [state : {"none", "queued", "running"}, slots : SUBSET Slots]
NoJob == [state |-> "none", slots |-> {}]
TickStates == {"idle", "record", "gate", "plan", "reserve", "submit",
               "release", "queue"}

TypeOK ==
    /\ now \in 0..MaxTime
    /\ policy \in [Services -> Policies \cup {NoPolicy}]
    /\ snoozed \subseteq Services
    /\ row \in [Slots -> Statuses]
    /\ ran \in [Slots -> Nat]
    /\ startedAt \in [Processes -> 0..MaxTime]
    /\ held \in [Processes -> SUBSET Slots]
    /\ tick \in [Processes -> TickStates]
    /\ tickNow \in [Processes -> 0..MaxTime]
    /\ due \in [Processes -> SUBSET Slots]
    /\ missed \in [Processes -> SUBSET Slots]
    /\ selected \in [Processes -> SUBSET Slots]
    /\ job \in [Processes -> Jobs]
    /\ startEvent \in [Processes -> BOOLEAN]
    /\ otherBusy \in [Processes -> BOOLEAN]
    /\ crashes \in 0..MaxCrashes
    /\ faults \in 0..MaxFaults
    /\ edits \in 0..MaxEdits

Init ==
    /\ now = 0
    /\ policy \in [Services -> Policies]
    /\ snoozed = {}
    /\ row = [k \in Slots |-> "none"]
    /\ ran = [k \in Slots |-> 0]
    /\ startedAt = [p \in Processes |-> 0]
    /\ held = [p \in Processes |-> {}]
    /\ tick = [p \in Processes |-> "idle"]
    /\ tickNow = [p \in Processes |-> 0]
    /\ due = [p \in Processes |-> {}]
    /\ missed = [p \in Processes |-> {}]
    /\ selected = [p \in Processes |-> {}]
    /\ job = [p \in Processes |-> NoJob]
    /\ startEvent = [p \in Processes |-> FALSE]
    /\ otherBusy = [p \in Processes |-> FALSE]
    /\ crashes = 0 /\ faults = 0 /\ edits = 0

-----------------------------------------------------------------------------
(* The world around the scheduler *)

Advance ==
    /\ now < MaxTime
    /\ now' = now + 1
    /\ UNCHANGED <<dbVars, ran, startedAt, held, tick, tickVars, selected,
                   jobVars, otherBusy, boundVars>>

(* A user edits the policy of a service, or its snooze starts or ends. *)
Edit(s) ==
    /\ edits < MaxEdits
    /\ edits' = edits + 1
    /\ \/ /\ \E new \in (Policies \cup {NoPolicy}) \ {policy[s]} :
                 policy' = [policy EXCEPT ![s] = new]
          /\ UNCHANGED snoozed
       \/ /\ snoozed' = IF s \in snoozed THEN snoozed \ {s} ELSE snoozed \cup {s}
          /\ UNCHANGED policy
    /\ UNCHANGED <<now, row, ran, startedAt, held, tick, tickVars, selected,
                   jobVars, otherBusy, crashes, faults>>

(* The gate of a process (see MutationGate) *)
Busy(p) == job[p].state # "none" \/ otherBusy[p]

OtherMutation(p) ==
    /\ otherBusy[p] \/ ~Busy(p)
    /\ otherBusy' = [otherBusy EXCEPT ![p] = ~@]
    /\ UNCHANGED <<now, dbVars, ran, startedAt, held, tick, tickVars,
                   selected, jobVars, boundVars>>

(* A database write fails (a lock that is never released, a full disk), or    *)
(* the executor refuses a job.                                                *)
Fault == faults < MaxFaults /\ faults' = faults + 1

-----------------------------------------------------------------------------
(* _due_auto_update_policies *)

(* _auto_update_latest_occurrence: today's, else yesterday's *)
Occurrences(s, t) ==
    LET today == t \div Day
        past(d) == /\ d \in policy[s].days \cap Days
                   /\ d * Day + policy[s].time <= t
        slot(d) == [service |-> s, date |-> d, time |-> policy[s].time]
    IN  IF policy[s] = NoPolicy THEN {}
        ELSE IF past(today) THEN {slot(today)}
        ELSE IF past(today - 1) THEN {slot(today - 1)}
        ELSE {}

InWindow(p, t, k) == t < WindowEnd(k) /\ startedAt[p] < WindowEnd(k)

(* The slots a tick of p at time t looks at: open, and in their window or held *)
OpenSlots(p, t) ==
    {k \in UNION {Occurrences(s, t) : s \in Services \ snoozed} :
        /\ InWindow(p, t, k) \/ k \in held[p]
        /\ k \notin Recorded}

(* Mutant: the late limit is not looked at. *)
TickStartNoLimit(p) ==
    /\ tick[p] = "idle"
    /\ tickNow' = [tickNow EXCEPT ![p] = now]
    /\ due' = [due EXCEPT ![p] = OpenSlots(p, now)]
    /\ missed' = [missed EXCEPT ![p] = {}]
    /\ selected' = [selected EXCEPT ![p] = {}]
    /\ tick' = [tick EXCEPT ![p] = "record"]
    /\ UNCHANGED <<now, dbVars, ran, startedAt, held, jobVars, otherBusy,
                   boundVars>>

(* _auto_update_tick begins. *)
TickStart(p) ==
    /\ tick[p] = "idle"
    /\ tickNow' = [tickNow EXCEPT ![p] = now]
    /\ LET open == OpenSlots(p, now)
           live == {k \in open : InWindow(p, now, k) \/ now < LateLimit(k)}
       IN  /\ due' = [due EXCEPT ![p] = live]
           /\ missed' = [missed EXCEPT ![p] = open \ live]
    /\ selected' = [selected EXCEPT ![p] = {}]
    /\ tick' = [tick EXCEPT ![p] = "record"]
    /\ UNCHANGED <<now, dbVars, ran, startedAt, held, jobVars, otherBusy,
                   boundVars>>

-----------------------------------------------------------------------------
(* _runnable_auto_update_policies *)

(* _missed_auto_update_slot_still_scheduled *)
StillScheduled(k) ==
    /\ policy[k.service] # NoPolicy
    /\ policy[k.service].time = k.time
    /\ k.date \in policy[k.service].days
    /\ k.service \notin snoozed

(* Mutant: INSERT OR REPLACE *)
RecordMissedReplace(p) ==
    /\ tick[p] = "record"
    /\ row' = [k \in Slots |-> IF k \in missed[p] /\ StillScheduled(k)
                               THEN "missed" ELSE row[k]]
    /\ held' = [held EXCEPT ![p] = @ \cap due[p]]
    /\ tick' = [tick EXCEPT ![p] = IF due[p] = {} THEN "idle" ELSE "gate"]
    /\ UNCHANGED <<now, policy, snoozed, ran, startedAt, tickVars, selected,
                   jobVars, otherBusy, boundVars>>

(* Mutant: slots that are not due any more stay held. *)
RecordMissedNoPrune(p) ==
    /\ tick[p] = "record"
    /\ row' = [k \in Slots |-> IF /\ k \in missed[p]
                                  /\ StillScheduled(k)
                                  /\ row[k] = "none"
                               THEN "missed" ELSE row[k]]
    /\ tick' = [tick EXCEPT ![p] = IF due[p] = {} THEN "idle" ELSE "gate"]
    /\ UNCHANGED <<now, policy, snoozed, ran, startedAt, held, tickVars,
                   selected, jobVars, otherBusy, boundVars>>

(* _record_missed_auto_update_slots in one transaction (INSERT OR IGNORE),    *)
(* then the held slots that are not due any more are forgotten.               *)
RecordMissed(p) ==
    /\ tick[p] = "record"
    /\ \/ /\ row' = [k \in Slots |->
                        IF /\ k \in missed[p]
                           /\ StillScheduled(k)
                           /\ row[k] = "none"
                        THEN "missed" ELSE row[k]]
          /\ held' = [held EXCEPT ![p] = @ \cap due[p]]
          /\ tick' = [tick EXCEPT ![p] = IF due[p] = {} THEN "idle" ELSE "gate"]
          /\ UNCHANGED faults
       \/ /\ missed[p] # {}
          /\ Fault
          /\ tick' = [tick EXCEPT ![p] = "idle"]
          /\ UNCHANGED <<row, held>>
    /\ UNCHANGED <<now, policy, snoozed, ran, startedAt, tickVars, selected,
                   jobVars, otherBusy, crashes, edits>>

(* Another mutation is active: hold what is due. *)
CheckGate(p) ==
    /\ tick[p] = "gate"
    /\ \/ /\ Busy(p)
          /\ held' = [held EXCEPT ![p] = @ \cup due[p]]
          /\ tick' = [tick EXCEPT ![p] = "idle"]
       \/ /\ ~Busy(p)
          /\ tick' = [tick EXCEPT ![p] = "plan"]
          /\ UNCHANGED held
    /\ UNCHANGED <<now, dbVars, ran, startedAt, tickVars, selected, jobVars,
                   otherBusy, boundVars>>

-----------------------------------------------------------------------------
(* _auto_update_candidate *)

(* The slots of a line's services, if all of them are due *)
SlotsOf(p, line) == {k \in due[p] : k.service \in line}

(* _auto_update_candidate_for_item: every service is due, in one mode.       *)
Eligible(p, line) ==
    /\ \A s \in line : \E k \in due[p] : k.service = s
    /\ \A s, t \in line : UpdateMode[s] = UpdateMode[t]

LinesOf(lines, mode) == {l \in lines : \A s \in l : UpdateMode[s] = mode}

(* Of two modes, the one with the earlier slot is tried first. *)
Before(p, lines, m, n) ==
    LET first(x) == Min({ScheduledFor(k) :
                            k \in UNION {SlotsOf(p, l) : l \in LinesOf(lines, x)}})
    IN  first(m) < first(n) \/ (first(m) = first(n) /\ m < n)

(* The modes are tried in order until a plan can be applied (blocked: those   *)
(* whose plan cannot); what had an update and was not selected is held, and   *)
(* everything else is released.  lines are the pending lines which no skip    *)
(* and no dependency snooze keeps back.                                       *)
BuildPlan(p) ==
    /\ tick[p] = "plan"
    /\ \E pending \in SUBSET Lines, blocked \in SUBSET Range(UpdateMode) :
        LET lines == {l \in pending : Eligible(p, l)}
            modes == {m \in Range(UpdateMode) : LinesOf(lines, m) # {}}
            chosen == {m \in modes \ blocked :
                          \A n \in modes \ {m} : n \in blocked \/ Before(p, lines, m, n)}
            slots(ms) == UNION {SlotsOf(p, l) :
                                   l \in UNION {LinesOf(lines, m) : m \in ms}}
        IN  /\ selected' = [selected EXCEPT ![p] = slots(chosen)]
            /\ held' = [held EXCEPT ![p] = slots(modes) \ slots(chosen)]
            /\ tick' = [tick EXCEPT ![p] = IF chosen = {} THEN "idle"
                                                          ELSE "reserve"]
    /\ UNCHANGED <<now, dbVars, ran, startedAt, tickVars, jobVars, otherBusy,
                   boundVars>>

(* The pending source, the grouping or a plan fails: held stays as it is. *)
PlanError(p) ==
    /\ tick[p] = "plan"
    /\ tick' = [tick EXCEPT ![p] = "idle"]
    /\ UNCHANGED <<now, dbVars, ran, startedAt, held, tickVars, selected,
                   jobVars, otherBusy, boundVars>>

-----------------------------------------------------------------------------
(* The rest of _auto_update_tick *)

SetRows(slots, status) ==
    [k \in Slots |-> IF k \in slots THEN status ELSE row[k]]

(* Mutant: the INSERT does not mind a row that is there. *)
ReserveReplace(p) ==
    /\ tick[p] = "reserve"
    /\ row' = SetRows(selected[p], "reserved")
    /\ tick' = [tick EXCEPT ![p] = "submit"]
    /\ UNCHANGED <<now, policy, snoozed, ran, startedAt, held, tickVars,
                   selected, jobVars, otherBusy, boundVars>>

(* _reserve_auto_update_schedule_runs: all rows are inserted, or none is. *)
Reserve(p) ==
    /\ tick[p] = "reserve"
    /\ \/ /\ selected[p] \cap Recorded = {}
          /\ row' = SetRows(selected[p], "reserved")
          /\ tick' = [tick EXCEPT ![p] = "submit"]
          /\ UNCHANGED faults
       \/ /\ selected[p] \cap Recorded # {}
          /\ tick' = [tick EXCEPT ![p] = "idle"]
          /\ UNCHANGED <<row, faults>>
       \/ /\ Fault
          /\ tick' = [tick EXCEPT ![p] = "idle"]
          /\ UNCHANGED row
    /\ UNCHANGED <<now, policy, snoozed, ran, startedAt, held, tickVars,
                   selected, jobVars, otherBusy, crashes, edits>>

(* Mutant: the job need not wait for the rows. *)
SubmitStarted(p) ==
    /\ tick[p] = "submit"
    /\ \/ /\ ~Busy(p)
          /\ job' = [job EXCEPT ![p] = [state |-> "queued",
                                        slots |-> selected[p]]]
          /\ startEvent' = [startEvent EXCEPT ![p] = TRUE]
          /\ tick' = [tick EXCEPT ![p] = "queue"]
       \/ /\ Busy(p)
          /\ tick' = [tick EXCEPT ![p] = "release"]
          /\ UNCHANGED jobVars
    /\ UNCHANGED <<now, dbVars, ran, startedAt, held, tickVars, selected,
                   otherBusy, boundVars>>

(* _submit_apply_job_state: the gate is asked again, under its lock, and the  *)
(* executor may refuse the job.                                               *)
Submit(p) ==
    /\ tick[p] = "submit"
    /\ \/ /\ ~Busy(p)
          /\ job' = [job EXCEPT ![p] = [state |-> "queued",
                                        slots |-> selected[p]]]
          /\ startEvent' = [startEvent EXCEPT ![p] = FALSE]
          /\ tick' = [tick EXCEPT ![p] = "queue"]
          /\ UNCHANGED faults
       \/ /\ (Busy(p) /\ UNCHANGED faults) \/ (~Busy(p) /\ Fault)
          /\ tick' = [tick EXCEPT ![p] = "release"]
          /\ UNCHANGED jobVars
    /\ UNCHANGED <<now, dbVars, ran, startedAt, held, tickVars, selected,
                   otherBusy, crashes, edits>>

(* Mutant: a rejected submission is not held. *)
ReleaseNotHeld(p) ==
    /\ tick[p] = "release"
    /\ row' = SetRows({k \in selected[p] : row[k] = "reserved"}, "none")
    /\ tick' = [tick EXCEPT ![p] = "idle"]
    /\ UNCHANGED <<now, policy, snoozed, ran, startedAt, held, tickVars,
                   selected, jobVars, otherBusy, boundVars>>

(* _release_auto_update_schedule_runs, which may fail, and                   *)
(* _hold_failed_submission                                                   *)
Release(p) ==
    /\ tick[p] = "release"
    /\ \/ /\ row' = SetRows({k \in selected[p] : row[k] = "reserved"}, "none")
          /\ UNCHANGED faults
       \/ Fault /\ UNCHANGED row
    /\ held' = [held EXCEPT ![p] = @ \cup selected[p]]
    /\ tick' = [tick EXCEPT ![p] = "idle"]
    /\ UNCHANGED <<now, policy, snoozed, ran, startedAt, tickVars, selected,
                   jobVars, otherBusy, crashes, edits>>

(* Mutant: an error while queueing leaves the worker waiting. *)
QueueOrHang(p) ==
    /\ tick[p] = "queue"
    /\ \/ /\ row' = SetRows(selected[p] \cap Recorded, "queued")
          /\ startEvent' = [startEvent EXCEPT ![p] = TRUE]
          /\ UNCHANGED faults
       \/ Fault /\ UNCHANGED <<row, startEvent>>
    /\ tick' = [tick EXCEPT ![p] = "idle"]
    /\ UNCHANGED <<now, policy, snoozed, ran, startedAt, held, tickVars,
                   selected, job, otherBusy, crashes, edits>>

(* _queue_auto_update_schedule_runs, and start_event.set() either way.       *)
Queue(p) ==
    /\ tick[p] = "queue"
    /\ \/ /\ row' = SetRows(selected[p] \cap Recorded, "queued")
          /\ UNCHANGED faults
       \/ Fault /\ UNCHANGED row
    /\ startEvent' = [startEvent EXCEPT ![p] = TRUE]
    /\ tick' = [tick EXCEPT ![p] = "idle"]
    /\ UNCHANGED <<now, policy, snoozed, ran, startedAt, held, tickVars,
                   selected, job, otherBusy, crashes, edits>>

-----------------------------------------------------------------------------
(* The job: _run_apply_job on the executor's thread *)

JobStart(p) ==
    /\ job[p].state = "queued"
    /\ startEvent[p]
    /\ job' = [job EXCEPT ![p].state = "running"]
    /\ ran' = [k \in Slots |-> IF k \in job[p].slots THEN ran[k] + 1 ELSE ran[k]]
    /\ UNCHANGED <<now, dbVars, startedAt, held, tick, tickVars, selected,
                   startEvent, otherBusy, boundVars>>

(* Mutant: a status the schema does not know *)
JobFinishTypo(p) ==
    /\ job[p].state = "running"
    /\ \E status \in {"success", "failed"} :
           row' = SetRows(job[p].slots \cap Recorded, status)
    /\ job' = [job EXCEPT ![p] = NoJob]
    /\ UNCHANGED <<now, policy, snoozed, ran, startedAt, held, tick, tickVars,
                   selected, startEvent, otherBusy, boundVars>>

(* _safe_update_auto_update_schedule_runs, whose failure is only logged, and  *)
(* then the job is over.                                                      *)
JobFinish(p) ==
    /\ job[p].state = "running"
    /\ \/ /\ \E status \in {"success", "failure"} :
                 row' = SetRows(job[p].slots \cap Recorded, status)
          /\ UNCHANGED faults
       \/ Fault /\ UNCHANGED row
    /\ job' = [job EXCEPT ![p] = NoJob]
    /\ UNCHANGED <<now, policy, snoozed, ran, startedAt, held, tick, tickVars,
                   selected, startEvent, otherBusy, crashes, edits>>

(* The process dies and comes back: what it kept in memory is gone. *)
Crash(p) ==
    /\ crashes < MaxCrashes
    /\ crashes' = crashes + 1
    /\ startedAt' = [startedAt EXCEPT ![p] = now]
    /\ held' = [held EXCEPT ![p] = {}]
    /\ tick' = [tick EXCEPT ![p] = "idle"]
    /\ due' = [due EXCEPT ![p] = {}]
    /\ missed' = [missed EXCEPT ![p] = {}]
    /\ selected' = [selected EXCEPT ![p] = {}]
    /\ job' = [job EXCEPT ![p] = NoJob]
    /\ startEvent' = [startEvent EXCEPT ![p] = FALSE]
    /\ otherBusy' = [otherBusy EXCEPT ![p] = FALSE]
    /\ UNCHANGED <<now, dbVars, ran, tickNow, faults, edits>>

-----------------------------------------------------------------------------

TickStep(p) ==
    \/ RecordMissed(p) \/ CheckGate(p) \/ BuildPlan(p) \/ PlanError(p)
    \/ Reserve(p) \/ Submit(p) \/ Release(p) \/ Queue(p)

JobStep(p) == JobStart(p) \/ JobFinish(p)

Next ==
    \/ Advance
    \/ \E s \in Services : Edit(s)
    \/ \E p \in Processes : \/ OtherMutation(p) \/ TickStart(p) \/ TickStep(p)
                            \/ JobStep(p) \/ Crash(p)

Spec == Init /\ [][Next]_vars

(* Time goes on, the loop polls for ever, a tick and a job come to an end. *)
Fairness ==
    /\ WF_vars(Advance)
    /\ \A p \in Processes : /\ WF_vars(TickStart(p))
                            /\ WF_vars(TickStep(p))
                            /\ WF_vars(JobStep(p))

FairSpec == Spec /\ Fairness

-----------------------------------------------------------------------------
(* Properties *)

(* A slot is run at most once, whatever crashes, retries and second processes *)
(* do: the row is inserted before the job is submitted and outlives it.       *)
RunsOnce == \A k \in Slots : ran[k] <= 1

(* A slot that History shows as missed was not run, and the rows of a job     *)
(* that waits or runs are its own: nobody else reserved or released them.     *)
RowsTellTheTruth ==
    /\ \A k \in Slots : row[k] = "missed" => ran[k] = 0
    /\ \A k \in Slots : row[k] \in {"success", "failure"} => ran[k] = 1
    /\ \A p \in Processes : \A k \in job[p].slots : row[k] \in {"reserved", "queued"}

(* A row never goes back: in particular the tick's "queued" never overwrites  *)
(* the outcome of a job that was quicker than the tick (start_event).         *)
RowsGoForward ==
    [][\A k \in Slots : row'[k] # row[k] =>
           \/ row[k] = "none" /\ row'[k] \in {"reserved", "missed"}
           \/ row[k] = "reserved" /\ row'[k] \in {"none", "queued", "success", "failure"}
           \/ row[k] = "queued" /\ row'[k] \in {"success", "failure"}]_vars

(* A slot is submitted at or after its time, before its late limit, and only  *)
(* by a process that was up in its window: a restart never catches up on the  *)
(* slots it slept through.                                                    *)
SubmittedOnTime ==
    [][\A p \in Processes : tick[p] = "submit" /\ tick'[p] = "queue" =>
           \A k \in selected[p] : /\ ScheduledFor(k) <= tickNow[p]
                                  /\ tickNow[p] < LateLimit(k)
                                  /\ startedAt[p] < WindowEnd(k)]_vars

(* A slot past its window is due only because it is held.  When a tick that   *)
(* selected such a slot is over, the slot is recorded or is held again: "A    *)
(* held slot (one that something else blocked during its window) stays due    *)
(* until the late limit" (_due_auto_update_policies).                         *)
HeldStaysDue ==
    \A p \in Processes : tick[p] = "idle" =>
        \A k \in selected[p] :
            WindowEnd(k) <= tickNow[p] => k \in held[p] \cup Recorded

(* As long as no write to the database failed, no slot whose window is over  *)
(* is lost between two ticks.                                                *)
HeldWithoutFaults == faults = 0 => HeldStaysDue

(* The worker's wait for the start event has no timeout: it always ends.      *)
JobsEnd == \A p \in Processes : job[p].state # "none" ~> job[p].state = "none"

(* A slot is not held for ever: it runs, is recorded as missed, or is let go. *)
HoldsEnd ==
    \A p \in Processes : \A k \in {x \in Slots : LateLimit(x) <= MaxTime} :
        k \in held[p] ~> k \notin held[p]

(* Nothing is left hanging: neither a job that waits for its start event nor  *)
(* a slot that waits for its turn.                                            *)
NothingHangs == JobsEnd /\ HoldsEnd
=============================================================================
