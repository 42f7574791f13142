------------------------------ MODULE MCWebLive ------------------------------
(* What the WebUI owes to those who wait: streams of a job, logins after a     *)
(* cooldown, refreshes of WUD's data and of scans, urgent notifications, a     *)
(* database that opens and a command that was interrupted.  One of them runs   *)
(* in each behaviour.                                                          *)
EXTENDS Integers, Sequences

CONSTANTS None, s1, r1, r2, n1, n2, c1, c2, t1, t2

(* One line that the WebUI and the poller tell about, with a fault; the same   *)
(* line when WUD tells more of it than its text; and the poller alone, again  *)
(* after a cooldown                                                           *)
Shared(enriched, faults) ==
    [policy |-> "remote_change", delivery |-> "on_demand", grouping |-> "digest",
     pending |-> {1}, resolved |-> {{1}}, enriched |-> enriched, requests |-> {"web"},
     maxFaults |-> faults]
Alone ==
    [policy |-> "cooldown", delivery |-> "on_detection", grouping |-> "digest",
     pending |-> {1}, resolved |-> {{1}}, enriched |-> {}, requests |-> {},
     maxFaults |-> 1]
Settings == {Shared({}, 1), Shared({1}, 0), Alone}

(* Two pending lines of one image for SecurityScans                          *)
Found == [d \in {"d0", "d1", "d2"} |-> [v \in 1..2 |->
    CASE d = "d0" -> [k \in {"a", "b"} |-> IF k = "a" THEN 2 ELSE v - 1]
      [] d = "d1" -> [k \in {"a", "b"} |-> IF k = "a" THEN 1 ELSE v - 1]
      [] d = "d2" -> [k \in {"a", "b"} |-> 0]]]
Targets ==
    <<[digest |-> "d2", wud |-> "amd", compose |-> {"amd"}, current |-> "d1"],
      [digest |-> "", wud |-> "amd", compose |-> {}, current |-> "d0"]>>

VARIABLE part      \* the component that runs
VARIABLES js_job, js_worker, js_fields, js_source, js_lines, js_row, js_pc, js_snap,
    js_cursor, js_out, js_got
VARIABLES lt_door, lt_throttle, lt_clientThrottle, lt_pending, lt_clientPending, lt_pc,
    lt_key, lt_recent
VARIABLES wc_snapshot, wc_pending, wc_until, wc_clock, wc_lock, wc_pc, wc_task, wc_known
VARIABLES rn_setting, rn_upstream, rn_cache, rn_hist, rn_snd, rn_faults, rn_delivered,
    rn_excused, rn_repeated
VARIABLES db_db, db_lock, db_work, db_pc, db_target, db_todo, db_first, db_faults
VARIABLES ss_targets, ss_db, ss_clock, ss_failedAt, ss_rows, ss_job, ss_items,
    ss_reader, ss_shown, ss_faults, ss_changes, ss_refreshes
VARIABLES cp_call, cp_pc, cp_proc, cp_output, cp_read, cp_tail, cp_interrupts, cp_gap,
    cp_early

JS == INSTANCE JobStream WITH
    Streams <- {s1}, None <- None, MaxProgress <- 2, TailLines <- 1, job <- js_job,
    worker <- js_worker, fields <- js_fields, source <- js_source, lines <- js_lines,
    row <- js_row, pc <- js_pc, snap <- js_snap, cursor <- js_cursor, out <- js_out,
    got <- js_got
LT == INSTANCE LoginThrottle WITH
    Requests <- {r1, r2}, Names <- {n1, n2}, Clients <- {c1, c2}, None <- None,
    MaxFailures <- 2, Cooldown <- 2, MaxEntries <- 1, MaxClientEntries <- 1,
    door <- lt_door, throttle <- lt_throttle, clientThrottle <- lt_clientThrottle,
    pending <- lt_pending, clientPending <- lt_clientPending, pc <- lt_pc,
    key <- lt_key, recent <- lt_recent
WC == INSTANCE WudCache WITH
    Threads <- {t1, t2}, Rescanners <- {t1}, MaxClock <- 0, Cooldown <- 1,
    Containers <- {c1}, None <- None, snapshot <- wc_snapshot, pending <- wc_pending,
    until <- wc_until, clock <- wc_clock, lock <- wc_lock, pc <- wc_pc, task <- wc_task,
    known <- wc_known
RN == INSTANCE ReleaseNotifications WITH
    Lines <- {1}, Requests <- {"web"}, Settings <- Settings,
    setting <- rn_setting, upstream <- rn_upstream, cache <- rn_cache, hist <- rn_hist,
    snd <- rn_snd, faults <- rn_faults, delivered <- rn_delivered,
    excused <- rn_excused, repeated <- rn_repeated
DB == INSTANCE DatabaseSchema WITH
    Procs <- {"web", "cli"}, Starts <- {0, 11}, MaxFaults <- 1, db <- db_db,
    lock <- db_lock, work <- db_work, pc <- db_pc, target <- db_target, todo <- db_todo,
    first <- db_first, faults <- db_faults
SS == INSTANCE SecurityScans WITH
    Lines <- {1, 2}, Keys <- {"a", "b"},
    Starts <- {[targets |-> Targets, rows |-> <<>>]}, Sources <- {Targets},
    Found <- Found, Latest <- "d2", Keep <- 2, TTL <- 1, MaxTime <- 1, MaxDb <- 2,
    MaxFaults <- 1, MaxChanges <- 1, MaxRefreshes <- 1, targets <- ss_targets,
    db <- ss_db, clock <- ss_clock, failedAt <- ss_failedAt, rows <- ss_rows,
    job <- ss_job, items <- ss_items, reader <- ss_reader, shown <- ss_shown,
    faults <- ss_faults, changes <- ss_changes, refreshes <- ss_refreshes
CP == INSTANCE CommandProcesses WITH
    MaxLines <- 2, MaxPartial <- 2, MaxOutput <- 1, MaxInterrupts <- 2, call <- cp_call,
    pc <- cp_pc, proc <- cp_proc, output <- cp_output, read <- cp_read, tail <- cp_tail,
    interrupts <- cp_interrupts, gap <- cp_gap, early <- cp_early

jsVars == <<js_job, js_worker, js_fields, js_source, js_lines, js_row, js_pc, js_snap,
    js_cursor, js_out, js_got>>
ltVars == <<lt_door, lt_throttle, lt_clientThrottle, lt_pending, lt_clientPending,
    lt_pc, lt_key, lt_recent>>
wcVars == <<wc_snapshot, wc_pending, wc_until, wc_clock, wc_lock, wc_pc, wc_task,
    wc_known>>
rnVars == <<rn_setting, rn_upstream, rn_cache, rn_hist, rn_snd, rn_faults, rn_delivered,
    rn_excused, rn_repeated>>
dbVars == <<db_db, db_lock, db_work, db_pc, db_target, db_todo, db_first, db_faults>>
ssVars == <<ss_targets, ss_db, ss_clock, ss_failedAt, ss_rows, ss_job, ss_items,
    ss_reader, ss_shown, ss_faults, ss_changes, ss_refreshes>>
cpVars == <<cp_call, cp_pc, cp_proc, cp_output, cp_read, cp_tail, cp_interrupts, cp_gap,
    cp_early>>
partsVars == <<jsVars, ltVars, wcVars, rnVars, dbVars, ssVars, cpVars, part>>

(* A component that does not run stays in one of its initial states.        *)
PartsInit ==
    /\ part \in {"stream", "login", "cache", "notify", "schema", "scans", "command"}
    /\ JS!Init
    /\ part = "stream" \/ (js_source)
    /\ LT!Init
    /\ part = "login" \/ (lt_door = "password")
    /\ WC!Init
    /\ RN!Init
    /\ part = "notify" \/ (rn_upstream = [l \in {1} |-> "none"] /\ rn_setting.policy = "cooldown")
    /\ DB!Init
    /\ part = "schema" \/ (db_db.version = 0)
    /\ SS!Init
    /\ CP!Init
    /\ part = "command" \/ (cp_call = [mode |-> "pty", isolated |-> TRUE, stubborn |-> {}])

(* A step of one component leaves the others alone.                         *)
OnlyStream == part = "stream" /\ UNCHANGED <<ltVars, wcVars, rnVars, dbVars, ssVars,
    cpVars, part>>
OnlyLogin == part = "login" /\ UNCHANGED <<jsVars, wcVars, rnVars, dbVars, ssVars,
    cpVars, part>>
OnlyCache == part = "cache" /\ UNCHANGED <<jsVars, ltVars, rnVars, dbVars, ssVars,
    cpVars, part>>
OnlyNotify == part = "notify" /\ UNCHANGED <<jsVars, ltVars, wcVars, dbVars, ssVars,
    cpVars, part>>
OnlySchema == part = "schema" /\ UNCHANGED <<jsVars, ltVars, wcVars, rnVars, ssVars,
    cpVars, part>>
OnlyScans == part = "scans" /\ UNCHANGED <<jsVars, ltVars, wcVars, rnVars, dbVars,
    cpVars, part>>
OnlyCommand == part = "command" /\ UNCHANGED <<jsVars, ltVars, wcVars, rnVars, dbVars,
    ssVars, part>>

PartsNext ==
    \/ OnlyStream /\ JS!Next
    \/ OnlyLogin /\ LT!Next
    \/ OnlyCache /\ WC!Next
    \/ OnlyNotify /\ RN!Next
    \/ OnlySchema /\ DB!Next
    \/ OnlyScans /\ SS!Next
    \/ OnlyCommand /\ CP!Next

PartsSpec == PartsInit /\ [][PartsNext]_partsVars

(* One component runs in a behaviour, so that the fairness of all of them   *)
(* is stated at once: Weak(n) is the n-th condition of the component that   *)
(* runs.                                                                    *)
Weak(n) ==
    \/ n = 1 /\ OnlyStream /\ JS!Work
    \/ n = 2 /\ OnlyStream /\ JS!StreamStep(s1)
    \/ n = 1 /\ OnlyLogin /\ LT!Tick
    \/ n = 2 /\ OnlyLogin /\ LT!Finish(r1)
    \/ n = 3 /\ OnlyLogin /\ LT!Finish(r2)
    \/ n = 1 /\ OnlyCache /\ WC!Step(t1)
    \/ n = 2 /\ OnlyCache /\ WC!Step(t2)
    \/ n = 1 /\ OnlyNotify /\ RN!Sender(RN!Poller)
    \/ n = 2 /\ OnlyNotify /\ rn_snd["web"].pc # "idle" /\ RN!Sender("web")
    \/ n = 3 /\ OnlyNotify /\ RN!CacheAges(1)
    \/ n = 4 /\ OnlyNotify /\ RN!ReservationExpires(<<1, "urgent", FALSE>>)
    \/ n = 5 /\ OnlyNotify /\ RN!ReservationExpires(<<1, "urgent", TRUE>>)
    \/ n = 1 /\ OnlyScans /\ SS!JobStep
    \/ n = 1 /\ OnlyCommand /\ CP!Cleanup
Strong(n) ==
    \/ n = 1 /\ OnlyCache /\ WC!RefreshBegin(t1)
    \/ n = 2 /\ OnlyCache /\ WC!RefreshBegin(t2)
    \/ n = 1 /\ OnlySchema /\ DB!Step("web")
    \/ n = 2 /\ OnlySchema /\ DB!Step("cli")
PartsFairSpec ==
    /\ PartsSpec
    /\ \A n \in 1..5 : WF_partsVars(Weak(n))
    /\ \A n \in 1..2 : SF_partsVars(Strong(n))

(* The variables keep their types.                                          *)
TypeOK ==
    /\ part = "stream" => JS!TypeOK
    /\ part = "login" => LT!TypeOK
    /\ part = "notify" => RN!TypeOK

(* A reader of a job stream gets every progress event once and in order,    *)
(* the whole log before the final status, and a status that agrees with the *)
(* schedule row.  No client gets more than MaxFailures wrong guesses in a   *)
(* cooldown, however many of its requests are checked at once, and the      *)
(* pending counters are the attempts under way.  Discord shows a note again *)
(* only if its sender may repeat it, if a reservation, a transaction or an  *)
(* answer was lost, or if it is a verified security note that was sent once *)
(* with WUD's metadata and once, for a run, without; a row that counts      *)
(* sends was shown; recording the failure of a run spares what the run has  *)
(* sent; and apart from that exception the poll does not send a verified    *)
(* security note again.                                                     *)
Streamed == JS!ProgressOnce /\ JS!EndedComplete /\ JS!LogBeforeVerdict /\ JS!RowAgrees
Throttled == LT!GuessRate /\ LT!PendingExact
Notified == RN!NoUnwantedRepeat /\ RN!CountedWasShown
ToldOnceInOrder ==
    /\ [](part = "stream" => Streamed)
    /\ [](part = "login" => Throttled)
    /\ [](part = "notify" => Notified)
    /\ RN!SentNotRevoked
    /\ RN!UrgentNotRepeated

(* What the components owe, and to whom.                                    *)
Waiting ==
    \/ part = "stream" /\ JS!Open(s1)
    \/ part = "login" /\ ~LT!CanTry(c1)
    \/ part = "cache" /\ WC!Called(t1)
    \/ part = "notify" /\ RN!UrgentNote(1)
    \/ part = "schema" /\ ~DB!InUse("web")
    \/ part = "scans" /\ SS!Queued
    \/ part = "command" /\ CP!Stopping
Served ==
    \/ part = "stream" /\ JS!Over(s1)
    \/ part = "login" /\ LT!CanTry(c1)
    \/ part = "cache" /\ ~WC!Called(t1)
    \/ part = "notify" /\ RN!Told(1)
    \/ part = "schema" /\ DB!InUse("web")
    \/ part = "scans" /\ SS!Ended
    \/ part = "command" /\ CP!Stopped

(* Whoever waits is served, as the liveness property of each component      *)
(* says: a stream ends with its job (StreamsEnd), a client may try again    *)
(* after the cooldown (NobodyLockedForEver), a call of the WUD cache        *)
(* returns (CallsReturn), an urgent note is shown (UrgentIsTold), a process *)
(* gets to use the database (GetsToUseIt), a refresh of scans ends          *)
(* (RefreshEnds), and so does an interrupted command (InterruptEnds).       *)
WaitingEnds == Waiting ~> Served
==============================================================================
