----------------------------- MODULE MCWebState ------------------------------
(* The state that the WebUI keeps: policies and holds, the database's schema, *)
(* answers that requests share, accounts and sessions, security scans and     *)
(* the cache of WUD's data.  One of them runs in each behaviour.              *)
EXTENDS Integers, Sequences, TLC

CONSTANTS None, r1, r2, p1, p2, t1, t2, c1

(* Releases for ServiceHolds that differ in build, suffix, digest and kind.  *)
Release(lsio, num, suffix, build, digest) ==
    [lsio |-> lsio, tag |-> [num |-> num, suffix |-> suffix, build |-> build],
     digest |-> digest]
Offers ==
    {Release(TRUE, <<5, 3, 0>>, "", 1, ""), Release(TRUE, <<5, 3, 0>>, "", 2, ""),
     Release(FALSE, <<5, 3, 0>>, "rc1", 1, ""),
     Release(FALSE, <<>>, "", 0, "d1"), Release(FALSE, <<>>, "", 0, "d2")}

(* For RequestReuse the preview of a plan, a page, and a request that changes *)
(* something                                                                  *)
RequestKinds ==
    <<[method |-> "POST", path |-> "plans"], [method |-> "GET", path |-> "pending"],
      [method |-> "POST", path |-> "plans/apply"]>>

(* Two pending lines of one image for SecurityScans, and a row of an earlier *)
(* scan.                                                                     *)
ScanTarget(digest, wud, compose, current) ==
    [digest |-> digest, wud |-> wud, compose |-> compose, current |-> current]
Found == [d \in {"d0", "d1", "d2"} |-> [v \in 1..2 |->
    CASE d = "d0" -> [k \in {"a", "b"} |-> IF k = "a" THEN 2 ELSE v - 1]
      [] d = "d1" -> [k \in {"a", "b"} |-> IF k = "a" THEN 1 ELSE v - 1]
      [] d = "d2" -> [k \in {"a", "b"} |-> 0]]]
FirstTargets == <<ScanTarget("d1", "amd", {}, "d0"), ScanTarget("d2", "", {"amd"}, "d0")>>
SecondTargets == <<ScanTarget("d2", "amd", {"amd"}, "d1"), ScanTarget("", "amd", {}, "d0")>>
ThirdTargets == <<ScanTarget("d1", "", {"arm"}, "d1"), ScanTarget("d1", "amd", {"arm", "amd"}, "")>>
OldRow(version, bag) ==
    [key |-> <<1, "candidate", "d1", "d1", "amd">>, digest |-> "d1", platform |-> "amd",
     state |-> "complete", version |-> version, exact |-> TRUE, db |-> 1, counted |-> TRUE,
     bag |-> bag, used |-> 1]
ScanStarts ==
    {[targets |-> t, rows |-> <<>>] : t \in {FirstTargets, SecondTargets, ThirdTargets}}
    \cup {[targets |-> FirstTargets, rows |-> <<OldRow("v", [k \in {"a", "b"} |-> 0])>>],
          [targets |-> FirstTargets, rows |-> <<OldRow("demo", Found["d1"][1])>>]}

VARIABLE part      \* the component that runs
VARIABLES sh_now, sh_policy, sh_rule, sh_holds, sh_last, sh_lock, sh_seen, sh_tick,
    sh_due, sh_offer, sh_waits, sh_picked, sh_kept, sh_want, sh_ops
VARIABLES db_db, db_lock, db_work, db_pc, db_target, db_todo, db_first, db_faults
VARIABLES rr_docker, rr_exists, rr_clock, rr_scope, rr_work, rr_checks, rr_answer,
    rr_goneAt, rr_begun, rr_ops
VARIABLES ws_users, ws_setupClaim, ws_resetClaim, ws_claims, ws_hashes, ws_sessions,
    ws_pc, ws_row, ws_typed, ws_epoch, ws_redeemed
VARIABLES ss_targets, ss_db, ss_clock, ss_failedAt, ss_rows, ss_job, ss_items,
    ss_reader, ss_shown, ss_faults, ss_changes, ss_refreshes
VARIABLES wc_snapshot, wc_pending, wc_until, wc_clock, wc_lock, wc_pc, wc_task, wc_known

SH == INSTANCE ServiceHolds WITH
    Clients <- {1, 2}, Services <- {"app", "db"}, Lines <- {{"app", "db"}},
    Offers <- Offers, MaxTime <- 2, MaxOps <- 2, now <- sh_now, policy <- sh_policy,
    rule <- sh_rule, holds <- sh_holds, last <- sh_last, lock <- sh_lock,
    seen <- sh_seen, tick <- sh_tick, due <- sh_due, offer <- sh_offer,
    waits <- sh_waits, picked <- sh_picked, kept <- sh_kept, want <- sh_want,
    ops <- sh_ops
DB == INSTANCE DatabaseSchema WITH
    Procs <- {"web", "cli"}, Starts <- 0..15, MaxFaults <- 1, db <- db_db,
    lock <- db_lock, work <- db_work, pc <- db_pc, target <- db_target, todo <- db_todo,
    first <- db_first, faults <- db_faults
RR == INSTANCE RequestReuse WITH
    Workers <- {1, 2, 3}, Of <- <<1, 2, 3>>, Kind <- RequestKinds, Tags <- {"t1"}, Limit <- 1,
    TTL <- 1, MaxTime <- 1, MaxState <- 2, MaxRequests <- 2, MaxOps <- 3,
    docker <- rr_docker, exists <- rr_exists, clock <- rr_clock, scope <- rr_scope,
    work <- rr_work, checks <- rr_checks, answer <- rr_answer, goneAt <- rr_goneAt,
    begun <- rr_begun, ops <- rr_ops
WS == INSTANCE WebSessions WITH
    Requests <- {r1, r2}, Passwords <- {p1, p2}, None <- None, MaxClaims <- 2,
    MaxSessions <- 2, MaxHashes <- 4, users <- ws_users, setupClaim <- ws_setupClaim,
    resetClaim <- ws_resetClaim, claims <- ws_claims, hashes <- ws_hashes,
    sessions <- ws_sessions, pc <- ws_pc, row <- ws_row, typed <- ws_typed,
    epoch <- ws_epoch, redeemed <- ws_redeemed
SS == INSTANCE SecurityScans WITH
    Lines <- {1, 2}, Keys <- {"a", "b"}, Starts <- ScanStarts,
    Sources <- {FirstTargets, SecondTargets}, Found <- Found, Latest <- "d2", Keep <- 2,
    TTL <- 1, MaxTime <- 1, MaxDb <- 2, MaxFaults <- 1, MaxChanges <- 1,
    MaxRefreshes <- 2, targets <- ss_targets, db <- ss_db, clock <- ss_clock,
    failedAt <- ss_failedAt, rows <- ss_rows, job <- ss_job, items <- ss_items,
    reader <- ss_reader, shown <- ss_shown, faults <- ss_faults, changes <- ss_changes,
    refreshes <- ss_refreshes
WC == INSTANCE WudCache WITH
    Threads <- {t1, t2}, Rescanners <- {t1}, MaxClock <- 1, Cooldown <- 1,
    Containers <- {c1}, None <- None, snapshot <- wc_snapshot, pending <- wc_pending,
    until <- wc_until, clock <- wc_clock, lock <- wc_lock, pc <- wc_pc, task <- wc_task,
    known <- wc_known

shVars == <<sh_now, sh_policy, sh_rule, sh_holds, sh_last, sh_lock, sh_seen, sh_tick,
    sh_due, sh_offer, sh_waits, sh_picked, sh_kept, sh_want, sh_ops>>
dbVars == <<db_db, db_lock, db_work, db_pc, db_target, db_todo, db_first, db_faults>>
rrVars == <<rr_docker, rr_exists, rr_clock, rr_scope, rr_work, rr_checks, rr_answer,
    rr_goneAt, rr_begun, rr_ops>>
wsVars == <<ws_users, ws_setupClaim, ws_resetClaim, ws_claims, ws_hashes, ws_sessions,
    ws_pc, ws_row, ws_typed, ws_epoch, ws_redeemed>>
ssVars == <<ss_targets, ss_db, ss_clock, ss_failedAt, ss_rows, ss_job, ss_items,
    ss_reader, ss_shown, ss_faults, ss_changes, ss_refreshes>>
wcVars == <<wc_snapshot, wc_pending, wc_until, wc_clock, wc_lock, wc_pc, wc_task,
    wc_known>>
partsVars == <<shVars, dbVars, rrVars, wsVars, ssVars, wcVars, part>>

(* A component that does not run stays in one of its initial states.        *)
PartsInit ==
    /\ part \in {"holds", "schema", "reuse", "sessions", "scans", "cache"}
    /\ SH!Init
    /\ DB!Init
    /\ part = "schema" \/ (db_db.version = 0)
    /\ RR!Init
    /\ WS!Init
    /\ part = "sessions" \/ (ws_users = <<>>)
    /\ SS!Init
    /\ part = "scans" \/ (ss_targets = FirstTargets /\ ss_rows = <<>>)
    /\ WC!Init

(* A step of one component leaves the others alone.                         *)
OnlyHolds == part = "holds" /\ UNCHANGED <<dbVars, rrVars, wsVars, ssVars, wcVars,
    part>>
OnlySchema == part = "schema" /\ UNCHANGED <<shVars, rrVars, wsVars, ssVars, wcVars,
    part>>
OnlyReuse == part = "reuse" /\ UNCHANGED <<shVars, dbVars, wsVars, ssVars, wcVars,
    part>>
OnlySessions == part = "sessions" /\ UNCHANGED <<shVars, dbVars, rrVars, ssVars, wcVars,
    part>>
OnlyScans == part = "scans" /\ UNCHANGED <<shVars, dbVars, rrVars, wsVars, wcVars,
    part>>
OnlyCache == part = "cache" /\ UNCHANGED <<shVars, dbVars, rrVars, wsVars, ssVars,
    part>>

PartsNext ==
    \/ OnlyHolds /\ SH!Next
    \/ OnlySchema /\ DB!Next
    \/ OnlyReuse /\ RR!Next
    \/ OnlySessions /\ WS!Next
    \/ OnlyScans /\ SS!Next
    \/ OnlyCache /\ WC!Next

PartsSpec == PartsInit /\ [][PartsNext]_partsVars

(* The variables keep their types.                                          *)
TypeOK ==
    /\ part = "holds" => SH!TypeOK
    /\ part = "schema" => DB!TypeOK
    /\ part = "reuse" => RR!TypeOK
    /\ part = "sessions" => WS!TypeOK
    /\ part = "scans" => SS!TypeOK
    /\ part = "cache" => WC!TypeOK

(* What racing operators decide is kept and nothing else is: a hold ends    *)
(* with a real update of its service and not before, the scheduler updates  *)
(* nothing that was held during its whole tick, skips hide exactly their    *)
(* release, and edits of two clients combine. The set-up makes one account, *)
(* a recovery ends the sessions and passwords before it, a claim is spent   *)
(* once, and nobody is locked out. The database is always a whole version,  *)
(* however processes race to migrate it and wherever they die.              *)
DecisionsKept ==
    /\ part = "holds" =>
          /\ SH!HiddenExactly
          /\ SH!HoldsEndWithUpdates
          /\ SH!NotUpdatedWhileHeld
          /\ SH!NoDuplicateSkips
          /\ SH!EditsCombine
    /\ part = "schema" => DB!WholeVersion /\ DB!NeverStuck
    /\ part = "sessions" =>
          /\ WS!OneAdmin
          /\ WS!RecoveryEndsSessions
          /\ WS!OldPasswordsStayDead
          /\ WS!ClaimsAreSpent
          /\ WS!NobodyLockedOut

(* What a page shows or a check answers is no older and no better than it   *)
(* says: shared docker reads are of their own request, a remembered         *)
(* registry check is within its time to live, a scan result is of the       *)
(* digest and platform of its line and compared within one vulnerability    *)
(* database, a page after a refresh shows that refresh, and a rescan that   *)
(* reports success has watched everything, outside of every pause.          *)
AnswersTrue ==
    /\ part = "reuse" =>
          /\ RR!NotBeforeRequest
          /\ RR!FreshUnlessShared
          /\ RR!CheckedExisted
    /\ part = "scans" =>
          /\ SS!ShownIsOfRequest
          /\ SS!ComparisonTrue
          /\ SS!FreshAfterRefresh
    /\ part = "cache" => WC!SuccessMeansScanned /\ WC!PausesKept

(* Stored results go forward: an answer of WUD that was asked for before a  *)
(* newer one is dropped, a failed check of an unchanged container does not  *)
(* make its update unknown ("keeps its last successful result",             *)
(* docs/wiki/webui-container.md:64), and a failed digest lookup is not      *)
(* remembered for ever.                                                     *)
ResultsGoForward ==
    /\ SS!FailuresExpire
    /\ WC!LastResultKept
    /\ WC!SnapshotsGoForward
==============================================================================
