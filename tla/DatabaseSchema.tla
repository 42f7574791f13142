--------------------------- MODULE DatabaseSchema ---------------------------
(* Opening the SQLite database: init_schema creates the tables, or checks   *)
(* them against the version the file carries and migrates them one version  *)
(* at a time.  Every command and every request that touches the database    *)
(* does so, several at once; each may be killed, or a statement may fail,   *)
(* at any point.  A schema is the set of its tables and of the columns that *)
(* came later, as pairs of a table and a column.                            *)
EXTENDS Integers, Sequences

CONSTANTS
    Procs,     \* processes that open the database
    Starts,    \* the versions a database may have to begin with
    MaxFaults  \* bound on crashes and failing statements

VARIABLES
    db,      \* the file: [version, schema, history]
    lock,    \* who holds SQLite's write lock
    work,    \* what the open transaction would commit
    pc,      \* where each process is
    target,  \* the version each process migrates to next
    todo,    \* what is left of the migration it carries out
    first,   \* what each process found before it took the lock
    faults

vars == <<db, lock, work, pc, target, todo, first, faults>>

SchemaVersion == 15
Table(t) == <<t, "">>

(* EXPECTED_SCHEMA, with the columns that a migration ever added: the       *)
(* tables of runs and updates, and those of the web application.            *)
UpdateTables ==
    {Table("schema_migrations"), Table("update_runs"), Table("update_events"), Table("snoozes"),
     Table("dependency_snoozes"), Table("release_skips"), Table("service_policy"),
     Table("known_images"), Table("pending_updates"), Table("tag_exclusion_rules"),
     <<"service_policy", "auto_update_time">>, <<"service_policy", "auto_update_days_json">>,
     <<"pending_updates", "digest">>, <<"update_events", "digest">>, <<"known_images", "digest">>}
WebTables ==
    {Table("web_users"), Table("web_sessions"), Table("web_settings"), Table("release_note_cache"),
     Table("auto_update_schedule_runs"), Table("security_scan_cache"),
     Table("release_notification_history"), <<"security_scan_cache", "findings_json">>,
     <<"release_note_cache", "body">>, <<"release_note_cache", "target_digest">>}
ExpectedSchema == UpdateTables \cup WebTables

(* What EXPECTED_SCHEMA_Vn leaves out of the schema of the version after it *)
LeftOut(n) ==
    CASE n = 14 -> {Table("release_skips")}
      [] n = 12 -> {<<"release_note_cache", "target_digest">>}
      [] n = 11 -> {<<"release_note_cache", "body">>}
      [] n = 10 -> {Table("release_notification_history")}
      [] n = 9  -> {<<"security_scan_cache", "findings_json">>}
      [] n = 8  -> {Table("security_scan_cache")}
      [] n = 7  -> {Table("dependency_snoozes")}
      [] n = 6  -> {<<"pending_updates", "digest">>, <<"update_events", "digest">>, <<"known_images", "digest">>}
      [] n = 5  -> {Table("auto_update_schedule_runs"), <<"service_policy", "auto_update_time">>,
                    <<"service_policy", "auto_update_days_json">>}
      [] n = 4  -> {Table("release_note_cache")}
      [] n = 3  -> {Table("schema_migrations"), Table("web_users"), Table("web_sessions"), Table("web_settings")}
      [] n = 2  -> {Table("tag_exclusion_rules")}
      [] n = 1  -> {Table("pending_updates")}
      [] OTHER  -> {}

Expected(v) == ExpectedSchema \ UNION {LeftOut(n) : n \in v .. SchemaVersion}

(* _validate_schema: each expected table is there with exactly its columns; *)
(* tables that are not expected do not matter.                              *)
Columns(t, schema) == {x \in schema : x[1] = t}
Valid(schema, expected) ==
    \A x \in expected : Columns(x[1], schema) = Columns(x[1], expected)

(* What the migration to version n creates or adds, in its order.           *)
FirstMigration(n) ==
    CASE n = 2  -> <<Table("pending_updates")>>
      [] n = 3  -> <<Table("tag_exclusion_rules")>>
      [] n = 4  -> <<Table("web_users"), Table("web_sessions"), Table("web_settings")>>
MiddleMigration(n) ==
    CASE n = 5  -> <<Table("release_note_cache")>>
      [] n = 6  -> <<<<"service_policy", "auto_update_time">>,
                     <<"service_policy", "auto_update_days_json">>,
                     Table("auto_update_schedule_runs")>>
      [] n = 7  -> <<<<"pending_updates", "digest">>, <<"update_events", "digest">>,
                     <<"known_images", "digest">>>>
      [] n = 8  -> <<Table("dependency_snoozes")>>
LastMigration(n) ==
    CASE n = 9  -> <<Table("security_scan_cache")>>
      [] n = 10 -> <<<<"security_scan_cache", "findings_json">>>>
      [] n = 11 -> <<Table("release_notification_history")>>
      [] n = 12 -> <<<<"release_note_cache", "body">>>>
      [] n = 13 -> <<<<"release_note_cache", "target_digest">>>>
      [] n = 14 -> <<>>
      [] n = 15 -> <<Table("release_skips")>>
MigrationTo(n) ==
    IF n <= 4 THEN FirstMigration(n) ELSE IF n <= 8 THEN MiddleMigration(n) ELSE LastMigration(n)

All == <<"all", "">>
Idle == [version |-> 0, schema |-> {}, history |-> {}]

-----------------------------------------------------------------------------
(* A database that some release made, or none.  Releases before version 4   *)
(* kept no table of migrations.                                             *)
Init ==
    /\ \E v \in Starts :
        db = IF v = 0 THEN Idle
             ELSE [version |-> v, schema |-> Expected(v),
                   history |-> IF v < 4 THEN {} ELSE 1 .. v]
    /\ lock = "none" /\ work = Idle
    /\ pc = [p \in Procs |-> "closed"]
    /\ target = [p \in Procs |-> 0]
    /\ todo = [p \in Procs |-> <<>>]
    /\ first = [p \in Procs |-> 0]
    /\ faults = 0

Goto(p, where) == pc' = [pc EXCEPT ![p] = where]

(* The version is read without a lock; a new file is looked at for tables   *)
(* of the same names.                                                       *)
Open(p) ==
    /\ pc[p] = "closed"
    /\ first' = [first EXCEPT ![p] = db.version]
    /\ Goto(p, IF db.version > 0 THEN "check"
               ELSE IF \A x \in db.schema : Columns(x[1], db.schema)
                                                = Columns(x[1], ExpectedSchema)
               THEN "create" ELSE "error")
    /\ UNCHANGED <<db, lock, work, target, todo, faults>>

(* BEGIN IMMEDIATE: one writer at a time; the others wait.                  *)
Begin(p) ==
    /\ pc[p] \in {"check", "create", "migrate"} /\ lock = "none"
    /\ lock' = p /\ work' = db

(* Mutant: the checks rely on the version that was read without the lock.   *)
CheckedVersionStale(p) == first[p]

(* The version is read again under the lock.                                *)
CheckedVersion(p) == db.version

(* The file is checked against its version, and its history is filled in.   *)
Check(p) ==
    /\ pc[p] = "check" /\ Begin(p)
    /\ LET v == CheckedVersion(p)
       IN  IF v \in 1 .. SchemaVersion /\ Valid(db.schema, Expected(v))
           THEN /\ Goto(p, "checking")
                /\ target' = [target EXCEPT ![p] = v + 1]
           ELSE Goto(p, "failing") /\ UNCHANGED target
    /\ UNCHANGED <<db, todo, first, faults>>

Backfill(p) ==
    /\ pc[p] = "checking" /\ lock = p
    /\ work' = [work EXCEPT !.schema = @ \cup {Table("schema_migrations")},
                            !.history = @ \cup 1 .. (target[p] - 1)]
    /\ Goto(p, "commit")
    /\ UNCHANGED <<db, lock, target, todo, first, faults>>

(* A new database: all tables that are missing, then the checks.            *)
Create(p) ==
    /\ pc[p] = "create" /\ Begin(p)
    /\ target' = [target EXCEPT ![p] = SchemaVersion + 1]
    /\ todo' = [todo EXCEPT ![p] = <<All>>]
    /\ Goto(p, "statements")
    /\ UNCHANGED <<db, first, faults>>

(* A version that another process has reached meanwhile is passed over.     *)
Migrate(p) ==
    /\ pc[p] = "migrate" /\ target[p] <= SchemaVersion /\ Begin(p)
    /\ IF db.version >= target[p]
       THEN Goto(p, "commit") /\ UNCHANGED todo
       ELSE /\ todo' = [todo EXCEPT ![p] = MigrationTo(target[p])]
            /\ Goto(p, "statements")
    /\ target' = [target EXCEPT ![p] = @ + 1]
    /\ UNCHANGED <<db, first, faults>>

TableOf(x) == Table(x[1])
IsColumn(x) == x[2] # ""

(* A column can be added to a table that exists and does not have it; a     *)
(* table that exists must be as the migration would create it.              *)
Possible(x, s) ==
    IF IsColumn(x) THEN TableOf(x) \in s /\ x \notin s
    ELSE x \in s => Columns(x[1], s) = Columns(x[1], ExpectedSchema)

(* Mutant: every statement is committed by itself.                          *)
WrittenAtOnce(w) == w

(* Statements stay in the transaction until it commits.                     *)
Written(w) == db

(* CREATE TABLE IF NOT EXISTS for every table.                              *)
CreateMissing(w) == [w EXCEPT !.schema = @ \cup ExpectedSchema]

Statement(p) ==
    /\ pc[p] = "statements" /\ lock = p /\ todo[p] # <<>>
    /\ LET x == todo[p][1]
       IN  \/ /\ x = All
              /\ work' = CreateMissing(work)
              /\ pc' = pc /\ db' = Written(work')
           \/ /\ x # All /\ Possible(x, work.schema)
              /\ work' = [work EXCEPT !.schema = @ \cup {x}]
              /\ pc' = pc /\ db' = Written(work')
           \/ /\ x # All /\ ~Possible(x, work.schema)
              /\ Goto(p, "failing") /\ UNCHANGED <<work, db>>
    /\ todo' = [todo EXCEPT ![p] = Tail(@)]
    /\ UNCHANGED <<lock, target, first, faults>>

(* The version and its row come last.                                       *)
SetVersion(p) ==
    /\ pc[p] = "statements" /\ lock = p /\ todo[p] = <<>>
    /\ LET v == target[p] - 1
       IN  work' = [work EXCEPT !.version = v,
                                !.history = @ \cup IF first[p] = 0 THEN 1 .. v ELSE {v}]
    /\ Goto(p, "commit")
    /\ UNCHANGED <<db, lock, target, todo, first, faults>>

Commit(p) ==
    /\ pc[p] = "commit" /\ lock = p
    /\ db' = work /\ lock' = "none" /\ work' = Idle
    /\ Goto(p, "migrate")
    /\ UNCHANGED <<target, todo, first, faults>>

(* After the last version the whole schema is checked once more.            *)
Finish(p) ==
    /\ pc[p] = "migrate" /\ target[p] > SchemaVersion
    /\ Goto(p, IF Valid(db.schema, ExpectedSchema) THEN "open" ELSE "error")
    /\ UNCHANGED <<db, lock, work, target, todo, first, faults>>

(* Mutant: a failure leaves the transaction open.                           *)
RollbackForgotten(p) ==
    /\ UNCHANGED <<lock, work>>
    /\ target' = [target EXCEPT ![p] = 0] /\ todo' = [todo EXCEPT ![p] = <<>>]
    /\ first' = [first EXCEPT ![p] = 0]

Rollback(p) ==
    /\ lock' = (IF lock = p THEN "none" ELSE lock)
    /\ work' = (IF lock = p THEN Idle ELSE work)
    /\ target' = [target EXCEPT ![p] = 0] /\ todo' = [todo EXCEPT ![p] = <<>>]
    /\ first' = [first EXCEPT ![p] = 0]

(* A check or a statement that cannot succeed: the file cannot be used.     *)
Fail(p) ==
    /\ pc[p] = "failing" /\ Rollback(p) /\ Goto(p, "error")
    /\ UNCHANGED <<db, faults>>

(* The process is killed, the disk is full, or the lock is not given in     *)
(* time; whoever opens the database next starts again.                      *)
Fault(p) ==
    /\ pc[p] \notin {"closed", "error", "open"} /\ faults < MaxFaults
    /\ faults' = faults + 1
    /\ Rollback(p) /\ Goto(p, "closed")
    /\ UNCHANGED db

Next == \E p \in Procs :
    \/ Open(p) \/ Check(p) \/ Backfill(p) \/ Create(p) \/ Migrate(p) \/ Statement(p)
    \/ SetVersion(p) \/ Commit(p) \/ Finish(p) \/ Fail(p) \/ Fault(p)

Step(p) ==
    \/ Open(p) \/ Check(p) \/ Backfill(p) \/ Create(p) \/ Migrate(p) \/ Statement(p)
    \/ SetVersion(p) \/ Commit(p) \/ Finish(p) \/ Fail(p)

Spec == Init /\ [][Next]_vars
(* A command that opened the database runs on, and SQLite gives the lock to *)
(* each writer that asks for it within its five seconds.                    *)
FairSpec == Spec /\ \A p \in Procs : SF_vars(Step(p))

-----------------------------------------------------------------------------
TypeOK ==
    /\ db.version \in 0 .. SchemaVersion /\ db.schema \subseteq ExpectedSchema
    /\ db.history \subseteq 1 .. SchemaVersion
    /\ lock \in Procs \cup {"none"}
    /\ \A p \in Procs : /\ pc[p] \in {"closed", "check", "checking", "create", "migrate",
                                      "statements", "commit", "failing", "open", "error"}
                        /\ target[p] \in 0 .. SchemaVersion + 1

(* Whatever is killed or fails, the file is always a whole version: its     *)
(* tables and columns are those that version expects, and the history holds *)
(* no version it has not reached (_migration_transaction).                  *)
WholeVersion ==
    /\ db.schema \ {Table("schema_migrations")}
         = (IF db.version = 0 THEN {} ELSE Expected(db.version)) \ {Table("schema_migrations")}
    /\ db.history \subseteq 1 .. db.version

(* No sequence of crashes and concurrent upgrades makes a database unusable *)
(* (init_schema never reports an error about a file this program wrote),    *)
(* and who has opened it works on the current version, history complete.    *)
NeverStuck ==
    \A p \in Procs :
        /\ pc[p] \notin {"failing", "error"}
        /\ pc[p] = "open" => /\ db.schema = ExpectedSchema
                             /\ db.version = SchemaVersion
                             /\ db.history = 1 .. SchemaVersion

InUse(p) == pc[p] = "open"

(* Every process that opens the database gets to use it.                    *)
GetsToUseIt == \A p \in Procs : <>InUse(p)
=============================================================================
