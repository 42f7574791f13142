--------------------------- MODULE SecurityScans ---------------------------
(* Security scans of pending updates.  A refresh job turns every pending    *)
(* line into a request, resolves the image it names, has the scanner look   *)
(* at it and at the installed image, keeps both results in the database and *)
(* compares them.  A page that is read meanwhile builds its requests without *)
(* the Compose files and finds results by key or by digest and platform.    *)
(* The scanner's vulnerability database may be replaced at any time.        *)
EXTENDS Integers, FiniteSets, Sequences, SequencesExt

CONSTANTS
    Lines, Keys,
    Starts,       \* what the pending lines and the cache may hold at first
    Sources,      \* what the pending lines may say later
    Found,        \* digest -> database -> findings, a bag over Keys
    Latest,       \* the digest the registry gives for the tag
    Keep,         \* rows kept per request (5 in the code)
    TTL,          \* how long a failed lookup is remembered
    MaxTime, MaxDb, MaxFaults, MaxChanges, MaxRefreshes

VARIABLES
    targets,   \* line -> [digest, wud, compose, current], "" if not known;
               \* compose is the set of the matched services' platforms
    db,        \* the scanner's database
    clock,
    failedAt,  \* when the last lookup of the tag failed, -1 if it did not
    rows,      \* the cache, oldest first
    job,       \* the refresh: [status, requests, done, pc, scan, candidate, memo]
    items,     \* the job's results so far: line -> shown result
    reader,    \* the page: [pc, request, candidate, fresh], the last a ghost
    shown,     \* the result the page has just shown, and whether it is fresh
    faults, changes, refreshes

outside == <<targets, db, clock, faults, changes>>
vars == <<outside, failedAt, rows, job, items, reader, shown, refreshes>>

Digests == DOMAIN Found
NoBag == [k \in Keys |-> 0]

-----------------------------------------------------------------------------
(* Requests                                                                 *)

(* The platform of the services a line matches; they must not disagree.     *)
ComposePlatform(platforms) ==
    CASE platforms = {} -> ""
      [] Cardinality(platforms) = 1 -> CHOOSE p \in platforms : TRUE
      [] OTHER -> "conflict"

Request(line, t, compose) ==
    LET platform == IF compose \notin {"", "conflict"} THEN compose ELSE t.wud
        identity == CASE compose = "conflict" \/ (compose # "" /\ t.wud \notin {"", compose}) -> "mismatch"
                      [] OTHER -> IF t.digest = "" \/ platform = "" THEN "unsupported" ELSE "pending"
    IN  [line |-> line, kind |-> "candidate", text |-> t.digest, digest |-> t.digest,
         platform |-> platform, identity |-> identity, current |-> t.current,
         missing |-> identity = "unsupported" /\ t.digest = "" /\ platform # ""]

NoRequest == [Request(0, [digest |-> "", wud |-> "", current |-> ""], "") EXCEPT !.kind = "none"]

(* The request for the installed image of a line.                           *)
CurrentRequest(q) ==
    IF q.current = "" THEN NoRequest
    ELSE [q EXCEPT !.kind = "installed", !.digest = q.current, !.current = "", !.missing = FALSE,
                   !.identity = IF q.platform = "" THEN "unsupported" ELSE "pending"]

(* Mutant: the key leaves out the digest.                                   *)
RequestKeyNoDigest(q) == <<q.line, q.kind, q.platform>>

RequestKey(q) == <<q.line, q.kind, q.text, q.digest, q.platform>>

(* Mutant: a failed lookup is remembered until one succeeds.                *)
RememberedForEver(now) == failedAt >= 0

Remembered(now) == failedAt >= 0 /\ now - failedAt < TTL

ResolvedTo(q) == IF q.missing THEN [q EXCEPT !.digest = Latest, !.missing = FALSE, !.identity = "pending"] ELSE q

(* Missing digests are looked up, once per image, unless a lookup failed a  *)
(* short while ago.  A lookup and what it remembers are one step.           *)
ResolveMissing(requests) ==
    IF ~\E l \in DOMAIN requests : requests[l].missing
    THEN {[requests |-> requests, failedAt |-> failedAt, faults |-> faults]}
    ELSE IF Remembered(clock)
    THEN {[requests |-> requests, failedAt |-> failedAt, faults |-> faults]}
    ELSE {[requests |-> [l \in DOMAIN requests |-> ResolvedTo(requests[l])], failedAt |-> -1, faults |-> faults]}
         \cup IF faults < MaxFaults
              THEN {[requests |-> requests, failedAt |-> clock, faults |-> faults + 1]} ELSE {}

-----------------------------------------------------------------------------
(* The cache                                                                *)
NoRow == [key |-> RequestKey(NoRequest), digest |-> "", platform |-> "", state |-> "none", version |-> "",
          exact |-> FALSE, db |-> 0, counted |-> FALSE, bag |-> NoBag, used |-> 0]

Newest(S) == IF Len(S) = 0 THEN NoRow ELSE S[Len(S)]

CachedByRequest(q) == Newest(SelectSeq(rows, LAMBDA r : r.key = RequestKey(q)))

CachedByPlatform(q, p) ==
    Newest(SelectSeq(rows, LAMBDA r : r.digest = q.digest /\ r.platform = p))

KnownPlatforms(q) ==
    {r.platform : r \in {x \in ToSet(rows) : x.digest = q.digest /\ x.platform # ""}}

CachedUnambiguous(q) ==
    IF Cardinality(KnownPlatforms(q)) = 1
    THEN CachedByPlatform(q, CHOOSE p \in KnownPlatforms(q) : TRUE) ELSE NoRow

(* Mutant: results are found by the key of the request only.                *)
CachedByKeyOnly(q) == CachedByRequest(q)

Cached(q) ==
    IF CachedByRequest(q) # NoRow THEN CachedByRequest(q)
    ELSE IF q.digest = "" THEN NoRow
    ELSE IF q.platform # "" THEN CachedByPlatform(q, q.platform)
    ELSE CachedUnambiguous(q)

CacheKey(r) == <<r.key, r.exact, r.version, r.db>>

(* The oldest rows of a request beyond the bound are dropped.               *)
Prune(S, key) ==
    LET mine == {i \in 1..Len(S) : S[i].key = key}
        old == {i \in mine : Cardinality({j \in mine : j > i}) >= Keep}
    IN  SelectSeq([i \in 1..Len(S) |-> <<i, S[i]>>], LAMBDA x : x[1] \notin old)

Upsert(r) ==
    LET other == SelectSeq(rows, LAMBDA x : CacheKey(x) # CacheKey(r))
        kept == Prune(Append(other, r), r.key)
    IN  [i \in 1..Len(kept) |-> kept[i][2]]

-----------------------------------------------------------------------------
(* The comparison                                                           *)
Unknown == [status |-> "unknown", fixed |-> NoBag, remaining |-> NoBag, introduced |-> NoBag]

(* Mutant: scans of different databases are compared.                       *)
MismatchedIgnored(a, b) == "" \in {a.version, b.version}

Mismatched(a, b) ==
    \/ "" \in {a.version, b.version} \/ a.version # b.version
    \/ 0 \in {a.db, b.db} \/ a.db # b.db
    \/ a.platform # b.platform

FindingRows(a, b) ==
    [fixed |-> [k \in Keys |-> IF a[k] > b[k] THEN a[k] - b[k] ELSE 0],
     remaining |-> [k \in Keys |-> IF a[k] < b[k] THEN a[k] ELSE b[k]],
     introduced |-> [k \in Keys |-> IF b[k] > a[k] THEN b[k] - a[k] ELSE 0]]

ComparisonStatus(f) ==
    CASE f.introduced # NoBag /\ f.fixed = NoBag -> "worse"
      [] f.fixed # NoBag /\ (f.remaining # NoBag \/ f.introduced # NoBag) -> "mixed"
      [] f.fixed # NoBag /\ f.remaining = NoBag /\ f.introduced = NoBag -> "improved"
      [] OTHER -> "unchanged"

Comparison(installed, candidate) ==
    IF \/ installed.state # "complete" \/ candidate.state # "complete"
       \/ Mismatched(installed, candidate)
       \/ \E r \in {installed, candidate} : r.counted /\ r.bag = NoBag
    THEN Unknown
    ELSE LET f == FindingRows(installed.bag, candidate.bag)
         IN  [status |-> ComparisonStatus(f), fixed |-> f.fixed,
              remaining |-> f.remaining, introduced |-> f.introduced]

SameSubject(row, q) == row.platform = q.platform /\ row.digest = q.digest

Nothing == [request |-> NoRequest, row |-> NoRow, installed |-> NoRow, comparison |-> Unknown]
Result(q, row, installed, c) == [request |-> q, row |-> row, installed |-> installed, comparison |-> c]

(* Ghost: the refresh has ended, was about this very request, and the       *)
(* platform of the image is not in doubt.                                   *)
Refreshed(q) ==
    /\ job.status = "success"
    /\ LET j == job.requests[q.line]
       IN  /\ q.digest # "" /\ j.digest = q.digest /\ j.text = q.text
           /\ IF q.platform = "" THEN KnownPlatforms(q) = {j.platform} ELSE q.platform = j.platform

-----------------------------------------------------------------------------
NoScan == [ok |-> FALSE, bag |-> NoBag, used |-> 0]
NoJob == [status |-> "none", requests |-> [l \in Lines |-> NoRequest], done |-> {}, pc |-> "idle",
          scan |-> NoScan, candidate |-> NoRow, memo |-> <<>>]
NoReader == [pc |-> "idle", request |-> NoRequest, candidate |-> NoRow, fresh |-> FALSE]

Page(q, row, installed, c) ==
    [result |-> Result(q, row, installed, c), fresh |-> reader.fresh]
NoPage == [result |-> Nothing, fresh |-> FALSE]

Init ==
    /\ \E s \in Starts : targets = s.targets /\ rows = s.rows
    /\ db = 1 /\ clock = 0 /\ failedAt = -1
    /\ job = NoJob /\ items = [l \in Lines |-> Nothing]
    /\ reader = NoReader /\ shown = NoPage
    /\ faults = 0 /\ changes = 0 /\ refreshes = 0

SourceChanges ==
    /\ changes < MaxChanges /\ changes' = changes + 1
    /\ targets' \in Sources \ {targets}
    /\ UNCHANGED <<db, clock, faults, failedAt, rows, job, items, reader, refreshes>> /\ shown' = NoPage

(* The scanner, or another user of its cache, fetches a newer database.     *)
DbUpdate ==
    /\ db < MaxDb /\ db' = db + 1
    /\ changes < MaxChanges /\ changes' = changes + 1
    /\ UNCHANGED <<targets, clock, faults, failedAt, rows, job, items, reader, refreshes>> /\ shown' = NoPage

(* Time matters while a failed lookup is remembered.                        *)
Tick ==
    /\ failedAt >= 0 /\ clock < MaxTime /\ clock' = clock + 1
    /\ UNCHANGED <<targets, db, faults, changes, failedAt, rows, job, items, reader, refreshes>> /\ shown' = NoPage

-----------------------------------------------------------------------------
(* The refresh job                                                          *)
Refresh ==
    /\ job.status \notin {"queued", "running"} /\ refreshes < MaxRefreshes
    /\ refreshes' = refreshes + 1
    /\ job' = [NoJob EXCEPT !.status = "queued", !.pc = "context"]
    /\ items' = [l \in Lines |-> Nothing]
    /\ reader' = [reader EXCEPT !.fresh = FALSE] /\ shown' = NoPage
    /\ UNCHANGED <<outside, failedAt, rows>>

Context ==
    /\ job.pc = "context"
    /\ \E c \in ResolveMissing([l \in Lines |-> Request(l, targets[l], ComposePlatform(targets[l].compose))]) :
        /\ job' = [job EXCEPT !.status = "running", !.requests = c.requests, !.pc = "resolve"]
        /\ failedAt' = c.failedAt /\ faults' = c.faults
    /\ UNCHANGED <<targets, db, clock, changes, rows, items, reader, refreshes>> /\ shown' = NoPage

Remaining == Lines \ job.done
(* The requests are taken in the order of their lines.                      *)
Line == CHOOSE l \in Remaining : \A m \in Remaining : l <= m
Q == job.requests[Line]

Item(result) == items' = [items EXCEPT ![Line] = result]
RequestDone == [job EXCEPT !.pc = "resolve", !.done = @ \cup {Line},
                           !.scan = NoScan, !.candidate = NoRow]

Failing(n) == n \in {0, 1} /\ faults + n <= MaxFaults /\ faults' = faults + n

StateFromSubject(identity) ==
    CASE identity \in {"stale", "auth_required"} -> identity
      [] identity \in {"mismatch", "unsupported"} -> "unsupported"
      [] OTHER -> "error"

SubjectRow(q, identity) ==
    [NoRow EXCEPT !.key = RequestKey(q), !.digest = q.digest, !.platform = q.platform,
                  !.state = StateFromSubject(identity)]

(* A request that names no exact image is recorded as such.                 *)
CacheResolution(q, identity) == rows' = Upsert(SubjectRow(q, identity))

Resolve ==
    /\ job.pc = "resolve" /\ Remaining # {}
    /\ \/ /\ CachedByRequest(Q).version = "demo" /\ faults' = faults /\ rows' = rows
          /\ LET i == CurrentRequest(Q)
                 row == CachedByRequest(Q)
                 installed == IF i = NoRequest THEN NoRow ELSE IF SameSubject(row, i) THEN row ELSE Cached(i)
             IN  Item(Result(Q, row, installed, Comparison(installed, row)))
          /\ job' = RequestDone
       \/ /\ CachedByRequest(Q).version # "demo"
          /\ \E n \in 0..1 :
              /\ Failing(n) /\ (Q.identity # "pending" => n = 0)
              /\ IF Q.identity # "pending" \/ n = 1
                 THEN /\ CacheResolution(Q, IF Q.identity = "pending" THEN "stale" ELSE Q.identity)
                      /\ Item(Result(Q, Newest(rows'), NoRow, Unknown)) /\ job' = RequestDone
                 ELSE job' = [job EXCEPT !.pc = "scan"] /\ UNCHANGED <<rows, items>>
    /\ UNCHANGED <<targets, db, clock, changes, failedAt, reader, refreshes>> /\ shown' = NoPage

(* The scanner reads the image by its digest, with the database of now.     *)
Scan(digest, next) ==
    \E n \in 0..1 :
        /\ Failing(n)
        /\ job' = [job EXCEPT !.pc = next,
                      !.scan = IF n = 1 THEN NoScan ELSE [ok |-> TRUE, bag |-> Found[digest][db], used |-> db]]

(* Only then is it asked for its version and database, which may fail.      *)
ScannedRow(q, known) ==
    [key |-> RequestKey(q), digest |-> q.digest, platform |-> q.platform,
     state |-> IF job.scan.ok THEN "complete" ELSE "error",
     exact |-> TRUE, version |-> IF known THEN "v" ELSE "",
     db |-> IF known /\ job.scan.ok THEN db ELSE 0,
     counted |-> job.scan.bag # NoBag, bag |-> job.scan.bag, used |-> job.scan.used]

ScanCandidate ==
    /\ job.pc = "scan" /\ Scan(Q.digest, "store")
    /\ UNCHANGED <<targets, db, clock, changes, failedAt, rows, items, reader, refreshes>> /\ shown' = NoPage

StoreCandidate ==
    /\ job.pc = "store"
    /\ \E n \in 0..1 :
        LET row == ScannedRow(Q, n = 0)
            i == CurrentRequest(Q)
        IN  /\ Failing(n) /\ rows' = Upsert(row)
            /\ IF row.state # "complete" \/ i = NoRequest
               THEN Item(Result(Q, row, NoRow, Unknown)) /\ job' = RequestDone
               ELSE IF SameSubject(row, i)
               THEN Item(Result(Q, row, row, Comparison(row, row))) /\ job' = RequestDone
               ELSE UNCHANGED items /\ job' = [job EXCEPT !.pc = "installed", !.candidate = row, !.scan = NoScan]
    /\ UNCHANGED <<targets, db, clock, changes, failedAt, reader, refreshes>> /\ shown' = NoPage

I == CurrentRequest(Q)
MemoKey(q) == <<q.digest, q.platform>>
Compare(installed) == Item(Result(Q, job.candidate, installed, Comparison(installed, job.candidate)))
Memo(installed) == [RequestDone EXCEPT !.memo = Append(job.memo, <<MemoKey(I), installed>>)]

(* The installed image is scanned once per job, whatever line names it.     *)
ResolveInstalled ==
    /\ job.pc = "installed"
    /\ IF CachedByRequest(I).version = "demo"
       THEN Compare(CachedByRequest(I)) /\ job' = Memo(CachedByRequest(I)) /\ UNCHANGED <<rows, faults>>
       ELSE IF \E x \in ToSet(job.memo) : x[1] = MemoKey(I)
       THEN /\ Compare((CHOOSE x \in ToSet(job.memo) : x[1] = MemoKey(I))[2])
            /\ job' = RequestDone /\ UNCHANGED <<rows, faults>>
       ELSE \E n \in 0..1 :
            /\ Failing(n)
            /\ IF n = 1
               THEN /\ CacheResolution(I, "error") /\ Compare(Newest(rows')) /\ job' = Memo(Newest(rows'))
               ELSE job' = [job EXCEPT !.pc = "scan installed"] /\ UNCHANGED <<rows, items>>
    /\ UNCHANGED <<targets, db, clock, changes, failedAt, reader, refreshes>> /\ shown' = NoPage

ScanInstalled ==
    /\ job.pc = "scan installed" /\ Scan(I.digest, "store installed")
    /\ UNCHANGED <<targets, db, clock, changes, failedAt, rows, items, reader, refreshes>> /\ shown' = NoPage

StoreInstalled ==
    /\ job.pc = "store installed"
    /\ \E n \in 0..1 :
        LET row == ScannedRow(I, n = 0)
        IN  /\ Failing(n) /\ rows' = Upsert(row)
            /\ Compare(row) /\ job' = Memo(row)
    /\ UNCHANGED <<targets, db, clock, changes, failedAt, reader, refreshes>> /\ shown' = NoPage

FinishRefresh ==
    /\ job.pc = "resolve" /\ Remaining = {}
    /\ job' = [job EXCEPT !.status = "success", !.pc = "idle", !.memo = <<>>]
    /\ UNCHANGED <<outside, failedAt, rows, items, reader, refreshes>> /\ shown' = NoPage

(* Mutant: an exception leaves the job as it is.                            *)
FailedStatusKept == job.status

(* Mutant: a status that nobody knows.                                      *)
FailedStatusTypo == "failed"

FailedStatus == "failure"

(* The database is locked or a file cannot be read.                         *)
FailRefresh ==
    /\ job.status = "running" /\ faults < MaxFaults /\ faults' = faults + 1
    /\ job' = [NoJob EXCEPT !.status = FailedStatus]
    /\ UNCHANGED <<targets, db, clock, changes, failedAt, rows, items, reader, refreshes>> /\ shown' = NoPage

-----------------------------------------------------------------------------
(* The page: the requests of the lines, without the Compose files.          *)
Read(line) ==
    /\ reader.pc = "idle"
    /\ \E c \in ResolveMissing([l \in {line} |-> Request(l, targets[l], "")]) :
        /\ reader' = [NoReader EXCEPT !.pc = "row", !.request = c.requests[line],
                                      !.fresh = Refreshed(c.requests[line])]
        /\ failedAt' = c.failedAt /\ faults' = c.faults
    /\ shown' = NoPage
    /\ UNCHANGED <<targets, db, clock, changes, rows, job, items, refreshes>>

ReadRow ==
    /\ reader.pc = "row"
    /\ IF Cached(reader.request) = NoRow
       THEN /\ reader' = NoReader
            /\ shown' = Page(reader.request, NoRow, NoRow, Unknown)
       ELSE /\ reader' = [reader EXCEPT !.pc = "installed", !.candidate = Cached(reader.request)]
            /\ UNCHANGED shown
    /\ UNCHANGED <<outside, failedAt, rows, job, items, refreshes>>

ReadInstalled ==
    /\ reader.pc = "installed"
    /\ LET i == CurrentRequest(reader.request)
           installed == IF i = NoRequest THEN NoRow
                        ELSE IF SameSubject(reader.candidate, i) THEN reader.candidate ELSE Cached(i)
       IN  shown' = Page(reader.request, reader.candidate, installed, Comparison(installed, reader.candidate))
    /\ reader' = NoReader
    /\ UNCHANGED <<outside, failedAt, rows, job, items, refreshes>>

JobStep ==
    \/ Context \/ Resolve \/ ScanCandidate \/ StoreCandidate
    \/ ResolveInstalled \/ ScanInstalled \/ StoreInstalled \/ FinishRefresh \/ FailRefresh

Next ==
    \/ SourceChanges \/ DbUpdate \/ Tick \/ Refresh \/ JobStep
    \/ \E l \in Lines : Read(l)
    \/ ReadRow \/ ReadInstalled

Spec == Init /\ [][Next]_vars
(* The executor's thread goes on with the job.                              *)
FairSpec == Spec /\ WF_vars(JobStep)

-----------------------------------------------------------------------------
TypeOK ==
    /\ job.status \in {"none", "queued", "running", "success", "failure"}
    /\ job.done \subseteq Lines /\ failedAt \in -1..MaxTime
    /\ \A i \in 1..Len(rows) : rows[i].bag \in [Keys -> Nat] /\ rows[i].db \in 0..MaxDb

Results == {shown.result} \cup {items[l] : l \in Lines}

(* A result shown for a pending line, by the job or by a page, is that of   *)
(* the digest the line names, for its platform, and the one it is compared  *)
(* with is that of the installed digest (request_key and the lookups of     *)
(* security_store).                                                         *)
ShownIsOfRequest ==
    \A x \in Results :
        /\ x.row # NoRow => /\ x.row.digest = x.request.digest
                            /\ x.request.platform \in {"", x.row.platform}
        /\ x.comparison # Unknown => x.installed.digest = x.request.current

(* What a comparison says is true of the two images, with one vulnerability *)
(* database: nothing changed, nothing is left, or findings were only added. *)
(* Left out: the database was replaced between a scan and the question      *)
(* which one it was.                                                        *)
ComparisonTrue ==
    \A x \in Results :
        x.comparison.status # "unknown" /\ x.row.used = x.row.db /\ x.installed.used = x.installed.db =>
            LET c == x.comparison
                old == Found[x.request.current][x.row.db]
                new == Found[x.request.digest][x.row.db]
            IN  /\ c.status = "unchanged" <=> old = new
                /\ c.status = "improved" => new = NoBag
                /\ c.status = "worse" => \A k \in Keys : old[k] <= new[k]
                /\ \A k \in Keys : c.fixed[k] + c.remaining[k] = old[k]
                                   /\ c.introduced[k] + c.remaining[k] = new[k]

(* A page that is opened after a refresh shows the row of that refresh, not *)
(* an older one, and finds one also when only the Compose files, which the  *)
(* page does not read, give the platform.  In that case it may be the row   *)
(* of another line that names the same digest.                              *)
FreshAfterRefresh ==
    shown.fresh => \/ shown.result.row = items[shown.result.request.line].row
                   \/ shown.result.request.platform = "" /\ shown.result.row # NoRow

(* A digest is reported as missing only if a lookup failed a short while    *)
(* ago; failures are not remembered for ever (_cached_missing_digest_       *)
(* failure).                                                                *)
FailuresExpire ==
    [][reader.pc = "idle" /\ reader'.pc = "row" /\ reader'.request.missing
         => clock - failedAt' < TTL]_vars

Queued == job.status = "queued"
Ended == job.status \in {"success", "failure"}

(* A refresh ends, with a result or an error: the next one is not refused   *)
(* for ever.                                                                *)
RefreshEnds == Queued ~> Ended
=============================================================================
