------------------------ MODULE ReleaseNotifications ------------------------
(* Release notes are posted to Discord by a background poll and by web       *)
(* requests (web_release_notifications.py, web_release_notification_state.py,*)
(* release_notes.py, release_note_cache.py).  Every sender reads the notes,   *)
(* computes the key of each notification from them, reads the history of the *)
(* keys, reserves them in one transaction, posts batch after batch, and       *)
(* records each batch.  Nothing but the history rows keeps two senders apart. *)
(* The audit row of a run is left out but for the failures of writing it.     *)
(*                                                                            *)
(* A timestamp is known by whether it is old enough: a reservation is stale   *)
(* after SENDING_RESERVATION_TTL_SECONDS, a sent row has cooled after the     *)
(* cooldown, a cached note is old after its interval.  The text of a line     *)
(* names its target, and what WUD says of a line does not change.             *)
EXTENDS Naturals, FiniteSets

CONSTANTS
    Lines,          \* pending updates
    Requests,       \* threads that serve web requests
    Settings        \* possible [policy, delivery, grouping, pending, resolved,
                    \* enriched, requests, maxFaults]: the settings, the pending
                    \* lines, the lines of successful runs, the lines of which
                    \* WUD tells a tag or digest that their text lacks, the
                    \* requests that arrive, and the bound on failing posts,
                    \* transactions, fetches and crashes

Poller == "scheduler"
Senders == Requests \cup {Poller}
Kinds == {"ready", "urgent", "not_found", "error"}
Keys == Lines \X Kinds \X BOOLEAN

VARIABLES
    setting,        \* the effective release notification settings
    upstream,       \* what GitHub has on the release of a line
    cache,          \* release_note_cache
    hist,           \* release_notification_history
    snd,            \* where a sender is
    faults,
    delivered,      \* history: keys that Discord has shown
    excused,        \* history: keys whose reservation or answer was lost
    repeated        \* history: keys shown again that no policy allowed

history == <<delivered, excused, repeated>>
vars == <<setting, upstream, cache, hist, snd, faults, history>>

NoRow == [status |-> "none", counted |-> FALSE, stale |-> FALSE, cooled |-> FALSE]
Idle == [pc |-> "idle", resend |-> FALSE, items |-> {}, allow |-> {},
         batch |-> {}, done |-> {}]

TypeOK ==
    /\ setting \in Settings
    /\ upstream \in [Lines -> {"plain", "urgent", "none"}]
    /\ cache \in [Lines -> [kind : Kinds \cup {"missing"}, old : BOOLEAN]]
    /\ hist \in [Keys -> [status : {"none", "sending", "sent", "failure"},
                          counted : BOOLEAN, stale : BOOLEAN, cooled : BOOLEAN]]
    /\ snd \in [Senders -> [pc : {"idle", "keyed", "annotated", "started", "posting",
                                  "posted", "finish", "failed", "recorded"},
                            resend : BOOLEAN, items : SUBSET Keys, allow : SUBSET Keys,
                            batch : SUBSET Keys, done : SUBSET Keys]]
    /\ faults \in 0..setting.maxFaults
    /\ delivered \in SUBSET Keys /\ excused \in SUBSET Keys /\ repeated \in SUBSET Keys

Init ==
    /\ setting \in Settings
    /\ upstream \in {u \in [Lines -> {"plain", "none"}] : \A l \in Lines \ setting.pending : u[l] = "none"}
    /\ cache = [l \in Lines |-> [kind |-> "missing", old |-> FALSE]]
    /\ hist = [k \in Keys |-> NoRow]
    /\ snd = [s \in Senders |-> Idle]
    /\ faults = 0
    /\ delivered = {} /\ excused = {} /\ repeated = {}

(* A step that goes wrong uses up one fault. *)
Fault == faults < setting.maxFaults /\ faults' = faults + 1
Fine == faults' = faults

(* The note that a key is about, and whether it is a verified security note *)
Note(k) == <<k[1], k[2]>>
Urgent(k) == k[2] = "urgent"

-----------------------------------------------------------------------------
(* Release notes *)

(* _fetch_github_release_note, with the assessment of the advisories *)
FetchReleaseNote(l) ==
    CASE upstream[l] = "plain" -> "ready"
      [] upstream[l] = "urgent" -> "urgent"
      [] upstream[l] = "none" -> "not_found"

(* An advisory is published for a release. *)
Publish(l) ==
    /\ upstream[l] = "plain"
    /\ upstream' = [upstream EXCEPT ![l] = "urgent"]
    /\ UNCHANGED <<setting, cache, hist, snd, faults, history>>

(* Mutant: a cached error is kept like a good result. *)
CacheOld(l) == cache[l].old /\ cache[l].kind # "error"

(* _cache_stale: 15 minutes for an error, six hours for the rest *)
CacheStale(l) == cache[l].old

(* The interval of a cached note has passed. *)
CacheAges(l) ==
    /\ cache[l].kind # "missing" /\ ~cache[l].old
    /\ cache' = [cache EXCEPT ![l].old = TRUE]
    /\ UNCHANGED <<setting, upstream, hist, snd, faults, history>>

(* _upsert_cache *)
CacheRow(kind) == [kind |-> kind, old |-> FALSE]

(* refresh_release_notes: lines whose note is missing or stale are fetched,   *)
(* an error replaces the note *)
Refreshed(L, broken) ==
    [l \in Lines |->
        IF l \notin L \/ (cache[l].kind # "missing" /\ ~CacheStale(l)) THEN cache[l]
        ELSE CacheRow(IF l \in broken THEN "error" ELSE FetchReleaseNote(l))]

(* _verified_security_payload: the evidence of a verified note, and with it    *)
(* the tags and digests of WUD's metadata, if the sender has them and they   *)
(* say more than the line *)
VerifiedSecurity(l, kind, wud) == kind = "urgent" /\ wud /\ l \in setting.enriched

(* Mutant: every note hashes WUD's metadata. *)
NotificationKeyMetadata(l, kind, wud) == <<l, kind, wud>>

(* notification_identity: the key hashes the tag, the links and the verified  *)
(* security evidence of the note, which a failed fetch leaves empty; WUD's    *)
(* metadata itself is not hashed (_metadata_hash_payload) *)
NotificationKey(l, kind, wud) == <<l, kind, VerifiedSecurity(l, kind, wud)>>

(* _pending_notification_source: the lines a request names, which WUD's API   *)
(* has given with their metadata *)
PendingSource == [lines : SUBSET setting.pending \ {{}}, wud : {TRUE}]

(* _run_notification_source: the lines that a successful run has resolved,    *)
(* as the database keeps them, with metadata_by_line = {} *)
RunSource == [lines : setting.resolved \ {{}}, wud : {FALSE}]

(* The poll takes all pending lines. *)
Selected(s) ==
    IF s = Poller THEN [lines : {setting.pending}, wud : {TRUE}]
    ELSE PendingSource \cup RunSource

(* poll_wud_api_release_notifications: without a request, only verified notes *)
(* are sent when delivery is on demand *)
VerifiedOnly(s) == s = Poller /\ setting.delivery = "on_demand"

(* A request or a poll: the notes are refreshed and the keys computed. *)
Collect(s) ==
    /\ snd[s].pc = "idle" /\ s \in setting.requests \cup {Poller}
    /\ \E source \in Selected(s), again \in IF s = Poller THEN {FALSE} ELSE BOOLEAN :
        \E broken \in SUBSET source.lines :
            /\ IF broken = {} THEN Fine
               ELSE Fault /\ \A l \in broken : cache[l].kind = "missing" \/ CacheStale(l)
            /\ cache' = Refreshed(source.lines, broken)
            /\ snd' = [snd EXCEPT ![s] =
                    [Idle EXCEPT !.pc = "keyed", !.resend = again,
                        !.items = {k \in {NotificationKey(l, cache'[l].kind, source.wud)
                                            : l \in source.lines} :
                                     VerifiedOnly(s) => Urgent(k)}]]
    /\ UNCHANGED <<setting, upstream, hist, history>>

-----------------------------------------------------------------------------
(* The history decides *)

(* Mutant: a reservation whose time is over still blocks. *)
RetryableNever(row, resend) == FALSE

(* notification_decision for a row that is not sent, _retryable_notification_decision *)
Retryable(row, resend) == resend \/ ~row.counted

(* Mutant: the cooldown is also for verified security notes. *)
CooldownAny(k, row) == setting.policy = "cooldown" /\ row.cooled

(* The cooldown policy, which urgent notes do not follow *)
CooldownReady(k, row) == setting.policy = "cooldown" /\ ~Urgent(k) /\ row.cooled

(* notification_decision: may the key be sent *)
Decision(k, resend) ==
    LET row == hist[k]
    IN  CASE row.status = "none" -> TRUE
          [] row.status = "sending" -> row.stale /\ Retryable(row, resend)
          [] row.status = "failure" -> Retryable(row, resend)
          [] row.status = "sent" -> resend \/ CooldownReady(k, row)

(* The statuses manual_resend and cooldown_ready let a sent row be taken. *)
AllowExisting(k, resend) == IF hist[k].status = "sent" THEN TRUE ELSE resend

(* _notification_annotations: the history is read; nothing to send ends it. *)
Annotate(s) ==
    /\ snd[s].pc = "keyed"
    /\ LET send == {k \in snd[s].items : Decision(k, snd[s].resend)}
       IN  snd' = [snd EXCEPT ![s] =
                IF send = {} THEN Idle
                ELSE [@ EXCEPT !.pc = "annotated", !.items = send,
                        !.allow = {k \in send : hist[k].status # "none"
                                               /\ AllowExisting(k, snd[s].resend)}]]
    /\ UNCHANGED <<setting, upstream, cache, hist, faults, history>>

(* _insert_release_notification_audit_start *)
AuditStart(s) ==
    /\ snd[s].pc = "annotated"
    /\ \/ Fine /\ snd' = [snd EXCEPT ![s].pc = "started"]
       \/ Fault /\ snd' = [snd EXCEPT ![s] = Idle]
    /\ UNCHANGED <<setting, upstream, cache, hist, history>>

(* Mutant: a row is taken whatever it says of earlier sends. *)
ReservableUnsent(k, allow) == hist[k].status # "sending" \/ hist[k].stale

(* reserve_notification_history: INSERT OR IGNORE, then the guarded UPDATE *)
Reservable(k, allow) ==
    \/ hist[k].status = "none"
    \/ /\ hist[k].status # "sending" \/ hist[k].stale
       /\ ~hist[k].counted \/ k \in allow

(* _reserve_release_notification_history: one transaction for all items.  If  *)
(* nothing is left the run fails; if the transaction fails, all items count   *)
(* as the sender's own. *)
Reserve(s) ==
    /\ snd[s].pc = "started"
    /\ LET mine == {k \in snd[s].items : Reservable(k, snd[s].allow)}
       IN  \/ /\ Fine
              /\ hist' = [k \in Keys |-> IF k \in mine
                            THEN [hist[k] EXCEPT !.status = "sending", !.stale = FALSE]
                            ELSE hist[k]]
              /\ snd' = [snd EXCEPT ![s] =
                    IF mine = {} THEN Idle ELSE [@ EXCEPT !.pc = "posting", !.items = mine]]
              /\ UNCHANGED excused
           \/ /\ Fault
              /\ snd' = [snd EXCEPT ![s].pc = "failed"]
              /\ excused' = excused \cup snd[s].items
              /\ UNCHANGED hist
    /\ UNCHANGED <<setting, upstream, cache, delivered, repeated>>

-----------------------------------------------------------------------------
(* Posting *)

(* _payload_batches: one item each, or digests that follow the categories *)
Batches(todo) ==
    {b \in SUBSET todo \ {{}} :
        /\ setting.grouping = "per_container" => Cardinality(b) = 1
        /\ (\E k \in b : ~Urgent(k)) => {k \in todo : Urgent(k)} \subseteq b}

Shown(s, b) ==
    /\ delivered' = delivered \cup b
    /\ repeated' = repeated \cup ((b \cap delivered) \ (snd[s].allow \cup excused))

(* _post_discord_payload: it works, it fails, or it works and the answer is   *)
(* lost *)
Post(s) ==
    /\ snd[s].pc = "posting"
    /\ \E b \in Batches(snd[s].items \ snd[s].done) :
        \/ /\ Fine /\ Shown(s, b)
           /\ snd' = [snd EXCEPT ![s].pc = "posted", ![s].batch = b,
                                 ![s].done = @ \cup b]
           /\ UNCHANGED excused
        \/ /\ Fault /\ Shown(s, b)
           /\ excused' = excused \cup b
           /\ snd' = [snd EXCEPT ![s].pc = "failed"]
        \/ /\ Fault
           /\ snd' = [snd EXCEPT ![s].pc = "failed"]
           /\ UNCHANGED history
    /\ UNCHANGED <<setting, upstream, cache, hist>>

(* Mutant: every attempt is counted. *)
CountsAttempt(status) == TRUE

(* send_count grows with a send *)
CountsSend(status) == status = "sent"

(* upsert_notification_history *)
Upserted(K, status) ==
    [k \in Keys |->
        IF k \notin K THEN hist[k]
        ELSE [status |-> status,
              counted |-> CountsSend(status) \/ hist[k].counted,
              stale |-> FALSE,
              cooled |-> status # "sent" /\ hist[k].cooled]]

(* _record_release_notification_history: the batch is recorded as sent *)
Record(s) ==
    /\ snd[s].pc = "posted"
    /\ \/ /\ Fine
          /\ hist' = Upserted(snd[s].batch, "sent")
          /\ snd' = [snd EXCEPT ![s].batch = {},
                ![s].pc = IF snd[s].done = snd[s].items THEN "finish" ELSE "posting"]
       \/ Fault /\ snd' = [snd EXCEPT ![s].pc = "failed"] /\ UNCHANGED hist
    /\ UNCHANGED <<setting, upstream, cache, history>>

(* _finish_release_notification_audit with "success" *)
Finish(s) ==
    /\ snd[s].pc = "finish"
    /\ \/ Fine /\ snd' = [snd EXCEPT ![s] = Idle]
       \/ Fault /\ snd' = [snd EXCEPT ![s].pc = "failed"]
    /\ UNCHANGED <<setting, upstream, cache, hist, history>>

(* Mutant: what was posted already is recorded as failed too. *)
RemainingAll(s) == snd[s].items

(* The items whose failure is recorded *)
Remaining(s) == snd[s].items \ snd[s].done

(* _safe_record_release_notification_history with "failure" *)
RecordFailure(s) ==
    /\ snd[s].pc = "failed"
    /\ \/ Fine /\ hist' = Upserted(Remaining(s), "failure")
       \/ Fault /\ UNCHANGED hist
    /\ snd' = [snd EXCEPT ![s].pc = "recorded"]
    /\ UNCHANGED <<setting, upstream, cache, history>>

(* _safe_finish_release_notification_audit_failure *)
FinishFailure(s) ==
    /\ snd[s].pc = "recorded"
    /\ Fine \/ Fault
    /\ snd' = [snd EXCEPT ![s] = Idle]
    /\ UNCHANGED <<setting, upstream, cache, hist, history>>

-----------------------------------------------------------------------------
(* Time and crashes *)

(* _sending_reservation_stale: a crash or a slow Discord outlasts it *)
ReservationExpires(k) ==
    /\ hist[k].status = "sending" /\ ~hist[k].stale
    /\ hist' = [hist EXCEPT ![k].stale = TRUE]
    /\ excused' = excused \cup {k}
    /\ UNCHANGED <<setting, upstream, cache, snd, faults, delivered, repeated>>

(* _cooldown_elapsed *)
CooldownElapses(k) ==
    /\ setting.policy = "cooldown" /\ hist[k].counted /\ ~hist[k].cooled
    /\ hist' = [hist EXCEPT ![k].cooled = TRUE]
    /\ UNCHANGED <<setting, upstream, cache, snd, faults, history>>

(* The process dies, or stops: shutdown waits one second for the poll. *)
Crash ==
    /\ Fault
    /\ snd' = [s \in Senders |-> Idle]
    /\ UNCHANGED <<setting, upstream, cache, hist, history>>

Sender(s) ==
    \/ Collect(s) \/ Annotate(s) \/ AuditStart(s) \/ Reserve(s)
    \/ Post(s) \/ Record(s) \/ Finish(s) \/ RecordFailure(s) \/ FinishFailure(s)

Next ==
    \/ \E s \in Senders : Sender(s)
    \/ \E l \in Lines : Publish(l) \/ CacheAges(l)
    \/ \E k \in Keys : ReservationExpires(k) \/ CooldownElapses(k)
    \/ Crash

Spec == Init /\ [][Next]_vars

(* The scheduler thread polls for ever and every request ends (all calls have *)
(* timeouts), and time passes. *)
Fairness ==
    /\ \A s \in Senders : WF_vars((snd[s].pc # "idle" \/ s = Poller) /\ Sender(s))
    /\ \A l \in Lines : WF_vars(CacheAges(l))
    /\ \A k \in Keys : WF_vars(ReservationExpires(k))

FairSpec == Spec /\ Fairness

-----------------------------------------------------------------------------
(* Properties *)

(* However polls and requests interleave between reading the history and      *)
(* reserving (reserve_notification_history), Discord shows a note a second    *)
(* time only if its sender was allowed to repeat it, if a reservation, a      *)
(* transaction or an answer was lost, or if the note is a verified one and of *)
(* its two senders one had WUD's metadata and the other, for a run, had not.  *)
(* The exception is the code's: _verified_security_payload hashes WUD's tags  *)
(* and digests, so that the two senders know the note by different keys; the  *)
(* comment at web_release_notification_state.py:398 wants them to de-dupe.    *)
NoUnwantedRepeat ==
    /\ repeated = {}
    /\ \A j, k \in delivered : Note(j) = Note(k) => j = k \/ Urgent(k)

(* A row that counts sends, whatever failures were written over it, is about  *)
(* a notification that Discord has shown. *)
CountedWasShown == \A k \in Keys : hist[k].counted => k \in delivered

(* Recording the failure of a run spares what the run has posted and          *)
(* recorded: a row never falls from sent to failure by the sender that sent   *)
(* it. *)
SentNotRevoked ==
    [][\A s \in Senders : RecordFailure(s) =>
         \A k \in snd[s].done : hist[k].status = "sent" => hist'[k].status = "sent"]_vars

UrgentNote(l) == l \in setting.pending /\ upstream[l] = "urgent"
Told(l) == \E k \in delivered : Note(k) = <<l, "urgent">>

(* A verified Critical or High note is shown, in every delivery mode, after   *)
(* any crash, lost answer or failed fetch. *)
UrgentIsTold == \A l \in Lines : UrgentNote(l) ~> Told(l)

(* Once a verified security note is recorded as sent, the poll takes it again *)
(* only if it was sent for a run, without WUD's metadata, and a request that  *)
(* does not resend only if one of the two sends was for a run.                *)
UrgentNotRepeated ==
    [][\A k \in Keys, sent \in Keys :
         /\ Urgent(k) /\ Note(sent) = Note(k) /\ hist[sent].status = "sent"
         /\ hist[k].status # "sending" /\ hist'[k].status = "sending"
         => \/ Reserve(Poller) /\ k[3] /\ ~sent[3]
            \/ \E s \in Requests : Reserve(s) /\ (snd[s].resend \/ k # sent)]_vars
=============================================================================
