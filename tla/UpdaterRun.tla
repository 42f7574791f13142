------------------------------ MODULE UpdaterRun ------------------------------
(***************************************************************************)
(* A run of the updater (updater.py) against the WUD pending file           *)
(* (wud_file.py), its directory lock (locks.py) and its audit rows          *)
(* (updater_audit.py).  Several runs may work on one file, next to whatever *)
(* appends new entries to it.                                               *)
(*                                                                          *)
(* A run reads the file, takes its entries out of it, updates the stacks    *)
(* they match one after the other, and puts the entries that did not        *)
(* succeed back.  It names entries by line number; an entry is its raw text.*)
(***************************************************************************)
EXTENDS Naturals, FiniteSets, SequencesExt

CONSTANTS
    Runs,           \* updater processes, one run each
    Entries,        \* raw lines of the pending file
    Appendable,     \* entries that may be appended to it
    Stacks,         \* Compose stacks, by index
    Matching,       \* the stacks in which an entry's image is found
    Digested,       \* entries that ask for a digest
    Excludable,     \* entries a user may turn into a tag exclusion
    Discardable,    \* entries a user may ask to remove without an update
    InitialFiles,   \* what the file may hold at first
    LockTimeout,    \* WUD_LOCK_TIMEOUT
    MaxAppends,     \* bound on the entries appended later
    MaxFaults,      \* bound on failing writes and interrupts
    MaxKills        \* bound on the runs killed without clean-up

ASSUME UpdaterAssumption ==
    /\ Stacks \subseteq Nat
    /\ Matching \in [Entries -> SUBSET Stacks]
    /\ Appendable \subseteq Entries
    /\ Digested \subseteq Entries
    /\ Excludable \subseteq Entries
    /\ Discardable \subseteq Entries
    /\ InitialFiles \subseteq Seq(Entries)
    /\ {LockTimeout, MaxAppends, MaxFaults, MaxKills} \subseteq Nat

VARIABLES
    file,           \* the pending file
    lockDir,        \* does path.lock exist?
    pc,             \* where a run is
    held,           \* DirectoryLock._held
    waited,         \* seconds waited in DirectoryLock.acquire
    parsed,         \* lines of the file as the run first read it
    audited,        \* lines of audit_parsed
    targets,        \* line numbers of parsed.targets
    match,          \* matches: <<line number, stack>>
    partial,        \* partially_selected_line_numbers
    excluded,       \* line numbers with a tag exclusion
    exclusion,      \* exclusion_updates: <<line number, stack>>
    discard,        \* line numbers of --remove-lines-before-run
    inFlight,       \* in_flight_pending is set
    buf,            \* current_lines of a rewrite
    status,         \* stack_statuses
    excludeOk,      \* exclusions whose status is success
    preStale,       \* preflight_digest_outcomes.stale
    postStale,      \* expected_digest_outcomes.stale
    rows,           \* pending_updates: status by line number
    runRow,         \* update_runs.status
    done,           \* history: stacks updated for an entry since it was listed
    dropped,        \* history: not listed; or stale, excluded, discarded
    lost,           \* history: killed in flight, or reported as not restored
    appends, faults, kills

fileVars == <<file, lockDir>>
planVars == <<parsed, targets, match, partial, excluded, exclusion, discard>>
workVars == <<status, excludeOk, preStale, postStale>>
auditVars == <<rows, runRow>>
lockVars == <<held, waited, buf>>
historyVars == <<done, dropped, lost>>
boundVars == <<appends, faults, kills>>
vars == <<fileVars, pc, lockVars, planVars, audited, inFlight, workVars,
          auditVars, historyVars, boundVars>>

-----------------------------------------------------------------------------
(* Types *)

Waiting == {"lockRemove", "lockRestore", "lockAbort"}
Rewriting == {"remove", "restore", "abortRestore"}
Pcs == Waiting \cup Rewriting \cup
    {"start", "planned", "digest", "exclude", "update", "reconciled", "finish",
     "report", "abort", "ended", "dead"}
RowStatuses == {"none", "pending", "in_progress", "resolved", "failed"}
Pairs == Nat \X Stacks

TypeOK ==
    /\ file \in Seq(Entries)
    /\ lockDir \in BOOLEAN
    /\ pc \in [Runs -> Pcs]
    /\ held \in [Runs -> BOOLEAN]
    /\ waited \in [Runs -> 0..LockTimeout]
    /\ parsed \in [Runs -> Seq(Entries)]
    /\ audited \in [Runs -> Seq(Entries)]
    /\ targets \in [Runs -> SUBSET Nat]
    /\ match \in [Runs -> SUBSET Pairs]
    /\ partial \in [Runs -> SUBSET Nat]
    /\ excluded \in [Runs -> SUBSET Nat]
    /\ exclusion \in [Runs -> SUBSET Pairs]
    /\ discard \in [Runs -> SUBSET Nat]
    /\ inFlight \in [Runs -> BOOLEAN]
    /\ buf \in [Runs -> Seq(Entries)]
    /\ status \in [Runs -> [Stacks -> {"none", "success", "failure"}]]
    /\ excludeOk \in [Runs -> SUBSET Pairs]
    /\ preStale \in [Runs -> SUBSET Pairs]
    /\ postStale \in [Runs -> SUBSET Pairs]
    /\ rows \in [Runs -> Seq(RowStatuses)]
    /\ runRow \in [Runs -> {"none", "started", "success", "failure"}]
    /\ done \in [Entries -> SUBSET Stacks]
    /\ dropped \subseteq Entries
    /\ lost \subseteq Entries
    /\ appends \in 0..MaxAppends
    /\ faults \in 0..MaxFaults
    /\ kills \in 0..MaxKills

Init ==
    /\ file \in InitialFiles
    /\ lockDir = FALSE
    /\ pc = [r \in Runs |-> "start"]
    /\ held = [r \in Runs |-> FALSE]
    /\ waited = [r \in Runs |-> 0]
    /\ parsed = [r \in Runs |-> <<>>]
    /\ audited = [r \in Runs |-> <<>>]
    /\ targets = [r \in Runs |-> {}]
    /\ match = [r \in Runs |-> {}]
    /\ partial = [r \in Runs |-> {}]
    /\ excluded = [r \in Runs |-> {}]
    /\ exclusion = [r \in Runs |-> {}]
    /\ discard = [r \in Runs |-> {}]
    /\ inFlight = [r \in Runs |-> FALSE]
    /\ buf = [r \in Runs |-> <<>>]
    /\ status = [r \in Runs |-> [s \in Stacks |-> "none"]]
    /\ excludeOk = [r \in Runs |-> {}]
    /\ preStale = [r \in Runs |-> {}]
    /\ postStale = [r \in Runs |-> {}]
    /\ rows = [r \in Runs |-> <<>>]
    /\ runRow = [r \in Runs |-> "none"]
    /\ done = [e \in Entries |-> {}]
    /\ dropped = Entries \ Range(file)
    /\ lost = {}
    /\ appends = 0 /\ faults = 0 /\ kills = 0

-----------------------------------------------------------------------------
(* The two rewrites of wud_file.py *)

Count(lines, e) == Cardinality({i \in DOMAIN lines : lines[i] = e})

(* The lines with a number in I, in the order of the file: the k-th of them   *)
(* has k - 1 of them before it.                                               *)
LinesAt(lines, I) ==
    LET J == I \cap DOMAIN lines
        nth(k) == CHOOSE i \in J : Cardinality({j \in J : j < i}) = k - 1
    IN  [k \in 1..Cardinality(J) |-> lines[nth(k)]]

(* How many lines before i, with a number in I, have the text of line i *)
Earlier(lines, I, i) ==
    Cardinality({j \in I \cap 1..(i - 1) : lines[j] = lines[i]})

(* Mutant: what was appended in the meantime is forgotten. *)
RemoveLinesNoExtras(original, remove, current) ==
    LinesAt(original, DOMAIN original \ remove)

(* Mutant: every line counts as appended in the meantime. *)
RemoveLinesAllExtras(original, remove, current) ==
    LinesAt(original, DOMAIN original \ remove) \o current

(* remove_lines_before_run: the original lines that stay, and then the lines  *)
(* the file has in excess of the original ones                               *)
RemoveLines(original, remove, current) ==
    LET extra == {i \in DOMAIN current :
                    Earlier(current, DOMAIN current, i) + Count(original, current[i])
                        < Count(current, current[i])}
    IN  LinesAt(original, DOMAIN original \ remove) \o LinesAt(current, extra)

(* Mutant: one line too few *)
RestoreLinesOffByOne(original, failed, current) ==
    LET I == failed \cap DOMAIN original
        needed(e) == Cardinality({i \in I : original[i] = e})
        missing == {i \in I :
                      Count(current, original[i]) + Earlier(original, I, i) + 1
                          < needed(original[i])}
    IN  current \o LinesAt(original, missing)

(* restore_failed_lines: the failed lines that the file does not have (again) *)
RestoreLines(original, failed, current) ==
    LET I == failed \cap DOMAIN original
        needed(e) == Cardinality({i \in I : original[i] = e})
        missing == {i \in I :
                      Count(current, original[i]) + Earlier(original, I, i)
                          < needed(original[i])}
    IN  current \o LinesAt(original, missing)

-----------------------------------------------------------------------------
(* What a run knows about its lines *)

LinesOf(pairs) == {p[1] : p \in pairs}
StacksOf(pairs) == {p[2] : p \in pairs}
EntriesAt(r, I) == {parsed[r][i] : i \in I \cap DOMAIN parsed[r]}

(* in_flight_lines of _prepare_mutation *)
InFlightLines(r) == LinesOf(match[r]) \cup discard[r] \cup LinesOf(exclusion[r])

Succeeded(r, p) ==
    IF p \in exclusion[r] THEN p \in excludeOk[r]
                          ELSE status[r][p[2]] = "success"

(* _unfinished_pending_lines: a stack without a status has not succeeded. *)
Unfinished(r) ==
    LinesOf({p \in match[r] \cup exclusion[r] : ~Succeeded(r, p)})

(* _stale_pending_digest_line_numbers: every stack of the line found it stale *)
StaleLines(r) ==
    {i \in LinesOf(match[r]) :
        LET needs == {p \in match[r] : p[1] = i /\ parsed[r][i] \in Digested}
        IN  needs # {} /\ (needs \subseteq preStale[r] \/ needs \subseteq postStale[r])}

(* The lines _reconcile_pending_entries puts back *)
Restorable(r) ==
    (Unfinished(r) \ (StaleLines(r) \ partial[r])) \cup partial[r]

(* The lines _restore_unfinished_pending puts back *)
AbortLines(r) == Unfinished(r) \cup partial[r]

PutBack(r) == {audited[r][i] : i \in AbortLines(r) \cap DOMAIN audited[r]}

(* Mutant: a stack that was never reached counts as done. *)
OutcomeRowsUnlessFailed(r) ==
    [i \in DOMAIN rows[r] |->
        IF i \in LinesOf(match[r] \cup exclusion[r]) /\ rows[r][i] # "none"
        THEN IF \E p \in match[r] : p[1] = i /\ status[r][p[2]] = "failure"
             THEN "failed" ELSE "resolved"
        ELSE rows[r][i]]

(* mark_failed_pending, mark_successful_pending and                          *)
(* mark_successful_tag_exclusions                                            *)
OutcomeRows(r) ==
    [i \in DOMAIN rows[r] |->
        IF i \in LinesOf(match[r] \cup exclusion[r]) /\ rows[r][i] # "none"
        THEN IF i \in Unfinished(r) THEN "failed" ELSE "resolved"
        ELSE rows[r][i]]

(* Mutant: a status the schema does not know *)
InterruptedRowsTypo(old) ==
    [i \in DOMAIN old |->
        IF old[i] = "in_progress" THEN "interrupted" ELSE old[i]]

(* mark_interrupted_pending, one statement *)
InterruptedRows(old) ==
    [i \in DOMAIN old |->
        IF old[i] = "in_progress" THEN "failed" ELSE old[i]]

(* The rows when an error stops the updates, each of which is committed       *)
RowsSoFar(r, new) ==
    {[i \in DOMAIN rows[r] |-> IF i \in I THEN new[i] ELSE rows[r][i]] :
        I \in SUBSET DOMAIN rows[r]}

-----------------------------------------------------------------------------
(* The world around the run *)

(* Something outside appends an entry, under the lock. *)
AppendEntry(e) ==
    /\ appends < MaxAppends
    /\ ~lockDir
    /\ appends' = appends + 1
    /\ file' = Append(file, e)
    /\ done' = [done EXCEPT ![e] = {}]
    /\ dropped' = dropped \ {e}
    /\ lost' = lost \ {e}
    /\ UNCHANGED <<lockDir, pc, lockVars, planVars, audited, inFlight, workVars,
                   auditVars, faults, kills>>

(* An operating system call or a database write fails, or the run is         *)
(* interrupted.                                                              *)
Fault == faults < MaxFaults /\ faults' = faults + 1

(* Where _abort_run starts: there may be nothing to put back. *)
AbortPc(r) == IF inFlight[r] /\ AbortLines(r) # {} THEN "lockAbort" ELSE "abort"

Goto(r, step) == pc' = [pc EXCEPT ![r] = step]

-----------------------------------------------------------------------------
(* Reading and planning *)

(* _parse_wud_files, _build_matches, _plan_tag_exclusions: a user selects     *)
(* lines, or some of the stacks that a line matches.                          *)
Parse(r) ==
    /\ pc[r] = "start"
    /\ parsed' = [parsed EXCEPT ![r] = file]
    /\ \E update \in SUBSET DOMAIN file,
          exclude \in SUBSET {i \in DOMAIN file : file[i] \in Excludable},
          remove \in SUBSET {i \in DOMAIN file : file[i] \in Discardable} :
        LET matching(I) == {p \in I \X Stacks : p[2] \in Matching[file[p[1]]]}
        IN  /\ update \cap exclude = {}
            /\ targets' = [targets EXCEPT ![r] = update]
            /\ \E selected \in SUBSET matching(update) :
                  /\ match' = [match EXCEPT ![r] = selected]
                  /\ partial' = [partial EXCEPT ![r] =
                        LinesOf(selected) \cap LinesOf(matching(update) \ selected)]
            /\ excluded' = [excluded EXCEPT ![r] = exclude]
            /\ \E valid \in SUBSET exclude :
                  exclusion' = [exclusion EXCEPT ![r] = matching(valid)]
            /\ discard' = [discard EXCEPT ![r] = remove]
            /\ Goto(r, IF update \cup exclude = {} THEN "ended" ELSE "planned")
    /\ UNCHANGED <<fileVars, lockVars, audited, inFlight, workVars, auditVars,
                   historyVars, boundVars>>

(* audit_parsed_file reads the file again if lines other than the targets     *)
(* are to be recorded.                                                        *)
AuditFile(r) ==
    IF InFlightLines(r) \cup excluded[r] \subseteq targets[r] THEN parsed[r] ELSE file

(* start_audit and the mark_ functions of _prepare_mutation *)
PlannedRows(r, lines) ==
    [i \in DOMAIN lines |->
        CASE i \in LinesOf(match[r] \cup exclusion[r]) -> "in_progress"
          [] i \in excluded[r] \ LinesOf(exclusion[r]) -> "failed"
          [] i \in discard[r] \ (LinesOf(match[r]) \cup excluded[r]) -> "resolved"
          [] i \in targets[r] \ (LinesOf(match[r]) \cup discard[r]) -> "pending"
          [] OTHER -> "none"]

(* A dry run, an invalid plan, a failed preflight check or nothing that       *)
(* matches: the run returns, with or without a record of it.                  *)
ReturnEarly(r) ==
    /\ pc[r] = "planned"
    /\ \/ UNCHANGED auditVars
       \/ \E failed \in SUBSET LinesOf(match[r]) :
             /\ rows' = [rows EXCEPT ![r] =
                   [i \in DOMAIN AuditFile(r) |->
                       CASE i \in failed \cup excluded[r] -> "failed"
                         [] i \in targets[r] \ failed -> "pending"
                         [] OTHER -> "none"]]
             /\ runRow' = [runRow EXCEPT ![r] =
                   IF match[r] \cup exclusion[r] = {} /\ excluded[r] = {}
                   THEN "success" ELSE "failure"]
    /\ Goto(r, "ended")
    /\ UNCHANGED <<fileVars, lockVars, planVars, audited, inFlight, workVars,
                   historyVars, boundVars>>

(* _prepare_mutation up to the lock; the audit database may fail. *)
Prepare(r) ==
    /\ pc[r] = "planned"
    /\ match[r] \cup exclusion[r] # {}
    /\ \/ /\ audited' = [audited EXCEPT ![r] = AuditFile(r)]
          /\ rows' = [rows EXCEPT ![r] = PlannedRows(r, AuditFile(r))]
          /\ runRow' = [runRow EXCEPT ![r] = "started"]
          /\ \/ Goto(r, "lockRemove") /\ UNCHANGED faults
             \/ Fault /\ Goto(r, "abort")
       \/ /\ Fault
          /\ runRow' \in {runRow, [runRow EXCEPT ![r] = "failure"]}
          /\ Goto(r, "ended")
          /\ UNCHANGED <<audited, rows>>
    /\ UNCHANGED <<fileVars, lockVars, planVars, inFlight, workVars,
                   historyVars, appends, kills>>

-----------------------------------------------------------------------------
(* DirectoryLock *)

(* Mutant: mkdir does not mind a directory that is there. *)
AcquireAnyway(r) ==
    /\ pc[r] \in Waiting
    /\ lockDir' = TRUE
    /\ held' = [held EXCEPT ![r] = TRUE]
    /\ waited' = [waited EXCEPT ![r] = 0]
    /\ buf' = [buf EXCEPT ![r] = file]
    /\ inFlight' = [inFlight EXCEPT ![r] = TRUE]
    /\ \/ pc[r] = "lockRemove" /\ Goto(r, "remove")
       \/ pc[r] = "lockRestore" /\ Goto(r, "restore")
       \/ pc[r] = "lockAbort" /\ Goto(r, "abortRestore")
    /\ UNCHANGED <<file, planVars, audited, workVars, auditVars, historyVars,
                   boundVars>>

(* mkdir succeeds; _rewrite_wud_file reads the file.  (in_flight_pending is    *)
(* set between the lock and the removal.)                                     *)
Acquire(r) ==
    /\ pc[r] \in Waiting
    /\ ~lockDir
    /\ lockDir' = TRUE
    /\ held' = [held EXCEPT ![r] = TRUE]
    /\ waited' = [waited EXCEPT ![r] = 0]
    /\ buf' = [buf EXCEPT ![r] = file]
    /\ inFlight' = [inFlight EXCEPT ![r] = TRUE]
    /\ \/ pc[r] = "lockRemove" /\ Goto(r, "remove")
       \/ pc[r] = "lockRestore" /\ Goto(r, "restore")
       \/ pc[r] = "lockAbort" /\ Goto(r, "abortRestore")
    /\ UNCHANGED <<file, planVars, audited, workVars, auditVars, historyVars,
                   boundVars>>

(* Mutant: the seconds are not counted. *)
WaitUncounted(r) ==
    /\ pc[r] \in Waiting
    /\ lockDir
    /\ waited[r] < LockTimeout
    /\ UNCHANGED vars

(* mkdir fails, there is time left: sleep a second. *)
Wait(r) ==
    /\ pc[r] \in Waiting
    /\ lockDir
    /\ waited[r] < LockTimeout
    /\ waited' = [waited EXCEPT ![r] = @ + 1]
    /\ UNCHANGED <<fileVars, pc, held, buf, planVars, audited, inFlight,
                   workVars, auditVars, historyVars, boundVars>>

(* WudLockTimeout: before the removal nothing is in flight; after it, the      *)
(* abort tries to restore once more, and then tells the user.                 *)
TimeOut(r) ==
    /\ pc[r] \in Waiting
    /\ lockDir
    /\ waited[r] >= LockTimeout
    /\ waited' = [waited EXCEPT ![r] = 0]
    /\ \/ pc[r] = "lockRemove" /\ Goto(r, "abort") /\ UNCHANGED lost
       \/ pc[r] = "lockRestore" /\ Goto(r, "lockAbort") /\ UNCHANGED lost
       \/ /\ pc[r] = "lockAbort"
          /\ lost' = lost \cup PutBack(r)
          /\ Goto(r, "abort")
    /\ UNCHANGED <<fileVars, held, buf, planVars, audited, inFlight, workVars,
                   auditVars, done, dropped, boundVars>>

(* DirectoryLock.release *)
Release(r) ==
    /\ lockDir' = FALSE
    /\ held' = [held EXCEPT ![r] = FALSE]
    /\ buf' = [buf EXCEPT ![r] = <<>>]
    /\ UNCHANGED waited

(* remove_lines_before_run, in _prepare_mutation *)
TakeOut(r) ==
    /\ pc[r] = "remove"
    /\ Release(r)
    /\ \/ /\ file' = RemoveLines(audited[r], InFlightLines(r), buf[r])
          /\ dropped' = dropped \cup
                EntriesAt(r, discard[r] \ LinesOf(match[r] \cup exclusion[r]))
          /\ Goto(r, "digest")
          /\ UNCHANGED faults
       \/ Fault /\ Goto(r, AbortPc(r)) /\ UNCHANGED <<file, dropped>>
    /\ UNCHANGED <<planVars, audited, inFlight, workVars, auditVars, done, lost,
                   appends, kills>>

-----------------------------------------------------------------------------
(* The update *)

(* The matches whose entry asks for a digest *)
Requirements(r) == {p \in match[r] : parsed[r][p[1]] \in Digested}

(* _preflight_matching_stack_digests: stacks with a stale or broken digest    *)
(* have failed.                                                               *)
PreflightDigests(r) ==
    /\ pc[r] = "digest"
    /\ \E stale \in SUBSET Requirements(r), broken \in SUBSET Requirements(r) :
          /\ preStale' = [preStale EXCEPT ![r] = stale]
          /\ status' = [status EXCEPT ![r] =
                [s \in Stacks |-> IF s \in StacksOf(stale \cup broken)
                                  THEN "failure" ELSE @[s]]]
    /\ Goto(r, "exclude")
    /\ UNCHANGED <<fileVars, lockVars, planVars, audited, inFlight, excludeOk,
                   postStale, auditVars, historyVars, boundVars>>

(* _apply_tag_exclusions, for the stacks that have not failed *)
ApplyExclusions(r) ==
    /\ pc[r] = "exclude"
    /\ \E ok \in SUBSET {p \in exclusion[r] : status[r][p[2]] = "none"} :
          /\ excludeOk' = [excludeOk EXCEPT ![r] = ok]
          /\ dropped' = dropped \cup
                EntriesAt(r, LinesOf(ok) \ LinesOf(exclusion[r] \ ok))
    /\ Goto(r, "update")
    /\ UNCHANGED <<fileVars, lockVars, planVars, audited, inFlight, status,
                   preStale, postStale, auditVars, done, lost, boundVars>>

StacksToUpdate(r) == {s \in StacksOf(match[r]) : status[r][s] = "none"}

(* _update_stack: success for all of the stack's entries, or failure *)
UpdateStack(r) ==
    /\ pc[r] = "update"
    /\ StacksToUpdate(r) # {}
    /\ LET s == Min(StacksToUpdate(r))
           mine == {p \in match[r] : p[2] = s}
       IN  \/ /\ status' = [status EXCEPT ![r][s] = "success"]
              /\ done' = [e \in Entries |->
                    IF e \in EntriesAt(r, LinesOf(mine)) THEN done[e] \cup {s}
                                                         ELSE done[e]]
              /\ UNCHANGED postStale
           \/ /\ status' = [status EXCEPT ![r][s] = "failure"]
              /\ \E stale \in SUBSET (mine \cap Requirements(r)) :
                    postStale' = [postStale EXCEPT ![r] = @ \cup stale]
              /\ UNCHANGED done
    /\ UNCHANGED <<fileVars, pc, lockVars, planVars, audited, inFlight,
                   excludeOk, preStale, auditVars, dropped, lost, boundVars>>

(* _reconcile_pending_entries up to the restore; stale entries stay out. *)
Reconcile(r) ==
    /\ pc[r] = "update"
    /\ StacksToUpdate(r) = {}
    /\ dropped' = dropped \cup EntriesAt(r, Unfinished(r) \ Restorable(r))
    /\ Goto(r, IF Restorable(r) = {} THEN "reconciled" ELSE "lockRestore")
    /\ UNCHANGED <<fileVars, lockVars, planVars, audited, inFlight, workVars,
                   auditVars, done, lost, boundVars>>

(* An exception or an interrupt between the removal and the reconciliation *)
Interrupt(r) ==
    /\ pc[r] \in {"digest", "exclude", "update"}
    /\ Fault
    /\ Goto(r, AbortPc(r))
    /\ UNCHANGED <<fileVars, lockVars, planVars, audited, inFlight, workVars,
                   auditVars, historyVars, appends, kills>>

(* restore_failed_lines, in _reconcile_pending_entries *)
Restore(r) ==
    /\ pc[r] = "restore"
    /\ Release(r)
    /\ \/ /\ file' = RestoreLines(audited[r], Restorable(r), buf[r])
          /\ Goto(r, "reconciled")
          /\ UNCHANGED faults
       \/ Fault /\ Goto(r, AbortPc(r)) /\ UNCHANGED file
    /\ UNCHANGED <<planVars, audited, inFlight, workVars, auditVars,
                   historyVars, appends, kills>>

(* The rest of _reconcile_pending_entries; in_flight_pending = None *)
MarkFailed(r) ==
    /\ pc[r] = "reconciled"
    /\ LET failed == [i \in DOMAIN rows[r] |->
                         IF /\ i \in Unfinished(r) \cap LinesOf(match[r])
                            /\ rows[r][i] # "none"
                         THEN "failed" ELSE rows[r][i]]
       IN  \/ /\ rows' = [rows EXCEPT ![r] = failed]
              /\ inFlight' = [inFlight EXCEPT ![r] = FALSE]
              /\ Goto(r, "finish")
              /\ UNCHANGED faults
           \/ /\ Fault
              /\ \E some \in RowsSoFar(r, failed) : rows' = [rows EXCEPT ![r] = some]
              /\ Goto(r, AbortPc(r))
              /\ UNCHANGED inFlight
    /\ UNCHANGED <<fileVars, lockVars, planVars, audited, workVars, runRow,
                   historyVars, appends, kills>>

(* _finish_run *)
Finish(r) ==
    /\ pc[r] = "finish"
    /\ \/ /\ rows' = [rows EXCEPT ![r] = OutcomeRows(r)]
          /\ runRow' = [runRow EXCEPT ![r] =
                IF Unfinished(r) = {} /\ excluded[r] = LinesOf(exclusion[r])
                THEN "success" ELSE "failure"]
          /\ Goto(r, "report")
          /\ UNCHANGED faults
       \/ /\ Fault
          /\ \E some \in RowsSoFar(r, OutcomeRows(r)) :
                 rows' = [rows EXCEPT ![r] = some]
          /\ Goto(r, "abort")
          /\ UNCHANGED runRow
    /\ UNCHANGED <<fileVars, lockVars, planVars, audited, inFlight, workVars,
                   historyVars, appends, kills>>

(* The log after the end of the run, which may fail *)
Report(r) ==
    /\ pc[r] = "report"
    /\ \/ Goto(r, "ended") /\ UNCHANGED faults
       \/ Fault /\ Goto(r, "abort")
    /\ UNCHANGED <<fileVars, lockVars, planVars, audited, inFlight, workVars,
                   auditVars, historyVars, appends, kills>>

-----------------------------------------------------------------------------
(* _abort_run *)

(* _restore_unfinished_pending, which tells the user if it fails *)
AbortRestore(r) ==
    /\ pc[r] = "abortRestore"
    /\ Release(r)
    /\ Goto(r, "abort")
    /\ \/ /\ file' = RestoreLines(audited[r], AbortLines(r), buf[r])
          /\ UNCHANGED <<faults, lost>>
       \/ /\ Fault
          /\ lost' = lost \cup PutBack(r)
          /\ UNCHANGED file
    /\ UNCHANGED <<planVars, audited, inFlight, workVars, auditVars, done,
                   dropped, appends, kills>>

(* Mutant: whatever it was *)
FinishedAsAlways(r, outcome) ==
    [runRow EXCEPT ![r] = IF @ = "none" THEN @ ELSE outcome]

(* finish_audit_run: only a run that has not finished *)
FinishedAs(r, outcome) ==
    [runRow EXCEPT ![r] = IF @ = "started" THEN outcome ELSE @]

(* _record_finished_stacks, mark_interrupted_pending and finish_audit_run,    *)
(* each of which may fail without a word                                      *)
Abort(r) ==
    /\ pc[r] = "abort"
    /\ LET recorded == IF inFlight[r] THEN OutcomeRows(r) ELSE rows[r]
       IN  \/ /\ rows' = [rows EXCEPT ![r] = InterruptedRows(recorded)]
              /\ runRow' = FinishedAs(r, "failure")
              /\ UNCHANGED faults
           \/ /\ Fault
              /\ \E some \in RowsSoFar(r, recorded) :
                     rows' \in {[rows EXCEPT ![r] = some],
                               [rows EXCEPT ![r] = InterruptedRows(some)]}
              /\ runRow' \in {runRow, FinishedAs(r, "failure")}
    /\ inFlight' = [inFlight EXCEPT ![r] = FALSE]
    /\ Goto(r, "ended")
    /\ UNCHANGED <<fileVars, lockVars, planVars, audited, workVars, historyVars,
                   appends, kills>>

(* The run is killed: nothing is cleaned up, and path.lock may stay behind. *)
Kill(r) ==
    /\ pc[r] \notin {"start", "ended", "dead"}
    /\ kills < MaxKills
    /\ kills' = kills + 1
    /\ Goto(r, "dead")
    /\ inFlight' = [inFlight EXCEPT ![r] = FALSE]
    /\ lost' = IF inFlight[r] /\ pc[r] # "remove"
               THEN lost \cup PutBack(r) ELSE lost
    /\ UNCHANGED <<fileVars, lockVars, planVars, audited, workVars, auditVars,
                   done, dropped, appends, faults>>

-----------------------------------------------------------------------------

RunStep(r) ==
    \/ Parse(r) \/ ReturnEarly(r) \/ Prepare(r)
    \/ Acquire(r) \/ Wait(r) \/ TimeOut(r) \/ TakeOut(r)
    \/ PreflightDigests(r) \/ ApplyExclusions(r) \/ UpdateStack(r)
    \/ Reconcile(r) \/ Restore(r) \/ MarkFailed(r) \/ Finish(r) \/ Report(r)
    \/ AbortRestore(r) \/ Abort(r)

Next ==
    \/ \E e \in Appendable : AppendEntry(e)
    \/ \E r \in Runs : RunStep(r) \/ Interrupt(r) \/ Kill(r)

Spec == Init /\ [][Next]_vars

(* A run that can go on does; commands return and the wait for the lock ends. *)
Fairness == \A r \in Runs : WF_vars(RunStep(r))

FairSpec == Spec /\ Fairness

-----------------------------------------------------------------------------
(* Properties *)

(* Every entry is accounted for, whatever runs, appends and failures overlap: *)
(* it is in the file, or a living run has it in flight and will put it back,  *)
(* or all its stacks have been updated, or it was stale, excluded or removed  *)
(* on request, or its run was killed or told the user that it was not kept.   *)
NothingLost ==
    \A e \in Entries :
        \/ Count(file, e) > 0
        \/ \E r \in Runs : inFlight[r] /\ e \in PutBack(r)
        \/ Matching[e] # {} /\ Matching[e] \subseteq done[e]
        \/ e \in dropped \cup lost

(* The lock keeps rewrites apart: at most one run is between mkdir and rmdir, *)
(* and it works on the file as it is.                                         *)
OneEditor ==
    /\ \A r, q \in Runs : held[r] /\ held[q] => r = q
    /\ \A r \in Runs : pc[r] \in Rewriting => lockDir /\ buf[r] = file

(* History does not claim what did not happen: a resolved row is an entry     *)
(* whose stacks all succeeded, and a run recorded as a success left no        *)
(* unfinished entry.                                                          *)
HistoryTruthful ==
    \A r \in Runs :
        /\ \A i \in DOMAIN rows[r] :
              /\ rows[r][i] = "resolved"
              /\ i \in LinesOf(match[r] \cup exclusion[r])
              => i \notin Unfinished(r)
        /\ runRow[r] = "success" =>
              \A i \in DOMAIN rows[r] : rows[r][i] \notin {"failed", "in_progress"}

(* "A run is finished once; a later failure ... must not overwrite its        *)
(* status" (finish_audit_run).                                                *)
FinishedOnce ==
    [][\A r \in Runs : runRow[r] \in {"success", "failure"}
                           => runRow'[r] = runRow[r]]_vars

(* A removal takes lines out and adds none.  With several runs it would not  *)
(* hold: remove_lines_before_run rewrites the file from its own first read.  *)
RemovalOnlyRemoves ==
    [][\A r \in Runs : pc[r] = "remove" /\ pc'[r] = "digest" =>
           \A e \in Entries : Count(file', e) <= Count(file, e)]_vars

(* Every run comes to an end, whoever holds the lock or left it behind. *)
RunsEnd == \A r \in Runs : pc[r] # "start" ~> pc[r] \in {"ended", "dead"}
=============================================================================
