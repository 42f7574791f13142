-------------------------- MODULE StackLifecycleProofs --------------------------
(***************************************************************************)
(* Proofs about StackLifecycle.  The Compose file: the last good version is *)
(* never lost, and edits by others survive; containers do not occur in that *)
(* argument.  The services: what an update reports about them is so.        *)
(***************************************************************************)
EXTENDS StackLifecycle, CountingLemmas, TLAPS

(* The steps that go forward: what was written is synced. *)
Forward == Pcs \ {"idle", "rollback", "services", "discard"}

FileTypes ==
    /\ file \in Versions /\ durable \in Versions /\ trusted \in Versions
    /\ backup \in Versions \cup {None}
    /\ unnoted \in Versions \cup {None}
    /\ written \in Versions \cup {None}
    /\ restored \in BOOLEAN /\ verified \in BOOLEAN
    /\ runs \in 0..MaxRuns
    /\ pc \in Pcs

(* An update under way has a number, and its backup is on disk. *)
BackupOnDisk ==
    pc # "idle" => /\ runs \in 1..MaxRuns
                   /\ backup # None => <<runs, backup>> \in backups
                   /\ backup = None => written = None /\ unnoted = None

(* Between os.replace and the note of the hash, the old version is backed up.*)
InReplace ==
    unnoted # None => /\ pc \in Rewrites \cap plan
                      /\ file = unnoted
                      /\ GoodBackup

(* A version that has not passed the health gate has a backup to go back to, *)
(* unless somebody else's edit has replaced it.                              *)
WrittenBacked ==
    pc # "idle" /\ written # None /\ ~verified =>
        GoodBackup \/ (file = trusted /\ durable = trusted /\ file # written)

(* Where the backup may be deleted, it is not needed: nothing was written,   *)
(* or the restored version is on disk, or the new one has been accepted.     *)
Undone == durable = file /\ (file = backup \/ file = trusted)

BackupNotNeeded ==
    pc # "idle" =>
        /\ backup # None /\ written = None /\ unnoted = None => Undone
        /\ restored => Undone
        /\ verified /\ written # None => file = trusted /\ durable = trusted

(* When the flags may be set *)
Flags ==
    /\ restored /\ pc # "idle" => pc \in {"services", "discard"}
    /\ verified /\ pc # "idle" => pc = "discard"
    /\ result = "success" /\ pc # "idle" => pc = "discard" /\ (verified \/ written = None)

Synced ==
    pc \in Forward /\ written # None /\ unnoted = None => durable = file

(* No version that the update can put in place is older than the file as     *)
(* others edited it.                                                         *)
SameEdits ==
    /\ durable.edits = file.edits
    /\ pc # "idle" /\ backup # None =>
        /\ backup.edits <= file.edits
        /\ written # None => written.edits = backup.edits
        /\ unnoted # None => unnoted.edits = backup.edits

FileInv ==
    /\ FileTypes
    /\ GoodVersionKept
    /\ BackupOnDisk
    /\ InReplace
    /\ WrittenBacked
    /\ BackupNotNeeded
    /\ Flags
    /\ Synced
    /\ SameEdits
-----------------------------------------------------------------------------
LEMMA VersionFacts ==
    /\ \A v \in Versions : v # None /\ v.edits \in Nat
    /\ \A v \in Versions, x \in Nat \X Rewrites :
          LET w == [v EXCEPT !.rewrites = @ \cup {x}]
          IN  w \in Versions /\ w.edits = v.edits
    /\ \A v \in Versions :
          LET w == [v EXCEPT !.edits = @ + 1]
          IN  w \in Versions /\ w.edits = v.edits + 1
BY NoneAssumption DEF Versions

LEMMA InitFiles == Init => FileInv
<1>1. SUFFICES ASSUME Init PROVE FileInv
  OBVIOUS
<1>2. file \in Versions
  BY <1>1 DEF Init, Versions
<1>3. runs \in 0..MaxRuns /\ pc \in Pcs
  BY <1>1, LifecycleAssumption DEF Init, Pcs
<1>4. FileTypes
  BY <1>1, <1>2, <1>3 DEF Init, FileTypes
<1>5. QED
  BY <1>1, <1>4 DEF Init, FileInv, GoodVersionKept, BackupOnDisk, InReplace,
     WrittenBacked, BackupNotNeeded, Flags, Synced, SameEdits, Forward

(* A step that only looks at the files, or leaves them alone *)
Quiet ==
    /\ UNCHANGED <<diskVars, writeVars, runs, plan>>
    /\ unnoted = None
    /\ pc \in Forward \cup {"services"}
    /\ pc' \in Pcs \ {"idle"}
    /\ pc \notin Forward => pc' = "discard"
    /\ result' = "success" => result = "success" \/ (pc' = "discard" /\ written = None)

(* Such a step keeps the invariant. *)
LEMMA QuietKeeps == FileInv /\ Quiet => FileInv'
<1> SUFFICES ASSUME FileInv, Quiet PROVE FileInv'
  OBVIOUS
<1> USE DEF FileInv, Quiet, diskVars, writeVars, Forward
<1>1. FileTypes'
  BY DEF FileTypes
<1>2. GoodVersionKept'
  BY DEF GoodVersionKept, GoodBackup
<1>3. BackupOnDisk'
  BY DEF BackupOnDisk
<1>4. InReplace'
  BY DEF InReplace, GoodBackup
<1>5. WrittenBacked'
  BY DEF WrittenBacked, Flags, GoodBackup
<1>6. BackupNotNeeded'
  BY DEF BackupNotNeeded, Undone
<1>7. Flags'
  BY DEF Flags, FileTypes
<1>8. Synced'
  BY DEF Synced
<1>9. SameEdits'
  BY DEF SameEdits
<1>10. QED
  BY <1>1, <1>2, <1>3, <1>4, <1>5, <1>6, <1>7, <1>8, <1>9

(* Which steps are of that kind *)
QuietStep ==
    \/ \E x \in Rewrites : SkipRewrite(x) \/ RewriteFails(x)
    \/ Pull \/ FinishPull
    \/ RecreateStopped \/ Prepare \/ Up \/ VerifyStopped \/ Unpause \/ UpFailed
    \/ Restart \/ RestoreServices

LEMMA QuietSteps == FileInv /\ QuietStep => Quiet
<1> SUFFICES ASSUME FileInv, QuietStep PROVE Quiet
  OBVIOUS
<1>1. pc \notin Rewrites => unnoted = None
  BY DEF FileInv, InReplace
<1> USE DEF Quiet, Forward, Pcs, Rewrites
<1>2. ASSUME NEW x \in Rewrites, SkipRewrite(x) PROVE Quiet
  BY <1>2 DEF SkipRewrite, After, FileInv, InReplace, scopeVars
<1>3. ASSUME NEW x \in Rewrites, RewriteFails(x) PROVE Quiet
  BY <1>3 DEF RewriteFails, Fail, scopeVars
<1>4. CASE Pull
  BY <1>1, <1>4 DEF Pull, Fail, scopeVars
<1>5. CASE FinishPull
  BY <1>1, <1>5 DEF FinishPull, Fail, scopeVars, writeVars
<1>6. CASE RecreateStopped
  BY <1>1, <1>6 DEF RecreateStopped, Fail, scopeVars
<1>7. CASE Prepare
  BY <1>1, <1>7 DEF Prepare, scopeVars
<1>8. CASE Up
  BY <1>1, <1>8 DEF Up, scopeVars
<1>9. CASE VerifyStopped
  BY <1>1, <1>9 DEF VerifyStopped, scopeVars
<1>10. CASE Unpause
  BY <1>1, <1>10 DEF Unpause, UnpauseThen, Fail, scopeVars
<1>11. CASE UpFailed
  BY <1>1, <1>11 DEF UpFailed, UnpauseThen, RestartNeeded, Fail, scopeVars
<1>12. CASE Restart
  BY <1>1, <1>12 DEF Restart, Fail, scopeVars
<1>13. CASE RestoreServices
  BY <1>1, <1>13 DEF RestoreServices, scopeVars
<1>14. QED
  BY <1>2, <1>3, <1>4, <1>5, <1>6, <1>7, <1>8, <1>9, <1>10, <1>11, <1>12, <1>13
  DEF QuietStep

(* The steps that change files or the record of them, one lemma each.        *)

(* A refused update is only counted. *)
LEMMA RefuseKeeps == FileInv /\ Refuse => FileInv'
<1> SUFFICES ASSUME FileInv, Refuse PROVE FileInv'
  OBVIOUS
<1> USE DEF FileInv, Refuse, diskVars, writeVars
<1>1. runs' \in 0..MaxRuns
  BY LifecycleAssumption DEF FileTypes
<1>2. FileTypes' /\ GoodVersionKept' /\ SameEdits'
  BY <1>1 DEF FileTypes, GoodVersionKept, GoodBackup, SameEdits
<1>3. InReplace' /\ Synced'
  BY DEF InReplace, Synced, Rewrites, Forward
<1>4. BackupOnDisk' /\ WrittenBacked' /\ BackupNotNeeded' /\ Flags'
  BY DEF BackupOnDisk, WrittenBacked, BackupNotNeeded, Flags
<1>5. QED
  BY <1>2, <1>3, <1>4

(* A new update begins with an empty record. *)
LEMMA BuildStateKeeps == FileInv /\ BuildState => FileInv'
<1> SUFFICES ASSUME FileInv, BuildState PROVE FileInv'
  OBVIOUS
<1> USE DEF BuildState, diskVars, writeVars, scopeVars
<1>1. runs' \in 1..MaxRuns /\ runs' \in 0..MaxRuns
  BY LifecycleAssumption DEF FileInv, FileTypes
<1>2. pc' \in {"tag", "idle"} /\ unnoted = None
  BY DEF FileInv, InReplace, Rewrites
<1>3. pc' \in Pcs
  BY DEF Pcs, Rewrites
<1>4. FileTypes'
  BY <1>1 DEF FileInv, FileTypes, Pcs, Rewrites
<1>5. GoodVersionKept'
  BY DEF FileInv, GoodVersionKept, GoodBackup
<1>6. BackupOnDisk'
  BY <1>1, <1>2 DEF BackupOnDisk
<1>7. InReplace'
  BY <1>2 DEF InReplace
<1>8. WrittenBacked'
  BY DEF WrittenBacked
<1>9. BackupNotNeeded'
  BY DEF BackupNotNeeded
<1>10. Flags'
  BY DEF Flags
<1>11. Synced'
  BY DEF Synced
<1>12. SameEdits'
  BY DEF FileInv, SameEdits
<1>13. QED
  BY <1>4, <1>5, <1>6, <1>7, <1>8, <1>9, <1>10, <1>11, <1>12 DEF FileInv

(* The backup is synced with the directory, so the file is durable, too. *)
LEMMA EnsureBackupKeeps == \A x \in Rewrites : FileInv /\ EnsureBackup(x) => FileInv'
<1> SUFFICES ASSUME NEW x \in Rewrites, FileInv, EnsureBackup(x) PROVE FileInv'
  OBVIOUS
<1> USE DEF EnsureBackup, Fail, diskVars, writeVars, scopeVars
<1>1. pc' \in Pcs \ {"idle"} /\ written = None /\ unnoted = None
  BY DEF FileInv, BackupOnDisk, Pcs, Rewrites
<1>2. FileTypes'
  BY <1>1 DEF FileInv, FileTypes
<1>3. GoodVersionKept'
  BY DEF FileInv, GoodVersionKept, GoodBackup
<1>4. BackupOnDisk'
  BY DEF FileInv, BackupOnDisk, Rewrites
<1>5. InReplace'
  BY <1>1 DEF InReplace
<1>6. WrittenBacked'
  BY <1>1 DEF WrittenBacked
<1>7. BackupNotNeeded'
  BY DEF FileInv, BackupNotNeeded, Undone, Rewrites
<1>8. Flags'
  BY <1>1 DEF FileInv, Flags
<1>9. Synced'
  BY <1>1 DEF Synced
<1>10. SameEdits'
  BY <1>1, VersionFacts DEF FileInv, SameEdits, FileTypes
<1>11. QED
  BY <1>2, <1>3, <1>4, <1>5, <1>6, <1>7, <1>8, <1>9, <1>10 DEF FileInv

(* The version that is replaced is the backup or has one. *)
LEMMA ReplaceKeeps == \A x \in Rewrites : FileInv /\ Replace(x) => FileInv'
<1> SUFFICES ASSUME NEW x \in Rewrites, FileInv, Replace(x) PROVE FileInv'
  OBVIOUS
<1> USE DEF Replace, Expected, diskVars, writeVars, scopeVars
<1>1. <<runs, x>> \in Nat \X Rewrites
  BY DEF FileInv, FileTypes
<1>2. file' \in Versions /\ file'.edits = file.edits /\ unnoted' # None
  BY <1>1, VersionFacts DEF FileInv, FileTypes
<1>3. GoodBackup /\ GoodBackup'
  BY DEF FileInv, GoodVersionKept, BackupOnDisk, WrittenBacked, Flags, GoodBackup, Rewrites
<1>4. FileTypes'
  BY <1>2 DEF FileInv, FileTypes
<1>5. GoodVersionKept'
  BY <1>3 DEF GoodVersionKept
<1>6. BackupOnDisk'
  BY DEF FileInv, BackupOnDisk
<1>7. InReplace'
  BY <1>3 DEF InReplace
<1>8. WrittenBacked'
  BY DEF FileInv, WrittenBacked, GoodBackup
<1>9. BackupNotNeeded'
  BY <1>2 DEF FileInv, BackupNotNeeded, Flags, Rewrites
<1>10. Flags'
  BY DEF FileInv, Flags
<1>11. Synced'
  BY <1>2 DEF Synced
<1>12. SameEdits'
  BY DEF FileInv, SameEdits
<1>13. QED
  BY <1>4, <1>5, <1>6, <1>7, <1>8, <1>9, <1>10, <1>11, <1>12 DEF FileInv

(* A noted version goes forward only when it is synced. *)
LEMMA RecordWriteKeeps == \A x \in Rewrites : FileInv /\ RecordWrite(x) => FileInv'
<1> SUFFICES ASSUME NEW x \in Rewrites, FileInv, RecordWrite(x) PROVE FileInv'
  OBVIOUS
<1> USE DEF RecordWrite, diskVars, writeVars, scopeVars
<1>1. pc' \in {"unpin", "pull", "finish", "rollback"}
  BY DEF After, Rewrites
<1>2. pc \in Rewrites /\ file = unnoted /\ GoodBackup /\ GoodBackup'
  BY DEF FileInv, InReplace, GoodBackup
<1>3. FileTypes'
  BY <1>1 DEF FileInv, FileTypes, Pcs, Rewrites
<1>4. GoodVersionKept'
  BY DEF FileInv, GoodVersionKept, GoodBackup
<1>5. BackupOnDisk'
  BY DEF FileInv, BackupOnDisk, Rewrites
<1>6. InReplace'
  BY DEF InReplace
<1>7. WrittenBacked'
  BY <1>2 DEF WrittenBacked
<1>8. BackupNotNeeded'
  BY DEF FileInv, BackupNotNeeded, Flags, Rewrites
<1>9. Flags'
  BY DEF FileInv, Flags, Rewrites
<1>10. Synced'
  BY DEF Synced, Forward
<1>11. SameEdits'
  BY DEF FileInv, SameEdits, Rewrites
<1>12. QED
  BY <1>3, <1>4, <1>5, <1>6, <1>7, <1>8, <1>9, <1>10, <1>11 DEF FileInv

(* The health gate accepts the file as it is on disk. *)
LEMMA HealthKeeps == FileInv /\ Health => FileInv'
<1> SUFFICES ASSUME FileInv, Health PROVE FileInv'
  OBVIOUS
<1> USE DEF Health, diskVars, writeVars, scopeVars
<1>1. pc' \in {"rollback", "discard"} /\ unnoted = None
  BY DEF Fail, FileInv, InReplace, Rewrites
<1>2. FileTypes'
  BY <1>1 DEF FileInv, FileTypes, Pcs
<1>3. GoodVersionKept'
  BY <1>1 DEF FileInv, GoodVersionKept, GoodBackup, Synced, Forward, Pcs
<1>4. BackupOnDisk'
  BY DEF FileInv, BackupOnDisk
<1>5. InReplace'
  BY <1>1 DEF InReplace
<1>6. WrittenBacked'
  BY DEF FileInv, WrittenBacked, GoodBackup
<1>7. BackupNotNeeded'
  BY <1>1 DEF FileInv, BackupNotNeeded, Undone, Synced, Forward, Pcs
<1>8. Flags'
  BY DEF FileInv, Flags, Fail
<1>9. Synced'
  BY <1>1 DEF Synced, Forward
<1>10. SameEdits'
  BY DEF FileInv, SameEdits
<1>11. QED
  BY <1>2, <1>3, <1>4, <1>5, <1>6, <1>7, <1>8, <1>9, <1>10 DEF FileInv

(* The rollback replaces what this update wrote and nothing else. *)
LEMMA RollbackKeeps == FileInv /\ Rollback => FileInv'
<1> SUFFICES ASSUME FileInv, Rollback PROVE FileInv'
  OBVIOUS
<1> USE DEF Rollback, WrittenInPlace, diskVars, writeVars, scopeVars
<1>1. unnoted = None /\ ~verified /\ pc' \in {"services", "discard"}
  BY DEF FileInv, InReplace, Flags, Rewrites
<1>2. file = written => written # None /\ backup \in Versions /\ GoodBackup
  BY <1>1, VersionFacts DEF FileInv, FileTypes, BackupOnDisk, WrittenBacked
<1>3. FileTypes'
  BY <1>2 DEF FileInv, FileTypes, Pcs
<1>4. GoodVersionKept'
  BY <1>2 DEF FileInv, GoodVersionKept, GoodBackup
<1>5. BackupOnDisk'
  BY DEF FileInv, BackupOnDisk
<1>6. InReplace'
  BY <1>1 DEF InReplace
<1>7. WrittenBacked'
  BY DEF FileInv, WrittenBacked, GoodBackup
<1>8. BackupNotNeeded'
  BY <1>2 DEF FileInv, BackupNotNeeded, Undone, Flags
<1>9. Flags'
  BY DEF FileInv, Flags
<1>10. Synced'
  BY DEF Synced, Forward
<1>11. SameEdits'
  BY <1>2, VersionFacts DEF FileInv, SameEdits
<1>12. QED
  BY <1>3, <1>4, <1>5, <1>6, <1>7, <1>8, <1>9, <1>10, <1>11 DEF FileInv

(* Only a backup that is not needed is deleted. *)
LEMMA DiscardKeeps == FileInv /\ Discard => FileInv'
<1> SUFFICES ASSUME FileInv, Discard PROVE FileInv'
  OBVIOUS
<1> USE DEF Discard, diskVars, writeVars, scopeVars
<1>1. unnoted = None
  BY DEF FileInv, InReplace, Rewrites
<1>2. backups' # backups => backup # None /\ ~BackupNeeded
  OBVIOUS
<1>3. backups' # backups => Undone \/ (file = trusted /\ durable = trusted)
  BY <1>1 DEF FileInv, BackupNotNeeded, Flags, BackupNeeded
<1>4. FileTypes'
  BY DEF FileInv, FileTypes, Pcs
<1>5. GoodVersionKept'
  BY <1>3 DEF FileInv, GoodVersionKept, GoodBackup, Undone
<1>6. BackupOnDisk'
  BY DEF BackupOnDisk
<1>7. InReplace'
  BY <1>1 DEF InReplace
<1>8. WrittenBacked'
  BY DEF WrittenBacked
<1>9. BackupNotNeeded'
  BY DEF BackupNotNeeded
<1>10. Flags'
  BY DEF Flags
<1>11. Synced'
  BY DEF Synced, Forward
<1>12. SameEdits'
  BY DEF FileInv, SameEdits
<1>13. QED
  BY <1>4, <1>5, <1>6, <1>7, <1>8, <1>9, <1>10, <1>11, <1>12 DEF FileInv

(* A power loss brings back what was durable. *)
LEMMA KillKeeps == FileInv /\ Kill => FileInv'
<1> SUFFICES ASSUME FileInv, Kill PROVE FileInv'
  OBVIOUS
<1> USE DEF Kill, diskVars, writeVars, scopeVars
<1>1. FileTypes'
  BY DEF FileInv, FileTypes, Pcs
<1>2. GoodVersionKept'
  BY DEF FileInv, GoodVersionKept, GoodBackup
<1>3. BackupOnDisk'
  BY DEF BackupOnDisk
<1>4. InReplace'
  BY DEF InReplace
<1>5. WrittenBacked'
  BY DEF WrittenBacked
<1>6. BackupNotNeeded'
  BY DEF BackupNotNeeded
<1>7. Flags'
  BY DEF Flags
<1>8. Synced'
  BY DEF Synced
<1>9. SameEdits'
  BY DEF SameEdits
<1>10. QED
  BY <1>1, <1>2, <1>3, <1>4, <1>5, <1>6, <1>7, <1>8, <1>9 DEF FileInv

(* The edit of another writer is good by definition. *)
LEMMA EditKeeps == FileInv /\ Edit => FileInv'
<1> SUFFICES ASSUME FileInv, Edit PROVE FileInv'
  OBVIOUS
<1> USE DEF Edit, diskVars, writeVars, scopeVars
<1>1. file' \in Versions /\ file'.edits = file.edits + 1
  BY VersionFacts DEF FileInv, FileTypes
<1>2. pc # "idle" /\ written # None
        => backup # None /\ backup \in Versions /\ written \in Versions
  BY DEF FileInv, FileTypes, BackupOnDisk
<1>3. pc # "idle" /\ written # None
        => written.edits \in Nat /\ file.edits \in Nat /\ written.edits <= file.edits
  BY <1>2, VersionFacts DEF FileInv, FileTypes, SameEdits
<1>4. pc # "idle" /\ written # None => written.edits # file'.edits
  BY <1>3
<1>5. pc # "idle" /\ written # None => file' # written
  BY <1>4
<1>6. FileTypes'
  BY <1>1 DEF FileInv, FileTypes
<1>7. GoodVersionKept'
  BY DEF GoodVersionKept
<1>8. BackupOnDisk'
  BY DEF FileInv, BackupOnDisk
<1>9. InReplace'
  BY DEF InReplace
<1>10. WrittenBacked'
  BY <1>5 DEF WrittenBacked
<1>11. BackupNotNeeded'
  BY DEF BackupNotNeeded, Undone
<1>12. Flags'
  BY DEF FileInv, Flags
<1>13. Synced'
  BY DEF Synced
<1>14. SameEdits'
  BY VersionFacts DEF FileInv, SameEdits, FileTypes
<1>15. QED
  BY <1>6, <1>7, <1>8, <1>9, <1>10, <1>11, <1>12, <1>13, <1>14 DEF FileInv

(* An interrupt restores the file as the rollback does. *)
LEMMA InterruptKeeps == ~InterruptInReplace /\ FileInv /\ Interrupt => FileInv'
<1> SUFFICES ASSUME ~InterruptInReplace, FileInv, Interrupt PROVE FileInv'
  OBVIOUS
<1> USE DEF Interrupt, WrittenInPlace, diskVars, writeVars, scopeVars
<1>1. unnoted = None /\ pc # "idle"
  OBVIOUS
<1>2. pc' \in {"idle", "discard"}
  OBVIOUS
<1>3. file' # file
        => file = written /\ written # None /\ file' = backup /\ backup # None /\ ~verified
  OBVIOUS
<1>4. file' # file => GoodBackup /\ GoodBackup' /\ file' \in Versions
  BY DEF FileInv, FileTypes, WrittenBacked, GoodBackup
<1>5. FileTypes'
  BY DEF FileInv, FileTypes, Pcs
<1>6. GoodVersionKept'
  BY <1>4 DEF FileInv, GoodVersionKept, GoodBackup
<1>7. BackupOnDisk'
  BY DEF FileInv, BackupOnDisk
<1>8. InReplace'
  BY DEF InReplace
<1>9. WrittenBacked'
  BY DEF FileInv, WrittenBacked, GoodBackup
<1>10. BackupNotNeeded'
  BY DEF FileInv, BackupNotNeeded, Undone
<1>11. Flags'
  BY DEF Flags
<1>12. Synced'
  BY DEF Synced, Forward
<1>13. SameEdits'
  BY DEF FileInv, SameEdits
<1>14. QED
  BY <1>5, <1>6, <1>7, <1>8, <1>9, <1>10, <1>11, <1>12, <1>13 DEF FileInv

-----------------------------------------------------------------------------
(* Every step keeps the invariant, as long as no interrupt falls between     *)
(* os.replace and the note of the hash.                                      *)
LEMMA NextKeeps == ~InterruptInReplace /\ FileInv /\ [Next]_vars => FileInv'
<1> SUFFICES ASSUME ~InterruptInReplace, FileInv, [Next]_vars PROVE FileInv'
  OBVIOUS
<1>1. CASE QuietStep
  BY <1>1, QuietSteps, QuietKeeps
<1>2. ASSUME NEW x \in Rewrites, EnsureBackup(x) \/ Replace(x) \/ RecordWrite(x)
      PROVE  FileInv'
  BY <1>2, EnsureBackupKeeps, ReplaceKeeps, RecordWriteKeeps
<1>3. CASE Refuse \/ BuildState
  BY <1>3, RefuseKeeps, BuildStateKeeps
<1>4. CASE Health
  BY <1>4, HealthKeeps
<1>5. CASE Rollback
  BY <1>5, RollbackKeeps
<1>6. CASE Discard
  BY <1>6, DiscardKeeps
<1>7. CASE Interrupt
  BY <1>7, InterruptKeeps
<1>8. CASE Kill
  BY <1>8, KillKeeps
<1>9. CASE Edit
  BY <1>9, EditKeeps
<1>10. CASE UNCHANGED vars
  BY <1>10 DEF vars, diskVars, writeVars, scopeVars, FileInv, FileTypes,
     GoodVersionKept, GoodBackup, BackupOnDisk, InReplace, WrittenBacked,
     BackupNotNeeded, Undone, Flags, Synced, SameEdits
<1>11. QED
  BY <1>1, <1>2, <1>3, <1>4, <1>5, <1>6, <1>7, <1>8, <1>9, <1>10
     DEF Next, Step, Rewrite, QuietStep

(* The invariant holds in every state of the specification. *)
LEMMA FileInvariant == ASSUME ~InterruptInReplace PROVE Spec => []FileInv
<1>1. FileInv /\ [Next]_vars => FileInv'
  BY NextKeeps
<1>2. QED
  BY InitFiles, <1>1, PTL DEF Spec

(* The last good version of the Compose file is in place or has a backup on  *)
(* disk, for any number of updates, edits by others, interrupts and power    *)
(* losses, and whatever Docker does (_atomic_replace_compose,                *)
(* _handle_tag_update_failure, _discard_compose_backup).                     *)
THEOREM GoodVersionNeverLost == ASSUME ~InterruptInReplace PROVE Spec => []GoodVersionKept
<1>1. FileInv => GoodVersionKept
  BY DEF FileInv
<1>2. QED
  BY FileInvariant, <1>1, PTL

(* No step of an update undoes an edit by another writer: a rewrite, a       *)
(* rollback or a restore after an interrupt replaces only the version that   *)
(* the update read or wrote (expected_source_hash).                          *)
THEOREM EditsSurvive == ASSUME ~InterruptInReplace PROVE Spec => EditsKept
<1>1. ASSUME FileInv, [Next]_vars PROVE file'.edits >= file.edits
  <2>1. file.edits \in Nat
    BY <1>1, VersionFacts DEF FileInv, FileTypes
  <2>2. CASE file' = file
    BY <2>1, <2>2
  <2>3. ASSUME NEW x \in Rewrites, Replace(x) PROVE file'.edits = file.edits
    <3>1. <<runs, x>> \in Nat \X Rewrites
      BY <1>1, LifecycleAssumption DEF FileInv, FileTypes
    <3>2. QED
      BY <1>1, <2>3, <3>1, VersionFacts DEF Replace, FileInv, FileTypes
  <2>4. CASE Rollback \/ Interrupt
    <3>1. file' # file => file = written /\ written # None /\ file' = backup /\ pc # "idle"
      BY <1>1, <2>4, VersionFacts DEF Rollback, Interrupt, WrittenInPlace, FileInv, FileTypes
    <3>2. file' # file => file'.edits = file.edits
      BY <1>1, <3>1 DEF FileInv, BackupOnDisk, SameEdits
    <3>3. QED
      BY <2>1, <3>2
  <2>5. CASE Kill
    <3>1. file'.edits = file.edits
      BY <1>1, <2>5 DEF Kill, FileInv, SameEdits
    <3>2. QED
      BY <2>1, <3>1
  <2>6. CASE Edit
    <3>1. file'.edits = file.edits + 1
      BY <1>1, <2>6, VersionFacts DEF Edit, FileInv, FileTypes
    <3>2. QED
      BY <2>1, <3>1
  <2>7. CASE QuietStep
    BY <1>1, <2>2, <2>7, QuietSteps DEF Quiet, diskVars
  <2>8. CASE Refuse \/ BuildState \/ Health \/ Discard
    BY <2>2, <2>8 DEF Refuse, BuildState, Health, Discard, diskVars
  <2>9. CASE \E x \in Rewrites : EnsureBackup(x) \/ RecordWrite(x)
    BY <2>2, <2>9 DEF EnsureBackup, RecordWrite
  <2>10. CASE UNCHANGED vars
    BY <2>2, <2>10 DEF vars, diskVars
  <2>11. QED
    BY <1>1, <2>1, <2>3, <2>4, <2>5, <2>6, <2>7, <2>8, <2>9, <2>10
       DEF Next, Step, Rewrite, QuietStep
<1>2. QED
  BY FileInvariant, <1>1, PTL DEF Spec, EditsKept

-----------------------------------------------------------------------------
(* Containers: what the Docker commands make of them *)

Containers == [Services -> [state : States, image : Images]]

(* The types, one part for each group of variables *)
DiskTypes ==
    /\ file \in Versions /\ durable \in Versions /\ trusted \in Versions
    /\ backups \subseteq (1..MaxRuns) \X Versions
DockerTypes == con \in Containers /\ local \in {0, 1}
WriteTypes ==
    /\ backup \in Versions \cup {None}
    /\ unnoted \in Versions \cup {None}
    /\ written \in Versions \cup {None}
    /\ restored \in BOOLEAN /\ verified \in BOOLEAN
ScopeTypes ==
    /\ runs \in 0..MaxRuns /\ mode \in Modes /\ plan \subseteq Rewrites
    /\ before \in Images
    /\ running \subseteq Services /\ stopped \subseteq Services
    /\ startFailed \subseteq Services /\ stopSet \subseteq Services
ReportTypes ==
    /\ stopFailed \in BOOLEAN /\ told \in BOOLEAN
    /\ halted \subseteq Services
    /\ after \in [Services -> BOOLEAN] \cup {None}
StepTypes ==
    /\ pc \in Pcs
    /\ result \in {"none", "success", "failure", "interrupted", "killed"}
    /\ kills \in 0..MaxKills

Types == /\ DiskTypes /\ DockerTypes /\ WriteTypes
         /\ ScopeTypes /\ ReportTypes /\ StepTypes

LEMMA TypesOK == Types => TypeOK
BY DEF Types, DiskTypes, DockerTypes, WriteTypes, ScopeTypes, ReportTypes, StepTypes,
       Containers, TypeOK

(* Of the runs that wrote a tag there is a last one. *)
LEMMA WantedImage == ASSUME Types PROVE Wanted \in Images
<1> DEFINE tagRuns == {r \in 1..MaxRuns : <<r, "tag">> \in file.rewrites}
           last == CHOOSE r \in tagRuns : \A t \in tagRuns : t <= r
<1>1. MaxRuns \in Nat /\ local \in {0, 1}
  BY LifecycleAssumption DEF LifecycleAssumption, Types, DockerTypes
<1>2. ASSUME tagRuns # {} PROVE last \in 1..MaxRuns
  <2> DEFINE T == {MaxRuns - r : r \in tagRuns}
  <2>1. T \in SUBSET Nat /\ T # {}
    <3>1. \A r \in tagRuns : MaxRuns - r \in Nat
      BY <1>1
    <3> QED
      BY <1>2, <3>1
  <2>2. PICK x \in T : \A y \in T : x <= y
    BY <2>1, LeastMember
  <2>3. PICK r \in tagRuns : x = MaxRuns - r
    BY <2>2
  <2>4. \A t \in tagRuns : t <= r
    <3> SUFFICES ASSUME NEW t \in tagRuns PROVE t <= r
      OBVIOUS
    <3>1. MaxRuns - r <= MaxRuns - t
      BY <2>2, <2>3
    <3>2. r \in Int /\ t \in Int
      OBVIOUS
    <3> QED
      BY <1>1, <3>1, <3>2
  <2>5. last \in tagRuns
    BY <2>4
  <2> QED
    BY <2>5
<1>3. Wanted = IF tagRuns = {} THEN local ELSE 1 + last
  BY DEF Wanted
<1> HIDE DEF tagRuns, last
<1> QED
  BY <1>1, <1>2, <1>3 DEF Images

LEMMA NewIs ==
    ASSUME Types, NEW s \in Services, NEW st \in States
    PROVE  /\ New(s, st) \in [state : States, image : Images]
           /\ New(s, st).state = st
           /\ s \in Targets => New(s, st).image = Wanted
<1>1. Wanted \in Images /\ 0 \in Images
  BY WantedImage, LifecycleAssumption DEF LifecycleAssumption, Images
<1> QED
  BY <1>1 DEF New

LEMMA OutcomesAre ==
    ASSUME NEW c, NEW each, NEW d \in Outcomes(c, each)
    PROVE  /\ d = [s \in Services |-> d[s]]
           /\ \A s \in Services : d[s] \in IF s \in DOMAIN each THEN each[s] ELSE {c[s]}
BY DEF Outcomes

LEMMA MovedIs ==
    ASSUME NEW c \in Containers, NEW S, NEW From, NEW to \in States
    PROVE  /\ Moved(c, S, From, to) \in Containers
           /\ \A s \in Services :
                 /\ Moved(c, S, From, to)[s].image = c[s].image
                 /\ Moved(c, S, From, to)[s].state =
                        IF s \in S /\ c[s].state \in From THEN to ELSE c[s].state
                 /\ s \notin S => Moved(c, S, From, to)[s] = c[s]
BY DEF Moved, Containers

LEMMA MovedSomeIs ==
    ASSUME NEW c \in Containers, NEW S, NEW From, NEW to \in States,
           NEW d \in MovedSome(c, S, From, to)
    PROVE  /\ d \in Containers
           /\ \A s \in Services :
                 /\ d[s].image = c[s].image
                 /\ d[s].state \in {to, c[s].state}
                 /\ s \notin S => d[s] = c[s]
<1>1. PICK T \in SUBSET S : d = Moved(c, T, From, to)
  BY DEF MovedSome
<1> QED
  BY <1>1, MovedIs

(* up: the running services have the image that the file asks for. *)
LEMMA UpDoneIs ==
    ASSUME Types, NEW c \in Containers, NEW d \in UpDone(c)
    PROVE  /\ d \in Containers
           /\ \A s \in Services : /\ s \in running \cap Targets => d[s].image = Wanted
                                  /\ s \notin running => d[s].image = c[s].image
<1> DEFINE each == [s \in running |-> IF c[s] = New(s, "paused") THEN {}
                                      ELSE {New(s, "running"), New(s, "exited")}]
<1>1. PICK e \in Outcomes(c, each) : d \in MovedSome(e, stopped, IsDown, "running")
  BY DEF UpDone
<1>2. /\ e = [s \in Services |-> e[s]]
      /\ \A s \in Services : e[s] \in IF s \in DOMAIN each THEN each[s] ELSE {c[s]}
  BY <1>1, OutcomesAre
<1>3. ASSUME NEW s \in Services
      PROVE  IF s \in running THEN e[s] \in {New(s, "running"), New(s, "exited")}
                              ELSE e[s] = c[s]
  BY <1>2
<1> HIDE DEF each
<1>4. \A s \in Services : /\ e[s] \in [state : States, image : Images]
                          /\ s \in running \cap Targets => e[s].image = Wanted
                          /\ s \notin running => e[s].image = c[s].image
  BY <1>3, NewIs DEF States, Containers
<1>5. e \in Containers
  BY <1>2, <1>4 DEF Containers
<1> QED
  BY <1>1, <1>4, <1>5, MovedSomeIs DEF States

LEMMA UpBrokenIs ==
    ASSUME Types, NEW c \in Containers, NEW d \in UpBroken(c)
    PROVE  d \in Containers
<1> DEFINE made == {"running", "exited", "failed", "none"}
           each == [s \in running |-> {c[s]} \cup {New(s, st) : st \in made}]
<1>1. d \in Outcomes(c, each)
  BY DEF UpBroken
<1>2. /\ d = [s \in Services |-> d[s]]
      /\ \A s \in Services : d[s] \in IF s \in DOMAIN each THEN each[s] ELSE {c[s]}
  BY <1>1, OutcomesAre
<1>3. \A s \in Services : d[s] = c[s] \/ \E st \in made : d[s] = New(s, st)
  BY <1>2
<1>4. \A s \in Services : d[s] \in [state : States, image : Images]
  BY <1>3, NewIs DEF States, Containers
<1> QED
  BY <1>2, <1>4 DEF Containers

(* up --no-start: the stopped services have the image, too. *)
LEMMA NoStartDoneIs ==
    ASSUME Types, NEW c \in Containers, NEW d \in NoStartDone(c)
    PROVE  /\ d \in Containers
           /\ \A s \in Services : s \in stopped \cap Targets => d[s].image = Wanted
<1> DEFINE kept(s) == c[s].image = New(s, "created").image /\ c[s].state # "none"
           each == [s \in stopped |-> {New(s, "running"),
                                       IF kept(s) THEN c[s] ELSE New(s, "created")}]
<1>1. d \in Outcomes(c, each)
  BY DEF NoStartDone
<1>2. /\ d = [s \in Services |-> d[s]]
      /\ \A s \in Services : d[s] \in IF s \in DOMAIN each THEN each[s] ELSE {c[s]}
  BY <1>1, OutcomesAre
<1>3. \A s \in Services :
          \/ s \notin stopped /\ d[s] = c[s]
          \/ d[s] \in {New(s, "running"), New(s, "created")}
          \/ d[s] = c[s] /\ c[s].image = New(s, "created").image
  BY <1>2
<1> HIDE DEF each
<1>4. \A s \in Services : /\ d[s] \in [state : States, image : Images]
                          /\ s \in stopped \cap Targets => d[s].image = Wanted
  BY <1>3, NewIs DEF States, Containers
<1> QED
  BY <1>2, <1>4 DEF Containers

LEMMA NoStartBrokenIs ==
    ASSUME Types, NEW c \in Containers, NEW d \in NoStartBroken(c)
    PROVE  d \in Containers
<1> DEFINE each == [s \in stopped |-> {c[s], New(s, "created"), New(s, "none")}]
<1>1. d \in Outcomes(c, each)
  BY DEF NoStartBroken
<1>2. /\ d = [s \in Services |-> d[s]]
      /\ \A s \in Services : d[s] \in IF s \in DOMAIN each THEN each[s] ELSE {c[s]}
  BY <1>1, OutcomesAre
<1>3. \A s \in Services : d[s] \in {c[s], New(s, "created"), New(s, "none")}
  BY <1>2
<1>4. \A s \in Services : d[s] \in [state : States, image : Images]
  BY <1>3, NewIs DEF States, Containers
<1> QED
  BY <1>2, <1>4 DEF Containers

-----------------------------------------------------------------------------
(* Every variable keeps its type *)

(* An update under way has a number, the backup comes before the first write, *)
(* and between os.replace and the note of the hash the rewrite is in the file.*)
Order ==
    /\ pc # "idle" => runs # 0
    /\ written # None => backup # None
    /\ unnoted # None => /\ pc \in Rewrites \cap plan
                         /\ backup # None
                         /\ <<runs, pc>> \in file.rewrites

(* Which steps leave a group of variables alone *)
LEMMA QuietGroups == QuietStep => UNCHANGED <<diskVars, writeVars, scopeVars, kills>>
BY DEF QuietStep, SkipRewrite, RewriteFails, Pull, FinishPull, RecreateStopped, Prepare,
       Up, VerifyStopped, Unpause, UpFailed, Restart, RestoreServices

LEMMA NoDocker ==
    ASSUME \/ \E x \in Rewrites : Rewrite(x)
           \/ Refuse \/ BuildState \/ FinishPull \/ Health \/ Rollback \/ Discard
           \/ Interrupt \/ Kill \/ Edit \/ UNCHANGED vars
    PROVE  UNCHANGED dockerVars
BY DEF Rewrite, SkipRewrite, EnsureBackup, RewriteFails, Replace, RecordWrite, Refuse,
       BuildState, FinishPull, Health, Rollback, Discard, Interrupt, Kill, Edit, vars

LEMMA DiskStep == ASSUME Types, Order, [Next]_vars PROVE DiskTypes' /\ WriteTypes'
<1>t. DiskTypes /\ WriteTypes /\ runs \in 0..MaxRuns
  BY DEF Types, ScopeTypes
<1>1. CASE UNCHANGED <<diskVars, writeVars>>
  BY <1>t, <1>1 DEF DiskTypes, WriteTypes, diskVars, writeVars
<1>2. CASE BuildState
  BY <1>t, <1>2 DEF BuildState, DiskTypes, WriteTypes, diskVars
<1>3. ASSUME NEW x \in Rewrites, EnsureBackup(x) PROVE DiskTypes' /\ WriteTypes'
  <2>1. runs \in 1..MaxRuns
    BY <1>t, <1>3, LifecycleAssumption
       DEF LifecycleAssumption, Order, EnsureBackup, Rewrites
  <2> QED
    BY <1>t, <1>3, <2>1 DEF EnsureBackup, DiskTypes, WriteTypes
<1>4. ASSUME NEW x \in Rewrites, Replace(x) PROVE DiskTypes' /\ WriteTypes'
  <2>1. <<runs, x>> \in Nat \X Rewrites
    BY <1>t
  <2>2. file' \in Versions /\ unnoted' = file'
    BY <1>t, <1>4, <2>1, VersionFacts DEF Replace, DiskTypes
  <2> QED
    BY <1>t, <1>4, <2>2 DEF Replace, DiskTypes, WriteTypes
<1>5. ASSUME NEW x \in Rewrites, RecordWrite(x) PROVE DiskTypes' /\ WriteTypes'
  BY <1>t, <1>5 DEF RecordWrite, DiskTypes, WriteTypes
<1>6. CASE Health
  BY <1>t, <1>6 DEF Health, DiskTypes, WriteTypes
<1>7. CASE Rollback \/ Interrupt
  <2>1. file' = file \/ (file = written /\ file' = backup)
    BY <1>7 DEF Rollback, Interrupt, WrittenInPlace
  <2>2. file = written => backup \in Versions
    BY <1>t, VersionFacts DEF DiskTypes, WriteTypes, Order
  <2>3. durable' = durable \/ durable' = file'
    BY <1>7 DEF Rollback, Interrupt
  <2>4. UNCHANGED <<backups, trusted, backup, written, verified>>
    BY <1>7 DEF Rollback, Interrupt
  <2>5. restored' \in BOOLEAN /\ unnoted' \in Versions \cup {None}
    BY <1>t, <1>7 DEF Rollback, Interrupt, WriteTypes
  <2> QED
    BY <1>t, <2>1, <2>2, <2>3, <2>4, <2>5 DEF DiskTypes, WriteTypes
<1>8. CASE Discard
  BY <1>t, <1>8 DEF Discard, DiskTypes, WriteTypes, writeVars
<1>9. CASE Kill
  BY <1>t, <1>9 DEF Kill, DiskTypes, WriteTypes
<1>10. CASE Edit
  BY <1>t, <1>10, VersionFacts DEF Edit, DiskTypes, WriteTypes, writeVars
<1> QED
  BY <1>1, <1>2, <1>3, <1>4, <1>5, <1>6, <1>7, <1>8, <1>9, <1>10, QuietGroups
     DEF Next, Step, Rewrite, QuietStep, Refuse, vars

LEMMA DockerStep == ASSUME Types, [Next]_vars PROVE DockerTypes'
<1>t. con \in Containers /\ local \in {0, 1}
  BY DEF Types, DockerTypes
<1>s. {"running", "exited", "paused"} \subseteq States
  BY DEF States
<1>1. CASE UNCHANGED dockerVars
  BY <1>t, <1>1 DEF DockerTypes, dockerVars
<1>2. CASE Pull
  BY <1>t, <1>2 DEF Pull, DockerTypes
<1>3. CASE RecreateStopped
  <2>1. \/ con' \in NoStartDone(con) \/ con' \in NoStartBroken(con)
        \/ \E c \in NoStartDone(con) : con' \in MovedSome(c, stopped, IsUp, "exited")
    BY <1>3 DEF RecreateStopped
  <2>2. con' \in Containers
    BY <1>t, <1>s, <2>1, NoStartDoneIs, NoStartBrokenIs, MovedSomeIs
  <2> QED
    BY <1>t, <1>3, <2>2 DEF RecreateStopped, DockerTypes
<1>4. CASE Prepare
  <2>1. \/ con' = con
        \/ con' \in MovedSome(con, stopSet, {"running"}, "paused")
        \/ con' = Moved(con, stopSet, IsUp, "exited")
        \/ con' \in MovedSome(con, stopSet, IsUp, "exited")
    BY <1>4 DEF Prepare
  <2>2. con' \in Containers
    BY <1>t, <1>s, <2>1, MovedIs, MovedSomeIs
  <2> QED
    BY <1>t, <1>4, <2>2 DEF Prepare, DockerTypes
<1>5. CASE Up
  <2>1. con' = con \/ con' \in UpDone(con) \/ con' \in UpBroken(con)
    BY <1>5 DEF Up
  <2>2. con' \in Containers
    BY <1>t, <2>1, UpDoneIs, UpBrokenIs
  <2> QED
    BY <1>t, <1>5, <2>2 DEF Up, DockerTypes
<1>6. CASE VerifyStopped
  <2>1. con' = con \/ con' \in MovedSome(con, stopped, IsUp, "exited")
    BY <1>6 DEF VerifyStopped
  <2>2. con' \in Containers
    BY <1>t, <1>s, <2>1, MovedSomeIs
  <2> QED
    BY <1>t, <1>6, <2>2 DEF VerifyStopped, DockerTypes
<1>7. CASE Unpause \/ UpFailed
  <2>1. \/ con' = con
        \/ con' = Moved(con, running, {"paused"}, "running")
        \/ con' \in MovedSome(con, running, {"paused"}, "running")
    BY <1>7 DEF Unpause, UpFailed, UnpauseThen
  <2>2. con' \in Containers
    BY <1>t, <1>s, <2>1, MovedIs, MovedSomeIs
  <2> QED
    BY <1>t, <1>7, <2>2 DEF Unpause, UpFailed, DockerTypes
<1>8. CASE Restart
  <2>1. \/ con' = Moved(con, stopSet, IsDown, "running")
        \/ con' \in MovedSome(con, stopSet, IsDown, "running")
    BY <1>8 DEF Restart
  <2>2. con' \in Containers
    BY <1>t, <1>s, <2>1, MovedIs, MovedSomeIs
  <2> QED
    BY <1>t, <1>8, <2>2 DEF Restart, DockerTypes
<1>9. CASE RestoreServices
  <2>1. \/ \E c \in NoStartDone(con) : con' \in IF running = {} THEN {c} ELSE UpDone(c)
        \/ \E c \in NoStartDone(con) \cup NoStartBroken(con) :
           \E d \in UpDone(c) \cup UpBroken(c) :
              con' \in MovedSome(d, stopped, IsUp, "exited")
    BY <1>9 DEF RestoreServices
  <2>2. ASSUME NEW c \in NoStartDone(con),
               con' \in IF running = {} THEN {c} ELSE UpDone(c)
        PROVE  con' \in Containers
    BY <1>t, <2>2, NoStartDoneIs, UpDoneIs
  <2>3. ASSUME NEW c \in NoStartDone(con) \cup NoStartBroken(con),
               NEW d \in UpDone(c) \cup UpBroken(c),
               con' \in MovedSome(d, stopped, IsUp, "exited")
        PROVE  con' \in Containers
    <3>1. c \in Containers
      BY <1>t, NoStartDoneIs, NoStartBrokenIs
    <3>2. d \in Containers
      BY <3>1, UpDoneIs, UpBrokenIs
    <3> QED
      BY <1>s, <2>3, <3>2, MovedSomeIs
  <2>4. con' \in Containers
    BY <2>1, <2>2, <2>3
  <2> QED
    BY <1>t, <1>9, <2>4 DEF RestoreServices, DockerTypes
<1> QED
  BY <1>1, <1>2, <1>3, <1>4, <1>5, <1>6, <1>7, <1>8, <1>9, NoDocker DEF Next, Step

LEMMA ScopeStep == ASSUME Types, [Next]_vars PROVE ScopeTypes'
<1>t. ScopeTypes /\ MaxRuns \in Nat
  BY LifecycleAssumption DEF LifecycleAssumption, Types
<1>1. CASE UNCHANGED scopeVars
  BY <1>t, <1>1 DEF ScopeTypes, scopeVars
<1>2. CASE Refuse
  BY <1>t, <1>2 DEF Refuse, ScopeTypes
<1>3. CASE BuildState
  <2>1. runs' \in 0..MaxRuns /\ mode' \in Modes /\ before' \in Images
    BY <1>t, <1>3, WantedImage DEF BuildState, ScopeTypes
  <2>2. plan' \subseteq Rewrites
    BY <1>3, LifecycleAssumption DEF LifecycleAssumption, BuildState
  <2>3. startFailed' \subseteq Services /\ running' \subseteq Services
    BY <1>3, LifecycleAssumption DEF LifecycleAssumption, BuildState, StartFailedTargets
  <2>4. stopped' \subseteq Services /\ stopSet' \subseteq running'
    BY <1>3 DEF BuildState, StopSets
  <2> QED
    BY <2>1, <2>2, <2>3, <2>4 DEF ScopeTypes
<1> QED
  BY <1>1, <1>2, <1>3, QuietGroups
     DEF Next, Step, Rewrite, QuietStep, EnsureBackup, Replace, RecordWrite, Health,
         Rollback, Discard, Interrupt, Kill, Edit, vars

LEMMA ReportStep == ASSUME Types, [Next]_vars PROVE ReportTypes'
<1>t. ReportTypes /\ stopSet \subseteq Services /\ running \subseteq Services
  BY DEF Types, ScopeTypes
<1>1. stopFailed' \in BOOLEAN
  BY <1>t DEF Next, Step, Rewrite, SkipRewrite, EnsureBackup, RewriteFails, Replace,
     RecordWrite, Refuse, BuildState, Pull, FinishPull, RecreateStopped, Prepare, Up,
     VerifyStopped, Unpause, UpFailed, Restart, Health, Rollback, RestoreServices,
     Discard, Interrupt, Kill, Edit, vars, reportVars, ReportTypes
<1>2. told' \in BOOLEAN
  BY <1>t DEF Next, Step, Rewrite, SkipRewrite, EnsureBackup, RewriteFails, Replace,
     RecordWrite, Refuse, BuildState, Pull, FinishPull, RecreateStopped, Prepare, Up,
     VerifyStopped, Unpause, UpFailed, UnpauseThen, Restart, Health, Rollback,
     RestoreServices, Discard, Interrupt, Kill, Edit, vars, reportVars, ReportTypes
<1>3. halted' \subseteq Services
  BY <1>t DEF Next, Step, Rewrite, SkipRewrite, EnsureBackup, RewriteFails, Replace,
     RecordWrite, Refuse, BuildState, Pull, FinishPull, RecreateStopped, Prepare, Up,
     VerifyStopped, Unpause, UpFailed, UnpauseThen, Restart, Health, Rollback,
     RestoreServices, Discard, Interrupt, Kill, Edit, vars, reportVars, ReportTypes
<1>4. after' \in [Services -> BOOLEAN] \cup {None}
  <2>1. CASE BuildState
    BY <2>1 DEF BuildState
  <2>2. CASE Health \/ RestoreServices
    <3>1. after' \in {after, None, RuntimeRecord}
      BY <2>2 DEF Health, RestoreServices
    <3>2. RuntimeRecord \in [Services -> BOOLEAN]
      BY DEF RuntimeRecord
    <3> QED
      BY <1>t, <3>1, <3>2 DEF ReportTypes
  <2>3. CASE after' \in {after, None}
    BY <1>t, <2>3 DEF ReportTypes
  <2> QED
    BY <2>1, <2>2, <2>3 DEF Next, Step, Rewrite, SkipRewrite, EnsureBackup,
       RewriteFails, Replace, RecordWrite, Refuse, Pull, FinishPull, RecreateStopped,
       Prepare, Up, VerifyStopped, Unpause, UpFailed, Restart, Rollback, Discard,
       Interrupt, Kill, Edit, vars, reportVars
<1> QED
  BY <1>1, <1>2, <1>3, <1>4 DEF ReportTypes

LEMMA StepStep == ASSUME Types, [Next]_vars PROVE StepTypes'
<1>t. StepTypes
  BY DEF Types
<1>1. pc' \in Pcs
  BY <1>t DEF Next, Step, Rewrite, SkipRewrite, EnsureBackup, RewriteFails, Replace,
     RecordWrite, After, Refuse, BuildState, Pull, FinishPull, RecreateStopped, Prepare,
     Up, VerifyStopped, Unpause, UpFailed, UnpauseThen, Restart, Health, Rollback,
     RestoreServices, Discard, Interrupt, Kill, Edit, Fail, vars, StepTypes, Pcs, Rewrites
<1>2. result' \in {result, "none", "success", "failure", "interrupted", "killed"}
  BY DEF Next, Step, Rewrite, SkipRewrite, EnsureBackup, RewriteFails, Replace,
     RecordWrite, Refuse, BuildState, Pull, FinishPull, RecreateStopped, Prepare,
     Up, VerifyStopped, Unpause, UpFailed, UnpauseThen, Restart, Health, Rollback,
     RestoreServices, Discard, Interrupt, Kill, Edit, Fail, vars
<1>3. kills' \in 0..MaxKills
  <2>1. CASE Kill
    BY <1>t, <2>1, LifecycleAssumption DEF LifecycleAssumption, Kill, StepTypes
  <2>2. CASE UNCHANGED kills
    BY <1>t, <2>2 DEF StepTypes
  <2> QED
    BY <2>1, <2>2, QuietGroups
       DEF Next, Step, Rewrite, QuietStep, EnsureBackup, Replace, RecordWrite, Refuse,
           BuildState, Health, Rollback, Discard, Interrupt, Edit, vars
<1> QED
  BY <1>t, <1>1, <1>2, <1>3 DEF StepTypes

LEMMA OrderStep == ASSUME Types, Order, [Next]_vars PROVE Order'
<1>t. /\ runs \in 0..MaxRuns /\ MaxRuns \in Nat
      /\ file \in Versions
      /\ unnoted \in Versions \cup {None} /\ written \in Versions \cup {None}
  BY LifecycleAssumption
     DEF LifecycleAssumption, Types, DiskTypes, WriteTypes, ScopeTypes
<1>1. pc \notin Rewrites => unnoted = None
  BY DEF Order
<1>2. CASE QuietStep
  <2>1. UNCHANGED <<diskVars, writeVars, scopeVars>> /\ pc # "idle"
    BY <1>2, QuietGroups
       DEF QuietStep, SkipRewrite, RewriteFails, Pull, FinishPull, RecreateStopped,
           Prepare, Up, VerifyStopped, Unpause, UpFailed, Restart, RestoreServices,
           Rewrites
  <2>2. unnoted = None
    BY <1>1, <1>2
       DEF QuietStep, SkipRewrite, RewriteFails, Pull, FinishPull, RecreateStopped,
           Prepare, Up, VerifyStopped, Unpause, UpFailed, Restart, RestoreServices,
           Rewrites, Order
  <2> QED
    BY <2>1, <2>2 DEF Order, writeVars, scopeVars
<1>3. CASE Refuse \/ BuildState
  <2>1. runs' = runs + 1 /\ unnoted' = None
    BY <1>1, <1>3 DEF Refuse, BuildState, writeVars, Rewrites
  <2>2. written' # None => backup' # None
    BY <1>3 DEF Refuse, BuildState, writeVars, Order
  <2> QED
    BY <1>t, <2>1, <2>2 DEF Order
<1>4. ASSUME NEW x \in Rewrites, EnsureBackup(x) PROVE Order'
  BY <1>t, <1>4, VersionFacts DEF EnsureBackup, Order, scopeVars, Rewrites
<1>5. ASSUME NEW x \in Rewrites, Replace(x) PROVE Order'
  <2>1. file'.rewrites = file.rewrites \cup {<<runs, x>>}
    BY <1>t, <1>5 DEF Replace, Versions
  <2> QED
    BY <1>5, <2>1 DEF Replace, Order, scopeVars
<1>6. ASSUME NEW x \in Rewrites, RecordWrite(x) PROVE Order'
  BY <1>6 DEF RecordWrite, Order, scopeVars, Rewrites
<1>7. CASE Health \/ Rollback
  BY <1>1, <1>7 DEF Health, Rollback, Order, scopeVars, Rewrites
<1>8. CASE Discard \/ Interrupt \/ Kill
  BY <1>1, <1>8 DEF Discard, Interrupt, Kill, Order, scopeVars, writeVars, Rewrites
<1>9. CASE Edit
  BY <1>9 DEF Edit, Order, scopeVars, writeVars
<1>10. CASE UNCHANGED vars
  BY <1>10 DEF vars, Order, scopeVars, writeVars, diskVars
<1> QED
  BY <1>2, <1>3, <1>4, <1>5, <1>6, <1>7, <1>8, <1>9, <1>10
     DEF Next, Step, Rewrite, QuietStep

LEMMA InitServices == Init => Types /\ Order
<1> SUFFICES ASSUME Init PROVE Types /\ Order
  OBVIOUS
<1>1. DiskTypes
  BY DEF Init, DiskTypes, Versions
<1>2. DockerTypes
  <2>1. 0 \in Images
    BY LifecycleAssumption DEF LifecycleAssumption, Images
  <2>2. [state : States, image : {0}] \subseteq [state : States, image : Images]
    BY <2>1
  <2> QED
    BY <2>2 DEF Init, DockerTypes, Containers
<1>3. WriteTypes /\ ReportTypes
  BY DEF Init, WriteTypes, ReportTypes
<1>4. ScopeTypes
  BY LifecycleAssumption DEF LifecycleAssumption, Init, ScopeTypes, Images
<1>5. StepTypes
  BY LifecycleAssumption DEF LifecycleAssumption, Init, StepTypes, Pcs
<1>6. Order
  BY DEF Init, Order
<1> QED
  BY <1>1, <1>2, <1>3, <1>4, <1>5, <1>6 DEF Types

LEMMA TypesHold == Spec => [](Types /\ Order)
<1>1. Types /\ Order /\ [Next]_vars => (Types /\ Order)'
  BY DiskStep, DockerStep, ScopeStep, ReportStep, StepStep, OrderStep DEF Types
<1> QED
  BY <1>1, InitServices, PTL DEF Spec

(* Every variable of the update of a stack keeps its type, for any services,  *)
(* modes and plans, wherever an interrupt falls.                              *)
THEOREM LifecycleTypes == Spec => []TypeOK
BY TypesHold, TypesOK, PTL

-----------------------------------------------------------------------------
(* What an update reports about the services *)

(* The planned rewrites among X are in the file. *)
InFile(X) == \A x \in plan \cap X : <<runs, x>> \in file.rewrites

(* The update is over, or about to be, and is reported as a success. *)
Succeeds == pc \in {"discard", "idle"} /\ result = "success"

(* The steps that are reached only with all rewrites in the file *)
AllWritten == {"finish", "recreate", "prepare", "up", "verify", "unpause", "health"}

RewritesDone ==
    /\ pc = "unpin" => InFile({"tag"})
    /\ pc \in {"pull", "pin"} => InFile({"tag", "unpin"})
    /\ pc \in AllWritten \/ Succeeds => InFile(Rewrites)

(* Only the end of an update is a success, what stop mode stops was running,  *)
(* and each service of the scope is running or stopped.                       *)
ScopeInv ==
    /\ pc \notin {"idle", "discard"} => result # "success"
    /\ stopSet \subseteq running
    /\ pc # "idle" => stopped = Services \ running

(* The targets among S have the image that the file asks for. *)
HaveImage(S) == \A s \in Targets \cap S : con[s].image = Wanted

ImagesInv ==
    /\ pc \in {"prepare", "up"} => HaveImage(stopped)
    /\ pc \in {"verify", "unpause", "health"} \/ Succeeds => HaveImage(Services)

(* While the containers change there is no record of them, and a record is    *)
(* true at any time.                                                          *)
Changing == {"prepare", "up", "verify", "unpause", "upFailed", "verifyFailed",
             "restart", "health"}

RecordInv ==
    /\ pc \in Changing => after = None
    /\ after # None => \A s \in Services : after[s] <=> con[s].state = "running"
    /\ pc \in {"unpause", "health"} => AllStopped(con)

(* Services are halted between _prepare_for_recreate and up; later only those *)
(* that a failure left behind, which ends in a rollback or in a message.      *)
HaltInv ==
    /\ pc \notin {"idle", "up", "upFailed", "restart", "rollback", "services",
                  "discard"} => halted = {}
    /\ halted \subseteq running
    /\ mode = "live" => halted = {}
    /\ pc \in {"discard", "idle"} /\ result = "failure" /\ halted # {} => told

ServicesInv == RewritesDone /\ ScopeInv /\ ImagesInv /\ RecordInv /\ HaltInv

LEMMA WantedKept ==
    ASSUME UNCHANGED local, file'.rewrites = file.rewrites PROVE Wanted' = Wanted
<1> DEFINE tagRuns(R) == {r \in 1..MaxRuns : <<r, "tag">> \in R}
           want(l, R) == IF tagRuns(R) = {} THEN l
                         ELSE 1 + (CHOOSE r \in tagRuns(R) : \A t \in tagRuns(R) : t <= r)
<1>1. Wanted = want(local, file.rewrites) /\ Wanted' = want(local', file'.rewrites)
  BY DEF Wanted
<1> HIDE DEF want
<1> QED
  BY <1>1

LEMMA RewritesStep ==
    ASSUME Types, Order, ServicesInv, [Next]_vars PROVE RewritesDone'
<1>t. RewritesDone /\ ScopeInv /\ file \in Versions /\ pc \in Pcs
  BY DEF ServicesInv, Types, DiskTypes, StepTypes
<1> USE DEF RewritesDone, InFile, Succeeds, AllWritten, Rewrites
<1>1. ASSUME NEW x \in Rewrites, SkipRewrite(x) PROVE RewritesDone'
  BY <1>t, <1>1 DEF SkipRewrite, After, diskVars, scopeVars, ScopeInv
<1>2. CASE \/ \E x \in Rewrites : RewriteFails(x) \/ EnsureBackup(x)
           \/ Refuse \/ BuildState \/ Rollback \/ RestoreServices \/ Interrupt \/ Kill
  <2>1. ASSUME NEW x \in Rewrites, RewriteFails(x) \/ EnsureBackup(x)
        PROVE  RewritesDone'
    BY <1>t, <2>1 DEF RewriteFails, EnsureBackup, Fail, diskVars, scopeVars
  <2>2. CASE Refuse \/ BuildState \/ Rollback \/ RestoreServices \/ Interrupt \/ Kill
    BY <1>t, <2>2 DEF Refuse, BuildState, Rollback, RestoreServices, Interrupt, Kill,
                      ScopeInv
  <2> QED
    BY <1>2, <2>1, <2>2
<1>3. ASSUME NEW x \in Rewrites, Replace(x) PROVE RewritesDone'
  <2>1. file'.rewrites = file.rewrites \cup {<<runs, x>>}
    BY <1>t, <1>3 DEF Replace, Versions
  <2> QED
    BY <1>t, <1>3, <2>1 DEF Replace, scopeVars, ScopeInv
<1>4. ASSUME NEW x \in Rewrites, RecordWrite(x) PROVE RewritesDone'
  <2>1. <<runs, x>> \in file.rewrites
    BY <1>4 DEF RecordWrite, Order
  <2> QED
    BY <1>t, <1>4, <2>1 DEF RecordWrite, After, scopeVars, ScopeInv
<1>5. CASE \/ Pull \/ FinishPull \/ RecreateStopped \/ Prepare \/ Up \/ VerifyStopped
           \/ Unpause \/ UpFailed \/ Restart
  <2>1. UNCHANGED <<file, runs, plan>>
    BY <1>5 DEF Pull, FinishPull, RecreateStopped, Prepare, Up, VerifyStopped, Unpause,
                UpFailed, Restart, diskVars, scopeVars
  <2>2. CASE \/ Pull \/ FinishPull \/ RecreateStopped \/ Prepare \/ Up
    BY <1>t, <2>1, <2>2
       DEF Pull, FinishPull, RecreateStopped, Prepare, Up, Fail, ScopeInv
  <2>3. CASE VerifyStopped \/ Unpause \/ UpFailed \/ Restart
    BY <1>t, <2>1, <2>3
       DEF VerifyStopped, Unpause, UpFailed, UnpauseThen, Restart, Fail, ScopeInv
  <2> QED
    BY <1>5, <2>2, <2>3
<1>6. CASE Health \/ Discard
  BY <1>t, <1>6 DEF Health, Discard, Fail, scopeVars, ScopeInv
<1>7. CASE Edit
  <2>1. file'.rewrites = file.rewrites
    BY <1>t, <1>7 DEF Edit, Versions
  <2> QED
    BY <1>t, <1>7, <2>1 DEF Edit, scopeVars
<1>8. CASE UNCHANGED vars
  BY <1>t, <1>8 DEF vars, diskVars, scopeVars
<1> QED
  BY <1>1, <1>2, <1>3, <1>4, <1>5, <1>6, <1>7, <1>8 DEF Next, Step, Rewrite

LEMMA ScopeInvStep ==
    ASSUME Types, Order, ServicesInv, [Next]_vars PROVE ScopeInv'
<1>t. ScopeInv
  BY DEF ServicesInv
<1>1. pc' \notin {"idle", "discard"} => result' # "success"
  BY <1>t DEF Next, Step, Rewrite, SkipRewrite, EnsureBackup, RewriteFails, Replace,
     RecordWrite, Refuse, BuildState, Pull, FinishPull, RecreateStopped, Prepare,
     Up, VerifyStopped, Unpause, UpFailed, UnpauseThen, Restart, Health, Rollback,
     RestoreServices, Discard, Interrupt, Kill, Edit, Fail, vars, ScopeInv, Rewrites
<1>2. stopSet' \subseteq running'
  <2>1. CASE BuildState
    BY <2>1 DEF BuildState, StopSets
  <2>2. CASE UNCHANGED <<stopSet, running>>
    BY <1>t, <2>2 DEF ScopeInv
  <2> QED
    BY <2>1, <2>2, QuietGroups
       DEF Next, Step, Rewrite, QuietStep, EnsureBackup, Replace, RecordWrite, Refuse,
           Health, Rollback, Discard, Interrupt, Kill, Edit, vars, scopeVars
<1>3. pc' # "idle" => stopped' = Services \ running'
  <2>1. CASE BuildState
    BY <2>1 DEF BuildState
  <2>2. CASE Refuse \/ Discard \/ Kill
    BY <2>2 DEF Refuse, Discard, Kill
  <2>3. CASE UNCHANGED <<stopped, running>> /\ (pc = "idle" => pc' = "idle")
    BY <1>t, <2>3 DEF ScopeInv
  <2>4. CASE QuietStep
    BY <2>3, <2>4, QuietGroups
       DEF QuietStep, SkipRewrite, RewriteFails, Pull, FinishPull, RecreateStopped,
           Prepare, Up, VerifyStopped, Unpause, UpFailed, Restart, RestoreServices,
           scopeVars, Rewrites
  <2> QED
    BY <2>1, <2>2, <2>3, <2>4
       DEF Next, Step, Rewrite, QuietStep, EnsureBackup, Replace, RecordWrite,
           Health, Rollback, Interrupt, Edit, vars, scopeVars, Rewrites
<1> QED
  BY <1>1, <1>2, <1>3 DEF ScopeInv

LEMMA ImagesStep ==
    ASSUME Types, Order, ServicesInv, [Next]_vars PROVE ImagesInv'
<1>t. /\ ImagesInv /\ ScopeInv
      /\ con \in Containers /\ file \in Versions
      /\ running \subseteq Services /\ stopped \subseteq Services
      /\ Targets \subseteq Services
  BY LifecycleAssumption
     DEF LifecycleAssumption, ServicesInv, Types, DockerTypes, DiskTypes, ScopeTypes
<1>s. {"running", "exited", "paused"} \subseteq States
  BY DEF States
<1>w. UNCHANGED <<local, file>> => Wanted' = Wanted
  BY WantedKept
<1> USE DEF ImagesInv, HaveImage, Succeeds
<1>1. CASE /\ pc' \notin {"prepare", "up", "verify", "unpause", "health"}
           /\ pc' \in {"discard", "idle"} => result' # "success"
  BY <1>1
<1>2. CASE \E x \in Rewrites : Rewrite(x)
  BY <1>1, <1>2 DEF Rewrite, SkipRewrite, EnsureBackup, RewriteFails, Replace,
                    RecordWrite, After, Fail, Rewrites, ServicesInv, ScopeInv
<1>3. CASE \/ Refuse \/ BuildState \/ Pull \/ UpFailed \/ Restart \/ Rollback
           \/ RestoreServices \/ Interrupt \/ Kill
  <2>1. CASE Refuse \/ BuildState \/ Pull \/ UpFailed \/ Restart
    BY <1>1, <2>1 DEF Refuse, BuildState, Pull, UpFailed, UnpauseThen, Restart, Fail
  <2>2. CASE Rollback \/ RestoreServices \/ Interrupt \/ Kill
    BY <1>t, <1>1, <2>2 DEF Rollback, RestoreServices, Interrupt, Kill, ScopeInv
  <2> QED
    BY <1>3, <2>1, <2>2
<1>4. CASE FinishPull
  <2>1. UNCHANGED <<con, local, file>>
    BY <1>4 DEF FinishPull, dockerVars, diskVars
  <2>2. CASE pc' = "discard" /\ result' = "success" /\ ~Behind
    BY <1>t, <1>w, <2>1, <2>2 DEF Behind
  <2> QED
    BY <1>1, <1>4, <2>2 DEF FinishPull, Fail
<1>5. CASE RecreateStopped
  <2>1. CASE con' \in NoStartDone(con) /\ pc' = "prepare"
    <3>1. \A s \in Services : s \in stopped \cap Targets => con'[s].image = Wanted
      BY <1>t, <2>1, NoStartDoneIs
    <3>2. UNCHANGED <<local, file, stopped>>
      BY <1>5 DEF RecreateStopped, diskVars, scopeVars
    <3> QED
      BY <1>t, <1>w, <2>1, <3>1, <3>2
  <2> QED
    BY <1>1, <1>5, <2>1 DEF RecreateStopped, Fail
<1>6. CASE Prepare
  <2>1. \/ con' = con
        \/ con' \in MovedSome(con, stopSet, {"running"}, "paused")
        \/ con' = Moved(con, stopSet, IsUp, "exited")
        \/ con' \in MovedSome(con, stopSet, IsUp, "exited")
    BY <1>6 DEF Prepare
  <2>2. \A s \in Services : con'[s].image = con[s].image
    BY <1>t, <1>s, <2>1, MovedIs, MovedSomeIs
  <2>3. UNCHANGED <<local, file, stopped>> /\ pc = "prepare" /\ pc' = "up"
    BY <1>6 DEF Prepare, diskVars, scopeVars
  <2> QED
    BY <1>t, <1>w, <2>2, <2>3
<1>7. CASE Up
  <2>1. UNCHANGED <<local, file, stopped>> /\ pc = "up"
    BY <1>7 DEF Up, diskVars, scopeVars
  <2>2. stopped = Services \ running
    BY <1>t, <2>1 DEF ScopeInv
  <2>3. CASE con' \in UpDone(con) /\ pc' = "verify"
    <3>1. \A s \in Services : /\ s \in running \cap Targets => con'[s].image = Wanted
                              /\ s \notin running => con'[s].image = con[s].image
      BY <1>t, <2>3, UpDoneIs
    <3> QED
      BY <1>t, <1>w, <2>1, <2>2, <2>3, <3>1
  <2>4. CASE running = {} /\ UNCHANGED con /\ pc' = "verify"
    BY <1>t, <1>w, <2>1, <2>2, <2>4
  <2> QED
    BY <1>1, <1>7, <2>3, <2>4 DEF Up
<1>8. CASE VerifyStopped \/ Unpause
  <2>1. \/ con' = con
        \/ con' = Moved(con, running, {"paused"}, "running")
        \/ con' \in MovedSome(con, running, {"paused"}, "running")
        \/ con' \in MovedSome(con, stopped, IsUp, "exited")
    BY <1>8 DEF VerifyStopped, Unpause, UnpauseThen
  <2>2. \A s \in Services : con'[s].image = con[s].image
    BY <1>t, <1>s, <2>1, MovedIs, MovedSomeIs
  <2>3. /\ UNCHANGED <<local, file>> /\ pc \in {"verify", "unpause"}
        /\ \/ pc' \in {"unpause", "verifyFailed", "health"}
           \/ pc' \in {"rollback", "discard"} /\ result' = "failure"
    BY <1>8 DEF VerifyStopped, Unpause, UnpauseThen, Fail, diskVars
  <2> QED
    BY <1>t, <1>w, <2>2, <2>3
<1>9. CASE Health \/ Discard
  <2>1. /\ UNCHANGED <<con, local, file>>
        /\ \/ pc = "health" /\ pc' = "discard"
           \/ pc' = "rollback"
           \/ pc = "discard" /\ pc' = "idle" /\ result' = result
    BY <1>9 DEF Health, Discard, Fail, dockerVars
  <2> QED
    BY <1>t, <1>w, <2>1
<1>10. CASE Edit
  <2>1. file'.rewrites = file.rewrites /\ UNCHANGED <<con, local, pc, result, stopped>>
    BY <1>t, <1>10 DEF Edit, Versions, dockerVars, scopeVars
  <2> QED
    BY <1>t, <2>1, WantedKept
<1>11. CASE UNCHANGED vars
  BY <1>t, <1>w, <1>11 DEF vars, diskVars, dockerVars, scopeVars
<1> QED
  BY <1>2, <1>3, <1>4, <1>5, <1>6, <1>7, <1>8, <1>9, <1>10, <1>11 DEF Next, Step

LEMMA RecordStep ==
    ASSUME Types, Order, ServicesInv, [Next]_vars PROVE RecordInv'
<1>t. /\ RecordInv /\ ScopeInv
      /\ con \in Containers
      /\ running \subseteq Services /\ stopped \subseteq Services
  BY DEF ServicesInv, Types, DockerTypes, ScopeTypes
<1>s. {"running", "exited", "paused"} \subseteq States
  BY DEF States
<1> USE DEF RecordInv, Changing
<1>1. CASE /\ pc' \notin Changing
           /\ UNCHANGED <<con, after>>
  BY <1>t, <1>1
<1>2. CASE \/ \E x \in Rewrites : Rewrite(x)
           \/ Pull \/ FinishPull \/ Rollback \/ Discard \/ Interrupt \/ Kill
  <2>1. ASSUME NEW x \in Rewrites, Rewrite(x)
        PROVE  pc' \notin Changing /\ UNCHANGED <<con, after>>
    BY <2>1 DEF Rewrite, SkipRewrite, EnsureBackup, RewriteFails, Replace, RecordWrite,
                After, Fail, Rewrites, dockerVars, reportVars
  <2>2. CASE Pull \/ FinishPull \/ Rollback \/ Discard \/ Interrupt \/ Kill
    BY <1>1, <2>2 DEF Pull, FinishPull, Rollback, Discard, Interrupt, Kill, Fail,
                      dockerVars, reportVars
  <2> QED
    BY <1>1, <1>2, <2>1, <2>2
<1>3. CASE Refuse
  BY <1>3 DEF Refuse
<1>4. CASE BuildState
  <2>1. /\ startFailed' = StartFailedTargets
        /\ running' = {s \in Services : con[s].state = "running"} \cup startFailed'
        /\ after' = [s \in Services |-> s \in running' \ startFailed']
        /\ UNCHANGED con
        /\ pc' \in {"tag", "idle"}
    BY <1>4 DEF BuildState, dockerVars
  <2>2. \A s \in startFailed' : con[s].state # "running"
    BY <2>1 DEF StartFailedTargets
  <2>3. \A s \in Services : after'[s] <=> con[s].state = "running"
    BY <2>1, <2>2
  <2> QED
    BY <2>1, <2>3
<1>5. CASE after' = None /\ pc' \notin {"unpause", "health"}
  BY <1>5
<1>6. CASE \/ RecreateStopped \/ Prepare \/ Up \/ UpFailed \/ Restart
  <2>1. after' = None
    BY <1>t, <1>6 DEF RecreateStopped, Prepare, Up, UpFailed, Restart
  <2>2. pc' \notin {"unpause", "health"}
    BY <1>6 DEF RecreateStopped, Prepare, Up, UpFailed, UnpauseThen, Restart, Fail
  <2> QED
    BY <1>5, <2>1, <2>2
<1>7. CASE VerifyStopped
  <2>1. after' = None
    BY <1>t, <1>7 DEF VerifyStopped, reportVars
  <2>2. CASE AllStopped(con) /\ pc' = "unpause" /\ UNCHANGED con
    <3>1. AllStopped(con)'
      BY <1>7, <2>2 DEF AllStopped, VerifyStopped, scopeVars
    <3> QED
      BY <2>1, <3>1
  <2> QED
    BY <1>5, <1>7, <2>1, <2>2 DEF VerifyStopped
<1>8. CASE Unpause
  <2>1. after' = None /\ AllStopped(con) /\ stopped = Services \ running
    BY <1>t, <1>8 DEF Unpause, ScopeInv
  <2>2. \/ con' = con
        \/ con' = Moved(con, running, {"paused"}, "running")
        \/ con' \in MovedSome(con, running, {"paused"}, "running")
    BY <1>8 DEF Unpause, UnpauseThen
  <2>3. \A s \in stopped : con'[s] = con[s]
    BY <1>t, <1>s, <2>1, <2>2, MovedIs, MovedSomeIs
  <2>4. AllStopped(con)'
    BY <1>8, <2>1, <2>3 DEF AllStopped, Unpause, scopeVars
  <2> QED
    BY <2>1, <2>4
<1>9. CASE Health
  <2>1. /\ after = None /\ AllStopped(con) /\ stopped = Services \ running
        /\ UNCHANGED con /\ pc' \in {"discard", "rollback"}
    BY <1>t, <1>9 DEF Health, ScopeInv, dockerVars, Fail
  <2>2. CASE after' = RuntimeRecord /\ AllRunning(con)
    <3>1. \A s \in Services : after'[s] <=> con[s].state = "running"
      BY <1>t, <2>1, <2>2 DEF RuntimeRecord, AllRunning, AllStopped, IsUp
    <3> QED
      BY <2>1, <3>1
  <2> QED
    BY <1>5, <1>9, <2>1, <2>2 DEF Health
<1>10. CASE RestoreServices
  <2>1. pc' = "discard" /\ stopped = Services \ running
    BY <1>t, <1>10 DEF RestoreServices, ScopeInv
  <2>2. CASE /\ AllStopped(con') /\ AllRunning(con')
             /\ after' = RuntimeRecord
    <3>1. \A s \in Services : after'[s] <=> con'[s].state = "running"
      BY <1>t, <2>1, <2>2 DEF RuntimeRecord, AllRunning, AllStopped, IsUp
    <3> QED
      BY <2>1, <3>1
  <2>3. after' = None \/ (AllStopped(con') /\ AllRunning(con') /\ after' = RuntimeRecord)
    BY <1>10 DEF RestoreServices
  <2> QED
    BY <1>5, <2>1, <2>2, <2>3
<1>11. CASE Edit \/ UNCHANGED vars
  <2>1. UNCHANGED <<con, after, pc, stopped>>
    BY <1>11 DEF Edit, vars, dockerVars, reportVars, scopeVars
  <2> QED
    BY <1>t, <2>1 DEF AllStopped
<1> QED
  BY <1>2, <1>3, <1>4, <1>6, <1>7, <1>8, <1>9, <1>10, <1>11 DEF Next, Step

LEMMA HaltStep ==
    ASSUME Types, Order, ServicesInv, [Next]_vars PROVE HaltInv'
<1>t. /\ HaltInv /\ ScopeInv
      /\ con \in Containers
      /\ running \subseteq Services
      /\ told \in BOOLEAN
  BY DEF ServicesInv, Types, DockerTypes, ScopeTypes, ReportTypes
<1>s. {"running", "exited", "paused"} \subseteq States
  BY DEF States
<1> USE DEF HaltInv
<1>1. CASE halted' = {}
  BY <1>1
<1>2. CASE Refuse \/ BuildState
  BY <1>1, <1>2 DEF Refuse, BuildState
<1>3. CASE \/ \E x \in Rewrites : Rewrite(x)
           \/ Pull \/ FinishPull \/ RecreateStopped \/ VerifyStopped \/ Health
  <2>1. halted = {} /\ halted' = halted
    BY <1>t, <1>3 DEF Rewrite, SkipRewrite, EnsureBackup, RewriteFails, Replace,
       RecordWrite, Pull, FinishPull, RecreateStopped, VerifyStopped, Health,
       reportVars, Rewrites
  <2> QED
    BY <1>1, <2>1
<1>4. CASE Prepare
  <2>1. \/ con' = con
        \/ con' \in MovedSome(con, stopSet, {"running"}, "paused")
        \/ con' = Moved(con, stopSet, IsUp, "exited")
        \/ con' \in MovedSome(con, stopSet, IsUp, "exited")
    BY <1>4 DEF Prepare
  <2>2. \A s \in Services : s \notin stopSet => con'[s] = con[s]
    BY <1>t, <1>s, <2>1, MovedIs, MovedSomeIs
  <2>3. /\ halted' = {s \in Services : con'[s] # con[s]}
        /\ pc' = "up" /\ UNCHANGED <<running, mode>>
        /\ mode = "live" => con' = con
    BY <1>4 DEF Prepare, scopeVars
  <2> QED
    BY <1>t, <2>2, <2>3 DEF ScopeInv
<1>5. CASE Up
  <2>1. UNCHANGED <<running, mode>> /\ pc = "up"
    BY <1>5 DEF Up, scopeVars
  <2>2. CASE pc' = "upFailed" /\ halted' \subseteq halted
    BY <1>t, <2>1, <2>2
  <2>3. running = {} => halted = {}
    BY <1>t
  <2> QED
    BY <1>1, <1>5, <2>2, <2>3 DEF Up
<1>6. CASE Unpause
  BY <1>1, <1>t, <1>6 DEF Unpause, UnpauseThen
<1>7. CASE UpFailed
  <2>1. UNCHANGED <<running, mode>> /\ pc \in {"upFailed", "verifyFailed"}
    BY <1>7 DEF UpFailed, scopeVars
  <2>2. /\ pc' \in {"restart", "rollback", "discard"}
        /\ pc' = "discard" => written = None
        /\ halted' = {} \/ halted' = halted
    BY <1>7 DEF UpFailed, UnpauseThen, Fail
  <2>3. CASE told' = TRUE
    BY <1>1, <1>t, <2>1, <2>2, <2>3
  <2>4. ASSUME halted' # {}, halted # {}, told' # TRUE, pc' = "discard" PROVE FALSE
    <3>1. mode # "pause" /\ ~RestartNeeded
      BY <1>t, <1>7, <2>4 DEF UpFailed, UnpauseThen
    <3>2. pc = "upFailed" /\ mode # "live"
      BY <1>t, <2>1, <2>4
    <3>3. mode \in {"live", "pause", "stop"}
      BY LifecycleAssumption DEF LifecycleAssumption, Types, ScopeTypes
    <3> QED
      BY <2>2, <2>4, <3>1, <3>2, <3>3 DEF RestartNeeded
  <2> QED
    BY <1>1, <1>t, <2>1, <2>2, <2>3, <2>4
<1>8. CASE Restart
  <2>1. /\ UNCHANGED <<running, mode>> /\ pc' \in {"rollback", "discard"}
        /\ halted' = {} \/ (told' = TRUE /\ halted' \subseteq halted)
    BY <1>8 DEF Restart, Fail, scopeVars
  <2> QED
    BY <1>1, <1>t, <2>1
<1>9. CASE Rollback \/ RestoreServices
  <2>1. /\ UNCHANGED <<running, mode>>
        /\ halted' = {} \/ halted' = halted
        /\ pc' = "services" \/ (pc' = "discard" /\ (halted' = {} \/ told' = TRUE))
    BY <1>9 DEF Rollback, RestoreServices, scopeVars
  <2> QED
    BY <1>1, <1>t, <2>1
<1>10. CASE Discard
  BY <1>t, <1>10 DEF Discard, scopeVars, reportVars
<1>11. CASE Interrupt \/ Kill
  BY <1>t, <1>11 DEF Interrupt, Kill, scopeVars, reportVars
<1>12. CASE Edit \/ UNCHANGED vars
  BY <1>t, <1>12 DEF Edit, vars, scopeVars, reportVars
<1> QED
  BY <1>2, <1>3, <1>4, <1>5, <1>6, <1>7, <1>8, <1>9, <1>10, <1>11, <1>12
     DEF Next, Step

(* What an update reports about its services is so: the recorded runtime      *)
(* state is what Docker shows, a success has every planned rewrite in the     *)
(* file and every target on its image, and no service is left stopped or      *)
(* paused without a message.  It holds for any services, modes and plans, on  *)
(* every retry, with edits by others, power losses and interrupts anywhere.   *)
THEOREM ReportsAreTrue == Spec => []ServicesAsReported
<1>1. Init => ServicesInv
  BY DEF Init, ServicesInv, RewritesDone, ScopeInv, ImagesInv, RecordInv, HaltInv,
         Succeeds, AllWritten, Changing
<1>2. Types /\ Order /\ ServicesInv /\ [Next]_vars => ServicesInv'
  BY RewritesStep, ScopeInvStep, ImagesStep, RecordStep, HaltStep DEF ServicesInv
<1>3. Types /\ ServicesInv => ServicesAsReported
  <2> SUFFICES ASSUME Types, ServicesInv PROVE ServicesAsReported
    OBVIOUS
  <2>1. RuntimeRecordTrue
    BY DEF ServicesInv, RecordInv, RuntimeRecordTrue
  <2>2. SuccessMeansApplied
    <3>1. plan \subseteq Rewrites /\ Targets \subseteq Services
      BY LifecycleAssumption DEF LifecycleAssumption, Types, ScopeTypes
    <3> QED
      BY <3>1 DEF ServicesInv, RewritesDone, ImagesInv, Succeeds, InFile, HaveImage,
                  SuccessMeansApplied
  <2>3. NotLeftDown
    BY DEF ServicesInv, HaltInv, NotLeftDown
  <2> QED
    BY <2>1, <2>2, <2>3 DEF ServicesAsReported
<1> QED
  BY <1>1, <1>2, <1>3, TypesHold, PTL DEF Spec
=================================================================================
