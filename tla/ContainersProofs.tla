--------------------------- MODULE ContainersProofs ---------------------------
EXTENDS Containers, Integers, Sequences, FiniteSets, CountingLemmas, FiniteSetTheorems, TLAPS

-----------------------------------------------------------------------------
(****************************************************************************)
(* SelfUpdate                                                               *)
(****************************************************************************)

ThreadPcs == {"idle", "build", "cache", "check", "rebuild", "audit", "backup", "tag", "pull",
        "verify", "pin", "restore", "end", "remove", "image", "imaged"}
Rows == {"none", "scheduled", "failure", "tag_prepared", "image_prepared",
         "running_image_verified"}
Thread == [pc : ThreadPcs, id : 0..su_MaxPlans, plan : SU!Plan \cup {SU!Gone}, row : Rows]

ThreadTypes == su_th \in [su_Threads -> Thread]

(* The steps between the reservation of the gate and its release              *)
First == {"check", "rebuild", "audit", "backup", "image", "imaged"}
Written == {"pull", "verify", "pin"}
Reserved == First \cup {"tag", "restore", "end"} \cup Written

(* The holder of the reservation is the only thread at work, and only its     *)
(* work has a backup and a written text.                                      *)
OwnerInv ==
    /\ \A t \in su_Threads : su_th[t].pc \in Reserved => su_owner = t
    /\ su_owner = SU!Nobody => su_backup = SU!NoText /\ su_wrote = SU!NoText
    /\ \A t \in su_Threads : su_th[t].pc \in First => su_backup = SU!NoText /\ su_wrote = SU!NoText
    /\ \A t \in su_Threads : su_th[t].pc = "tag" => su_backup # SU!NoText /\ su_wrote = SU!NoText
    /\ \A t \in su_Threads : su_th[t].pc \in Written => su_wrote # SU!NoText
    /\ su_wrote # SU!NoText => su_backup # SU!NoText /\ su_wrote.edit = su_backup.edit

(* Without a written text, a new tag on the disk has been prepared, or its    *)
(* old text is kept for the user; so has one in the backup.                   *)
TagInv ==
    /\ su_file \in su_disk
    /\ su_wrote = SU!NoText /\ (\E s \in su_disk : s.tag # 0) => su_prepared \/ su_kept # {}
    /\ su_backup # SU!NoText /\ su_backup.tag # 0 => su_prepared \/ su_kept # {}

(* A plan being built has a file, and every file a plan or a builder.         *)
FileInv ==
    /\ \A t \in su_Threads : su_th[t].pc \in {"build", "cache"} => su_th[t].plan \in SU!Plan
    /\ SU!PlanFilesCollected

(* What is written has the tag of the plan and, at the end, its digest, which *)
(* did not move between the rebuilding of the plan and the pins.              *)
PinInv ==
    \A t \in su_Threads :
        /\ su_wrote # SU!NoText /\ su_th[t].pc \in Written \cup {"end"} =>
               su_file.tag = su_th[t].plan.latest /\ su_wrote.tag = su_file.tag /\ su_wrote.pin = su_file.pin
        /\ su_pinning /\ su_th[t].pc \in {"audit", "backup", "tag", "pull"} =>
               su_th[t].plan.digest <= su_digest
        /\ su_pinning /\ su_th[t].pc = "verify" =>
               su_th[t].plan.digest <= su_local.digest /\ su_local.digest <= su_digest
        /\ su_pinning /\ su_th[t].pc = "pin" => su_th[t].plan.digest = su_local.digest
        /\ su_pinning /\ su_wrote # SU!NoText /\ su_th[t].pc = "end" =>
               su_file.pin = su_th[t].plan.digest /\ su_file.pin = su_local.digest
        /\ su_th[t].pc \in {"check", "rebuild", "audit", "backup", "tag"} \cup Written => su_th[t].plan \in SU!Plan

UpdateInv == SU!TypeOK /\ ThreadTypes /\ OwnerInv /\ TagInv /\ FileInv /\ PinInv
Types == SU!TypeOK /\ ThreadTypes

-----------------------------------------------------------------------------
(* What the helpers of the actions do to the threads                          *)
LEMMA Becomes ==
  ASSUME ThreadTypes, NEW t \in su_Threads, NEW x \in Thread, su_th' = [su_th EXCEPT ![t] = x]
  PROVE  ThreadTypes' /\ su_th'[t] = x /\ \A u \in su_Threads : u # t => su_th'[u] = su_th[u]
BY DEF ThreadTypes

LEMMA Moves ==
  ASSUME ThreadTypes, NEW t \in su_Threads, NEW q \in ThreadPcs, su_th' = [su_th EXCEPT ![t].pc = q]
  PROVE  /\ ThreadTypes' /\ \A u \in su_Threads : u # t => su_th'[u] = su_th[u]
         /\ su_th'[t].pc = q /\ su_th'[t].id = su_th[t].id /\ su_th'[t].plan = su_th[t].plan
         /\ su_th'[t].row = su_th[t].row
<1>1. su_th[t] \in Thread /\ [su_th[t] EXCEPT !.pc = q] \in Thread
  BY DEF ThreadTypes, Thread
<1>2. su_th' = [su_th EXCEPT ![t] = [su_th[t] EXCEPT !.pc = q]]
  BY DEF ThreadTypes
<1>3. [su_th[t] EXCEPT !.pc = q] = [pc |-> q, id |-> su_th[t].id, plan |-> su_th[t].plan, row |-> su_th[t].row]
  BY <1>1 DEF Thread
<1>4. ThreadTypes' /\ su_th'[t] = [su_th[t] EXCEPT !.pc = q] /\ \A u \in su_Threads : u # t => su_th'[u] = su_th[u]
  BY <1>1, <1>2, Becomes
<1> QED BY <1>3, <1>4

LEMMA MovesWithRow ==
  ASSUME ThreadTypes, NEW t \in su_Threads, NEW q \in ThreadPcs, NEW r \in Rows,
         su_th' = [su_th EXCEPT ![t].pc = q, ![t].row = r]
  PROVE  /\ ThreadTypes' /\ \A u \in su_Threads : u # t => su_th'[u] = su_th[u]
         /\ su_th'[t].pc = q /\ su_th'[t].id = su_th[t].id /\ su_th'[t].plan = su_th[t].plan
         /\ su_th'[t].row = r
<1>1. su_th[t] \in Thread /\ [su_th[t] EXCEPT !.pc = q, !.row = r] \in Thread
  BY DEF ThreadTypes, Thread
<1>2. su_th' = [su_th EXCEPT ![t] = [su_th[t] EXCEPT !.pc = q, !.row = r]]
  BY DEF ThreadTypes
<1> DEFINE y == [su_th[t] EXCEPT !.pc = q, !.row = r]
<1>3. y.pc = q /\ y.id = su_th[t].id /\ y.plan = su_th[t].plan /\ y.row = r
  BY <1>1 DEF Thread
<1>4. ThreadTypes' /\ su_th'[t] = [su_th[t] EXCEPT !.pc = q, !.row = r] /\ \A u \in su_Threads : u # t => su_th'[u] = su_th[u]
  BY <1>1, <1>2, Becomes
<1> QED BY <1>3, <1>4

LEMMA MovesWithPlan ==
  ASSUME ThreadTypes, NEW t \in su_Threads, NEW q \in ThreadPcs, NEW x \in SU!Plan \cup {SU!Gone},
         su_th' = [su_th EXCEPT ![t].pc = q, ![t].plan = x]
  PROVE  /\ ThreadTypes' /\ \A u \in su_Threads : u # t => su_th'[u] = su_th[u]
         /\ su_th'[t].pc = q /\ su_th'[t].id = su_th[t].id /\ su_th'[t].plan = x
         /\ su_th'[t].row = su_th[t].row
<1>1. su_th[t] \in Thread /\ [su_th[t] EXCEPT !.pc = q, !.plan = x] \in Thread
  BY DEF ThreadTypes, Thread
<1>2. su_th' = [su_th EXCEPT ![t] = [su_th[t] EXCEPT !.pc = q, !.plan = x]]
  BY DEF ThreadTypes
<1> DEFINE y == [su_th[t] EXCEPT !.pc = q, !.plan = x]
<1>3. y.pc = q /\ y.id = su_th[t].id /\ y.plan = x /\ y.row = su_th[t].row
  BY <1>1 DEF Thread
<1>4. ThreadTypes' /\ su_th'[t] = [su_th[t] EXCEPT !.pc = q, !.plan = x] /\ \A u \in su_Threads : u # t => su_th'[u] = su_th[u]
  BY <1>1, <1>2, Becomes
<1> QED BY <1>3, <1>4

(* A thread in its first state, and one that begins                           *)
LEMMA Begins ==
  ASSUME SelfUpdateSizes
  PROVE  /\ SU!Idle \in Thread
         /\ \A q \in ThreadPcs : [SU!Idle EXCEPT !.pc = q] \in Thread
         /\ \A q \in ThreadPcs, i \in SU!PlanIds, x \in SU!Plan :
                [SU!Idle EXCEPT !.pc = q, !.id = i, !.plan = x] \in Thread
<1>1. SU!Idle \in Thread
  BY DEF SelfUpdateSizes, SU!Idle, Thread, ThreadPcs, Rows
<1>2. ASSUME NEW q \in ThreadPcs
      PROVE  [SU!Idle EXCEPT !.pc = q] \in Thread
  BY <1>1 DEF Thread
<1>3. ASSUME NEW q \in ThreadPcs, NEW i \in SU!PlanIds, NEW x \in SU!Plan
      PROVE  [SU!Idle EXCEPT !.pc = q, !.id = i, !.plan = x] \in Thread
  <2>1. i \in 0..su_MaxPlans /\ x \in SU!Plan \cup {SU!Gone}
    BY DEF SU!PlanIds, SelfUpdateSizes
  <2>2. SU!Idle \in [pc : ThreadPcs, id : 0..su_MaxPlans, plan : SU!Plan \cup {SU!Gone}, row : Rows]
    BY <1>1 DEF Thread
  <2> QED BY <2>1, <2>2 DEF Thread
<1> QED BY <1>1, <1>2, <1>3

LEMMA RebuiltIs ==
  ASSUME SU!TypeOK
  PROVE  /\ \A r \in 1..2 : SU!Rebuilt(r) \in SU!Plan
         /\ [latest |-> su_latest, base |-> su_file, digest |-> 1] \in SU!Plan
<1>1. su_file \in SU!Texts /\ [su_file EXCEPT !.edit = FALSE] \in SU!Texts
  BY DEF SU!TypeOK, SU!Texts
<1>2. su_latest \in 1..2 /\ (IF su_pinning THEN su_digest ELSE 1) \in 1..2
  BY DEF SU!TypeOK
<1> QED BY <1>1, <1>2 DEF SU!Rebuilt, SU!Plan

LEMMA Different == SU!Gone \notin SU!Plan /\ SU!NoText \notin SU!Texts
BY DEF SU!Plan, SU!Gone, SU!Texts, SU!NoText

ThreadStep(t) ==
    \/ SU!PlanStart(t) \/ SU!PlanBuild(t) \/ SU!PlanCache(t)
    \/ SU!PrepareStart(t) \/ SU!PrepareCheck(t) \/ SU!PrepareRebuild(t) \/ SU!PrepareAudit(t)
    \/ SU!TakeBackup(t) \/ SU!WriteTag(t) \/ SU!PullTag(t) \/ SU!VerifyPins(t) \/ SU!WritePins(t)
    \/ SU!Restore(t) \/ SU!End(t) \/ SU!Remove(t)
    \/ SU!ApplyStart(t) \/ SU!ApplyPull(t) \/ SU!ApplyVerify(t) \/ SU!ApplyRefused(t)

LEMMA TypesStep ==
  ASSUME SelfUpdateSizes, Types, OwnerInv, FileInv, PinInv, NEW t \in su_Threads,
         ThreadStep(t)
  PROVE  ThreadTypes' /\ \A u \in su_Threads : u # t => su_th'[u] = su_th[u]
<1>0. SU!TypeOK /\ ThreadTypes /\ su_th[t] \in Thread
  BY DEF Types, ThreadTypes
<1>1. CASE SU!PlanStart(t)
  BY <1>1, <1>0, Becomes, Begins, RebuiltIs DEF SU!PlanStart, ThreadPcs
<1>2. CASE SU!PlanBuild(t)
  <2>1. CASE su_th' = [su_th EXCEPT ![t].pc = "cache", ![t].plan = SU!Rebuilt(@.latest)]
    <3>1. su_th[t].plan \in SU!Plan
      BY <1>2 DEF SU!PlanBuild, FileInv
    <3>2. SU!Rebuilt(su_th[t].plan.latest) \in SU!Plan
      BY <3>1, <1>0, RebuiltIs DEF SU!Plan
    <3>3. su_th' = [su_th EXCEPT ![t].pc = "cache", ![t].plan = SU!Rebuilt(su_th[t].plan.latest)]
      BY <2>1, <1>0 DEF ThreadTypes
    <3> QED BY <3>2, <3>3, <1>0, MovesWithPlan DEF ThreadPcs
  <2>2. CASE SU!PlanFailure(t)
    BY <2>2, <1>0, Becomes, Begins DEF SU!PlanFailure
  <2> QED BY <1>2, <2>1, <2>2 DEF SU!PlanBuild
<1>3. CASE SU!PlanCache(t)
  BY <1>3, <1>0, Becomes, Begins DEF SU!PlanCache, ThreadPcs
<1>4. CASE SU!PrepareStart(t)
  <2>1. PICK i \in SU!PlanIds :
            /\ su_plans[i] # SU!Gone
            /\ su_th' = [su_th EXCEPT ![t] = [SU!Idle EXCEPT !.pc = "check", !.id = i, !.plan = su_plans[i]]]
    BY <1>4 DEF SU!PrepareStart
  <2>2. su_plans[i] \in SU!Plan /\ "check" \in ThreadPcs
    BY <2>1, <1>0 DEF SU!TypeOK, ThreadPcs
  <2>3. [SU!Idle EXCEPT !.pc = "check", !.id = i, !.plan = su_plans[i]] \in Thread
    BY <2>2, Begins
  <2> QED BY <2>1, <2>3, <1>0, Becomes
<1>5. CASE SU!PrepareCheck(t)
  BY <1>5, <1>0, Moves, MovesWithRow DEF SU!PrepareCheck, SU!Go, ThreadPcs, Rows
<1>6. CASE SU!PrepareRebuild(t)
  BY <1>6, <1>0, Moves, MovesWithRow DEF SU!PrepareRebuild, SU!Go, ThreadPcs, Rows
<1>7. CASE SU!PrepareAudit(t)
  BY <1>7, <1>0, Moves, MovesWithRow DEF SU!PrepareAudit, SU!Go, ThreadPcs, Rows
<1>8. CASE SU!TakeBackup(t)
  BY <1>8, <1>0, Moves, MovesWithRow DEF SU!TakeBackup, SU!Go, ThreadPcs, Rows
<1>9. CASE SU!WriteTag(t)
  BY <1>9, <1>0, Moves, MovesWithRow DEF SU!WriteTag, SU!Write, SU!Go, ThreadPcs, Rows
<1>10. CASE SU!PullTag(t)
  BY <1>10, <1>0, Moves, MovesWithRow DEF SU!PullTag, SU!Go, ThreadPcs, Rows
<1>11. CASE SU!VerifyPins(t)
  BY <1>11, <1>0, Moves, MovesWithRow DEF SU!VerifyPins, SU!Go, ThreadPcs, Rows
<1>12. CASE SU!WritePins(t)
  BY <1>12, <1>0, Moves, MovesWithRow DEF SU!WritePins, SU!Write, SU!Go, ThreadPcs, Rows
<1>13. CASE SU!Restore(t)
  BY <1>13, <1>0, Moves, MovesWithRow DEF SU!Restore, SU!Go, ThreadPcs, Rows
<1>14. CASE SU!End(t)
  <2>1. CASE su_th' = [su_th EXCEPT ![t].pc = "remove", ![t].row =
                              IF su_wrote # SU!NoText THEN "tag_prepared"
                              ELSE IF @ = "scheduled" THEN "failure" ELSE @]
    <3> DEFINE r == IF su_wrote # SU!NoText THEN "tag_prepared"
                    ELSE IF su_th[t].row = "scheduled" THEN "failure" ELSE su_th[t].row
    <3>1. r \in Rows
      BY <1>0 DEF Thread, Rows
    <3>2. su_th' = [su_th EXCEPT ![t].pc = "remove", ![t].row = r]
      BY <2>1, <1>0 DEF ThreadTypes
    <3> HIDE DEF r
    <3> QED BY <3>1, <3>2, <1>0, MovesWithRow DEF ThreadPcs
  <2>2. CASE SU!Go(t, "remove")
    BY <2>2, <1>0, Moves DEF SU!Go, ThreadPcs
  <2> QED BY <1>14, <2>1, <2>2 DEF SU!End
<1>15. CASE SU!Remove(t)
  BY <1>15, <1>0, Becomes, Begins DEF SU!Remove, ThreadPcs
<1>16. CASE SU!ApplyStart(t)
  BY <1>16, <1>0, Becomes, Begins DEF SU!ApplyStart, ThreadPcs
<1>17. CASE SU!ApplyPull(t)
  BY <1>17, <1>0, Moves, MovesWithRow DEF SU!ApplyPull, SU!Go, ThreadPcs, Rows
<1>18. CASE SU!ApplyVerify(t)
  <2>1. CASE su_th' = [su_th EXCEPT ![t].pc = "idle",
                                    ![t].row = IF SU!Verified THEN "running_image_verified"
                                               ELSE "image_prepared"]
    <3> DEFINE r == IF SU!Verified THEN "running_image_verified" ELSE "image_prepared"
    <3>1. r \in Rows /\ "idle" \in ThreadPcs
      BY DEF Rows, ThreadPcs
    <3>2. su_th' = [su_th EXCEPT ![t].pc = "idle", ![t].row = r]
      BY <2>1
    <3> HIDE DEF r
    <3> QED BY <3>1, <3>2, <1>0, MovesWithRow
  <2>2. CASE SU!Go(t, "idle")
    BY <2>2, <1>0, Moves DEF SU!Go, ThreadPcs
  <2> QED BY <1>18, <2>1, <2>2 DEF SU!ApplyVerify
<1>19. CASE SU!ApplyRefused(t)
  BY <1>19, <1>0, Becomes, Begins DEF SU!ApplyRefused, ThreadPcs
<1> QED
  BY <1>1, <1>2, <1>3, <1>4, <1>5, <1>6, <1>7, <1>8, <1>9, <1>10, <1>11, <1>12, <1>13, <1>14, <1>15,
     <1>16, <1>17, <1>18, <1>19 DEF ThreadStep

LEMMA TypesKept ==
  ASSUME SelfUpdateSizes, Types, OwnerInv, FileInv, PinInv, [SU!Next]_(SU!vars)
  PROVE  ThreadTypes'
<1>1. CASE UNCHANGED SU!vars
  BY <1>1 DEF SU!vars, Types, ThreadTypes
<1>2. CASE SU!Outside
  BY <1>2 DEF SU!Outside, Types, ThreadTypes
<1>3. ASSUME NEW t \in su_Threads, ThreadStep(t)
      PROVE  ThreadTypes'
  BY <1>3, TypesStep
<1> QED BY <1>1, <1>2, <1>3 DEF SU!Next, ThreadStep

(* The texts that are written: the backup with the tag of the plan, then with *)
(* its digest                                                                 *)
LEMMA Tagged ==
  ASSUME NEW s \in SU!Texts, NEW r \in 1..2
  PROVE  /\ [s EXCEPT !.tag = r] \in SU!Texts /\ [s EXCEPT !.tag = r] # SU!NoText
         /\ [s EXCEPT !.tag = r].tag = r /\ [s EXCEPT !.tag = r].edit = s.edit
BY DEF SU!Texts, SU!NoText

LEMMA Pinned ==
  ASSUME NEW s \in SU!Texts, NEW r \in 1..2
  PROVE  /\ [s EXCEPT !.pin = r] \in SU!Texts /\ [s EXCEPT !.pin = r] # SU!NoText
         /\ [s EXCEPT !.pin = r].tag = s.tag /\ [s EXCEPT !.pin = r].edit = s.edit
         /\ [s EXCEPT !.pin = r].pin = r
BY DEF SU!Texts, SU!NoText

LEMMA TagWritten ==
  ASSUME Types, OwnerInv, PinInv, NEW t \in su_Threads, SU!WriteTag(t)
  PROVE  /\ su_backup \in SU!Texts /\ su_th[t].plan \in SU!Plan
         /\ \E new \in SU!Texts :
                /\ new.tag = su_th[t].plan.latest /\ new.edit = su_backup.edit /\ new # SU!NoText
                /\ SU!Write(t, su_backup, new, "pull")
<1>1. su_backup \in SU!Texts
  BY DEF Types, SU!TypeOK, OwnerInv, SU!WriteTag
<1>2. su_th[t].plan \in SU!Plan /\ su_th[t].plan.latest \in 1..2
  BY DEF PinInv, SU!WriteTag, SU!Plan
<1>3. SU!Write(t, su_backup, [su_backup EXCEPT !.tag = su_th[t].plan.latest], "pull")
  BY DEF SU!WriteTag
<1> QED BY <1>1, <1>2, <1>3, Tagged

LEMMA PinsWritten ==
  ASSUME Types, OwnerInv, PinInv, NEW t \in su_Threads, SU!WritePins(t)
  PROVE  /\ su_wrote \in SU!Texts /\ su_th[t].plan \in SU!Plan
         /\ \E new \in SU!Texts :
                /\ new.tag = su_wrote.tag /\ new.pin = su_th[t].plan.digest
                /\ new.edit = su_wrote.edit /\ new # SU!NoText
                /\ SU!Write(t, su_wrote, new, "end")
<1>1. su_wrote \in SU!Texts
  BY DEF Types, SU!TypeOK, OwnerInv, SU!WritePins, Written
<1>2. su_th[t].plan \in SU!Plan /\ su_th[t].plan.digest \in 1..2
  BY DEF PinInv, SU!WritePins, SU!Plan, Written
<1>3. SU!Write(t, su_wrote, [su_wrote EXCEPT !.pin = su_th[t].plan.digest], "end")
  BY DEF SU!WritePins
<1> QED BY <1>1, <1>2, <1>3, Pinned

LEMMA WriteTyped ==
  ASSUME SU!TypeOK, NEW t \in su_Threads, NEW old \in SU!Texts, NEW new \in SU!Texts, NEW next \in ThreadPcs,
         SU!Write(t, old, new, next)
  PROVE  su_file' \in SU!Texts /\ su_disk' \subseteq SU!Texts /\ su_wrote' \in SU!Texts \cup {SU!NoText}
BY DEF SU!Write, SU!Replace, SU!TypeOK

LEMMA WriteMoves ==
  ASSUME ThreadTypes, NEW t \in su_Threads, NEW old, NEW new, NEW next \in ThreadPcs,
         SU!Write(t, old, new, next)
  PROVE  /\ su_th'[t].pc \in {next, "restore"} /\ (\A u \in su_Threads : u # t => su_th'[u] = su_th[u])
         /\ su_th'[t].id = su_th[t].id /\ su_th'[t].plan = su_th[t].plan
         /\ \/ su_file = old /\ su_file' = new /\ su_wrote' = new
            \/ UNCHANGED <<su_file, su_disk, su_wrote>> /\ su_th'[t].pc = "restore"
<1>0. "restore" \in ThreadPcs
  BY DEF ThreadPcs
<1>1. CASE UNCHANGED <<su_file, su_disk, su_wrote>> /\ SU!Go(t, "restore")
  BY <1>0, <1>1, Moves DEF SU!Go
<1>2. ASSUME NEW synced \in BOOLEAN, SU!Replace(old, new, synced), su_wrote' = new,
             SU!Go(t, IF synced THEN next ELSE "restore")
      PROVE  /\ su_th'[t].pc \in {next, "restore"} /\ (\A u \in su_Threads : u # t => su_th'[u] = su_th[u])
             /\ su_th'[t].id = su_th[t].id /\ su_th'[t].plan = su_th[t].plan
             /\ su_file = old /\ su_file' = new /\ su_wrote' = new
  <2> DEFINE q == IF synced THEN next ELSE "restore"
  <2>1. q \in ThreadPcs /\ q \in {next, "restore"}
    BY <1>0
  <2>2. su_th' = [su_th EXCEPT ![t].pc = q]
    BY <1>2 DEF SU!Go
  <2> HIDE DEF q
  <2> QED
    BY <1>2, <2>1, <2>2, Moves DEF SU!Replace
<1> QED
  BY <1>1, <1>2 DEF SU!Write


LEMMA TypeOKStep ==
  ASSUME SelfUpdateSizes, Types, ThreadTypes', OwnerInv, FileInv, PinInv, [SU!Next]_(SU!vars)
  PROVE  SU!TypeOK'
<1>0. /\ SU!Gone \notin SU!Plan /\ SU!NoText \notin SU!Texts /\ SU!TypeOK /\ ThreadTypes'
      /\ su_MaxPlans \in Nat /\ su_MaxOutside \in Nat /\ SU!Nobody \notin su_Threads
      /\ \A t \in su_Threads : su_th'[t] \in Thread
  BY DEF SelfUpdateSizes, SU!Plan, SU!Gone, SU!Texts, SU!NoText, ThreadTypes, Types
<1>1. CASE UNCHANGED SU!vars
  BY <1>1, <1>0 DEF SU!TypeOK, Types, Thread, ThreadPcs, Rows, SU!Texts, SU!Plan, SU!PlanIds,
     SU!vars, SU!world, SU!cache, SU!text
<1>2. CASE SU!Outside
  <2>1. [su_file EXCEPT !.edit = TRUE] \in SU!Texts
    BY <1>0 DEF SU!TypeOK, SU!Texts
  <2>2. su_file' \in SU!Texts /\ su_disk' \subseteq SU!Texts
    BY <2>1, <1>2, <1>0 DEF SU!Outside, SU!TypeOK, SU!text
  <2>3. su_latest' \in 1..2 /\ su_digest' \in 1..2 /\ su_running' \in 0..2 /\ su_aged' \subseteq SU!PlanIds
    BY <1>2, <1>0 DEF SU!Outside, SU!TypeOK, SU!world, SU!cache
  <2>4. su_outside' \in 0..su_MaxOutside
    BY <1>2, <1>0 DEF SU!Outside, SU!TypeOK
  <2>5. UNCHANGED <<su_floating, su_pinning, su_local, su_prepared, su_owner, su_th, su_backup, su_wrote, su_kept, su_plans, su_planFiles>>
    BY <1>2 DEF SU!Outside, SU!world, SU!cache, SU!text
  <2> QED
    BY <2>2, <2>3, <2>4, <2>5, <1>0 DEF SU!TypeOK, Thread, ThreadPcs, Rows
<1>3. ASSUME NEW t \in su_Threads, SU!PlanStart(t)
      PROVE  SU!TypeOK'
  BY <1>3, <1>0 DEF SU!TypeOK, Types, Thread, ThreadPcs, Rows, SU!Texts, SU!Plan, SU!PlanIds,
     SU!PlanStart, SU!Idle, SU!world, SU!cache, SU!text
<1>4. ASSUME NEW t \in su_Threads, SU!PlanBuild(t)
      PROVE  SU!TypeOK'
  BY <1>4, <1>0 DEF SU!TypeOK, Types, Thread, ThreadPcs, Rows, SU!Texts, SU!Plan, SU!PlanIds,
     SU!PlanBuild, SU!PlanFailure, SU!Rebuilt, SU!world, SU!cache, SU!text
<1>5. ASSUME NEW t \in su_Threads, SU!PlanCache(t)
      PROVE  SU!TypeOK'
  BY <1>5, <1>0 DEF SU!TypeOK, Types, Thread, ThreadPcs, Rows, SU!Texts, SU!Plan, SU!PlanIds,
     SU!PlanCache, SU!Prune, SU!Idle, SU!world, SU!cache, SU!text
<1>6. ASSUME NEW t \in su_Threads, SU!PrepareStart(t)
      PROVE  SU!TypeOK'
  BY <1>6, <1>0 DEF SU!TypeOK, Types, Thread, ThreadPcs, Rows, SU!Texts, SU!Plan, SU!PlanIds,
     SU!PrepareStart, SU!Idle, SU!world, SU!cache, SU!text
<1>7. ASSUME NEW t \in su_Threads, SU!PrepareCheck(t)
      PROVE  SU!TypeOK'
  BY <1>7, <1>0 DEF SU!TypeOK, Types, Thread, ThreadPcs, Rows, SU!Texts, SU!Plan, SU!PlanIds,
     SU!PrepareCheck, SU!Prune, SU!Go, SU!Confirmed, SU!CanUpdate, SU!world, SU!cache, SU!text
<1>8. ASSUME NEW t \in su_Threads, SU!PrepareRebuild(t)
      PROVE  SU!TypeOK'
  BY <1>8, <1>0 DEF SU!TypeOK, Types, Thread, ThreadPcs, Rows, SU!Texts, SU!Plan, SU!PlanIds,
     SU!PrepareRebuild, SU!SamePlan, SU!Rebuilt, SU!Go, SU!world, SU!cache, SU!text
<1>9. ASSUME NEW t \in su_Threads, SU!PrepareAudit(t)
      PROVE  SU!TypeOK'
  BY <1>9, <1>0 DEF SU!TypeOK, Types, Thread, ThreadPcs, Rows, SU!Texts, SU!Plan, SU!PlanIds,
     SU!PrepareAudit, SU!Go, SU!world, SU!cache, SU!text
<1>10. ASSUME NEW t \in su_Threads, SU!TakeBackup(t)
      PROVE  SU!TypeOK'
  BY <1>10, <1>0 DEF SU!TypeOK, Types, Thread, ThreadPcs, Rows, SU!Texts, SU!Plan, SU!PlanIds,
     SU!TakeBackup, SU!Go, SU!world, SU!cache, SU!text
<1>11. ASSUME NEW t \in su_Threads, SU!WriteTag(t)
      PROVE  SU!TypeOK'
  <2>1. su_file' \in SU!Texts /\ su_disk' \subseteq SU!Texts /\ su_wrote' \in SU!Texts \cup {SU!NoText}
    BY <1>11, <1>0, TagWritten, WriteTyped DEF Types, ThreadPcs
  <2> QED
    BY <2>1, <1>11, <1>0 DEF SU!WriteTag, SU!TypeOK, Types, Thread, ThreadPcs, Rows, SU!Plan,
       SU!PlanIds, SU!world, SU!cache, SU!text
<1>12. ASSUME NEW t \in su_Threads, SU!PullTag(t)
      PROVE  SU!TypeOK'
  BY <1>12, <1>0 DEF SU!TypeOK, Types, Thread, ThreadPcs, Rows, SU!Texts, SU!Plan, SU!PlanIds,
     SU!PullTag, SU!Go, SU!world, SU!cache, SU!text
<1>13. ASSUME NEW t \in su_Threads, SU!VerifyPins(t)
      PROVE  SU!TypeOK'
  BY <1>13, <1>0 DEF SU!TypeOK, Types, Thread, ThreadPcs, Rows, SU!Texts, SU!Plan, SU!PlanIds,
     SU!VerifyPins, SU!PinTargetStays, SU!Go, SU!world, SU!cache, SU!text
<1>14. ASSUME NEW t \in su_Threads, SU!WritePins(t)
      PROVE  SU!TypeOK'
  <2>1. su_file' \in SU!Texts /\ su_disk' \subseteq SU!Texts /\ su_wrote' \in SU!Texts \cup {SU!NoText}
    BY <1>14, <1>0, PinsWritten, WriteTyped DEF Types, ThreadPcs
  <2> QED
    BY <2>1, <1>14, <1>0 DEF SU!WritePins, SU!TypeOK, Types, Thread, ThreadPcs, Rows, SU!Plan,
       SU!PlanIds, SU!world, SU!cache, SU!text
<1>15. ASSUME NEW t \in su_Threads, SU!Restore(t)
      PROVE  SU!TypeOK'
  <2>1. su_file' \in SU!Texts /\ su_disk' \subseteq SU!Texts /\ su_kept' \subseteq SU!Texts
    BY <1>15, <1>0 DEF SU!Restore, SU!Replace, SU!KeepBackup, SU!TypeOK, OwnerInv
  <2> QED
    BY <2>1, <1>15, <1>0 DEF SU!Restore, SU!TypeOK, Types, Thread, ThreadPcs, Rows, SU!Plan,
       SU!PlanIds, SU!world, SU!cache, SU!text
<1>16. ASSUME NEW t \in su_Threads, SU!End(t)
      PROVE  SU!TypeOK'
  BY <1>16, <1>0 DEF SU!TypeOK, Types, Thread, ThreadPcs, Rows, SU!Texts, SU!Plan, SU!PlanIds,
     SU!End, SU!Go, SU!world, SU!cache, SU!text
<1>17. ASSUME NEW t \in su_Threads, SU!Remove(t)
      PROVE  SU!TypeOK'
  BY <1>17, <1>0 DEF SU!TypeOK, Types, Thread, ThreadPcs, Rows, SU!Texts, SU!Plan, SU!PlanIds,
     SU!Remove, SU!Idle, SU!world, SU!cache, SU!text
<1>18. ASSUME NEW t \in su_Threads, SU!ApplyStart(t)
      PROVE  SU!TypeOK'
  BY <1>18, <1>0 DEF SU!TypeOK, Types, Thread, ThreadPcs, Rows, SU!Texts, SU!Plan, SU!PlanIds,
     SU!ApplyStart, SU!Idle, SU!world, SU!cache, SU!text
<1>19. ASSUME NEW t \in su_Threads, SU!ApplyPull(t)
      PROVE  SU!TypeOK'
  BY <1>19, <1>0 DEF SU!TypeOK, Types, Thread, ThreadPcs, Rows, SU!Texts, SU!Plan, SU!PlanIds,
     SU!ApplyPull, SU!world, SU!cache, SU!text
<1>20. ASSUME NEW t \in su_Threads, SU!ApplyVerify(t)
      PROVE  SU!TypeOK'
  BY <1>20, <1>0 DEF SU!TypeOK, Types, Thread, ThreadPcs, Rows, SU!Texts, SU!Plan, SU!PlanIds,
     SU!ApplyVerify, SU!Verified, SU!Go, SU!world, SU!cache, SU!text
<1>21. ASSUME NEW t \in su_Threads, SU!ApplyRefused(t)
      PROVE  SU!TypeOK'
  BY <1>21, <1>0 DEF SU!TypeOK, Types, Thread, ThreadPcs, Rows, SU!Texts, SU!Plan, SU!PlanIds,
     SU!ApplyRefused, SU!Idle, SU!world, SU!cache, SU!text
<1> QED
  BY <1>1, <1>2, <1>3, <1>4, <1>5, <1>6, <1>7, <1>8, <1>9, <1>10, <1>11, <1>12, <1>13, <1>14, <1>15,
     <1>16, <1>17, <1>18, <1>19, <1>20, <1>21 DEF SU!Next

LEMMA OwnerStep ==
  ASSUME SelfUpdateSizes, Types, ThreadTypes', OwnerInv, PinInv, [SU!Next]_(SU!vars)
  PROVE  OwnerInv'
<1>0. /\ SU!Gone \notin SU!Plan /\ SU!NoText \notin SU!Texts /\ SU!Nobody \notin su_Threads
      /\ SU!TypeOK /\ ThreadTypes /\ ThreadTypes' /\ OwnerInv
      /\ \A t \in su_Threads : su_th[t].pc = "idle" => su_th[t].pc \notin Reserved
  BY DEF SelfUpdateSizes, SU!Plan, SU!Gone, SU!Texts, SU!NoText, Reserved, First, Written, Types
<1>1. CASE UNCHANGED SU!vars
  BY <1>1, <1>0 DEF SU!TypeOK, ThreadTypes, OwnerInv, Thread, First, Written, Reserved, SU!vars,
     SU!world, SU!cache, SU!text
<1>2. CASE SU!Outside
  BY <1>2, <1>0 DEF SU!TypeOK, ThreadTypes, OwnerInv, Thread, First, Written, Reserved, SU!Outside,
     SU!world, SU!cache, SU!text
<1>3. ASSUME NEW t \in su_Threads, SU!PlanStart(t)
      PROVE  OwnerInv'
  BY <1>3, <1>0 DEF SU!TypeOK, ThreadTypes, OwnerInv, Thread, First, Written, Reserved,
     SU!PlanStart, SU!Idle, SU!world, SU!cache, SU!text
<1>4. ASSUME NEW t \in su_Threads, SU!PlanBuild(t)
      PROVE  OwnerInv'
  <2>1. su_th'[t].pc \in {"cache", "idle"} /\ (\A u \in su_Threads : u # t => su_th'[u] = su_th[u])
    BY <1>4, <1>0 DEF SU!PlanBuild, SU!PlanFailure, SU!Idle, SU!text, ThreadTypes, Thread, SU!Go
  <2>2. UNCHANGED <<su_owner, su_backup, su_wrote>> /\ su_th[t].pc = "build"
    BY <1>4 DEF SU!PlanBuild, SU!PlanFailure, SU!Idle, SU!text
  <2> QED
    BY <2>1, <2>2, <1>4, <1>0 DEF OwnerInv, First, Written, Reserved
<1>5. ASSUME NEW t \in su_Threads, SU!PlanCache(t)
      PROVE  OwnerInv'
  BY <1>5, <1>0 DEF SU!TypeOK, ThreadTypes, OwnerInv, Thread, First, Written, Reserved,
     SU!PlanCache, SU!Prune, SU!Idle, SU!world, SU!cache, SU!text
<1>6. ASSUME NEW t \in su_Threads, SU!PrepareStart(t)
      PROVE  OwnerInv'
  BY <1>6, <1>0 DEF SU!TypeOK, ThreadTypes, OwnerInv, Thread, First, Written, Reserved,
     SU!PrepareStart, SU!Idle, SU!world, SU!cache, SU!text
<1>7. ASSUME NEW t \in su_Threads, SU!PrepareCheck(t)
      PROVE  OwnerInv'
  <2>1. su_th'[t].pc \in {"end", "rebuild"} /\ (\A u \in su_Threads : u # t => su_th'[u] = su_th[u])
    BY <1>7, <1>0 DEF SU!PrepareCheck, SU!text, ThreadTypes, Thread, SU!Go
  <2>2. UNCHANGED <<su_owner, su_backup, su_wrote>> /\ su_th[t].pc = "check"
    BY <1>7 DEF SU!PrepareCheck, SU!text
  <2> QED
    BY <2>1, <2>2, <1>7, <1>0 DEF OwnerInv, First, Written, Reserved
<1>8. ASSUME NEW t \in su_Threads, SU!PrepareRebuild(t)
      PROVE  OwnerInv'
  BY <1>8, <1>0 DEF SU!TypeOK, ThreadTypes, OwnerInv, Thread, First, Written, Reserved,
     SU!PrepareRebuild, SU!SamePlan, SU!Rebuilt, SU!Go, SU!world, SU!cache, SU!text
<1>9. ASSUME NEW t \in su_Threads, SU!PrepareAudit(t)
      PROVE  OwnerInv'
  BY <1>9, <1>0 DEF SU!TypeOK, ThreadTypes, OwnerInv, Thread, First, Written, Reserved,
     SU!PrepareAudit, SU!Go, SU!world, SU!cache, SU!text
<1>10. ASSUME NEW t \in su_Threads, SU!TakeBackup(t)
      PROVE  OwnerInv'
  BY <1>10, <1>0 DEF SU!TypeOK, ThreadTypes, OwnerInv, Thread, First, Written, Reserved,
     SU!TakeBackup, SU!Go, SU!world, SU!cache, SU!text
<1>11. ASSUME NEW t \in su_Threads, SU!WriteTag(t)
      PROVE  OwnerInv'
  <2>1. PICK new \in SU!Texts : /\ new.edit = su_backup.edit /\ new # SU!NoText
                                /\ SU!Write(t, su_backup, new, "pull")
    BY <1>11, <1>0, TagWritten
  <2>2. /\ su_th'[t].pc \in {"pull", "restore"} /\ (\A u \in su_Threads : u # t => su_th'[u] = su_th[u])
        /\ su_wrote' = new \/ (su_wrote' = su_wrote /\ su_th'[t].pc = "restore")
    <3>1. "pull" \in ThreadPcs
      BY DEF ThreadPcs
    <3>2. ThreadTypes
      BY <1>0
    <3> QED BY <2>1, <3>1, <3>2, WriteMoves
  <2>3. UNCHANGED <<su_owner, su_backup>> /\ su_th[t].pc = "tag"
    BY <1>11 DEF SU!WriteTag
  <2> QED
    BY <2>1, <2>2, <2>3, <1>0 DEF OwnerInv, First, Written, Reserved
<1>12. ASSUME NEW t \in su_Threads, SU!PullTag(t)
      PROVE  OwnerInv'
  BY <1>12, <1>0 DEF SU!TypeOK, ThreadTypes, OwnerInv, Thread, First, Written, Reserved, SU!PullTag,
     SU!Go, SU!world, SU!cache, SU!text
<1>13. ASSUME NEW t \in su_Threads, SU!VerifyPins(t)
      PROVE  OwnerInv'
  BY <1>13, <1>0 DEF SU!TypeOK, ThreadTypes, OwnerInv, Thread, First, Written, Reserved,
     SU!VerifyPins, SU!PinTargetStays, SU!Go, SU!world, SU!cache, SU!text
<1>14. ASSUME NEW t \in su_Threads, SU!WritePins(t)
      PROVE  OwnerInv'
  <2>0. su_wrote # SU!NoText /\ su_wrote.edit = su_backup.edit /\ su_th[t].pc = "pin"
    BY <1>14, <1>0 DEF SU!WritePins, OwnerInv, Written
  <2>1. PICK new \in SU!Texts : /\ new.edit = su_backup.edit /\ new # SU!NoText
                                /\ SU!Write(t, su_wrote, new, "end")
    BY <1>14, <2>0, <1>0, PinsWritten
  <2>2. /\ su_th'[t].pc \in {"end", "restore"} /\ (\A u \in su_Threads : u # t => su_th'[u] = su_th[u])
        /\ su_wrote' = new \/ (su_wrote' = su_wrote /\ su_th'[t].pc = "restore")
    <3>1. "end" \in ThreadPcs
      BY DEF ThreadPcs
    <3>2. ThreadTypes
      BY <1>0
    <3> QED BY <2>1, <3>1, <3>2, WriteMoves
  <2>3. UNCHANGED <<su_owner, su_backup>>
    BY <1>14 DEF SU!WritePins
  <2> QED
    BY <2>0, <2>1, <2>2, <2>3, <1>0 DEF OwnerInv, First, Written, Reserved
<1>15. ASSUME NEW t \in su_Threads, SU!Restore(t)
      PROVE  OwnerInv'
  BY <1>15, <1>0 DEF SU!TypeOK, ThreadTypes, OwnerInv, Thread, First, Written, Reserved, SU!Restore,
     SU!Replace, SU!KeepBackup, SU!Go, SU!world, SU!cache, SU!text
<1>16. ASSUME NEW t \in su_Threads, SU!End(t)
      PROVE  OwnerInv'
  BY <1>16, <1>0 DEF SU!TypeOK, ThreadTypes, OwnerInv, Thread, First, Written, Reserved, SU!End,
     SU!Go, SU!world, SU!cache, SU!text
<1>17. ASSUME NEW t \in su_Threads, SU!Remove(t)
      PROVE  OwnerInv'
  BY <1>17, <1>0 DEF SU!TypeOK, ThreadTypes, OwnerInv, Thread, First, Written, Reserved, SU!Remove,
     SU!Idle, SU!world, SU!cache, SU!text
<1>18. ASSUME NEW t \in su_Threads, SU!ApplyStart(t)
      PROVE  OwnerInv'
  BY <1>18, <1>0 DEF SU!TypeOK, ThreadTypes, OwnerInv, Thread, First, Written, Reserved,
     SU!ApplyStart, SU!Idle, SU!world, SU!cache, SU!text
<1>19. ASSUME NEW t \in su_Threads, SU!ApplyPull(t)
      PROVE  OwnerInv'
  BY <1>19, <1>0 DEF SU!TypeOK, ThreadTypes, OwnerInv, Thread, First, Written, Reserved,
     SU!ApplyPull, SU!world, SU!cache, SU!text
<1>20. ASSUME NEW t \in su_Threads, SU!ApplyVerify(t)
      PROVE  OwnerInv'
  BY <1>20, <1>0 DEF SU!TypeOK, ThreadTypes, OwnerInv, Thread, First, Written, Reserved,
     SU!ApplyVerify, SU!Verified, SU!Go, SU!world, SU!cache, SU!text
<1>21. ASSUME NEW t \in su_Threads, SU!ApplyRefused(t)
      PROVE  OwnerInv'
  BY <1>21, <1>0 DEF SU!TypeOK, ThreadTypes, OwnerInv, Thread, First, Written, Reserved,
     SU!ApplyRefused, SU!Idle, SU!world, SU!cache, SU!text
<1> QED
  BY <1>1, <1>2, <1>3, <1>4, <1>5, <1>6, <1>7, <1>8, <1>9, <1>10, <1>11, <1>12, <1>13, <1>14, <1>15,
     <1>16, <1>17, <1>18, <1>19, <1>20, <1>21 DEF SU!Next

LEMMA TagStep ==
  ASSUME SelfUpdateSizes, Types, ThreadTypes', OwnerInv, PinInv, TagInv, [SU!Next]_(SU!vars)
  PROVE  TagInv'
<1>0. /\ SU!Gone \notin SU!Plan /\ SU!NoText \notin SU!Texts /\ SU!Nobody \notin su_Threads
      /\ SU!TypeOK /\ ThreadTypes /\ ThreadTypes' /\ OwnerInv
      /\ \A t \in su_Threads : su_th[t].pc = "idle" => su_th[t].pc \notin Reserved
  BY DEF SelfUpdateSizes, SU!Plan, SU!Gone, SU!Texts, SU!NoText, Reserved, First, Written, Types
<1>1. CASE UNCHANGED SU!vars
  BY <1>1, <1>0 DEF SU!TypeOK, ThreadTypes, OwnerInv, Thread, First, Written, Reserved, TagInv,
     SU!vars, SU!world, SU!cache, SU!text
<1>2. CASE SU!Outside
  <2>1. CASE su_file' = su_file /\ su_disk' = su_disk
    BY <2>1, <1>2, <1>0 DEF TagInv, SU!Outside, SU!text
  <2>2. CASE su_file' = [su_file EXCEPT !.edit = TRUE] /\ su_disk' = {su_file'}
    <3>1. su_file'.tag = su_file.tag
      BY <2>2, <1>0 DEF SU!TypeOK, SU!Texts
    <3>2. UNCHANGED <<su_backup, su_wrote, su_kept, su_prepared>>
      BY <1>2 DEF SU!Outside, SU!text
    <3> QED
      BY <2>2, <3>1, <3>2 DEF TagInv
  <2> QED
    BY <2>1, <2>2, <1>2 DEF SU!Outside, SU!text
<1>3. ASSUME NEW t \in su_Threads, SU!PlanStart(t)
      PROVE  TagInv'
  BY <1>3, <1>0 DEF SU!TypeOK, ThreadTypes, OwnerInv, Thread, First, Written, Reserved, TagInv,
     SU!PlanStart, SU!Idle, SU!world, SU!cache, SU!text
<1>4. ASSUME NEW t \in su_Threads, SU!PlanBuild(t)
      PROVE  TagInv'
  BY <1>4, <1>0 DEF SU!TypeOK, ThreadTypes, OwnerInv, Thread, First, Written, Reserved, TagInv,
     SU!PlanBuild, SU!PlanFailure, SU!Rebuilt, SU!world, SU!cache, SU!text
<1>5. ASSUME NEW t \in su_Threads, SU!PlanCache(t)
      PROVE  TagInv'
  BY <1>5, <1>0 DEF SU!TypeOK, ThreadTypes, OwnerInv, Thread, First, Written, Reserved, TagInv,
     SU!PlanCache, SU!Prune, SU!Idle, SU!world, SU!cache, SU!text
<1>6. ASSUME NEW t \in su_Threads, SU!PrepareStart(t)
      PROVE  TagInv'
  BY <1>6, <1>0 DEF SU!TypeOK, ThreadTypes, OwnerInv, Thread, First, Written, Reserved, TagInv,
     SU!PrepareStart, SU!Idle, SU!world, SU!cache, SU!text
<1>7. ASSUME NEW t \in su_Threads, SU!PrepareCheck(t)
      PROVE  TagInv'
  BY <1>7, <1>0 DEF SU!TypeOK, ThreadTypes, OwnerInv, Thread, First, Written, Reserved, TagInv,
     SU!PrepareCheck, SU!Prune, SU!Go, SU!Confirmed, SU!CanUpdate, SU!world, SU!cache, SU!text
<1>8. ASSUME NEW t \in su_Threads, SU!PrepareRebuild(t)
      PROVE  TagInv'
  BY <1>8, <1>0 DEF SU!TypeOK, ThreadTypes, OwnerInv, Thread, First, Written, Reserved, TagInv,
     SU!PrepareRebuild, SU!SamePlan, SU!Rebuilt, SU!Go, SU!world, SU!cache, SU!text
<1>9. ASSUME NEW t \in su_Threads, SU!PrepareAudit(t)
      PROVE  TagInv'
  BY <1>9, <1>0 DEF SU!TypeOK, ThreadTypes, OwnerInv, Thread, First, Written, Reserved, TagInv,
     SU!PrepareAudit, SU!Go, SU!world, SU!cache, SU!text
<1>10. ASSUME NEW t \in su_Threads, SU!TakeBackup(t)
      PROVE  TagInv'
  BY <1>10, <1>0 DEF SU!TypeOK, ThreadTypes, OwnerInv, Thread, First, Written, Reserved, TagInv,
     SU!TakeBackup, SU!Go, SU!world, SU!cache, SU!text
<1>11. ASSUME NEW t \in su_Threads, SU!WriteTag(t)
      PROVE  TagInv'
  <2>1. PICK new \in SU!Texts : /\ new # SU!NoText
                                /\ SU!Write(t, su_backup, new, "pull")
    BY <1>11, <1>0, TagWritten
  <2>2. /\ su_file' = new /\ su_wrote' = new /\ new \in su_disk'
        \/ UNCHANGED <<su_file, su_disk, su_wrote>>
    BY <2>1 DEF SU!Write, SU!Replace
  <2>3. UNCHANGED <<su_backup, su_kept, su_prepared>>
    BY <1>11 DEF SU!WriteTag
  <2> QED
    BY <2>1, <2>2, <2>3, <1>0 DEF TagInv
<1>12. ASSUME NEW t \in su_Threads, SU!PullTag(t)
      PROVE  TagInv'
  BY <1>12, <1>0 DEF SU!TypeOK, ThreadTypes, OwnerInv, Thread, First, Written, Reserved, TagInv,
     SU!PullTag, SU!Go, SU!world, SU!cache, SU!text
<1>13. ASSUME NEW t \in su_Threads, SU!VerifyPins(t)
      PROVE  TagInv'
  BY <1>13, <1>0 DEF SU!TypeOK, ThreadTypes, OwnerInv, Thread, First, Written, Reserved, TagInv,
     SU!VerifyPins, SU!PinTargetStays, SU!Go, SU!world, SU!cache, SU!text
<1>14. ASSUME NEW t \in su_Threads, SU!WritePins(t)
      PROVE  TagInv'
  <2>1. PICK new \in SU!Texts : /\ new # SU!NoText
                                /\ SU!Write(t, su_wrote, new, "end")
    BY <1>14, <1>0, PinsWritten
  <2>2. /\ su_file' = new /\ su_wrote' = new /\ new \in su_disk'
        \/ UNCHANGED <<su_file, su_disk, su_wrote>>
    BY <2>1 DEF SU!Write, SU!Replace
  <2>3. UNCHANGED <<su_backup, su_kept, su_prepared>>
    BY <1>14 DEF SU!WritePins
  <2> QED
    BY <2>1, <2>2, <2>3, <1>0 DEF TagInv
<1>15. ASSUME NEW t \in su_Threads, SU!Restore(t)
      PROVE  TagInv'
  BY <1>15, <1>0 DEF SU!TypeOK, ThreadTypes, OwnerInv, Thread, First, Written, Reserved, TagInv,
     SU!Restore, SU!Replace, SU!KeepBackup, SU!Go, SU!world, SU!cache, SU!text
<1>16. ASSUME NEW t \in su_Threads, SU!End(t)
      PROVE  TagInv'
  BY <1>16, <1>0 DEF SU!TypeOK, ThreadTypes, OwnerInv, Thread, First, Written, Reserved, TagInv,
     SU!End, SU!Go, SU!world, SU!cache, SU!text
<1>17. ASSUME NEW t \in su_Threads, SU!Remove(t)
      PROVE  TagInv'
  BY <1>17, <1>0 DEF SU!TypeOK, ThreadTypes, OwnerInv, Thread, First, Written, Reserved, TagInv,
     SU!Remove, SU!Idle, SU!world, SU!cache, SU!text
<1>18. ASSUME NEW t \in su_Threads, SU!ApplyStart(t)
      PROVE  TagInv'
  BY <1>18, <1>0 DEF SU!TypeOK, ThreadTypes, OwnerInv, Thread, First, Written, Reserved, TagInv,
     SU!ApplyStart, SU!Idle, SU!world, SU!cache, SU!text
<1>19. ASSUME NEW t \in su_Threads, SU!ApplyPull(t)
      PROVE  TagInv'
  BY <1>19, <1>0 DEF SU!TypeOK, ThreadTypes, OwnerInv, Thread, First, Written, Reserved, TagInv,
     SU!ApplyPull, SU!world, SU!cache, SU!text
<1>20. ASSUME NEW t \in su_Threads, SU!ApplyVerify(t)
      PROVE  TagInv'
  BY <1>20, <1>0 DEF SU!TypeOK, ThreadTypes, OwnerInv, Thread, First, Written, Reserved, TagInv,
     SU!ApplyVerify, SU!Verified, SU!Go, SU!world, SU!cache, SU!text
<1>21. ASSUME NEW t \in su_Threads, SU!ApplyRefused(t)
      PROVE  TagInv'
  BY <1>21, <1>0 DEF SU!TypeOK, ThreadTypes, OwnerInv, Thread, First, Written, Reserved, TagInv,
     SU!ApplyRefused, SU!Idle, SU!world, SU!cache, SU!text
<1> QED
  BY <1>1, <1>2, <1>3, <1>4, <1>5, <1>6, <1>7, <1>8, <1>9, <1>10, <1>11, <1>12, <1>13, <1>14, <1>15,
     <1>16, <1>17, <1>18, <1>19, <1>20, <1>21 DEF SU!Next

LEMMA FileStep ==
  ASSUME SelfUpdateSizes, Types, ThreadTypes', OwnerInv, FileInv, PinInv, [SU!Next]_(SU!vars)
  PROVE  FileInv'
<1>0. /\ SU!Gone \notin SU!Plan /\ SU!NoText \notin SU!Texts /\ SU!Nobody \notin su_Threads
      /\ SU!TypeOK /\ ThreadTypes /\ ThreadTypes' /\ OwnerInv
      /\ \A t \in su_Threads : su_th[t].pc = "idle" => su_th[t].pc \notin Reserved
  BY DEF SelfUpdateSizes, SU!Plan, SU!Gone, SU!Texts, SU!NoText, Reserved, First, Written, Types
<1>1. CASE UNCHANGED SU!vars
  BY <1>1, <1>0 DEF ThreadTypes, FileInv, SU!PlanFilesCollected, Thread, SU!vars, SU!world,
     SU!cache, SU!text
<1>2. CASE SU!Outside
  BY <1>2, <1>0 DEF ThreadTypes, FileInv, SU!PlanFilesCollected, Thread, SU!Outside, SU!world,
     SU!cache, SU!text
<1>3. ASSUME NEW t \in su_Threads, SU!PlanStart(t)
      PROVE  FileInv'
  <2>1. PICK i \in SU!PlanIds :
            /\ su_planFiles' = su_planFiles \cup {i}
            /\ su_th' = [su_th EXCEPT ![t] = [SU!Idle EXCEPT !.pc = "build", !.id = i,
                                         !.plan = [latest |-> su_latest, base |-> su_file, digest |-> 1]]]
    BY <1>3 DEF SU!PlanStart
  <2> DEFINE x == [SU!Idle EXCEPT !.pc = "build", !.id = i,
                       !.plan = [latest |-> su_latest, base |-> su_file, digest |-> 1]]
  <2>2. x.pc = "build" /\ x.id = i /\ x.plan = [latest |-> su_latest, base |-> su_file, digest |-> 1]
    BY DEF SU!Idle
  <2>3. x.plan \in SU!Plan
    BY <2>2, <1>0, RebuiltIs
  <2>4. su_th'[t] = x /\ \A u \in su_Threads : u # t => su_th'[u] = su_th[u]
    BY <2>1, <1>0 DEF ThreadTypes
  <2>5. su_plans' = su_plans /\ su_th[t].pc = "idle"
    BY <1>3 DEF SU!PlanStart
  <2> HIDE DEF x
  <2> QED
    BY <2>1, <2>2, <2>3, <2>4, <2>5, <1>0 DEF FileInv, SU!PlanFilesCollected
<1>4. ASSUME NEW t \in su_Threads, SU!PlanBuild(t)
      PROVE  FileInv'
  <2>0. /\ su_plans' = su_plans /\ su_th[t].pc = "build" /\ su_th[t].plan \in SU!Plan /\ "cache" \in ThreadPcs
    BY <1>4, <1>0 DEF SU!PlanBuild, SU!cache, FileInv, ThreadPcs
  <2>1. CASE /\ su_th' = [su_th EXCEPT ![t].pc = "cache", ![t].plan = SU!Rebuilt(@.latest)]
             /\ UNCHANGED su_planFiles
    <3> DEFINE x == SU!Rebuilt(su_th[t].plan.latest)
    <3>1. x \in SU!Plan
      BY <2>0, <1>0, RebuiltIs DEF SU!Plan
    <3>2. su_th' = [su_th EXCEPT ![t].pc = "cache", ![t].plan = x]
      BY <2>1, <1>0 DEF ThreadTypes
    <3>0. x \in SU!Plan \cup {SU!Gone}
      BY <3>1
    <3> HIDE DEF x
    <3>3. /\ su_th'[t].pc = "cache" /\ su_th'[t].plan \in SU!Plan /\ su_th'[t].id = su_th[t].id
          /\ \A u \in su_Threads : u # t => su_th'[u] = su_th[u]
      <4>1. "cache" \in ThreadPcs /\ ThreadTypes
        BY <2>0, <1>0
      <4> QED BY <3>0, <3>1, <3>2, <4>1, MovesWithPlan
    <3>4. su_planFiles' = su_planFiles /\ su_th[t].pc = "build"
      BY <2>0, <2>1
    <3> QED
      BY <2>0, <3>3, <3>4, <1>0 DEF FileInv, SU!PlanFilesCollected
  <2>2. CASE SU!PlanFailure(t)
    <3>1. su_th'[t].pc = "idle" /\ \A u \in su_Threads : u # t => su_th'[u] = su_th[u]
      BY <2>2, <1>0 DEF SU!PlanFailure, SU!Idle, ThreadTypes
    <3> QED
      BY <2>0, <2>2, <3>1, <1>0 DEF FileInv, SU!PlanFilesCollected, SU!PlanFailure
  <2> QED
    BY <2>1, <2>2, <1>4 DEF SU!PlanBuild
<1>5. ASSUME NEW t \in su_Threads, SU!PlanCache(t)
      PROVE  FileInv'
  <2>1. /\ su_th'[t].pc = "idle" /\ (\A u \in su_Threads : u # t => su_th'[u] = su_th[u])
        /\ su_th[t].plan \in SU!Plan
    BY <1>5, <1>0 DEF SU!PlanCache, ThreadTypes, SU!Idle, FileInv
  <2>2. /\ \A i \in SU!PlanIds : i # su_th[t].id /\ su_plans[i] # SU!Gone =>
               su_plans'[i] # SU!Gone \/ i \notin su_planFiles'
        /\ su_th[t].id \in SU!PlanIds => su_plans'[su_th[t].id] # SU!Gone
        /\ su_planFiles' \subseteq su_planFiles /\ su_planFiles \subseteq SU!PlanIds
    BY <1>5, <2>1, <1>0 DEF SU!PlanCache, SU!Prune, SU!TypeOK
  <2> QED
    BY <2>1, <2>2, <1>0 DEF FileInv, SU!PlanFilesCollected
<1>6. ASSUME NEW t \in su_Threads, SU!PrepareStart(t)
      PROVE  FileInv'
  BY <1>6, <1>0 DEF ThreadTypes, FileInv, SU!PlanFilesCollected, Thread, SU!PrepareStart, SU!Idle,
     SU!world, SU!cache, SU!text
<1>7. ASSUME NEW t \in su_Threads, SU!PrepareCheck(t)
      PROVE  FileInv'
  <2>1. /\ su_th'[t].pc \in {"end", "rebuild"} /\ (\A u \in su_Threads : u # t => su_th'[u] = su_th[u])
        /\ su_th[t].pc = "check"
    BY <1>7, <1>0 DEF SU!PrepareCheck, ThreadTypes, Thread, SU!Go
  <2>2. /\ \A i \in SU!PlanIds : su_plans[i] # SU!Gone => su_plans'[i] # SU!Gone \/ i \notin su_planFiles'
        /\ su_planFiles' \subseteq su_planFiles /\ su_planFiles \subseteq SU!PlanIds
    BY <1>7, <1>0 DEF SU!PrepareCheck, SU!Prune, SU!TypeOK
  <2> QED
    BY <2>1, <2>2, <1>0 DEF FileInv, SU!PlanFilesCollected
<1>8. ASSUME NEW t \in su_Threads, SU!PrepareRebuild(t)
      PROVE  FileInv'
  <2>1. /\ su_th'[t].pc \in {"audit", "end"} /\ (\A u \in su_Threads : u # t => su_th'[u] = su_th[u])
        /\ su_th[t].pc \notin {"build", "cache"}
    BY <1>8, <1>0 DEF SU!PrepareRebuild, ThreadTypes, Thread, SU!Go
  <2>2. UNCHANGED <<su_plans, su_planFiles>>
    BY <1>8 DEF SU!PrepareRebuild, SU!cache
  <2> QED
    BY <2>1, <2>2, <1>0 DEF FileInv, SU!PlanFilesCollected
<1>9. ASSUME NEW t \in su_Threads, SU!PrepareAudit(t)
      PROVE  FileInv'
  <2>1. /\ su_th'[t].pc \in {"backup", "end"} /\ (\A u \in su_Threads : u # t => su_th'[u] = su_th[u])
        /\ su_th[t].pc \notin {"build", "cache"}
    BY <1>9, <1>0 DEF SU!PrepareAudit, ThreadTypes, Thread, SU!Go
  <2>2. UNCHANGED <<su_plans, su_planFiles>>
    BY <1>9 DEF SU!PrepareAudit, SU!cache
  <2> QED
    BY <2>1, <2>2, <1>0 DEF FileInv, SU!PlanFilesCollected
<1>10. ASSUME NEW t \in su_Threads, SU!TakeBackup(t)
      PROVE  FileInv'
  <2>1. /\ su_th'[t].pc \in {"tag", "end"} /\ (\A u \in su_Threads : u # t => su_th'[u] = su_th[u])
        /\ su_th[t].pc \notin {"build", "cache"}
    BY <1>10, <1>0 DEF SU!TakeBackup, ThreadTypes, Thread, SU!Go
  <2>2. UNCHANGED <<su_plans, su_planFiles>>
    BY <1>10 DEF SU!TakeBackup, SU!cache
  <2> QED
    BY <2>1, <2>2, <1>0 DEF FileInv, SU!PlanFilesCollected
<1>11. ASSUME NEW t \in su_Threads, SU!WriteTag(t)
      PROVE  FileInv'
  <2>1. /\ su_th'[t].pc \in {"pull", "restore"} /\ (\A u \in su_Threads : u # t => su_th'[u] = su_th[u])
        /\ su_th[t].pc \notin {"build", "cache"}
    BY <1>11, <1>0 DEF SU!WriteTag, SU!Write, ThreadTypes, Thread, SU!Go
  <2>2. UNCHANGED <<su_plans, su_planFiles>>
    BY <1>11 DEF SU!WriteTag, SU!Write, SU!cache
  <2> QED
    BY <2>1, <2>2, <1>0 DEF FileInv, SU!PlanFilesCollected
<1>12. ASSUME NEW t \in su_Threads, SU!PullTag(t)
      PROVE  FileInv'
  <2>1. /\ su_th'[t].pc \in {"verify", "end", "restore"} /\ (\A u \in su_Threads : u # t => su_th'[u] = su_th[u])
        /\ su_th[t].pc \notin {"build", "cache"}
    BY <1>12, <1>0 DEF SU!PullTag, ThreadTypes, Thread, SU!Go
  <2>2. UNCHANGED <<su_plans, su_planFiles>>
    BY <1>12 DEF SU!PullTag, SU!cache
  <2> QED
    BY <2>1, <2>2, <1>0 DEF FileInv, SU!PlanFilesCollected
<1>13. ASSUME NEW t \in su_Threads, SU!VerifyPins(t)
      PROVE  FileInv'
  <2>1. /\ su_th'[t].pc \in {"pin", "restore"} /\ (\A u \in su_Threads : u # t => su_th'[u] = su_th[u])
        /\ su_th[t].pc \notin {"build", "cache"}
    BY <1>13, <1>0 DEF SU!VerifyPins, ThreadTypes, Thread, SU!Go
  <2>2. UNCHANGED <<su_plans, su_planFiles>>
    BY <1>13 DEF SU!VerifyPins, SU!cache
  <2> QED
    BY <2>1, <2>2, <1>0 DEF FileInv, SU!PlanFilesCollected
<1>14. ASSUME NEW t \in su_Threads, SU!WritePins(t)
      PROVE  FileInv'
  <2>1. /\ su_th'[t].pc \in {"end", "restore"} /\ (\A u \in su_Threads : u # t => su_th'[u] = su_th[u])
        /\ su_th[t].pc \notin {"build", "cache"}
    BY <1>14, <1>0 DEF SU!WritePins, SU!Write, ThreadTypes, Thread, SU!Go
  <2>2. UNCHANGED <<su_plans, su_planFiles>>
    BY <1>14 DEF SU!WritePins, SU!Write, SU!cache
  <2> QED
    BY <2>1, <2>2, <1>0 DEF FileInv, SU!PlanFilesCollected
<1>15. ASSUME NEW t \in su_Threads, SU!Restore(t)
      PROVE  FileInv'
  <2>1. /\ su_th'[t].pc \in {"end"} /\ (\A u \in su_Threads : u # t => su_th'[u] = su_th[u])
        /\ su_th[t].pc \notin {"build", "cache"}
    BY <1>15, <1>0 DEF SU!Restore, ThreadTypes, Thread, SU!Go
  <2>2. UNCHANGED <<su_plans, su_planFiles>>
    BY <1>15 DEF SU!Restore, SU!cache
  <2> QED
    BY <2>1, <2>2, <1>0 DEF FileInv, SU!PlanFilesCollected
<1>16. ASSUME NEW t \in su_Threads, SU!End(t)
      PROVE  FileInv'
  <2>1. /\ su_th'[t].pc \in {"remove"} /\ (\A u \in su_Threads : u # t => su_th'[u] = su_th[u])
        /\ su_th[t].pc \notin {"build", "cache"}
    BY <1>16, <1>0 DEF SU!End, ThreadTypes, Thread, SU!Go
  <2>2. UNCHANGED <<su_plans, su_planFiles>>
    BY <1>16 DEF SU!End, SU!cache
  <2> QED
    BY <2>1, <2>2, <1>0 DEF FileInv, SU!PlanFilesCollected
<1>17. ASSUME NEW t \in su_Threads, SU!Remove(t)
      PROVE  FileInv'
  BY <1>17, <1>0 DEF ThreadTypes, FileInv, SU!PlanFilesCollected, Thread, SU!Remove, SU!Idle,
     SU!world, SU!cache, SU!text
<1>18. ASSUME NEW t \in su_Threads, SU!ApplyStart(t)
      PROVE  FileInv'
  BY <1>18, <1>0 DEF ThreadTypes, FileInv, SU!PlanFilesCollected, Thread, SU!ApplyStart, SU!Idle,
     SU!world, SU!cache, SU!text
<1>19. ASSUME NEW t \in su_Threads, SU!ApplyPull(t)
      PROVE  FileInv'
  <2>1. /\ su_th'[t].pc \in {"imaged", "remove"} /\ (\A u \in su_Threads : u # t => su_th'[u] = su_th[u])
        /\ su_th[t].pc \notin {"build", "cache"}
    BY <1>19, <1>0 DEF SU!ApplyPull, ThreadTypes, Thread, SU!Go
  <2>2. UNCHANGED <<su_plans, su_planFiles>>
    BY <1>19 DEF SU!ApplyPull, SU!cache
  <2> QED
    BY <2>1, <2>2, <1>0 DEF FileInv, SU!PlanFilesCollected
<1>20. ASSUME NEW t \in su_Threads, SU!ApplyVerify(t)
      PROVE  FileInv'
  <2>1. /\ su_th'[t].pc \in {"idle"} /\ (\A u \in su_Threads : u # t => su_th'[u] = su_th[u])
        /\ su_th[t].pc \notin {"build", "cache"}
    BY <1>20, <1>0 DEF SU!ApplyVerify, ThreadTypes, Thread, SU!Go
  <2>2. UNCHANGED <<su_plans, su_planFiles>>
    BY <1>20 DEF SU!ApplyVerify, SU!cache
  <2> QED
    BY <2>1, <2>2, <1>0 DEF FileInv, SU!PlanFilesCollected
<1>21. ASSUME NEW t \in su_Threads, SU!ApplyRefused(t)
      PROVE  FileInv'
  BY <1>21, <1>0 DEF ThreadTypes, FileInv, SU!PlanFilesCollected, Thread, SU!ApplyRefused, SU!Idle,
     SU!world, SU!cache, SU!text
<1> QED
  BY <1>1, <1>2, <1>3, <1>4, <1>5, <1>6, <1>7, <1>8, <1>9, <1>10, <1>11, <1>12, <1>13, <1>14, <1>15,
     <1>16, <1>17, <1>18, <1>19, <1>20, <1>21 DEF SU!Next

LEMMA PinStep ==
  ASSUME SelfUpdateSizes, Types, ThreadTypes', OwnerInv, FileInv, PinInv, [SU!Next]_(SU!vars)
  PROVE  PinInv'
<1>0. /\ SU!Gone \notin SU!Plan /\ SU!NoText \notin SU!Texts /\ SU!Nobody \notin su_Threads
      /\ SU!TypeOK /\ ThreadTypes /\ ThreadTypes' /\ OwnerInv
      /\ \A t \in su_Threads : su_th[t].pc = "idle" => su_th[t].pc \notin Reserved
  BY DEF SelfUpdateSizes, SU!Plan, SU!Gone, SU!Texts, SU!NoText, Reserved, First, Written, Types
<1>1. CASE UNCHANGED SU!vars
  BY <1>1, <1>0 DEF SU!TypeOK, ThreadTypes, OwnerInv, Thread, First, Written, Reserved, PinInv,
     SU!Plan, SU!vars, SU!world, SU!cache, SU!text
<1>2. CASE SU!Outside
  <2>1. /\ UNCHANGED <<su_pinning, su_wrote, su_local, su_th>> /\ su_digest <= su_digest'
    BY <1>2, <1>0 DEF SU!Outside, SU!TypeOK, SU!world, SU!text
  <2>2. su_file'.tag = su_file.tag /\ su_file'.pin = su_file.pin
    <3>1. CASE su_file' = su_file
      BY <3>1
    <3>2. CASE su_file' = [su_file EXCEPT !.edit = TRUE]
      BY <3>2, <1>0 DEF SU!TypeOK, SU!Texts
    <3> QED
      BY <3>1, <3>2, <1>2 DEF SU!Outside, SU!text
  <2>3. su_digest \in 1..2 /\ su_digest' \in 1..2 /\ \A t \in su_Threads : su_th[t].plan \in SU!Plan => su_th[t].plan.digest \in 1..2
    BY <1>2, <1>0 DEF SU!Outside, SU!TypeOK, SU!world, SU!Plan
  <2>4. su_local.digest \in 0..2
    BY <1>0 DEF SU!TypeOK
  <2> QED
    BY <2>1, <2>2, <2>3, <2>4 DEF PinInv, Written
<1>3. ASSUME NEW t \in su_Threads, SU!PlanStart(t)
      PROVE  PinInv'
  BY <1>3, <1>0 DEF SU!TypeOK, ThreadTypes, OwnerInv, Thread, First, Written, Reserved, PinInv,
     SU!Plan, SU!PlanStart, SU!Idle, SU!world, SU!cache, SU!text
<1>4. ASSUME NEW t \in su_Threads, SU!PlanBuild(t)
      PROVE  PinInv'
  <2>1. /\ su_th'[t].pc \in {"cache", "idle"} /\ (\A u \in su_Threads : u # t => su_th'[u] = su_th[u])
        /\ su_th[t].pc = "build"
    BY <1>4, <1>0 DEF SU!PlanBuild, ThreadTypes, Thread, SU!Go, SU!PlanFailure, SU!Idle
  <2>2. UNCHANGED <<su_pinning, su_wrote, su_local, su_file, su_digest>>
    BY <1>4 DEF SU!PlanBuild, SU!world, SU!text
  <2> QED
    BY <2>1, <2>2, <1>0 DEF PinInv, Written
<1>5. ASSUME NEW t \in su_Threads, SU!PlanCache(t)
      PROVE  PinInv'
  BY <1>5, <1>0 DEF SU!TypeOK, ThreadTypes, OwnerInv, Thread, First, Written, Reserved, PinInv,
     SU!Plan, SU!PlanCache, SU!Prune, SU!Idle, SU!world, SU!cache, SU!text
<1>6. ASSUME NEW t \in su_Threads, SU!PrepareStart(t)
      PROVE  PinInv'
  BY <1>6, <1>0 DEF SU!TypeOK, ThreadTypes, OwnerInv, Thread, First, Written, Reserved, PinInv,
     SU!Plan, SU!PrepareStart, SU!Idle, SU!world, SU!cache, SU!text
<1>7. ASSUME NEW t \in su_Threads, SU!PrepareCheck(t)
      PROVE  PinInv'
  <2>1. /\ su_th'[t].pc \in {"end", "rebuild"} /\ (\A u \in su_Threads : u # t => su_th'[u] = su_th[u])
        /\ su_th[t].pc = "check"
    BY <1>7, <1>0 DEF SU!PrepareCheck, ThreadTypes, Thread, SU!Go, SU!PlanFailure, SU!Idle
  <2>2. UNCHANGED <<su_pinning, su_wrote, su_local, su_file, su_digest>>
    BY <1>7 DEF SU!PrepareCheck, SU!world, SU!text
  <2>3. su_th'[t].plan = su_th[t].plan /\ su_wrote = SU!NoText
    BY <1>7, <2>1, <1>0 DEF SU!PrepareCheck, ThreadTypes, Thread, SU!Go, OwnerInv, First
  <2> QED
    BY <2>1, <2>2, <1>0, <2>3 DEF PinInv, Written
<1>8. ASSUME NEW t \in su_Threads, SU!PrepareRebuild(t)
      PROVE  PinInv'
  <2>1. /\ su_th'[t].pc \in {"end", "audit"} /\ (\A u \in su_Threads : u # t => su_th'[u] = su_th[u])
        /\ su_th[t].pc = "rebuild" /\ su_th'[t].plan = su_th[t].plan
    BY <1>8, <1>0 DEF SU!PrepareRebuild, ThreadTypes, Thread, SU!Go
  <2>2. UNCHANGED <<su_pinning, su_wrote, su_local, su_file, su_digest>>
    BY <1>8 DEF SU!PrepareRebuild, SU!world, SU!text
  <2>3. su_wrote = SU!NoText
    BY <2>1, <1>0 DEF OwnerInv, First
  <2>4. ASSUME su_th'[t].pc = "audit", su_pinning
        PROVE  su_th[t].plan.digest = su_digest
    <3>1. su_th'[t].pc # "end"
      BY <2>4
    <3>2. SU!Rebuilt(su_th[t].plan.latest) = su_th[t].plan
      BY <1>8, <1>0, <3>1 DEF SU!PrepareRebuild, SU!SamePlan, ThreadTypes, Thread, SU!Go
    <3> QED
      BY <2>4, <3>2 DEF SU!Rebuilt
  <2>5. su_digest \in 1..2
    BY <1>0 DEF SU!TypeOK
  <2> QED
    BY <2>1, <2>2, <2>3, <2>4, <2>5, <1>0 DEF PinInv, Written
<1>9. ASSUME NEW t \in su_Threads, SU!PrepareAudit(t)
      PROVE  PinInv'
  BY <1>9, <1>0 DEF SU!TypeOK, ThreadTypes, OwnerInv, Thread, First, Written, Reserved, PinInv,
     SU!Plan, SU!PrepareAudit, SU!Go, SU!world, SU!cache, SU!text
<1>10. ASSUME NEW t \in su_Threads, SU!TakeBackup(t)
       PROVE  PinInv'
  <2>1. /\ su_th'[t].pc \in {"end", "tag"} /\ (\A u \in su_Threads : u # t => su_th'[u] = su_th[u])
        /\ su_th[t].pc = "backup" /\ su_th'[t].plan = su_th[t].plan
    BY <1>10, <1>0 DEF SU!TakeBackup, ThreadTypes, Thread, SU!Go
  <2>2. UNCHANGED <<su_pinning, su_wrote, su_local, su_file, su_digest>>
    BY <1>10 DEF SU!TakeBackup, SU!world
  <2>3. su_wrote = SU!NoText
    BY <2>1, <1>0 DEF OwnerInv, First
  <2> QED
    BY <2>1, <2>2, <2>3, <1>0 DEF PinInv, Written
<1>11. ASSUME NEW t \in su_Threads, SU!WriteTag(t)
      PROVE  PinInv'
  <2>1. PICK new \in SU!Texts : /\ new.tag = su_th[t].plan.latest /\ new # SU!NoText
                                /\ SU!Write(t, su_backup, new, "pull")
    BY <1>11, <1>0, TagWritten
  <2>2. "pull" \in ThreadPcs /\ ThreadTypes
    BY <1>0 DEF ThreadPcs
  <2>3. /\ su_th'[t].pc \in {"pull", "restore"} /\ (\A u \in su_Threads : u # t => su_th'[u] = su_th[u])
        /\ su_th'[t].plan = su_th[t].plan
        /\ (su_file' = new /\ su_wrote' = new) \/ su_th'[t].pc = "restore"
    BY <2>1, <2>2, WriteMoves
  <2>4. UNCHANGED <<su_owner, su_pinning, su_local, su_digest>> /\ su_th[t].pc = "tag"
    BY <1>11 DEF SU!WriteTag, SU!world
  <2>5. /\ su_th[t].plan \in SU!Plan /\ \A u \in su_Threads : u # t => su_th[u].pc \notin Reserved
        /\ su_pinning => su_th[t].plan.digest <= su_digest
    BY <2>4, <1>0 DEF PinInv, OwnerInv, Reserved
  <2> QED
    BY <2>1, <2>3, <2>4, <2>5 DEF PinInv, First, Written, Reserved
<1>12. ASSUME NEW t \in su_Threads, SU!PullTag(t)
      PROVE  PinInv'
  BY <1>12, <1>0 DEF SU!TypeOK, ThreadTypes, OwnerInv, Thread, First, Written, Reserved, PinInv,
     SU!Plan, SU!PullTag, SU!Go, SU!world, SU!cache, SU!text
<1>13. ASSUME NEW t \in su_Threads, SU!VerifyPins(t)
      PROVE  PinInv'
  <2>1. /\ su_th'[t].pc \in {"pin", "restore"} /\ (\A u \in su_Threads : u # t => su_th'[u] = su_th[u])
        /\ su_th'[t].plan = su_th[t].plan /\ su_th[t].pc = "verify"
        /\ su_th'[t].pc = "pin" => su_digest = su_th[t].plan.digest
    BY <1>13, <1>0 DEF SU!VerifyPins, SU!PinTargetStays, ThreadTypes, Thread, SU!Go
  <2>2. UNCHANGED <<su_pinning, su_wrote, su_local, su_file, su_digest>>
    BY <1>13 DEF SU!VerifyPins, SU!world, SU!text
  <2>3. su_digest \in Nat /\ su_local.digest \in Nat
    BY <1>0 DEF SU!TypeOK
  <2> QED
    BY <2>1, <2>2, <2>3, <1>0 DEF PinInv, Written
<1>14. ASSUME NEW t \in su_Threads, SU!WritePins(t)
      PROVE  PinInv'
  <2>1. PICK new \in SU!Texts : /\ new.tag = su_wrote.tag /\ new.pin = su_th[t].plan.digest
                                /\ new # SU!NoText /\ SU!Write(t, su_wrote, new, "end")
    BY <1>14, <1>0, PinsWritten
  <2>2. "end" \in ThreadPcs /\ ThreadTypes
    BY <1>0 DEF ThreadPcs
  <2>3. /\ su_th'[t].pc \in {"end", "restore"} /\ (\A u \in su_Threads : u # t => su_th'[u] = su_th[u])
        /\ su_th'[t].plan = su_th[t].plan
        /\ (su_file' = new /\ su_wrote' = new) \/ su_th'[t].pc = "restore"
    BY <2>1, <2>2, WriteMoves
  <2>4. UNCHANGED <<su_owner, su_pinning, su_local, su_digest>> /\ su_th[t].pc = "pin"
    BY <1>14 DEF SU!WritePins, SU!world
  <2>5. /\ su_th[t].plan \in SU!Plan /\ \A u \in su_Threads : u # t => su_th[u].pc \notin Reserved
        /\ su_pinning => su_th[t].plan.digest = su_local.digest
        /\ su_wrote.tag = su_th[t].plan.latest
    BY <2>4, <1>0 DEF PinInv, OwnerInv, Reserved, Written
  <2> QED
    BY <2>1, <2>3, <2>4, <2>5 DEF PinInv, First, Written, Reserved
<1>15. ASSUME NEW t \in su_Threads, SU!Restore(t)
      PROVE  PinInv'
  BY <1>15, <1>0 DEF SU!TypeOK, ThreadTypes, OwnerInv, Thread, First, Written, Reserved, PinInv,
     SU!Plan, SU!Restore, SU!Replace, SU!KeepBackup, SU!Go, SU!world, SU!cache, SU!text
<1>16. ASSUME NEW t \in su_Threads, SU!End(t)
      PROVE  PinInv'
  BY <1>16, <1>0 DEF SU!TypeOK, ThreadTypes, OwnerInv, Thread, First, Written, Reserved, PinInv,
     SU!Plan, SU!End, SU!Go, SU!world, SU!cache, SU!text
<1>17. ASSUME NEW t \in su_Threads, SU!Remove(t)
      PROVE  PinInv'
  BY <1>17, <1>0 DEF SU!TypeOK, ThreadTypes, OwnerInv, Thread, First, Written, Reserved, PinInv,
     SU!Plan, SU!Remove, SU!Idle, SU!world, SU!cache, SU!text
<1>18. ASSUME NEW t \in su_Threads, SU!ApplyStart(t)
      PROVE  PinInv'
  BY <1>18, <1>0 DEF SU!TypeOK, ThreadTypes, OwnerInv, Thread, First, Written, Reserved, PinInv,
     SU!Plan, SU!ApplyStart, SU!Idle, SU!world, SU!cache, SU!text
<1>19. ASSUME NEW t \in su_Threads, SU!ApplyPull(t)
      PROVE  PinInv'
  BY <1>19, <1>0 DEF SU!TypeOK, ThreadTypes, OwnerInv, Thread, First, Written, Reserved, PinInv,
     SU!Plan, SU!ApplyPull, SU!world, SU!cache, SU!text
<1>20. ASSUME NEW t \in su_Threads, SU!ApplyVerify(t)
      PROVE  PinInv'
  BY <1>20, <1>0 DEF SU!TypeOK, ThreadTypes, OwnerInv, Thread, First, Written, Reserved, PinInv,
     SU!Plan, SU!ApplyVerify, SU!Verified, SU!Go, SU!world, SU!cache, SU!text
<1>21. ASSUME NEW t \in su_Threads, SU!ApplyRefused(t)
      PROVE  PinInv'
  BY <1>21, <1>0 DEF SU!TypeOK, ThreadTypes, OwnerInv, Thread, First, Written, Reserved, PinInv,
     SU!Plan, SU!ApplyRefused, SU!Idle, SU!world, SU!cache, SU!text
<1> QED
  BY <1>1, <1>2, <1>3, <1>4, <1>5, <1>6, <1>7, <1>8, <1>9, <1>10, <1>11, <1>12, <1>13, <1>14, <1>15,
     <1>16, <1>17, <1>18, <1>19, <1>20, <1>21 DEF SU!Next

LEMMA UpdateInvInit ==
  ASSUME SelfUpdateSizes, SU!Init
  PROVE  UpdateInv
<1>1. SU!Nobody \notin su_Threads /\ SU!Idle \in Thread /\ SU!NoText \notin SU!Texts
  BY Begins, Different DEF SelfUpdateSizes
<1>2. su_th = [t \in su_Threads |-> SU!Idle] /\ SU!Idle.pc = "idle"
  BY DEF SU!Init, SU!Idle
<1>3. [tag |-> 0, pin |-> 0, edit |-> FALSE] \in SU!Texts
  BY DEF SU!Texts
<1>4. SU!TypeOK /\ ThreadTypes
  <2>1. ThreadTypes
    BY <1>1, <1>2 DEF ThreadTypes
  <2>2. \A t \in su_Threads : su_th[t] \in Thread
    BY <2>1 DEF ThreadTypes
  <2>3. su_file \in SU!Texts /\ su_disk \subseteq SU!Texts
    BY <1>3 DEF SU!Init
  <2>4. su_plans \in [SU!PlanIds -> SU!Plan \cup {SU!Gone}]
    BY DEF SU!Init
  <2>5. su_local \in [release : 0..2, digest : 0..2]
    BY DEF SU!Init
  <2>6. \A t \in su_Threads :
            /\ su_th[t].pc \in ThreadPcs /\ su_th[t].id \in 0..su_MaxPlans
            /\ su_th[t].plan \in SU!Plan \cup {SU!Gone} /\ su_th[t].row \in Rows
    BY <2>2 DEF Thread
  <2>9. su_floating \in BOOLEAN /\ su_pinning \in BOOLEAN /\ su_prepared \in BOOLEAN
    <3>1. su_floating \in BOOLEAN /\ su_pinning \in BOOLEAN /\ su_prepared = FALSE
      BY DEF SU!Init
    <3> QED BY <3>1
  <2>7. /\ su_latest \in 1..2 /\ su_digest \in 1..2 /\ su_running \in 0..2
        /\ su_owner \in su_Threads \cup {SU!Nobody} /\ su_outside \in 0..su_MaxOutside
    BY DEF SU!Init, SelfUpdateSizes
  <2>8. /\ su_backup \in SU!Texts \cup {SU!NoText} /\ su_wrote \in SU!Texts \cup {SU!NoText}
        /\ su_planFiles = {} /\ su_aged = {} /\ su_kept = {}
    BY DEF SU!Init
  <2> QED
    BY <2>1, <2>3, <2>4, <2>5, <2>6, <2>7, <2>8, <2>9 DEF SU!TypeOK, ThreadPcs, Rows
<1>5. OwnerInv /\ FileInv /\ PinInv
  BY <1>2 DEF OwnerInv, FileInv, PinInv, SU!PlanFilesCollected, First, Written, Reserved, SU!Init
<1>6. TagInv
  BY DEF TagInv, SU!Init
<1> QED
  BY <1>4, <1>5, <1>6 DEF UpdateInv

LEMMA UpdateInvStep ==
  ASSUME SelfUpdateSizes, UpdateInv, [SU!Next]_(SU!vars)
  PROVE  UpdateInv'
<1>1. Types /\ OwnerInv /\ TagInv /\ FileInv /\ PinInv
  BY DEF UpdateInv, Types
<1>2. ThreadTypes'
  BY <1>1, TypesKept
<1> QED
  BY <1>1, <1>2, TypeOKStep, OwnerStep, TagStep, FileStep, PinStep DEF UpdateInv

LEMMA UpdateInvariant == ASSUME SelfUpdateSizes PROVE SU!Spec => []UpdateInv
<1>1. SU!Init => UpdateInv
  BY UpdateInvInit
<1>2. UpdateInv /\ [SU!Next]_(SU!vars) => UpdateInv'
  BY UpdateInvStep
<1> QED
  BY <1>1, <1>2, PTL DEF SU!Spec

(* The row of a request says "tag_prepared" from the end of its preparation   *)
LEMMA ReportedAsReviewed ==
  ASSUME UpdateInv, [SU!Next]_(SU!vars), NEW t \in su_Threads,
         su_th[t].row # "tag_prepared", su_th'[t].row = "tag_prepared"
  PROVE  /\ su_file.tag = su_th[t].plan.latest
         /\ su_pinning => su_file.pin = su_th[t].plan.digest /\ su_file.pin = su_local.digest
<1>0. ThreadTypes /\ PinInv /\ \A u \in su_Threads : su_th[u] \in Thread
  BY DEF UpdateInv, ThreadTypes
<1>1. CASE UNCHANGED SU!vars \/ SU!Outside
  BY <1>1 DEF SU!vars, SU!Outside
<1>2. ASSUME NEW u \in su_Threads, ThreadStep(u), ~SU!End(u)
      PROVE  FALSE
  <2>1. CASE SU!PlanStart(u)
    BY <2>1, <1>0 DEF SU!PlanStart, SU!Idle, ThreadTypes
  <2>2. CASE SU!PlanBuild(u)
    BY <2>2, <1>0 DEF SU!PlanBuild, SU!PlanFailure, SU!Idle, ThreadTypes, Thread
  <2>3. CASE SU!PlanCache(u) \/ SU!Remove(u) \/ SU!ApplyRefused(u) \/ SU!ApplyStart(u)
    BY <2>3, <1>0 DEF SU!PlanCache, SU!Remove, SU!ApplyRefused, SU!ApplyStart, SU!Idle, ThreadTypes
  <2>9. CASE SU!PrepareStart(u)
    <3>1. PICK i \in SU!PlanIds :
              su_th' = [su_th EXCEPT ![u] = [SU!Idle EXCEPT !.pc = "check", !.id = i, !.plan = su_plans[i]]]
      BY <2>9 DEF SU!PrepareStart
    <3>2. [SU!Idle EXCEPT !.pc = "check", !.id = i, !.plan = su_plans[i]].row = "none"
      BY DEF SU!Idle
    <3> QED
      BY <3>1, <3>2, <1>0 DEF ThreadTypes
  <2>4. CASE SU!PrepareCheck(u) \/ SU!PrepareRebuild(u) \/ SU!PrepareAudit(u)
    BY <2>4, <1>0 DEF SU!PrepareCheck, SU!PrepareRebuild, SU!PrepareAudit, SU!Go, ThreadTypes,
       Thread
  <2>5. CASE SU!TakeBackup(u) \/ SU!PullTag(u) \/ SU!VerifyPins(u) \/ SU!Restore(u)
    BY <2>5, <1>0 DEF SU!TakeBackup, SU!PullTag, SU!VerifyPins, SU!Restore, SU!Go, ThreadTypes,
       Thread
  <2>6. CASE SU!WriteTag(u) \/ SU!WritePins(u)
    BY <2>6, <1>0 DEF SU!WriteTag, SU!WritePins, SU!Write, SU!Go, ThreadTypes, Thread
  <2>7. CASE SU!ApplyPull(u)
    BY <2>7, <1>0 DEF SU!ApplyPull, ThreadTypes, Thread
  <2>8. CASE SU!ApplyVerify(u)
    BY <2>8, <1>0 DEF SU!ApplyVerify, SU!Go, ThreadTypes, Thread
  <2> QED
    BY <1>2, <2>1, <2>2, <2>3, <2>4, <2>5, <2>6, <2>7, <2>8, <2>9 DEF ThreadStep
<1>3. ASSUME NEW u \in su_Threads, SU!End(u)
      PROVE  /\ su_file.tag = su_th[t].plan.latest
             /\ su_pinning => su_file.pin = su_th[t].plan.digest /\ su_file.pin = su_local.digest
  <2>1. t = u /\ su_wrote # SU!NoText
    BY <1>3, <1>0 DEF SU!End, SU!Go, ThreadTypes, Thread
  <2> QED
    BY <2>1, <1>0, <1>3 DEF SU!End, PinInv
<1> QED
  BY <1>1, <1>2, <1>3 DEF SU!Next, ThreadStep

(* The file is only replaced when it holds what the request last knew         *)
LEMMA EditKept ==
  ASSUME UpdateInv, [SU!Next]_(SU!vars), su_file.edit
  PROVE  su_file'.edit
<1>0. Types /\ OwnerInv /\ PinInv /\ ThreadTypes /\ su_file \in SU!Texts
  BY DEF UpdateInv, Types, SU!TypeOK
<1>1. CASE UNCHANGED SU!vars
  BY <1>1 DEF SU!vars, SU!text
<1>2. CASE SU!Outside
  BY <1>2, <1>0 DEF SU!Outside, SU!text, SU!Texts
<1>3. ASSUME NEW t \in su_Threads, SU!WriteTag(t)
      PROVE  su_file'.edit
  <2>1. PICK new \in SU!Texts : new.edit = su_backup.edit /\ SU!Write(t, su_backup, new, "pull")
    BY <1>3, <1>0, TagWritten
  <2> QED
    BY <2>1 DEF SU!Write, SU!Replace
<1>4. ASSUME NEW t \in su_Threads, SU!WritePins(t)
      PROVE  su_file'.edit
  <2>1. PICK new \in SU!Texts : new.edit = su_wrote.edit /\ SU!Write(t, su_wrote, new, "end")
    BY <1>4, <1>0, PinsWritten
  <2> QED
    BY <2>1 DEF SU!Write, SU!Replace
<1>5. ASSUME NEW t \in su_Threads, SU!Restore(t)
      PROVE  su_file'.edit
  BY <1>5, <1>0 DEF SU!Restore, SU!Replace, OwnerInv
<1>6. ASSUME NEW t \in su_Threads, ThreadStep(t), ~SU!WriteTag(t), ~SU!WritePins(t), ~SU!Restore(t)
      PROVE  su_file' = su_file
  BY <1>6 DEF ThreadStep, SU!PlanStart, SU!PlanBuild, SU!PlanCache, SU!PrepareStart,
     SU!PrepareCheck,
      SU!PrepareRebuild, SU!PrepareAudit, SU!TakeBackup, SU!PullTag, SU!VerifyPins, SU!End, SU!Remove, SU!ApplyStart,
      SU!ApplyPull, SU!ApplyVerify, SU!ApplyRefused, SU!text
<1> QED
  BY <1>1, <1>2, <1>3, <1>4, <1>5, <1>6 DEF SU!Next, ThreadStep

(* The threads, the Compose file and the plan files of a self-update keep     *)
(* their types (self_update.py).                                              *)
THEOREM SelfUpdateTyped == ASSUME SelfUpdateSizes PROVE SU!Spec => []SU!TypeOK
BY UpdateInvariant, PTL DEF UpdateInv

(* While a self-update rewrites the Compose file the old text is on disk or   *)
(* in a backup, also after a failure or a power loss.                         *)
THEOREM OldComposeStays == ASSUME SelfUpdateSizes PROVE SU!Spec => []SU!OldComposeKept
<1>1. UpdateInv => SU!OldComposeKept
  BY DEF UpdateInv, TagInv, OwnerInv, SU!OldComposeKept
<1> QED
  BY <1>1, UpdateInvariant, PTL

(* Every plan file on disk belongs to a cached plan or to the request that    *)
(* builds it: refused, expired and finished requests leave none behind.       *)
THEOREM FilesCollected == ASSUME SelfUpdateSizes PROVE SU!Spec => []SU!PlanFilesCollected
<1>1. UpdateInv => SU!PlanFilesCollected
  BY DEF UpdateInv, FileInv
<1> QED
  BY <1>1, UpdateInvariant, PTL

(* A preparation is reported only with the reviewed release and the reviewed, *)
(* pulled digest in the file, although plans are rebuilt and pins moved.      *)
THEOREM ReviewedPrepared == ASSUME SelfUpdateSizes PROVE SU!Spec => SU!PreparedAsReviewed
<1>1. UpdateInv /\ [SU!Next]_(SU!vars) =>
        \A t \in su_Threads :
            su_th[t].row # "tag_prepared" /\ su_th'[t].row = "tag_prepared" =>
                   /\ su_file.tag = su_th[t].plan.latest
                   /\ su_pinning => su_file.pin = su_th[t].plan.digest /\ su_file.pin = su_local.digest
  BY ReportedAsReviewed
<1> QED
  BY <1>1, UpdateInvariant, PTL DEF SU!Spec, SU!PreparedAsReviewed

(* No step of a self-update drops what an editor saved in between.            *)
THEOREM EditsSurvive == ASSUME SelfUpdateSizes PROVE SU!Spec => SU!EditsStay
<1>1. UpdateInv /\ [SU!Next]_(SU!vars) => (su_file.edit => su_file'.edit)
  BY EditKept
<1> QED
  BY <1>1, UpdateInvariant, PTL DEF SU!Spec, SU!EditsStay
-----------------------------------------------------------------------------
(****************************************************************************)
(* SelfScope                                                                *)
(****************************************************************************)

LEMMA GuardCounts == \A S : SC!Cardinality(S) = Cardinality(S)
BY Zenon DEF SC!Cardinality, Cardinality

(* A chain of network modes, hop by hop                                       *)
LEMMA Hops ==
  ASSUME ScopeSizes, sc_net \in [SC!Containers -> SC!Names], NEW c \in SC!Containers
  PROVE  /\ SC!HopsFrom(c) \in [Nat -> SC!Containers] /\ SC!HopsFrom(c)[0] = c
         /\ \A n \in Nat : SC!HopsFrom(c)[n + 1] =
                IF sc_net[SC!HopsFrom(c)[n]] = "none" THEN SC!HopsFrom(c)[n] ELSE sc_net[SC!HopsFrom(c)[n]]
<1> DEFINE next == [x \in SC!Containers |-> IF sc_net[x] = "none" THEN x ELSE sc_net[x]]
           Is(f) == f = [n \in Nat |->
                           IF n = 0 THEN c
                           ELSE IF f[n - 1] = "none" \/ sc_net[f[n - 1]] = "none" THEN f[n - 1]
                           ELSE sc_net[f[n - 1]]]
<1>1. next \in [SC!Containers -> SC!Containers]
  BY DEF SC!Names
<1>2. PICK f \in [Nat -> SC!Containers] : f[0] = c /\ \A n \in Nat : f[n + 1] = next[f[n]]
  <2> HIDE DEF next
  <2>1. \E f : Iteration(f, SC!Containers, next, c)
    BY <1>1, Iterates
  <2> QED
    BY <2>1 DEF Iteration
<1>3. Is(f)
  <2>1. ASSUME NEW n \in Nat, n # 0
        PROVE  f[n] = IF f[n - 1] = "none" \/ sc_net[f[n - 1]] = "none" THEN f[n - 1]
                      ELSE sc_net[f[n - 1]]
    <3>1. n - 1 \in Nat /\ (n - 1) + 1 = n
      BY <2>1
    <3>2. f[n] = next[f[n - 1]] /\ f[n - 1] \in SC!Containers
      BY <1>2, <3>1
    <3> QED
      BY <3>2 DEF ScopeSizes
  <2> QED
    BY <1>2, <2>1
<1>4. Is(SC!HopsFrom(c))
  <2>1. SC!HopsFrom(c) = CHOOSE g : Is(g)
    BY DEF SC!HopsFrom
  <2> HIDE DEF Is
  <2> QED
    BY <1>3, <2>1
<1> DEFINE h == SC!HopsFrom(c)
<1> HIDE DEF h
<1>5. h[0] = c /\ \A n \in Nat : h[n + 1] =
          IF h[n] = "none" \/ sc_net[h[n]] = "none" THEN h[n] ELSE sc_net[h[n]]
  <2>1. Is(h)
    BY <1>4 DEF h
  <2>2. ASSUME NEW n \in Nat
        PROVE  h[n + 1] = IF h[n] = "none" \/ sc_net[h[n]] = "none" THEN h[n] ELSE sc_net[h[n]]
    <3>1. n + 1 \in Nat /\ n + 1 # 0 /\ (n + 1) - 1 = n
      OBVIOUS
    <3> QED
      BY <2>1, <3>1
  <2>3. h[0] = c
    BY <2>1
  <2> QED
    BY <2>2, <2>3
<1>6. \A n \in Nat : h[n] \in SC!Containers
  <2> DEFINE Out == {n \in Nat : h[n] \notin SC!Containers}
  <2> SUFFICES ASSUME Out # {} PROVE FALSE
    OBVIOUS
  <2>1. PICK n \in Out : \A m \in Out : n <= m
    <3>1. Out \in SUBSET Nat
      OBVIOUS
    <3> HIDE DEF Out
    <3> QED
      BY <3>1, LeastMember
  <2>2. n # 0 /\ n \in Nat
    BY <2>1, <1>5
  <2>3. n - 1 \in Nat /\ (n - 1) + 1 = n /\ h[n - 1] \in SC!Containers
    BY <2>1, <2>2
  <2>4. h[n] = IF h[n - 1] = "none" \/ sc_net[h[n - 1]] = "none" THEN h[n - 1] ELSE sc_net[h[n - 1]]
    BY <2>3, <1>5
  <2>5. h[n] \in SC!Containers
    BY <2>3, <2>4 DEF SC!Names
  <2> QED
    BY <2>1, <2>5
<1>7. h = [n \in Nat |-> h[n]]
  BY <1>4 DEF h
<1>8. \A n \in Nat : h[n] # "none"
  BY <1>6 DEF ScopeSizes
<1> QED
  BY <1>5, <1>6, <1>7, <1>8 DEF h

(* A container that lends no network any further is the end of the chain, *)
LEMMA ChainEnds ==
  ASSUME ScopeSizes, sc_net \in [SC!Containers -> SC!Names], NEW c \in SC!Containers,
         NEW m \in Nat, sc_net[SC!HopsFrom(c)[m]] = "none", NEW n \in Nat, m <= n
  PROVE  SC!HopsFrom(c)[n] = SC!HopsFrom(c)[m]
<1> DEFINE h == SC!HopsFrom(c)
           Off == {i \in Nat : m <= i /\ h[i] # h[m]}
<1>0. \A i \in Nat : h[i + 1] = IF sc_net[h[i]] = "none" THEN h[i] ELSE sc_net[h[i]]
  BY Hops
<1> HIDE DEF h
<1> SUFFICES ASSUME Off # {} PROVE FALSE
  BY DEF h
<1>1. PICK i \in Off : \A j \in Off : i <= j
  <2>1. Off \in SUBSET Nat
    OBVIOUS
  <2> HIDE DEF Off
  <2> QED
    BY <2>1, LeastMember
<1>2. i \in Nat /\ m <= i /\ i # m /\ h[i] # h[m]
  BY <1>1
<1>3. i - 1 \in Nat /\ (i - 1) + 1 = i /\ m <= i - 1 /\ i - 1 \notin Off
  <2>1. i - 1 \in Nat /\ (i - 1) + 1 = i /\ m <= i - 1 /\ i - 1 < i
    BY <1>2
  <2> HIDE DEF Off
  <2> QED
    BY <2>1, <1>1, <1>2
<1>4. h[i - 1] = h[m]
  BY <1>3
<1>5. h[i] = h[i - 1]
  BY <1>0, <1>3, <1>4 DEF h
<1> QED
  BY <1>2, <1>4, <1>5

(* so that two ends of one chain are the same.                                *)
LEMMA OneEnd ==
  ASSUME ScopeSizes, sc_net \in [SC!Containers -> SC!Names], NEW c \in SC!Containers,
         NEW m \in Nat, NEW n \in Nat, sc_net[SC!HopsFrom(c)[m]] = "none", sc_net[SC!HopsFrom(c)[n]] = "none"
  PROVE  SC!HopsFrom(c)[m] = SC!HopsFrom(c)[n]
<1>1. CASE m <= n
  BY <1>1, ChainEnds
<1>2. CASE n <= m
  BY <1>2, ChainEnds
<1> QED
  BY <1>1, <1>2

(* The endpoint and the owner of its network                                  *)
Endpoints == {sc_server, SC!TrueOwner(sc_server)}

(* WUDup and the endpoint run; the endpoint is not WUDup, and its chain ends. *)
ChosenInv ==
    /\ sc_net \in [SC!Containers -> SC!Names] /\ (sc_server = "none" <=> sc_path = "socket")
    /\ SC!InUse \subseteq sc_running
    /\ sc_server # "none" => sc_server # sc_own /\ sc_net[SC!TrueOwner(sc_server)] = "none"

KnownInv ==
    /\ sc_protectedId \in {sc_own, "none"}
    /\ sc_mode = "named" /\ sc_pc \notin {"identity", "blocked"} => sc_protectedId = sc_own

(* The verified scope has neither WUDup nor the endpoint, *)
ScopeInv ==
    sc_pc \in {"orphans", "ready", "done"} =>
           /\ sc_mode = "named" \/ (sc_mode = "image" /\ sc_own \in sc_Defined) => sc_own \notin sc_scope
           /\ sc_path # "socket" => Endpoints \cap sc_scope = {}

(* nor have the leftover containers that are removed with it.                 *)
OrphansInv ==
    sc_pc \in {"ready", "done"} /\ ~sc_keepOrphans =>
           /\ sc_mode = "named" => sc_own \notin sc_Orphans
           /\ sc_path # "socket" => Endpoints \cap sc_Orphans = {}

TouchedInv ==
    /\ sc_pc # "done" => sc_touched = {}
    /\ SC!ProtectSelf \/ SC!HasEndpoint => sc_touched \subseteq sc_scope \cup (IF sc_keepOrphans THEN {} ELSE sc_Orphans)

GuardInv == SC!TypeOK /\ ChosenInv /\ KnownInv /\ ScopeInv /\ OrphansInv /\ TouchedInv

LEMMA Owners ==
  ASSUME ScopeSizes, SC!TypeOK, ChosenInv, sc_path # "socket"
  PROVE  /\ sc_server \in SC!Containers /\ SC!TrueOwner(sc_server) \in SC!Containers
         /\ \A x \in Endpoints : SC!NetworkOwner(x) \in {"none", SC!TrueOwner(sc_server)}
<1>1. sc_server \in SC!Containers /\ sc_net \in [SC!Containers -> SC!Names] /\ sc_net[SC!TrueOwner(sc_server)] = "none"
  BY DEF SC!TypeOK, ChosenInv, SC!Names
<1>2. Cardinality(SC!Containers) \in Nat /\ sc_HopLimit \in Nat
  BY FS_CardinalityType DEF ScopeSizes
<1>3. SC!TrueOwner(sc_server) \in SC!Containers
  BY <1>1, <1>2, Hops, GuardCounts DEF SC!TrueOwner
<1>4. SC!NetworkOwner(sc_server) \in {"none", SC!TrueOwner(sc_server)}
  BY <1>1, <1>2, OneEnd, GuardCounts DEF SC!NetworkOwner, SC!TrueOwner
<1>5. SC!NetworkOwner(SC!TrueOwner(sc_server)) \in {"none", SC!TrueOwner(sc_server)}
  <2> DEFINE t == SC!TrueOwner(sc_server)
  <2>1. t \in SC!Containers /\ sc_net[t] = "none" /\ SC!HopsFrom(t)[0] = t
    BY <1>1, <1>3, Hops
  <2> HIDE DEF t
  <2>2. SC!HopsFrom(t)[sc_HopLimit] = t
    BY <1>1, <1>2, <2>1, ChainEnds
  <2> QED
    BY <2>1, <2>2 DEF SC!NetworkOwner, t
<1> QED
  BY <1>1, <1>3, <1>4, <1>5 DEF Endpoints

(* The look at the network finds the endpoint, however it is reached.         *)
LEMMA EndpointSeen ==
  ASSUME ScopeSizes, SC!TypeOK, ChosenInv, sc_path # "socket",
         NEW C, NEW x \in Endpoints, x \in C
  PROVE  SC!EndpointHit(C)
<1>1. SC!NetworkOwner(x) \in {"none", SC!TrueOwner(sc_server)}
  BY Owners
<1>2. sc_path \in {"address", "name", "port"}
  BY DEF SC!TypeOK
<1> QED
  BY <1>1, <1>2 DEF SC!EndpointHit, SC!Serves, SC!ByAddress, SC!ByName, SC!ByPort

LEMMA ScopeDefined == ASSUME SC!TypeOK PROVE SC!UpdateScope \subseteq sc_Defined
BY DEF SC!TypeOK, SC!UpdateScope, SC!Expand, SC!Consumers, SC!Providers, SC!Missing

LEMMA GuardInvInit ==
  ASSUME ScopeSizes, SC!Init
  PROVE  GuardInv
<1>1. sc_net \in [SC!Containers -> SC!Names] /\ sc_own \in SC!Containers
  BY DEF SC!Init, ScopeSizes, SC!Containers
<1>2. ASSUME sc_server # "none" PROVE SC!TrueOwner(sc_server) \in SC!Containers
  <2>1. sc_server \in SC!Containers /\ Cardinality(SC!Containers) \in Nat
    BY <1>2, FS_CardinalityType DEF SC!Init, ScopeSizes
  <2> QED
    BY <1>1, <2>1, Hops, GuardCounts DEF SC!TrueOwner
<1>3. SC!TypeOK
  BY <1>1 DEF SC!TypeOK, SC!Init, SC!Names, ScopeSizes
<1>4. SC!InUse \subseteq sc_running
  <2>1. SC!InUse \subseteq SC!Containers
    BY <1>1, <1>2 DEF SC!InUse, SC!Init
  <2> QED
    BY <2>1 DEF SC!Init
<1>5. ChosenInv
  BY <1>1, <1>4 DEF ChosenInv, SC!Init, ScopeSizes
<1> QED
  BY <1>3, <1>5 DEF GuardInv, KnownInv, ScopeInv, OrphansInv, TouchedInv, SC!Init

LEMMA GuardInvStep ==
  ASSUME ScopeSizes, GuardInv, [SC!Next]_(SC!vars)
  PROVE  GuardInv'
<1>0. SC!TypeOK /\ ChosenInv /\ KnownInv /\ ScopeInv /\ OrphansInv /\ TouchedInv
  BY DEF GuardInv
<1>2. UNCHANGED SC!choice /\ SC!TrueOwner(sc_server)' = SC!TrueOwner(sc_server) /\ SC!InUse' = SC!InUse /\ Endpoints' = Endpoints
  <2>1. UNCHANGED SC!choice
    BY DEF SC!Next, SC!vars, SC!Identify, SC!ComputeScope, SC!Check, SC!CheckFails, SC!CheckOrphans,
       SC!Change, SC!Run
  <2>2. sc_net' = sc_net /\ sc_server' = sc_server /\ sc_own' = sc_own
    BY <2>1 DEF SC!choice
  <2>3. SC!TrueOwner(sc_server)' = SC!TrueOwner(sc_server)
    BY <2>2 DEF SC!TrueOwner, SC!HopsFrom
  <2> QED
    BY <2>1, <2>2, <2>3 DEF SC!InUse, Endpoints
<1>1. SC!TypeOK'
  <2>1. CASE SC!Identify
    BY <2>1, <1>0 DEF SC!TypeOK, SC!Identify, SC!choice, SC!Names
  <2>2. CASE SC!ComputeScope
    BY <2>2, <1>0, ScopeDefined DEF SC!TypeOK, SC!ComputeScope, SC!choice
  <2>3. CASE SC!Check \/ SC!CheckFails \/ UNCHANGED SC!vars
    BY <2>3, <1>0 DEF SC!TypeOK, SC!Check, SC!CheckFails, SC!choice, SC!vars
  <2>4. CASE SC!CheckOrphans
    <3>1. sc_keepOrphans' \in BOOLEAN
      BY <2>4, <1>0 DEF SC!TypeOK, SC!CheckOrphans, SC!KeepOrphans
    <3> QED
      BY <2>4, <3>1, <1>0 DEF SC!TypeOK, SC!CheckOrphans, SC!choice
  <2>5. CASE SC!Change
    BY <2>5, <1>0 DEF SC!TypeOK, SC!Change, SC!choice, ScopeSizes
  <2>6. CASE SC!Run
    BY <2>6, <1>0, ScopeDefined DEF SC!TypeOK, SC!Run, SC!RunScope, SC!choice, SC!Containers
  <2> QED
    BY <2>1, <2>2, <2>3, <2>4, <2>5, <2>6 DEF SC!Next
<1>3. ChosenInv'
  <2>1. sc_running' = sc_running \/ sc_running' = sc_running \ (sc_MayStop \ SC!InUse)
    BY DEF SC!Next, SC!vars, SC!choice, SC!Identify, SC!ComputeScope, SC!Check, SC!CheckFails,
       SC!CheckOrphans, SC!Change, SC!Run
  <2> QED
    BY <1>0, <1>2, <2>1 DEF ChosenInv, SC!choice
<1>4. KnownInv'
  <2>1. CASE SC!Identify
    BY <2>1, <1>0 DEF KnownInv, SC!Identify, SC!ProtectSelf, SC!choice
  <2>2. CASE SC!ComputeScope \/ SC!Check \/ SC!CheckFails \/ SC!CheckOrphans
    BY <2>2, <1>0 DEF KnownInv, SC!ComputeScope, SC!Check, SC!CheckFails, SC!CheckOrphans, SC!choice
  <2>3. CASE SC!Change \/ SC!Run \/ UNCHANGED SC!vars
    BY <2>3, <1>0 DEF KnownInv, SC!Change, SC!Run, SC!choice, SC!vars
  <2> QED
    BY <2>1, <2>2, <2>3 DEF SC!Next
<1>5. ScopeInv' /\ OrphansInv' /\ TouchedInv'
  <2>1. CASE SC!Identify
    BY <2>1, <1>0, <1>2 DEF SC!Identify, ScopeInv, OrphansInv, TouchedInv, SC!ProtectSelf,
       SC!HasEndpoint, SC!choice
  <2>2. CASE SC!ComputeScope \/ SC!CheckFails \/ SC!Change \/ UNCHANGED SC!vars
    BY <2>2, <1>0, <1>2 DEF SC!ComputeScope, SC!CheckFails, SC!Change, SC!vars, ScopeInv,
       OrphansInv, TouchedInv,
        SC!ProtectSelf, SC!HasEndpoint, SC!choice
  <2>3. CASE SC!Check
    <3>1. CASE sc_pc' = "blocked"
      BY <2>3, <3>1, <1>0, <1>2 DEF SC!Check, ScopeInv, OrphansInv, TouchedInv, SC!ProtectSelf,
         SC!HasEndpoint, SC!choice
    <3>2. CASE sc_pc' = "orphans"
      <4>1. ~SC!SelfHit(sc_scope) /\ ~(SC!HasEndpoint /\ SC!EndpointHit(SC!Looked(sc_scope)))
        BY <2>3, <3>2 DEF SC!Check
      <4>2. ASSUME sc_mode = "named" \/ (sc_mode = "image" /\ sc_own \in sc_Defined), sc_own \in sc_scope PROVE FALSE
        <5>1. sc_own \in sc_running
          BY <1>0 DEF ChosenInv, SC!InUse
        <5> QED
          BY <4>1, <4>2, <5>1, <1>0, <2>3 DEF SC!SelfHit, KnownInv, SC!Check, SC!ProtectSelf
      <4>3. ASSUME sc_path # "socket", NEW x \in Endpoints, x \in sc_scope PROVE FALSE
        <5>1. x \in sc_running
          BY <4>3, <1>0 DEF ChosenInv, SC!InUse, Endpoints
        <5>2. SC!EndpointHit(SC!Looked(sc_scope))
          BY <4>3, <5>1, <1>0, EndpointSeen DEF SC!Looked
        <5> QED
          BY <4>1, <4>3, <5>2 DEF SC!HasEndpoint
      <4> QED
        BY <2>3, <3>2, <4>2, <4>3, <1>0, <1>2 DEF SC!Check, ScopeInv, OrphansInv, TouchedInv,
           SC!ProtectSelf,
            SC!HasEndpoint, SC!choice
    <3> QED
      BY <2>3, <3>1, <3>2 DEF SC!Check
  <2>4. CASE SC!CheckOrphans
    <3>1. ScopeInv' /\ TouchedInv'
      BY <2>4, <1>0, <1>2 DEF SC!CheckOrphans, ScopeInv, TouchedInv, SC!ProtectSelf, SC!HasEndpoint,
         SC!choice
    <3>2. ASSUME ~sc_keepOrphans', sc_mode = "named", sc_own \in sc_Orphans PROVE FALSE
      BY <2>4, <3>2, <1>0 DEF SC!CheckOrphans, SC!KeepOrphans, KnownInv, SC!TypeOK, ScopeSizes
    <3>3. ASSUME ~sc_keepOrphans', sc_path # "socket", NEW x \in Endpoints, x \in sc_Orphans PROVE FALSE
      <4>1. ~SC!KeepOrphans(sc_Orphans)
        BY <2>4, <3>3 DEF SC!CheckOrphans, SC!HasEndpoint
      <4>2. x # sc_protectedId
        BY <4>1, <3>3 DEF SC!KeepOrphans
      <4>3. SC!EndpointHit(sc_Orphans \ {sc_protectedId})
        BY <3>3, <4>2, <1>0, EndpointSeen
      <4> QED
        BY <4>1, <4>3, <3>3 DEF SC!KeepOrphans, SC!HasEndpoint
    <3>4. OrphansInv'
      BY <2>4, <3>2, <3>3, <1>2 DEF SC!CheckOrphans, OrphansInv, SC!choice
    <3> QED
      BY <3>1, <3>4
  <2>5. CASE SC!Run
    BY <2>5, <1>0, <1>2 DEF SC!Run, SC!RunScope, ScopeInv, OrphansInv, TouchedInv, SC!ProtectSelf,
       SC!HasEndpoint, SC!choice
  <2> QED
    BY <2>1, <2>2, <2>3, <2>4, <2>5 DEF SC!Next
<1> QED
  BY <1>1, <1>3, <1>4, <1>5 DEF GuardInv

LEMMA GuardInvariant == ASSUME ScopeSizes PROVE SC!Spec => []GuardInv
<1>1. SC!Init => GuardInv
  BY GuardInvInit
<1>2. GuardInv /\ [SC!Next]_(SC!vars) => GuardInv'
  BY GuardInvStep
<1> QED
  BY <1>1, <1>2, PTL DEF SC!Spec

LEMMA NeitherTouched ==
  ASSUME ScopeSizes, GuardInv
  PROVE  SC!OwnSurvives /\ SC!EndpointSurvives
<1>0. SC!TypeOK /\ ScopeInv /\ OrphansInv /\ TouchedInv
  BY DEF GuardInv
<1>1. SC!OwnSurvives
  BY <1>0 DEF SC!OwnSurvives, ScopeInv, OrphansInv, TouchedInv, SC!ProtectSelf, ScopeSizes
<1>2. SC!EndpointSurvives
  BY <1>0 DEF SC!EndpointSurvives, ScopeInv, OrphansInv, TouchedInv, SC!HasEndpoint, Endpoints
<1> QED
  BY <1>1, <1>2

LEMMA BlockedForCause ==
  ASSUME ScopeSizes, GuardInv, SC!Check, sc_pc' = "blocked"
  PROVE  \/ sc_own \in sc_scope
         \/ \E c \in sc_scope : SC!NetworkOwner(c) \in {"none", SC!TrueOwner(sc_server)}
<1>1. SC!SelfHit(sc_scope) \/ SC!EndpointHit(SC!Looked(sc_scope))
  BY DEF SC!Check
<1>2. "none" \notin sc_scope /\ sc_protectedId \in {sc_own, "none"}
  BY DEF GuardInv, SC!TypeOK, KnownInv, ScopeSizes, SC!Containers
<1> QED
  BY <1>1, <1>2 DEF SC!SelfHit, SC!EndpointHit, SC!Looked, SC!Serves, SC!ByAddress, SC!ByName,
     SC!ByPort

(* No update stops, recreates or removes WUDup or its Docker endpoint, for    *)
(* every network, label and set of leftover containers (self_scope.py).       *)
THEOREM ScopeSafe == ASSUME ScopeSizes PROVE SC!Spec => [](SC!TypeOK /\ SC!OwnSurvives /\ SC!EndpointSurvives)
<1>1. GuardInv => SC!TypeOK /\ SC!OwnSurvives /\ SC!EndpointSurvives
  BY NeitherTouched DEF GuardInv
<1> QED
  BY <1>1, GuardInvariant, PTL

(* The guard refuses an update only if its scope reaches WUDup or the         *)
(* endpoint, or if it could not be found out.                                 *)
THEOREM BlocksForCause == ASSUME ScopeSizes PROVE SC!Spec => SC!NotBlockedInVain
<1>1. GuardInv => (SC!Check /\ sc_pc' = "blocked" =>
           \/ sc_own \in sc_scope
           \/ \E c \in sc_scope : SC!NetworkOwner(c) \in {"none", SC!TrueOwner(sc_server)})
  BY BlockedForCause
<1> QED
  BY <1>1, GuardInvariant, PTL DEF SC!NotBlockedInVain

-----------------------------------------------------------------------------
(****************************************************************************)
(* CommandProcesses                                                         *)
(****************************************************************************)

LEMMA OutputCounts == \A S : CP!Cardinality(S) = Cardinality(S)
BY Zenon DEF CP!Cardinality, Cardinality

(* Parts of a sequence: their elements, their parts, and two that follow one  *)
(* another                                                                    *)
LEMMA PartOf ==
  ASSUME NEW S, NEW s \in Seq(S), NEW p \in Nat, NEW q \in Nat, p <= q, q <= Len(s)
  PROVE  /\ SubSeq(s, p + 1, q) \in Seq(S) /\ Len(SubSeq(s, p + 1, q)) = q - p
         /\ \A i \in 1..(q - p) : SubSeq(s, p + 1, q)[i] = s[p + i]
<1>1. \A i \in (p + 1)..q : s[i] \in S
  OBVIOUS
<1>2. SubSeq(s, p + 1, q) = [i \in 1..(q - p) |-> s[p + i]]
  OBVIOUS
<1> QED
  BY <1>1, <1>2

LEMMA PartOfPart ==
  ASSUME NEW S, NEW s \in Seq(S), NEW p \in Nat, NEW q \in Nat, p <= q, q <= Len(s),
         NEW a \in Nat, NEW b \in Nat, a <= b, b <= q - p
  PROVE  SubSeq(SubSeq(s, p + 1, q), a + 1, b) = SubSeq(s, p + a + 1, p + b)
<1> DEFINE t == SubSeq(s, p + 1, q)
<1>1. t \in Seq(S) /\ Len(t) = q - p /\ \A i \in 1..(q - p) : t[i] = s[p + i]
  BY PartOf
<1> HIDE DEF t
<1>2. /\ SubSeq(t, a + 1, b) \in Seq(S) /\ Len(SubSeq(t, a + 1, b)) = b - a
      /\ \A i \in 1..(b - a) : SubSeq(t, a + 1, b)[i] = t[a + i]
  BY <1>1, PartOf
<1>3. p + a \in Nat /\ p + b \in Nat /\ p + a <= p + b /\ p + b <= Len(s)
  OBVIOUS
<1>4. /\ SubSeq(s, p + a + 1, p + b) \in Seq(S) /\ Len(SubSeq(s, p + a + 1, p + b)) = b - a
      /\ \A i \in 1..(b - a) : SubSeq(s, p + a + 1, p + b)[i] = s[p + a + i]
  BY <1>3, PartOf
<1>5. \A i \in 1..(b - a) : a + i \in 1..(q - p) /\ t[a + i] = s[p + a + i]
  BY <1>1
<1> QED
  BY <1>2, <1>4, <1>5 DEF t

LEMMA PartsJoin ==
  ASSUME NEW S, NEW s \in Seq(S), NEW p \in Nat, NEW q \in Nat, NEW r \in Nat,
         p <= q, q <= r, r <= Len(s)
  PROVE  SubSeq(s, p + 1, q) \o SubSeq(s, q + 1, r) = SubSeq(s, p + 1, r)
<1> DEFINE a == SubSeq(s, p + 1, q)
           b == SubSeq(s, q + 1, r)
           c == SubSeq(s, p + 1, r)
<1>1. a \in Seq(S) /\ Len(a) = q - p /\ \A i \in 1..(q - p) : a[i] = s[p + i]
  BY PartOf
<1>2. b \in Seq(S) /\ Len(b) = r - q /\ \A i \in 1..(r - q) : b[i] = s[q + i]
  <2>1. q <= Len(s)
    OBVIOUS
  <2> QED
    BY <2>1, PartOf
<1>3. c \in Seq(S) /\ Len(c) = r - p /\ \A i \in 1..(r - p) : c[i] = s[p + i]
  <2>1. p <= r
    OBVIOUS
  <2> QED
    BY <2>1, PartOf
<1> HIDE DEF a, b, c
<1>4. a \o b \in Seq(S) /\ Len(a \o b) = r - p
  BY <1>1, <1>2
<1>5. ASSUME NEW i \in 1..(r - p) PROVE (a \o b)[i] = c[i]
  <2>1. CASE i <= q - p
    BY <2>1, <1>1, <1>2, <1>3
  <2>2. CASE ~(i <= q - p)
    <3>1. (a \o b)[i] = b[i - (q - p)] /\ i - (q - p) \in 1..(r - q)
      BY <2>2, <1>1, <1>2
    <3>2. b[i - (q - p)] = s[q + (i - (q - p))] /\ q + (i - (q - p)) = p + i
      BY <3>1, <1>2
    <3> QED
      BY <3>1, <3>2, <1>3
  <2> QED
    BY <2>1, <2>2
<1> DEFINE x == a \o b
<1> HIDE DEF x
<1>6. x \in Seq(S) /\ Len(x) = r - p /\ \A i \in 1..(r - p) : x[i] = c[i]
  BY <1>4, <1>5 DEF x
<1>7. x = c
  BY <1>3, <1>6
<1> QED
  BY <1>7 DEF a, b, c, x

-----------------------------------------------------------------------------
(* Lines that tile a stretch of the text s: line k ends at c[k], where the    *)
(* next one begins.                                                           *)
Tiles(c, lines, s) ==
    /\ c \in [0..Len(lines) -> 0..Len(s)]
    /\ \A k \in 1..Len(lines) : c[k - 1] <= c[k] /\ lines[k] = SubSeq(s, c[k - 1] + 1, c[k])

TilesFrom(lines, s, p, q) ==
    \E c : Tiles(c, lines, s) /\ c[0] = p /\ c[Len(lines)] = q

LEMMA TilesJoin ==
  ASSUME NEW S, NEW s \in Seq(S), NEW a \in Seq(Seq(S)), NEW b \in Seq(Seq(S)),
         NEW p, NEW q, NEW r, TilesFrom(a, s, p, q), TilesFrom(b, s, q, r)
  PROVE  TilesFrom(a \o b, s, p, r)
<1>1. PICK c : Tiles(c, a, s) /\ c[0] = p /\ c[Len(a)] = q
  BY DEF TilesFrom
<1>2. PICK d : Tiles(d, b, s) /\ d[0] = q /\ d[Len(b)] = r
  BY DEF TilesFrom
<1> DEFINE l == a \o b
           e == [k \in 0..Len(l) |-> IF k <= Len(a) THEN c[k] ELSE d[k - Len(a)]]
<1>3. /\ Len(a) \in Nat /\ Len(b) \in Nat /\ Len(l) = Len(a) + Len(b) /\ l \in Seq(Seq(S))
      /\ \A k \in 1..Len(a) : l[k] = a[k]
      /\ \A k \in (Len(a) + 1)..Len(l) : l[k] = b[k - Len(a)]
  OBVIOUS
<1> HIDE DEF l
<1>4. e \in [0..Len(l) -> 0..Len(s)]
  <2> SUFFICES ASSUME NEW k \in 0..Len(l)
               PROVE  (IF k <= Len(a) THEN c[k] ELSE d[k - Len(a)]) \in 0..Len(s)
    OBVIOUS
  <2>1. CASE k <= Len(a)
    <3>1. k \in 0..Len(a)
      BY <2>1, <1>3
    <3> QED
      BY <2>1, <3>1, <1>1 DEF Tiles
  <2>2. CASE ~(k <= Len(a))
    <3>1. k - Len(a) \in 0..Len(b)
      BY <2>2, <1>3
    <3> QED
      BY <2>2, <3>1, <1>2 DEF Tiles
  <2> QED
    BY <2>1, <2>2
<1>5. ASSUME NEW k \in 1..Len(l)
      PROVE  e[k - 1] <= e[k] /\ l[k] = SubSeq(s, e[k - 1] + 1, e[k])
  <2>0. k - 1 \in 0..Len(l) /\ k \in 0..Len(l)
    BY <1>3
  <2>1. CASE k <= Len(a)
    <3>1. k \in 1..Len(a) /\ k - 1 <= Len(a)
      BY <2>1, <1>3
    <3>2. e[k - 1] = c[k - 1] /\ e[k] = c[k] /\ l[k] = a[k]
      BY <2>0, <2>1, <3>1, <1>3
    <3> QED
      BY <3>1, <3>2, <1>1 DEF Tiles
  <2>2. CASE k = Len(a) + 1
    <3>1. /\ 1 \in 1..Len(b) /\ ~(k <= Len(a)) /\ k - 1 = Len(a) /\ k - Len(a) = 1
          /\ k - 1 <= Len(a) /\ k \in (Len(a) + 1)..Len(l)
      BY <2>2, <1>3
    <3>2. e[k - 1] = c[Len(a)]
      BY <2>0, <3>1
    <3>4. e[k] = d[1]
      BY <2>0, <3>1
    <3>5. l[k] = b[1]
      BY <3>1, <1>3
    <3>3. d[1 - 1] <= d[1] /\ b[1] = SubSeq(s, d[1 - 1] + 1, d[1]) /\ 1 - 1 = 0
      BY <3>1, <1>2 DEF Tiles
    <3> QED
      BY <3>2, <3>3, <3>4, <3>5, <1>1, <1>2
  <2>3. CASE k > Len(a) + 1
    <3>1. /\ k - Len(a) \in 1..Len(b) /\ ~(k - 1 <= Len(a)) /\ ~(k <= Len(a))
          /\ (k - 1) - Len(a) = (k - Len(a)) - 1 /\ k \in (Len(a) + 1)..Len(l)
      <4>1. Len(a) \in Nat /\ Len(b) \in Nat /\ Len(l) = Len(a) + Len(b)
        BY <1>3
      <4>2. k \in Nat /\ k <= Len(a) + Len(b) /\ k > Len(a) + 1
        BY <2>3, <4>1
      <4> QED
        BY <4>1, <4>2
    <3>2. e[k - 1] = d[(k - Len(a)) - 1] /\ e[k] = d[k - Len(a)] /\ l[k] = b[k - Len(a)]
      BY <2>0, <3>1, <1>3
    <3> QED
      BY <3>1, <3>2, <1>2 DEF Tiles
  <2>4. k \in Int /\ Len(a) \in Int
    BY <1>3
  <2>5. k <= Len(a) \/ k = Len(a) + 1 \/ k > Len(a) + 1
    BY <2>4
  <2> QED
    BY <2>1, <2>2, <2>3, <2>5
<1>6. e[0] = p /\ e[Len(l)] = r
  <2>1. 0 \in 0..Len(l) /\ Len(l) \in 0..Len(l) /\ 0 <= Len(a)
    BY <1>3
  <2>2. CASE Len(b) = 0
    BY <2>1, <2>2, <1>1, <1>2, <1>3
  <2>3. CASE Len(b) # 0
    <3>1. ~(Len(l) <= Len(a)) /\ Len(l) - Len(a) = Len(b)
      BY <2>3, <1>3
    <3> QED
      BY <2>1, <3>1, <1>1, <1>2
  <2> QED
    BY <2>2, <2>3
<1>7. Tiles(e, l, s)
  <2> HIDE DEF e
  <2> QED
    BY <1>4, <1>5 DEF Tiles
<1> QED
  BY <1>6, <1>7 DEF TilesFrom, l

LEMMA TilesEnd ==
  ASSUME NEW S, NEW s \in Seq(S), NEW a \in Seq(Seq(S)), NEW p, NEW q,
         TilesFrom(a, s, p, q), NEW m \in 1..(Len(a) + 1)
  PROVE  \E o \in 0..Len(s) : TilesFrom(SubSeq(a, m, Len(a)), s, o, q) /\ (m = 1 => o = p)
<1>1. PICK c : Tiles(c, a, s) /\ c[0] = p /\ c[Len(a)] = q
  BY DEF TilesFrom
<1> DEFINE l == SubSeq(a, m, Len(a))
           e == [k \in 0..Len(l) |-> c[k + (m - 1)]]
<1>2. /\ Len(a) \in Nat /\ l \in Seq(Seq(S)) /\ Len(l) = Len(a) - (m - 1)
      /\ \A k \in 1..Len(l) : l[k] = a[k + (m - 1)]
  <2>1. m - 1 \in Nat /\ m - 1 <= Len(a) /\ (m - 1) + 1 = m
    OBVIOUS
  <2>2. /\ SubSeq(a, (m - 1) + 1, Len(a)) \in Seq(Seq(S))
        /\ Len(SubSeq(a, (m - 1) + 1, Len(a))) = Len(a) - (m - 1)
        /\ \A i \in 1..(Len(a) - (m - 1)) : SubSeq(a, (m - 1) + 1, Len(a))[i] = a[(m - 1) + i]
    BY <2>1, PartOf
  <2> QED
    BY <2>1, <2>2
<1> HIDE DEF l
<1>3. e \in [0..Len(l) -> 0..Len(s)]
  <2>1. \A k \in 0..Len(l) : k + (m - 1) \in 0..Len(a)
    BY <1>2
  <2> QED
    BY <2>1, <1>1 DEF Tiles
<1>4. ASSUME NEW k \in 1..Len(l)
      PROVE  e[k - 1] <= e[k] /\ l[k] = SubSeq(s, e[k - 1] + 1, e[k])
  <2>0. Len(l) \in Nat /\ m \in Nat /\ Len(a) \in Nat /\ Len(l) = Len(a) - (m - 1)
    BY <1>2
  <2>1. /\ k + (m - 1) \in 1..Len(a) /\ (k - 1) + (m - 1) = (k + (m - 1)) - 1
        /\ k - 1 \in 0..Len(l) /\ k \in 0..Len(l)
    BY <2>0
  <2>2. e[k - 1] = c[(k + (m - 1)) - 1] /\ e[k] = c[k + (m - 1)] /\ l[k] = a[k + (m - 1)]
    BY <2>1, <1>2
  <2> QED
    BY <2>1, <2>2, <1>1 DEF Tiles
<1>5. e[0] \in 0..Len(s) /\ (m = 1 => e[0] = p) /\ e[Len(l)] = q
  <2>0. Len(l) \in Nat /\ m \in Nat /\ Len(a) \in Nat /\ Len(l) = Len(a) - (m - 1)
    BY <1>2
  <2>1. 0 \in 0..Len(l) /\ Len(l) \in 0..Len(l) /\ Len(l) + (m - 1) = Len(a)
    BY <2>0
  <2>2. e[0] = c[m - 1] /\ e[Len(l)] = c[Len(a)]
    <3>1. 0 + (m - 1) = m - 1
      BY <2>0
    <3> QED
      BY <2>1, <3>1
  <2>4. e[0] \in 0..Len(s)
    <3> HIDE DEF e
    <3> QED
      BY <2>1, <1>3
  <2>3. m = 1 => m - 1 = 0
    OBVIOUS
  <2> QED
    BY <2>2, <2>3, <2>4, <1>1
<1>6. Tiles(e, l, s)
  <2> HIDE DEF e
  <2> QED
    BY <1>3, <1>4 DEF Tiles
<1> QED
  BY <1>5, <1>6 DEF TilesFrom, l
-----------------------------------------------------------------------------
(* A finite set of numbers has a greatest one, *)
LEMMA GreatestIs ==
  ASSUME NEW n \in Nat, NEW E \in SUBSET (1..n), E # {}
  PROVE  CP!Max(E) \in E /\ \A i \in E : i <= CP!Max(E)
<1> DEFINE D == {n - i : i \in E}
<1>1. PICK d \in D : \A x \in D : d <= x
  <2>1. D \in SUBSET Nat /\ D # {}
    <3>1. \A i \in E : i \in 1..n
      OBVIOUS
    <3>2. \A i \in 1..n : n - i \in Nat
      OBVIOUS
    <3> QED
      BY <3>1, <3>2
  <2> HIDE DEF D
  <2> QED
    BY <2>1, LeastMember
<1>2. PICK m \in E : d = n - m
  BY <1>1
<1>3. \A i \in E : m >= i
  <2> SUFFICES ASSUME NEW i \in E PROVE m >= i
    OBVIOUS
  <2>1. n - m <= n - i
    BY <1>1, <1>2
  <2> QED
    BY <2>1
<1>4. CP!Max(E) \in E /\ \A i \in E : CP!Max(E) >= i
  BY <1>2, <1>3 DEF CP!Max
<1> QED
  BY <1>4

(* and there is a sequence of its members in their order, which ends with the *)
(* greatest.                                                                  *)
Ordered(e, E) ==
    e \in [1..Cardinality(E) -> E] /\ \A k, l \in DOMAIN e : k < l => e[k] < e[l]

LEMMA OrderExists ==
  ASSUME NEW n \in Nat, NEW E \in SUBSET (1..n)
  PROVE  /\ IsFiniteSet(E) /\ Cardinality(E) \in Nat
         /\ \E e : Ordered(e, E)
<1>1. IsFiniteSet(1..n)
  BY FS_Interval
<1>0. E \in SUBSET Nat
  OBVIOUS
<1>2. IsFiniteSet(E) /\ Cardinality(E) \in Nat /\ E \in SUBSET Nat
  BY <1>0, <1>1, FS_Subset, FS_CardinalityType
<1> DEFINE at(k) == CHOOSE i \in E : Rank(E, i) = k - 1
           e == [k \in 1..Cardinality(E) |-> at(k)]
<1>3. ASSUME NEW k \in 1..Cardinality(E) PROVE at(k) \in E /\ Rank(E, at(k)) = k - 1
  <2>1. k - 1 \in Nat /\ k - 1 < Cardinality(E)
    BY <1>2
  <2>2. \E i \in E : Rank(E, i) = k - 1
    BY <1>2, <2>1, RankOnto
  <2> QED
    BY <2>2
<1> HIDE DEF at
<1>4. ASSUME NEW k \in 1..Cardinality(E), NEW l \in 1..Cardinality(E), k < l
      PROVE  at(k) < at(l)
  <2>1. at(k) \in Nat /\ at(l) \in Nat
    BY <1>2, <1>3
  <2>2. CASE at(k) = at(l)
    BY <1>3, <1>4, <2>2
  <2>3. CASE at(l) < at(k)
    <3>1. Rank(E, at(l)) < Rank(E, at(k))
      BY <1>2, <1>3, <2>3, RankGrows
    <3> QED
      BY <1>3, <1>4, <3>1
  <2> QED
    BY <2>1, <2>2, <2>3
<1>5. Ordered(e, E)
  BY <1>3, <1>4 DEF Ordered
<1> QED
  BY <1>2, <1>5

LEMMA OrderEnds ==
  ASSUME NEW n \in Nat, NEW E \in SUBSET (1..n), E # {}, NEW e, Ordered(e, E)
  PROVE  Cardinality(E) \in Nat \ {0} /\ e[Cardinality(E)] = CP!Max(E)
<1>1. IsFiniteSet(E) /\ Cardinality(E) \in Nat
  BY OrderExists
<1>0. \A i \in E : i \in Nat
  OBVIOUS
<1> DEFINE N == 1..Cardinality(E)
           R == {e[k] : k \in N}
<1>2. /\ e \in [N -> E]
      /\ \A k, l \in N : k < l => e[k] < e[l]
  BY DEF Ordered
<1>3. \A k, l \in N : e[k] = e[l] => k = l
  <2> SUFFICES ASSUME NEW k \in N, NEW l \in N, e[k] = e[l], k # l PROVE FALSE
    OBVIOUS
  <2>1. k < l \/ l < k
    BY <1>1
  <2>2. e[k] \in Nat
    BY <1>0, <1>2
  <2> QED
    BY <2>1, <2>2, <1>2
<1>4. IsFiniteSet(N) /\ Cardinality(N) = Cardinality(E)
  BY <1>1, FS_Interval
<1>5. R \in SUBSET E
  BY <1>2
<1>6. Cardinality(R) = Cardinality(E)
  <2>1. e \in Bijection(N, R)
    BY <1>2, <1>3 DEF Bijection, Injection, Surjection, IsInjective
  <2> QED
    BY <2>1, <1>4, FS_Bijection DEF ExistsBijection
<1>7. R = E
  BY <1>1, <1>5, <1>6, FS_Subset
<1>8. CP!Max(E) \in E /\ \A i \in E : i <= CP!Max(E)
  BY GreatestIs
<1>9. PICK k \in N : e[k] = CP!Max(E)
  BY <1>7, <1>8
<1>10. Cardinality(E) # 0 /\ Cardinality(E) \in N
  BY <1>1, <1>9
<1>11. k = Cardinality(E)
  <2> SUFFICES ASSUME k < Cardinality(E) PROVE FALSE
    BY <1>1
  <2>1. e[k] < e[Cardinality(E)] /\ e[Cardinality(E)] \in E
    BY <1>2, <1>10
  <2>2. e[Cardinality(E)] \in Nat /\ e[k] \in Nat
    <3>1. e[k] \in E
      BY <1>2
    <3> QED
      BY <3>1, <2>1, <1>0
  <2> QED
    BY <2>1, <2>2, <1>8, <1>9
<1> QED
  BY <1>1, <1>9, <1>10, <1>11

(* The lines of a text tile it up to the end of the last one.                 *)
LEMMA LinesTile ==
  ASSUME NEW S, NEW s \in Seq(S), NEW p \in Nat, NEW q \in Nat, p <= q, q <= Len(s)
  PROVE  LET t == SubSeq(s, p + 1, q)
         IN  /\ CP!Complete(t) \in 0..(q - p) /\ CP!SplitLines(t) \in Seq(Seq(S))
             /\ TilesFrom(CP!SplitLines(t), s, p, p + CP!Complete(t))
<1> DEFINE t == SubSeq(s, p + 1, q)
           E == {i \in 1..Len(t) : CP!LineEnd(t, i)}
<1>1. t \in Seq(S) /\ Len(t) = q - p
  BY PartOf
<1>2. ASSUME NEW a \in Nat, NEW b \in Nat, a <= b, b <= Len(t)
      PROVE  SubSeq(t, a + 1, b) \in Seq(S) /\ SubSeq(t, a + 1, b) = SubSeq(s, p + a + 1, p + b)
  <2>1. b <= q - p
    BY <1>1, <1>2
  <2>2. SubSeq(t, a + 1, b) = SubSeq(s, p + a + 1, p + b)
    BY <1>2, <2>1, PartOfPart
  <2> HIDE DEF t
  <2>3. SubSeq(t, a + 1, b) \in Seq(S)
    BY <1>1, <1>2, PartOf
  <2> QED
    BY <2>2, <2>3
<1>3. q - p \in Nat /\ CP!Complete(t) = IF E = {} THEN 0 ELSE CP!Max(E)
  BY DEF CP!Complete
<1> HIDE DEF t
<1>4. E \in SUBSET (1..Len(t)) /\ Len(t) \in Nat
  BY <1>1
<1>5. E # {} => CP!Max(E) \in E /\ \A i \in E : i <= CP!Max(E)
  BY <1>4, GreatestIs
<1>6. CP!Complete(t) \in 0..(q - p) /\ E = {i \in 1..CP!Complete(t) : CP!LineEnd(t, i)}
  <2>1. CASE E = {}
    <3>1. CP!Complete(t) = 0 /\ 1..CP!Complete(t) = {}
      BY <1>3, <2>1
    <3> QED
      BY <2>1, <3>1, <1>3
  <2>2. CASE E # {}
    <3>1. CP!Complete(t) \in E /\ \A i \in E : i <= CP!Complete(t)
      BY <1>3, <1>5, <2>2
    <3>2. CP!Complete(t) \in 1..Len(t)
      BY <3>1
    <3> QED
      BY <3>1, <3>2, <1>1
  <2> QED
    BY <2>1, <2>2
<1> DEFINE ends == CHOOSE e \in [1..Cardinality(E) -> E] :
                       \A k, l \in DOMAIN e : k < l => e[k] < e[l]
<1>7. CP!SplitLines(t) = [k \in 1..Cardinality(E) |->
                             SubSeq(t, IF k = 1 THEN 1 ELSE ends[k - 1] + 1, ends[k])]
  <2> DEFINE F == {i \in 1..CP!Complete(t) : CP!LineEnd(t, i)}
             endsF == CHOOSE e \in [1..Cardinality(F) -> F] :
                          \A k, l \in DOMAIN e : k < l => e[k] < e[l]
  <2>0. CP!Cardinality(F) = Cardinality(F)
    BY OutputCounts
  <2>1. CP!SplitLines(t) = [k \in 1..Cardinality(F) |->
                               SubSeq(t, IF k = 1 THEN 1 ELSE endsF[k - 1] + 1, endsF[k])]
    <3> DEFINE endsC == CHOOSE e \in [1..CP!Cardinality(F) -> F] :
                            \A k, l \in DOMAIN e : k < l => e[k] < e[l]
    <3>1. CP!SplitLines(t) = [k \in 1..CP!Cardinality(F) |->
                              SubSeq(t, IF k = 1 THEN 1 ELSE endsC[k - 1] + 1, endsC[k])]
      BY Zenon DEF CP!SplitLines
    <3> QED
      BY <2>0, <3>1, Zenon
  <2>2. E = F
    BY <1>6
  <2> HIDE DEF E, F
  <2> QED
    BY <2>1, <2>2
<1> HIDE DEF E
<1>8. Ordered(ends, E) /\ Cardinality(E) \in Nat
  <2>1. Cardinality(E) \in Nat /\ \E e : Ordered(e, E)
    BY <1>4, OrderExists
  <2> QED
    BY <2>1 DEF Ordered
<1> HIDE DEF ends
<1> DEFINE n == Cardinality(E)
           c == [k \in 0..n |-> IF k = 0 THEN p ELSE p + ends[k]]
           l == CP!SplitLines(t)
<1> HIDE DEF n
<1>9. /\ n \in Nat /\ \A k \in 1..n : ends[k] \in 1..Len(t)
      /\ \A k \in 1..n : k # 1 => ends[k - 1] \in 1..Len(t) /\ ends[k - 1] < ends[k]
      /\ l = [k \in 1..n |-> SubSeq(t, IF k = 1 THEN 1 ELSE ends[k - 1] + 1, ends[k])]
  <2>1. n \in Nat /\ ends \in [1..n -> E] /\ \A k, m \in 1..n : k < m => ends[k] < ends[m]
    BY <1>8 DEF Ordered, n
  <2>2. \A k \in 1..n : ends[k] \in 1..Len(t)
    BY <1>4, <2>1
  <2>3. \A k \in 1..n : k # 1 => k - 1 \in 1..n /\ k - 1 < k
    BY <2>1
  <2> QED
    BY <1>7, <2>1, <2>2, <2>3 DEF n
<1> HIDE DEF l
<1>10. ASSUME NEW k \in 1..n
       PROVE  /\ c[k - 1] \in 0..Len(s) /\ c[k] \in 0..Len(s) /\ c[k - 1] <= c[k]
              /\ l[k] \in Seq(S) /\ l[k] = SubSeq(s, c[k - 1] + 1, c[k])
  <2> DEFINE a == IF k = 1 THEN 0 ELSE ends[k - 1]
             b == ends[k]
  <2>1. a \in Nat /\ b \in Nat /\ a <= b /\ b <= Len(t)
    BY <1>1, <1>4, <1>9
  <2>2. l[k] = SubSeq(t, a + 1, b)
    <3>1. l[k] = SubSeq(t, IF k = 1 THEN 1 ELSE ends[k - 1] + 1, ends[k])
      BY <1>9
    <3>2. a + 1 = IF k = 1 THEN 1 ELSE ends[k - 1] + 1
      OBVIOUS
    <3> QED
      BY <3>1, <3>2
  <2>3. c[k - 1] = p + a /\ c[k] = p + b
    <3>1. k - 1 \in 0..n /\ k \in 0..n /\ k # 0 /\ (k = 1 <=> k - 1 = 0)
      BY <1>9
    <3> QED
      BY <3>1
  <2> HIDE DEF a, b, c
  <2>4. SubSeq(t, a + 1, b) \in Seq(S) /\ SubSeq(t, a + 1, b) = SubSeq(s, p + a + 1, p + b)
    BY <2>1, <1>2
  <2>5. p + a \in 0..Len(s) /\ p + b \in 0..Len(s) /\ p + a <= p + b
    BY <2>1, <1>1
  <2> QED
    BY <2>2, <2>3, <2>4, <2>5
<1>11. Len(l) = n /\ l \in Seq(Seq(S))
  <2>1. n \in Nat /\ DOMAIN l = 1..n /\ l = [k \in 1..n |-> l[k]] /\ \A k \in 1..n : l[k] \in Seq(S)
    BY <1>9, <1>10
  <2>2. l \in [1..n -> Seq(S)]
    BY <2>1
  <2> QED
    BY <2>1, <2>2
<1>12. Tiles(c, l, s)
  <2>1. c \in [0..n -> 0..Len(s)]
    <3>1. p \in 0..Len(s) /\ \A k \in 1..n : p + ends[k] \in 0..Len(s)
      BY <1>1, <1>9
    <3> QED
      BY <3>1, <1>9
  <2> HIDE DEF c
  <2> QED
    BY <2>1, <1>10, <1>11 DEF Tiles
<1>13. c[0] = p /\ c[n] = p + CP!Complete(t)
  <2>1. CASE E = {}
    <3>1. n = 0 /\ CP!Complete(t) = 0
      BY <2>1, <1>3, FS_EmptySet DEF n, E
    <3> QED
      BY <3>1
  <2>2. CASE E # {}
    <3>1. n \in Nat \ {0} /\ ends[n] = CP!Max(E)
      BY <1>4, <1>8, <2>2, OrderEnds DEF n
    <3>2. CP!Complete(t) = CP!Max(E)
      BY <1>3, <2>2 DEF E
    <3> QED
      BY <3>1, <3>2
  <2> QED
    BY <2>1, <2>2
<1>14. TilesFrom(l, s, p, p + CP!Complete(t))
  <2> HIDE DEF c
  <2> QED
    BY <1>11, <1>12, <1>13 DEF TilesFrom
<1> QED
  BY <1>6, <1>11, <1>14 DEF l, t
-----------------------------------------------------------------------------
Alphabet == {"x", "r", "n"}
Tails == [lines : Seq(Seq(Alphabet)), partial : Seq(Alphabet), count : Nat]

(* The tail t holds the end of the first q characters of s: lines that follow *)
(* one another up to the unfinished one, from the beginning if none has been  *)
(* left out.                                                                  *)
TailIs(t, s, q) ==
    /\ t \in Tails /\ Len(t.lines) <= cp_MaxLines /\ Len(t.lines) <= t.count
    /\ \E o \in 0..Len(s), p \in 0..q :
           /\ TilesFrom(t.lines, s, o, p) /\ t.partial = SubSeq(s, p + 1, q)
           /\ t.count <= cp_MaxLines => o = 0

LEMMA AppendedTiles ==
  ASSUME OutputSizes, NEW s \in Seq(Alphabet), NEW t \in Tails, Len(t.lines) <= t.count,
         NEW o \in 0..Len(s), NEW p, TilesFrom(t.lines, s, o, p), t.count <= cp_MaxLines => o = 0,
         NEW l \in Seq(Seq(Alphabet)), NEW r, TilesFrom(l, s, p, r)
  PROVE  LET u == CP!Appended(t, l)
         IN  /\ u \in Tails /\ u.partial = t.partial
             /\ Len(u.lines) <= cp_MaxLines /\ Len(u.lines) <= u.count
             /\ \E b \in 0..Len(s) : TilesFrom(u.lines, s, b, r) /\ (u.count <= cp_MaxLines => b = 0)
<1> DEFINE all == t.lines \o l
           m == IF Len(all) > cp_MaxLines THEN Len(all) - cp_MaxLines + 1 ELSE 1
           u == CP!Appended(t, l)
<1>1. t.lines \in Seq(Seq(Alphabet)) /\ t.count \in Nat /\ t.partial \in Seq(Alphabet)
  BY DEF Tails
<1>2. /\ all \in Seq(Seq(Alphabet)) /\ Len(all) \in Nat /\ Len(all) <= t.count + Len(l)
      /\ Len(l) \in Nat
  BY <1>1
<1>3. TilesFrom(all, s, o, r)
  BY <1>1, TilesJoin
<1> HIDE DEF all
<1>4. m \in 1..(Len(all) + 1) /\ Len(all) - (m - 1) <= cp_MaxLines /\ (Len(all) <= cp_MaxLines => m = 1)
  BY <1>2 DEF OutputSizes
<1>5. /\ SubSeq(all, m, Len(all)) \in Seq(Seq(Alphabet))
      /\ Len(SubSeq(all, m, Len(all))) = Len(all) - (m - 1)
  <2>1. m - 1 \in Nat /\ m - 1 <= Len(all) /\ (m - 1) + 1 = m
    BY <1>2, <1>4
  <2> HIDE DEF m
  <2> QED
    BY <1>2, <2>1, PartOf
<1>6. u = [t EXCEPT !.count = t.count + Len(l), !.lines = SubSeq(all, m, Len(all))]
  BY DEF CP!Appended, all
<1>7. PICK b \in 0..Len(s) : TilesFrom(SubSeq(all, m, Len(all)), s, b, r) /\ (m = 1 => b = o)
  <2> HIDE DEF m
  <2> QED
    BY <1>2, <1>3, <1>4, TilesEnd
<1>8. /\ u.lines = SubSeq(all, m, Len(all)) /\ u.partial = t.partial
      /\ u.count = t.count + Len(l) /\ u \in Tails
  <2> DEFINE x == SubSeq(all, m, Len(all))
             y == t.count + Len(l)
  <2>1. x \in Seq(Seq(Alphabet)) /\ y \in Nat /\ u = [t EXCEPT !.count = y, !.lines = x]
    BY <1>1, <1>2, <1>5, <1>6
  <2> HIDE DEF m, x, y, u
  <2>2. u.lines = x /\ u.count = y /\ u.partial = t.partial /\ u \in Tails
    BY <2>1 DEF Tails
  <2> QED
    BY <2>2 DEF x, y
<1> HIDE DEF u
<1>9. Len(u.lines) <= cp_MaxLines /\ Len(u.lines) <= u.count
  <2>1. Len(all) - (m - 1) <= Len(all)
    BY <1>2, <1>4
  <2> HIDE DEF m
  <2> QED
    BY <1>1, <1>2, <1>4, <1>5, <1>8, <2>1
<1>10. u.count <= cp_MaxLines => b = 0
  <2> SUFFICES ASSUME u.count <= cp_MaxLines PROVE b = 0
    OBVIOUS
  <2>1. t.count <= cp_MaxLines /\ Len(all) <= cp_MaxLines
    BY <1>1, <1>2, <1>8 DEF OutputSizes
  <2> HIDE DEF m
  <2> QED
    BY <2>1, <1>4, <1>7
<1> QED
  BY <1>7, <1>8, <1>9, <1>10 DEF u

(* The pieces of a long line tile what they take of it.                       *)
LEMMA PiecesTile ==
  ASSUME OutputSizes, NEW S, NEW s \in Seq(S), NEW p \in Nat, NEW q \in Nat, p <= q, q <= Len(s),
         NEW n \in Nat, n * cp_MaxPartial <= q - p
  PROVE  LET l == [k \in 1..n |-> SubSeq(SubSeq(s, p + 1, q), (k - 1) * cp_MaxPartial + 1, k * cp_MaxPartial)]
         IN  l \in Seq(Seq(S)) /\ TilesFrom(l, s, p, p + n * cp_MaxPartial)
<1> DEFINE t == SubSeq(s, p + 1, q)
           l == [k \in 1..n |-> SubSeq(t, (k - 1) * cp_MaxPartial + 1, k * cp_MaxPartial)]
           c == [k \in 0..n |-> p + k * cp_MaxPartial]
<1>1. t \in Seq(S) /\ Len(t) = q - p
  BY PartOf
<1>2. \A k \in 0..n : k * cp_MaxPartial \in Nat /\ k * cp_MaxPartial <= n * cp_MaxPartial
  BY DEF OutputSizes
<1>3. ASSUME NEW k \in 1..n
      PROVE  /\ k - 1 \in 0..n /\ k \in 0..n /\ (k - 1) * cp_MaxPartial \in Nat /\ k * cp_MaxPartial \in Nat
             /\ (k - 1) * cp_MaxPartial <= k * cp_MaxPartial /\ k * cp_MaxPartial <= q - p
  <2>1. k - 1 \in 0..n /\ k \in 0..n
    OBVIOUS
  <2>2. k * cp_MaxPartial = (k - 1) * cp_MaxPartial + cp_MaxPartial
    BY DEF OutputSizes
  <2> QED
    BY <1>2, <2>1, <2>2 DEF OutputSizes
<1>4. ASSUME NEW k \in 1..n
      PROVE  /\ l[k] \in Seq(S) /\ c[k - 1] \in 0..Len(s) /\ c[k] \in 0..Len(s) /\ c[k - 1] <= c[k]
             /\ l[k] = SubSeq(s, c[k - 1] + 1, c[k])
  <2> DEFINE a == (k - 1) * cp_MaxPartial
             b == k * cp_MaxPartial
  <2>1. a \in Nat /\ b \in Nat /\ a <= b /\ b <= q - p /\ l[k] = SubSeq(t, a + 1, b)
    BY <1>3
  <2>2. c[k - 1] = p + a /\ c[k] = p + b
    BY <1>3
  <2> HIDE DEF a, b, c, l
  <2>3. SubSeq(t, a + 1, b) = SubSeq(s, p + a + 1, p + b)
    BY <2>1, PartOfPart
  <2>4. SubSeq(t, a + 1, b) \in Seq(S)
    <3> HIDE DEF t
    <3> QED
      BY <1>1, <2>1, PartOf
  <2> QED
    BY <2>1, <2>2, <2>3, <2>4
<1>5. c \in [0..n -> 0..Len(s)] /\ c[0] = p /\ c[n] = p + n * cp_MaxPartial
  <2>1. 0 \in 0..n /\ n \in 0..n /\ 0 * cp_MaxPartial = 0
    BY DEF OutputSizes
  <2>2. \A k \in 0..n : p + k * cp_MaxPartial \in 0..Len(s)
    BY <1>2
  <2> QED
    BY <2>1, <2>2
<1> HIDE DEF c
<1>6. l \in [1..n -> Seq(S)] /\ DOMAIN l = 1..n
  BY <1>4
<1> HIDE DEF l
<1>7. l \in Seq(Seq(S)) /\ Len(l) = n
  BY <1>6
<1>8. Tiles(c, l, s)
  BY <1>4, <1>5, <1>7 DEF Tiles
<1>9. TilesFrom(l, s, p, p + n * cp_MaxPartial)
  BY <1>5, <1>7, <1>8 DEF TilesFrom
<1> QED
  BY <1>7, <1>9 DEF l

LEMMA PieceCount ==
  ASSUME OutputSizes, NEW a \in Nat
  PROVE  LET n == IF a = 0 THEN 0 ELSE (a - 1) \div cp_MaxPartial
         IN  n \in Nat /\ n * cp_MaxPartial \in 0..a
<1>1. CASE a = 0
  BY <1>1 DEF OutputSizes
<1>2. CASE a # 0
  <2> DEFINE n == (a - 1) \div cp_MaxPartial
  <2>1. n \in Nat /\ n * cp_MaxPartial <= a - 1 /\ 0 <= n * cp_MaxPartial /\ n * cp_MaxPartial \in Int
    BY <1>2, Z3 DEF OutputSizes
  <2> QED
    BY <1>2, <2>1
<1> QED
  BY <1>1, <1>2
(* The unfinished line of a tail is replaced.                                 *)
LEMMA WithPartial ==
  ASSUME NEW u \in Tails, NEW w \in Seq(Alphabet)
  PROVE  /\ [u EXCEPT !.partial = w] \in Tails /\ [u EXCEPT !.partial = w].lines = u.lines
         /\ [u EXCEPT !.partial = w].count = u.count /\ [u EXCEPT !.partial = w].partial = w
BY DEF Tails

LEMMA FlushedTail ==
  ASSUME OutputSizes, NEW s \in Seq(Alphabet), NEW q \in 0..Len(s), NEW t, TailIs(t, s, q)
  PROVE  TailIs(CP!FlushLongPartial(t), s, q)
<1>1. PICK o \in 0..Len(s), p \in 0..q :
          /\ TilesFrom(t.lines, s, o, p) /\ t.partial = SubSeq(s, p + 1, q)
          /\ t.count <= cp_MaxLines => o = 0
  BY DEF TailIs
<1> DEFINE n == IF Len(t.partial) = 0 THEN 0 ELSE (Len(t.partial) - 1) \div cp_MaxPartial
           pieces == [k \in 1..n |-> SubSeq(t.partial, (k - 1) * cp_MaxPartial + 1, k * cp_MaxPartial)]
           u == CP!Appended(t, pieces)
           w == SubSeq(t.partial, n * cp_MaxPartial + 1, Len(t.partial))
<1>2. t \in Tails /\ Len(t.lines) <= t.count /\ Len(s) \in Nat /\ p \in Nat /\ q \in Nat /\ p <= q /\ q <= Len(s)
  BY DEF TailIs
<1>3. Len(t.partial) = q - p /\ t.partial \in Seq(Alphabet)
  BY <1>1, <1>2, PartOf
<1>4. n \in Nat /\ n * cp_MaxPartial \in 0..(q - p)
  <2>1. Len(t.partial) \in Nat
    BY <1>3
  <2> QED
    BY <2>1, <1>3, PieceCount
<1> HIDE DEF n
<1>5. pieces \in Seq(Seq(Alphabet)) /\ TilesFrom(pieces, s, p, p + n * cp_MaxPartial)
  <2>1. n * cp_MaxPartial <= q - p
    BY <1>4
  <2> QED
    BY <1>1, <1>2, <1>4, <2>1, PiecesTile
<1> HIDE DEF pieces
<1>6. /\ u \in Tails /\ u.partial = t.partial /\ Len(u.lines) <= cp_MaxLines /\ Len(u.lines) <= u.count
      /\ \E b \in 0..Len(s) :
             TilesFrom(u.lines, s, b, p + n * cp_MaxPartial) /\ (u.count <= cp_MaxLines => b = 0)
  BY <1>1, <1>2, <1>5, AppendedTiles
<1>7. w = SubSeq(s, p + n * cp_MaxPartial + 1, q) /\ w \in Seq(Alphabet)
  <2> DEFINE a == n * cp_MaxPartial
  <2>1. a \in Nat /\ a <= q - p /\ p + (q - p) = q /\ q - p \in Nat
    BY <1>2, <1>4
  <2> HIDE DEF a
  <2>2. SubSeq(SubSeq(s, p + 1, q), a + 1, q - p) = SubSeq(s, p + a + 1, p + (q - p))
    BY <1>2, <2>1, PartOfPart
  <2>3. SubSeq(t.partial, a + 1, q - p) \in Seq(Alphabet)
    BY <1>3, <2>1, PartOf
  <2> QED
    BY <1>1, <1>3, <2>1, <2>2, <2>3 DEF a
<1>8. CP!FlushLongPartial(t) = [u EXCEPT !.partial = w]
  BY <1>6 DEF CP!FlushLongPartial, n, pieces
<1>9. p + n * cp_MaxPartial \in 0..q
  BY <1>2, <1>4
<1> HIDE DEF u, w
<1>10. TailIs([u EXCEPT !.partial = w], s, q)
  <2> DEFINE e == p + n * cp_MaxPartial
             v == [u EXCEPT !.partial = w]
  <2>1. PICK b \in 0..Len(s) : TilesFrom(u.lines, s, b, e) /\ (u.count <= cp_MaxLines => b = 0)
    BY <1>6
  <2>2. e \in 0..q /\ w = SubSeq(s, e + 1, q)
    BY <1>7, <1>9
  <2> HIDE DEF e
  <2>3. v \in Tails /\ v.lines = u.lines /\ v.count = u.count /\ v.partial = w
    BY <1>6, <1>7, WithPartial
  <2> HIDE DEF v
  <2>4. TailIs(v, s, q)
    BY <1>6, <2>1, <2>2, <2>3 DEF TailIs
  <2> QED
    BY <2>4 DEF v
<1> QED
  BY <1>8, <1>10, Zenon

(* What is read next goes on where the last reading ended.                    *)
LEMMA FedTail ==
  ASSUME OutputSizes, NEW s \in Seq(Alphabet), NEW q \in 0..Len(s), NEW r \in q..Len(s),
         NEW t, TailIs(t, s, q)
  PROVE  TailIs(CP!Feed(t, SubSeq(s, q + 1, r)), s, r)
<1>1. PICK o \in 0..Len(s), p \in 0..q :
          /\ TilesFrom(t.lines, s, o, p) /\ t.partial = SubSeq(s, p + 1, q)
          /\ t.count <= cp_MaxLines => o = 0
  BY DEF TailIs
<1>2. /\ t \in Tails /\ Len(t.lines) <= t.count /\ Len(s) \in Nat /\ p \in Nat /\ q \in Nat
      /\ r \in Nat /\ p <= q /\ q <= r /\ p <= r /\ r <= Len(s) /\ q <= Len(s) /\ r \in 0..Len(s)
  BY DEF TailIs
<1> DEFINE text == t.partial \o SubSeq(s, q + 1, r)
           u == CP!Appended(t, CP!SplitLines(text))
           w == SubSeq(text, CP!Complete(text) + 1, Len(text))
<1>3. text = SubSeq(s, p + 1, r)
  BY <1>1, <1>2, PartsJoin
<1> HIDE DEF text
<1>4. text \in Seq(Alphabet) /\ Len(text) = r - p
  BY <1>2, <1>3, PartOf
<1>5. /\ CP!Complete(text) \in 0..(r - p) /\ CP!SplitLines(text) \in Seq(Seq(Alphabet))
      /\ TilesFrom(CP!SplitLines(text), s, p, p + CP!Complete(text))
  BY <1>2, <1>3, LinesTile
<1>6. /\ u \in Tails /\ Len(u.lines) <= cp_MaxLines /\ Len(u.lines) <= u.count
      /\ \E b \in 0..Len(s) :
             TilesFrom(u.lines, s, b, p + CP!Complete(text)) /\ (u.count <= cp_MaxLines => b = 0)
  BY <1>1, <1>2, <1>5, AppendedTiles
<1>7. w = SubSeq(s, p + CP!Complete(text) + 1, r) /\ w \in Seq(Alphabet)
  <2> DEFINE a == CP!Complete(text)
  <2>1. a \in Nat /\ a <= r - p /\ p + (r - p) = r /\ r - p \in Nat
    BY <1>2, <1>5
  <2> HIDE DEF a
  <2>2. SubSeq(SubSeq(s, p + 1, r), a + 1, r - p) = SubSeq(s, p + a + 1, p + (r - p))
    BY <1>2, <2>1, PartOfPart
  <2>3. SubSeq(text, a + 1, r - p) \in Seq(Alphabet)
    BY <1>4, <2>1, PartOf
  <2> QED
    BY <1>3, <1>4, <2>1, <2>2, <2>3 DEF a
<1>8. p + CP!Complete(text) \in 0..r
  BY <1>2, <1>5
<1>9. CP!Feed(t, SubSeq(s, q + 1, r)) = CP!FlushLongPartial([u EXCEPT !.partial = w])
  BY DEF CP!Feed, text
<1> HIDE DEF u, w
<1>10. TailIs([u EXCEPT !.partial = w], s, r)
  BY <1>6, <1>7, <1>8, WithPartial DEF TailIs
<1> QED
  BY <1>2, <1>9, <1>10, FlushedTail

LEMMA ClosedTail ==
  ASSUME OutputSizes, NEW s \in Seq(Alphabet), NEW q \in 0..Len(s), NEW t, TailIs(t, s, q)
  PROVE  TailIs(CP!Close(t), s, q) /\ CP!Close(t).partial = <<>>
<1>1. CASE t.partial = <<>>
  BY <1>1 DEF CP!Close
<1>2. CASE t.partial # <<>>
  <2>1. PICK o \in 0..Len(s), p \in 0..q :
            /\ TilesFrom(t.lines, s, o, p) /\ t.partial = SubSeq(s, p + 1, q)
            /\ t.count <= cp_MaxLines => o = 0
    BY DEF TailIs
  <2>2. /\ t \in Tails /\ Len(t.lines) <= t.count /\ t.partial \in Seq(Alphabet)
        /\ Len(s) \in Nat /\ p \in 0..Len(s) /\ q \in 0..Len(s) /\ p <= q
    BY DEF TailIs, Tails
  <2> DEFINE l == <<t.partial>>
             c == [k \in 0..1 |-> IF k = 0 THEN p ELSE q]
             u == CP!Appended(t, l)
  <2>3. l \in Seq(Seq(Alphabet)) /\ Len(l) = 1 /\ l[1] = SubSeq(s, p + 1, q)
    BY <2>1, <2>2
  <2>4. c \in [0..1 -> 0..Len(s)] /\ c[0] = p /\ c[1] = q
    BY <2>2
  <2> HIDE DEF l, c
  <2>5. TilesFrom(l, s, p, q)
    <3>1. \A k \in 1..1 : k = 1 /\ k - 1 = 0
      OBVIOUS
    <3>2. Tiles(c, l, s)
      BY <2>2, <2>3, <2>4, <3>1 DEF Tiles
    <3> QED
      BY <2>3, <2>4, <3>2 DEF TilesFrom
  <2>6. /\ u \in Tails /\ Len(u.lines) <= cp_MaxLines /\ Len(u.lines) <= u.count
        /\ \E b \in 0..Len(s) : TilesFrom(u.lines, s, b, q) /\ (u.count <= cp_MaxLines => b = 0)
    BY <2>1, <2>2, <2>3, <2>5, AppendedTiles
  <2>7. CP!Close(t) = [u EXCEPT !.partial = <<>>]
    BY <1>2 DEF CP!Close, l
  <2>8. <<>> \in Seq(Alphabet) /\ <<>> = SubSeq(s, q + 1, q) /\ q \in 0..q
    BY <2>2
  <2> HIDE DEF u
  <2>9. TailIs([u EXCEPT !.partial = <<>>], s, q) /\ [u EXCEPT !.partial = <<>>].partial = <<>>
    BY <2>6, <2>8, WithPartial DEF TailIs
  <2> QED
    BY <2>7, <2>9, Zenon
<1> QED
  BY <1>1, <1>2

(* A text that grows keeps its tiles.                                         *)
LEMMA GrownTail ==
  ASSUME NEW s \in Seq(Alphabet), NEW x \in Alphabet, NEW q \in 0..Len(s), NEW t, TailIs(t, s, q)
  PROVE  TailIs(t, Append(s, x), q)
<1> DEFINE z == Append(s, x)
<1>1. z \in Seq(Alphabet) /\ Len(z) = Len(s) + 1 /\ Len(s) \in Nat /\ \A i \in 1..Len(s) : z[i] = s[i]
  OBVIOUS
<1> HIDE DEF z
<1>2. ASSUME NEW a \in 0..Len(s), NEW b \in 0..Len(s), a <= b
      PROVE  SubSeq(z, a + 1, b) = SubSeq(s, a + 1, b)
  <2>1. a \in Nat /\ b \in Nat /\ b <= Len(s) /\ b <= Len(z)
    BY <1>1
  <2>2. /\ SubSeq(s, a + 1, b) \in Seq(Alphabet) /\ Len(SubSeq(s, a + 1, b)) = b - a
        /\ \A i \in 1..(b - a) : SubSeq(s, a + 1, b)[i] = s[a + i]
    BY <1>2, <2>1, PartOf
  <2>3. /\ SubSeq(z, a + 1, b) \in Seq(Alphabet) /\ Len(SubSeq(z, a + 1, b)) = b - a
        /\ \A i \in 1..(b - a) : SubSeq(z, a + 1, b)[i] = z[a + i]
    BY <1>1, <1>2, <2>1, PartOf
  <2>4. \A i \in 1..(b - a) : a + i \in 1..Len(s)
    BY <2>1
  <2> DEFINE v == SubSeq(s, a + 1, b)
             w == SubSeq(z, a + 1, b)
  <2>5. /\ v \in Seq(Alphabet) /\ w \in Seq(Alphabet) /\ Len(v) = Len(w)
        /\ \A i \in 1..Len(v) : v[i] = w[i]
    BY <1>1, <2>2, <2>3, <2>4
  <2> HIDE DEF v, w
  <2>6. v = w
    BY <2>5
  <2> QED
    BY <2>6 DEF v, w
<1>3. PICK o \in 0..Len(s), p \in 0..q :
          /\ TilesFrom(t.lines, s, o, p) /\ t.partial = SubSeq(s, p + 1, q)
          /\ t.count <= cp_MaxLines => o = 0
  BY DEF TailIs
<1>4. TilesFrom(t.lines, z, o, p)
  <2>1. PICK c : Tiles(c, t.lines, s) /\ c[0] = o /\ c[Len(t.lines)] = p
    BY <1>3 DEF TilesFrom
  <2>2. c \in [0..Len(t.lines) -> 0..Len(z)]
    BY <1>1, <2>1 DEF Tiles
  <2>3. Len(t.lines) \in Nat
    BY DEF TailIs, Tails
  <2>4. ASSUME NEW k \in 1..Len(t.lines)
        PROVE  c[k - 1] <= c[k] /\ t.lines[k] = SubSeq(z, c[k - 1] + 1, c[k])
    <3>1. k - 1 \in 0..Len(t.lines) /\ k \in 0..Len(t.lines)
      BY <2>3
    <3>2. c[k - 1] \in 0..Len(s) /\ c[k] \in 0..Len(s)
      BY <2>1, <3>1 DEF Tiles
    <3>3. c[k - 1] <= c[k] /\ t.lines[k] = SubSeq(s, c[k - 1] + 1, c[k])
      BY <2>1 DEF Tiles
    <3> QED
      BY <3>2, <3>3, <1>2
  <2>5. Tiles(c, t.lines, z)
    BY <2>2, <2>4 DEF Tiles
  <2> QED
    BY <2>1, <2>5 DEF TilesFrom
<1>5. o \in 0..Len(z) /\ t.partial = SubSeq(z, p + 1, q)
  <2>1. p \in 0..Len(s) /\ p <= q
    BY <1>1
  <2> QED
    BY <1>1, <1>2, <1>3, <2>1
<1> QED
  BY <1>3, <1>4, <1>5 DEF TailIs, z

(* The text of lines that tile a stretch is that stretch.                     *)
LEMMA FlattenTiles ==
  ASSUME NEW S, NEW s \in Seq(S), NEW l \in Seq(Seq(S)), NEW o \in 0..Len(s), NEW q,
         TilesFrom(l, s, o, q)
  PROVE  q \in o..Len(s) /\ CP!FlattenSeq(l) = SubSeq(s, o + 1, q)
<1>1. PICK c : Tiles(c, l, s) /\ c[0] = o /\ c[Len(l)] = q
  BY DEF TilesFrom
<1> DEFINE n == Len(l)
<1>2. /\ n \in Nat /\ c \in [0..n -> 0..Len(s)] /\ Len(s) \in Nat /\ o \in Nat
      /\ \A k \in 1..n : c[k - 1] <= c[k] /\ l[k] = SubSeq(s, c[k - 1] + 1, c[k])
  BY <1>1 DEF Tiles
<1> HIDE DEF n
<1>3. \A k \in 0..n : o <= c[k]
  <2> DEFINE D == {k \in 0..n : ~(o <= c[k])}
  <2> SUFFICES ASSUME D # {} PROVE FALSE
    OBVIOUS
  <2>1. PICK k \in D : \A j \in D : k <= j
    <3>1. D \in SUBSET Nat
      BY <1>2
    <3> HIDE DEF D
    <3> QED
      BY <3>1, LeastMember
  <2>2. k \in 1..n /\ k - 1 \in 0..n /\ k - 1 < k
    <3>1. k # 0 /\ k \in 0..n
      BY <1>1, <1>2, <2>1
    <3> QED
      BY <3>1, <1>2
  <2>3. o <= c[k - 1]
    BY <2>1, <2>2
  <2>4. c[k - 1] \in Nat /\ c[k] \in Nat /\ c[k - 1] <= c[k]
    BY <1>2, <2>2
  <2>5. ~(o <= c[k]) /\ o \in Nat
    BY <1>2, <2>1
  <2> HIDE DEF D
  <2> QED
    BY <2>3, <2>4, <2>5
<1>4. q \in o..Len(s)
  <2>1. n \in 0..n
    BY <1>2
  <2>2. c[n] \in 0..Len(s) /\ o <= c[n]
    BY <2>1, <1>2, <1>3
  <2> QED
    BY <2>2, <1>1, <1>2 DEF n
<1> DEFINE Is(f) == f = [i \in 1..Len(l) |-> IF i = 1 THEN l[i] ELSE f[i - 1] \o l[i]]
           g == [i \in 1..n |-> SubSeq(s, o + 1, c[i])]
<1>5. Is(g)
  <2> SUFFICES ASSUME NEW i \in 1..n
               PROVE  SubSeq(s, o + 1, c[i]) = IF i = 1 THEN l[i] ELSE g[i - 1] \o l[i]
    BY DEF n
  <2>1. l[i] = SubSeq(s, c[i - 1] + 1, c[i])
    BY <1>2
  <2>2. CASE i = 1
    <3>1. i - 1 = 0
      BY <2>2
    <3>2. l[i] = SubSeq(s, c[0] + 1, c[i])
      BY <2>1, <3>1
    <3> QED
      BY <2>2, <3>2, <1>1
  <2>3. CASE i # 1
    <3>1. i - 1 \in 1..n /\ i \in 0..n /\ i - 1 \in 0..n
      BY <2>3, <1>2
    <3>2. c[i - 1] \in 0..Len(s) /\ c[i] \in 0..Len(s)
      BY <3>1, <1>2
    <3>3. o <= c[i - 1] /\ c[i - 1] <= c[i]
      BY <3>1, <1>2, <1>3
    <3>4. c[i - 1] \in Nat /\ c[i] \in Nat /\ c[i] <= Len(s)
      BY <3>2, <1>2
    <3>5. g[i - 1] = SubSeq(s, o + 1, c[i - 1])
      BY <3>1
    <3>6. SubSeq(s, o + 1, c[i - 1]) \o SubSeq(s, c[i - 1] + 1, c[i]) = SubSeq(s, o + 1, c[i])
      <4>1. o \in Nat
        BY <1>2
      <4> QED
        BY <3>3, <3>4, <4>1, PartsJoin
    <3> HIDE DEF g
    <3> QED
      BY <2>1, <2>3, <3>5, <3>6
  <2> QED
    BY <2>2, <2>3
<1> DEFINE f == CHOOSE h : Is(h)
<1>6. Is(f)
  <2> HIDE DEF Is
  <2> QED
    BY <1>5
<1>7. Len(l) # 0 => CP!FlattenSeq(l) = f[Len(l)]
  BY Zenon DEF CP!FlattenSeq
<1> HIDE DEF f
<1>8. \A i \in 1..n : f[i] = IF i = 1 THEN l[i] ELSE f[i - 1] \o l[i]
  BY <1>6 DEF n
<1>9. \A i \in 1..n : g[i] = IF i = 1 THEN l[i] ELSE g[i - 1] \o l[i]
  <2> HIDE DEF g
  <2> QED
    BY <1>5 DEF n
<1> HIDE DEF g, Is
<1>10. \A i \in 1..n : f[i] = g[i]
  <2> DEFINE D == {i \in 1..n : f[i] # g[i]}
  <2> SUFFICES ASSUME D # {} PROVE FALSE
    OBVIOUS
  <2>1. PICK i \in D : \A j \in D : i <= j
    <3>1. D \in SUBSET Nat
      BY <1>2
    <3> HIDE DEF D
    <3> QED
      BY <3>1, LeastMember
  <2>2. i # 1
    BY <2>1, <1>8, <1>9
  <2>3. i \in 1..n /\ i - 1 \in 1..n /\ i - 1 < i
    BY <2>1, <2>2, <1>2
  <2>4. f[i - 1] = g[i - 1]
    BY <2>1, <2>3
  <2> QED
    BY <2>1, <2>2, <2>3, <2>4, <1>8, <1>9
<1>11. CASE Len(l) = 0
  <2>1. CP!FlattenSeq(l) = l
    BY <1>11, Zenon DEF CP!FlattenSeq
  <2>4. l = <<>>
    BY <1>11
  <2>3. o = q
    BY <1>11, <1>1
  <2>2. SubSeq(s, o + 1, o) = <<>>
    BY <1>2
  <2> QED
    BY <1>4, <2>1, <2>4, <2>2, <2>3
<1>12. CASE Len(l) # 0
  <2>1. n \in 1..n /\ n = Len(l)
    BY <1>2, <1>12 DEF n
  <2>2. g[n] = SubSeq(s, o + 1, c[n])
    BY <2>1 DEF g
  <2> QED
    BY <1>1, <1>4, <1>7, <1>10, <1>12, <2>1, <2>2
<1> QED
  BY <1>11, <1>12

LEMMA SuffixOf ==
  ASSUME NEW S, NEW s \in Seq(S), NEW o \in 0..Len(s)
  PROVE  CP!IsSuffix(SubSeq(s, o + 1, Len(s)), s)
<1> DEFINE t == SubSeq(s, o + 1, Len(s))
           n == Len(s) - o
<1>1. Len(s) \in Nat /\ o \in Nat /\ o <= Len(s) /\ n \in Nat /\ n <= Len(s) /\ Len(s) <= Len(s)
  OBVIOUS
<1>2. t \in Seq(S) /\ Len(t) = n /\ \A i \in 1..n : t[i] = s[o + i]
  BY <1>1, PartOf
<1> HIDE DEF t
<1>3. /\ CP!Reverse(t) \in Seq(S) /\ Len(CP!Reverse(t)) = n
      /\ \A i \in 1..n : CP!Reverse(t)[i] = t[(n - i) + 1]
  <2>1. \A i \in 1..n : t[(n - i) + 1] \in S
    BY <1>1, <1>2
  <2> QED
    BY <1>1, <1>2, <2>1 DEF CP!Reverse
<1>4. /\ CP!Reverse(s) \in Seq(S) /\ Len(CP!Reverse(s)) = Len(s)
      /\ \A i \in 1..Len(s) : CP!Reverse(s)[i] = s[(Len(s) - i) + 1]
  <2>1. \A i \in 1..Len(s) : s[(Len(s) - i) + 1] \in S
    OBVIOUS
  <2> QED
    BY <1>1, <2>1 DEF CP!Reverse
<1>5. ASSUME NEW i \in 1..n PROVE CP!Reverse(t)[i] = CP!Reverse(s)[i]
  <2>1. (n - i) + 1 \in 1..n /\ o + ((n - i) + 1) = (Len(s) - i) + 1 /\ i \in 1..Len(s)
    BY <1>1
  <2> HIDE DEF n
  <2> QED
    BY <1>2, <1>3, <1>4, <2>1
<1> HIDE DEF n
<1> DEFINE v == CP!Reverse(t)
           w == CP!Reverse(s)
<1>6. SubSeq(v, 1, n) = SubSeq(w, 1, n)
  <2>1. v \in Seq(S) /\ w \in Seq(S) /\ Len(v) = n /\ n <= Len(w) /\ n <= Len(v) /\ \A i \in 1..n : v[i] = w[i]
    BY <1>1, <1>3, <1>4, <1>5
  <2> HIDE DEF v, w
  <2>2. SubSeq(v, 1, n) = [i \in 1..n |-> v[i]] /\ SubSeq(w, 1, n) = [i \in 1..n |-> w[i]]
    BY <1>1, <2>1
  <2> QED
    BY <2>1, <2>2
<1>7. Len(CP!Reverse(t)) <= Len(CP!Reverse(s))
  BY <1>1, <1>3, <1>4
<1> QED
  BY <1>3, <1>6, <1>7 DEF CP!IsSuffix, CP!IsPrefix, t

(* The text of a tail without an unfinished line is the end of what was read. *)
LEMMA TextIsEnd ==
  ASSUME NEW s \in Seq(Alphabet), NEW t, TailIs(t, s, Len(s)), t.partial = <<>>
  PROVE  /\ CP!IsSuffix(CP!FlattenSeq(t.lines), s)
         /\ t.count <= cp_MaxLines => CP!FlattenSeq(t.lines) = s
<1> DEFINE q == Len(s)
<1>1. PICK o \in 0..Len(s), p \in 0..q :
          /\ TilesFrom(t.lines, s, o, p) /\ t.partial = SubSeq(s, p + 1, q)
          /\ t.count <= cp_MaxLines => o = 0
  BY DEF TailIs
<1>2. t.lines \in Seq(Seq(Alphabet)) /\ Len(s) \in Nat /\ p \in Nat /\ p <= q /\ q \in Nat
  BY DEF TailIs, Tails
<1>3. Len(SubSeq(s, p + 1, q)) = q - p
  BY <1>2, PartOf
<1>4. p = Len(s)
  BY <1>1, <1>2, <1>3
<1>5. CP!FlattenSeq(t.lines) = SubSeq(s, o + 1, Len(s))
  BY <1>1, <1>2, <1>4, FlattenTiles
<1>6. SubSeq(s, 0 + 1, Len(s)) = s
  <2>1. s = [i \in 1..Len(s) |-> s[i]] /\ SubSeq(s, 0 + 1, Len(s)) = [i \in 1..Len(s) |-> s[i]]
    OBVIOUS
  <2> QED
    BY <2>1
<1> QED
  BY <1>1, <1>5, <1>6, SuffixOf
-----------------------------------------------------------------------------
CallModes == {"pty", "streaming", "capture"}
CallPcs == {"spawn", "spawned", "read", "wait", "join", "finish", "returned",
        "poll", "signal", "grace", "kill", "killed", "cleaned", "raised"}

Shapes ==
    /\ cp_call \in [mode : CallModes, isolated : BOOLEAN, stubborn : SUBSET CP!Processes]
    /\ cp_pc \in CallPcs /\ cp_proc \in [CP!Processes -> {"none", "running", "dead", "reaped"}]

Output == cp_output \in Seq(Alphabet) /\ cp_read \in 0..Len(cp_output) /\ TailIs(cp_tail, cp_output, cp_read)

(* Nothing has been written before the command starts.                        *)
Unstarted == cp_pc = "spawn" => cp_output = <<>> /\ cp_read = 0 /\ cp_tail.partial = <<>> /\ CP!AllClosed /\ cp_proc["child"] = "none"

(* Past the end of the output nobody can write any more, and all is read.     *)
PastEnd == \/ cp_call.mode = "pty" /\ cp_pc \in {"wait", "finish", "returned"}
           \/ cp_call.mode = "streaming" /\ cp_pc \in {"finish", "returned"}
Closing == PastEnd => CP!AllClosed /\ CP!AllRead
Closed == cp_pc = "returned" /\ cp_call.mode # "capture" => cp_tail.partial = <<>>

Reaping ==
    /\ cp_pc \in {"join", "finish", "cleaned"} => cp_proc["child"] = "reaped"
    /\ CP!ChildReaped

(* From the signal on, a helper that heeds it is gone.                        *)
Helping ==
    cp_pc \in {"grace", "kill", "killed", "cleaned", "raised"} /\ ~cp_gap /\ ~cp_early
           /\ cp_call.isolated /\ "helper" \notin cp_call.stubborn
    => ~CP!Running("helper")

CallInv == Shapes /\ Output /\ Unstarted /\ Closing /\ Closed /\ Reaping /\ Helping

(* Signals stop who runs and nobody else.                                     *)
LEMMA KilledIs ==
  ASSUME cp_proc \in [CP!Processes -> {"none", "running", "dead", "reaped"}], NEW S
  PROVE  /\ CP!Killed(S) \in [CP!Processes -> {"none", "running", "dead", "reaped"}]
         /\ \A p \in CP!Processes :
                /\ CP!Killed(S)[p] = "running" => cp_proc[p] = "running" /\ p \notin S
                /\ cp_proc[p] # "running" => CP!Killed(S)[p] = cp_proc[p]
BY DEF CP!Killed, CP!Running

(* The output and the tail are as they were.                                  *)
LEMMA OutputKept ==
  ASSUME Output, UNCHANGED <<cp_output, cp_read, cp_tail>>
  PROVE  Output'
BY DEF Output, TailIs, Tails, TilesFrom, Tiles

(* A step of the caller or a signal that neither starts nor ends the call.    *)
LEMMA SilentStep ==
  ASSUME CallInv, UNCHANGED <<cp_call, cp_output, cp_read, cp_tail>>, cp_pc' \in CallPcs \ {"spawn"},
         cp_proc' \in [CP!Processes -> {"none", "running", "dead", "reaped"}],
         \A p \in CP!Processes : cp_proc'[p] = "running" => cp_proc[p] = "running",
         PastEnd' => PastEnd \/ (CP!AllClosed /\ CP!AllRead),
         cp_pc' = "returned" => cp_pc = "returned" \/ cp_call.mode = "capture",
         Reaping', Helping'
  PROVE  CallInv'
<1>1. Shapes'
  BY DEF CallInv, Shapes
<1>2. Output'
  BY OutputKept DEF CallInv
<1>3. Unstarted' /\ Closed'
  BY DEF CallInv, Unstarted, Closed
<1>4. Closing'
  <2> SUFFICES ASSUME PastEnd' PROVE CP!AllClosed' /\ CP!AllRead'
    BY DEF Closing
  <2>1. CP!AllClosed /\ CP!AllRead
    BY DEF CallInv, Closing
  <2> QED
    BY <2>1 DEF CP!AllClosed, CP!AllRead, CP!Running
<1> QED
  BY <1>1, <1>2, <1>3, <1>4 DEF CallInv

LEMMA CallInit ==
  ASSUME OutputSizes, CP!Init
  PROVE  CallInv
<1>1. Shapes
  BY DEF CP!Init, Shapes, CallModes, CallPcs
<1>2. Output
  <2>1. cp_output = <<>> /\ cp_read = 0 /\ cp_tail = [lines |-> <<>>, partial |-> <<>>, count |-> 0]
    BY DEF CP!Init
  <2>2. cp_tail \in Tails /\ cp_tail.lines = <<>> /\ cp_tail.partial = <<>> /\ cp_tail.count = 0
    BY <2>1 DEF Tails
  <2>3. TilesFrom(<<>>, <<>>, 0, 0)
    <3> DEFINE c == [k \in 0..0 |-> 0]
    <3>1. /\ c \in [0..Len(<<>>) -> 0..Len(<<>>)] /\ c[0] = 0 /\ Len(<<>>) = 0
          /\ \A k \in 1..Len(<<>>) : FALSE
      OBVIOUS
    <3> HIDE DEF c
    <3>2. Tiles(c, <<>>, <<>>)
      BY <3>1 DEF Tiles
    <3> QED
      BY <3>1, <3>2 DEF TilesFrom
  <2>4. cp_output \in Seq(Alphabet) /\ Len(cp_output) = 0 /\ 0 \in 0..0 /\ SubSeq(<<>>, 0 + 1, 0) = <<>>
    BY <2>1
  <2>5. Len(cp_tail.lines) = 0
    BY <2>2
  <2> QED
    BY <2>1, <2>2, <2>3, <2>4, <2>5 DEF Output, TailIs, OutputSizes
<1>3. cp_pc = "spawn" /\ cp_tail.partial = <<>>
  BY DEF CP!Init
<1>4. Unstarted
  BY <1>3 DEF CP!Init, Unstarted, CP!AllClosed, CP!Running, CP!Processes
<1>5. Closing /\ Closed /\ Reaping /\ Helping
  BY <1>3 DEF Closing, PastEnd, Closed, Reaping, CP!ChildReaped, Helping
<1> QED
  BY <1>1, <1>2, <1>4, <1>5 DEF CallInv

LEMMA CallNext ==
  ASSUME OutputSizes, CallInv, CP!Next
  PROVE  CallInv'
<1> USE DEF CallPcs
<1>0. /\ Shapes /\ Output /\ Unstarted /\ Closing /\ Closed /\ Reaping /\ Helping
      /\ cp_proc \in [CP!Processes -> {"none", "running", "dead", "reaped"}]
      /\ "child" \in CP!Processes /\ "helper" \in CP!Processes
  BY DEF CallInv, Shapes, CP!Processes
<1>1. CASE CP!Spawn
  <2>1. CASE cp_pc' = "returned" /\ UNCHANGED cp_proc
    <3>1. UNCHANGED <<cp_call, cp_output, cp_read, cp_tail, cp_gap, cp_early>> /\ cp_pc = "spawn"
      BY <1>1 DEF CP!Spawn, CP!caller
    <3>2. Output' /\ Shapes'
      BY <1>0, <2>1, <3>1, OutputKept DEF Shapes
    <3>3. CP!AllClosed /\ CP!AllRead /\ cp_tail.partial = <<>> /\ cp_proc["child"] = "none"
      BY <1>0, <3>1 DEF Unstarted, CP!AllRead
    <3>4. Closing' /\ Closed' /\ Unstarted'
      BY <2>1, <3>1, <3>3 DEF Closing, Closed, Unstarted, CP!AllClosed, CP!AllRead, CP!Running
    <3>5. Reaping' /\ Helping'
      BY <2>1, <3>3 DEF Reaping, CP!ChildReaped, Helping
    <3> QED
      BY <3>2, <3>4, <3>5 DEF CallInv
  <2>2. CASE cp_pc' = "spawned" /\ \E helper \in {"none", "running"} : cp_proc' = [child |-> "running", helper |-> helper]
    <3>1. UNCHANGED <<cp_call, cp_output, cp_read, cp_tail, cp_gap, cp_early>> /\ cp_pc = "spawn"
      BY <1>1 DEF CP!Spawn, CP!caller
    <3>2. Output' /\ Shapes'
      BY <1>0, <2>2, <3>1, OutputKept DEF Shapes, CP!Processes
    <3>3. Closing' /\ Closed' /\ Unstarted' /\ Reaping' /\ Helping'
      BY <2>2 DEF Closing, PastEnd, Closed, Unstarted, Reaping, CP!ChildReaped, Helping
    <3> QED
      BY <3>2, <3>3 DEF CallInv
  <2> QED
    BY <1>1, <2>1, <2>2 DEF CP!Spawn
<1>2. CASE CP!EnterTry
  <2>1. UNCHANGED <<cp_call, cp_output, cp_read, cp_tail, cp_proc, cp_gap, cp_early>> /\ cp_pc = "spawned" /\ cp_pc' \in {"read", "wait"}
    BY <1>2 DEF CP!EnterTry, CP!caller
  <2>2. PastEnd' => PastEnd \/ (CP!AllClosed /\ CP!AllRead)
    BY <1>2 DEF CP!EnterTry, PastEnd, CP!caller
  <2>3. Reaping' /\ Helping'
    BY <2>1 DEF Reaping, CP!ChildReaped, Helping
  <2> QED
    BY <1>0, <2>1, <2>2, <2>3, SilentStep
<1>3. CASE CP!ReadChunk
  <2>1. UNCHANGED <<cp_call, cp_pc, cp_proc, cp_output, cp_gap, cp_early>>
    BY <1>3 DEF CP!ReadChunk
  <2>2. PICK n \in (cp_read + 1)..Len(cp_output) : cp_read' = n /\ cp_tail' = CP!Feed(cp_tail, SubSeq(cp_output, cp_read + 1, n))
    BY <1>3 DEF CP!ReadChunk
  <2>3. cp_output \in Seq(Alphabet) /\ cp_read \in 0..Len(cp_output) /\ TailIs(cp_tail, cp_output, cp_read)
    BY <1>0 DEF Output
  <2>4. n \in cp_read..Len(cp_output) /\ n \in 0..Len(cp_output) /\ cp_read # Len(cp_output)
    BY <2>3
  <2>5. TailIs(cp_tail', cp_output, n)
    BY <2>2, <2>3, <2>4, FedTail
  <2>6. Output'
    <3>1. TailIs(cp_tail', cp_output', cp_read')
      BY <2>1, <2>2, <2>5
    <3> QED
      BY <2>1, <2>2, <2>3, <2>4, <3>1 DEF Output
  <2>7. cp_pc # "spawn" /\ cp_pc # "returned" /\ ~PastEnd
    <3>1. cp_pc # "spawn" /\ cp_pc # "returned"
      BY <1>3 DEF CP!ReadChunk
    <3>2. ~PastEnd
      BY <1>0, <2>4 DEF Closing, CP!AllRead
    <3> QED
      BY <3>1, <3>2
  <2>8. Shapes' /\ Reaping' /\ Helping'
    BY <1>0, <2>1 DEF Shapes, Reaping, CP!ChildReaped, Helping, CP!Running
  <2>9. Closing' /\ Closed' /\ Unstarted'
    BY <2>1, <2>7 DEF Closing, PastEnd, Closed, Unstarted
  <2> QED
    BY <2>6, <2>8, <2>9 DEF CallInv
<1>4. CASE CP!EndOfOutput
  <2>1. /\ UNCHANGED <<cp_call, cp_output, cp_read, cp_tail, cp_proc, cp_gap, cp_early>> /\ cp_pc = "read" /\ cp_pc' = "wait"
        /\ CP!AllClosed /\ CP!AllRead
    BY <1>4 DEF CP!EndOfOutput, CP!caller
  <2>2. Reaping' /\ Helping'
    BY <2>1 DEF Reaping, CP!ChildReaped, Helping
  <2> QED
    BY <1>0, <2>1, <2>2, SilentStep
<1>5. CASE CP!Wait
  <2>1. /\ UNCHANGED <<cp_call, cp_output, cp_read, cp_tail, cp_gap, cp_early>> /\ cp_pc = "wait" /\ cp_pc' \in {"join", "finish"}
        /\ cp_proc' = [cp_proc EXCEPT !["child"] = "reaped"]
        /\ cp_pc' = "finish" => cp_call.mode # "streaming"
    BY <1>5 DEF CP!Wait, CP!caller, CP!Reap
  <2>2. PastEnd' => PastEnd
    BY <2>1 DEF PastEnd
  <2>3. Reaping' /\ Helping'
    BY <1>0, <2>1 DEF Reaping, CP!ChildReaped, Helping
  <2>4. /\ cp_proc' \in [CP!Processes -> {"none", "running", "dead", "reaped"}]
        /\ \A p \in CP!Processes : cp_proc'[p] = "running" => cp_proc[p] = "running"
    BY <1>0, <2>1
  <2> QED
    BY <1>0, <2>1, <2>2, <2>3, <2>4, SilentStep
<1>6. CASE CP!Join
  <2>1. /\ UNCHANGED <<cp_call, cp_output, cp_read, cp_tail, cp_proc, cp_gap, cp_early>> /\ cp_pc = "join" /\ cp_pc' = "finish"
        /\ CP!AllClosed /\ CP!AllRead
    BY <1>6 DEF CP!Join, CP!caller
  <2>2. Reaping' /\ Helping'
    BY <1>0, <2>1 DEF Reaping, CP!ChildReaped, Helping
  <2> QED
    BY <1>0, <2>1, <2>2, SilentStep
<1>7. CASE CP!Finish
  <2>1. /\ UNCHANGED <<cp_call, cp_proc, cp_output, cp_read, cp_gap, cp_early>> /\ cp_pc = "finish" /\ cp_pc' = "returned"
        /\ cp_tail' = CP!Close(cp_tail)
    BY <1>7 DEF CP!Finish
  <2>2. cp_output \in Seq(Alphabet) /\ cp_read \in 0..Len(cp_output) /\ TailIs(cp_tail, cp_output, cp_read)
    BY <1>0 DEF Output
  <2>3. TailIs(cp_tail', cp_output, cp_read) /\ cp_tail'.partial = <<>>
    BY <2>1, <2>2, ClosedTail
  <2>4. Output'
    <3>1. TailIs(cp_tail', cp_output', cp_read')
      BY <2>1, <2>3
    <3> QED
      BY <2>1, <2>2, <3>1 DEF Output
  <2>5. Shapes' /\ Unstarted' /\ Closed'
    BY <1>0, <2>1, <2>3 DEF Shapes, Unstarted, Closed
  <2>6. Closing'
    BY <1>0, <2>1 DEF Closing, PastEnd, CP!AllClosed, CP!AllRead, CP!Running
  <2>7. Reaping' /\ Helping'
    BY <1>0, <2>1 DEF Reaping, CP!ChildReaped, Helping
  <2> QED
    BY <2>4, <2>5, <2>6, <2>7 DEF CallInv
<1>8. CASE CP!Deadline
  <2>1. /\ UNCHANGED <<cp_call, cp_output, cp_read, cp_tail, cp_gap, cp_early>> /\ cp_call.mode = "capture" /\ cp_pc' = "returned"
        /\ cp_proc' = [cp_proc EXCEPT !["child"] = "reaped"]
    BY <1>8 DEF CP!Deadline, CP!caller
  <2>2. ~PastEnd'
    BY <2>1 DEF PastEnd
  <2>3. Reaping' /\ Helping'
    BY <1>0, <2>1 DEF Reaping, CP!ChildReaped, Helping
  <2>4. /\ cp_proc' \in [CP!Processes -> {"none", "running", "dead", "reaped"}]
        /\ \A p \in CP!Processes : cp_proc'[p] = "running" => cp_proc[p] = "running"
    BY <1>0, <2>1
  <2> QED
    BY <1>0, <2>1, <2>2, <2>3, <2>4, SilentStep
<1>9. CASE CP!Interrupt
  <2>1. UNCHANGED <<cp_call, cp_output, cp_read, cp_tail, cp_early>> /\ cp_pc \notin {"spawn", "returned", "raised"}
    BY <1>9 DEF CP!Interrupt
  <2>2. /\ cp_proc' \in [CP!Processes -> {"none", "running", "dead", "reaped"}]
        /\ \A p \in CP!Processes : /\ cp_proc'[p] = "running" => cp_proc[p] = "running"
                                   /\ cp_proc[p] # "running" => cp_proc'[p] = cp_proc[p]
    <3>1. cp_proc' = cp_proc \/ cp_proc' = CP!Killed(CP!Processes \ cp_call.stubborn)
      BY <1>9 DEF CP!Interrupt
    <3> QED
      BY <1>0, <3>1, KilledIs
  <2>3. cp_pc \in CallPcs
    BY <1>0 DEF Shapes
  <2>4. CASE cp_pc \in {"read", "wait", "join", "finish"}
    <3>1. cp_pc' = "poll"
      BY <1>9, <2>4 DEF CP!Interrupt, CP!Ignored
    <3>2. ~PastEnd' /\ Reaping' /\ Helping'
      BY <3>1 DEF PastEnd, Reaping, CP!ChildReaped, Helping
    <3> QED
      BY <1>0, <2>1, <2>2, <3>1, <3>2, SilentStep
  <2>5. CASE cp_pc \in {"grace", "killed"}
    <3>1. cp_pc' = cp_pc /\ cp_gap' = cp_gap
      BY <1>9, <2>5 DEF CP!Interrupt, CP!Ignored
    <3>2. Reaping' /\ Helping'
      BY <1>0, <2>1, <2>2, <2>5, <3>1 DEF Reaping, CP!ChildReaped, Helping, CP!Running
    <3>3. ~PastEnd'
      BY <2>5, <3>1 DEF PastEnd
    <3> QED
      BY <1>0, <2>1, <2>2, <2>3, <2>5, <3>1, <3>2, <3>3, SilentStep
  <2>6. CASE cp_pc \in {"spawned", "poll", "signal", "kill"}
    <3>1. cp_pc' = "raised" /\ cp_gap'
      BY <1>9, <2>6 DEF CP!Interrupt, CP!Ignored
    <3>2. ~PastEnd' /\ Reaping' /\ Helping'
      BY <3>1 DEF PastEnd, Reaping, CP!ChildReaped, Helping
    <3> QED
      BY <1>0, <2>1, <2>2, <3>1, <3>2, SilentStep
  <2>7. CASE cp_pc = "cleaned"
    <3>1. cp_pc' = "raised" /\ (~cp_gap' => ~cp_gap)
      BY <1>9, <2>7 DEF CP!Interrupt, CP!Ignored
    <3>2. Reaping'
      <4>1. cp_proc["child"] = "reaped"
        BY <1>0, <2>7 DEF Reaping
      <4> QED
        BY <1>0, <2>2, <3>1, <4>1 DEF Reaping, CP!ChildReaped
    <3>3. Helping'
      BY <1>0, <2>1, <2>2, <2>7, <3>1 DEF Helping, CP!Running
    <3>4. ~PastEnd'
      BY <3>1 DEF PastEnd
    <3> QED
      BY <1>0, <2>1, <2>2, <3>1, <3>2, <3>3, <3>4, SilentStep
  <2> QED
    BY <2>1, <2>3, <2>4, <2>5, <2>6, <2>7
<1>10. CASE CP!Cleanup
  <2>1. ASSUME UNCHANGED <<cp_call, cp_output, cp_read, cp_tail>>,
               cp_pc \in {"poll", "signal", "grace", "kill", "killed", "cleaned"},
               cp_pc' \in {"signal", "grace", "kill", "killed", "cleaned", "raised"},
               cp_proc' \in [CP!Processes -> {"none", "running", "dead", "reaped"}],
               \A p \in CP!Processes : cp_proc'[p] = "running" => cp_proc[p] = "running",
               Reaping', Helping'
        PROVE  CallInv'
    <3>1. ~PastEnd'
      BY <2>1 DEF PastEnd
    <3> QED
      BY <2>1, <3>1, SilentStep
  <2>2. CASE CP!Poll
    <3>1. UNCHANGED <<cp_call, cp_output, cp_read, cp_tail, cp_gap>> /\ cp_pc = "poll"
      BY <2>2 DEF CP!Poll
    <3>2. CASE cp_proc["child"] \in {"dead", "reaped"}
      <4>1. cp_proc' = [cp_proc EXCEPT !["child"] = "reaped"] /\ cp_pc' = "cleaned" /\ cp_early'
        BY <2>2, <3>2 DEF CP!Poll, CP!Reap
      <4>2. Reaping' /\ Helping'
        BY <1>0, <4>1 DEF Reaping, CP!ChildReaped, Helping
      <4> QED
        BY <1>0, <2>1, <3>1, <4>1, <4>2
    <3>3. CASE cp_proc["child"] \notin {"dead", "reaped"}
      <4>1. UNCHANGED <<cp_proc, cp_early>> /\ cp_pc' = "signal"
        BY <2>2, <3>3 DEF CP!Poll
      <4>2. Reaping' /\ Helping'
        BY <4>1 DEF Reaping, CP!ChildReaped, Helping
      <4> QED
        BY <1>0, <2>1, <3>1, <4>1, <4>2
    <3> QED
      BY <3>2, <3>3
  <2>3. CASE CP!Terminate
    <3>1. /\ UNCHANGED <<cp_call, cp_output, cp_read, cp_tail, cp_gap, cp_early>> /\ cp_pc = "signal" /\ cp_pc' = "grace"
          /\ cp_proc' = CP!Killed(CP!Group \ cp_call.stubborn)
      BY <2>3 DEF CP!Terminate, CP!caller
    <3>2. /\ cp_proc' \in [CP!Processes -> {"none", "running", "dead", "reaped"}]
          /\ \A p \in CP!Processes : cp_proc'[p] = "running" => cp_proc[p] = "running" /\ p \notin CP!Group \ cp_call.stubborn
      BY <1>0, <3>1, KilledIs
    <3>3. Reaping'
      BY <3>1 DEF Reaping, CP!ChildReaped
    <3>4. Helping'
      <4>1. cp_call.isolated => CP!Group = CP!Processes
        BY DEF CP!Group
      <4> QED
        BY <1>0, <3>1, <3>2, <4>1 DEF Helping, CP!Running
    <3> QED
      BY <2>1, <3>1, <3>2, <3>3, <3>4
  <2>4. CASE CP!GraceEnds
    <3>1. UNCHANGED <<cp_call, cp_output, cp_read, cp_tail, cp_gap, cp_early>> /\ cp_pc = "grace"
      BY <2>4 DEF CP!GraceEnds, CP!caller
    <3>2. \/ cp_pc' = "kill" /\ UNCHANGED cp_proc
          \/ cp_pc' = "cleaned" /\ cp_proc' = [cp_proc EXCEPT !["child"] = "reaped"]
      BY <2>4 DEF CP!GraceEnds, CP!Reap
    <3>3. Reaping'
      BY <1>0, <3>2 DEF Reaping, CP!ChildReaped
    <3>4. cp_proc'["helper"] = cp_proc["helper"]
      BY <1>0, <3>2
    <3>5. Helping'
      BY <1>0, <3>1, <3>4 DEF Helping, CP!Running
    <3> QED
      BY <1>0, <2>1, <3>1, <3>2, <3>3, <3>5
  <2>5. CASE CP!Kill
    <3>1. /\ UNCHANGED <<cp_call, cp_output, cp_read, cp_tail, cp_gap, cp_early>> /\ cp_pc = "kill" /\ cp_pc' = "killed"
          /\ cp_proc' = CP!Killed(CP!Group)
      BY <2>5 DEF CP!Kill, CP!KillSignal, CP!caller
    <3>2. /\ cp_proc' \in [CP!Processes -> {"none", "running", "dead", "reaped"}]
          /\ \A p \in CP!Processes : cp_proc'[p] = "running" => cp_proc[p] = "running"
      BY <1>0, <3>1, KilledIs
    <3>3. Reaping'
      BY <3>1 DEF Reaping, CP!ChildReaped
    <3>4. Helping'
      BY <1>0, <3>1, <3>2 DEF Helping, CP!Running
    <3> QED
      BY <2>1, <3>1, <3>2, <3>3, <3>4
  <2>6. CASE CP!KillWait
    <3>1. /\ UNCHANGED <<cp_call, cp_output, cp_read, cp_tail, cp_gap, cp_early>> /\ cp_pc = "killed" /\ cp_pc' = "cleaned"
          /\ cp_proc' = [cp_proc EXCEPT !["child"] = "reaped"]
      BY <2>6 DEF CP!KillWait, CP!caller, CP!Reap
    <3>2. Reaping' /\ Helping'
      BY <1>0, <3>1 DEF Reaping, CP!ChildReaped, Helping, CP!Running
    <3> QED
      BY <1>0, <2>1, <3>1, <3>2
  <2>7. CASE CP!Raise
    <3>1. UNCHANGED <<cp_call, cp_output, cp_read, cp_tail, cp_gap, cp_early, cp_proc>> /\ cp_pc = "cleaned" /\ cp_pc' = "raised"
      BY <2>7 DEF CP!Raise, CP!caller
    <3>2. Reaping' /\ Helping'
      BY <1>0, <3>1 DEF Reaping, CP!ChildReaped, Helping, CP!Running
    <3> QED
      BY <1>0, <2>1, <3>1, <3>2
  <2> QED
    BY <1>10, <2>2, <2>3, <2>4, <2>5, <2>6, <2>7 DEF CP!Cleanup
<1>11. ASSUME NEW p \in CP!Processes, CP!Exit(p) PROVE CallInv'
  <2>1. UNCHANGED <<cp_call, cp_pc, cp_output, cp_read, cp_tail, cp_gap, cp_early>> /\ cp_proc' = CP!Killed({p})
    BY <1>11 DEF CP!Exit, CP!caller
  <2>2. /\ cp_proc' \in [CP!Processes -> {"none", "running", "dead", "reaped"}]
        /\ \A r \in CP!Processes : /\ cp_proc'[r] = "running" => cp_proc[r] = "running"
                                   /\ cp_proc[r] # "running" => cp_proc'[r] = cp_proc[r]
    BY <1>0, <2>1, KilledIs
  <2>3. Reaping' /\ Helping'
    BY <1>0, <2>1, <2>2 DEF Reaping, CP!ChildReaped, Helping, CP!Running
  <2>4. PastEnd' => PastEnd
    BY <2>1 DEF PastEnd
  <2>5. cp_pc \in CallPcs /\ cp_pc # "spawn"
    <3>1. CP!Running(p)
      BY <1>11 DEF CP!Exit
    <3> QED
      BY <1>0, <3>1 DEF Shapes, Unstarted, CP!AllClosed
  <2> QED
    BY <1>0, <2>1, <2>2, <2>3, <2>4, <2>5, SilentStep
<1>12. ASSUME NEW p \in CP!Processes, NEW c \in CP!Chars(cp_call.mode), CP!Write(p, c) PROVE CallInv'
  <2>1. /\ UNCHANGED <<cp_call, cp_pc, cp_proc, cp_read, cp_tail, cp_gap, cp_early>> /\ cp_output' = Append(cp_output, c)
        /\ CP!Running(p)
    BY <1>12 DEF CP!Write
  <2>2. cp_output \in Seq(Alphabet) /\ cp_read \in 0..Len(cp_output) /\ TailIs(cp_tail, cp_output, cp_read)
    BY <1>0 DEF Output
  <2>3. c \in Alphabet
    BY DEF CP!Chars, Alphabet
  <2>4. TailIs(cp_tail, cp_output', cp_read)
    BY <2>1, <2>2, <2>3, GrownTail
  <2>5. cp_output' \in Seq(Alphabet) /\ cp_read \in 0..Len(cp_output')
    BY <2>1, <2>2, <2>3
  <2>6. Output'
    <3>1. TailIs(cp_tail', cp_output', cp_read')
      BY <2>1, <2>4
    <3> QED
      BY <2>1, <2>5, <3>1 DEF Output
  <2>7. cp_pc # "spawn" /\ ~PastEnd
    BY <1>0, <2>1 DEF Unstarted, Closing, CP!AllClosed
  <2>8. Shapes' /\ Reaping' /\ Helping' /\ Closed'
    BY <1>0, <2>1 DEF Shapes, Reaping, CP!ChildReaped, Helping, CP!Running, Closed
  <2>9. Unstarted' /\ Closing'
    BY <2>1, <2>7 DEF Unstarted, Closing, PastEnd
  <2> QED
    BY <2>6, <2>8, <2>9 DEF CallInv
<1> QED
  BY <1>1, <1>2, <1>3, <1>4, <1>5, <1>6, <1>7, <1>8, <1>9, <1>10, <1>11, <1>12 DEF CP!Next

LEMMA CallStutter ==
  ASSUME CallInv, UNCHANGED CP!vars
  PROVE  CallInv'
<1>1. UNCHANGED <<cp_call, cp_pc, cp_proc, cp_output, cp_read, cp_tail, cp_gap, cp_early>>
  BY DEF CP!vars
<1>2. Output'
  BY <1>1, OutputKept DEF CallInv
<1>3. Shapes' /\ Unstarted' /\ Closing' /\ Closed'
  BY <1>1 DEF CallInv, Shapes, Unstarted, Closing, PastEnd, Closed, CP!AllClosed, CP!AllRead,
     CP!Running
<1>4. Reaping' /\ Helping'
  BY <1>1 DEF CallInv, Reaping, CP!ChildReaped, Helping, CP!Running
<1> QED
  BY <1>2, <1>3, <1>4 DEF CallInv

LEMMA CallInvariant == ASSUME OutputSizes PROVE CP!Spec => []CallInv
<1>1. CP!Init => CallInv
  BY CallInit
<1>2. CallInv /\ [CP!Next]_(CP!vars) => CallInv'
  BY CallNext, CallStutter
<1> QED
  BY <1>1, <1>2, PTL DEF CP!Spec

(* However often it is interrupted, a command ends with its child reaped and  *)
(* no obedient helper, and returns the end of its output wherever the chunks  *)
(* were cut and however many lines the tail keeps (commands.py).              *)
THEOREM CallsEndWell ==
  ASSUME OutputSizes PROVE CP!Spec => [](CP!TypeOK /\ CP!ChildReaped /\ CP!NoHelperLeft /\ CP!TailIsEndOfOutput)
<1>1. CallInv => CP!TypeOK
  BY DEF CallInv, Shapes, Output, TailIs, CP!TypeOK
<1>2. CallInv => CP!ChildReaped /\ CP!NoHelperLeft
  BY DEF CallInv, Reaping, Helping, CP!NoHelperLeft
<1>3. CallInv => CP!TailIsEndOfOutput
  <2> SUFFICES ASSUME CallInv, cp_pc = "returned", cp_call.mode # "capture"
               PROVE  CP!IsSuffix(CP!Text, cp_output) /\ (cp_tail.count <= cp_MaxLines => CP!Text = cp_output)
    BY DEF CP!TailIsEndOfOutput
  <2>1. PastEnd /\ cp_tail.partial = <<>>
    BY DEF CallInv, Shapes, CallModes, PastEnd, Closed
  <2>2. cp_read = Len(cp_output) /\ cp_output \in Seq(Alphabet) /\ TailIs(cp_tail, cp_output, cp_read)
    BY <2>1 DEF CallInv, Closing, CP!AllRead, Output
  <2> QED
    BY <2>1, <2>2, TextIsEnd DEF CP!Text
<1> QED
  BY <1>1, <1>2, <1>3, CallInvariant, PTL
-----------------------------------------------------------------------------
(****************************************************************************)
(* DigestVerification                                                       *)
(****************************************************************************)

LEMMA CheckCounts == \A S : DV!Cardinality(S) = Cardinality(S)
BY Zenon DEF DV!Cardinality, Cardinality

Ops == {"verify", "current", "resolve", "subject", "pinned"}

LocalPulled ==
    \/ dv_local = DV!NoImage
    \/ /\ dv_local \in [store : {"classic", "containerd"}, under : dv_Tags, child : DOMAIN dv_Images]
       /\ dv_local.child \in IF dv_local.under \in DOMAIN dv_Indexes THEN dv_Indexes[dv_local.under] ELSE {dv_local.under}

Asked ==
    /\ dv_pc = "idle" => dv_call = DV!NoCall
    /\ dv_pc # "done" => dv_result = DV!Pending
    /\ dv_pc # "idle" => /\ DV!E \in DV!Digests /\ dv_call.op \in Ops
                         /\ dv_tag \in dv_named /\ dv_named \subseteq dv_Tags /\ IsFiniteSet(dv_named)

(* What verify has to accept.                                                 *)
Right ==
    /\ ~dv_failed /\ dv_named = {dv_local.under} /\ (dv_doc.digest # "" \/ dv_local.store = "classic")
    /\ DV!E \in {dv_local.under, dv_local.child}

(* What is known of the tag's document while more documents are fetched.      *)
Known(d) ==
    /\ d.content \in DV!Digests /\ d.digest \in {"", d.content} /\ d.content \in dv_named
    /\ dv_call.op # "pinned"

Where ==
    /\ dv_pc \in {"index", "expected", "same", "children"} => Known(dv_doc)
    /\ dv_pc = "index" => DV!IsIndex(dv_doc) /\ dv_doc.digest = "" /\ dv_call.op \in {"current", "resolve", "subject"}
    /\ dv_pc = "expected" =>
              dv_call.op = "verify" /\ DV!IsIndex(dv_doc) /\ DV!E \in DV!Children(dv_doc.content) /\ ~DV!LocalIndexSelects(dv_doc, DV!E)
    /\ dv_pc = "same" => dv_call.op \in {"verify", "current"} /\ DV!E \notin DV!Children(dv_doc.content) /\ dv_doc.digest = ""
    /\ dv_pc = "children" =>
              /\ dv_call.op = "verify" /\ DV!IsIndex(dv_doc) /\ dv_doc.content = DV!E /\ dv_todo \subseteq DV!Children(DV!E)
              /\ DV!ImageId # DV!E /\ (Right => dv_local.child \in dv_todo)

Told ==
    DV!VerifiedMeansExpected /\ DV!RightImageAccepted /\ DV!CurrentWasCurrent /\ DV!ExactIsOfReported /\ DV!StaleIsTrue

DigestInv == DV!TypeOK /\ LocalPulled /\ Asked /\ Where /\ Told

-----------------------------------------------------------------------------
(* What a request may return                                                  *)
LEMMA HttpFetchedTag ==
  ASSUME DigestsDistinct, dv_tag \in dv_Tags, NEW d \in DV!HttpFetch("tag"), ~DV!IsError(d)
  PROVE  d.content = dv_tag /\ d.digest = dv_tag
BY DEF DV!HttpFetch, DV!Bodies, DV!Named, DV!Intact, DV!IsError

LEMMA FetchedTag ==
  ASSUME DigestsDistinct, dv_tag \in dv_Tags, NEW d \in DV!Fetch("tag"), ~DV!IsError(d)
  PROVE  d.content = dv_tag /\ d.digest \in {"", dv_tag}
<1>1. CASE d \in DV!HttpFetch("tag")
  BY <1>1, HttpFetchedTag
<1>2. CASE d \in DV!DockerFetch("tag")
  <2>1. d = [content |-> dv_tag, digest |-> ""]
    BY <1>2 DEF DV!DockerFetch, DV!Named, DV!IsError
  <2> QED
    BY <2>1
<1> QED
  BY <1>1, <1>2 DEF DV!Fetch

LEMMA FetchedDigest ==
  ASSUME DigestsDistinct, NEW e \in DV!Digests, NEW d \in DV!Fetch(e), ~DV!IsError(d)
  PROVE  d.content = e /\ d.digest \in {"", e}
<1>1. e # "tag"
  BY DEF DigestsDistinct
<1>2. CASE d \in DV!HttpFetch(e)
  <2>1. d = [content |-> e, digest |-> e]
    BY <1>1, <1>2 DEF DV!HttpFetch, DV!Intact, DV!IsError
  <2> QED
    BY <2>1
<1>3. CASE d \in DV!DockerFetch(e)
  <2>1. d = [content |-> e, digest |-> ""]
    BY <1>1, <1>3 DEF DV!DockerFetch, DV!Named, DV!IsError
  <2> QED
    BY <2>1
<1> QED
  BY <1>2, <1>3 DEF DV!Fetch

LEMMA ChildrenAre ==
  ASSUME DigestsDistinct, NEW e \in DV!Digests
  PROVE  /\ DV!Children(e) \subseteq DOMAIN dv_Images
         /\ e \notin DOMAIN dv_Indexes => DV!Children(e) = {} /\ e \in DOMAIN dv_Images
         /\ e \in DOMAIN dv_Indexes => DV!Children(e) = dv_Indexes[e] /\ e \notin DOMAIN dv_Images
         /\ e \notin DV!Children(e)
BY DEF DigestsDistinct, DV!Children, DV!Digests

(* The image id of an image in either store, and what it tells                *)
LEMMA ImageIdIs ==
  ASSUME DigestsDistinct, LocalPulled, DV!ImageId # ""
  PROVE  /\ dv_local # DV!NoImage /\ dv_local.under \in dv_Tags /\ dv_local.under \in DV!Digests /\ dv_local.child \in DOMAIN dv_Images
         /\ dv_local.store \in {"classic", "containerd"}
         /\ dv_local.child \in IF dv_local.under \in DOMAIN dv_Indexes THEN dv_Indexes[dv_local.under] ELSE {dv_local.under}
         /\ dv_local.store = "classic" => DV!ImageId = dv_Images[dv_local.child].config /\ DV!ImageId \notin DV!Digests
         /\ dv_local.store = "containerd" => DV!ImageId = dv_local.under
<1>1. dv_local # DV!NoImage
  BY DEF DV!ImageId
<1>2. /\ dv_local.under \in dv_Tags /\ dv_local.under \in DV!Digests /\ dv_local.child \in DOMAIN dv_Images
      /\ dv_local.store \in {"classic", "containerd"}
      /\ dv_local.child \in IF dv_local.under \in DOMAIN dv_Indexes THEN dv_Indexes[dv_local.under] ELSE {dv_local.under}
  BY <1>1 DEF LocalPulled, DigestsDistinct
<1> QED
  BY <1>1, <1>2 DEF DV!ImageId, DV!ConfigOf, DigestsDistinct

LEMMA ImageMatch ==
  ASSUME DigestsDistinct, LocalPulled, NEW e \in DOMAIN dv_Images, DV!ImageIdMatches(DV!ConfigOf(e), e)
  PROVE  dv_local.child = e
<1>1. DV!ImageId # "" /\ (DV!ImageId = dv_Images[e].config \/ DV!ImageId = e) /\ e \in DV!Digests
  BY DEF DV!ImageIdMatches, DV!ConfigOf, DV!Digests
<1>2. CASE dv_local.store = "classic"
  BY <1>1, <1>2, ImageIdIs DEF DigestsDistinct
<1>3. CASE dv_local.store = "containerd"
  <2>1. dv_local.under = e
    BY <1>1, <1>3, ImageIdIs DEF DigestsDistinct
  <2>2. e \notin DOMAIN dv_Indexes
    BY DEF DigestsDistinct
  <2> QED
    BY <1>1, <2>1, <2>2, ImageIdIs
<1> QED
  BY <1>1, <1>2, <1>3, ImageIdIs

LEMMA IndexMatch ==
  ASSUME DigestsDistinct, LocalPulled, NEW e \in DV!Digests, DV!ImageIdMatches("", e)
  PROVE  dv_local.under = e /\ DV!ImageId = e
<1>1. DV!ImageId # "" /\ DV!ImageId = e
  BY DEF DV!ImageIdMatches
<1> QED
  BY <1>1, ImageIdIs

LEMMA SelectedChild ==
  ASSUME DigestsDistinct, LocalPulled, NEW d, d.content \in DOMAIN dv_Indexes, d.digest \in {"", d.content},
         NEW e \in dv_Indexes[d.content], DV!LocalIndexSelects(d, e)
  PROVE  dv_local.child = e
<1>1. DV!ImageId = d.content /\ dv_Images[e].platform = dv_Images[dv_local.child].platform
  BY DEF DV!LocalIndexSelects
<1>2. d.content \in DV!Digests /\ DV!ImageId # ""
  BY <1>1 DEF DV!Digests, DigestsDistinct
<1>3. dv_local.under = d.content /\ dv_local.child \in dv_Indexes[d.content]
  BY <1>1, <1>2, ImageIdIs
<1> QED
  BY <1>1, <1>3 DEF DigestsDistinct

LEMMA UnderSomething ==
  ASSUME DigestsDistinct, dv_local.under \in DV!Digests
  PROVE  dv_local # DV!NoImage
<1>1. DV!NoImage.under = ""
  BY DEF DV!NoImage
<1> QED
  BY <1>1 DEF DigestsDistinct

LEMMA RightIs ==
  ASSUME DigestsDistinct, LocalPulled, Right, dv_named \subseteq dv_Tags
  PROVE  /\ DV!ImageId # "" /\ dv_local.under \in DV!Digests /\ dv_local.child \in DOMAIN dv_Images
         /\ dv_local.child \in IF dv_local.under \in DOMAIN dv_Indexes THEN dv_Indexes[dv_local.under] ELSE {dv_local.under}
         /\ dv_local.store = "classic" => DV!ImageId = DV!ConfigOf(dv_local.child)
         /\ dv_local.store # "classic" => DV!ImageId = dv_local.under
<1>1. dv_local # DV!NoImage
  BY UnderSomething DEF Right, DigestsDistinct
<1>2. /\ dv_local.under \in DV!Digests /\ dv_local.child \in DOMAIN dv_Images
      /\ dv_local.child \in IF dv_local.under \in DOMAIN dv_Indexes THEN dv_Indexes[dv_local.under] ELSE {dv_local.under}
  BY <1>1 DEF LocalPulled, DigestsDistinct
<1> QED
  BY <1>1, <1>2 DEF DV!ImageId, DV!ConfigOf, DigestsDistinct

-----------------------------------------------------------------------------
(* Conclusions                                                                *)
LEMMA NotConcluded ==
  ASSUME dv_pc' # "done", dv_result' = DV!Pending
  PROVE  Told'
BY DEF Told, DV!VerifiedMeansExpected, DV!RightImageAccepted, DV!CurrentWasCurrent,
   DV!ExactIsOfReported, DV!StaleIsTrue, DV!Is, DV!Pending

LEMMA VerifyConcluded ==
  ASSUME dv_call.op = "verify", UNCHANGED <<dv_local, dv_call, dv_named>>, NEW s \in {"verified", "failed", "stale"},
         dv_result' = DV!Verdict(s, ""), s = "verified" => DV!Runs(DV!E), s # "verified" => ~Right',
         s = "stale" /\ ~dv_failed' => \E t \in dv_named : DV!E \notin {t} \cup DV!Children(t)
  PROVE  Told'
<1>1. dv_result'.status = s /\ dv_call' = dv_call /\ DV!E' = DV!E /\ (DV!Runs(DV!E) => DV!Runs(DV!E)') /\ dv_named' = dv_named
  BY DEF DV!Verdict, DV!E, DV!Runs
<1>2. DV!VerifiedMeansExpected'
  BY <1>1 DEF DV!VerifiedMeansExpected, DV!Is
<1>3. DV!RightImageAccepted'
  BY <1>1 DEF DV!RightImageAccepted, Right
<1>4. DV!CurrentWasCurrent' /\ DV!ExactIsOfReported'
  BY <1>1 DEF DV!CurrentWasCurrent, DV!ExactIsOfReported
<1>5. DV!StaleIsTrue'
  BY <1>1 DEF DV!StaleIsTrue
<1> QED
  BY <1>2, <1>3, <1>4, <1>5 DEF Told

LEMMA OtherConcluded ==
  ASSUME dv_call.op # "verify", UNCHANGED <<dv_local, dv_call, dv_named>>, NEW s, NEW m, dv_result' = DV!Verdict(s, m),
         s \in {"current", "resolved"} => \E t \in dv_named : m \in {t} \cup DV!Children(t),
         s = "exact" /\ (dv_call.op = "pinned" \/ Cardinality(dv_named) = 1) =>
             m = DV!E \/ (m \in DV!Children(DV!E) /\ dv_Images[m].platform = dv_call.platform),
         s = "stale" => \E t \in dv_named : DV!E \notin {t} \cup DV!Children(t)
  PROVE  Told'
<1>1. dv_result'.status = s /\ dv_result'.manifest = m /\ dv_call' = dv_call /\ DV!E' = DV!E /\ dv_named' = dv_named
  BY DEF DV!Verdict, DV!E
<1>2. DV!VerifiedMeansExpected' /\ DV!RightImageAccepted'
  BY <1>1 DEF DV!VerifiedMeansExpected, DV!RightImageAccepted, DV!Is
<1>3. DV!CurrentWasCurrent'
  BY <1>1 DEF DV!CurrentWasCurrent
<1>4. DV!ExactIsOfReported'
  BY <1>1, CheckCounts DEF DV!ExactIsOfReported
<1>5. DV!StaleIsTrue'
  BY <1>1 DEF DV!StaleIsTrue
<1> QED
  BY <1>2, <1>3, <1>4, <1>5 DEF Told

Statuses == {"pending", "verified", "failed", "stale", "stale image", "current",
             "resolved", "exact", "mismatch", "error"}

(* What a step of a check has to leave behind.                                *)
CheckLeaves == Where' /\ Told' /\ dv_todo' \subseteq DOMAIN dv_Images /\ dv_result'.status \in Statuses
        /\ dv_pc' \in {"index", "expected", "same", "children", "done"} /\ (dv_pc' # "done" => dv_result' = DV!Pending)

LEMMA StepConcludes ==
  ASSUME dv_pc' = "done", Told', NEW s \in Statuses, NEW m, dv_result' = DV!Verdict(s, m), dv_todo' \subseteq DOMAIN dv_Images
  PROVE  CheckLeaves
<1>1. Where'
  BY DEF Where
<1>2. dv_result'.status = s
  BY DEF DV!Verdict
<1> QED
  BY <1>1, <1>2 DEF CheckLeaves

(* verify looks at the document of the expected digest.                       *)
LEMMA TagDocumentStep ==
  ASSUME DigestsDistinct, LocalPulled, Asked, dv_pc \in {"tag", "index", "same"}, NEW d, d.content = DV!E, d.digest \in {"", DV!E},
         DV!E \in dv_named, dv_call.op = "verify", UNCHANGED <<dv_local, dv_call, dv_named>>, dv_doc' = d, DV!VerifyTagDocument(d)
  PROVE  CheckLeaves
<1>0. DV!E \in DV!Digests /\ dv_result = DV!Pending /\ DV!E' = DV!E /\ dv_named \subseteq dv_Tags /\ d.digest \in {"", DV!E}
  BY DEF Asked, DV!E
<1>0a. DV!ImageId' = DV!ImageId
  BY DEF DV!ImageId, DV!ConfigOf
<1>1. CASE DV!IsIndex(d)
  <2>0. DV!E \in DOMAIN dv_Indexes /\ DV!Children(DV!E) = dv_Indexes[DV!E] /\ DV!E \notin DOMAIN dv_Images /\ DV!Children(DV!E) \subseteq DOMAIN dv_Images
    BY <1>0, <1>1, ChildrenAre DEF DV!IsIndex
  <2>1. DV!VerifyIndexDocument(d, DV!E)
    BY <1>1, <1>0 DEF DV!VerifyTagDocument
  <2>2. CASE DV!ImageIdMatches("", DV!E)
    <3>1. dv_pc' = "done" /\ dv_result' = DV!Verdict("verified", "") /\ dv_todo' = {}
      BY <2>1, <2>2 DEF DV!VerifyIndexDocument, DV!Conclude
    <3>2. DV!Runs(DV!E)
      BY <1>0, <2>2, IndexMatch DEF DV!Runs
    <3>3. Told'
      BY <3>1, <3>2, VerifyConcluded
    <3> QED
      BY <3>1, <3>3, StepConcludes DEF Statuses
  <2>3. CASE ~DV!ImageIdMatches("", DV!E)
    <3>1. dv_pc' = "children" /\ dv_result' = DV!Pending /\ dv_todo' = DV!Children(DV!E)
      BY <1>0, <2>1, <2>3 DEF DV!VerifyIndexDocument, DV!Reach
    <3>2. DV!ImageId # DV!E
      BY <1>0, <2>3 DEF DV!ImageIdMatches, DigestsDistinct
    <3>3. ASSUME Right' PROVE dv_local'.child \in dv_todo'
      <4>1. dv_named' = {dv_local'.under} /\ DV!E' \in {dv_local'.under, dv_local'.child} /\ dv_local' = dv_local
        BY <3>3 DEF Right
      <4>2. DV!E = dv_local.under
        BY <4>1
      <4>3. dv_local # DV!NoImage
        BY <4>2, <1>0, UnderSomething
      <4>4. dv_local.child \in dv_Indexes[DV!E]
        BY <2>0, <4>2, <4>3 DEF LocalPulled
      <4> QED
        BY <2>0, <3>1, <4>1, <4>4
    <3>4. Where'
      <4>1. Known(dv_doc)' /\ DV!IsIndex(dv_doc)' /\ dv_doc'.content = DV!E' /\ dv_call'.op = "verify" /\ DV!Children(DV!E)' = DV!Children(DV!E)
        BY <1>0, <1>1 DEF Known, DV!IsIndex, DV!Children
      <4>2. dv_todo' \subseteq DV!Children(DV!E)' /\ (DV!ImageId # DV!E)'
        BY <3>1, <3>2, <4>1, <1>0, <1>0a
      <4> QED
        BY <3>1, <3>3, <4>1, <4>2 DEF Where
    <3>5. Told'
      BY <3>1, NotConcluded
    <3> QED
      BY <2>0, <3>1, <3>4, <3>5 DEF CheckLeaves, DV!Pending, Statuses
  <2> QED
    BY <2>2, <2>3
<1>2. CASE ~DV!IsIndex(d)
  <2>0. DV!E \in DOMAIN dv_Images /\ DV!E \notin DOMAIN dv_Indexes
    BY <1>0, <1>2, ChildrenAre DEF DV!IsIndex
  <2>1. DV!VerifyImageDocument(d, DV!E)
    BY <1>2, <1>0 DEF DV!VerifyTagDocument
  <2>2. CASE DV!ImageIdMatches(DV!ConfigOf(DV!E), DV!E)
    <3>1. dv_pc' = "done" /\ dv_result' = DV!Verdict("verified", "") /\ dv_todo' = {}
      BY <2>1, <2>2 DEF DV!VerifyImageDocument, DV!Conclude
    <3>2. DV!Runs(DV!E)
      BY <2>0, <2>2, ImageMatch DEF DV!Runs
    <3>3. Told'
      BY <3>1, <3>2, VerifyConcluded
    <3> QED
      BY <3>1, <3>3, StepConcludes DEF Statuses
  <2>3. CASE ~DV!ImageIdMatches(DV!ConfigOf(DV!E), DV!E)
    <3>1. dv_pc' = "done" /\ dv_result' = DV!Verdict("failed", "") /\ dv_todo' = {}
      BY <2>1, <2>3 DEF DV!VerifyImageDocument, DV!Conclude
    <3>2. ~Right'
      <4> SUFFICES ASSUME Right' PROVE FALSE
        OBVIOUS
      <4>1. dv_named = {dv_local.under} /\ dv_local' = dv_local
        BY DEF Right
      <4>2. dv_local.under = DV!E
        BY <4>1
      <4>3. dv_local # DV!NoImage
        BY <4>2, <1>0, UnderSomething
      <4>4. dv_local.child = DV!E /\ dv_local.store \in {"classic", "containerd"}
        BY <2>0, <4>2, <4>3 DEF LocalPulled
      <4>5. DV!ImageId \in {DV!ConfigOf(DV!E), DV!E} /\ DV!ImageId # ""
        BY <1>0, <2>0, <4>2, <4>3, <4>4 DEF DV!ImageId, DV!ConfigOf, DigestsDistinct
      <4> QED
        BY <2>3, <4>5 DEF DV!ImageIdMatches
    <3>3. Told'
      BY <3>1, <3>2, VerifyConcluded
    <3> QED
      BY <3>1, <3>3, StepConcludes DEF Statuses
  <2> QED
    BY <2>2, <2>3
<1> QED
  BY <1>1, <1>2


LEMMA WithTagStep ==
  ASSUME DigestsDistinct, LocalPulled, Asked, dv_pc \in {"tag", "index"},
         NEW d, d.content \in DV!Digests, d.digest \in {"", d.content},
         dv_call.op # "pinned" => d.content \in dv_named, dv_call.op = "pinned" => d.content = DV!E,
         NEW f, \/ f = d.digest
                \/ /\ d.digest = "" /\ DV!IsIndex(d) /\ f \in dv_named /\ f \in DOMAIN dv_Indexes
                   /\ dv_call.op \in {"current", "resolve", "subject"},
         UNCHANGED <<dv_local, dv_call, dv_named>>, dv_doc' = d, DV!WithTag(d, f)
  PROVE  CheckLeaves
<1>0. /\ DV!E \in DV!Digests /\ dv_result = DV!Pending /\ DV!E' = DV!E /\ dv_named \subseteq dv_Tags /\ "" \notin DV!Digests
      /\ dv_call.op \in Ops /\ dv_call' = dv_call /\ DV!E # ""
  BY DEF Asked, DV!E, DigestsDistinct
<1>0a. DV!Children(d.content) \subseteq DOMAIN dv_Images /\ (DV!E \in DV!Children(d.content) => DV!IsIndex(d))
  BY ChildrenAre DEF DV!IsIndex
<1>1. CASE dv_call.op = "verify"
  <2>0. DV!Verify(d) /\ d.content \in dv_named
    BY <1>1 DEF DV!WithTag
  <2>1. CASE d.digest = DV!E
    <3>1. DV!VerifyTagDocument(d) /\ d.content = DV!E
      BY <1>0, <2>0, <2>1 DEF DV!Verify
    <3> QED
      BY <1>1, <2>0, <2>1, <3>1, TagDocumentStep
  <2>2. CASE d.digest # DV!E /\ DV!E \in DV!Children(d.content) /\ DV!LocalIndexSelects(d, DV!E)
    <3>1. dv_pc' = "done" /\ dv_result' = DV!Verdict("verified", "") /\ dv_todo' = {}
      BY <1>0a, <2>0, <2>2 DEF DV!Verify, DV!Conclude
    <3>2. d.content \in DOMAIN dv_Indexes /\ DV!E \in dv_Indexes[d.content]
      BY <1>0a, <2>2 DEF DV!IsIndex, DV!Children
    <3>3. DV!Runs(DV!E)
      BY <2>2, <3>2, SelectedChild DEF DV!Runs
    <3>4. Told'
      BY <1>1, <3>1, <3>3, VerifyConcluded
    <3> QED
      BY <3>1, <3>4, StepConcludes DEF Statuses
  <2>3. CASE d.digest # DV!E /\ DV!E \in DV!Children(d.content) /\ ~DV!LocalIndexSelects(d, DV!E)
    <3>1. dv_pc' = "expected" /\ dv_result' = DV!Pending /\ dv_todo' = {}
      BY <1>0, <1>0a, <2>0, <2>3 DEF DV!Verify, DV!Reach
    <3>2. DV!LocalIndexSelects(d, DV!E)' <=> DV!LocalIndexSelects(d, DV!E)
      BY <1>0 DEF DV!LocalIndexSelects, DV!ImageId, DV!ConfigOf
    <3>3. Where'
      BY <1>0, <1>0a, <1>1, <2>0, <2>3, <3>1, <3>2 DEF Where, Known, DV!IsIndex, DV!Children
    <3>4. Told'
      BY <3>1, NotConcluded
    <3> QED
      BY <3>1, <3>3, <3>4 DEF CheckLeaves, DV!Pending, Statuses
  <2>4. CASE d.digest # DV!E /\ DV!E \notin DV!Children(d.content) /\ d.digest = ""
    <3>1. dv_pc' = "same" /\ dv_result' = DV!Pending /\ dv_todo' = {}
      BY <1>0, <2>0, <2>4 DEF DV!Verify, DV!Reach
    <3>2. Where'
      BY <1>0, <1>1, <2>0, <2>4, <3>1 DEF Where, Known, DV!Children
    <3>3. Told'
      BY <3>1, NotConcluded
    <3> QED
      BY <3>1, <3>2, <3>3 DEF CheckLeaves, DV!Pending, Statuses
  <2>5. CASE d.digest # DV!E /\ DV!E \notin DV!Children(d.content) /\ d.digest # ""
    <3>1. dv_pc' = "done" /\ dv_result' = DV!Verdict("stale", "") /\ dv_todo' = {}
      BY <1>0, <2>0, <2>5 DEF DV!Verify, DV!Conclude
    <3>2. d.content # DV!E
      BY <2>5
    <3>3. ~Right'
      <4> SUFFICES ASSUME Right' PROVE FALSE
        OBVIOUS
      <4>1. dv_named = {dv_local.under} /\ dv_local' = dv_local /\ DV!E \in {dv_local.under, dv_local.child}
        BY <1>0 DEF Right
      <4>2. dv_local.under = d.content /\ DV!E = dv_local.child
        BY <2>0, <3>2, <4>1
      <4>3. dv_local # DV!NoImage
        BY <4>2, UnderSomething
      <4>4. DV!E \in IF d.content \in DOMAIN dv_Indexes THEN dv_Indexes[d.content] ELSE {d.content}
        BY <4>2, <4>3 DEF LocalPulled
      <4> QED
        BY <2>5, <3>2, <4>4 DEF DV!Children
    <3>4. \E t \in dv_named : DV!E \notin {t} \cup DV!Children(t)
      BY <2>0, <2>5, <3>2
    <3>5. Told'
      BY <1>1, <3>1, <3>3, <3>4, VerifyConcluded
    <3> QED
      BY <3>1, <3>5, StepConcludes DEF Statuses
  <2> QED
    BY <2>1, <2>2, <2>3, <2>4, <2>5
<1>2. ASSUME dv_call.op \in {"current", "subject"}, f # "", f # DV!E, DV!E \notin DV!Children(d.content)
      PROVE  \E t \in dv_named : DV!E \notin {t} \cup DV!Children(t)
  <2>1. d.content \in dv_named
    BY <1>2
  <2>2. CASE f = d.digest
    BY <1>2, <2>1, <2>2
  <2>3. CASE f # d.digest
    <3>1. d.content \in DOMAIN dv_Indexes /\ f \in dv_named /\ f \in DOMAIN dv_Indexes
      BY <2>3 DEF DV!IsIndex
    <3>2. CASE DV!E # d.content
      BY <1>2, <2>1, <3>2
    <3>3. CASE DV!E = d.content
      <4>1. f \in DV!Digests /\ DV!E \notin DOMAIN dv_Images
        BY <3>1, <3>3, <1>0, ChildrenAre DEF DV!Digests
      <4>2. DV!E \notin DV!Children(f)
        BY <4>1, ChildrenAre
      <4> QED
        BY <1>2, <3>1, <4>2
    <3> QED
      BY <3>2, <3>3
  <2> QED
    BY <2>2, <2>3
<1>3. CASE dv_call.op = "current"
  <2>0. DV!VerifyTagDigest(d, f) /\ d.content \in dv_named
    BY <1>3 DEF DV!WithTag
  <2>1. CASE f = DV!E \/ DV!E \in DV!Children(d.content)
    <3>1. dv_pc' = "done" /\ dv_result' = DV!Verdict("current", DV!E) /\ dv_todo' = {}
      BY <1>0a, <2>0, <2>1 DEF DV!VerifyTagDigest, DV!Conclude
    <3>2. \E t \in dv_named : DV!E \in {t} \cup DV!Children(t)
      <4>1. CASE f = DV!E
        <5>1. DV!E \in dv_named
          BY <1>0, <2>0, <4>1
        <5> QED
          BY <5>1
      <4> QED
        BY <2>0, <2>1, <4>1
    <3>3. Told'
      BY <1>3, <3>1, <3>2, OtherConcluded
    <3> QED
      BY <3>1, <3>3, StepConcludes DEF Statuses
  <2>2. CASE f # DV!E /\ DV!E \notin DV!Children(d.content) /\ f = ""
    <3>1. dv_pc' = "same" /\ dv_result' = DV!Pending /\ dv_todo' = {}
      BY <1>0, <2>0, <2>2 DEF DV!VerifyTagDigest, DV!Reach
    <3>2. d.digest = ""
      BY <2>2
    <3>3. Where'
      BY <1>0, <1>3, <2>0, <2>2, <3>1, <3>2 DEF Where, Known, DV!Children
    <3>4. Told'
      BY <3>1, NotConcluded
    <3> QED
      BY <3>1, <3>3, <3>4 DEF CheckLeaves, DV!Pending, Statuses
  <2>3. CASE f # DV!E /\ DV!E \notin DV!Children(d.content) /\ f # ""
    <3>1. dv_pc' = "done" /\ dv_result' = DV!Verdict("stale", f) /\ dv_todo' = {}
      BY <1>0, <2>0, <2>3 DEF DV!VerifyTagDigest, DV!Conclude
    <3>2. Told'
      BY <1>2, <1>3, <2>3, <3>1, OtherConcluded
    <3> QED
      BY <3>1, <3>2, StepConcludes DEF Statuses
  <2> QED
    BY <2>1, <2>2, <2>3
<1>4. CASE dv_call.op = "resolve"
  <2>0. DV!ResolveTagDigest(f) /\ d.content \in dv_named
    BY <1>4 DEF DV!WithTag
  <2>1. CASE f = ""
    <3>1. dv_pc' = "done" /\ dv_result' = DV!Verdict("failed", "") /\ dv_todo' = {}
      BY <2>0, <2>1 DEF DV!ResolveTagDigest, DV!Conclude
    <3>2. Told'
      BY <1>4, <3>1, OtherConcluded
    <3> QED
      BY <3>1, <3>2, StepConcludes DEF Statuses
  <2>2. CASE f # ""
    <3>1. dv_pc' = "done" /\ dv_result' = DV!Verdict("resolved", f) /\ dv_todo' = {}
      BY <2>0, <2>2 DEF DV!ResolveTagDigest, DV!Conclude
    <3>2. f \in dv_named
      BY <2>0, <2>2
    <3>3. Told'
      BY <1>4, <3>1, <3>2, OtherConcluded
    <3> QED
      BY <3>1, <3>3, StepConcludes DEF Statuses
  <2> QED
    BY <2>1, <2>2
<1>5. ASSUME dv_call.op \in {"subject", "pinned"}, DV!IsIndex(d), DV!ReportedIndex(d), dv_todo' = {},
             dv_call.op = "pinned" \/ Cardinality(dv_named) = 1 => d.content = DV!E
      PROVE  CheckLeaves
  <2> DEFINE M == DV!MatchingChild(d.content, dv_call.platform)
             c == CHOOSE m \in M : TRUE
  <2>1. CASE \E m \in M : M = {m}
    <3>1. dv_pc' = "done" /\ dv_result' = DV!Verdict("exact", c)
      BY <1>5, <2>1 DEF DV!ReportedIndex, DV!Conclude
    <3>2. c \in M
      <4> HIDE DEF M
      <4> QED
        BY <2>1
    <3>3. c \in DV!Children(d.content) /\ dv_Images[c].platform = dv_call.platform
      <4> HIDE DEF c
      <4> QED
        BY <3>2 DEF DV!MatchingChild
    <3> HIDE DEF c, M
    <3>4. Told'
      BY <1>5, <3>1, <3>3, OtherConcluded
    <3> QED
      BY <1>5, <3>1, <3>4, StepConcludes DEF Statuses
  <2>2. CASE ~(\E m \in M : M = {m})
    <3>1. dv_pc' = "done" /\ dv_result' = DV!Verdict("mismatch", "")
      BY <1>5, <2>2 DEF DV!ReportedIndex, DV!Conclude
    <3>2. Told'
      BY <1>5, <3>1, OtherConcluded
    <3> QED
      BY <1>5, <3>1, <3>2, StepConcludes DEF Statuses
  <2> QED
    BY <2>1, <2>2
<1>6. ASSUME dv_call.op \in {"subject", "pinned"}, dv_todo' = {}, dv_pc' = "done",
             NEW s \in {"exact", "mismatch", "error", "stale image"}, NEW m, dv_result' = DV!Verdict(s, m),
             s = "exact" => m = DV!E
      PROVE  CheckLeaves
  <2>1. Told'
    BY <1>6, OtherConcluded
  <2> QED
    BY <1>6, <2>1, StepConcludes DEF Statuses
<1>7. CASE dv_call.op = "subject"
  <2>0. DV!ResolveSubject(d, f) /\ d.content \in dv_named
    BY <1>7 DEF DV!WithTag
  <2>1. CASE DV!IsIndex(d)
    <3>0. DV!ResolveIndexSubject(d, f) /\ dv_todo' = {}
      BY <2>0, <2>1 DEF DV!ResolveSubject
    <3>1. CASE f # "" /\ DV!E = f
      <4>1. DV!ReportedIndex(d)
        BY <3>0, <3>1 DEF DV!ResolveIndexSubject
      <4>2. ASSUME Cardinality(dv_named) = 1 PROVE d.content = DV!E
        <5>1. IsFiniteSet(dv_named)
          BY DEF Asked
        <5>2. PICK x : dv_named = {x}
          BY <4>2, <5>1, FS_Singleton
        <5>3. f \in dv_named
          BY <2>0, <3>1
        <5> QED
          BY <2>0, <3>1, <5>2, <5>3
      <4> QED
        BY <1>5, <1>7, <2>1, <3>0, <4>1, <4>2
    <3>2. CASE ~(f # "" /\ DV!E = f) /\ DV!E \in DV!Children(d.content)
      <4>1. DV!ReportedChild
        BY <3>0, <3>2 DEF DV!ResolveIndexSubject
      <4>2. dv_pc' = "done" /\ (dv_result' = DV!Verdict("exact", DV!E) \/ dv_result' = DV!Verdict("mismatch", ""))
        BY <4>1 DEF DV!ReportedChild, DV!Conclude
      <4> QED
        BY <1>6, <1>7, <3>0, <4>2
    <3>3. CASE ~(f # "" /\ DV!E = f) /\ DV!E \notin DV!Children(d.content) /\ f = ""
      <4>1. dv_pc' = "done" /\ dv_result' = DV!Verdict("error", "")
        BY <3>0, <3>3 DEF DV!ResolveIndexSubject, DV!UnknownIndex, DV!Conclude
      <4> QED
        BY <1>6, <1>7, <3>0, <4>1
    <3>4. CASE ~(f # "" /\ DV!E = f) /\ DV!E \notin DV!Children(d.content) /\ f # ""
      <4>1. dv_pc' = "done" /\ dv_result' = DV!Verdict("stale", "")
        BY <3>0, <3>4 DEF DV!ResolveIndexSubject, DV!Conclude
      <4>2. Told'
        BY <1>2, <1>7, <3>4, <4>1, OtherConcluded
      <4> QED
        BY <3>0, <4>1, <4>2, StepConcludes DEF Statuses
    <3> QED
      BY <3>1, <3>2, <3>3, <3>4
  <2>2. CASE ~DV!IsIndex(d)
    <3>1. dv_pc' = "done" /\ dv_todo' = {} /\ (dv_result' = DV!Verdict("exact", DV!E) \/ dv_result' = DV!Verdict("stale image", ""))
      BY <2>0, <2>2 DEF DV!ResolveSubject, DV!ResolveImageSubject, DV!Conclude
    <3> QED
      BY <1>6, <1>7, <3>1
  <2> QED
    BY <2>1, <2>2
<1>8. CASE dv_call.op = "pinned"
  <2>0. DV!ResolveDigestSubject(d) /\ d.content = DV!E
    BY <1>8 DEF DV!WithTag
  <2>1. CASE DV!IsIndex(d)
    <3>1. DV!ReportedIndex(d) /\ dv_todo' = {}
      BY <2>0, <2>1 DEF DV!ResolveDigestSubject
    <3> QED
      BY <1>5, <1>8, <2>0, <2>1, <3>1
  <2>2. CASE ~DV!IsIndex(d)
    <3>1. dv_pc' = "done" /\ dv_todo' = {} /\ dv_result' = DV!Verdict("exact", DV!E)
      BY <2>0, <2>2 DEF DV!ResolveDigestSubject, DV!Conclude
    <3> QED
      BY <1>6, <1>8, <3>1
  <2> QED
    BY <2>1, <2>2
<1> QED
  BY <1>0, <1>1, <1>3, <1>4, <1>7, <1>8 DEF Ops

-----------------------------------------------------------------------------
LEMMA DigestInit ==
  ASSUME DigestsDistinct, DV!Init
  PROVE  DigestInv
<1>1. dv_pc = "idle" /\ dv_result = DV!Pending /\ dv_call = DV!NoCall /\ dv_local = DV!NoImage /\ dv_tag \in dv_Tags /\ dv_found = "" /\ dv_todo = {}
  BY DEF DV!Init
<1>2. DV!TypeOK
  BY <1>1 DEF DV!TypeOK, DV!Pending
<1>3. LocalPulled /\ Asked /\ Where
  BY <1>1 DEF LocalPulled, Asked, Where
<1>4. Told
  BY <1>1 DEF Told, DV!VerifiedMeansExpected, DV!RightImageAccepted, DV!CurrentWasCurrent,
     DV!ExactIsOfReported, DV!StaleIsTrue, DV!Is, DV!Pending
<1> QED
  BY <1>2, <1>3, <1>4 DEF DigestInv

(* A step of a check that goes on or concludes.                               *)
LEMMA CheckStep ==
  ASSUME DigestInv, dv_pc # "idle", UNCHANGED <<dv_tag, dv_local, dv_call, dv_named>>, dv_found' \in DV!Digests \cup {""}, CheckLeaves
  PROVE  DigestInv'
<1>1. DV!TypeOK'
  BY DEF DigestInv, DV!TypeOK, CheckLeaves, Statuses
<1>2. LocalPulled' /\ Asked'
  BY DEF DigestInv, LocalPulled, Asked, CheckLeaves, DV!E
<1> QED
  BY <1>1, <1>2 DEF DigestInv, CheckLeaves

LEMMA DigestNext ==
  ASSUME DigestsDistinct, DigestInv, DV!Next
  PROVE  DigestInv'
<1>0. DV!TypeOK /\ LocalPulled /\ Asked /\ Where /\ Told /\ dv_tag \in dv_Tags /\ dv_tag \in DV!Digests
  BY DEF DigestInv, DV!TypeOK, DigestsDistinct
<1>1. CASE DV!MoveTag
  <2>1. UNCHANGED <<dv_local, dv_call, dv_pc, dv_doc, dv_found, dv_todo, dv_result, dv_failed>> /\ dv_tag' \in dv_Tags
    BY <1>1 DEF DV!MoveTag
  <2>2. DV!TypeOK' /\ LocalPulled'
    BY <1>0, <2>1 DEF DV!TypeOK, LocalPulled
  <2>3. CASE dv_pc = "idle"
    <3>1. Asked' /\ Where'
      BY <1>0, <2>1, <2>3 DEF Asked, Where
    <3>2. dv_pc' # "done" /\ dv_result' = DV!Pending
      BY <1>0, <2>1, <2>3 DEF Asked
    <3> QED
      BY <2>2, <3>1, <3>2, NotConcluded DEF DigestInv
  <2>4. CASE dv_pc # "idle"
    <3>1. dv_named' = dv_named \cup {dv_tag'} /\ dv_tag \in dv_named /\ dv_named \subseteq dv_Tags /\ IsFiniteSet(dv_named)
      BY <1>0, <1>1, <2>4 DEF DV!MoveTag, Asked
    <3>2. IsFiniteSet(dv_named')
      BY <3>1, FS_AddElement
    <3>3. Asked'
      BY <1>0, <2>1, <2>4, <3>1, <3>2 DEF Asked, DV!E
    <3>4. Right' => Right
      BY <2>1, <3>1 DEF Right, DV!E
    <3>5. Where'
      <4>1. Known(dv_doc) => Known(dv_doc)'
        BY <2>1, <3>1 DEF Known
      <4>2. DV!E' = DV!E /\ DV!ImageId' = DV!ImageId
        BY <2>1 DEF DV!E, DV!ImageId, DV!ConfigOf
      <4> QED
        BY <1>0, <2>1, <3>4, <4>1, <4>2 DEF Where, DV!IsIndex, DV!Children, DV!LocalIndexSelects
    <3>6. DV!VerifiedMeansExpected' /\ DV!RightImageAccepted'
      BY <1>0, <2>1, <3>1 DEF Told, DV!VerifiedMeansExpected, DV!RightImageAccepted, DV!Is, DV!Runs,
         DV!E, DV!Children
    <3>7. DV!CurrentWasCurrent' /\ DV!StaleIsTrue'
      BY <1>0, <2>1, <3>1 DEF Told, DV!CurrentWasCurrent, DV!StaleIsTrue, DV!E, DV!Children
    <3>8. DV!ExactIsOfReported'
      <4>1. ASSUME Cardinality(dv_named') = 1 PROVE Cardinality(dv_named) = 1
        <5>1. PICK x : dv_named' = {x}
          BY <3>2, <4>1, FS_Singleton
        <5>2. dv_named = {x}
          BY <3>1, <5>1
        <5> QED
          BY <5>2, FS_Singleton
      <4> QED
        BY <1>0, <2>1, <4>1, CheckCounts DEF Told, DV!ExactIsOfReported, DV!E, DV!Children
    <3> QED
      BY <2>2, <3>3, <3>5, <3>6, <3>7, <3>8 DEF DigestInv, Told
  <2> QED
    BY <2>3, <2>4
<1>2. CASE DV!Pull
  <2>1. UNCHANGED <<dv_tag, dv_call, dv_pc, dv_doc, dv_found, dv_todo, dv_result, dv_named, dv_failed>> /\ dv_pc = "idle"
    BY <1>2 DEF DV!Pull
  <2>2. PICK store \in {"classic", "containerd"},
             child \in IF dv_tag \in DOMAIN dv_Indexes THEN dv_Indexes[dv_tag] ELSE {dv_tag} :
                 dv_local' = [store |-> store, under |-> dv_tag, child |-> child]
    BY <1>2 DEF DV!Pull
  <2>3. child \in DOMAIN dv_Images
    BY <1>0, <2>2, ChildrenAre
  <2>4. LocalPulled'
    <3>1. dv_local' \in [store : {"classic", "containerd"}, under : dv_Tags, child : DOMAIN dv_Images]
      BY <1>0, <2>2, <2>3
    <3>2. dv_local'.under = dv_tag /\ dv_local'.child = child
      BY <2>2
    <3> QED
      BY <2>2, <3>1, <3>2 DEF LocalPulled
  <2>5. DV!TypeOK' /\ Asked' /\ Where'
    BY <1>0, <2>1 DEF DV!TypeOK, Asked, Where
  <2>6. dv_pc' # "done" /\ dv_result' = DV!Pending
    BY <1>0, <2>1 DEF Asked
  <2> QED
    BY <2>4, <2>5, <2>6, NotConcluded DEF DigestInv
<1>3. ASSUME NEW op \in Ops, NEW d \in DV!Digests, NEW p, DV!Start(op, d, p)
      PROVE  DigestInv'
  <2>1. /\ UNCHANGED <<dv_tag, dv_local, dv_doc, dv_found, dv_todo>> /\ dv_pc = "idle" /\ dv_named' = {dv_tag} /\ ~dv_failed'
        /\ dv_call' = [op |-> op, digest |-> d, platform |-> p] /\ dv_result = DV!Pending
    BY <1>0, <1>3 DEF DV!Start, Asked
  <2>2. DV!E' = d /\ dv_call'.op = op /\ IsFiniteSet(dv_named') /\ LocalPulled'
    BY <1>0, <2>1, FS_Singleton DEF DV!E, LocalPulled
  <2>3. CASE op = "verify" /\ d = dv_local.under
    <3>1. dv_pc' = "done" /\ dv_result' = DV!Verdict("verified", "") /\ dv_result'.status = "verified"
      <4>1. DV!Conclude("verified", "")
        BY <1>3, <2>3 DEF DV!Start
      <4>2. dv_pc' = "done" /\ dv_result' = DV!Verdict("verified", "")
        BY <4>1 DEF DV!Conclude
      <4> QED
        BY <4>2 DEF DV!Verdict
    <3>2. DV!TypeOK' /\ Asked' /\ Where'
      BY <1>0, <2>1, <2>2, <3>1 DEF DV!TypeOK, Asked, Where
    <3>3. Told'
      BY <2>1, <2>2, <2>3, <3>1 DEF Told, DV!VerifiedMeansExpected, DV!RightImageAccepted,
         DV!CurrentWasCurrent,
         DV!ExactIsOfReported, DV!StaleIsTrue, DV!Is, DV!Runs
    <3> QED
      BY <2>2, <3>2, <3>3 DEF DigestInv
  <2>4. CASE ~(op = "verify" /\ d = dv_local.under) /\ op = "verify" /\ DV!ImageId = ""
    <3>1. dv_pc' = "done" /\ dv_result' = DV!Verdict("failed", "") /\ dv_result'.status = "failed"
      <4>1. DV!Conclude("failed", "")
        BY <1>3, <2>4 DEF DV!Start
      <4>2. dv_pc' = "done" /\ dv_result' = DV!Verdict("failed", "")
        BY <4>1 DEF DV!Conclude
      <4> QED
        BY <4>2 DEF DV!Verdict
    <3>2. DV!TypeOK' /\ Asked' /\ Where'
      BY <1>0, <2>1, <2>2, <3>1 DEF DV!TypeOK, Asked, Where
    <3>3. dv_named' # {dv_local'.under}
      <4> SUFFICES ASSUME dv_tag = dv_local.under PROVE FALSE
        BY <2>1
      <4>1. dv_local # DV!NoImage
        BY <1>0, UnderSomething
      <4>2. dv_local.child \in DOMAIN dv_Images
        BY <1>0, <4>1 DEF LocalPulled
      <4> QED
        BY <1>0, <2>4, <4>1, <4>2 DEF DV!ImageId, DV!ConfigOf, DigestsDistinct
    <3>4. Told'
      BY <2>1, <2>2, <2>4, <3>1, <3>3 DEF Told, DV!VerifiedMeansExpected, DV!RightImageAccepted,
         DV!CurrentWasCurrent,
         DV!ExactIsOfReported, DV!StaleIsTrue, DV!Is
    <3> QED
      BY <2>2, <3>2, <3>4 DEF DigestInv
  <2>5. CASE ~(op = "verify" /\ d = dv_local.under) /\ ~(op = "verify" /\ DV!ImageId = "")
    <3>1. dv_pc' = "tag" /\ dv_result' = DV!Pending
      BY <1>3, <2>1, <2>5 DEF DV!Start, DV!Reach
    <3>2. DV!TypeOK' /\ Asked' /\ Where'
      BY <1>0, <2>1, <2>2, <3>1 DEF DV!TypeOK, Asked, Where, DV!Pending
    <3> QED
      BY <2>2, <3>1, <3>2, NotConcluded DEF DigestInv
  <2> QED
    BY <2>3, <2>4, <2>5
<1>4. CASE DV!FetchTag
  <2>1. /\ UNCHANGED <<dv_tag, dv_local, dv_call, dv_named>> /\ dv_pc = "tag" /\ dv_tag \in dv_named /\ DV!E \in DV!Digests
        /\ dv_todo \subseteq DOMAIN dv_Images /\ dv_found \in DV!Digests \cup {""} /\ dv_result = DV!Pending /\ dv_call.op \in Ops
    BY <1>0, <1>4 DEF DV!FetchTag, Asked, DV!TypeOK
  <2>2. PICK d \in DV!Fetch(IF dv_call.op = "pinned" THEN DV!E ELSE "tag") :
          /\ dv_failed' = (dv_failed \/ DV!IsError(d))
          /\ IF DV!IsError(d)
             THEN /\ DV!Conclude(IF d = DV!IntegrityError /\ dv_call.op \in {"subject", "pinned"}
                                 THEN "mismatch" ELSE "failed", "")
                  /\ UNCHANGED <<dv_doc, dv_found, dv_todo>>
             ELSE /\ dv_doc' = d /\ dv_found' = d.digest
                  /\ IF d.digest = "" /\ DV!IsIndex(d) /\ dv_call.op \in {"current", "resolve", "subject"}
                     THEN DV!Reach("index") /\ dv_todo' = {}
                     ELSE DV!WithTag(d, d.digest)
    BY <1>4 DEF DV!FetchTag
  <2>3. CASE DV!IsError(d)
    <3>1. PICK s \in {"mismatch", "failed"} : dv_pc' = "done" /\ dv_result' = DV!Verdict(s, "") /\ (s = "mismatch" => dv_call.op # "verify")
      BY <2>2, <2>3 DEF DV!Conclude
    <3>2. dv_failed' /\ dv_todo' = dv_todo /\ dv_found' = dv_found
      BY <2>2, <2>3
    <3>3. Told'
      <4>1. CASE dv_call.op = "verify"
        BY <2>1, <3>1, <3>2, <4>1, VerifyConcluded DEF Right
      <4>2. CASE dv_call.op # "verify"
        BY <2>1, <3>1, <4>2, OtherConcluded
      <4> QED
        BY <4>1, <4>2
    <3>4. CheckLeaves
      BY <2>1, <3>1, <3>2, <3>3, StepConcludes DEF Statuses
    <3> QED
      BY <2>1, <3>2, <3>4, CheckStep
  <2>4. CASE ~DV!IsError(d)
    <3>1. /\ d.content \in DV!Digests /\ d.digest \in {"", d.content}
          /\ dv_call.op # "pinned" => d.content \in dv_named
          /\ dv_call.op = "pinned" => d.content = DV!E
      BY <1>0, <2>1, <2>2, <2>4, FetchedTag, FetchedDigest
    <3>2. dv_doc' = d /\ dv_found' = d.digest
      BY <2>2, <2>4
    <3>3. CASE d.digest = "" /\ DV!IsIndex(d) /\ dv_call.op \in {"current", "resolve", "subject"}
      <4>1. dv_pc' = "index" /\ dv_result' = DV!Pending /\ dv_todo' = {}
        BY <2>1, <2>2, <2>4, <3>3 DEF DV!Reach
      <4>2. Where'
        BY <2>1, <3>1, <3>2, <3>3, <4>1 DEF Where, Known, DV!IsIndex
      <4>3. CheckLeaves
        BY <4>1, <4>2, NotConcluded DEF CheckLeaves, DV!Pending, Statuses
      <4> QED
        BY <2>1, <3>2, <3>3, <4>3, CheckStep
    <3>4. CASE ~(d.digest = "" /\ DV!IsIndex(d) /\ dv_call.op \in {"current", "resolve", "subject"})
      <4>1. DV!WithTag(d, d.digest)
        BY <2>2, <2>4, <3>4
      <4>2. CheckLeaves
        BY <1>0, <2>1, <3>1, <3>2, <4>1, WithTagStep
      <4> QED
        BY <2>1, <3>1, <3>2, <4>2, CheckStep
    <3> QED
      BY <3>3, <3>4
  <2> QED
    BY <2>3, <2>4
<1>5. CASE DV!FetchIndexDigest
  <2>1. /\ UNCHANGED <<dv_tag, dv_local, dv_call, dv_doc, dv_named>> /\ dv_pc = "index" /\ dv_tag \in dv_named
        /\ Known(dv_doc) /\ DV!IsIndex(dv_doc) /\ dv_doc.digest = "" /\ dv_call.op \in {"current", "resolve", "subject"}
    BY <1>0, <1>5 DEF DV!FetchIndexDigest, Asked, Where
  <2>2. PICK d \in DV!HttpFetch("tag") :
          /\ dv_found' = IF DV!IsError(d) \/ ~DV!IsIndex(d) THEN "" ELSE d.digest
          /\ DV!WithTag(dv_doc, dv_found')
    BY <1>5 DEF DV!FetchIndexDigest
  <2>3. dv_found' = "" \/ (dv_found' = dv_tag /\ dv_tag \in DOMAIN dv_Indexes)
    BY <1>0, <2>2, HttpFetchedTag DEF DV!IsIndex
  <2> DEFINE f == dv_found'
  <2>4. f = dv_doc.digest \/ (f \in dv_named /\ f \in DOMAIN dv_Indexes)
    BY <2>1, <2>3
  <2>5. DV!WithTag(dv_doc, f) /\ f \in DV!Digests \cup {""}
    BY <1>0, <2>2, <2>3
  <2> HIDE DEF f
  <2>6. PICK d0, f0 : d0 = dv_doc /\ f0 = f
    OBVIOUS
  <2>7. DV!WithTag(d0, f0)
    BY <2>5, <2>6
  <2>8. CheckLeaves
    BY <1>0, <2>1, <2>4, <2>6, <2>7, WithTagStep DEF Known
  <2> QED
    BY <2>1, <2>5, <2>8, CheckStep DEF f
<1>6. CASE DV!FetchExpected
  <2>1. /\ UNCHANGED <<dv_tag, dv_local, dv_call, dv_doc, dv_found, dv_todo, dv_named>> /\ dv_pc = "expected" /\ DV!E \in DV!Digests
        /\ Known(dv_doc) /\ dv_call.op = "verify" /\ DV!IsIndex(dv_doc) /\ DV!E \in DV!Children(dv_doc.content)
        /\ ~DV!LocalIndexSelects(dv_doc, DV!E) /\ dv_named \subseteq dv_Tags
        /\ dv_todo \subseteq DOMAIN dv_Images /\ dv_found \in DV!Digests \cup {""}
    BY <1>0, <1>6 DEF DV!FetchExpected, Asked, Where, DV!TypeOK
  <2>2. DV!E \in DOMAIN dv_Images
    BY <2>1, ChildrenAre DEF Known
  <2>3. PICK d \in DV!Fetch(DV!E) :
          /\ dv_failed' = (dv_failed \/ DV!IsError(d))
          /\ IF ~DV!IsError(d) /\ DV!ImageIdMatches(DV!ConfigOf(d.content), DV!E)
             THEN DV!Conclude("verified", "") ELSE DV!Conclude("failed", "")
    BY <1>6 DEF DV!FetchExpected
  <2>4. ~DV!IsError(d) => d.content = DV!E
    BY <2>1, FetchedDigest
  <2>5. CASE ~DV!IsError(d) /\ DV!ImageIdMatches(DV!ConfigOf(d.content), DV!E)
    <3>1. dv_pc' = "done" /\ dv_result' = DV!Verdict("verified", "")
      BY <2>3, <2>5 DEF DV!Conclude
    <3>2. DV!Runs(DV!E)
      BY <1>0, <2>2, <2>4, <2>5, ImageMatch DEF DV!Runs
    <3>3. Told'
      BY <2>1, <3>1, <3>2, VerifyConcluded
    <3>4. CheckLeaves
      BY <2>1, <3>1, <3>3, StepConcludes DEF Statuses
    <3> QED
      BY <2>1, <3>4, CheckStep
  <2>6. CASE ~(~DV!IsError(d) /\ DV!ImageIdMatches(DV!ConfigOf(d.content), DV!E))
    <3>1. dv_pc' = "done" /\ dv_result' = DV!Verdict("failed", "")
      BY <2>3, <2>6 DEF DV!Conclude
    <3>2. ~Right'
      <4> SUFFICES ASSUME Right' PROVE FALSE
        OBVIOUS
      <4>1. Right /\ ~DV!IsError(d)
        BY <2>1, <2>3 DEF Right, DV!E
      <4>2. dv_doc.content = dv_local.under /\ dv_local.under \in DOMAIN dv_Indexes
        BY <2>1, <4>1 DEF Right, Known, DV!IsIndex
      <4>3. dv_local.child = DV!E
        BY <2>2, <4>1, <4>2 DEF Right, DigestsDistinct
      <4>4. CASE dv_local.store = "classic"
        <5>1. DV!ImageId = DV!ConfigOf(DV!E) /\ DV!ImageId # ""
          BY <1>0, <2>1, <4>1, <4>3, <4>4, RightIs
        <5> QED
          BY <2>4, <2>6, <4>1, <5>1 DEF DV!ImageIdMatches
      <4>5. CASE dv_local.store # "classic"
        <5>1. DV!ImageId = dv_local.under
          BY <1>0, <2>1, <4>1, <4>5, RightIs
        <5>2. dv_doc.digest = dv_doc.content
          BY <2>1, <4>1, <4>5 DEF Right, Known
        <5>3. DV!LocalIndexSelects(dv_doc, DV!E)
          BY <1>0, <2>1, <4>1, <4>2, <4>3, <4>5, <5>1, <5>2 DEF DV!LocalIndexSelects, Right
        <5> QED
          BY <2>1, <5>3
      <4> QED
        BY <4>4, <4>5
    <3>3. Told'
      BY <2>1, <3>1, <3>2, VerifyConcluded
    <3>4. CheckLeaves
      BY <2>1, <3>1, <3>3, StepConcludes DEF Statuses
    <3> QED
      BY <2>1, <3>4, CheckStep
  <2> QED
    BY <2>5, <2>6
<1>7. CASE DV!FetchSame
  <2>1. /\ UNCHANGED <<dv_tag, dv_local, dv_call, dv_doc, dv_found, dv_named>> /\ dv_pc = "same" /\ DV!E \in DV!Digests
        /\ Known(dv_doc) /\ dv_call.op \in {"verify", "current"} /\ DV!E \notin DV!Children(dv_doc.content)
        /\ dv_doc.digest = "" /\ dv_named \subseteq dv_Tags
        /\ dv_todo \subseteq DOMAIN dv_Images /\ dv_found \in DV!Digests \cup {""}
    BY <1>0, <1>7 DEF DV!FetchSame, Asked, Where, DV!TypeOK
  <2>2. PICK d \in DV!Fetch(DV!E) :
          /\ dv_failed' = (dv_failed \/ DV!IsError(d))
          /\ IF d = DV!IntegrityError \/ (d = DV!LookupError /\ dv_call.op = "current")
             THEN DV!Conclude("failed", "") /\ UNCHANGED dv_todo
             ELSE IF DV!SameManifest(d)
             THEN IF dv_call.op = "verify" THEN DV!VerifyTagDocument(dv_doc)
                  ELSE DV!Conclude("current", DV!E) /\ UNCHANGED dv_todo
             ELSE DV!Conclude("stale", "") /\ UNCHANGED dv_todo
    BY <1>7 DEF DV!FetchSame
  <2>3. ~DV!IsError(d) => d.content = DV!E
    BY <2>1, FetchedDigest
  <2>4. CASE d = DV!IntegrityError \/ (d = DV!LookupError /\ dv_call.op = "current")
    <3>1. dv_pc' = "done" /\ dv_result' = DV!Verdict("failed", "") /\ dv_todo' = dv_todo
      BY <2>2, <2>4 DEF DV!Conclude
    <3>2. dv_failed'
      BY <2>2, <2>4 DEF DV!IsError
    <3>3. Told'
      <4>1. CASE dv_call.op = "verify"
        BY <2>1, <3>1, <3>2, <4>1, VerifyConcluded DEF Right
      <4>2. CASE dv_call.op # "verify"
        BY <2>1, <3>1, <4>2, OtherConcluded
      <4> QED
        BY <4>1, <4>2
    <3>4. CheckLeaves
      BY <2>1, <3>1, <3>3, StepConcludes DEF Statuses
    <3> QED
      BY <2>1, <3>4, CheckStep
  <2>5. CASE ~(d = DV!IntegrityError \/ (d = DV!LookupError /\ dv_call.op = "current")) /\ DV!SameManifest(d)
    <3>1. ~DV!IsError(d)
      <4>1. DV!LookupError.content = "lookup" /\ dv_doc.content \in DV!Digests
        BY <2>1 DEF DV!LookupError, Known
      <4>2. d # DV!LookupError
        BY <2>5, <4>1 DEF DV!SameManifest, DigestsDistinct
      <4> QED
        BY <2>5, <4>2 DEF DV!IsError
    <3>2. dv_doc.content = DV!E
      BY <2>3, <2>5, <3>1 DEF DV!SameManifest
    <3>3. CASE dv_call.op = "verify"
      <4>1. DV!VerifyTagDocument(dv_doc)
        BY <2>2, <2>5, <3>3
      <4>2. PICK d0 : d0 = dv_doc
        OBVIOUS
      <4>3. DV!VerifyTagDocument(d0)
        BY <4>1, <4>2
      <4>4. CheckLeaves
        BY <1>0, <2>1, <3>2, <3>3, <4>2, <4>3, TagDocumentStep DEF Known
      <4> QED
        BY <2>1, <4>4, CheckStep
    <3>4. CASE dv_call.op # "verify"
      <4>1. dv_pc' = "done" /\ dv_result' = DV!Verdict("current", DV!E) /\ dv_todo' = dv_todo
        BY <2>2, <2>5, <3>4 DEF DV!Conclude
      <4>2. Told'
        BY <2>1, <3>2, <3>4, <4>1, OtherConcluded DEF Known
      <4>3. CheckLeaves
        BY <2>1, <4>1, <4>2, StepConcludes DEF Statuses
      <4> QED
        BY <2>1, <4>3, CheckStep
    <3> QED
      BY <3>3, <3>4
  <2>6. CASE ~(d = DV!IntegrityError \/ (d = DV!LookupError /\ dv_call.op = "current")) /\ ~DV!SameManifest(d)
    <3>1. dv_pc' = "done" /\ dv_result' = DV!Verdict("stale", "") /\ dv_todo' = dv_todo
      BY <2>2, <2>6 DEF DV!Conclude
    <3>2. ~DV!IsError(d) => dv_doc.content # DV!E
      BY <2>3, <2>6 DEF DV!SameManifest
    <3>3. CASE dv_call.op = "verify"
      <4>1. ~Right'
        <5> SUFFICES ASSUME Right' PROVE FALSE
          OBVIOUS
        <5>1. Right /\ ~DV!IsError(d)
          BY <2>1, <2>2 DEF Right, DV!E
        <5>2. dv_doc.content = dv_local.under /\ DV!E = dv_local.child
          BY <2>1, <3>2, <5>1 DEF Right, Known
        <5>3. DV!E \in IF dv_doc.content \in DOMAIN dv_Indexes THEN dv_Indexes[dv_doc.content] ELSE {dv_doc.content}
          BY <1>0, <2>1, <5>1, <5>2, RightIs
        <5> QED
          BY <2>1, <3>2, <5>1, <5>3 DEF DV!Children
      <4>2. ~dv_failed' => ~DV!IsError(d)
        BY <2>2
      <4>3. ~dv_failed' => \E t \in dv_named : DV!E \notin {t} \cup DV!Children(t)
        BY <2>1, <3>2, <4>2 DEF Known
      <4>4. Told'
        BY <2>1, <3>1, <3>3, <4>1, <4>3, VerifyConcluded
      <4>5. CheckLeaves
        BY <2>1, <3>1, <4>4, StepConcludes DEF Statuses
      <4> QED
        BY <2>1, <4>5, CheckStep
    <3>4. CASE dv_call.op = "current"
      <4>1. ~DV!IsError(d)
        BY <2>6, <3>4 DEF DV!IsError
      <4>2. \E t \in dv_named : DV!E \notin {t} \cup DV!Children(t)
        BY <2>1, <3>2, <4>1 DEF Known
      <4>3. Told'
        BY <2>1, <3>1, <3>4, <4>2, OtherConcluded
      <4>4. CheckLeaves
        BY <2>1, <3>1, <4>3, StepConcludes DEF Statuses
      <4> QED
        BY <2>1, <4>4, CheckStep
    <3> QED
      BY <2>1, <3>3, <3>4
  <2> QED
    BY <2>4, <2>5, <2>6
<1>8. CASE DV!FetchChild
  <2>1. /\ UNCHANGED <<dv_tag, dv_local, dv_call, dv_doc, dv_found, dv_named>> /\ dv_pc = "children" /\ DV!E \in DV!Digests
        /\ Known(dv_doc) /\ dv_call.op = "verify" /\ DV!IsIndex(dv_doc) /\ dv_doc.content = DV!E
        /\ dv_todo \subseteq DV!Children(DV!E) /\ DV!ImageId # DV!E /\ (Right => dv_local.child \in dv_todo) /\ dv_result = DV!Pending
        /\ dv_named \subseteq dv_Tags /\ dv_todo \subseteq DOMAIN dv_Images /\ dv_found \in DV!Digests \cup {""}
    BY <1>0, <1>8 DEF DV!FetchChild, Asked, Where, DV!TypeOK
  <2>2. CASE dv_todo = {} /\ DV!Conclude("failed", "") /\ UNCHANGED <<dv_todo, dv_failed>>
    <3>1. dv_pc' = "done" /\ dv_result' = DV!Verdict("failed", "") /\ dv_todo' = dv_todo
      BY <2>2 DEF DV!Conclude
    <3>2. ~Right'
      BY <2>1, <2>2 DEF Right, DV!E
    <3>3. Told'
      BY <2>1, <3>1, <3>2, VerifyConcluded
    <3>4. CheckLeaves
      BY <2>1, <3>1, <3>3, StepConcludes DEF Statuses
    <3> QED
      BY <2>1, <3>4, CheckStep
  <2>3. ASSUME NEW m \in dv_todo, NEW d \in DV!Fetch(m), dv_todo' = dv_todo \ {m}, dv_failed' = (dv_failed \/ DV!IsError(d)),
               IF d = DV!IntegrityError THEN DV!Conclude("failed", "")
               ELSE IF d # DV!LookupError /\ DV!ImageIdMatches(DV!ConfigOf(d.content), m)
               THEN DV!Conclude("verified", "")
               ELSE DV!Reach("children")
        PROVE  DigestInv'
    <3>0. m \in DOMAIN dv_Images /\ m \in DV!Digests /\ (~DV!IsError(d) => d.content = m) /\ m \in DV!Children(DV!E)
      BY <2>1, FetchedDigest DEF DV!Digests
    <3>1. CASE d = DV!IntegrityError
      <4>1. dv_pc' = "done" /\ dv_result' = DV!Verdict("failed", "") /\ dv_failed'
        BY <2>3, <3>1 DEF DV!Conclude, DV!IsError
      <4>2. Told'
        BY <2>1, <4>1, VerifyConcluded DEF Right
      <4>3. CheckLeaves
        BY <2>1, <2>3, <4>1, <4>2, StepConcludes DEF Statuses
      <4> QED
        BY <2>1, <4>3, CheckStep
    <3>2. CASE d # DV!IntegrityError /\ d # DV!LookupError /\ DV!ImageIdMatches(DV!ConfigOf(d.content), m)
      <4>1. dv_pc' = "done" /\ dv_result' = DV!Verdict("verified", "")
        BY <2>3, <3>2 DEF DV!Conclude
      <4>2. d.content = m
        BY <3>0, <3>2 DEF DV!IsError
      <4>3. dv_local.child = m
        BY <1>0, <3>0, <3>2, <4>2, ImageMatch
      <4>4. DV!Runs(DV!E)
        BY <3>0, <4>3 DEF DV!Runs
      <4>5. Told'
        BY <2>1, <4>1, <4>4, VerifyConcluded
      <4>6. CheckLeaves
        BY <2>1, <2>3, <4>1, <4>5, StepConcludes DEF Statuses
      <4> QED
        BY <2>1, <4>6, CheckStep
    <3>3. CASE d # DV!IntegrityError /\ ~(d # DV!LookupError /\ DV!ImageIdMatches(DV!ConfigOf(d.content), m))
      <4>1. dv_pc' = "children" /\ dv_result' = DV!Pending
        BY <2>1, <2>3, <3>3 DEF DV!Reach
      <4>2. ASSUME Right' PROVE dv_local'.child \in dv_todo'
        <5>1. Right /\ ~DV!IsError(d) /\ dv_local' = dv_local
          BY <2>1, <2>3, <4>2 DEF Right, DV!E
        <5>2. DV!E = dv_local.under /\ dv_local.child \in dv_todo
          BY <2>1, <5>1 DEF Right, Known
        <5>3. DV!ImageId = DV!ConfigOf(dv_local.child) /\ DV!ImageId # ""
          BY <1>0, <2>1, <5>1, <5>2, RightIs
        <5>4. dv_local.child # m
          BY <3>0, <3>3, <5>1, <5>3 DEF DV!ImageIdMatches, DV!IsError
        <5> QED
          BY <2>3, <5>1, <5>2, <5>4
      <4>3. Where'
        <5>1. Known(dv_doc)' /\ DV!IsIndex(dv_doc)' /\ DV!E' = DV!E /\ DV!ImageId' = DV!ImageId /\ DV!Children(DV!E)' = DV!Children(DV!E)
          BY <2>1 DEF Known, DV!IsIndex, DV!E, DV!ImageId, DV!ConfigOf, DV!Children
        <5> QED
          BY <2>1, <2>3, <4>1, <4>2, <5>1 DEF Where
      <4>4. CheckLeaves
        BY <2>1, <2>3, <4>1, <4>3, NotConcluded DEF CheckLeaves, DV!Pending, Statuses
      <4> QED
        BY <2>1, <4>4, CheckStep
    <3> QED
      BY <3>1, <3>2, <3>3
  <2> QED
    BY <1>8, <2>2, <2>3 DEF DV!FetchChild
<1>9. CASE DV!Done
  <2>1. /\ UNCHANGED <<dv_tag, dv_local>> /\ dv_pc' = "idle" /\ dv_call' = DV!NoCall /\ dv_found' = "" /\ dv_todo' = {}
        /\ dv_result' = DV!Pending
    BY <1>9 DEF DV!Done
  <2>2. DV!TypeOK' /\ LocalPulled' /\ Asked' /\ Where'
    BY <1>0, <2>1 DEF DV!TypeOK, LocalPulled, Asked, Where, DV!Pending
  <2> QED
    BY <2>1, <2>2, NotConcluded DEF DigestInv
<1> QED
  BY <1>1, <1>2, <1>3, <1>4, <1>5, <1>6, <1>7, <1>8, <1>9 DEF DV!Next, Ops

LEMMA DigestStutter ==
  ASSUME DigestInv, UNCHANGED DV!vars
  PROVE  DigestInv'
<1>1. UNCHANGED <<dv_tag, dv_local, dv_call, dv_pc, dv_doc, dv_found, dv_todo, dv_result, dv_named, dv_failed>>
  BY DEF DV!vars
<1>2. DV!E' = DV!E /\ DV!ImageId' = DV!ImageId /\ (Right' <=> Right)
  BY <1>1 DEF DV!E, DV!ImageId, DV!ConfigOf, Right
<1>3. DV!TypeOK' /\ LocalPulled' /\ Asked'
  BY <1>1, <1>2 DEF DigestInv, DV!TypeOK, LocalPulled, Asked
<1>4. Where'
  BY <1>1, <1>2 DEF DigestInv, Where, Known, DV!IsIndex, DV!Children, DV!LocalIndexSelects
<1>5. Told'
  BY <1>1, <1>2 DEF DigestInv, Told, DV!VerifiedMeansExpected, DV!RightImageAccepted,
     DV!CurrentWasCurrent,
     DV!ExactIsOfReported, DV!StaleIsTrue, DV!Is, DV!Runs, DV!Children
<1> QED
  BY <1>3, <1>4, <1>5 DEF DigestInv

LEMMA DigestInvariant == ASSUME DigestsDistinct PROVE DV!Spec => []DigestInv
<1>1. DV!Init => DigestInv
  BY DigestInit
<1>2. DigestInv /\ [DV!Next]_(DV!vars) => DigestInv'
  BY DigestNext, DigestStutter
<1> QED
  BY <1>1, <1>2, PTL DEF DV!Spec

(* The conclusions of digest_verifier.py are true of the tag and the image.   *)
THEOREM DigestsAreTold == ASSUME DigestsDistinct PROVE DV!Spec => [](DV!TypeOK /\ Told)
<1>1. DigestInv => DV!TypeOK /\ Told
  BY DEF DigestInv
<1> QED
  BY <1>1, DigestInvariant, PTL
-----------------------------------------------------------------------------
(****************************************************************************)
(* The components together                                                  *)
(****************************************************************************)

LEMMA SelfUpdateRuns == PartsSpec => SU!Spec
<1>1. PartsInit => SU!Init
  BY DEF PartsInit
<1>2. [PartsNext]_partsVars => [SU!Next]_(SU!vars)
  BY DEF PartsNext, OnlyStack, OnlySelfUpdate, OnlySelfScope, OnlyCommand, OnlyDigest,
     partsVars, suVars, SU!vars, SU!world, SU!cache, SU!text
<1> QED
  BY <1>1, <1>2, PTL DEF PartsSpec, SU!Spec

LEMMA SelfScopeRuns == PartsSpec => SC!Spec
<1>1. PartsInit => SC!Init
  BY DEF PartsInit
<1>2. [PartsNext]_partsVars => [SC!Next]_(SC!vars)
  BY DEF PartsNext, OnlyStack, OnlySelfUpdate, OnlySelfScope, OnlyCommand, OnlyDigest,
     partsVars, scVars, SC!vars, SC!choice
<1> QED
  BY <1>1, <1>2, PTL DEF PartsSpec, SC!Spec

LEMMA CommandRuns == PartsSpec => CP!Spec
<1>1. PartsInit => CP!Init
  BY DEF PartsInit
<1>2. [PartsNext]_partsVars => [CP!Next]_(CP!vars)
  BY DEF PartsNext, OnlyStack, OnlySelfUpdate, OnlySelfScope, OnlyCommand, OnlyDigest,
     partsVars, cpVars, CP!vars
<1> QED
  BY <1>1, <1>2, PTL DEF PartsSpec, CP!Spec

LEMMA DigestRuns == PartsSpec => DV!Spec
<1>1. PartsInit => DV!Init
  BY DEF PartsInit
<1>2. [PartsNext]_partsVars => [DV!Next]_(DV!vars)
  BY DEF PartsNext, OnlyStack, OnlySelfUpdate, OnlySelfScope, OnlyCommand, OnlyDigest,
     partsVars, dvVars, DV!vars
<1> QED
  BY <1>1, <1>2, PTL DEF PartsSpec, DV!Spec

(* The variables of the components around a stack update keep their types.    *)
THEOREM ContainersTyped == PartsSpec => []ContainerTypes
<1>1. PartsSpec => []SU!TypeOK
  BY SelfUpdateRuns, SelfUpdateTyped, SelfUpdateAssumption, PTL
<1>2. PartsSpec => []SC!TypeOK
  BY SelfScopeRuns, ScopeSafe, ScopeAssumption, PTL
<1>3. PartsSpec => []CP!TypeOK
  BY CommandRuns, CallsEndWell, OutputAssumption, PTL
<1>4. PartsSpec => []DV!TypeOK
  BY DigestRuns, DigestsAreTold, DigestAssumption, PTL
<1>5. SU!TypeOK /\ SC!TypeOK /\ CP!TypeOK /\ DV!TypeOK => ContainerTypes
  BY DEF ContainerTypes
<1> QED
  BY <1>1, <1>2, <1>3, <1>4, <1>5, PTL

(* Whatever networks, labels, leftover containers, edits, power losses and    *)
(* interrupts do: no update touches WUDup's own container or its Docker       *)
(* endpoint, the old Compose file of a self-update stays on disk or in a      *)
(* backup and no plan file is left, and a command ends with its child reaped, *)
(* without a helper that heeds SIGTERM, and with the end of its output.       *)
THEOREM OwnProcessesAreSafe == PartsSpec => []OwnProcessesSafe
<1>1. PartsSpec => []SU!OldComposeKept
  BY SelfUpdateRuns, OldComposeStays, SelfUpdateAssumption, PTL
<1>2. PartsSpec => []SU!PlanFilesCollected
  BY SelfUpdateRuns, FilesCollected, SelfUpdateAssumption, PTL
<1>3. PartsSpec => [](SC!OwnSurvives /\ SC!EndpointSurvives)
  BY SelfScopeRuns, ScopeSafe, ScopeAssumption, PTL
<1>4. PartsSpec => [](CP!ChildReaped /\ CP!NoHelperLeft /\ CP!TailIsEndOfOutput)
  BY CommandRuns, CallsEndWell, OutputAssumption, PTL
<1>5. /\ SU!OldComposeKept /\ SU!PlanFilesCollected /\ SC!OwnSurvives /\ SC!EndpointSurvives
      /\ CP!ChildReaped /\ CP!NoHelperLeft /\ CP!TailIsEndOfOutput
      => OwnProcessesSafe
  BY DEF OwnProcessesSafe
<1> QED
  BY <1>1, <1>2, <1>3, <1>4, <1>5, PTL

(* What a digest check concludes is true for every set of images, indexes and *)
(* tags, however the tag moves and whatever the registry serves.              *)
THEOREM DigestsToldTrue == PartsSpec => []DigestsTold
<1>1. PartsSpec => []Told
  BY DigestRuns, DigestsAreTold, DigestAssumption, PTL
<1>2. Told => DigestsTold
  BY DEF Told, DigestsTold
<1> QED
  BY <1>1, <1>2, PTL

(* A reported preparation has put what was reviewed into the Compose file, no *)
(* step of it overwrites what somebody else wrote, and the guard of WUDup's   *)
(* own container blocks no stack without a cause.                             *)
THEOREM PreparedIsReviewed == PartsSpec => PreparedAsReviewed
<1>1. PartsSpec => SU!PreparedAsReviewed
  BY SelfUpdateRuns, ReviewedPrepared, SelfUpdateAssumption, PTL
<1>2. PartsSpec => SU!EditsStay
  BY SelfUpdateRuns, EditsSurvive, SelfUpdateAssumption, PTL
<1>3. PartsSpec => SC!NotBlockedInVain
  BY SelfScopeRuns, BlocksForCause, ScopeAssumption, PTL
<1> QED
  BY <1>1, <1>2, <1>3 DEF PreparedAsReviewed
==============================================================================
