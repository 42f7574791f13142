---------------------------- MODULE UpdatesProofs ----------------------------
(***************************************************************************)
(* Proofs about updates on their way.  UpdaterRun, for any number of runs,  *)
(* entries and stacks, although runs time out, fail and are killed: every   *)
(* variable keeps its type, the directory lock keeps the rewrites of the    *)
(* pending file apart, a run is finished once, history tells the truth, no  *)
(* entry is lost, and a removal only removes.  PendingObservations: what is *)
(* kept of an earlier check is true.  PlanApply: what is applied is what    *)
(* was reviewed.                                                            *)
(***************************************************************************)
EXTENDS Updates, CountingLemmas, SequenceTheorems, TLAPS

-----------------------------------------------------------------------------
(* The inductive invariant *)

Shapes ==
    /\ pc \in [Runs -> Pcs]
    /\ held \in [Runs -> BOOLEAN]
    /\ DOMAIN buf = Runs
    /\ buf = [r \in Runs |-> buf[r]]
    /\ runRow \in [Runs -> {"none", "started", "success", "failure"}]

(* path.lock exists while a run holds it, one run holds it, and a run that    *)
(* rewrites holds it and has read the file as it still is.                    *)
LockInv ==
    /\ \A r \in Runs : held[r] => lockDir
    /\ \A r, q \in Runs : held[r] /\ held[q] => r = q
    /\ \A r \in Runs : pc[r] \in Rewriting => held[r] /\ buf[r] = file

(* The row of a run is written when the run is planned, and finished at the   *)
(* end or by the abort.                                                       *)
RowInv ==
    /\ \A r \in Runs : pc[r] \in {"start", "planned"} => runRow[r] = "none"
    /\ \A r \in Runs : runRow[r] \in {"success", "failure"}
                           => pc[r] \in {"report", "abort", "ended", "dead"}

IInv == Shapes /\ LockInv /\ RowInv

-----------------------------------------------------------------------------

LEMMA InitIInv == Init => IInv
BY DEF Init, IInv, Shapes, LockInv, RowInv, Pcs, Waiting, Rewriting

(* Every kind of step of a run keeps the shapes of the functions. *)
LEMMA ShapesStep == Shapes /\ [Next]_vars => Shapes'
<1> SUFFICES ASSUME Shapes, [Next]_vars PROVE Shapes'
  OBVIOUS
<1> USE DEF Shapes, Pcs, Waiting, Rewriting
<1>1. ASSUME UNCHANGED vars PROVE Shapes'
  BY <1>1 DEF vars, lockVars, auditVars
<1>2. ASSUME NEW e \in Appendable, AppendEntry(e) PROVE Shapes'
  BY <1>2 DEF AppendEntry, lockVars, auditVars
<1>3. ASSUME NEW r \in Runs, RunStep(r) \/ Interrupt(r) \/ Kill(r) PROVE Shapes'
  <2>1. CASE Parse(r)
    BY <2>1 DEF Parse, Goto, lockVars, auditVars
  <2>2. CASE ReturnEarly(r)
    BY <2>2 DEF ReturnEarly, Goto, lockVars, auditVars
  <2>3. CASE Prepare(r)
    BY <2>3 DEF Prepare, Goto, lockVars
  <2>4. CASE Acquire(r)
    BY <2>4 DEF Acquire, Goto, auditVars
  <2>5. CASE Wait(r)
    BY <2>5 DEF Wait, auditVars
  <2>6. CASE TimeOut(r)
    BY <2>6 DEF TimeOut, Goto, auditVars
  <2>7. CASE TakeOut(r)
    BY <2>7 DEF TakeOut, Release, Goto, AbortPc, auditVars
  <2>8. CASE PreflightDigests(r)
    BY <2>8 DEF PreflightDigests, Goto, lockVars, auditVars
  <2>9. CASE ApplyExclusions(r)
    BY <2>9 DEF ApplyExclusions, Goto, lockVars, auditVars
  <2>10. CASE UpdateStack(r)
    BY <2>10 DEF UpdateStack, lockVars, auditVars
  <2>11. CASE Reconcile(r)
    BY <2>11 DEF Reconcile, Goto, lockVars, auditVars
  <2>12. CASE Restore(r)
    BY <2>12 DEF Restore, Release, Goto, AbortPc, auditVars
  <2>13. CASE MarkFailed(r)
    BY <2>13 DEF MarkFailed, Goto, AbortPc, lockVars
  <2>14. CASE Finish(r)
    BY <2>14 DEF Finish, Goto, lockVars, auditVars
  <2>15. CASE Report(r)
    BY <2>15 DEF Report, Goto, lockVars, auditVars
  <2>16. CASE AbortRestore(r)
    BY <2>16 DEF AbortRestore, Release, Goto, auditVars
  <2>17. CASE Abort(r)
    BY <2>17 DEF Abort, FinishedAs, Goto, lockVars
  <2>18. CASE Interrupt(r)
    BY <2>18 DEF Interrupt, Goto, AbortPc, lockVars, auditVars
  <2>19. CASE Kill(r)
    BY <2>19 DEF Kill, Goto, lockVars, auditVars
  <2> QED
    BY <1>3, <2>1, <2>2, <2>3, <2>4, <2>5, <2>6, <2>7, <2>8, <2>9, <2>10,
       <2>11, <2>12, <2>13, <2>14, <2>15, <2>16, <2>17, <2>18, <2>19 DEF RunStep
<1> QED
  BY <1>1, <1>2, <1>3 DEF Next

(* What a step of r may do to the rest: only a rewriting r changes the file.  *)
LEMMA FileStep ==
    ASSUME IInv, NEW r \in Runs, RunStep(r) \/ Interrupt(r) \/ Kill(r)
    PROVE  LockInv'
<1> USE DEF IInv, Shapes, LockInv, Pcs, Waiting, Rewriting
<1>1. CASE Parse(r)
  BY <1>1 DEF Parse, Goto, lockVars, fileVars
<1>2. CASE ReturnEarly(r)
  BY <1>2 DEF ReturnEarly, Goto, lockVars, fileVars
<1>3. CASE Prepare(r)
  BY <1>3 DEF Prepare, Goto, lockVars, fileVars
<1>4. CASE Acquire(r)
  BY <1>4 DEF Acquire, Goto
<1>5. CASE Wait(r)
  BY <1>5 DEF Wait, fileVars
<1>6. CASE TimeOut(r)
  BY <1>6 DEF TimeOut, Goto, fileVars
<1>7. CASE TakeOut(r)
  BY <1>7 DEF TakeOut, Release, Goto, AbortPc
<1>8. CASE PreflightDigests(r)
  BY <1>8 DEF PreflightDigests, Goto, lockVars, fileVars
<1>9. CASE ApplyExclusions(r)
  BY <1>9 DEF ApplyExclusions, Goto, lockVars, fileVars
<1>10. CASE UpdateStack(r)
  BY <1>10 DEF UpdateStack, lockVars, fileVars
<1>11. CASE Reconcile(r)
  BY <1>11 DEF Reconcile, Goto, lockVars, fileVars
<1>12. CASE Restore(r)
  BY <1>12 DEF Restore, Release, Goto, AbortPc
<1>13. CASE MarkFailed(r)
  BY <1>13 DEF MarkFailed, Goto, AbortPc, lockVars, fileVars
<1>14. CASE Finish(r)
  BY <1>14 DEF Finish, Goto, lockVars, fileVars
<1>15. CASE Report(r)
  BY <1>15 DEF Report, Goto, lockVars, fileVars
<1>16. CASE AbortRestore(r)
  BY <1>16 DEF AbortRestore, Release, Goto
<1>17. CASE Abort(r)
  BY <1>17 DEF Abort, Goto, lockVars, fileVars
<1>18. CASE Interrupt(r)
  BY <1>18 DEF Interrupt, Goto, AbortPc, lockVars, fileVars
<1>19. CASE Kill(r)
  BY <1>19 DEF Kill, Goto, lockVars, fileVars
<1> QED
  BY <1>1, <1>2, <1>3, <1>4, <1>5, <1>6, <1>7, <1>8, <1>9, <1>10, <1>11,
     <1>12, <1>13, <1>14, <1>15, <1>16, <1>17, <1>18, <1>19 DEF RunStep

(* The row of a run goes from none to started to one outcome. *)
LEMMA RowStep ==
    ASSUME IInv, NEW r \in Runs, RunStep(r) \/ Interrupt(r) \/ Kill(r)
    PROVE  /\ RowInv'
           /\ \A q \in Runs : runRow[q] \in {"success", "failure"}
                                  => runRow'[q] = runRow[q]
<1> USE DEF IInv, Shapes, RowInv, Pcs, Waiting, Rewriting
<1>1. CASE Parse(r)
  BY <1>1 DEF Parse, Goto, auditVars
<1>2. CASE ReturnEarly(r)
  BY <1>2 DEF ReturnEarly, Goto, auditVars
<1>3. CASE Prepare(r)
  BY <1>3 DEF Prepare, Goto
<1>4. CASE Acquire(r)
  BY <1>4 DEF Acquire, Goto, auditVars
<1>5. CASE Wait(r)
  BY <1>5 DEF Wait, auditVars
<1>6. CASE TimeOut(r)
  BY <1>6 DEF TimeOut, Goto, auditVars
<1>7. CASE TakeOut(r)
  BY <1>7 DEF TakeOut, Goto, AbortPc, auditVars
<1>8. CASE PreflightDigests(r)
  BY <1>8 DEF PreflightDigests, Goto, auditVars
<1>9. CASE ApplyExclusions(r)
  BY <1>9 DEF ApplyExclusions, Goto, auditVars
<1>10. CASE UpdateStack(r)
  BY <1>10 DEF UpdateStack, auditVars
<1>11. CASE Reconcile(r)
  BY <1>11 DEF Reconcile, Goto, auditVars
<1>12. CASE Restore(r)
  BY <1>12 DEF Restore, Goto, AbortPc, auditVars
<1>13. CASE MarkFailed(r)
  BY <1>13 DEF MarkFailed, Goto, AbortPc
<1>14. CASE Finish(r)
  BY <1>14 DEF Finish, Goto, auditVars
<1>15. CASE Report(r)
  BY <1>15 DEF Report, Goto, auditVars
<1>16. CASE AbortRestore(r)
  BY <1>16 DEF AbortRestore, Goto, auditVars
<1>17. CASE Abort(r)
  BY <1>17 DEF Abort, FinishedAs, Goto
<1>18. CASE Interrupt(r)
  BY <1>18 DEF Interrupt, Goto, AbortPc, auditVars
<1>19. CASE Kill(r)
  BY <1>19 DEF Kill, Goto, auditVars
<1> QED
  BY <1>1, <1>2, <1>3, <1>4, <1>5, <1>6, <1>7, <1>8, <1>9, <1>10, <1>11,
     <1>12, <1>13, <1>14, <1>15, <1>16, <1>17, <1>18, <1>19 DEF RunStep

LEMMA IInvStep == IInv /\ [Next]_vars => IInv'
<1> SUFFICES ASSUME IInv, [Next]_vars PROVE IInv'
  OBVIOUS
<1>1. Shapes'
  BY ShapesStep DEF IInv
<1>2. LockInv' /\ RowInv'
  <2>1. CASE UNCHANGED vars
    BY <2>1 DEF vars, lockVars, fileVars, auditVars, IInv, LockInv, RowInv
  <2>2. ASSUME NEW e \in Appendable, AppendEntry(e) PROVE LockInv' /\ RowInv'
    BY <2>2 DEF AppendEntry, lockVars, auditVars, IInv, LockInv, RowInv
  <2>3. ASSUME NEW r \in Runs, RunStep(r) \/ Interrupt(r) \/ Kill(r)
        PROVE  LockInv' /\ RowInv'
    BY <2>3, FileStep, RowStep
  <2> QED
    BY <2>1, <2>2, <2>3 DEF Next
<1> QED
  BY <1>1, <1>2 DEF IInv

LEMMA InvariantHolds == Spec => []IInv
BY InitIInv, IInvStep, PTL DEF Spec

(* The lock keeps rewrites apart (DirectoryLock): at most one run is between  *)
(* mkdir and rmdir, and it works on the file as it is.                        *)
THEOREM RewritesApart == Spec => []OneEditor
<1>1. IInv => OneEditor
  BY DEF IInv, LockInv, OneEditor
<1> QED
  BY <1>1, InvariantHolds, PTL

(* A run's outcome is recorded once (finish_audit_run): no abort, late        *)
(* failure or retry overwrites it.                                            *)
THEOREM OutcomeRecordedOnce == Spec => FinishedOnce
<1>1. ASSUME IInv, [Next]_vars
      PROVE  \A r \in Runs : runRow[r] \in {"success", "failure"}
                                 => runRow'[r] = runRow[r]
  <2>1. CASE UNCHANGED vars
    BY <2>1 DEF vars, auditVars
  <2>2. ASSUME NEW e \in Appendable, AppendEntry(e) PROVE UNCHANGED runRow
    BY <2>2 DEF AppendEntry, auditVars
  <2> QED
    BY <1>1, <2>1, <2>2, RowStep DEF Next
<1>2. IInv /\ [Next]_vars
        => [\A r \in Runs : runRow[r] \in {"success", "failure"}
                                => runRow'[r] = runRow[r]]_vars
  BY <1>1
<1> QED
  BY <1>2, InvariantHolds, PTL DEF Spec, FinishedOnce
-----------------------------------------------------------------------------
(* What the rewrites of the pending file compute *)

Has(lines, e) == \E i \in DOMAIN lines : lines[i] = e

(* Line numbers are a finite set of natural numbers. *)
LEMMA LineNumbers ==
    ASSUME NEW lines \in Seq(Entries), NEW I \in SUBSET DOMAIN lines
    PROVE  I \in SUBSET Nat /\ IsFiniteSet(I) /\ Cardinality(I) \in Nat
<1>1. DOMAIN lines = 1..Len(lines) /\ Len(lines) \in Nat
  OBVIOUS
<1>2. IsFiniteSet(DOMAIN lines)
  BY <1>1, FS_Interval
<1> QED
  BY <1>1, <1>2, FS_Subset, FS_CardinalityType

(* Count tells whether there is such a line. *)
LEMMA CountHas ==
    ASSUME NEW lines \in Seq(Entries), NEW e
    PROVE  Count(lines, e) \in Nat /\ (Count(lines, e) > 0 <=> Has(lines, e))
<1> DEFINE S == {i \in DOMAIN lines : lines[i] = e}
<1>1. IsFiniteSet(S) /\ Cardinality(S) \in Nat
  BY LineNumbers
<1>2. Cardinality(S) = 0 <=> S = {}
  BY <1>1, FS_EmptySet
<1> QED
  BY <1>1, <1>2 DEF Count, Has

(* LinesAt is a list of the lines asked for: line i has the place of its rank, *)
(* and no place is left over.                                                  *)
LEMMA LinesAtPlaces ==
    ASSUME NEW lines \in Seq(Entries), NEW J \in SUBSET DOMAIN lines
    PROVE  /\ LinesAt(lines, J) \in Seq(Entries)
           /\ DOMAIN LinesAt(lines, J) = 1..Cardinality(J)
           /\ \A i \in J : /\ Rank(J, i) + 1 \in 1..Cardinality(J)
                           /\ LinesAt(lines, J)[Rank(J, i) + 1] = lines[i]
           /\ \A k \in 1..Cardinality(J) : \E i \in J : Rank(J, i) + 1 = k
<1> DEFINE nth(k) == CHOOSE i \in J : Rank(J, i) = k - 1
           at == [k \in 1..Cardinality(J) |-> lines[nth(k)]]
<1>0. LinesAt(lines, J) = at
  <2>1. J \cap DOMAIN lines = J
    OBVIOUS
  <2>2. LinesAt(lines, J) =
          [k \in 1..Cardinality(J \cap DOMAIN lines) |->
              lines[CHOOSE i \in J \cap DOMAIN lines :
                      Cardinality({j \in J \cap DOMAIN lines : j < i}) = k - 1]]
    BY DEF LinesAt
  <2> QED
    BY <2>1, <2>2, Zenon DEF Rank
<1>1. J \in SUBSET Nat /\ IsFiniteSet(J) /\ Cardinality(J) \in Nat
  BY LineNumbers
<1>2. \A k \in 1..Cardinality(J) : \E i \in J : Rank(J, i) = k - 1
  <2> SUFFICES ASSUME NEW k \in 1..Cardinality(J) PROVE \E i \in J : Rank(J, i) = k - 1
    OBVIOUS
  <2>1. k - 1 \in Nat /\ k - 1 < Cardinality(J)
    BY <1>1
  <2> QED
    BY <1>1, <2>1, RankOnto
<1>3. \A k \in 1..Cardinality(J) : nth(k) \in J /\ Rank(J, nth(k)) = k - 1
  BY <1>2
<1>4. \A i \in J : Rank(J, i) \in Nat /\ Rank(J, i) < Cardinality(J)
  BY <1>1, RankRange
<1>5. ASSUME NEW i \in J
      PROVE  Rank(J, i) + 1 \in 1..Cardinality(J) /\ nth(Rank(J, i) + 1) = i
  <2>0. Rank(J, i) \in Nat /\ Rank(J, i) < Cardinality(J)
    BY <1>4
  <2>1. Rank(J, i) + 1 \in 1..Cardinality(J) /\ (Rank(J, i) + 1) - 1 = Rank(J, i)
    BY <1>1, <2>0
  <2>2. /\ nth(Rank(J, i) + 1) \in J
        /\ Rank(J, nth(Rank(J, i) + 1)) = Rank(J, i)
    BY <1>3, <2>1
  <2> QED
    BY <1>1, <2>1, <2>2, RankUnique
<1> HIDE DEF nth
<1>6. \A k \in 1..Cardinality(J) : lines[nth(k)] \in Entries
  BY <1>3
<1>7. at \in Seq(Entries) /\ DOMAIN at = 1..Cardinality(J)
  <2>1. at \in [1..Cardinality(J) -> Entries]
    BY <1>6
  <2>2. \A n \in Nat : \A f \in [1..n -> Entries] : f \in Seq(Entries)
    BY SeqDef
  <2>3. at \in Seq(Entries)
    BY <1>1, <2>1, <2>2
  <2> QED
    BY <2>3
<1>8. \A k \in 1..Cardinality(J) : \E i \in J : Rank(J, i) + 1 = k
  <2> SUFFICES ASSUME NEW k \in 1..Cardinality(J) PROVE \E i \in J : Rank(J, i) + 1 = k
    OBVIOUS
  <2>1. PICK i \in J : Rank(J, i) = k - 1
    BY <1>2
  <2>2. (k - 1) + 1 = k
    BY <1>1
  <2> QED
    BY <2>1, <2>2
<1>9. \A i \in J : at[Rank(J, i) + 1] = lines[i]
  BY <1>5
<1> HIDE DEF at
<1> QED
  BY <1>0, <1>5, <1>7, <1>8, <1>9

LEMMA LinesAtHas ==
    ASSUME NEW lines \in Seq(Entries), NEW J \in SUBSET DOMAIN lines, NEW i \in J
    PROVE  Has(LinesAt(lines, J), lines[i])
<1>1. /\ Rank(J, i) + 1 \in DOMAIN LinesAt(lines, J)
      /\ LinesAt(lines, J)[Rank(J, i) + 1] = lines[i]
  BY LinesAtPlaces
<1> QED
  BY <1>1 DEF Has

LEMMA HasConcat ==
    ASSUME NEW s \in Seq(Entries), NEW t \in Seq(Entries), NEW e
    PROVE  s \o t \in Seq(Entries) /\ (Has(s \o t, e) <=> Has(s, e) \/ Has(t, e))
<1>1. /\ s \o t \in Seq(Entries)
      /\ Len(s \o t) = Len(s) + Len(t)
      /\ \A i \in 1..(Len(s) + Len(t)) :
             (s \o t)[i] = IF i <= Len(s) THEN s[i] ELSE t[i - Len(s)]
  BY ConcatProperties
<1>2. ASSUME Has(s \o t, e) PROVE Has(s, e) \/ Has(t, e)
  <2>1. PICK i \in 1..(Len(s) + Len(t)) : (s \o t)[i] = e
    BY <1>1, <1>2 DEF Has
  <2>2. CASE i <= Len(s)
    BY <1>1, <2>1, <2>2 DEF Has
  <2>3. CASE ~(i <= Len(s))
    <3>1. i - Len(s) \in DOMAIN t /\ t[i - Len(s)] = e
      BY <1>1, <2>1, <2>3
    <3> QED
      BY <3>1 DEF Has
  <2> QED
    BY <2>2, <2>3
<1>3. ASSUME Has(s, e) PROVE Has(s \o t, e)
  BY <1>1, <1>3 DEF Has
<1>4. ASSUME Has(t, e) PROVE Has(s \o t, e)
  <2>1. PICK i \in DOMAIN t : t[i] = e
    BY <1>4 DEF Has
  <2>2. /\ i + Len(s) \in DOMAIN (s \o t)
        /\ (s \o t)[i + Len(s)] = t[i]
    BY <1>1
  <2> QED
    BY <2>1, <2>2 DEF Has
<1> QED
  BY <1>1, <1>2, <1>3, <1>4

(* restore_failed_lines: afterwards the file has every line it was given, and *)
(* what it had before.                                                        *)
LEMMA RestoreHas ==
    ASSUME NEW original \in Seq(Entries), NEW failed, NEW current \in Seq(Entries)
    PROVE  /\ RestoreLines(original, failed, current) \in Seq(Entries)
           /\ \A e : Has(current, e) => Has(RestoreLines(original, failed, current), e)
           /\ \A i \in failed \cap DOMAIN original :
                  Has(RestoreLines(original, failed, current), original[i])
<1> DEFINE I == failed \cap DOMAIN original
           same(e) == {i \in I : original[i] = e}
           missing == {i \in I : Count(current, original[i]) + Earlier(original, I, i)
                                     < Cardinality(same(original[i]))}
<1>1. RestoreLines(original, failed, current) = current \o LinesAt(original, missing)
  BY DEF RestoreLines
<1>2. LinesAt(original, missing) \in Seq(Entries)
  BY LinesAtPlaces
<1>3. ASSUME NEW i \in I, ~Has(current, original[i])
      PROVE  i \in missing
  <2> DEFINE before == {j \in I \cap 1..(i - 1) : original[j] = original[i]}
  <2>1. i \in Nat /\ IsFiniteSet(same(original[i]))
    BY LineNumbers
  <2>2. before \in SUBSET same(original[i]) /\ before # same(original[i])
    BY <2>1
  <2>3. /\ Cardinality(before) <= Cardinality(same(original[i]))
        /\ Cardinality(before) # Cardinality(same(original[i]))
        /\ IsFiniteSet(before)
    BY <2>1, <2>2, FS_Subset
  <2>4. Cardinality(before) \in Nat /\ Cardinality(same(original[i])) \in Nat
    BY <2>1, <2>3, FS_CardinalityType
  <2>5. Count(current, original[i]) = 0
    BY <1>3, CountHas
  <2>6. Earlier(original, I, i) = Cardinality(before)
    BY DEF Earlier
  <2> QED
    BY <2>3, <2>4, <2>5, <2>6
<1>4. ASSUME NEW i \in I
      PROVE  Has(current, original[i]) \/ Has(LinesAt(original, missing), original[i])
  <2>1. missing \in SUBSET DOMAIN original
    OBVIOUS
  <2> HIDE DEF missing
  <2> QED
    BY <1>3, <2>1, LinesAtHas
<1> HIDE DEF missing
<1> QED
  BY <1>1, <1>2, <1>4, HasConcat

(* remove_lines_before_run: an entry of the file is gone afterwards only if    *)
(* one of the lines to be removed was that entry.                              *)
LEMMA RemoveHas ==
    ASSUME NEW original \in Seq(Entries), NEW remove, NEW current \in Seq(Entries)
    PROVE  /\ RemoveLines(original, remove, current) \in Seq(Entries)
           /\ \A e : Has(current, e) /\ ~Has(RemoveLines(original, remove, current), e)
                  => \E i \in remove \cap DOMAIN original : original[i] = e
<1> DEFINE extra == {i \in DOMAIN current :
                       Earlier(current, DOMAIN current, i) + Count(original, current[i])
                           < Count(current, current[i])}
           kept == LinesAt(original, DOMAIN original \ remove)
<1>1. RemoveLines(original, remove, current) = kept \o LinesAt(current, extra)
  BY DEF RemoveLines
<1>2. kept \in Seq(Entries) /\ LinesAt(current, extra) \in Seq(Entries)
  BY LinesAtPlaces
<1>3. ASSUME NEW e, Has(current, e), ~Has(original, e) PROVE Has(LinesAt(current, extra), e)
  <2> DEFINE E == {i \in DOMAIN current : current[i] = e}
  <2>1. E \in SUBSET Nat /\ E # {}
    BY <1>3, LineNumbers DEF Has
  <2>2. PICK i \in E : \A j \in E : i <= j
    BY <2>1, LeastMember
  <2>3. {j \in DOMAIN current \cap 1..(i - 1) : current[j] = current[i]} = {}
    <3>1. \A j \in DOMAIN current \cap 1..(i - 1) : current[j] # current[i]
      BY <2>1, <2>2
    <3> QED
      BY <3>1
  <2>4. Earlier(current, DOMAIN current, i) = 0
    BY <2>3, FS_EmptySet DEF Earlier
  <2>5. Count(original, e) = 0 /\ Count(current, e) \in Nat /\ Count(current, e) > 0
    BY <1>3, CountHas
  <2>6. i \in extra /\ i \in DOMAIN current /\ current[i] = e
    BY <2>2, <2>4, <2>5
  <2> QED
    BY <2>6, LinesAtHas
<1>4. ASSUME NEW i \in DOMAIN original \ remove PROVE Has(kept, original[i])
  BY LinesAtHas
<1> HIDE DEF extra, kept
<1>5. ASSUME NEW e, Has(current, e), ~Has(kept \o LinesAt(current, extra), e)
      PROVE  \E i \in remove \cap DOMAIN original : original[i] = e
  <2>1. ~Has(kept, e) /\ ~Has(LinesAt(current, extra), e)
    BY <1>2, <1>5, HasConcat
  <2>2. Has(original, e)
    BY <1>3, <1>5, <2>1
  <2> QED
    BY <1>4, <2>1, <2>2 DEF Has
<1> QED
  BY <1>1, <1>2, <1>5, HasConcat

-----------------------------------------------------------------------------
(* Types *)

(* A function on the numbers of a list is a list. *)
LEMMA SeqLike ==
    ASSUME NEW S, NEW T, NEW s \in Seq(S), NEW f \in [DOMAIN s -> T]
    PROVE  f \in Seq(T)
<1>1. DOMAIN s = 1..Len(s) /\ Len(s) \in Nat
  OBVIOUS
<1>2. \A n \in Nat : \A g \in [1..n -> T] : g \in Seq(T)
  BY SeqDef
<1> QED
  BY <1>1, <1>2

(* The rows are written with statuses that the schema knows. *)
LEMMA RowTypes ==
    ASSUME TypeOK, NEW r \in Runs
    PROVE  /\ \A lines \in Seq(Entries) : /\ PlannedRows(r, lines) \in Seq(RowStatuses)
                                         /\ DOMAIN PlannedRows(r, lines) = DOMAIN lines
           /\ OutcomeRows(r) \in Seq(RowStatuses)
           /\ DOMAIN OutcomeRows(r) = DOMAIN rows[r]
           /\ \A old \in Seq(RowStatuses) : /\ InterruptedRows(old) \in Seq(RowStatuses)
                                           /\ DOMAIN InterruptedRows(old) = DOMAIN old
           /\ \A new \in [DOMAIN rows[r] -> RowStatuses] :
                  \A some \in RowsSoFar(r, new) :
                      some \in Seq(RowStatuses) /\ DOMAIN some = DOMAIN rows[r]
<1>0. rows[r] \in Seq(RowStatuses) /\ \A i \in DOMAIN rows[r] : rows[r][i] \in RowStatuses
  BY DEF TypeOK
<1>1. ASSUME NEW lines \in Seq(Entries)
      PROVE  /\ PlannedRows(r, lines) \in Seq(RowStatuses)
             /\ DOMAIN PlannedRows(r, lines) = DOMAIN lines
  <2>1. PlannedRows(r, lines) \in [DOMAIN lines -> RowStatuses]
    BY DEF PlannedRows, RowStatuses
  <2> QED
    BY <2>1, SeqLike
<1>2. OutcomeRows(r) \in [DOMAIN rows[r] -> RowStatuses]
  BY <1>0 DEF OutcomeRows, RowStatuses
<1>3. ASSUME NEW old \in Seq(RowStatuses)
      PROVE  /\ InterruptedRows(old) \in Seq(RowStatuses)
             /\ DOMAIN InterruptedRows(old) = DOMAIN old
  <2>1. \A i \in DOMAIN old : old[i] \in RowStatuses
    OBVIOUS
  <2>2. InterruptedRows(old) \in [DOMAIN old -> RowStatuses]
    BY <2>1 DEF InterruptedRows, RowStatuses
  <2> QED
    BY <2>2, SeqLike
<1>4. ASSUME NEW new \in [DOMAIN rows[r] -> RowStatuses],
             NEW some \in RowsSoFar(r, new)
      PROVE  some \in Seq(RowStatuses) /\ DOMAIN some = DOMAIN rows[r]
  <2>1. PICK I \in SUBSET DOMAIN rows[r] :
          some = [i \in DOMAIN rows[r] |-> IF i \in I THEN new[i] ELSE rows[r][i]]
    BY <1>4 DEF RowsSoFar
  <2>2. some \in [DOMAIN rows[r] -> RowStatuses]
    BY <1>0, <2>1
  <2> QED
    BY <1>0, <2>2, SeqLike
<1>5. OutcomeRows(r) \in Seq(RowStatuses)
  BY <1>0, <1>2, SeqLike
<1> QED
  BY <1>1, <1>2, <1>3, <1>4, <1>5

(* The next stack is one of those that are left. *)
LEMMA NextStack ==
    ASSUME TypeOK, NEW r \in Runs, StacksToUpdate(r) # {}
    PROVE  Min(StacksToUpdate(r)) \in StacksToUpdate(r) /\ StacksToUpdate(r) \subseteq Stacks
<1>1. StacksToUpdate(r) \subseteq Stacks /\ Stacks \subseteq Nat
  <2>1. match[r] \subseteq Pairs
    BY DEF TypeOK
  <2> QED
    BY <2>1, UpdaterAssumption DEF StacksToUpdate, StacksOf, Pairs
<1>2. \E x \in StacksToUpdate(r) : \A y \in StacksToUpdate(r) : x <= y
  BY <1>1, LeastMember
<1> QED
  BY <1>1, <1>2 DEF Min

LEMMA FileTypes ==
    ASSUME TypeOK, NEW r \in Runs
    PROVE  /\ AuditFile(r) \in Seq(Entries)
           /\ \A I : RemoveLines(audited[r], I, buf[r]) \in Seq(Entries)
           /\ \A I : RestoreLines(audited[r], I, buf[r]) \in Seq(Entries)
           /\ \A I : EntriesAt(r, I) \subseteq Entries
           /\ PutBack(r) \subseteq Entries
<1>1. /\ audited[r] \in Seq(Entries) /\ buf[r] \in Seq(Entries)
      /\ parsed[r] \in Seq(Entries) /\ file \in Seq(Entries)
  BY DEF TypeOK
<1>2. /\ \A i \in DOMAIN parsed[r] : parsed[r][i] \in Entries
      /\ \A i \in DOMAIN audited[r] : audited[r][i] \in Entries
  BY <1>1
<1> QED
  BY <1>1, <1>2, RemoveHas, RestoreHas DEF AuditFile, EntriesAt, PutBack

LEMMA InitTypeOK == Init => TypeOK
<1> SUFFICES ASSUME Init PROVE TypeOK
  OBVIOUS
<1>1. file \in Seq(Entries) /\ {LockTimeout, MaxAppends, MaxFaults, MaxKills} \subseteq Nat
  BY UpdaterAssumption DEF Init
<1>2. <<>> \in Seq(Entries) /\ <<>> \in Seq(RowStatuses)
  OBVIOUS
<1>3. /\ 0 \in 0..LockTimeout /\ 0 \in 0..MaxAppends
      /\ 0 \in 0..MaxFaults /\ 0 \in 0..MaxKills
  BY <1>1
<1>4. "start" \in Pcs
  BY DEF Pcs
<1>5. /\ pc \in [Runs -> Pcs] /\ held \in [Runs -> BOOLEAN]
      /\ waited \in [Runs -> 0..LockTimeout]
      /\ parsed \in [Runs -> Seq(Entries)] /\ audited \in [Runs -> Seq(Entries)]
      /\ buf \in [Runs -> Seq(Entries)] /\ inFlight \in [Runs -> BOOLEAN]
      /\ rows \in [Runs -> Seq(RowStatuses)]
  BY <1>2, <1>3, <1>4 DEF Init
<1>6. /\ status \in [Runs -> [Stacks -> {"none", "success", "failure"}]]
      /\ runRow \in [Runs -> {"none", "started", "success", "failure"}]
      /\ done \in [Entries -> SUBSET Stacks] /\ dropped \subseteq Entries
      /\ lost \subseteq Entries /\ appends \in 0..MaxAppends
      /\ faults \in 0..MaxFaults /\ kills \in 0..MaxKills /\ lockDir \in BOOLEAN
  BY <1>3 DEF Init
<1> QED
  BY <1>1, <1>5, <1>6 DEF Init, TypeOK

(* Which steps of a run change what. *)
LEMMA StepEffects ==
    ASSUME NEW r \in Runs, RunStep(r) \/ Interrupt(r) \/ Kill(r)
    PROVE  /\ Parse(r) \/ UNCHANGED planVars
           /\ Prepare(r) \/ UNCHANGED audited
           /\ \/ PreflightDigests(r) \/ ApplyExclusions(r) \/ UpdateStack(r)
              \/ UNCHANGED workVars
           /\ \/ ReturnEarly(r) \/ Prepare(r) \/ MarkFailed(r) \/ Finish(r) \/ Abort(r)
              \/ UNCHANGED auditVars
           /\ TakeOut(r) \/ Restore(r) \/ AbortRestore(r) \/ UNCHANGED file
           /\ \/ Acquire(r) \/ TakeOut(r) \/ Restore(r) \/ AbortRestore(r)
              \/ UNCHANGED lockDir
           /\ \/ Acquire(r) \/ Wait(r) \/ TimeOut(r) \/ TakeOut(r) \/ Restore(r)
              \/ AbortRestore(r) \/ UNCHANGED lockVars
           /\ \/ Acquire(r) \/ MarkFailed(r) \/ Abort(r) \/ Kill(r) \/ UNCHANGED inFlight
           /\ \/ TakeOut(r) \/ ApplyExclusions(r) \/ Reconcile(r) \/ UNCHANGED dropped
           /\ TimeOut(r) \/ AbortRestore(r) \/ Kill(r) \/ UNCHANGED lost
           /\ UpdateStack(r) \/ UNCHANGED done
           /\ UNCHANGED appends
           /\ UNCHANGED faults \/ Fault
           /\ Kill(r) \/ UNCHANGED kills
<1>1. Parse(r) \/ UNCHANGED planVars
  BY DEF RunStep, ReturnEarly, Prepare, Acquire, Wait, TimeOut, TakeOut,
     PreflightDigests, ApplyExclusions, UpdateStack, Reconcile, Restore, MarkFailed,
     Finish, Report, AbortRestore, Abort, Interrupt, Kill
<1>2. Prepare(r) \/ UNCHANGED audited
  BY DEF RunStep, Parse, ReturnEarly, Acquire, Wait, TimeOut, TakeOut,
     PreflightDigests, ApplyExclusions, UpdateStack, Reconcile, Restore, MarkFailed,
     Finish, Report, AbortRestore, Abort, Interrupt, Kill
<1>3. \/ PreflightDigests(r) \/ ApplyExclusions(r) \/ UpdateStack(r)
      \/ UNCHANGED workVars
  BY DEF RunStep, Parse, ReturnEarly, Prepare, Acquire, Wait, TimeOut, TakeOut,
     Reconcile, Restore, MarkFailed, Finish, Report, AbortRestore, Abort, Interrupt,
     Kill
<1>4. \/ ReturnEarly(r) \/ Prepare(r) \/ MarkFailed(r) \/ Finish(r) \/ Abort(r)
      \/ UNCHANGED auditVars
  BY DEF RunStep, Parse, Acquire, Wait, TimeOut, TakeOut, PreflightDigests,
     ApplyExclusions, UpdateStack, Reconcile, Restore, Report, AbortRestore,
     Interrupt, Kill
<1>5. TakeOut(r) \/ Restore(r) \/ AbortRestore(r) \/ UNCHANGED file
  BY DEF RunStep, Parse, ReturnEarly, Prepare, Acquire, Wait, TimeOut,
     PreflightDigests, ApplyExclusions, UpdateStack, Reconcile, MarkFailed, Finish,
     Report, Abort, Interrupt, Kill, fileVars
<1>6. \/ Acquire(r) \/ TakeOut(r) \/ Restore(r) \/ AbortRestore(r)
      \/ UNCHANGED lockDir
  BY DEF RunStep, Parse, ReturnEarly, Prepare, Wait, TimeOut, PreflightDigests,
     ApplyExclusions, UpdateStack, Reconcile, MarkFailed, Finish, Report, Abort,
     Interrupt, Kill, fileVars
<1>7. \/ Acquire(r) \/ Wait(r) \/ TimeOut(r) \/ TakeOut(r) \/ Restore(r)
      \/ AbortRestore(r) \/ UNCHANGED lockVars
  BY DEF RunStep, Parse, ReturnEarly, Prepare, PreflightDigests, ApplyExclusions,
     UpdateStack, Reconcile, MarkFailed, Finish, Report, Abort, Interrupt, Kill
<1>8. Acquire(r) \/ MarkFailed(r) \/ Abort(r) \/ Kill(r) \/ UNCHANGED inFlight
  BY DEF RunStep, Parse, ReturnEarly, Prepare, Wait, TimeOut, TakeOut,
     PreflightDigests, ApplyExclusions, UpdateStack, Reconcile, Restore, Finish,
     Report, AbortRestore, Interrupt
<1>9. TakeOut(r) \/ ApplyExclusions(r) \/ Reconcile(r) \/ UNCHANGED dropped
  BY DEF RunStep, Parse, ReturnEarly, Prepare, Acquire, Wait, TimeOut,
     PreflightDigests, UpdateStack, Restore, MarkFailed, Finish, Report,
     AbortRestore, Abort, Interrupt, Kill, historyVars
<1>10. TimeOut(r) \/ AbortRestore(r) \/ Kill(r) \/ UNCHANGED lost
  BY DEF RunStep, Parse, ReturnEarly, Prepare, Acquire, Wait, TakeOut,
     PreflightDigests, ApplyExclusions, UpdateStack, Reconcile, Restore, MarkFailed,
     Finish, Report, Abort, Interrupt, historyVars
<1>11. UpdateStack(r) \/ UNCHANGED done
  BY DEF RunStep, Parse, ReturnEarly, Prepare, Acquire, Wait, TimeOut, TakeOut,
     PreflightDigests, ApplyExclusions, Reconcile, Restore, MarkFailed, Finish,
     Report, AbortRestore, Abort, Interrupt, Kill, historyVars
<1>12. UNCHANGED appends
  BY DEF RunStep, Parse, ReturnEarly, Prepare, Acquire, Wait, TimeOut, TakeOut,
     PreflightDigests, ApplyExclusions, UpdateStack, Reconcile, Restore, MarkFailed,
     Finish, Report, AbortRestore, Abort, Interrupt, Kill, boundVars
<1>13. UNCHANGED faults \/ Fault
  BY DEF RunStep, Parse, ReturnEarly, Prepare, Acquire, Wait, TimeOut, TakeOut,
     PreflightDigests, ApplyExclusions, UpdateStack, Reconcile, Restore, MarkFailed,
     Finish, Report, AbortRestore, Abort, Interrupt, Kill, boundVars
<1>14. Kill(r) \/ UNCHANGED kills
  BY DEF RunStep, Parse, ReturnEarly, Prepare, Acquire, Wait, TimeOut, TakeOut,
     PreflightDigests, ApplyExclusions, UpdateStack, Reconcile, Restore, MarkFailed,
     Finish, Report, AbortRestore, Abort, Interrupt, boundVars
<1> QED
  BY <1>1, <1>2, <1>3, <1>4, <1>5, <1>6, <1>7, <1>8, <1>9, <1>10, <1>11, <1>12,
     <1>13, <1>14

(* The type invariant, by what changes together. *)
PlanTypes ==
    /\ parsed \in [Runs -> Seq(Entries)]
    /\ targets \in [Runs -> SUBSET Nat]
    /\ match \in [Runs -> SUBSET Pairs]
    /\ partial \in [Runs -> SUBSET Nat]
    /\ excluded \in [Runs -> SUBSET Nat]
    /\ exclusion \in [Runs -> SUBSET Pairs]
    /\ discard \in [Runs -> SUBSET Nat]

WorkTypes ==
    /\ status \in [Runs -> [Stacks -> {"none", "success", "failure"}]]
    /\ excludeOk \in [Runs -> SUBSET Pairs]
    /\ preStale \in [Runs -> SUBSET Pairs]
    /\ postStale \in [Runs -> SUBSET Pairs]

HistoryTypes ==
    /\ done \in [Entries -> SUBSET Stacks]
    /\ dropped \subseteq Entries
    /\ lost \subseteq Entries

BoundTypes ==
    /\ appends \in 0..MaxAppends
    /\ faults \in 0..MaxFaults
    /\ kills \in 0..MaxKills

LEMMA TypeParts ==
    TypeOK <=> /\ Shapes /\ PlanTypes /\ WorkTypes /\ HistoryTypes /\ BoundTypes
               /\ file \in Seq(Entries) /\ buf \in [Runs -> Seq(Entries)]
               /\ lockDir \in BOOLEAN /\ waited \in [Runs -> 0..LockTimeout]
               /\ audited \in [Runs -> Seq(Entries)]
               /\ inFlight \in [Runs -> BOOLEAN]
               /\ rows \in [Runs -> Seq(RowStatuses)]
BY DEF TypeOK, Shapes, PlanTypes, WorkTypes, HistoryTypes, BoundTypes

(* What a plan is made of. *)
MatchingPairs(lines, I) == {p \in I \X Stacks : p[2] \in Matching[lines[p[1]]]}

LEMMA ParsePlan ==
    ASSUME TypeOK, NEW r \in Runs, Parse(r)
    PROVE  /\ PlanTypes'
           /\ \A q \in Runs \ {r} :
                  /\ parsed'[q] = parsed[q] /\ targets'[q] = targets[q]
                  /\ match'[q] = match[q] /\ partial'[q] = partial[q]
                  /\ excluded'[q] = excluded[q] /\ exclusion'[q] = exclusion[q]
                  /\ discard'[q] = discard[q] /\ pc'[q] = pc[q]
           /\ parsed'[r] = file /\ pc'[r] \in {"ended", "planned"}
           /\ targets'[r] \in SUBSET DOMAIN file
           /\ match'[r] \in SUBSET MatchingPairs(file, targets'[r])
           /\ partial'[r] = LinesOf(match'[r]) \cap
                  LinesOf(MatchingPairs(file, targets'[r]) \ match'[r])
           /\ excluded'[r] \in SUBSET {i \in DOMAIN file : file[i] \in Excludable}
           /\ excluded'[r] \cap targets'[r] = {}
           /\ \E valid \in SUBSET excluded'[r] :
                  exclusion'[r] = MatchingPairs(file, valid)
           /\ discard'[r] \in SUBSET {i \in DOMAIN file : file[i] \in Discardable}
<1>0. /\ parsed' = [parsed EXCEPT ![r] = file]
      /\ \E update \in SUBSET DOMAIN file,
            exclude \in SUBSET {i \in DOMAIN file : file[i] \in Excludable},
            remove \in SUBSET {i \in DOMAIN file : file[i] \in Discardable} :
            /\ update \cap exclude = {}
            /\ targets' = [targets EXCEPT ![r] = update]
            /\ \E selected \in SUBSET MatchingPairs(file, update) :
                  /\ match' = [match EXCEPT ![r] = selected]
                  /\ partial' = [partial EXCEPT ![r] =
                        LinesOf(selected) \cap
                            LinesOf(MatchingPairs(file, update) \ selected)]
            /\ excluded' = [excluded EXCEPT ![r] = exclude]
            /\ \E valid \in SUBSET exclude :
                  exclusion' = [exclusion EXCEPT ![r] = MatchingPairs(file, valid)]
            /\ discard' = [discard EXCEPT ![r] = remove]
            /\ pc' = [pc EXCEPT ![r] = IF update \cup exclude = {} THEN "ended"
                                                               ELSE "planned"]
  BY Zenon DEF Parse, Goto, MatchingPairs
<1>1. PICK update \in SUBSET DOMAIN file,
           exclude \in SUBSET {i \in DOMAIN file : file[i] \in Excludable},
           remove \in SUBSET {i \in DOMAIN file : file[i] \in Discardable} :
        <1>0!2!(update, exclude, remove)
  BY <1>0
<1>2. PICK selected \in SUBSET MatchingPairs(file, update) :
        /\ match' = [match EXCEPT ![r] = selected]
        /\ partial' = [partial EXCEPT ![r] = LinesOf(selected) \cap
               LinesOf(MatchingPairs(file, update) \ selected)]
  BY <1>1
<1>3. PICK valid \in SUBSET exclude :
        exclusion' = [exclusion EXCEPT ![r] = MatchingPairs(file, valid)]
  BY <1>1
<1>4. /\ pc \in [Runs -> Pcs] /\ parsed \in [Runs -> Seq(Entries)]
      /\ targets \in [Runs -> SUBSET Nat] /\ match \in [Runs -> SUBSET Pairs]
      /\ partial \in [Runs -> SUBSET Nat] /\ excluded \in [Runs -> SUBSET Nat]
      /\ exclusion \in [Runs -> SUBSET Pairs] /\ discard \in [Runs -> SUBSET Nat]
      /\ file \in Seq(Entries) /\ DOMAIN file \subseteq Nat
  BY DEF TypeOK
<1>5. /\ selected \in SUBSET Pairs /\ MatchingPairs(file, valid) \in SUBSET Pairs
      /\ update \in SUBSET Nat /\ exclude \in SUBSET Nat /\ remove \in SUBSET Nat
  BY <1>4 DEF Pairs, MatchingPairs
<1>6. LinesOf(selected) \in SUBSET Nat
  BY <1>5 DEF LinesOf, Pairs
<1>7. /\ targets'[r] = update /\ excluded'[r] = exclude /\ discard'[r] = remove
      /\ match'[r] = selected /\ exclusion'[r] = MatchingPairs(file, valid)
      /\ partial'[r] = LinesOf(selected) \cap
             LinesOf(MatchingPairs(file, update) \ selected)
      /\ parsed'[r] = file /\ pc'[r] \in {"ended", "planned"}
  BY <1>0, <1>1, <1>2, <1>3, <1>4
<1>8. PlanTypes'
  BY <1>0, <1>1, <1>2, <1>3, <1>4, <1>5, <1>6 DEF PlanTypes
<1>9. \A q \in Runs \ {r} :
                  /\ parsed'[q] = parsed[q] /\ targets'[q] = targets[q]
                  /\ match'[q] = match[q] /\ partial'[q] = partial[q]
                  /\ excluded'[q] = excluded[q] /\ exclusion'[q] = exclusion[q]
                  /\ discard'[q] = discard[q] /\ pc'[q] = pc[q]
  BY <1>0, <1>1, <1>2, <1>3, <1>4
<1>10. update \cap exclude = {}
  BY <1>1
<1> QED
  BY <1>7, <1>8, <1>9, <1>10

(* What the update of a stack does. *)
UpdateOf(r, s) ==
    \/ /\ status' = [status EXCEPT ![r][s] = "success"]
       /\ done' = [e \in Entries |->
             IF e \in EntriesAt(r, LinesOf({p \in match[r] : p[2] = s}))
             THEN done[e] \cup {s} ELSE done[e]]
       /\ UNCHANGED postStale
    \/ /\ status' = [status EXCEPT ![r][s] = "failure"]
       /\ \E stale \in SUBSET Requirements(r) :
             postStale' = [postStale EXCEPT ![r] = postStale[r] \cup stale]
       /\ UNCHANGED done

LEMMA UpdateEffect ==
    ASSUME TypeOK, NEW r \in Runs, UpdateStack(r)
    PROVE  \E s \in StacksToUpdate(r) : s \in Stacks /\ UpdateOf(r, s)
<1> DEFINE s == Min(StacksToUpdate(r))
           mine == {p \in match[r] : p[2] = s}
<1>1. s \in StacksToUpdate(r) /\ s \in Stacks
  BY NextStack DEF UpdateStack
<1>2. \/ /\ status' = [status EXCEPT ![r][s] = "success"]
         /\ done' = [e \in Entries |->
               IF e \in EntriesAt(r, LinesOf(mine)) THEN done[e] \cup {s} ELSE done[e]]
         /\ UNCHANGED postStale
      \/ /\ status' = [status EXCEPT ![r][s] = "failure"]
         /\ \E stale \in SUBSET (mine \cap Requirements(r)) :
               postStale' = [postStale EXCEPT ![r] = @ \cup stale]
         /\ UNCHANGED done
  BY Zenon DEF UpdateStack
<1>3. \A stale \in SUBSET (mine \cap Requirements(r)) : stale \in SUBSET Requirements(r)
  OBVIOUS
<1> HIDE DEF s
<1> QED
  BY <1>1, <1>2, <1>3 DEF UpdateOf

LEMMA WorkStep ==
    ASSUME TypeOK, NEW r \in Runs,
           PreflightDigests(r) \/ ApplyExclusions(r) \/ UpdateStack(r)
    PROVE  WorkTypes'
<1>1. /\ match[r] \subseteq Pairs /\ exclusion[r] \subseteq Pairs
      /\ Requirements(r) \subseteq Pairs
  BY DEF TypeOK, Requirements
<1>2. CASE PreflightDigests(r)
  <2>1. PICK stale \in SUBSET Requirements(r), broken \in SUBSET Requirements(r) :
          /\ preStale' = [preStale EXCEPT ![r] = stale]
          /\ status' = [status EXCEPT ![r] =
                [s \in Stacks |-> IF s \in StacksOf(stale \cup broken)
                                  THEN "failure" ELSE status[r][s]]]
    BY <1>2 DEF PreflightDigests
  <2> QED
    BY <1>1, <1>2, <2>1 DEF PreflightDigests, TypeOK, WorkTypes
<1>3. CASE ApplyExclusions(r)
  BY <1>1, <1>3 DEF ApplyExclusions, TypeOK, WorkTypes
<1>4. CASE UpdateStack(r)
  <2>1. UNCHANGED <<excludeOk, preStale>>
    BY <1>4 DEF UpdateStack
  <2>2. PICK s \in Stacks : UpdateOf(r, s)
    BY <1>4, UpdateEffect
  <2>3. status' \in [Runs -> [Stacks -> {"none", "success", "failure"}]]
    <3>1. status \in [Runs -> [Stacks -> {"none", "success", "failure"}]]
      BY DEF TypeOK
    <3>2. \/ status' = [status EXCEPT ![r][s] = "success"]
          \/ status' = [status EXCEPT ![r][s] = "failure"]
      BY <2>2 DEF UpdateOf
    <3> QED
      BY <3>1, <3>2
  <2>4. postStale' \in [Runs -> SUBSET Pairs]
    <3>1. postStale \in [Runs -> SUBSET Pairs]
      BY DEF TypeOK
    <3> QED
      BY <1>1, <2>2, <3>1 DEF UpdateOf
  <2> QED
    BY <2>1, <2>3, <2>4 DEF TypeOK, WorkTypes
<1> QED
  BY <1>2, <1>3, <1>4

LEMMA HistoryStep ==
    ASSUME TypeOK, NEW r \in Runs, RunStep(r) \/ Interrupt(r) \/ Kill(r)
    PROVE  HistoryTypes'
<1>1. done' \in [Entries -> SUBSET Stacks]
  <2>1. CASE UpdateStack(r)
    <3>1. PICK s \in Stacks : UpdateOf(r, s)
      BY <2>1, UpdateEffect
    <3>2. done \in [Entries -> SUBSET Stacks]
      BY DEF TypeOK
    <3> QED
      BY <3>1, <3>2 DEF UpdateOf
  <2> QED
    BY <2>1, StepEffects DEF TypeOK
<1>2. dropped' \subseteq Entries
  <2>1. CASE TakeOut(r)
    BY <2>1, FileTypes DEF TakeOut, TypeOK
  <2>2. CASE ApplyExclusions(r)
    BY <2>2, FileTypes DEF ApplyExclusions, TypeOK
  <2>3. CASE Reconcile(r)
    BY <2>3, FileTypes DEF Reconcile, TypeOK
  <2> QED
    BY <2>1, <2>2, <2>3, StepEffects DEF TypeOK
<1>3. lost' \subseteq Entries
  <2>1. CASE TimeOut(r)
    BY <2>1, FileTypes DEF TimeOut, TypeOK
  <2>2. CASE AbortRestore(r)
    BY <2>2, FileTypes DEF AbortRestore, TypeOK
  <2>3. CASE Kill(r)
    BY <2>3, FileTypes DEF Kill, TypeOK
  <2> QED
    BY <2>1, <2>2, <2>3, StepEffects DEF TypeOK
<1> QED
  BY <1>1, <1>2, <1>3 DEF HistoryTypes

LEMMA RowsStep ==
    ASSUME TypeOK, NEW r \in Runs, RunStep(r) \/ Interrupt(r) \/ Kill(r)
    PROVE  rows' \in [Runs -> Seq(RowStatuses)]
<1>0. rows \in [Runs -> Seq(RowStatuses)] /\ AuditFile(r) \in Seq(Entries)
  BY FileTypes DEF TypeOK
<1>1. CASE ReturnEarly(r)
  <2>1. CASE UNCHANGED auditVars
    BY <1>0, <2>1 DEF auditVars
  <2>2. CASE ~UNCHANGED auditVars
    <3>1. PICK failed \in SUBSET LinesOf(match[r]) :
            rows' = [rows EXCEPT ![r] =
                   [i \in DOMAIN AuditFile(r) |->
                       CASE i \in failed \cup excluded[r] -> "failed"
                         [] i \in targets[r] \ failed -> "pending"
                         [] OTHER -> "none"]]
      BY <1>1, <2>2 DEF ReturnEarly
    <3> DEFINE new == [i \in DOMAIN AuditFile(r) |->
                       CASE i \in failed \cup excluded[r] -> "failed"
                         [] i \in targets[r] \ failed -> "pending"
                         [] OTHER -> "none"]
    <3>2. new \in [DOMAIN AuditFile(r) -> RowStatuses]
      BY DEF RowStatuses
    <3>3. new \in Seq(RowStatuses)
      BY <1>0, <3>2, SeqLike
    <3> QED
      BY <1>0, <3>1, <3>3
  <2> QED
    BY <2>1, <2>2
<1>2. CASE Prepare(r)
  BY <1>0, <1>2, RowTypes DEF Prepare
<1>3. CASE MarkFailed(r)
  <2> DEFINE failed == [i \in DOMAIN rows[r] |->
                         IF /\ i \in Unfinished(r) \cap LinesOf(match[r])
                            /\ rows[r][i] # "none"
                         THEN "failed" ELSE rows[r][i]]
  <2>1. failed \in [DOMAIN rows[r] -> RowStatuses]
    BY <1>0 DEF RowStatuses
  <2>2. failed \in Seq(RowStatuses)
    BY <1>0, <2>1, SeqLike
  <2>3. \/ rows' = [rows EXCEPT ![r] = failed]
        \/ \E some \in RowsSoFar(r, failed) : rows' = [rows EXCEPT ![r] = some]
    BY <1>3 DEF MarkFailed
  <2> HIDE DEF failed
  <2> QED
    BY <1>0, <2>1, <2>2, <2>3, RowTypes
<1>4. CASE Finish(r)
  <2>1. OutcomeRows(r) \in [DOMAIN rows[r] -> RowStatuses]
    BY <1>0 DEF OutcomeRows, RowStatuses
  <2> QED
    BY <1>0, <1>4, <2>1, RowTypes DEF Finish
<1>5. CASE Abort(r)
  <2> DEFINE recorded == IF inFlight[r] THEN OutcomeRows(r) ELSE rows[r]
  <2>1. recorded \in [DOMAIN rows[r] -> RowStatuses] /\ recorded \in Seq(RowStatuses)
    <3>1. OutcomeRows(r) \in [DOMAIN rows[r] -> RowStatuses]
      BY <1>0 DEF OutcomeRows, RowStatuses
    <3> QED
      BY <1>0, <3>1, SeqLike
  <2>2. \/ rows' = [rows EXCEPT ![r] = InterruptedRows(recorded)]
        \/ \E some \in RowsSoFar(r, recorded) :
               rows' \in {[rows EXCEPT ![r] = some],
                          [rows EXCEPT ![r] = InterruptedRows(some)]}
    BY <1>5 DEF Abort
  <2> HIDE DEF recorded
  <2> QED
    BY <1>0, <2>1, <2>2, RowTypes
<1> QED
  BY <1>0, <1>1, <1>2, <1>3, <1>4, <1>5, StepEffects DEF auditVars

LEMMA LockTypesStep ==
    ASSUME TypeOK, NEW r \in Runs, RunStep(r) \/ Interrupt(r) \/ Kill(r)
    PROVE  /\ file' \in Seq(Entries) /\ buf' \in [Runs -> Seq(Entries)]
           /\ lockDir' \in BOOLEAN /\ waited' \in [Runs -> 0..LockTimeout]
           /\ audited' \in [Runs -> Seq(Entries)]
           /\ inFlight' \in [Runs -> BOOLEAN]
<1>1. /\ file \in Seq(Entries) /\ buf \in [Runs -> Seq(Entries)]
      /\ lockDir \in BOOLEAN /\ waited \in [Runs -> 0..LockTimeout]
      /\ audited \in [Runs -> Seq(Entries)] /\ inFlight \in [Runs -> BOOLEAN]
      /\ LockTimeout \in Nat /\ <<>> \in Seq(Entries)
  BY UpdaterAssumption DEF TypeOK
<1>2. file' \in Seq(Entries)
  BY <1>1, StepEffects, FileTypes DEF TakeOut, Restore, AbortRestore
<1>3. buf' \in [Runs -> Seq(Entries)]
  BY <1>1, StepEffects
     DEF Acquire, Wait, TimeOut, TakeOut, Restore, AbortRestore, Release, lockVars
<1>4. lockDir' \in BOOLEAN
  BY <1>1, StepEffects DEF Acquire, TakeOut, Restore, AbortRestore, Release
<1>5. waited' \in [Runs -> 0..LockTimeout]
  <2>1. CASE Wait(r)
    <3>1. waited' = [waited EXCEPT ![r] = waited[r] + 1] /\ waited[r] < LockTimeout
      BY <2>1 DEF Wait
    <3>2. waited[r] + 1 \in 0..LockTimeout
      BY <1>1, <3>1
    <3> QED
      BY <1>1, <3>1, <3>2
  <2>2. 0 \in 0..LockTimeout
    BY <1>1
  <2> QED
    BY <1>1, <2>1, <2>2, StepEffects
       DEF Acquire, TimeOut, TakeOut, Restore, AbortRestore, Release, lockVars
<1>6. audited' \in [Runs -> Seq(Entries)]
  BY <1>1, StepEffects, FileTypes DEF Prepare
<1>7. inFlight' \in [Runs -> BOOLEAN]
  BY <1>1, StepEffects DEF Acquire, MarkFailed, Abort, Kill
<1> QED
  BY <1>2, <1>3, <1>4, <1>5, <1>6, <1>7

LEMMA BoundStep ==
    ASSUME TypeOK, NEW r \in Runs, RunStep(r) \/ Interrupt(r) \/ Kill(r)
    PROVE  BoundTypes'
<1>1. /\ MaxAppends \in Nat /\ MaxFaults \in Nat /\ MaxKills \in Nat
      /\ appends \in 0..MaxAppends /\ faults \in 0..MaxFaults /\ kills \in 0..MaxKills
  BY UpdaterAssumption DEF TypeOK
<1> QED
  BY <1>1, StepEffects DEF BoundTypes, Fault, Kill

LEMMA TypeStep == TypeOK /\ [Next]_vars => TypeOK'
<1> SUFFICES ASSUME TypeOK, [Next]_vars PROVE TypeOK'
  OBVIOUS
<1>1. CASE UNCHANGED vars
  BY <1>1 DEF vars, TypeOK, fileVars, planVars, workVars, auditVars, lockVars,
     historyVars, boundVars
<1>2. ASSUME NEW e \in Appendable, AppendEntry(e) PROVE TypeOK'
  BY <1>2, UpdaterAssumption DEF AppendEntry, TypeOK, planVars, workVars,
     auditVars, lockVars
<1>3. ASSUME NEW r \in Runs, RunStep(r) \/ Interrupt(r) \/ Kill(r) PROVE TypeOK'
  <2>1. PlanTypes'
    <3>1. CASE UNCHANGED planVars
      BY <3>1 DEF planVars, PlanTypes, TypeOK
    <3> QED
      BY <1>3, <3>1, ParsePlan, StepEffects
  <2>2. WorkTypes'
    <3>1. CASE UNCHANGED workVars
      BY <3>1 DEF workVars, WorkTypes, TypeOK
    <3> QED
      BY <1>3, <3>1, WorkStep, StepEffects
  <2>3. Shapes'
    BY ShapesStep, TypeParts
  <2> QED
    BY <1>3, <2>1, <2>2, <2>3, HistoryStep, RowsStep, LockTypesStep, BoundStep,
       TypeParts DEF TypeOK, Shapes, PlanTypes, WorkTypes, HistoryTypes, BoundTypes
<1> QED
  BY <1>1, <1>2, <1>3 DEF Next

(* Every variable keeps its type, whatever the file, the selections and the   *)
(* failures are.                                                              *)
THEOREM UpdaterTypes == Spec => []TypeOK
BY InitTypeOK, TypeStep, PTL DEF Spec

-----------------------------------------------------------------------------
(* How a run goes on *)

Arrow(a, b) ==
    \/ a = "start" /\ b \in {"ended", "planned"}
    \/ a = "planned" /\ b \in {"ended", "lockRemove", "abort"}
    \/ a = "lockRemove" /\ b \in {"lockRemove", "remove", "abort"}
    \/ a = "remove" /\ b \in {"digest", "lockAbort", "abort"}
    \/ a = "digest" /\ b \in {"exclude", "lockAbort", "abort"}
    \/ a = "exclude" /\ b \in {"update", "lockAbort", "abort"}
    \/ a = "update" /\ b \in {"update", "reconciled", "lockRestore", "lockAbort", "abort"}
    \/ a = "lockRestore" /\ b \in {"lockRestore", "restore", "lockAbort"}
    \/ a = "restore" /\ b \in {"reconciled", "lockAbort", "abort"}
    \/ a = "reconciled" /\ b \in {"finish", "lockAbort", "abort"}
    \/ a = "finish" /\ b \in {"report", "abort"}
    \/ a = "report" /\ b \in {"ended", "abort"}
    \/ a = "lockAbort" /\ b \in {"lockAbort", "abortRestore", "abort"}
    \/ a = "abortRestore" /\ b = "abort"
    \/ a = "abort" /\ b = "ended"
    \/ a \notin {"start", "ended", "dead"} /\ b = "dead"

LEMMA PcStep ==
    ASSUME TypeOK, NEW r \in Runs, RunStep(r) \/ Interrupt(r) \/ Kill(r)
    PROVE  /\ \A q \in Runs \ {r} : pc'[q] = pc[q]
           /\ Arrow(pc[r], pc'[r])
           /\ pc'[r] = "dead" => Kill(r)
           /\ pc[r] = "reconciled" => MarkFailed(r) \/ Kill(r)
           /\ pc[r] = "abort" => Abort(r) \/ Kill(r)
<1>0. pc \in [Runs -> Pcs]
  BY DEF TypeOK
<1> USE <1>0 DEF Arrow, Goto
<1>1. CASE Parse(r)
  BY <1>1 DEF Parse
<1>2. CASE ReturnEarly(r) \/ Prepare(r)
  BY <1>2 DEF ReturnEarly, Prepare
<1>3. CASE Acquire(r) \/ Wait(r) \/ TimeOut(r)
  BY <1>3 DEF Acquire, Wait, TimeOut, Waiting
<1>4. CASE TakeOut(r) \/ Restore(r) \/ AbortRestore(r)
  BY <1>4 DEF TakeOut, Restore, AbortRestore, AbortPc
<1>5. CASE PreflightDigests(r) \/ ApplyExclusions(r) \/ UpdateStack(r) \/ Reconcile(r)
  BY <1>5 DEF PreflightDigests, ApplyExclusions, UpdateStack, Reconcile
<1>6. CASE MarkFailed(r) \/ Finish(r) \/ Report(r) \/ Abort(r)
  BY <1>6 DEF MarkFailed, Finish, Report, Abort, AbortPc
<1>7. CASE Interrupt(r) \/ Kill(r)
  BY <1>7 DEF Interrupt, Kill, AbortPc
<1> QED
  BY <1>1, <1>2, <1>3, <1>4, <1>5, <1>6, <1>7 DEF RunStep

-----------------------------------------------------------------------------
(* What is always true of a plan: it names lines of the file as it was read,   *)
(* the lines to update and the lines to exclude are different ones, and a line *)
(* that is not partially selected has all of its stacks.                       *)
PlanOf(q) ==
    /\ targets[q] \subseteq DOMAIN parsed[q]
    /\ match[q] \subseteq MatchingPairs(parsed[q], targets[q])
    /\ partial[q] = LinesOf(match[q]) \cap
           LinesOf(MatchingPairs(parsed[q], targets[q]) \ match[q])
    /\ excluded[q] \subseteq {i \in DOMAIN parsed[q] : parsed[q][i] \in Excludable}
    /\ excluded[q] \cap targets[q] = {}
    /\ \E valid \in SUBSET excluded[q] :
           exclusion[q] = MatchingPairs(parsed[q], valid)
    /\ discard[q] \subseteq {i \in DOMAIN parsed[q] : parsed[q][i] \in Discardable}

PlanInv == \A q \in Runs : PlanOf(q)

LEMMA PlanInit == Init => PlanInv
<1> SUFFICES ASSUME Init, NEW q \in Runs PROVE PlanOf(q)
  BY DEF PlanInv
<1>1. /\ parsed[q] = <<>> /\ targets[q] = {} /\ match[q] = {} /\ partial[q] = {}
      /\ excluded[q] = {} /\ exclusion[q] = {} /\ discard[q] = {}
  BY DEF Init
<1>2. MatchingPairs(<<>>, {}) = {} /\ LinesOf({}) = {}
  BY DEF MatchingPairs, LinesOf
<1> QED
  BY <1>1, <1>2 DEF PlanOf

LEMMA PlanStep == TypeOK /\ PlanInv /\ [Next]_vars => PlanInv'
<1> SUFFICES ASSUME TypeOK, PlanInv, [Next]_vars PROVE PlanInv'
  OBVIOUS
<1>1. CASE UNCHANGED planVars
  BY <1>1 DEF planVars, PlanInv, PlanOf
<1>2. ASSUME NEW r \in Runs, Parse(r) PROVE PlanInv'
  <2> SUFFICES ASSUME NEW q \in Runs PROVE PlanOf(q)'
    BY DEF PlanInv
  <2>1. CASE q = r
    BY <1>2, <2>1, ParsePlan DEF PlanOf
  <2>2. CASE q # r
    <3>1. /\ parsed'[q] = parsed[q] /\ targets'[q] = targets[q]
          /\ match'[q] = match[q] /\ partial'[q] = partial[q]
          /\ excluded'[q] = excluded[q] /\ exclusion'[q] = exclusion[q]
          /\ discard'[q] = discard[q]
      BY <1>2, <2>2, ParsePlan
    <3>2. PlanOf(q)
      BY DEF PlanInv
    <3> QED
      BY <3>1, <3>2 DEF PlanOf
  <2> QED
    BY <2>1, <2>2
<1>3. UNCHANGED planVars \/ \E r \in Runs : Parse(r)
  BY StepEffects DEF Next, AppendEntry, vars
<1> QED
  BY <1>1, <1>2, <1>3

(* What the other proofs use of it. *)
LEMMA PlanFacts ==
    ASSUME PlanInv, NEW q \in Runs
    PROVE  /\ LinesOf(match[q]) \subseteq targets[q]
           /\ LinesOf(exclusion[q]) \subseteq excluded[q]
           /\ targets[q] \subseteq DOMAIN parsed[q]
           /\ excluded[q] \subseteq DOMAIN parsed[q]
           /\ discard[q] \subseteq DOMAIN parsed[q]
           /\ LinesOf(match[q] \cup exclusion[q])
                  = LinesOf(match[q]) \cup LinesOf(exclusion[q])
           /\ excluded[q] \cap targets[q] = {}
           /\ Unfinished(q) \subseteq LinesOf(match[q] \cup exclusion[q])
           /\ partial[q] \subseteq LinesOf(match[q])
           /\ \A i \in LinesOf(match[q]) \ partial[q] :
                  \A s \in Stacks : s \in Matching[parsed[q][i]] => <<i, s>> \in match[q]
           /\ \A p \in match[q] : p[2] \in Matching[parsed[q][p[1]]]
<1>1. PlanOf(q)
  BY DEF PlanInv
<1>2. LinesOf(match[q]) \subseteq targets[q]
  BY <1>1 DEF PlanOf, MatchingPairs, LinesOf
<1>3. LinesOf(exclusion[q]) \subseteq excluded[q]
  BY <1>1 DEF PlanOf, MatchingPairs, LinesOf
<1>4. ASSUME NEW i \in LinesOf(match[q]) \ partial[q],
             NEW s \in Stacks, s \in Matching[parsed[q][i]]
      PROVE  <<i, s>> \in match[q]
  <2>1. <<i, s>> \in MatchingPairs(parsed[q], targets[q])
    BY <1>2, <1>4 DEF MatchingPairs
  <2>2. i \notin LinesOf(MatchingPairs(parsed[q], targets[q]) \ match[q])
    BY <1>1 DEF PlanOf
  <2> QED
    BY <2>1, <2>2 DEF LinesOf
<1>5. \A p \in match[q] : p[2] \in Matching[parsed[q][p[1]]]
  BY <1>1 DEF PlanOf, MatchingPairs
<1>6. LinesOf(match[q] \cup exclusion[q]) = LinesOf(match[q]) \cup LinesOf(exclusion[q])
  BY DEF LinesOf
<1>7. Unfinished(q) \subseteq LinesOf(match[q] \cup exclusion[q])
  BY DEF Unfinished, LinesOf
<1> QED
  BY <1>1, <1>2, <1>3, <1>4, <1>5, <1>6, <1>7 DEF PlanOf
-----------------------------------------------------------------------------
(* History tells the truth *)

(* The lines a run works on, and the steps up to the last of its updates *)
Worked(q) == LinesOf(match[q] \cup exclusion[q])
Before == {"start", "planned", "lockRemove", "remove", "digest", "exclude", "update"}

(* No row of a line that is worked on is resolved before the updates are over; *)
(* a row of another line is failed only if it asked for an exclusion that the  *)
(* plan did not find valid.                                                    *)
TrueRows(q, rs) ==
    /\ \A i \in DOMAIN rs \cap Worked(q) : rs[i] = "resolved" => i \notin Unfinished(q)
    /\ \A i \in DOMAIN rs \ Worked(q) :
           /\ rs[i] # "in_progress"
           /\ rs[i] = "failed" => i \in excluded[q] \ LinesOf(exclusion[q])

RowsOf(q) ==
    /\ pc[q] \in Before => \A i \in DOMAIN rows[q] \cap Worked(q) : rows[q][i] # "resolved"
    /\ TrueRows(q, rows[q])
    /\ runRow[q] = "success" =>
           \A i \in DOMAIN rows[q] : rows[q][i] \notin {"failed", "in_progress"}

(* Nothing is in flight before the lock is taken and after the reconciliation. *)
FlightOf(q) ==
    /\ pc[q] \in {"start", "planned"} => rows[q] = <<>> /\ runRow[q] = "none"
    /\ pc[q] \in {"start", "planned", "lockRemove", "finish", "report", "ended", "dead"}
           => ~inFlight[q]
    /\ runRow[q] = "success" => ~inFlight[q]

HistInv == \A q \in Runs : RowsOf(q) /\ FlightOf(q)

LEMMA HistInit == Init => HistInv
<1> SUFFICES ASSUME Init, NEW q \in Runs PROVE RowsOf(q) /\ FlightOf(q)
  BY DEF HistInv
<1>1. pc[q] = "start" /\ rows[q] = <<>> /\ runRow[q] = "none" /\ inFlight[q] = FALSE
  BY DEF Init
<1>2. DOMAIN rows[q] = {}
  BY <1>1
<1> QED
  BY <1>1, <1>2 DEF RowsOf, TrueRows, FlightOf

LEMMA FlightStep ==
    ASSUME TypeOK, IInv, HistInv, NEW r \in Runs, RunStep(r) \/ Interrupt(r) \/ Kill(r),
           NEW q \in Runs
    PROVE  FlightOf(q)'
<1>0. /\ pc \in [Runs -> Pcs] /\ inFlight \in [Runs -> BOOLEAN]
      /\ rows \in [Runs -> Seq(RowStatuses)]
      /\ runRow \in [Runs -> {"none", "started", "success", "failure"}]
      /\ FlightOf(q) /\ (runRow[q] \in {"success", "failure"}
                           => pc[q] \in {"report", "abort", "ended", "dead"})
  BY DEF TypeOK, HistInv, IInv, RowInv
<1>1. CASE q # r
  <2>1. pc'[q] = pc[q]
    BY <1>1, PcStep
  <2>2. inFlight'[q] = inFlight[q]
    BY <1>0, <1>1, StepEffects DEF Acquire, MarkFailed, Abort, Kill
  <2>3. rows'[q] = rows[q]
    BY <1>0, <1>1, StepEffects DEF ReturnEarly, Prepare, MarkFailed, Finish, Abort, auditVars
  <2>4. runRow'[q] = runRow[q]
    BY <1>0, <1>1, StepEffects DEF ReturnEarly, Prepare, MarkFailed, Finish, Abort,
       FinishedAs, auditVars
  <2> QED
    BY <1>0, <2>1, <2>2, <2>3, <2>4 DEF FlightOf
<1>2. CASE q = r
  <2>0. Arrow(pc[r], pc'[r])
    BY PcStep
  <2>1. pc'[r] \in {"start", "planned"} => rows'[r] = <<>> /\ runRow'[r] = "none"
    <3>1. pc'[r] \in {"start", "planned"} => pc[r] = "start"
      BY <2>0 DEF Arrow
    <3>2. pc[r] = "start" => UNCHANGED auditVars
      BY StepEffects DEF ReturnEarly, Prepare, MarkFailed, Finish, Abort
    <3> QED
      BY <1>0, <1>2, <3>1, <3>2 DEF FlightOf, auditVars
  <2>2. pc'[r] \in {"start", "planned", "lockRemove", "finish", "report", "ended", "dead"}
           => ~inFlight'[r]
    <3>1. CASE UNCHANGED inFlight /\ ~(MarkFailed(r) \/ Abort(r) \/ Kill(r))
      <4>1. pc'[r] # "dead" /\ pc[r] \notin {"reconciled", "abort"}
        BY <3>1, PcStep
      <4> QED
        BY <1>0, <1>2, <2>0, <3>1, <4>1 DEF FlightOf, Arrow
    <3>2. CASE Acquire(r)
      BY <1>0, <3>2 DEF Acquire, Goto
    <3>3. CASE MarkFailed(r) \/ Abort(r) \/ Kill(r)
      BY <1>0, <3>3 DEF MarkFailed, Abort, Kill, Goto, AbortPc
    <3> QED
      BY <3>1, <3>2, <3>3, StepEffects
  <2>3. runRow'[r] = "success" => ~inFlight'[r]
    <3>1. CASE runRow'[r] = runRow[r]
      BY <1>0, <1>2, <3>1, StepEffects DEF FlightOf, Acquire, MarkFailed, Abort, Kill, Waiting
    <3>2. CASE ReturnEarly(r) \/ Finish(r)
      BY <1>0, <1>2, <3>2, StepEffects DEF FlightOf, ReturnEarly, Finish
    <3>3. CASE Prepare(r) \/ MarkFailed(r) \/ Abort(r)
      BY <1>0, <1>2, <3>3 DEF FlightOf, Prepare, MarkFailed, Abort, FinishedAs
    <3> QED
      BY <3>1, <3>2, <3>3, StepEffects DEF auditVars
  <2> QED
    BY <1>2, <2>1, <2>2, <2>3 DEF FlightOf
<1> QED
  BY <1>1, <1>2

(* A step that writes no rows: the statuses change only before the end. *)
LEMMA RowsUnwritten ==
    ASSUME TypeOK, HistInv, NEW r \in Runs, RunStep(r) \/ Interrupt(r) \/ Kill(r),
           NEW q \in Runs, rows'[q] = rows[q], runRow'[q] = runRow[q], ~Parse(r)
    PROVE  RowsOf(q)'
<1>0. /\ RowsOf(q) /\ UNCHANGED planVars
      /\ status \in [Runs -> [Stacks -> {"none", "success", "failure"}]]
      /\ excludeOk \in [Runs -> SUBSET Pairs]
  BY StepEffects DEF HistInv, TypeOK
<1>1. pc'[q] \in Before => pc[q] \in Before
  BY PcStep DEF Before, Arrow
<1>2. CASE pc[q] \in Before
  BY <1>0, <1>1, <1>2 DEF RowsOf, TrueRows, Worked, planVars
<1>3. CASE pc[q] \notin Before
  <2>1. status'[q] = status[q] /\ excludeOk'[q] = excludeOk[q]
    <3>1. CASE UNCHANGED workVars
      BY <3>1 DEF workVars
    <3>2. CASE PreflightDigests(r) \/ ApplyExclusions(r) \/ UpdateStack(r)
      <4>1. pc[r] \in Before
        BY <3>2 DEF PreflightDigests, ApplyExclusions, UpdateStack, Before
      <4>2. q # r
        BY <1>3, <4>1
      <4>3. CASE PreflightDigests(r) \/ ApplyExclusions(r)
        BY <1>0, <4>2, <4>3 DEF PreflightDigests, ApplyExclusions
      <4>4. CASE UpdateStack(r)
        <5>1. PICK s \in Stacks : UpdateOf(r, s)
          BY <4>4, UpdateEffect
        <5> QED
          BY <1>0, <4>2, <4>4, <5>1 DEF UpdateStack, UpdateOf
      <4> QED
        BY <3>2, <4>3, <4>4
    <3> QED
      BY <3>1, <3>2, StepEffects
  <2>2. Unfinished(q)' = Unfinished(q)
    BY <1>0, <2>1 DEF Unfinished, Succeeded, planVars
  <2> QED
    BY <1>0, <1>1, <1>3, <2>2 DEF RowsOf, TrueRows, Worked, planVars
<1> QED
  BY <1>2, <1>3

(* The writes of updater_audit.py keep the rows true. *)
LEMMA RowWrites ==
    ASSUME TypeOK, PlanInv, NEW r \in Runs, TrueRows(r, rows[r])
    PROVE  /\ TrueRows(r, OutcomeRows(r))
           /\ \A rs \in Seq(RowStatuses) : TrueRows(r, rs) => TrueRows(r, InterruptedRows(rs))
           /\ \A new \in [DOMAIN rows[r] -> RowStatuses] : TrueRows(r, new) =>
                  \A some \in RowsSoFar(r, new) : TrueRows(r, some)
           /\ \A lines \in Seq(Entries) :
                  /\ TrueRows(r, PlannedRows(r, lines))
                  /\ \A i \in DOMAIN lines \cap Worked(r) :
                         PlannedRows(r, lines)[i] # "resolved"
<1>1. TrueRows(r, OutcomeRows(r))
  BY DEF TrueRows, OutcomeRows, Worked
<1>2. ASSUME NEW rs \in Seq(RowStatuses), TrueRows(r, rs)
      PROVE  TrueRows(r, InterruptedRows(rs))
  BY <1>2 DEF TrueRows, InterruptedRows
<1>3. ASSUME NEW new \in [DOMAIN rows[r] -> RowStatuses], TrueRows(r, new),
             NEW some \in RowsSoFar(r, new)
      PROVE  TrueRows(r, some)
  <2>1. PICK I \in SUBSET DOMAIN rows[r] :
          some = [i \in DOMAIN rows[r] |-> IF i \in I THEN new[i] ELSE rows[r][i]]
    BY <1>3 DEF RowsSoFar
  <2> QED
    BY <1>3, <2>1 DEF TrueRows
<1>4. ASSUME NEW lines \in Seq(Entries)
      PROVE  /\ TrueRows(r, PlannedRows(r, lines))
             /\ \A i \in DOMAIN lines \cap Worked(r) : PlannedRows(r, lines)[i] # "resolved"
  <2>1. /\ LinesOf(match[r]) \subseteq targets[r] /\ targets[r] \cap excluded[r] = {}
        /\ LinesOf(exclusion[r]) \subseteq excluded[r]
        /\ Worked(r) = LinesOf(match[r]) \cup LinesOf(exclusion[r])
    BY PlanFacts DEF Worked
  <2>2. \A i \in DOMAIN lines \cap Worked(r) : PlannedRows(r, lines)[i] = "in_progress"
    BY <2>1 DEF PlannedRows, Worked
  <2>3. \A i \in DOMAIN lines \ Worked(r) :
          /\ PlannedRows(r, lines)[i] # "in_progress"
          /\ PlannedRows(r, lines)[i] = "failed" => i \in excluded[r] \ LinesOf(exclusion[r])
    BY <2>1 DEF PlannedRows, Worked
  <2>4. DOMAIN PlannedRows(r, lines) = DOMAIN lines
    BY DEF PlannedRows
  <2> QED
    BY <2>2, <2>3, <2>4 DEF TrueRows
<1> QED
  BY <1>1, <1>2, <1>3, <1>4

(* A step that writes the rows of its run *)
LEMMA RowsWritten ==
    ASSUME TypeOK, IInv, PlanInv, HistInv, NEW r \in Runs,
           ReturnEarly(r) \/ Prepare(r) \/ MarkFailed(r) \/ Finish(r) \/ Abort(r)
    PROVE  RowsOf(r)'
<1>0. /\ RowsOf(r) /\ FlightOf(r) /\ rows \in [Runs -> Seq(RowStatuses)]
      /\ \A i \in DOMAIN rows[r] : rows[r][i] \in RowStatuses
      /\ runRow \in [Runs -> {"none", "started", "success", "failure"}]
      /\ pc \in [Runs -> Pcs] /\ AuditFile(r) \in Seq(Entries)
      /\ (runRow[r] \in {"success", "failure"}
            => pc[r] \in {"report", "abort", "ended", "dead"})
  BY FileTypes DEF HistInv, TypeOK, IInv, RowInv
<1>1. /\ UNCHANGED planVars /\ UNCHANGED workVars
      /\ Worked(r)' = Worked(r) /\ Unfinished(r)' = Unfinished(r)
  <2>1. UNCHANGED planVars /\ UNCHANGED workVars
    BY DEF ReturnEarly, Prepare, MarkFailed, Finish, Abort
  <2> QED
    BY <2>1 DEF planVars, workVars, Worked, Unfinished, Succeeded
<1>2. SUFFICES /\ pc'[r] \in Before => \A i \in DOMAIN rows'[r] \cap Worked(r) :
                                          rows'[r][i] # "resolved"
               /\ TrueRows(r, rows'[r])
               /\ runRow'[r] = "success" => \A i \in DOMAIN rows'[r] :
                      rows'[r][i] \notin {"failed", "in_progress"}
  BY <1>1 DEF RowsOf, TrueRows, planVars
<1>3. TrueRows(r, rows[r])
  BY <1>0 DEF RowsOf
<1>4. CASE ReturnEarly(r)
  <2>0. pc'[r] \notin Before /\ pc[r] = "planned" /\ rows[r] = <<>>
    BY <1>0, <1>4 DEF ReturnEarly, Goto, Before, FlightOf
  <2>1. CASE UNCHANGED auditVars
    BY <1>0, <1>3, <2>0, <2>1 DEF auditVars, RowsOf
  <2>2. CASE ~UNCHANGED auditVars
    <3>1. PICK failed \in SUBSET LinesOf(match[r]) :
            /\ rows' = [rows EXCEPT ![r] =
                   [i \in DOMAIN AuditFile(r) |->
                       CASE i \in failed \cup excluded[r] -> "failed"
                         [] i \in targets[r] \ failed -> "pending"
                         [] OTHER -> "none"]]
            /\ runRow' = [runRow EXCEPT ![r] =
                   IF match[r] \cup exclusion[r] = {} /\ excluded[r] = {}
                   THEN "success" ELSE "failure"]
      BY <1>4, <2>2 DEF ReturnEarly
    <3> DEFINE new == [i \in DOMAIN AuditFile(r) |->
                       CASE i \in failed \cup excluded[r] -> "failed"
                         [] i \in targets[r] \ failed -> "pending"
                         [] OTHER -> "none"]
    <3>2. rows'[r] = new /\ (runRow'[r] = "success" => match[r] = {} /\ excluded[r] = {})
      BY <1>0, <3>1
    <3>3. \A i \in DOMAIN new : /\ new[i] \in {"failed", "pending", "none"}
                                /\ new[i] = "failed" => i \in failed \cup excluded[r]
      <4> SUFFICES ASSUME NEW i \in DOMAIN AuditFile(r)
                   PROVE  /\ new[i] \in {"failed", "pending", "none"}
                          /\ new[i] = "failed" => i \in failed \cup excluded[r]
        OBVIOUS
      <4> QED
        OBVIOUS
    <3>4. failed \subseteq Worked(r) /\ LinesOf(exclusion[r]) \subseteq Worked(r)
      BY PlanFacts DEF Worked
    <3>5. match[r] = {} => failed = {}
      BY DEF LinesOf
    <3> HIDE DEF new
    <3>6. TrueRows(r, new)
      BY <3>3, <3>4 DEF TrueRows
    <3> QED
      BY <2>0, <3>2, <3>3, <3>5, <3>6
  <2> QED
    BY <2>1, <2>2
<1>5. CASE Prepare(r)
  <2>0. pc[r] = "planned" /\ rows[r] = <<>> /\ runRow[r] = "none" /\ DOMAIN rows[r] = {}
    BY <1>0, <1>5 DEF Prepare, FlightOf
  <2>1. runRow'[r] # "success"
    BY <1>0, <1>5, <2>0 DEF Prepare
  <2>2. CASE UNCHANGED rows
    BY <1>0, <1>3, <2>0, <2>1, <2>2
  <2>3. CASE rows' = [rows EXCEPT ![r] = PlannedRows(r, AuditFile(r))]
    <3>1. rows'[r] = PlannedRows(r, AuditFile(r))
      BY <1>0, <2>3
    <3>2. DOMAIN PlannedRows(r, AuditFile(r)) = DOMAIN AuditFile(r)
      BY DEF PlannedRows
    <3> QED
      BY <1>0, <1>3, <2>1, <3>1, <3>2, RowWrites
  <2> QED
    BY <1>5, <2>2, <2>3 DEF Prepare
<1>6. CASE MarkFailed(r)
  <2> DEFINE failed == [i \in DOMAIN rows[r] |->
                         IF /\ i \in Unfinished(r) \cap LinesOf(match[r])
                            /\ rows[r][i] # "none"
                         THEN "failed" ELSE rows[r][i]]
  <2>0. pc[r] = "reconciled" /\ runRow'[r] # "success" /\ pc'[r] \notin Before
    BY <1>0, <1>6 DEF MarkFailed, Goto, AbortPc, Before
  <2>1. failed \in [DOMAIN rows[r] -> RowStatuses]
    BY <1>0 DEF RowStatuses
  <2>2. TrueRows(r, failed)
    <3>1. LinesOf(match[r]) \subseteq Worked(r)
      BY PlanFacts DEF Worked
    <3> QED
      BY <1>3, <3>1 DEF TrueRows
  <2>3. \/ rows' = [rows EXCEPT ![r] = failed]
        \/ \E some \in RowsSoFar(r, failed) : rows' = [rows EXCEPT ![r] = some]
    BY <1>6 DEF MarkFailed
  <2> HIDE DEF failed
  <2>4. TrueRows(r, rows'[r])
    BY <1>0, <1>3, <2>1, <2>2, <2>3, RowWrites
  <2> QED
    BY <2>0, <2>4
<1>7. CASE Finish(r)
  <2>0. pc[r] = "finish" /\ pc'[r] \notin Before /\ runRow[r] # "success"
    BY <1>0, <1>7 DEF Finish, Goto, Before
  <2>1. OutcomeRows(r) \in [DOMAIN rows[r] -> RowStatuses]
    BY <1>0 DEF OutcomeRows, RowStatuses
  <2>2. TrueRows(r, rows'[r])
    <3>1. CASE rows' = [rows EXCEPT ![r] = OutcomeRows(r)]
      BY <1>0, <1>3, <3>1, RowWrites
    <3>2. CASE \E some \in RowsSoFar(r, OutcomeRows(r)) : rows' = [rows EXCEPT ![r] = some]
      BY <1>0, <1>3, <2>1, <3>2, RowWrites
    <3> QED
      BY <1>7, <3>1, <3>2 DEF Finish
  <2>3. ASSUME runRow'[r] = "success", NEW i \in DOMAIN rows'[r]
        PROVE  rows'[r][i] \notin {"failed", "in_progress"}
    <3>1. /\ Unfinished(r) = {} /\ excluded[r] = LinesOf(exclusion[r])
          /\ rows'[r] = OutcomeRows(r)
      BY <1>0, <1>7, <2>0, <2>3 DEF Finish
    <3>2. i \in DOMAIN rows[r] /\ rows[r][i] \in RowStatuses
      BY <1>0, <2>3, <3>1 DEF OutcomeRows
    <3>3. CASE i \in Worked(r)
      BY <3>1, <3>2, <3>3 DEF OutcomeRows, Worked
    <3>4. CASE i \notin Worked(r)
      <4>1. rows'[r][i] = rows[r][i]
        BY <3>1, <3>2, <3>4 DEF OutcomeRows, Worked
      <4> QED
        BY <1>3, <3>1, <3>2, <3>4, <4>1 DEF TrueRows
    <3> QED
      BY <3>3, <3>4
  <2> QED
    BY <2>0, <2>2, <2>3
<1>8. CASE Abort(r)
  <2> DEFINE recorded == IF inFlight[r] THEN OutcomeRows(r) ELSE rows[r]
  <2>0. pc[r] = "abort" /\ pc'[r] \notin Before
    BY <1>0, <1>8 DEF Abort, Goto, Before
  <2>1. /\ recorded \in [DOMAIN rows[r] -> RowStatuses] /\ recorded \in Seq(RowStatuses)
        /\ TrueRows(r, recorded)
    <3>1. OutcomeRows(r) \in [DOMAIN rows[r] -> RowStatuses]
      BY <1>0 DEF OutcomeRows, RowStatuses
    <3> QED
      BY <1>0, <1>3, <3>1, SeqLike, RowWrites
  <2>2. \/ rows' = [rows EXCEPT ![r] = InterruptedRows(recorded)]
        \/ \E some \in RowsSoFar(r, recorded) :
               rows' \in {[rows EXCEPT ![r] = some],
                          [rows EXCEPT ![r] = InterruptedRows(some)]}
    BY <1>8 DEF Abort
  <2>3. ASSUME runRow'[r] = "success", NEW i \in DOMAIN rows'[r]
        PROVE  rows'[r][i] \notin {"failed", "in_progress"}
    <3>1. runRow[r] = "success"
      BY <1>0, <1>8, <2>3 DEF Abort, FinishedAs
    <3>2. recorded = rows[r] /\ \A j \in DOMAIN rows[r] : rows[r][j] \notin {"failed", "in_progress"}
      BY <1>0, <3>1 DEF FlightOf, RowsOf
    <3>3. InterruptedRows(rows[r]) = rows[r]
      <4>1. InterruptedRows(rows[r]) = [j \in DOMAIN rows[r] |-> rows[r][j]]
        BY <3>2 DEF InterruptedRows
      <4> QED
        BY <1>0, <4>1
    <3>4. ASSUME NEW some \in RowsSoFar(r, rows[r]) PROVE some = rows[r]
      <4>1. some = [j \in DOMAIN rows[r] |-> rows[r][j]]
        BY <3>4 DEF RowsSoFar
      <4> QED
        BY <1>0, <4>1
    <3>5. rows'[r] = rows[r]
      <4> HIDE DEF recorded
      <4> QED
        BY <1>0, <2>2, <3>2, <3>3, <3>4
    <3> QED
      BY <2>3, <3>2, <3>5
  <2> HIDE DEF recorded
  <2>4. TrueRows(r, rows'[r])
    <3>1. CASE rows' = [rows EXCEPT ![r] = InterruptedRows(recorded)]
      BY <1>0, <1>3, <2>1, <3>1, RowWrites
    <3>2. ASSUME NEW some \in RowsSoFar(r, recorded),
                 rows' \in {[rows EXCEPT ![r] = some],
                            [rows EXCEPT ![r] = InterruptedRows(some)]}
          PROVE  TrueRows(r, rows'[r])
      <4>1. TrueRows(r, some) /\ some \in Seq(RowStatuses)
        BY <1>3, <2>1, <3>2, RowWrites, RowTypes
      <4>2. TrueRows(r, InterruptedRows(some))
        BY <1>3, <4>1, RowWrites
      <4> QED
        BY <1>0, <3>2, <4>1, <4>2
    <3> QED
      BY <2>2, <3>1, <3>2
  <2> QED
    BY <2>0, <2>3, <2>4
<1> QED
  BY <1>4, <1>5, <1>6, <1>7, <1>8

LEMMA HistStep == TypeOK /\ IInv /\ PlanInv /\ HistInv /\ [Next]_vars => HistInv'
<1> SUFFICES ASSUME TypeOK, IInv, PlanInv, HistInv, [Next]_vars,
                    NEW q \in Runs
             PROVE  RowsOf(q)' /\ FlightOf(q)'
  BY DEF HistInv
<1>0. RowsOf(q) /\ FlightOf(q)
  BY DEF HistInv
<1>1. CASE UNCHANGED vars \/ \E e \in Appendable : AppendEntry(e)
  <2>1. UNCHANGED <<pc, planVars, workVars, auditVars, inFlight>>
    BY <1>1 DEF vars, AppendEntry
  <2>2. Worked(q)' = Worked(q) /\ Unfinished(q)' = Unfinished(q)
    BY <2>1 DEF planVars, workVars, Worked, Unfinished, Succeeded
  <2> QED
    BY <1>0, <2>1, <2>2 DEF RowsOf, TrueRows, FlightOf, planVars, auditVars
<1>2. ASSUME NEW r \in Runs, RunStep(r) \/ Interrupt(r) \/ Kill(r)
      PROVE  RowsOf(q)' /\ FlightOf(q)'
  <2>1. FlightOf(q)'
    BY <1>2, FlightStep
  <2>2. CASE Parse(r)
    <3>0. UNCHANGED auditVars /\ UNCHANGED workVars
      BY <2>2 DEF Parse
    <3>1. CASE q = r
      <4>1. rows[q] = <<>> /\ runRow[q] = "none"
        BY <1>0, <2>2, <3>1 DEF Parse, FlightOf
      <4>2. rows'[q] = <<>> /\ runRow'[q] = "none" /\ DOMAIN rows'[q] = {}
        BY <3>0, <4>1 DEF auditVars
      <4> QED
        BY <2>1, <4>2 DEF RowsOf, TrueRows
    <3>2. CASE q # r
      <4>1. /\ parsed'[q] = parsed[q] /\ match'[q] = match[q] /\ pc'[q] = pc[q]
            /\ excluded'[q] = excluded[q] /\ exclusion'[q] = exclusion[q]
        BY <2>2, <3>2, ParsePlan
      <4>2. Worked(q)' = Worked(q) /\ Unfinished(q)' = Unfinished(q)
        BY <3>0, <4>1 DEF workVars, Worked, Unfinished, Succeeded
      <4> QED
        BY <1>0, <2>1, <3>0, <4>1, <4>2 DEF RowsOf, TrueRows, auditVars
    <3> QED
      BY <3>1, <3>2
  <2>3. CASE /\ q = r
             /\ ReturnEarly(r) \/ Prepare(r) \/ MarkFailed(r) \/ Finish(r) \/ Abort(r)
    BY <2>1, <2>3, RowsWritten
  <2>4. CASE ~Parse(r) /\ rows'[q] = rows[q] /\ runRow'[q] = runRow[q]
    BY <1>2, <2>1, <2>4, RowsUnwritten
  <2>5. q # r => rows'[q] = rows[q] /\ runRow'[q] = runRow[q]
    <3>1. /\ rows \in [Runs -> Seq(RowStatuses)]
          /\ runRow \in [Runs -> {"none", "started", "success", "failure"}]
      BY DEF TypeOK
    <3>2. q # r => rows'[q] = rows[q]
      BY <1>2, <3>1, StepEffects
         DEF ReturnEarly, Prepare, MarkFailed, Finish, Abort, auditVars
    <3>3. q # r => runRow'[q] = runRow[q]
      BY <1>2, <3>1, StepEffects
         DEF ReturnEarly, Prepare, MarkFailed, Finish, Abort, FinishedAs, auditVars
    <3> QED
      BY <3>2, <3>3
  <2>6. \/ ReturnEarly(r) \/ Prepare(r) \/ MarkFailed(r) \/ Finish(r) \/ Abort(r)
        \/ rows'[q] = rows[q] /\ runRow'[q] = runRow[q]
    BY <1>2, StepEffects DEF auditVars
  <2> QED
    BY <2>2, <2>3, <2>4, <2>5, <2>6
<1> QED
  BY <1>1, <1>2 DEF Next

(* History does not claim what did not happen (updater_audit.py), although an  *)
(* error may stop any of the writes half way: a resolved row is an entry whose *)
(* stacks all succeeded, and a run recorded as a success left no unfinished    *)
(* entry.                                                                      *)
THEOREM HistoryIsTrue == Spec => []HistoryTruthful
<1>1. HistInv => HistoryTruthful
  BY DEF HistInv, RowsOf, TrueRows, HistoryTruthful, Worked
<1>2. Init => TypeOK /\ IInv /\ PlanInv /\ HistInv
  BY InitTypeOK, InitIInv, PlanInit, HistInit
<1>3. TypeOK /\ IInv /\ PlanInv /\ HistInv /\ [Next]_vars
        => (TypeOK /\ IInv /\ PlanInv /\ HistInv)'
  BY TypeStep, IInvStep, PlanStep, HistStep
<1> QED
  BY <1>1, <1>2, <1>3, PTL DEF Spec

-----------------------------------------------------------------------------
(* No entry is lost *)

(* The statuses start empty, and a run that has taken lines out and not put    *)
(* them back has them in flight.                                               *)
WorkOf(q) ==
    /\ pc[q] \in {"start", "planned", "lockRemove", "remove", "digest"}
           => \A s \in Stacks : status[q][s] = "none"
    /\ pc[q] \in {"start", "planned", "lockRemove", "remove", "digest", "exclude"}
           => excludeOk[q] = {}
    /\ pc[q] \in {"remove", "digest", "exclude", "update", "lockRestore", "restore",
                  "reconciled", "lockAbort", "abortRestore"}
           => inFlight[q]

(* The second read of the file has every line of the first. *)
ReadAgain(q) ==
    pc[q] = "planned" =>
        \A i \in DOMAIN parsed[q] : /\ i \in DOMAIN AuditFile(q)
                                    /\ AuditFile(q)[i] = parsed[q][i]

SameLines(q) ==
    pc[q] \notin {"start", "planned", "ended", "dead"} =>
        \A i \in DOMAIN parsed[q] : /\ i \in DOMAIN audited[q]
                                    /\ audited[q][i] = parsed[q][i]

(* The lines that a run will put back if it lives on *)
Back(q) ==
    IF pc[q] \in {"digest", "exclude", "update", "lockAbort", "abortRestore"}
    THEN AbortLines(q)
    ELSE IF pc[q] \in {"lockRestore", "restore"} THEN Restorable(q) ELSE {}

(* Run q has entry e on line i, and every stack that it updated for the line   *)
(* counts for the entry.                                                       *)
Keeps(q, i, e) ==
    /\ inFlight[q]
    /\ i \in Back(q) \cap DOMAIN audited[q]
    /\ audited[q][i] = e
    /\ \A p \in match[q] : p[1] = i /\ status[q][p[2]] = "success" => p[2] \in done[e]

Accounted(e) ==
    \/ Has(file, e)
    \/ \E q \in Runs : \E i \in Nat : Keeps(q, i, e)
    \/ Matching[e] # {} /\ Matching[e] \subseteq done[e]
    \/ e \in dropped \cup lost

KeepInv ==
    /\ \A q \in Runs : WorkOf(q) /\ ReadAgain(q) /\ SameLines(q)
    /\ \A e \in Entries : Accounted(e)

(* A run leaves what is another run's alone. *)
LEMMA OthersKept ==
    ASSUME TypeOK, NEW r \in Runs, RunStep(r) \/ Interrupt(r) \/ Kill(r),
           NEW q \in Runs, q # r
    PROVE  /\ pc'[q] = pc[q] /\ inFlight'[q] = inFlight[q] /\ audited'[q] = audited[q]
           /\ parsed'[q] = parsed[q] /\ targets'[q] = targets[q]
           /\ match'[q] = match[q] /\ partial'[q] = partial[q]
           /\ excluded'[q] = excluded[q] /\ exclusion'[q] = exclusion[q]
           /\ discard'[q] = discard[q]
           /\ status'[q] = status[q] /\ excludeOk'[q] = excludeOk[q]
           /\ preStale'[q] = preStale[q] /\ postStale'[q] = postStale[q]
           /\ Back(q)' = Back(q)
<1>0. /\ inFlight \in [Runs -> BOOLEAN] /\ audited \in [Runs -> Seq(Entries)]
      /\ status \in [Runs -> [Stacks -> {"none", "success", "failure"}]]
      /\ excludeOk \in [Runs -> SUBSET Pairs] /\ preStale \in [Runs -> SUBSET Pairs]
      /\ postStale \in [Runs -> SUBSET Pairs]
  BY DEF TypeOK
<1>1. /\ parsed'[q] = parsed[q] /\ targets'[q] = targets[q]
      /\ match'[q] = match[q] /\ partial'[q] = partial[q]
      /\ excluded'[q] = excluded[q] /\ exclusion'[q] = exclusion[q]
      /\ discard'[q] = discard[q]
  BY ParsePlan, StepEffects DEF planVars
<1>2. inFlight'[q] = inFlight[q]
  BY <1>0, StepEffects DEF Acquire, MarkFailed, Abort, Kill
<1>3. audited'[q] = audited[q]
  BY <1>0, StepEffects DEF Prepare
<1>4. /\ status'[q] = status[q] /\ excludeOk'[q] = excludeOk[q]
      /\ preStale'[q] = preStale[q] /\ postStale'[q] = postStale[q]
  <2>1. CASE UNCHANGED workVars
    BY <2>1 DEF workVars
  <2>2. CASE PreflightDigests(r)
    BY <1>0, <2>2 DEF PreflightDigests
  <2>3. CASE ApplyExclusions(r)
    BY <1>0, <2>3 DEF ApplyExclusions
  <2>4. CASE UpdateStack(r)
    <3>1. PICK s \in Stacks : UpdateOf(r, s)
      BY <2>4, UpdateEffect
    <3>2. UNCHANGED <<excludeOk, preStale>>
      BY <2>4 DEF UpdateStack
    <3> QED
      BY <1>0, <3>1, <3>2 DEF UpdateOf
  <2> QED
    BY <2>1, <2>2, <2>3, <2>4, StepEffects
<1>5. pc'[q] = pc[q]
  BY PcStep
<1>6. Unfinished(q)' = Unfinished(q) /\ StaleLines(q)' = StaleLines(q)
  BY <1>1, <1>4 DEF Unfinished, Succeeded, StaleLines
<1>7. Back(q)' = Back(q)
  BY <1>1, <1>5, <1>6 DEF Back, AbortLines, Restorable
<1> QED
  BY <1>1, <1>2, <1>3, <1>4, <1>5, <1>7

LEMMA WorkOfStep ==
    ASSUME TypeOK, NEW r \in Runs, RunStep(r) \/ Interrupt(r) \/ Kill(r),
           NEW q \in Runs, WorkOf(q)
    PROVE  WorkOf(q)'
<1>1. CASE q # r
  BY <1>1, OthersKept DEF WorkOf
<1>2. CASE q = r
  <2>0. Arrow(pc[r], pc'[r]) /\ inFlight \in [Runs -> BOOLEAN]
    BY PcStep DEF TypeOK
  <2>1. pc'[r] \in {"start", "planned", "lockRemove", "remove", "digest"}
           => \A s \in Stacks : status'[r][s] = "none"
    <3>1. pc'[r] \in {"start", "planned", "lockRemove", "remove", "digest"}
            => pc[r] \in {"start", "planned", "lockRemove", "remove"}
      BY <2>0 DEF Arrow
    <3>2. pc[r] \in {"start", "planned", "lockRemove", "remove"} => UNCHANGED workVars
      BY StepEffects DEF PreflightDigests, ApplyExclusions, UpdateStack
    <3> QED
      BY <1>2, <3>1, <3>2 DEF WorkOf, workVars
  <2>2. pc'[r] \in {"start", "planned", "lockRemove", "remove", "digest", "exclude"}
           => excludeOk'[r] = {}
    <3>1. pc'[r] \in {"start", "planned", "lockRemove", "remove", "digest", "exclude"}
            => pc[r] \in {"start", "planned", "lockRemove", "remove", "digest"}
      BY <2>0 DEF Arrow
    <3>2. pc[r] \in {"start", "planned", "lockRemove", "remove", "digest"}
            => UNCHANGED excludeOk
      BY StepEffects DEF PreflightDigests, ApplyExclusions, UpdateStack, workVars
    <3> QED
      BY <1>2, <3>1, <3>2 DEF WorkOf
  <2>3. pc'[r] \in {"remove", "digest", "exclude", "update", "lockRestore", "restore",
                    "reconciled", "lockAbort", "abortRestore"}
           => inFlight'[r]
    <3>1. CASE Acquire(r)
      BY <2>0, <3>1 DEF Acquire
    <3>2. CASE MarkFailed(r)
      BY <1>2, <2>0, <3>2, PcStep DEF MarkFailed, Goto, AbortPc, TypeOK, WorkOf
    <3>3. CASE Abort(r) \/ Kill(r)
      BY <3>3 DEF Abort, Kill, Goto, TypeOK
    <3>4. CASE UNCHANGED inFlight /\ ~Acquire(r)
      <4>1. pc[r] \in Waiting => Wait(r) \/ TimeOut(r) \/ Kill(r)
        BY <3>4 DEF RunStep, Parse, ReturnEarly, Prepare, TakeOut, PreflightDigests,
           ApplyExclusions, UpdateStack, Reconcile, Restore, MarkFailed, Finish, Report,
           AbortRestore, Abort, Interrupt, Waiting
      <4>2. pc[r] = "lockRemove" => pc'[r] \in {"lockRemove", "abort", "dead"}
        BY <4>1 DEF Wait, TimeOut, Kill, Goto, Waiting, TypeOK
      <4> QED
        BY <1>2, <2>0, <3>4, <4>2 DEF Arrow, WorkOf
    <3> QED
      BY <3>1, <3>2, <3>3, <3>4, StepEffects
  <2> QED
    BY <1>2, <2>1, <2>2, <2>3 DEF WorkOf
<1> QED
  BY <1>1, <1>2

(* What has been done, dropped or reported stays so. *)
LEMMA HistoryGrows ==
    ASSUME TypeOK, NEW r \in Runs, RunStep(r) \/ Interrupt(r) \/ Kill(r)
    PROVE  /\ dropped \subseteq dropped' /\ lost \subseteq lost'
           /\ \A e \in Entries : done[e] \subseteq done'[e]
<1>1. dropped \subseteq dropped'
  BY StepEffects DEF TakeOut, ApplyExclusions, Reconcile
<1>2. lost \subseteq lost'
  BY StepEffects DEF TimeOut, AbortRestore, Kill
<1>3. \A e \in Entries : done[e] \subseteq done'[e]
  <2>1. CASE UpdateStack(r)
    <3>1. PICK s \in Stacks : UpdateOf(r, s)
      BY <2>1, UpdateEffect
    <3> QED
      BY <3>1 DEF UpdateOf
  <2> QED
    BY <2>1, StepEffects
<1> QED
  BY <1>1, <1>2, <1>3

(* The lines to put back at the end are among those to put back on an abort. *)
LEMMA BackLines ==
    ASSUME TypeOK, PlanInv, NEW q \in Runs
    PROVE  /\ Back(q) \subseteq AbortLines(q) /\ Restorable(q) \subseteq AbortLines(q)
           /\ AbortLines(q) \subseteq DOMAIN parsed[q]
           /\ AbortLines(q) \subseteq LinesOf(match[q] \cup exclusion[q])
           /\ AbortLines(q) \subseteq Nat
<1>1. Restorable(q) \subseteq AbortLines(q)
  BY DEF Restorable, AbortLines
<1>2. /\ AbortLines(q) \subseteq LinesOf(match[q] \cup exclusion[q])
      /\ AbortLines(q) \subseteq DOMAIN parsed[q]
  BY PlanFacts DEF AbortLines
<1>3. DOMAIN parsed[q] \subseteq Nat
  BY DEF TypeOK
<1> QED
  BY <1>1, <1>2, <1>3 DEF Back

(* A removal (remove_lines_before_run): what leaves the file is in flight or    *)
(* was to be discarded.                                                         *)
LEMMA TakeOutKeeps ==
    ASSUME TypeOK, IInv, PlanInv, KeepInv, NEW r \in Runs, TakeOut(r),
           NEW e \in Entries, Has(file, e)
    PROVE  Accounted(e)'
<1>0. /\ pc[r] = "remove" /\ buf[r] = file /\ pc \in [Runs -> Pcs]
      /\ audited[r] \in Seq(Entries) /\ file \in Seq(Entries)
      /\ WorkOf(r) /\ SameLines(r) /\ DOMAIN parsed[r] \subseteq Nat
  BY DEF TakeOut, IInv, LockInv, Rewriting, TypeOK, KeepInv
<1>1. CASE file' = file
  BY <1>1 DEF Accounted
<1>2. CASE file' # file
  <2>1. /\ file' = RemoveLines(audited[r], InFlightLines(r), file)
        /\ dropped' = dropped \cup
               EntriesAt(r, discard[r] \ LinesOf(match[r] \cup exclusion[r]))
        /\ pc'[r] = "digest"
    BY <1>0, <1>2 DEF TakeOut, Goto
  <2>2. CASE Has(file', e)
    BY <2>2 DEF Accounted
  <2>3. CASE ~Has(file', e)
    <3>1. PICK i \in InFlightLines(r) \cap DOMAIN audited[r] : audited[r][i] = e
      BY <1>0, <2>1, <2>3, RemoveHas
    <3>2. /\ InFlightLines(r) = LinesOf(match[r] \cup exclusion[r]) \cup discard[r]
          /\ InFlightLines(r) \subseteq DOMAIN parsed[r]
      BY PlanFacts DEF InFlightLines
    <3>3. parsed[r][i] = e /\ i \in DOMAIN parsed[r] /\ i \in Nat
      BY <1>0, <3>1, <3>2 DEF SameLines
    <3>4. CASE i \in LinesOf(match[r] \cup exclusion[r])
      <4>1. UNCHANGED planVars /\ UNCHANGED workVars /\ UNCHANGED audited
            /\ UNCHANGED inFlight
        BY DEF TakeOut
      <4>2. PICK p \in match[r] \cup exclusion[r] : p[1] = i
        BY <3>4 DEF LinesOf
      <4>3. \A x \in match[r] \cup exclusion[r] : ~Succeeded(r, x)
        <5>1. \A x \in match[r] \cup exclusion[r] : x[2] \in Stacks
          BY DEF TypeOK, Pairs
        <5> QED
          BY <1>0, <5>1 DEF WorkOf, Succeeded
      <4>4. i \in Unfinished(r)
        BY <4>2, <4>3 DEF Unfinished, LinesOf
      <4>5. Unfinished(r)' = Unfinished(r)
        BY <4>1 DEF planVars, workVars, Unfinished, Succeeded
      <4>6. i \in Back(r)'
        BY <2>1, <4>4, <4>5 DEF Back, AbortLines
      <4>7. \A x \in match'[r] : status'[r][x[2]] # "success"
        <5>1. \A x \in match[r] : x[2] \in Stacks
          BY DEF TypeOK, Pairs
        <5> QED
          BY <1>0, <4>1, <5>1 DEF WorkOf, planVars, workVars
      <4>8. inFlight'[r]
        BY <1>0, <4>1 DEF WorkOf
      <4>9. Keeps(r, i, e)'
        BY <3>1, <4>1, <4>6, <4>7, <4>8 DEF Keeps
      <4> QED
        BY <3>3, <4>9 DEF Accounted
    <3>5. CASE i \notin LinesOf(match[r] \cup exclusion[r])
      <4>1. i \in discard[r] \ LinesOf(match[r] \cup exclusion[r])
        BY <3>1, <3>2, <3>5
      <4>2. e \in dropped'
        BY <2>1, <3>3, <4>1 DEF EntriesAt
      <4> QED
        BY <4>2 DEF Accounted
    <3> QED
      BY <3>4, <3>5
  <2> QED
    BY <2>2, <2>3
<1> QED
  BY <1>1, <1>2

(* What is in the file stays accounted for. *)
LEMMA ListedKept ==
    ASSUME TypeOK, IInv, PlanInv, KeepInv,
           NEW r \in Runs, RunStep(r) \/ Interrupt(r) \/ Kill(r),
           NEW e \in Entries, Has(file, e)
    PROVE  Accounted(e)'
<1>1. CASE TakeOut(r)
  BY <1>1, TakeOutKeeps
<1>2. CASE Restore(r) \/ AbortRestore(r)
  <2>1. /\ buf[r] = file /\ audited[r] \in Seq(Entries) /\ file \in Seq(Entries)
    BY <1>2 DEF Restore, AbortRestore, IInv, LockInv, Rewriting, TypeOK
  <2>2. \/ file' = file
        \/ \E I : file' = RestoreLines(audited[r], I, file)
    BY <1>2, <2>1 DEF Restore, AbortRestore
  <2>3. Has(file', e)
    BY <2>1, <2>2, RestoreHas
  <2> QED
    BY <2>3 DEF Accounted
<1>3. CASE UNCHANGED file
  BY <1>3 DEF Accounted
<1> QED
  BY <1>1, <1>2, <1>3, StepEffects

(* A line in flight, when its run takes a step that changes no status *)
LEMMA FlightKept ==
    ASSUME TypeOK, IInv, PlanInv, KeepInv,
           NEW r \in Runs, RunStep(r) \/ Interrupt(r) \/ Kill(r), UNCHANGED workVars,
           NEW e \in Entries, NEW i \in Nat, Keeps(r, i, e)
    PROVE  Accounted(e)'
<1>0. /\ inFlight[r] /\ i \in Back(r) /\ i \in DOMAIN audited[r] /\ audited[r][i] = e
      /\ i \in AbortLines(r) /\ AbortLines(r) # {} /\ i \in DOMAIN parsed[r]
      /\ WorkOf(r) /\ SameLines(r) /\ pc \in [Runs -> Pcs]
      /\ inFlight \in [Runs -> BOOLEAN]
      /\ audited[r] \in Seq(Entries) /\ file \in Seq(Entries)
  BY BackLines DEF Keeps, KeepInv, TypeOK
<1>1. pc[r] \in {"digest", "exclude", "update", "lockAbort", "abortRestore",
                 "lockRestore", "restore"}
  BY <1>0 DEF Back
<1>2. parsed[r][i] = e
  BY <1>0, <1>1 DEF SameLines
<1>3. UNCHANGED planVars /\ UNCHANGED audited
  BY <1>1, StepEffects DEF Parse, Prepare
<1>4. /\ Unfinished(r)' = Unfinished(r) /\ AbortLines(r)' = AbortLines(r)
      /\ Restorable(r)' = Restorable(r)
  BY <1>3 DEF planVars, workVars, Unfinished, Succeeded, AbortLines, Restorable,
     StaleLines
<1>5. e \in PutBack(r)
  BY <1>0 DEF PutBack
<1>6. ASSUME i \in Back(r)', inFlight'[r] PROVE Accounted(e)'
  <2>1. done[e] \subseteq done'[e]
    BY HistoryGrows
  <2>2. Keeps(r, i, e)'
    BY <1>0, <1>3, <1>6, <2>1 DEF Keeps, planVars, workVars
  <2> QED
    BY <2>2 DEF Accounted
<1>7. CASE Interrupt(r)
  <2>1. pc'[r] = "lockAbort" /\ inFlight' = inFlight
    BY <1>0, <1>7 DEF Interrupt, Goto, AbortPc
  <2> QED
    BY <1>0, <1>4, <1>6, <2>1 DEF Back
<1>8. CASE Acquire(r)
  <2>1. /\ inFlight'[r]
        /\ \/ pc[r] = "lockRestore" /\ pc'[r] = "restore"
           \/ pc[r] = "lockAbort" /\ pc'[r] = "abortRestore"
    BY <1>0, <1>1, <1>8 DEF Acquire, Goto
  <2> QED
    BY <1>0, <1>4, <1>6, <2>1 DEF Back
<1>9. CASE Wait(r)
  <2>1. pc' = pc /\ inFlight' = inFlight
    BY <1>9 DEF Wait
  <2> QED
    BY <1>0, <1>4, <1>6, <2>1 DEF Back
<1>10. CASE TimeOut(r)
  <2>1. \/ pc'[r] = "lockAbort" /\ inFlight' = inFlight
        \/ e \in lost'
    BY <1>0, <1>1, <1>5, <1>10 DEF TimeOut, Goto
  <2>2. CASE e \in lost'
    BY <2>2 DEF Accounted
  <2> QED
    BY <1>0, <1>4, <1>6, <2>1, <2>2 DEF Back
<1>11. CASE Reconcile(r)
  <2>0. pc[r] = "update"
    BY <1>11 DEF Reconcile
  <2>1. CASE i \in Restorable(r)
    <3>1. pc'[r] = "lockRestore" /\ inFlight' = inFlight
      BY <1>0, <1>11, <2>1 DEF Reconcile, Goto
    <3> QED
      BY <1>0, <1>4, <1>6, <2>1, <3>1 DEF Back
  <2>2. CASE i \notin Restorable(r)
    <3>1. i \in Unfinished(r) \ Restorable(r)
      BY <1>0, <2>2 DEF AbortLines, Restorable
    <3>2. e \in dropped'
      BY <1>0, <1>2, <1>11, <3>1 DEF Reconcile, EntriesAt
    <3> QED
      BY <3>2 DEF Accounted
  <2> QED
    BY <2>1, <2>2
<1>12. CASE Restore(r)
  <2>1. pc[r] = "restore" /\ buf[r] = file /\ i \in Restorable(r)
    BY <1>0, <1>12 DEF Restore, IInv, LockInv, Rewriting, Back
  <2>2. CASE file' = RestoreLines(audited[r], Restorable(r), buf[r])
    <3>1. Has(file', e)
      BY <1>0, <2>1, <2>2, RestoreHas
    <3> QED
      BY <3>1 DEF Accounted
  <2>3. CASE pc' = [pc EXCEPT ![r] = AbortPc(r)]
    <3>1. pc'[r] = "lockAbort" /\ inFlight' = inFlight
      BY <1>0, <1>12, <2>3 DEF Restore, AbortPc
    <3> QED
      BY <1>0, <1>4, <1>6, <3>1 DEF Back
  <2> QED
    BY <1>12, <2>2, <2>3 DEF Restore, Goto
<1>13. CASE AbortRestore(r)
  <2>1. buf[r] = file
    BY <1>13 DEF AbortRestore, IInv, LockInv, Rewriting
  <2>2. CASE file' = RestoreLines(audited[r], AbortLines(r), buf[r])
    <3>1. Has(file', e)
      BY <1>0, <2>1, <2>2, RestoreHas
    <3> QED
      BY <3>1 DEF Accounted
  <2>3. CASE e \in lost'
    BY <2>3 DEF Accounted
  <2> QED
    BY <1>5, <1>13, <2>2, <2>3 DEF AbortRestore
<1>14. CASE Kill(r)
  <2>1. e \in lost'
    BY <1>0, <1>1, <1>5, <1>14 DEF Kill
  <2> QED
    BY <2>1 DEF Accounted
<1>15. \/ Interrupt(r) \/ Acquire(r) \/ Wait(r) \/ TimeOut(r) \/ Reconcile(r)
       \/ Restore(r) \/ AbortRestore(r) \/ Kill(r)
       \/ PreflightDigests(r) \/ ApplyExclusions(r) \/ UpdateStack(r)
  BY <1>1 DEF RunStep, Parse, ReturnEarly, Prepare, TakeOut, MarkFailed, Finish,
     Report, Abort
<1>16. CASE PreflightDigests(r) \/ ApplyExclusions(r) \/ UpdateStack(r)
  <2>1. pc'[r] \in {"exclude", "update"} /\ inFlight' = inFlight
    BY <1>0, <1>16 DEF PreflightDigests, ApplyExclusions, UpdateStack, Goto
  <2> QED
    BY <1>0, <1>4, <1>6, <2>1 DEF Back
<1> QED
  BY <1>7, <1>8, <1>9, <1>10, <1>11, <1>12, <1>13, <1>14, <1>15, <1>16

(* A line in flight, when its run goes on with the work *)
LEMMA WorkKept ==
    ASSUME TypeOK, IInv, PlanInv, KeepInv, NEW r \in Runs,
           PreflightDigests(r) \/ ApplyExclusions(r) \/ UpdateStack(r),
           NEW e \in Entries, NEW i \in Nat, Keeps(r, i, e)
    PROVE  Accounted(e)'
<1>0. /\ inFlight[r] /\ i \in Back(r) /\ i \in DOMAIN audited[r] /\ audited[r][i] = e
      /\ i \in AbortLines(r) /\ i \in DOMAIN parsed[r]
      /\ WorkOf(r) /\ SameLines(r) /\ pc \in [Runs -> Pcs]
      /\ \A p \in match[r] : p[1] = i /\ status[r][p[2]] = "success" => p[2] \in done[e]
  BY BackLines DEF Keeps, KeepInv, TypeOK
<1>1. /\ UNCHANGED planVars /\ UNCHANGED audited /\ UNCHANGED inFlight
      /\ pc'[r] \in {"exclude", "update"} /\ pc[r] \in {"digest", "exclude", "update"}
  BY <1>0 DEF PreflightDigests, ApplyExclusions, UpdateStack, Goto
<1>2. parsed[r][i] = e /\ Back(r)' = Unfinished(r)' \cup partial[r]
  BY <1>0, <1>1 DEF SameLines, Back, AbortLines, planVars
<1>3. ASSUME i \in Unfinished(r)' \cup partial[r],
             \A p \in match[r] : p[1] = i /\ status'[r][p[2]] = "success" => p[2] \in done'[e]
      PROVE  Accounted(e)'
  <2>1. Keeps(r, i, e)'
    BY <1>0, <1>1, <1>2, <1>3 DEF Keeps, planVars
  <2> QED
    BY <2>1 DEF Accounted
<1>4. /\ status \in [Runs -> [Stacks -> {"none", "success", "failure"}]]
      /\ \A p \in match[r] \cup exclusion[r] : p[2] \in Stacks
      /\ excludeOk \in [Runs -> SUBSET Pairs]
      /\ done \in [Entries -> SUBSET Stacks]
  BY DEF TypeOK, Pairs
<1>5. /\ match' = match /\ exclusion' = exclusion
  BY <1>1 DEF planVars
<1>6. /\ LinesOf(match[r]) \cap LinesOf(exclusion[r]) = {}
      /\ partial[r] \subseteq LinesOf(match[r])
  BY PlanFacts
<1>7. CASE i \in partial[r] \/ \E p \in match[r] \cup exclusion[r] :
                                  p[1] = i /\ ~Succeeded(r, p)
  <2>1. CASE PreflightDigests(r)
    <3>1. excludeOk' = excludeOk /\ done' = done /\ \A s \in Stacks : status[r][s] = "none"
      BY <1>0, <2>1 DEF PreflightDigests, WorkOf, historyVars
    <3>2. \A s \in Stacks : status'[r][s] # "success"
      BY <1>4, <2>1, <3>1 DEF PreflightDigests
    <3>3. \A p \in match[r] \cup exclusion[r] : ~Succeeded(r, p) => ~Succeeded(r, p)'
      BY <1>4, <1>5, <3>1, <3>2 DEF Succeeded
    <3>4. i \in Unfinished(r)' \cup partial[r]
      BY <1>5, <1>7, <3>3 DEF Unfinished, LinesOf
    <3> QED
      BY <1>3, <1>4, <3>2, <3>4
  <2>2. CASE ApplyExclusions(r)
    <3>1. PICK ok \in SUBSET {p \in exclusion[r] : status[r][p[2]] = "none"} :
            /\ excludeOk' = [excludeOk EXCEPT ![r] = ok]
            /\ dropped' = dropped \cup
                  EntriesAt(r, LinesOf(ok) \ LinesOf(exclusion[r] \ ok))
      BY <2>2 DEF ApplyExclusions
    <3>2. status' = status /\ done' = done /\ excludeOk'[r] = ok
      BY <1>4, <2>2, <3>1 DEF ApplyExclusions
    <3>3. CASE i \in Unfinished(r)' \cup partial[r]
      BY <1>0, <1>3, <3>2, <3>3
    <3>4. CASE i \notin Unfinished(r)' \cup partial[r]
      <4>1. PICK p \in match[r] \cup exclusion[r] : p[1] = i /\ ~Succeeded(r, p)
        BY <1>7, <3>4
      <4>2. \A x \in match[r] \cup exclusion[r] : x[1] = i => Succeeded(r, x)'
        BY <1>5, <3>4 DEF Unfinished, LinesOf
      <4>3. p \in exclusion[r]
        BY <1>5, <3>2, <4>1, <4>2 DEF Succeeded
      <4>4. \A x \in exclusion[r] : x[1] = i => x \in ok
        BY <1>5, <3>2, <4>2 DEF Succeeded
      <4>5. i \in LinesOf(ok) \ LinesOf(exclusion[r] \ ok)
        BY <4>1, <4>3, <4>4 DEF LinesOf
      <4>6. e \in dropped'
        BY <1>0, <1>2, <3>1, <4>5 DEF EntriesAt
      <4> QED
        BY <4>6 DEF Accounted
    <3> QED
      BY <3>3, <3>4
  <2>3. CASE UpdateStack(r)
    <3>1. PICK s \in StacksToUpdate(r) : s \in Stacks /\ UpdateOf(r, s)
      BY <2>3, UpdateEffect
    <3>2. excludeOk' = excludeOk
      BY <2>3 DEF UpdateStack
    <3>3. CASE status' = [status EXCEPT ![r][s] = "failure"] /\ UNCHANGED done
      <4>1. \A t \in Stacks : status'[r][t] = "success" => status[r][t] = "success"
        BY <1>4, <3>3
      <4>2. \A p \in match[r] \cup exclusion[r] : ~Succeeded(r, p) => ~Succeeded(r, p)'
        BY <1>4, <1>5, <3>2, <4>1 DEF Succeeded
      <4>3. i \in Unfinished(r)' \cup partial[r]
        BY <1>5, <1>7, <4>2 DEF Unfinished, LinesOf
      <4> QED
        BY <1>0, <1>3, <1>4, <3>3, <4>1, <4>3
    <3>4. CASE /\ status' = [status EXCEPT ![r][s] = "success"]
               /\ done' = [x \in Entries |->
                     IF x \in EntriesAt(r, LinesOf({p \in match[r] : p[2] = s}))
                     THEN done[x] \cup {s} ELSE done[x]]
      <4>1. \A t \in Stacks : status'[r][t] = "success" => t = s \/ status[r][t] = "success"
        BY <1>4, <3>4
      <4>2. ASSUME NEW p \in match[r], p[1] = i, status'[r][p[2]] = "success"
            PROVE  p[2] \in done'[e]
        <5>1. CASE p[2] = s
          <6>1. i \in LinesOf({x \in match[r] : x[2] = s})
            BY <4>2, <5>1 DEF LinesOf
          <6>2. e \in EntriesAt(r, LinesOf({x \in match[r] : x[2] = s}))
            BY <1>0, <1>2, <6>1 DEF EntriesAt
          <6> QED
            BY <3>4, <5>1, <6>2
        <5>2. CASE p[2] # s
          <6>1. p[2] \in done[e]
            BY <1>0, <1>4, <4>1, <4>2, <5>2
          <6> QED
            BY <3>4, <6>1
        <5> QED
          BY <5>1, <5>2
      <4>3. CASE i \in Unfinished(r)' \cup partial[r]
        BY <1>3, <4>2, <4>3
      <4>4. CASE i \notin Unfinished(r)' \cup partial[r]
        <5>1. \A x \in match[r] \cup exclusion[r] : x[1] = i => Succeeded(r, x)'
          BY <1>5, <4>4 DEF Unfinished, LinesOf
        <5>2. PICK p \in match[r] \cup exclusion[r] : p[1] = i /\ ~Succeeded(r, p)
          BY <1>7, <4>4
        <5>3. p \in match[r] /\ p \notin exclusion[r]
          BY <1>5, <3>2, <5>1, <5>2 DEF Succeeded
        <5>4. i \in LinesOf(match[r]) \ partial[r] /\ i \notin LinesOf(exclusion[r])
          BY <1>6, <4>4, <5>2, <5>3 DEF LinesOf
        <5>5. \A x \in match[r] : x[1] = i => status'[r][x[2]] = "success"
          BY <1>5, <5>1, <5>4 DEF Succeeded, LinesOf
        <5>6. \A t \in Matching[e] : <<i, t>> \in match[r]
          <6>1. Matching[e] \subseteq Stacks
            BY UpdaterAssumption
          <6> QED
            BY <1>2, <5>4, <6>1, PlanFacts
        <5>7. Matching[e] \subseteq done'[e]
          <6>1. ASSUME NEW t \in Matching[e] PROVE t \in done'[e]
            <7>1. <<i, t>> \in match[r] /\ <<i, t>>[1] = i /\ <<i, t>>[2] = t
              BY <5>6
            <7> QED
              BY <4>2, <5>5, <7>1
          <6> QED
            BY <6>1
        <5>8. Matching[e] # {}
          BY <1>2, <5>2, <5>3, PlanFacts
        <5> QED
          BY <5>7, <5>8 DEF Accounted
      <4> QED
        BY <4>3, <4>4
    <3> QED
      BY <3>1, <3>3, <3>4 DEF UpdateOf
  <2> QED
    BY <2>1, <2>2, <2>3
<1>8. i \in partial[r] \/ \E p \in match[r] \cup exclusion[r] :
                             p[1] = i /\ ~Succeeded(r, p)
  BY <1>0 DEF AbortLines, Unfinished, LinesOf
<1> QED
  BY <1>7, <1>8

LEMMA AccountedStep ==
    ASSUME TypeOK, IInv, PlanInv, KeepInv, [Next]_vars, NEW e \in Entries
    PROVE  Accounted(e)'
<1>0. Accounted(e)
  BY DEF KeepInv
<1>1. CASE UNCHANGED vars
  <2>1. UNCHANGED <<file, pc, planVars, workVars, audited, inFlight, historyVars>>
    BY <1>1 DEF vars, fileVars
  <2>2. \A q \in Runs : Back(q)' = Back(q)
    BY <2>1 DEF Back, AbortLines, Restorable, Unfinished, Succeeded, StaleLines,
       planVars, workVars
  <2>3. \A q \in Runs, i \in Nat : Keeps(q, i, e) => Keeps(q, i, e)'
    BY <2>1, <2>2 DEF Keeps, planVars, workVars, historyVars
  <2> QED
    BY <1>0, <2>1, <2>3 DEF Accounted, historyVars
<1>2. ASSUME NEW f \in Appendable, AppendEntry(f) PROVE Accounted(e)'
  <2>0. /\ file \in Seq(Entries) /\ f \in Entries /\ file' = Append(file, f)
        /\ dropped' = dropped \ {f} /\ lost' = lost \ {f}
        /\ done' = [done EXCEPT ![f] = {}] /\ done \in [Entries -> SUBSET Stacks]
        /\ UNCHANGED <<pc, planVars, workVars, audited, inFlight>>
    BY <1>2, UpdaterAssumption DEF AppendEntry, TypeOK
  <2>1. \A x : Has(file, x) => Has(file', x)
    <3>1. /\ \A i \in DOMAIN file : i \in DOMAIN file' /\ file'[i] = file[i]
      BY <2>0
    <3> QED
      BY <3>1 DEF Has
  <2>2. Has(file', f)
    <3>1. Len(file) + 1 \in DOMAIN file' /\ file'[Len(file) + 1] = f
      BY <2>0
    <3> QED
      BY <3>1 DEF Has
  <2>3. CASE e = f
    BY <2>2, <2>3 DEF Accounted
  <2>4. CASE e # f
    <3>1. done'[e] = done[e] /\ (e \in dropped \cup lost => e \in dropped' \cup lost')
      BY <2>0, <2>4
    <3>2. \A q \in Runs : Back(q)' = Back(q)
      BY <2>0 DEF Back, AbortLines, Restorable, Unfinished, Succeeded, StaleLines,
         planVars, workVars
    <3>3. \A q \in Runs, i \in Nat : Keeps(q, i, e) => Keeps(q, i, e)'
      BY <2>0, <3>1, <3>2 DEF Keeps, planVars, workVars
    <3> QED
      BY <1>0, <2>1, <3>1, <3>3 DEF Accounted
  <2> QED
    BY <2>3, <2>4
<1>3. ASSUME NEW r \in Runs, RunStep(r) \/ Interrupt(r) \/ Kill(r) PROVE Accounted(e)'
  <2>1. /\ dropped \subseteq dropped' /\ lost \subseteq lost' /\ done[e] \subseteq done'[e]
    BY <1>3, HistoryGrows
  <2>2. CASE Has(file, e)
    BY <1>3, <2>2, ListedKept
  <2>3. ASSUME NEW q \in Runs, NEW i \in Nat, Keeps(q, i, e) PROVE Accounted(e)'
    <3>1. CASE q # r
      <4>1. Keeps(q, i, e)'
        BY <1>3, <2>1, <2>3, <3>1, OthersKept DEF Keeps
      <4> QED
        BY <4>1 DEF Accounted
    <3>2. CASE q = r
      BY <1>3, <2>3, <3>2, StepEffects, FlightKept, WorkKept
    <3> QED
      BY <3>1, <3>2
  <2>4. CASE Matching[e] # {} /\ Matching[e] \subseteq done[e]
    BY <2>1, <2>4 DEF Accounted
  <2>5. CASE e \in dropped \cup lost
    BY <2>1, <2>5 DEF Accounted
  <2> QED
    BY <1>0, <2>2, <2>3, <2>4, <2>5 DEF Accounted
<1> QED
  BY <1>1, <1>2, <1>3 DEF Next

(* What the proof needs of the constants: there is one run, or no run reads    *)
(* the file a second time, because no line is ever excluded or discarded.      *)
(* Without it the property does not hold: between the two reads another run    *)
(* may change which line a number names.                                       *)
OneReading == (\A q, r \in Runs : q = r) \/ (Excludable = {} /\ Discardable = {})

LEMMA ReadAgainStep ==
    ASSUME OneReading, TypeOK, PlanInv, PlanInv', KeepInv, [Next]_vars, NEW q \in Runs
    PROVE  ReadAgain(q)'
<1>0. ReadAgain(q) /\ file \in Seq(Entries)
  BY DEF KeepInv, TypeOK
<1>1. CASE Excludable = {} /\ Discardable = {}
  <2>1. AuditFile(q)' = parsed'[q]
    <3>1. PlanOf(q)'
      BY DEF PlanInv
    <3>2. excluded'[q] = {} /\ discard'[q] = {}
      BY <1>1, <3>1 DEF PlanOf
    <3>3. LinesOf(match'[q]) \subseteq targets'[q] /\ LinesOf(exclusion'[q]) = {}
      BY <3>1, <3>2 DEF PlanOf, MatchingPairs, LinesOf
    <3>4. (InFlightLines(q) \cup excluded[q] \subseteq targets[q])'
      BY <3>2, <3>3 DEF InFlightLines
    <3> QED
      BY <3>4 DEF AuditFile
  <2> QED
    BY <2>1 DEF ReadAgain
<1>2. CASE \A p, r \in Runs : p = r
  <2>1. CASE UNCHANGED vars
    BY <1>0, <2>1 DEF vars, fileVars, planVars, ReadAgain, AuditFile, InFlightLines
  <2>2. ASSUME NEW f \in Appendable, AppendEntry(f) PROVE ReadAgain(q)'
    <3>1. /\ UNCHANGED <<pc, planVars>> /\ file' = Append(file, f)
      BY <2>2 DEF AppendEntry
    <3>2. \A i \in DOMAIN file : i \in DOMAIN file' /\ file'[i] = file[i]
      BY <1>0, <3>1
    <3>3. /\ pc' = pc /\ parsed' = parsed
          /\ (InFlightLines(q) \cup excluded[q] \subseteq targets[q])'
               <=> (InFlightLines(q) \cup excluded[q] \subseteq targets[q])
      BY <3>1 DEF planVars, InFlightLines
    <3> QED
      BY <1>0, <3>2, <3>3 DEF ReadAgain, AuditFile
  <2>3. ASSUME NEW r \in Runs, RunStep(r) \/ Interrupt(r) \/ Kill(r) PROVE ReadAgain(q)'
    <3>1. q = r /\ Arrow(pc[r], pc'[r])
      BY <1>2, <2>3, PcStep
    <3>2. CASE pc'[q] # "planned"
      BY <3>2 DEF ReadAgain
    <3>3. CASE pc'[q] = "planned"
      <4>1. pc[r] = "start"
        BY <3>1, <3>3 DEF Arrow
      <4>2. Parse(r)
        BY <2>3, <4>1 DEF RunStep, ReturnEarly, Prepare, Acquire, Wait, TimeOut,
           TakeOut, PreflightDigests, ApplyExclusions, UpdateStack, Reconcile, Restore,
           MarkFailed, Finish, Report, AbortRestore, Abort, Interrupt, Kill, Waiting
      <4>3. parsed'[q] = file /\ file' = file
        BY <3>1, <4>2, ParsePlan DEF Parse, fileVars
      <4>4. AuditFile(q)' = file
        BY <4>3 DEF AuditFile
      <4> QED
        BY <4>3, <4>4 DEF ReadAgain
    <3> QED
      BY <3>2, <3>3
  <2> QED
    BY <2>1, <2>2, <2>3 DEF Next
<1> QED
  BY <1>1, <1>2 DEF OneReading

LEMMA SameLinesStep ==
    ASSUME TypeOK, PlanInv, KeepInv, [Next]_vars, NEW q \in Runs
    PROVE  SameLines(q)'
<1>0. SameLines(q) /\ ReadAgain(q) /\ audited \in [Runs -> Seq(Entries)]
      /\ pc \in [Runs -> Pcs]
  BY DEF KeepInv, TypeOK
<1>1. CASE UNCHANGED vars \/ \E f \in Appendable : AppendEntry(f)
  <2>1. UNCHANGED <<pc, planVars, audited>>
    BY <1>1 DEF vars, AppendEntry
  <2> QED
    BY <1>0, <2>1 DEF SameLines, planVars
<1>2. ASSUME NEW r \in Runs, RunStep(r) \/ Interrupt(r) \/ Kill(r) PROVE SameLines(q)'
  <2>1. CASE q # r
    BY <1>0, <1>2, <2>1, OthersKept DEF SameLines
  <2>2. CASE q = r
    <3>0. Arrow(pc[r], pc'[r])
      BY <1>2, PcStep
    <3>1. CASE pc'[r] \in {"start", "planned", "ended", "dead"}
      BY <2>2, <3>1 DEF SameLines
    <3>2. CASE Prepare(r) /\ pc'[r] \notin {"ended", "dead"}
      <4>1. audited'[r] = AuditFile(r) /\ pc[r] = "planned" /\ UNCHANGED planVars
        BY <1>0, <3>2 DEF Prepare, Goto
      <4> QED
        BY <1>0, <2>2, <4>1 DEF SameLines, ReadAgain, planVars
    <3>3. CASE ~Prepare(r) /\ pc'[r] \notin {"start", "planned", "ended", "dead"}
      <4>1. pc[r] \notin {"start", "ended", "dead"}
        BY <3>0, <3>3 DEF Arrow
      <4>2. pc[r] # "planned"
        <5>1. pc[r] = "planned" => ReturnEarly(r) \/ Kill(r)
          BY <1>2, <3>3 DEF RunStep, Parse, Acquire, Wait, TimeOut,
             TakeOut, PreflightDigests, ApplyExclusions, UpdateStack, Reconcile, Restore,
             MarkFailed, Finish, Report, AbortRestore, Abort, Interrupt, Waiting
        <5>2. ReturnEarly(r) \/ Kill(r) => pc'[r] \in {"ended", "dead"}
          BY <1>0 DEF ReturnEarly, Kill, Goto
        <5> QED
          BY <3>3, <5>1, <5>2
      <4>3. UNCHANGED planVars /\ UNCHANGED audited
        BY <1>2, <3>3, <4>1, StepEffects DEF Parse
      <4> QED
        BY <1>0, <2>2, <4>1, <4>2, <4>3 DEF SameLines, planVars
    <3> QED
      BY <3>1, <3>2, <3>3
  <2> QED
    BY <2>1, <2>2
<1> QED
  BY <1>1, <1>2 DEF Next

LEMMA KeepInit == Init => KeepInv
<1> SUFFICES ASSUME Init PROVE KeepInv
  OBVIOUS
<1>1. ASSUME NEW q \in Runs PROVE WorkOf(q) /\ ReadAgain(q) /\ SameLines(q)
  <2>1. /\ pc[q] = "start" /\ excludeOk[q] = {}
        /\ \A s \in Stacks : status[q][s] = "none"
    BY DEF Init
  <2> QED
    BY <2>1 DEF WorkOf, ReadAgain, SameLines
<1>2. ASSUME NEW e \in Entries PROVE Accounted(e)
  <2>1. Has(file, e) \/ e \in dropped
    BY DEF Init, Has, Range
  <2> QED
    BY <2>1 DEF Accounted
<1> QED
  BY <1>1, <1>2 DEF KeepInv

LEMMA KeepStep ==
    ASSUME OneReading, TypeOK, IInv, PlanInv, KeepInv, [Next]_vars
    PROVE  KeepInv'
<1>0. PlanInv'
  BY PlanStep
<1>1. ASSUME NEW q \in Runs PROVE WorkOf(q)'
  <2>0. WorkOf(q)
    BY DEF KeepInv
  <2>1. CASE UNCHANGED vars \/ \E f \in Appendable : AppendEntry(f)
    <3>1. UNCHANGED <<pc, workVars, inFlight>>
      BY <2>1 DEF vars, AppendEntry
    <3> QED
      BY <2>0, <3>1 DEF WorkOf, workVars
  <2> QED
    BY <2>0, <2>1, WorkOfStep DEF Next
<1> QED
  BY <1>0, <1>1, ReadAgainStep, SameLinesStep, AccountedStep DEF KeepInv

(* Every entry is accounted for (_prepare_mutation, _reconcile_pending_entries *)
(* and _restore_unfinished_pending), for any number of entries, stacks,        *)
(* appends, faults, kills and, if no line is excluded or discarded, of runs:   *)
(* it is listed, in flight in a living run that will put it back, done,        *)
(* dropped for a reason, or reported as lost.                                  *)
THEOREM NothingIsLost ==
    ASSUME OneReading
    PROVE  Spec => []NothingLost
<1>1. TypeOK /\ PlanInv /\ KeepInv => NothingLost
  <2> SUFFICES ASSUME TypeOK, PlanInv, KeepInv, NEW e \in Entries
               PROVE  \/ Count(file, e) > 0
                      \/ \E r \in Runs : inFlight[r] /\ e \in PutBack(r)
                      \/ Matching[e] # {} /\ Matching[e] \subseteq done[e]
                      \/ e \in dropped \cup lost
    BY DEF NothingLost
  <2>1. Accounted(e) /\ file \in Seq(Entries)
    BY DEF KeepInv, TypeOK
  <2>2. CASE Has(file, e)
    BY <2>1, <2>2, CountHas
  <2>3. ASSUME NEW q \in Runs, NEW i \in Nat, Keeps(q, i, e)
        PROVE  inFlight[q] /\ e \in PutBack(q)
    BY <2>3, BackLines DEF Keeps, PutBack
  <2> QED
    BY <2>1, <2>2, <2>3 DEF Accounted
<1>2. Init => TypeOK /\ IInv /\ PlanInv /\ KeepInv
  BY InitTypeOK, InitIInv, PlanInit, KeepInit
<1>3. TypeOK /\ IInv /\ PlanInv /\ KeepInv /\ [Next]_vars
        => (TypeOK /\ IInv /\ PlanInv /\ KeepInv)'
  BY TypeStep, IInvStep, PlanStep, KeepStep
<1> QED
  BY <1>1, <1>2, <1>3, PTL DEF Spec

-----------------------------------------------------------------------------
(* A removal only removes *)

(* A list of some lines has an entry at most as often as they do. *)
LEMMA LinesAtCount ==
    ASSUME NEW lines \in Seq(Entries), NEW J \in SUBSET DOMAIN lines, NEW e
    PROVE  Count(LinesAt(lines, J), e) <= Cardinality({i \in J : lines[i] = e})
<1> DEFINE S == {k \in DOMAIN LinesAt(lines, J) : LinesAt(lines, J)[k] = e}
           T == {i \in J : lines[i] = e}
           f == [k \in S |-> CHOOSE i \in J : Rank(J, i) + 1 = k]
<1>1. /\ DOMAIN LinesAt(lines, J) = 1..Cardinality(J)
      /\ \A i \in J : LinesAt(lines, J)[Rank(J, i) + 1] = lines[i]
      /\ \A k \in 1..Cardinality(J) : \E i \in J : Rank(J, i) + 1 = k
  BY LinesAtPlaces
<1>2. \A k \in S : f[k] \in J /\ Rank(J, f[k]) + 1 = k
  BY <1>1
<1> HIDE DEF f
<1>3. \A k \in S : f[k] \in T
  BY <1>1, <1>2
<1>4. f \in [S -> T]
  BY <1>3 DEF f
<1>5. \A k, m \in S : f[k] = f[m] => k = m
  BY <1>2
<1>6. f \in Injection(S, T)
  BY <1>4, <1>5 DEF Injection, IsInjective
<1>7. IsFiniteSet(T)
  BY LineNumbers
<1> QED
  BY <1>6, <1>7, FS_Injection DEF Count

LEMMA ConcatCount ==
    ASSUME NEW s \in Seq(Entries), NEW t \in Seq(Entries), NEW e
    PROVE  Count(s \o t, e) <= Count(s, e) + Count(t, e)
<1> DEFINE S == {i \in DOMAIN (s \o t) : (s \o t)[i] = e}
           A == {i \in DOMAIN s : s[i] = e}
           B == {i \in DOMAIN t : t[i] = e}
           C == {i \in S : i > Len(s)}
           f == [i \in C |-> i - Len(s)]
<1>1. /\ s \o t \in Seq(Entries)
      /\ Len(s \o t) = Len(s) + Len(t)
      /\ \A i \in 1..(Len(s) + Len(t)) :
             (s \o t)[i] = IF i <= Len(s) THEN s[i] ELSE t[i - Len(s)]
      /\ Len(s) \in Nat /\ Len(t) \in Nat
  BY ConcatProperties
<1>2. S \subseteq A \cup C
  <2> SUFFICES ASSUME NEW i \in S, ~(i > Len(s)) PROVE i \in A
    OBVIOUS
  <2>1. i \in 1..(Len(s) + Len(t)) /\ (s \o t)[i] = e
    BY <1>1
  <2> QED
    BY <1>1, <2>1
<1>3. \A i \in C : i - Len(s) \in B /\ i \in Nat
  <2> SUFFICES ASSUME NEW i \in C PROVE i - Len(s) \in B /\ i \in Nat
    OBVIOUS
  <2>1. i \in 1..(Len(s) + Len(t)) /\ (s \o t)[i] = e /\ i > Len(s)
    BY <1>1
  <2> QED
    BY <1>1, <2>1
<1>4. f \in Injection(C, B)
  <2> HIDE DEF C, B
  <2>1. f \in [C -> B]
    BY <1>3
  <2>2. \A i, j \in C : f[i] = f[j] => i = j
    BY <1>1, <1>3
  <2> QED
    BY <2>1, <2>2 DEF Injection, IsInjective
<1>5. IsFiniteSet(A) /\ IsFiniteSet(B)
  BY LineNumbers
<1>6. IsFiniteSet(C) /\ Cardinality(C) <= Cardinality(B)
  BY <1>4, <1>5, FS_Injection
<1> HIDE DEF A, B, C, S
<1>7. /\ IsFiniteSet(A \cup C) /\ IsFiniteSet(A \cap C)
      /\ Cardinality(A \cup C) = Cardinality(A) + Cardinality(C) - Cardinality(A \cap C)
  <2>1. A \cap C \in SUBSET A
    OBVIOUS
  <2> QED
    BY <1>5, <1>6, <2>1, FS_Union, FS_Subset
<1>8. IsFiniteSet(S) /\ Cardinality(S) <= Cardinality(A \cup C)
  BY <1>2, <1>7, FS_Subset
<1>9. /\ Cardinality(A) \in Nat /\ Cardinality(B) \in Nat /\ Cardinality(C) \in Nat
      /\ Cardinality(S) \in Nat /\ Cardinality(A \cup C) \in Nat
      /\ Cardinality(A \cap C) \in Nat
  BY <1>5, <1>6, <1>7, <1>8, FS_CardinalityType
<1>10. Cardinality(S) <= Cardinality(A) + Cardinality(B)
  BY <1>6, <1>7, <1>8, <1>9
<1> QED
  BY <1>10 DEF Count, S, A, B

(* Of the lines with the text e, as many count as appended in the meantime as  *)
(* the file has more of them than it had.                                      *)
LEMMA ExtraCount ==
    ASSUME NEW current \in Seq(Entries), NEW c \in Nat, NEW e, c <= Count(current, e)
    PROVE  Cardinality({i \in DOMAIN current :
                          /\ current[i] = e
                          /\ Earlier(current, DOMAIN current, i) + c < Count(current, e)})
             <= Count(current, e) - c
<1> DEFINE E == {i \in DOMAIN current : current[i] = e}
           n == Count(current, e)
           X == {i \in DOMAIN current :
                   /\ current[i] = e
                   /\ Earlier(current, DOMAIN current, i) + c < Count(current, e)}
           R == {Rank(E, i) : i \in X}
           N == 0 .. (n - c - 1)
<1>1. E \in SUBSET Nat /\ IsFiniteSet(E) /\ n \in Nat
  BY LineNumbers DEF Count
<1>2. ASSUME NEW i \in E PROVE Earlier(current, DOMAIN current, i) = Rank(E, i)
  <2>1. i \in Nat /\ current[i] = e /\ i \in DOMAIN current
    BY <1>1
  <2>2. {j \in DOMAIN current \cap 1..(i - 1) : current[j] = current[i]} = {j \in E : j < i}
    <3>1. \A j \in DOMAIN current : j \in 1..(i - 1) <=> j < i
      BY <2>1
    <3> QED
      BY <2>1, <3>1
  <2> QED
    BY <2>2 DEF Earlier, Rank
<1>3. X \in SUBSET E
  OBVIOUS
<1>4. R \subseteq N
  <2> SUFFICES ASSUME NEW i \in X PROVE Rank(E, i) \in N
    OBVIOUS
  <2>1. Rank(E, i) \in Nat
    BY <1>1, <1>3, RankRange
  <2>2. Rank(E, i) + c < n
    BY <1>2, <1>3
  <2> QED
    BY <1>1, <2>1, <2>2
<1>5. Cardinality(R) = Cardinality(X)
  <2> HIDE DEF E, X
  <2> QED
    BY <1>1, <1>3, RanksOf
<1>6. IsFiniteSet(N) /\ Cardinality(N) = n - c
  <2>1. 0 \in Int /\ n - c - 1 \in Int
    BY <1>1
  <2>2. /\ IsFiniteSet(N)
        /\ Cardinality(N) = IF 0 > n - c - 1 THEN 0 ELSE n - c - 1 - 0 + 1
    BY <2>1, FS_Interval
  <2> HIDE DEF n
  <2> QED
    BY <1>1, <2>2 DEF n
<1>7. Cardinality(R) <= Cardinality(N)
  <2> HIDE DEF R, N
  <2> QED
    BY <1>4, <1>6, FS_Subset
<1> HIDE DEF R, N, X
<1>8. Cardinality(X) <= n - c
  BY <1>5, <1>6, <1>7
<1> QED
  BY <1>8 DEF X

(* remove_lines_before_run: if the file still has the lines of the first read,  *)
(* no entry is there more often than before.                                    *)
LEMMA RemoveCount ==
    ASSUME NEW original \in Seq(Entries), NEW remove, NEW current \in Seq(Entries), NEW e,
           Count(original, e) <= Count(current, e)
    PROVE  Count(RemoveLines(original, remove, current), e) <= Count(current, e)
<1> DEFINE extra == {i \in DOMAIN current :
                       Earlier(current, DOMAIN current, i) + Count(original, current[i])
                           < Count(current, current[i])}
           stay == DOMAIN original \ remove
           kept == LinesAt(original, stay)
           added == LinesAt(current, extra)
           c == Count(original, e)
           n == Count(current, e)
<1>1. RemoveLines(original, remove, current) = kept \o added
  BY DEF RemoveLines
<1>2. /\ kept \in Seq(Entries) /\ added \in Seq(Entries)
      /\ extra \in SUBSET DOMAIN current /\ stay \in SUBSET DOMAIN original
  BY LinesAtPlaces
<1>3. c \in Nat /\ n \in Nat /\ Count(kept, e) \in Nat /\ Count(added, e) \in Nat
      /\ Count(kept \o added, e) \in Nat
  <2> HIDE DEF kept, added
  <2>1. kept \o added \in Seq(Entries)
    BY <1>2, HasConcat
  <2> QED
    BY <1>2, <2>1, CountHas
<1>4. Count(kept, e) <= c
  <2> DEFINE K == {i \in stay : original[i] = e}
             O == {i \in DOMAIN original : original[i] = e}
  <2>1. IsFiniteSet(O) /\ K \in SUBSET O
    BY LineNumbers
  <2>2. Cardinality(K) <= Cardinality(O) /\ IsFiniteSet(K)
    BY <2>1, FS_Subset
  <2>3. Count(kept, e) <= Cardinality(K)
    BY <1>2, LinesAtCount
  <2>4. Cardinality(K) \in Nat /\ Cardinality(O) \in Nat
    BY <2>1, <2>2, FS_CardinalityType
  <2>5. c = Cardinality(O)
    BY DEF Count
  <2> HIDE DEF K, O, c, kept
  <2> QED
    BY <1>3, <2>2, <2>3, <2>4, <2>5
<1>5. Count(added, e) <= n - c
  <2> DEFINE X == {i \in extra : current[i] = e}
             Y == {i \in DOMAIN current :
                     /\ current[i] = e
                     /\ Earlier(current, DOMAIN current, i) + c < Count(current, e)}
  <2>1. X = Y
    OBVIOUS
  <2>2. Count(added, e) <= Cardinality(X)
    BY <1>2, LinesAtCount
  <2>3. Cardinality(Y) <= n - c
    BY <1>3, ExtraCount
  <2>4. Cardinality(X) \in Nat
    <3>1. X \in SUBSET DOMAIN current
      OBVIOUS
    <3> QED
      BY <3>1, LineNumbers
  <2> HIDE DEF X, Y, added, n, c
  <2> QED
    BY <1>3, <2>1, <2>2, <2>3, <2>4
<1>6. Count(kept \o added, e) <= Count(kept, e) + Count(added, e)
  <2> HIDE DEF kept, added
  <2> QED
    BY <1>2, ConcatCount
<1> HIDE DEF kept, added, n, c
<1>7. Count(kept \o added, e) <= n
  BY <1>3, <1>4, <1>5, <1>6
<1> QED
  BY <1>1, <1>7 DEF n

(* The file begins with these lines. *)
Begins(lines) == \A i \in DOMAIN lines : i \in DOMAIN file /\ file[i] = lines[i]

(* Of a single run: until it removes lines, nobody takes any out. *)
BeginInv ==
    \A q \in Runs : /\ pc[q] = "planned" => Begins(parsed[q])
                    /\ pc[q] \in {"lockRemove", "remove"} => Begins(audited[q])

LEMMA BeginStep ==
    ASSUME \A q, r \in Runs : q = r, TypeOK, BeginInv, [Next]_vars
    PROVE  BeginInv'
<1>0. file \in Seq(Entries) /\ audited \in [Runs -> Seq(Entries)] /\ pc \in [Runs -> Pcs]
  BY DEF TypeOK
<1>1. CASE UNCHANGED vars
  BY <1>1 DEF vars, fileVars, planVars, BeginInv, Begins
<1>2. ASSUME NEW f \in Appendable, AppendEntry(f) PROVE BeginInv'
  <2>1. UNCHANGED <<pc, planVars, audited>> /\ file' = Append(file, f)
    BY <1>2 DEF AppendEntry
  <2>2. \A i \in DOMAIN file : i \in DOMAIN file' /\ file'[i] = file[i]
    BY <1>0, <2>1
  <2> QED
    BY <2>1, <2>2 DEF BeginInv, Begins, planVars
<1>3. ASSUME NEW r \in Runs, RunStep(r) \/ Interrupt(r) \/ Kill(r) PROVE BeginInv'
  <2> SUFFICES /\ pc'[r] = "planned" => Begins(parsed[r])'
               /\ pc'[r] \in {"lockRemove", "remove"} => Begins(audited[r])'
    BY DEF BeginInv
  <2>0. /\ Arrow(pc[r], pc'[r])
        /\ pc[r] = "planned" => Begins(parsed[r])
        /\ pc[r] \in {"lockRemove", "remove"} => Begins(audited[r])
    BY <1>3, PcStep DEF BeginInv
  <2>1. ASSUME pc'[r] = "planned" PROVE Begins(parsed[r])'
    <3>1. pc[r] = "start"
      BY <2>0, <2>1 DEF Arrow
    <3>2. Parse(r)
      BY <1>3, <3>1 DEF RunStep, ReturnEarly, Prepare, Acquire, Wait, TimeOut,
         TakeOut, PreflightDigests, ApplyExclusions, UpdateStack, Reconcile, Restore,
         MarkFailed, Finish, Report, AbortRestore, Abort, Interrupt, Kill, Waiting
    <3>3. parsed'[r] = file /\ file' = file
      BY <3>2, ParsePlan DEF Parse, fileVars
    <3> QED
      BY <3>3 DEF Begins
  <2>2. ASSUME pc'[r] \in {"lockRemove", "remove"} PROVE Begins(audited[r])'
    <3>1. pc[r] \in {"planned", "lockRemove"}
      BY <2>0, <2>2 DEF Arrow
    <3>2. file' = file
      BY <1>3, <3>1, StepEffects DEF TakeOut, Restore, AbortRestore
    <3>3. CASE Prepare(r)
      <4>1. audited'[r] = AuditFile(r) /\ pc[r] = "planned"
        BY <1>0, <2>2, <3>3 DEF Prepare, Goto
      <4> QED
        BY <2>0, <3>2, <4>1 DEF AuditFile, Begins
    <3>4. CASE ~Prepare(r)
      <4>1. audited' = audited
        BY <1>3, <3>4, StepEffects
      <4>2. pc[r] # "planned"
        <5>1. pc[r] = "planned" => ReturnEarly(r) \/ Kill(r)
          BY <1>3, <3>4 DEF RunStep, Parse, Acquire, Wait, TimeOut,
             TakeOut, PreflightDigests, ApplyExclusions, UpdateStack, Reconcile, Restore,
             MarkFailed, Finish, Report, AbortRestore, Abort, Interrupt, Waiting
        <5>2. ReturnEarly(r) \/ Kill(r) => pc'[r] \in {"ended", "dead"}
          BY <1>0 DEF ReturnEarly, Kill, Goto
        <5> QED
          BY <2>2, <5>1, <5>2
      <4> QED
        BY <2>0, <3>1, <3>2, <4>1, <4>2 DEF Begins
    <3> QED
      BY <3>3, <3>4
  <2> QED
    BY <2>1, <2>2
<1> QED
  BY <1>1, <1>2, <1>3 DEF Next

(* A removal takes lines out and adds none (remove_lines_before_run), whatever  *)
(* is appended while a single run works: the lines that it writes back are     *)
(* those it has read, and what it counts as appended has been appended.        *)
THEOREM RemovalRemoves ==
    ASSUME \A q, r \in Runs : q = r
    PROVE  Spec => RemovalOnlyRemoves
<1>1. ASSUME TypeOK, IInv, BeginInv, [Next]_vars, NEW r \in Runs,
             pc[r] = "remove", pc'[r] = "digest", NEW e \in Entries
      PROVE  Count(file', e) <= Count(file, e)
  <2>0. file \in Seq(Entries) /\ audited[r] \in Seq(Entries) /\ pc \in [Runs -> Pcs]
        /\ buf[r] = file /\ Begins(audited[r])
    BY <1>1 DEF TypeOK, IInv, LockInv, Rewriting, BeginInv
  <2>1. ~UNCHANGED vars /\ \A f \in Appendable : ~AppendEntry(f)
    BY <1>1 DEF vars, AppendEntry
  <2>2. PICK q \in Runs : RunStep(q) \/ Interrupt(q) \/ Kill(q)
    BY <1>1, <2>1 DEF Next
  <2>3. q = r
    OBVIOUS
  <2>4. TakeOut(r)
    <3>1. TakeOut(r) \/ Kill(r)
      BY <1>1, <2>2, <2>3 DEF RunStep, Parse, ReturnEarly, Prepare, Acquire, Wait,
         TimeOut, PreflightDigests, ApplyExclusions, UpdateStack, Reconcile, Restore,
         MarkFailed, Finish, Report, AbortRestore, Abort, Interrupt, Waiting
    <3> QED
      BY <1>1, <2>0, <3>1 DEF Kill, Goto
  <2>5. file' = RemoveLines(audited[r], InFlightLines(r), file)
    BY <1>1, <2>0, <2>4 DEF TakeOut, Goto, AbortPc
  <2>6. Count(audited[r], e) <= Count(file, e)
    <3> DEFINE A == {i \in DOMAIN audited[r] : audited[r][i] = e}
               B == {i \in DOMAIN file : file[i] = e}
    <3>1. A \in SUBSET B
      BY <2>0 DEF Begins
    <3>2. IsFiniteSet(B)
      BY <2>0, LineNumbers
    <3> QED
      BY <3>1, <3>2, FS_Subset DEF Count
  <2> QED
    BY <2>0, <2>5, <2>6, RemoveCount
<1>2. TypeOK /\ IInv /\ BeginInv /\ [Next]_vars =>
        [\A r \in Runs : pc[r] = "remove" /\ pc'[r] = "digest" =>
           \A e \in Entries : Count(file', e) <= Count(file, e)]_vars
  BY <1>1
<1>3. Init => TypeOK /\ IInv /\ BeginInv
  BY InitTypeOK, InitIInv DEF Init, BeginInv
<1>4. TypeOK /\ IInv /\ BeginInv /\ [Next]_vars => (TypeOK /\ IInv /\ BeginInv)'
  BY TypeStep, IInvStep, BeginStep
<1> QED
  BY <1>2, <1>3, <1>4, PTL DEF Spec, RemovalOnlyRemoves

-----------------------------------------------------------------------------
(****************************************************************************)
(* PendingObservations                                                      *)
(****************************************************************************)

(* What was seen, where it came from, and what is shown of it. *)
ShownInv ==
    /\ \A o \in po_shown.updates : o.on = o.image
    /\ \A c \in po_shown.degraded :
           (\E o \in po_shown.updates : o.status = "retained") \/ po_shown.unresolved # {}
StoreInv ==
    /\ PO!ObservationsStayHome
    /\ po_db # None /\ po_db.observations # {} => po_origin.db \in PO!Config
ObservedInv == PO!TypeOK /\ ShownInv /\ StoreInv

-----------------------------------------------------------------------------
(* An old result is about the image of the payload. *)
LEMMA PreviousIs ==
  ASSUME NEW P, NEW c, NEW item, NEW p \in PO!Previous(P, c, item)
  PROVE  p \in P /\ p.c = c /\ p.image = item.image
BY DEF PO!Previous

LEMMA SeenKeeps ==
  ASSUME NEW P \in SUBSET PO!Observation, NEW payload \in PO!Payload, NEW o \in PO!KeptFrom(P, payload)
  PROVE  o \in PO!Observation /\ o.status = "retained" /\ o.on = o.image
<1> DEFINE U == UNION {PO!Previous(P, c, payload[c])
                           : c \in {c \in po_Containers : payload[c].check # "ok"}}
<1>0. PICK p \in U : o = [p EXCEPT !.status = "retained", !.on = payload[p.c].image]
  BY DEF PO!KeptFrom
<1>1. PICK c \in po_Containers : p \in PO!Previous(P, c, payload[c])
  OBVIOUS
<1>2. p \in P /\ p.c = c /\ p.image = payload[c].image
  BY <1>1, PreviousIs
<1>3. p \in PO!Observation /\ payload[c].image \in {0, 1}
  BY <1>2 DEF PO!Payload, PO!Item
<1> QED
  BY <1>0, <1>2, <1>3 DEF PO!Observation

LEMMA Sees ==
  ASSUME NEW payload \in PO!Payload, NEW c \in po_Containers
  PROVE  /\ PO!Observed(c, payload[c]) \in PO!Observation
         /\ PO!Observed(c, payload[c]).on = PO!Observed(c, payload[c]).image
         /\ PO!Observed(c, payload[c]).status = "fresh"
BY DEF PO!Observed, PO!Observation, PO!Payload, PO!Item

LEMMA Reconciles ==
  ASSUME NEW P \in SUBSET PO!Observation, NEW payload \in PO!Payload
  PROVE  LET r == PO!Reconcile(P, payload) IN
         /\ r.updates \subseteq PO!Observation /\ r.pending \subseteq PO!Observation
         /\ \A o \in r.updates : o.on = o.image
         /\ \A c \in r.degraded :
                (\E o \in r.updates : o.status = "retained") \/ r.unresolved # {}
<1> DEFINE kept == PO!KeptFrom(P, payload)
           healthy == {PO!Observed(c, payload[c])
                        : c \in {c \in po_Containers : payload[c].check = "ok" /\ payload[c].image = 0}}
           degraded == {c \in po_Containers : payload[c].check = "degraded"}
           unresolved == {<<c, payload[c].image>> : c \in degraded \ {p.c : p \in kept}}
<1>1. /\ PO!Reconcile(P, payload).updates = healthy \cup kept
      /\ PO!Reconcile(P, payload).degraded = degraded
      /\ PO!Reconcile(P, payload).unresolved = unresolved
      /\ PO!Reconcile(P, payload).pending = healthy \cup kept
  BY DEF PO!Reconcile, PO!Remembered
<1>2. \A o \in healthy : o \in PO!Observation /\ o.on = o.image
  BY Sees
<1>3. \A o \in kept : o \in PO!Observation /\ o.status = "retained" /\ o.on = o.image
  BY SeenKeeps
<1>4. ASSUME NEW c \in degraded
      PROVE  (\E o \in kept : o.status = "retained") \/ unresolved # {}
  <2>1. CASE c \in {p.c : p \in kept}
    <3>1. kept # {}
      BY <2>1
    <3> HIDE DEF kept
    <3> QED
      BY <3>1, <1>3
  <2>2. CASE c \notin {p.c : p \in kept}
    BY <2>2
  <2> QED
    BY <2>1, <2>2
<1> HIDE DEF kept, healthy, degraded, unresolved
<1> QED
  BY <1>1, <1>2, <1>3, <1>4

LEMMA ObservedInit ==
  ASSUME PO!Init
  PROVE  ObservedInv
BY DEF PO!Init, ObservedInv, PO!TypeOK, ShownInv, StoreInv, PO!ObservationsStayHome, PO!NothingShown

LEMMA ObservedStep ==
  ASSUME ObservedInv, [PO!Next]_(PO!vars)
  PROVE  ObservedInv'
<1>1. PO!TypeOK /\ ShownInv /\ StoreInv
  BY DEF ObservedInv
<1>2. CASE PO!Refresh
  <2>1. PICK payload \in PO!Payload :
           /\ po_pending' = PO!Reconcile(po_pending, payload).pending
           /\ po_shown' = [updates |-> PO!Reconcile(po_pending, payload).updates,
                           unresolved |-> PO!Reconcile(po_pending, payload).unresolved,
                           degraded |-> PO!Reconcile(po_pending, payload).degraded]
    BY <1>2 DEF PO!Refresh
  <2>2. /\ po_origin' = [po_origin EXCEPT !.pending = po_config] /\ UNCHANGED <<po_config, po_db>>
    BY <1>2 DEF PO!Refresh
  <2>3. PICK P \in SUBSET PO!Observation : P = po_pending
    BY <1>1 DEF PO!TypeOK
  <2>4. PICK r : r = PO!Reconcile(P, payload)
    OBVIOUS
  <2>5. /\ r.updates \subseteq PO!Observation /\ r.pending \subseteq PO!Observation
        /\ \A o \in r.updates : o.on = o.image
        /\ \A c \in r.degraded :
               (\E o \in r.updates : o.status = "retained") \/ r.unresolved # {}
    BY <2>4, Reconciles
  <2>6. /\ po_shown'.updates = r.updates /\ po_shown'.degraded = r.degraded
        /\ po_shown'.unresolved = r.unresolved /\ po_pending' = r.pending
    BY <2>1, <2>3, <2>4
  <2>7. ShownInv'
    BY <2>5, <2>6 DEF ShownInv
  <2>8. po_origin' \in [pending : PO!Config, db : PO!Config \cup {None}]
        /\ po_origin'.pending = po_config /\ po_origin'.db = po_origin.db
    BY <1>1, <2>2 DEF PO!TypeOK
  <2>9. PO!TypeOK'
    BY <1>1, <2>2, <2>5, <2>6, <2>8 DEF PO!TypeOK
  <2>10. StoreInv'
    BY <1>1, <2>2, <2>8 DEF StoreInv, PO!ObservationsStayHome
  <2> QED
    BY <2>7, <2>9, <2>10 DEF ObservedInv
<1>3. CASE PO!RefreshFails
  BY <1>1, <1>3 DEF PO!RefreshFails, ObservedInv, PO!TypeOK, ShownInv, StoreInv,
     PO!ObservationsStayHome, PO!NothingShown
<1>4. CASE PO!Checkpoint
  <2>1. /\ ~po_config.auth /\ UNCHANGED <<po_config, po_pending, po_shown>>
        /\ po_db' = [source |-> po_config.source,
                     observations |-> {[o EXCEPT !.status = "fresh", !.on = o.image] : o \in po_pending}]
        /\ po_origin' = [po_origin EXCEPT !.db = po_origin.pending]
    BY <1>4 DEF PO!Checkpoint, PO!PersistenceEnabled
  <2>2. {[o EXCEPT !.status = "fresh", !.on = o.image] : o \in po_pending} \subseteq PO!Observation
    BY <1>1 DEF PO!TypeOK, PO!Observation
  <2>3. po_origin' \in [pending : PO!Config, db : PO!Config \cup {None}]
        /\ po_origin'.pending = po_origin.pending /\ po_origin'.db = po_origin.pending
    BY <1>1, <2>1 DEF PO!TypeOK
  <2>4. po_db' \in [source : po_Sources, observations : SUBSET PO!Observation]
    BY <1>1, <2>1, <2>2 DEF PO!TypeOK, PO!Config
  <2>5. PO!TypeOK'
    BY <1>1, <2>1, <2>3, <2>4 DEF PO!TypeOK
  <2>6. po_db'.source = po_config.source /\ (po_db'.observations # {} => po_pending # {})
    BY <2>1
  <2>7. StoreInv'
    BY <1>1, <2>1, <2>3, <2>6 DEF PO!TypeOK, StoreInv, PO!ObservationsStayHome
  <2> QED
    BY <1>1, <2>1, <2>5, <2>7 DEF ObservedInv, ShownInv
<1>5. CASE PO!Restart
  <2>1. PICK cf \in PO!Config :
           /\ po_config' = cf
           /\ \/ cf.auth /\ UNCHANGED po_db
              \/ cf.auth /\ po_db' = [source |-> cf.source, observations |-> {}]
              \/ ~cf.auth /\ UNCHANGED po_db
           /\ po_pending' = IF cf.auth THEN {} ELSE PO!Load(cf)
           /\ po_origin' = [pending |-> IF cf.auth \/ PO!Load(cf) = {} THEN cf ELSE po_origin.db,
                            db |-> po_origin.db]
    BY <1>5 DEF PO!Restart
  <2>2. po_shown' = PO!NothingShown
    BY <1>5 DEF PO!Restart
  <2>3. ShownInv' /\ po_shown'.updates \subseteq PO!Observation
    BY <2>2 DEF ShownInv, PO!NothingShown
  <2>4. PO!Load(cf) \subseteq PO!Observation
    BY <1>1 DEF PO!TypeOK, PO!Load
  <2>5. po_origin.db \in PO!Config \cup {None} /\ cf.auth \in BOOLEAN /\ cf.source \in po_Sources
    BY <1>1, <2>1 DEF PO!TypeOK, PO!Config
  <2>6. ASSUME ~cf.auth, PO!Load(cf) # {}
        PROVE  po_origin.db = cf
    <3>1. po_db # None /\ po_db.source = cf.source /\ po_db.observations # {}
      BY <2>6 DEF PO!Load
    <3>2. ~po_origin.db.auth /\ po_origin.db.source = cf.source
      BY <1>1, <3>1 DEF StoreInv, PO!ObservationsStayHome
    <3>3. po_origin.db \in PO!Config
      BY <1>1, <3>1 DEF StoreInv
    <3> QED
      BY <2>5, <2>6, <3>2, <3>3 DEF PO!Config
  <2>7. po_origin'.pending = cf /\ po_origin'.db = po_origin.db
    BY <2>1, <2>6
  <2>8. po_origin' \in [pending : PO!Config, db : PO!Config \cup {None}]
    BY <2>1, <2>5, <2>7
  <2>9. po_db' \in [source : po_Sources, observations : SUBSET PO!Observation] \cup {None}
    BY <1>1, <2>1, <2>5 DEF PO!TypeOK
  <2>10. PO!TypeOK'
    BY <2>1, <2>3, <2>4, <2>8, <2>9 DEF PO!TypeOK
  <2>11. StoreInv'
    BY <1>1, <2>1, <2>7 DEF StoreInv, PO!ObservationsStayHome
  <2> QED
    BY <2>3, <2>10, <2>11 DEF ObservedInv
<1>6. CASE UNCHANGED PO!vars
  BY <1>1, <1>6 DEF PO!vars, ObservedInv, PO!TypeOK, ShownInv, StoreInv, PO!ObservationsStayHome
<1> QED
  BY <1>2, <1>3, <1>4, <1>5, <1>6 DEF PO!Next

Observing == PO!FreshLineIsFresh /\ PO!RetainedIsAboutThisImage /\ PO!ObservationsStayHome

(* A line is fresh only if every container of its repository was checked      *)
(* well, an old result is about the very image that runs, and observations    *)
(* stay with the API that they came from, also across restarts, for any       *)
(* containers and APIs (web_wud_cache.py, web_wud_observations.py).           *)
THEOREM ObservationsAreTrue == PO!Spec => [](PO!TypeOK /\ Observing)
<1>1. PO!Init => ObservedInv
  BY ObservedInit
<1>2. ObservedInv /\ [PO!Next]_(PO!vars) => ObservedInv'
  BY ObservedStep
<1>3. ASSUME ObservedInv PROVE PO!FreshLineIsFresh
  <2> SUFFICES ASSUME po_shown.updates # {}, PO!LineStatus = "fresh"
               PROVE  po_shown.degraded = {} /\ \A o \in po_shown.updates : o.status = "fresh"
    BY DEF PO!FreshLineIsFresh
  <2>1. "retained" \notin PO!Related
    BY DEF PO!LineStatus
  <2>2. po_shown.unresolved = {} /\ \A o \in po_shown.updates : o.status # "retained"
    BY <2>1 DEF PO!Related
  <2>3. po_shown.degraded = {}
    BY <1>3, <2>2 DEF ObservedInv, ShownInv
  <2>4. \A o \in po_shown.updates : o.status = "fresh"
    BY <1>3, <2>2 DEF ObservedInv, PO!TypeOK, PO!Observation
  <2> QED
    BY <2>3, <2>4
<1>4. ObservedInv => PO!TypeOK /\ Observing
  BY <1>3 DEF ObservedInv, ShownInv, StoreInv, PO!RetainedIsAboutThisImage, Observing
<1> QED
  BY <1>1, <1>2, <1>4, PTL DEF PO!Spec

-----------------------------------------------------------------------------
(****************************************************************************)
(* PlanApply                                                                *)
(****************************************************************************)

(* The types of the variables.  A run may write an image that Images lacks,   *)
(* when nothing reads it any more.                                            *)
Listings == [text : [pa_Lines -> PlanEntries], fresh : BOOLEAN, detail : {0, 1}]
Settings == [pin : BOOLEAN, ignored : SUBSET {PA!Stack(s) : s \in pa_Slots}]
AllTags == {"v2a", "v2b", "v3a"}
Reviewing == {"reviewed", "asked", "fetched"}
Accepted == {"checked", "queued", "running"}

ApplyTypes ==
    /\ pa_list \in Listings /\ pa_source \in Listings /\ pa_plan.list \in Listings
    /\ DOMAIN pa_compose = pa_Slots /\ (pa_phase # "done" => pa_compose \in [pa_Slots -> pa_Images])
    /\ pa_cfg \in Settings /\ pa_plan.cfg \in Settings /\ pa_jobCfg \in Settings
    /\ pa_reg \subseteq AllTags
    /\ pa_gate \in {"free", "mine", "other"} /\ pa_phase \in PA!Phases
    /\ pa_newer \in 0 .. pa_PlanLimit /\ pa_outside \in 0 .. pa_MaxOutside
    /\ PA!SelectedLines(pa_req) \subseteq pa_Lines
    /\ pa_applied \subseteq [slot : pa_Slots, line : pa_Lines, image : pa_Images \ {"off"},
                             to : {"", "dig"} \cup AllTags, pin : BOOLEAN]

(* The reviewed plan was built from some Compose files f and some registry    *)
(* rg; what is not among the changes is still as it was then.                 *)
BuiltFrom(f, rg) == pa_plan = PA!BuildPlan(pa_req, pa_plan.list, f, pa_plan.cfg, rg)
AsReviewed(f, rg) ==
    /\ "compose" \notin pa_changes => pa_compose = f
    /\ "settings" \notin pa_changes => pa_cfg = pa_plan.cfg
    /\ "registry" \notin pa_changes => pa_reg = rg
    /\ "list" \notin pa_changes => pa_list.text = pa_plan.list.text /\ pa_list.fresh = pa_plan.list.fresh
    /\ "list" \notin pa_changes /\ pa_phase = "fetched" =>
           pa_source.text = pa_plan.list.text /\ pa_source.fresh = pa_plan.list.fresh
ReviewInv ==
    pa_phase # "idle" =>
        /\ ~pa_plan.error
        /\ \E f, rg : BuiltFrom(f, rg) /\ (pa_phase \in Reviewing => AsReviewed(f, rg))

(* A plan that passed the check would be built again from what there is now,  *)
(* as long as nothing changed after the check.                                *)
Agrees(p) ==
    ~p.error /\ p.updates = pa_plan.updates /\ p.ready = TRUE /\ p.cfg.pin = pa_plan.cfg.pin
CheckedInv ==
    /\ pa_phase \in Accepted => pa_source.text = pa_plan.list.text /\ pa_plan.ready = TRUE
    /\ pa_phase \in Accepted /\ pa_late = {} => Agrees(PA!BuildPlan(pa_req, pa_source, pa_compose, pa_cfg, pa_reg))
    /\ pa_phase = "running" /\ pa_late = {} => pa_jobCfg = pa_cfg

(* What was applied, or why the plan was refused.                             *)
DoneInv ==
    /\ pa_phase = "idle" => pa_changes = {}
    /\ pa_phase # "done" => pa_applied = {}
    /\ PA!AppliedAsReviewed /\ PA!ScopedAsReviewed /\ PA!OneTagEach /\ PA!ReasonIsTrue

ApplyInv == ApplyTypes /\ ReviewInv /\ CheckedInv /\ DoneInv

-----------------------------------------------------------------------------
(* BuildPlan in parts.                                                        *)
AllMatches(r, text, f, c) ==
    LET o == PA!MatchTargets(text, PA!SelectedLines(r), f, c, r.opt)
    IN  o \cup PA!Recovered(text, PA!SelectedLines(r), f, c, o)
PlanMatches(r, text, f, c) == PA!FilterMatches(r, text, f, AllMatches(r, text, f, c))
PlanVerified(r, text, f, c, rg) == PA!Verified(text, PlanMatches(r, text, f, c), f, rg)
PlanUpdate(r, text, f, c, rg, m) ==
    [slot |-> m[2], line |-> m[1], image |-> f[m[2]],
     to |-> PA!PlannedTag(text, f, r, m, PlanVerified(r, text, f, c, rg)), pin |-> c.pin]
PlanUpdates(r, text, f, c, rg) ==
    {PlanUpdate(r, text, f, c, rg, m) : m \in PlanMatches(r, text, f, c)}

PlanError(r, t, f, c, rg) ==
    PA!InputError(r, t, f, AllMatches(r, t, f, c), PlanMatches(r, t, f, c), PlanVerified(r, t, f, c, rg))
PlanStream(r, t, f, c, rg) ==
    {u \in PlanUpdates(r, t, f, c, rg) : /\ u.line \in PlanVerified(r, t, f, c, rg)
                                         /\ PA!StreamChange(t[u.line], u.image)}
PlanReady(r, t, f, c, rg) ==
    /\ \A line \in PA!SelectedLines(r) : \E u \in PlanUpdates(r, t, f, c, rg) : u.line = line
    /\ \A line \in PlanVerified(r, t, f, c, rg) : r.opt.dec[line] # ""
    /\ ~PA!Conflicting(PlanUpdates(r, t, f, c, rg))
    /\ \A u \in PlanUpdates(r, t, f, c, rg) : u.to \in rg \cup {"", "dig"}
Planned(p, l, r, t, f, c, rg) ==
    /\ p.error = PlanError(r, t, f, c, rg) /\ p.updates = PlanUpdates(r, t, f, c, rg)
    /\ p.stream = PlanStream(r, t, f, c, rg) /\ p.ready = PlanReady(r, t, f, c, rg)
    /\ p.cfg = c /\ p.list = l

LEMMA PlanIs ==
  ASSUME NEW r, NEW l, NEW f, NEW c, NEW rg, NEW t, l.text = t
  PROVE  Planned(PA!BuildPlan(r, l, f, c, rg), l, r, t, f, c, rg)
<1>1. PICK p : p = PA!BuildPlan(r, l, f, c, rg)
  OBVIOUS
<1> USE <1>1 DEF PA!BuildPlan, AllMatches, PlanMatches, PlanVerified, PlanUpdates, PlanUpdate
<1>2. p.error = PlanError(r, t, f, c, rg)
  BY DEF PlanError
<1>3. p.updates = PlanUpdates(r, t, f, c, rg)
  OBVIOUS
<1>4. p.stream = PlanStream(r, t, f, c, rg)
  BY DEF PlanStream
<1>5. p.ready = PlanReady(r, t, f, c, rg)
  <2>1. p.ready = PlanReady(r, l.text, f, c, rg)
    BY Zenon DEF PlanReady
  <2> QED
    BY ONLY <2>1, l.text = t
<1>6. p.cfg = c /\ p.list = l
  OBVIOUS
<1> QED
  BY ONLY <1>1, <1>2, <1>3, <1>4, <1>5, <1>6 DEF Planned

(* Of the list only its text decides what a plan does.                        *)
LEMMA SamePlan ==
  ASSUME NEW r, NEW l, NEW k, NEW f, NEW c, NEW rg, l.text = k.text
  PROVE  LET p == PA!BuildPlan(r, l, f, c, rg)
             q == PA!BuildPlan(r, k, f, c, rg)
         IN  p.error = q.error /\ p.updates = q.updates /\ p.ready = q.ready
<1>1. PICK t : t = l.text /\ t = k.text
  OBVIOUS
<1>2. PICK p, q : p = PA!BuildPlan(r, l, f, c, rg) /\ q = PA!BuildPlan(r, k, f, c, rg)
  OBVIOUS
<1>3. p.error = q.error
  BY <1>1, <1>2, PlanIs DEF Planned
<1>4. p.updates = q.updates
  BY <1>1, <1>2, PlanIs DEF Planned
<1>5. p.ready = q.ready
  BY <1>1, <1>2, PlanIs DEF Planned
<1> QED
  BY <1>2, <1>3, <1>4, <1>5

(* Matches are pairs of a selected line and a discovered service.             *)
LEMMA MatchesAre ==
  ASSUME NEW r, NEW text, NEW f, NEW c
  PROVE  /\ AllMatches(r, text, f, c) \subseteq PA!SelectedLines(r) \X PA!Discovered(f, c)
         /\ PlanMatches(r, text, f, c) \subseteq AllMatches(r, text, f, c)
<1>1. PA!MatchTargets(text, PA!SelectedLines(r), f, c, r.opt) \subseteq PA!SelectedLines(r) \X PA!Discovered(f, c)
  BY DEF PA!MatchTargets
<1>2. \A M : PA!Recovered(text, PA!SelectedLines(r), f, c, M) \subseteq PA!SelectedLines(r) \X PA!Discovered(f, c)
  BY DEF PA!Recovered
<1>3. \A M : PA!FilterMatches(r, text, f, M) \subseteq M
  BY DEF PA!FilterMatches
<1> QED
  BY <1>1, <1>2, <1>3 DEF AllMatches, PlanMatches

LEMMA RunMatchesAre ==
  PA!RunMatches \subseteq PA!SelectedLines(pa_req) \X PA!Discovered(pa_compose, pa_jobCfg)
<1>1. PA!MatchTargets(pa_source.text, PA!SelectedLines(pa_req), pa_compose, pa_jobCfg, pa_req.opt)
         \subseteq PA!SelectedLines(pa_req) \X PA!Discovered(pa_compose, pa_jobCfg)
  BY DEF PA!MatchTargets
<1>2. \A M : PA!UnpinCandidates(PA!SelectedLines(pa_req), M)
         \subseteq PA!SelectedLines(pa_req) \X PA!Discovered(pa_compose, pa_jobCfg)
  BY DEF PA!UnpinCandidates
<1> QED
  BY <1>1, <1>2 DEF PA!RunMatches

-----------------------------------------------------------------------------
(* For a service that still runs the image of the plan the run decides on the *)
(* tag of the plan: over- and stream decisions exclude each other.            *)
LEMMA TagsAgree ==
  ASSUME PA!SelectedLines(pa_req) \subseteq pa_Lines, ~pa_plan.error, NEW f, NEW rg, BuiltFrom(f, rg),
         pa_source.text = pa_plan.list.text, NEW m \in PlanMatches(pa_req, pa_source.text, f, pa_plan.cfg),
         pa_compose[m[2]] = f[m[2]]
  PROVE  PA!RunTag(m) = PA!PlannedTag(pa_source.text, f, pa_req, m,
                                      PlanVerified(pa_req, pa_source.text, f, pa_plan.cfg, rg))
<1>1. PICK r, t, c, l : r = pa_req /\ t = pa_source.text /\ c = pa_plan.cfg /\ l = pa_plan.list
  OBVIOUS
<1>2. l.text = t /\ pa_plan = PA!BuildPlan(r, l, f, c, rg)
  BY <1>1 DEF BuiltFrom
<1> DEFINE V == PlanVerified(r, t, f, c, rg)
           U == PlanUpdates(r, t, f, c, rg)
           A == AllMatches(r, t, f, c)
           M == PlanMatches(r, t, f, c)
           s == {u \in pa_plan.stream : u.line = m[1] /\ u.slot = m[2] /\ u.image = pa_compose[m[2]]}
<1>3. /\ ~PA!InputError(r, t, f, A, M, V)
      /\ pa_plan.stream = {u \in U : u.line \in V /\ PA!StreamChange(t[u.line], u.image)}
  BY <1>2, PlanIs DEF Planned, PlanError, PlanStream
<1>4. m \in M
  BY <1>1
<1>5. m[1] \in pa_Lines
  <2>1. M \subseteq PA!SelectedLines(r) \X PA!Discovered(f, c)
    BY MatchesAre
  <2> HIDE DEF M
  <2> QED
    BY <1>1, <1>4, <2>1
<1> HIDE DEF A, M
<1>6. m[1] \in V => r.opt.over[m[1]] = ""
  BY <1>3, <1>5 DEF PA!InputError
<1>7. \A u \in U : u.line = m[1] /\ u.slot = m[2] => u.to = PA!PlannedTag(t, f, r, m, V)
  <2>1. SUFFICES ASSUME NEW n, n[1] = m[1], n[2] = m[2]
                 PROVE  PA!PlannedTag(t, f, r, n, V) = PA!PlannedTag(t, f, r, m, V)
    BY DEF PlanUpdates, PlanUpdate
  <2> HIDE DEF V
  <2> QED
    BY <2>1 DEF PA!PlannedTag
<1>8. PA!RunTag(m) = CASE r.opt.over[m[1]] # "" -> r.opt.over[m[1]]
                       [] r.opt.over[m[1]] = "" /\ s # {} -> (CHOOSE u \in s : TRUE).to
                       [] OTHER -> t[m[1]].to
  BY <1>1 DEF PA!RunTag
<1>9. PA!PlannedTag(t, f, r, m, V) =
         CASE r.opt.over[m[1]] # "" -> r.opt.over[m[1]]
           [] m[1] \in V /\ r.opt.dec[m[1]] = "preserve" /\ PA!StreamChange(t[m[1]], f[m[2]])
                 -> PA!SameStream(t[m[1]].to)
           [] OTHER -> t[m[1]].to
  BY DEF PA!PlannedTag
<1>10. CASE m[1] \in V /\ PA!StreamChange(t[m[1]], f[m[2]])
  <2>1. PlanUpdate(r, t, f, c, rg, m) \in U
    BY <1>4 DEF PlanUpdates, M
  <2>2. PlanUpdate(r, t, f, c, rg, m) \in s
    BY <2>1, <1>3, <1>10 DEF PlanUpdate
  <2>3. \A u \in s : u.to = PA!PlannedTag(t, f, r, m, V)
    BY <1>3, <1>7
  <2> HIDE DEF s
  <2>4. (CHOOSE u \in s : TRUE).to = PA!PlannedTag(t, f, r, m, V)
    BY <2>2, <2>3
  <2>5. PA!RunTag(m) = PA!PlannedTag(t, f, r, m, V)
    BY <1>6, <1>8, <1>10, <2>2, <2>4
  <2> QED
    BY <1>1, <2>5
<1>11. CASE ~(m[1] \in V /\ PA!StreamChange(t[m[1]], f[m[2]]))
  <2>1. s = {}
    BY <1>3, <1>11
  <2> HIDE DEF s, V
  <2>2. PA!RunTag(m) = PA!PlannedTag(t, f, r, m, V)
    <3>1. CASE r.opt.over[m[1]] # ""
      <4>1. PA!RunTag(m) = r.opt.over[m[1]]
        BY <1>8, <3>1
      <4>2. PA!PlannedTag(t, f, r, m, V) = r.opt.over[m[1]]
        BY <1>9, <1>11, <3>1
      <4> QED
        BY <4>1, <4>2
    <3>2. CASE r.opt.over[m[1]] = ""
      BY <1>8, <1>9, <1>11, <2>1, <3>2
    <3> QED
      BY <3>1, <3>2
  <2> QED
    BY <1>1, <2>2 DEF V
<1> QED
  BY <1>10, <1>11

-----------------------------------------------------------------------------
(* A selection names its services and their images: if both the plan and the  *)
(* run accept it, they have the same matches for it.                          *)
Group(f, M, line, stack) ==
    {<<m[2], f[m[2]]>> : m \in {n \in M : n[1] = line /\ PA!Stack(n[2]) = stack}}

LEMMA IdIs ==
  ASSUME NEW t, NEW f, NEW M, NEW g, NEW N, NEW line, NEW stack, NEW n, NEW st,
         PA!SelectionId(t, f, M, line, stack) = PA!SelectionId(t, g, N, n, st)
  PROVE  line = n /\ stack = st /\ Group(f, M, line, stack) = Group(g, N, line, stack)
BY DEF PA!SelectionId, Group

LEMMA GroupIs ==
  ASSUME NEW L, NEW S, NEW M \in SUBSET (L \X S), NEW f, NEW m \in L \X S, NEW x,
         <<m[2], x>> \in Group(f, M, m[1], PA!Stack(m[2]))
  PROVE  m \in M /\ x = f[m[2]]
<1>1. PICK n \in M : n[1] = m[1] /\ <<m[2], x>> = <<n[2], f[n[2]]>>
  BY DEF Group
<1>2. n = m
  BY <1>1
<1> QED
  BY <1>1, <1>2

LEMMA InGroup ==
  ASSUME NEW M, NEW f, NEW m \in M
  PROVE  <<m[2], f[m[2]]>> \in Group(f, M, m[1], PA!Stack(m[2]))
BY DEF Group

Chosen(r, t, f, M, L, S) ==
    r.lines = {} /\ r.ids \subseteq PA!Ids(t, f, M) /\ M \in SUBSET (L \X S)
Within(M, g, N, f) == \A m \in M : m \in N /\ f[m[2]] = g[m[2]]

LEMMA IdsAgree ==
  ASSUME NEW r, NEW t, NEW f, NEW g, NEW L, NEW S, NEW A, NEW B,
         Chosen(r, t, f, A, L, S), Chosen(r, t, g, B, L, S)
  PROVE  Within(PA!FilterMatches(r, t, f, A), f, PA!FilterMatches(r, t, g, B), g)
<1> SUFFICES ASSUME NEW m \in PA!FilterMatches(r, t, f, A)
             PROVE  m \in PA!FilterMatches(r, t, g, B) /\ f[m[2]] = g[m[2]]
  BY DEF Within
<1> USE DEF Chosen
<1>1. m \in A /\ PA!SelectionId(t, f, A, m[1], PA!Stack(m[2])) \in r.ids
  BY DEF PA!FilterMatches
<1>2. PICK k \in B : PA!SelectionId(t, f, A, m[1], PA!Stack(m[2])) = PA!SelectionId(t, g, B, k[1], PA!Stack(k[2]))
  BY <1>1 DEF PA!Ids
<1>3. /\ m[1] = k[1] /\ PA!Stack(m[2]) = PA!Stack(k[2])
      /\ Group(f, A, m[1], PA!Stack(m[2])) = Group(g, B, m[1], PA!Stack(m[2]))
  BY <1>2, IdIs
<1>4. <<m[2], f[m[2]]>> \in Group(g, B, m[1], PA!Stack(m[2]))
  BY <1>1, <1>3, InGroup
<1>5. m \in B /\ f[m[2]] = g[m[2]]
  <2>1. m \in L \X S /\ B \in SUBSET (L \X S)
    BY <1>1
  <2> QED
    BY ONLY <1>4, <2>1, GroupIs
<1>6. PA!SelectionId(t, g, B, m[1], PA!Stack(m[2])) \in r.ids
  BY <1>1, <1>2, <1>3
<1> QED
  BY <1>5, <1>6 DEF PA!FilterMatches

(* The lines and the selections of the plan that is checked are those of the  *)
(* run, when it has the matches that were selected.                           *)
LEMMA FiltersAgree ==
  ASSUME NEW r, NEW t, NEW f, NEW A, NEW B, B \subseteq A, r.ids \subseteq PA!Ids(t, f, A),
         PA!FilterMatches(r, t, f, A) \subseteq B
  PROVE  PA!FilterMatches(r, t, f, A) = PA!FilterMatches(r, t, f, B)
<1>1. ASSUME NEW m \in PA!FilterMatches(r, t, f, A)
      PROVE  m \in PA!FilterMatches(r, t, f, B)
  <2>1. m \in A /\ m \in B
    BY DEF PA!FilterMatches
  <2>2. CASE m[1] \in r.lines
    BY <2>1, <2>2 DEF PA!FilterMatches
  <2>3. CASE PA!SelectionId(t, f, A, m[1], PA!Stack(m[2])) \in r.ids
    <3>1. ASSUME NEW n \in A, n[1] = m[1], PA!Stack(n[2]) = PA!Stack(m[2])
          PROVE  n \in B
      <4>1. PA!SelectionId(t, f, A, n[1], PA!Stack(n[2])) \in r.ids
        BY <2>3, <3>1
      <4> QED
        BY <4>1 DEF PA!FilterMatches
    <3>2. {n \in A : n[1] = m[1] /\ PA!Stack(n[2]) = PA!Stack(m[2])}
            = {n \in B : n[1] = m[1] /\ PA!Stack(n[2]) = PA!Stack(m[2])}
      BY <3>1
    <3>3. PA!SelectionId(t, f, A, m[1], PA!Stack(m[2])) = PA!SelectionId(t, f, B, m[1], PA!Stack(m[2]))
      BY <3>2 DEF PA!SelectionId
    <3> QED
      BY <2>1, <2>3, <3>3 DEF PA!FilterMatches
  <2> QED
    BY <2>2, <2>3 DEF PA!FilterMatches
<1>2. ASSUME NEW m \in PA!FilterMatches(r, t, f, B)
      PROVE  m \in PA!FilterMatches(r, t, f, A)
  <2>1. m \in A /\ m \in B
    BY DEF PA!FilterMatches
  <2>2. CASE m[1] \in r.lines
    BY <2>1, <2>2 DEF PA!FilterMatches
  <2>3. CASE PA!SelectionId(t, f, B, m[1], PA!Stack(m[2])) \in r.ids
    <3>1. PICK k \in A : PA!SelectionId(t, f, B, m[1], PA!Stack(m[2]))
                             = PA!SelectionId(t, f, A, k[1], PA!Stack(k[2]))
      BY <2>3 DEF PA!Ids
    <3>2. m[1] = k[1] /\ PA!Stack(m[2]) = PA!Stack(k[2])
      BY <3>1, IdIs
    <3> QED
      BY <2>1, <2>3, <3>1, <3>2 DEF PA!FilterMatches
  <2> QED
    BY <2>2, <2>3 DEF PA!FilterMatches
<1> QED
  BY <1>1, <1>2

(* When nothing has changed since the check, the run does what the plan says. *)
LEMMA RunAsPlanned ==
  ASSUME PlanShape, ApplyTypes, ~pa_plan.error, NEW f, NEW rg, BuiltFrom(f, rg),
         pa_source.text = pa_plan.list.text, Agrees(PA!BuildPlan(pa_req, pa_source, pa_compose, pa_cfg, pa_reg)),
         pa_jobCfg = pa_cfg
  PROVE  PA!RunUpdates = pa_plan.updates
<1>1. PICK r, src, t, g, c, h : /\ r = pa_req /\ src = pa_source /\ t = pa_source.text /\ g = pa_compose
                               /\ c = pa_cfg /\ h = pa_reg
  OBVIOUS
<1>2. PICK l, d : l = pa_plan.list /\ d = pa_plan.cfg
  OBVIOUS
<1>3. /\ pa_plan.updates = PlanUpdates(r, t, g, c, h)
      /\ ~PlanError(r, t, g, c, h)
  <2>1. Planned(PA!BuildPlan(r, src, g, c, h), src, r, t, g, c, h)
    BY <1>1, PlanIs
  <2>2. Agrees(PA!BuildPlan(r, src, g, c, h))
    BY <1>1
  <2> QED
    BY <2>1, <2>2 DEF Agrees, Planned
<1>4. pa_plan.updates = PlanUpdates(r, t, f, d, rg)
  <2>1. Planned(PA!BuildPlan(r, l, f, d, rg), l, r, t, f, d, rg)
    BY <1>1, <1>2, PlanIs
  <2>2. pa_plan = PA!BuildPlan(r, l, f, d, rg)
    BY <1>1, <1>2 DEF BuiltFrom
  <2> QED
    BY <2>1, <2>2 DEF Planned
<1> DEFINE Ls == PA!SelectedLines(r)
           O == PA!MatchTargets(t, Ls, g, c, r.opt)
           Rec == PA!Recovered(t, Ls, g, c, O)
           Un == PA!UnpinCandidates(Ls, O)
           M == PlanMatches(r, t, g, c)
<1>5. M = PA!FilterMatches(r, t, g, O \cup Rec) /\ PA!RunMatches = O \cup Un
  BY <1>1 DEF PlanMatches, AllMatches, PA!RunMatches
<1>6. c \in Settings /\ t \in [pa_Lines -> PlanEntries] /\ Ls \subseteq pa_Lines
  BY <1>1 DEF ApplyTypes, Listings
<1>7. /\ M \subseteq O \cup Rec /\ r.ids \subseteq PA!Ids(t, g, O \cup Rec)
      /\ O \cup Rec \subseteq Ls \X PA!Discovered(g, c)
  <2>1. M \subseteq O \cup Rec
    BY <1>5 DEF PA!FilterMatches
  <2>2. r.ids \subseteq PA!Ids(t, g, AllMatches(r, t, g, c))
    BY <1>3 DEF PlanError, PA!InputError, PA!StaleSelection
  <2>3. AllMatches(r, t, g, c) = O \cup Rec
    BY DEF AllMatches
  <2>4. AllMatches(r, t, g, c) \subseteq Ls \X PA!Discovered(g, c)
    BY MatchesAre
  <2> QED
    BY <2>1, <2>2, <2>3, <2>4
<1>8. ASSUME NEW m \in O
      PROVE  g[m[2]] = "pin" => c.pin
  <2>1. PA!Fits(t[m[1]], g[m[2]], c) /\ m[1] \in Ls
    BY DEF PA!MatchTargets
  <2>2. t[m[1]] \in PlanEntries
    BY <1>6, <2>1
  <2> QED
    BY <2>1, <2>2 DEF PA!Fits, PlanShape
<1>9. Un \subseteq Rec
  <2> SUFFICES ASSUME NEW m \in Un
               PROVE  m \in Rec
    OBVIOUS
  <2>1. /\ m \in Ls \X PA!Discovered(g, c) /\ t[m[1]].to = "dig" /\ g[m[2]] = "pin"
        /\ \E u \in pa_plan.updates : u.image = "pin" /\ ~u.pin /\ t[u.line] = t[m[1]]
    BY <1>1 DEF PA!UnpinCandidates
  <2>2. PICK u \in PlanUpdates(r, t, g, c, h) : u.image = "pin" /\ ~u.pin /\ t[u.line] = t[m[1]]
    BY <2>1, <1>3
  <2>3. PICK n \in M : u = PlanUpdate(r, t, g, c, h, n)
    BY <2>2 DEF PlanUpdates
  <2>4. g[n[2]] = "pin" /\ ~c.pin /\ t[n[1]] = t[m[1]]
    BY <2>2, <2>3 DEF PlanUpdate
  <2>5. n \notin O /\ n \in Rec
    BY <1>7, <1>8, <2>3, <2>4
  <2>6. \A k \in O : k[1] # n[1]
    BY <2>5 DEF PA!Recovered
  <2>7. ASSUME NEW k \in O, k[1] = m[1]
        PROVE  FALSE
    <3>1. /\ k \in Ls \X PA!Discovered(g, c) /\ t[k[1]] # PA!NoEntry /\ (PA!Tagged(t[k[1]]) => r.opt.allow)
          /\ PA!Fits(t[k[1]], g[k[2]], c)
      BY DEF PA!MatchTargets
    <3>2. n[1] \in Ls
      BY <1>7, <2>3
    <3>3. <<n[1], k[2]>> \in O
      BY <3>1, <3>2, <2>4, <2>7 DEF PA!MatchTargets
    <3> QED
      BY <3>3, <2>6
  <2> QED
    BY <2>1, <2>4, <2>7 DEF PA!Recovered
<1>10. M \subseteq O \cup Un
  <2> SUFFICES ASSUME NEW m \in M, m \notin O
               PROVE  m \in Un
    OBVIOUS
  <2>1. m \in Rec
    BY <1>7
  <2>2. /\ ~c.pin /\ m \in Ls \X PA!Discovered(g, c) /\ t[m[1]].to = "dig" /\ g[m[2]] = "pin"
        /\ \A n \in O : n[1] # m[1]
    BY <2>1 DEF PA!Recovered
  <2>3. PICK u \in pa_plan.updates : u = PlanUpdate(r, t, g, c, h, m)
    BY <1>3 DEF PlanUpdates
  <2>4. u.slot = m[2] /\ u.line = m[1] /\ u.image = "pin" /\ ~u.pin
    BY <2>2, <2>3 DEF PlanUpdate
  <2> QED
    BY <1>1, <2>2, <2>4 DEF PA!UnpinCandidates
<1> HIDE DEF O, Rec, Un, M
<1>11. PA!FilterMatches(r, t, g, O \cup Un) = M
  <2>1. PICK A, B : A = O \cup Rec /\ B = O \cup Un
    OBVIOUS
  <2>2. B \subseteq A /\ r.ids \subseteq PA!Ids(t, g, A) /\ PA!FilterMatches(r, t, g, A) \subseteq B
    BY <1>5, <1>7, <1>9, <1>10, <2>1
  <2>3. PA!FilterMatches(r, t, g, A) = PA!FilterMatches(r, t, g, B)
    BY <2>2, FiltersAgree
  <2> QED
    BY <1>5, <2>1, <2>3
<1>12. ASSUME NEW m \in M
       PROVE  PA!RunTag(m) = PA!PlannedTag(t, g, r, m, PlanVerified(r, t, g, c, h))
  <2>1. PlanUpdate(r, t, g, c, h, m) \in PlanUpdates(r, t, f, d, rg)
    BY <1>3, <1>4 DEF PlanUpdates, M
  <2>2. PICK n \in PlanMatches(r, t, f, d) :
           PlanUpdate(r, t, g, c, h, m) = PlanUpdate(r, t, f, d, rg, n)
    BY <2>1 DEF PlanUpdates
  <2>3. /\ n[1] = m[1] /\ n[2] = m[2] /\ g[m[2]] = f[n[2]]
        /\ PA!PlannedTag(t, g, r, m, PlanVerified(r, t, g, c, h))
              = PA!PlannedTag(t, f, r, n, PlanVerified(r, t, f, d, rg))
    BY <2>2 DEF PlanUpdate
  <2>4. PlanMatches(r, t, f, d) \subseteq Ls \X PA!Discovered(f, d)
    BY MatchesAre
  <2>5. m \in Ls \X PA!Discovered(g, c)
    BY <1>7
  <2>6. n = m
    BY <2>3, <2>4, <2>5
  <2>7. n \in PlanMatches(pa_req, pa_source.text, f, pa_plan.cfg) /\ pa_compose[n[2]] = f[n[2]]
    BY <1>1, <1>2, <2>3
  <2>8. PA!RunTag(n) = PA!PlannedTag(pa_source.text, f, pa_req, n, PlanVerified(pa_req, pa_source.text, f, pa_plan.cfg, rg))
    BY <2>7, TagsAgree DEF ApplyTypes
  <2>9. PA!RunTag(n) = PA!PlannedTag(t, f, r, n, PlanVerified(r, t, f, d, rg))
    BY <2>8, <1>1, <1>2
  <2> QED
    BY <2>3, <2>6, <2>9
<1>13. PA!RunUpdates = {[slot |-> m[2], line |-> m[1], image |-> g[m[2]], to |-> PA!RunTag(m),
                         pin |-> c.pin] : m \in M}
  BY <1>1, <1>5, <1>11 DEF PA!RunUpdates
<1>14. PlanUpdates(r, t, g, c, h)
         = {[slot |-> m[2], line |-> m[1], image |-> g[m[2]],
             to |-> PA!PlannedTag(t, g, r, m, PlanVerified(r, t, g, c, h)), pin |-> c.pin] : m \in M}
  BY DEF PlanUpdates, PlanUpdate, M
<1> QED
  BY <1>3, <1>12, <1>13, <1>14

-----------------------------------------------------------------------------
(* With selections of single stacks the run has the matches of the plan, or   *)
(* is refused, whatever has changed.                                          *)
Scopes(updates) == {<<u.slot, u.line, u.image, u.to>> : u \in updates}

LEMMA RunAsSelected ==
  ASSUME PA!SelectedLines(pa_req) \subseteq pa_Lines, ~pa_plan.error, NEW f, NEW rg, BuiltFrom(f, rg),
         pa_source.text = pa_plan.list.text, pa_req.lines = {},
         ~PA!StaleSelection(pa_req, pa_source.text, pa_compose, PA!RunMatches)
  PROVE  Scopes(PA!RunUpdates) = Scopes(pa_plan.updates)
<1>1. PICK r, t, g, c, d, l : /\ r = pa_req /\ t = pa_source.text /\ g = pa_compose /\ c = pa_jobCfg
                              /\ d = pa_plan.cfg /\ l = pa_plan.list
  OBVIOUS
<1>2. PICK A, B : A = AllMatches(r, t, f, d) /\ B = PA!RunMatches
  OBVIOUS
<1>3. /\ pa_plan.updates = PlanUpdates(r, t, f, d, rg) /\ r.ids \subseteq PA!Ids(t, f, A)
  <2>1. Planned(PA!BuildPlan(r, l, f, d, rg), l, r, t, f, d, rg)
    BY <1>1, PlanIs
  <2>2. pa_plan = PA!BuildPlan(r, l, f, d, rg)
    BY <1>1 DEF BuiltFrom
  <2>3. pa_plan.updates = PlanUpdates(r, t, f, d, rg) /\ ~PlanError(r, t, f, d, rg)
    BY <2>1, <2>2 DEF Planned
  <2> QED
    BY <1>2, <2>3 DEF PlanError, PA!InputError, PA!StaleSelection
<1>4. r.ids \subseteq PA!Ids(t, g, B) /\ r.lines = {}
  BY <1>1, <1>2 DEF PA!StaleSelection
<1>5. PICK L, S : L = PA!SelectedLines(r) /\ S = PA!Discovered(f, d) \cup PA!Discovered(g, c)
  OBVIOUS
<1>6. A \in SUBSET (L \X S) /\ B \in SUBSET (L \X S)
  <2>1. A \subseteq L \X PA!Discovered(f, d)
    BY <1>2, <1>5, MatchesAre
  <2>2. B \subseteq L \X PA!Discovered(g, c)
    BY <1>1, <1>2, <1>5, RunMatchesAre
  <2> QED
    BY <1>5, <2>1, <2>2
<1>7. Chosen(r, t, f, A, L, S) /\ Chosen(r, t, g, B, L, S)
  BY <1>3, <1>4, <1>6 DEF Chosen
<1>8. /\ Within(PA!FilterMatches(r, t, f, A), f, PA!FilterMatches(r, t, g, B), g)
      /\ Within(PA!FilterMatches(r, t, g, B), g, PA!FilterMatches(r, t, f, A), f)
  BY <1>7, IdsAgree
<1>9. PICK M : M = PA!FilterMatches(r, t, f, A)
  OBVIOUS
<1>10. M = PA!FilterMatches(r, t, g, B) /\ \A m \in M : f[m[2]] = g[m[2]]
  BY <1>8, <1>9 DEF Within
<1>11. M = PlanMatches(r, t, f, d)
  BY <1>2, <1>9 DEF PlanMatches
<1>12. ASSUME NEW m \in M
       PROVE  PA!RunTag(m) = PA!PlannedTag(t, f, r, m, PlanVerified(r, t, f, d, rg))
  <2>1. m \in PlanMatches(pa_req, pa_source.text, f, pa_plan.cfg) /\ pa_compose[m[2]] = f[m[2]]
    BY <1>1, <1>10, <1>11
  <2>2. PA!RunTag(m) = PA!PlannedTag(pa_source.text, f, pa_req, m, PlanVerified(pa_req, pa_source.text, f, pa_plan.cfg, rg))
    BY <2>1, TagsAgree
  <2> QED
    BY <1>1, <2>2
<1>13. PA!RunUpdates = {[slot |-> m[2], line |-> m[1], image |-> g[m[2]], to |-> PA!RunTag(m),
                         pin |-> c.pin] : m \in M}
  BY <1>1, <1>2, <1>10 DEF PA!RunUpdates
<1>14. Scopes(PA!RunUpdates) = {<<m[2], m[1], g[m[2]], PA!RunTag(m)>> : m \in M}
  <2> DEFINE U(m) == [slot |-> m[2], line |-> m[1], image |-> g[m[2]], to |-> PA!RunTag(m),
                      pin |-> c.pin]
  <2>1. \A m : <<U(m).slot, U(m).line, U(m).image, U(m).to>> = <<m[2], m[1], g[m[2]], PA!RunTag(m)>>
    OBVIOUS
  <2>2. PA!RunUpdates = {U(m) : m \in M}
    BY <1>13
  <2> HIDE DEF U
  <2>3. Scopes(PA!RunUpdates) = {<<U(m).slot, U(m).line, U(m).image, U(m).to>> : m \in M}
    BY <2>2 DEF Scopes
  <2> QED
    BY <2>1, <2>3
<1>15. Scopes(pa_plan.updates)
         = {<<m[2], m[1], f[m[2]], PA!PlannedTag(t, f, r, m, PlanVerified(r, t, f, d, rg))>> : m \in M}
  <2> DEFINE U(m) == PlanUpdate(r, t, f, d, rg, m)
             T(m) == PA!PlannedTag(t, f, r, m, PlanVerified(r, t, f, d, rg))
  <2>1. \A m : <<U(m).slot, U(m).line, U(m).image, U(m).to>> = <<m[2], m[1], f[m[2]], T(m)>>
    BY DEF PlanUpdate
  <2>2. pa_plan.updates = {U(m) : m \in M}
    BY <1>3, <1>11 DEF PlanUpdates
  <2> HIDE DEF U
  <2>3. Scopes(pa_plan.updates) = {<<U(m).slot, U(m).line, U(m).image, U(m).to>> : m \in M}
    BY <2>2 DEF Scopes
  <2> QED
    BY <2>1, <2>3
<1> QED
  BY <1>10, <1>12, <1>14, <1>15

(* What a run that is not refused applies has its type, and one tag each.     *)
LEMMA RunIsTyped ==
  ASSUME ApplyTypes, pa_phase = "running", ~PA!RunRefused
  PROVE  /\ PA!RunUpdates \subseteq [slot : pa_Slots, line : pa_Lines, image : pa_Images \ {"off"},
                                     to : {"", "dig"} \cup AllTags, pin : BOOLEAN]
         /\ \A u, v \in PA!RunUpdates : u.slot = v.slot /\ PA!Tagged(u) /\ PA!Tagged(v) => u.to = v.to
<1>1. PICK M : M = PA!FilterMatches(pa_req, pa_source.text, pa_compose, PA!RunMatches)
  OBVIOUS
<1>2. PA!RunUpdates = {[slot |-> m[2], line |-> m[1], image |-> pa_compose[m[2]], to |-> PA!RunTag(m),
                        pin |-> pa_jobCfg.pin] : m \in M}
  BY <1>1 DEF PA!RunUpdates
<1>3. M \subseteq PA!SelectedLines(pa_req) \X PA!Discovered(pa_compose, pa_jobCfg)
  <2>1. M \subseteq PA!RunMatches
    BY <1>1 DEF PA!FilterMatches
  <2> QED
    BY <2>1, RunMatchesAre
<1>4. ASSUME NEW u \in PA!RunUpdates
      PROVE  u \in [slot : pa_Slots, line : pa_Lines, image : pa_Images \ {"off"},
                    to : {"", "dig"} \cup AllTags, pin : BOOLEAN]
  <2>1. PICK m \in M : u = [slot |-> m[2], line |-> m[1], image |-> pa_compose[m[2]],
                           to |-> PA!RunTag(m), pin |-> pa_jobCfg.pin]
    BY <1>2
  <2>2. m[1] \in pa_Lines /\ m[2] \in pa_Slots /\ pa_compose[m[2]] # "off"
    BY <1>3 DEF PA!Discovered, ApplyTypes
  <2>3. pa_compose[m[2]] \in pa_Images \ {"off"}
    BY <2>2 DEF ApplyTypes
  <2>4. u.to \in pa_reg \cup {"", "dig"}
    BY DEF PA!RunRefused
  <2>5. PA!RunTag(m) \in {"", "dig"} \cup AllTags
    BY <2>1, <2>4 DEF ApplyTypes
  <2>6. pa_jobCfg.pin \in BOOLEAN
    BY DEF ApplyTypes, Settings
  <2> QED
    BY <2>1, <2>2, <2>3, <2>5, <2>6
<1>5. ASSUME NEW u \in PA!RunUpdates, NEW v \in PA!RunUpdates, u.slot = v.slot, PA!Tagged(u), PA!Tagged(v)
      PROVE  u.to = v.to
  <2>1. ~PA!Conflicting(PA!RunUpdates)
    BY DEF PA!RunRefused
  <2> QED
    BY <1>5, <2>1 DEF PA!Conflicting, PA!Tagged
<1> QED
  BY <1>4, <1>5

-----------------------------------------------------------------------------
(* When nothing changed the plan that is built again is the plan reviewed; a  *)
(* plan that differs names what changed.                                      *)
LEMMA PlanAgain ==
  ASSUME NEW f, NEW rg, BuiltFrom(f, rg), pa_compose = f, pa_cfg = pa_plan.cfg, pa_reg = rg,
         pa_source.text = pa_plan.list.text
  PROVE  LET p == PA!BuildPlan(pa_req, pa_source, pa_compose, pa_cfg, pa_reg)
         IN  p.error = pa_plan.error /\ p.updates = pa_plan.updates /\ p.ready = pa_plan.ready
<1>1. PICK r, l, k, c : r = pa_req /\ l = pa_source /\ k = pa_plan.list /\ c = pa_cfg
  OBVIOUS
<1>2. PICK p : p = PA!BuildPlan(r, l, f, c, rg)
  OBVIOUS
<1>3. pa_plan = PA!BuildPlan(r, k, f, c, rg) /\ l.text = k.text
  BY <1>1 DEF BuiltFrom
<1>4. p.error = pa_plan.error /\ p.updates = pa_plan.updates /\ p.ready = pa_plan.ready
  BY <1>2, <1>3, SamePlan
<1> QED
  BY <1>1, <1>2, <1>4

LEMMA PlanHas ==
  ASSUME NEW p, p = PA!BuildPlan(pa_req, pa_source, pa_compose, pa_cfg, pa_reg)
  PROVE  p.list = pa_source /\ p.cfg = pa_cfg /\ p.ready \in BOOLEAN
<1>1. PICK r, l, f, c, rg, t : /\ r = pa_req /\ l = pa_source /\ f = pa_compose /\ c = pa_cfg /\ rg = pa_reg
                               /\ t = pa_source.text
  OBVIOUS
<1>2. Planned(p, l, r, t, f, c, rg)
  BY <1>1, PlanIs
<1>3. PlanReady(r, t, f, c, rg) \in BOOLEAN
  BY Zenon DEF PlanReady
<1> QED
  BY <1>1, <1>2, <1>3 DEF Planned

LEMMA ReasonTold ==
  ASSUME pa_phase = "fetched", NEW f, NEW rg, BuiltFrom(f, rg), AsReviewed(f, rg), ~pa_plan.error,
         NEW p, p = PA!BuildPlan(pa_req, pa_source, pa_compose, pa_cfg, pa_reg),
         p.error \/ PA!PlanId(pa_req, p) # PA!PlanId(pa_req, pa_plan), NEW why,
         why = IF p.error THEN {"selection"} ELSE PA!StaleReason(p)
  PROVE  /\ pa_changes # {}
         /\ "settings" \in why => "settings" \in pa_changes
         /\ why \cap {"list", "status"} # {} => "list" \in pa_changes
         /\ "stacks" \in why => pa_changes \cap {"compose", "registry", "settings"} # {}
         /\ "list" \in pa_changes /\ why # {"selection"} /\ pa_source.text # pa_plan.list.text
             => why \cap {"list", "forgotten"} # {}
<1>1. p.list = pa_source /\ p.cfg = pa_cfg
  BY PlanHas
<1>2. ASSUME "compose" \notin pa_changes, "settings" \notin pa_changes, "registry" \notin pa_changes,
             pa_source.text = pa_plan.list.text
      PROVE  p.error = pa_plan.error /\ p.updates = pa_plan.updates /\ p.ready = pa_plan.ready
  BY <1>2, PlanAgain DEF AsReviewed
<1>3. pa_changes # {}
  <2> SUFFICES ASSUME pa_changes = {}
               PROVE  FALSE
    OBVIOUS
  <2>1. /\ pa_cfg = pa_plan.cfg /\ pa_source.text = pa_plan.list.text /\ pa_source.fresh = pa_plan.list.fresh
    BY DEF AsReviewed
  <2>2. p.error = pa_plan.error /\ p.updates = pa_plan.updates /\ p.ready = pa_plan.ready
    BY <1>2, <2>1
  <2> QED
    BY <1>1, <2>1, <2>2 DEF PA!PlanId
<1>4. CASE p.error
  <2>1. why = {"selection"}
    BY <1>4
  <2> QED
    BY <1>3, <2>1
<1>5. CASE ~p.error
  <2> DEFINE causes == {x \in {"settings", "list", "status", "problems"} :
                      \/ x = "settings" /\ p.cfg.pin # pa_plan.cfg.pin
                      \/ x = "list" /\ p.list.text # pa_plan.list.text
                      \/ x = "status" /\ p.list.fresh # pa_plan.list.fresh
                      \/ x = "problems" /\ p.ready # pa_plan.ready}
  <2>1. why = CASE PA!Forgotten -> {"forgotten"}
                [] ~PA!Forgotten /\ causes # {} -> causes
                [] OTHER -> IF p.updates # pa_plan.updates THEN {"stacks"} ELSE {"details"}
    BY <1>5 DEF PA!StaleReason
  <2>2. /\ "settings" \in causes => "settings" \in pa_changes
        /\ causes \cap {"list", "status"} # {} => "list" \in pa_changes
        /\ "stacks" \notin causes
        /\ pa_source.text # pa_plan.list.text => "list" \in causes
    BY <1>1 DEF AsReviewed
  <2> HIDE DEF causes
  <2>3. CASE PA!Forgotten
    <3>1. why = {"forgotten"}
      BY <2>1, <2>3
    <3> QED
      BY <1>3, <3>1
  <2>4. CASE ~PA!Forgotten /\ causes # {}
    <3>1. why = causes
      BY <2>1, <2>4
    <3> QED
      BY <1>3, <2>2, <3>1
  <2>5. CASE ~PA!Forgotten /\ causes = {}
    <3>1. why = IF p.updates # pa_plan.updates THEN {"stacks"} ELSE {"details"}
      BY <2>1, <2>5
    <3>2. pa_source.text = pa_plan.list.text
      BY <2>2, <2>5
    <3>3. p.updates # pa_plan.updates => pa_changes \cap {"compose", "registry", "settings"} # {}
      BY <1>2, <3>2
    <3> QED
      BY <1>3, <3>1, <3>2, <3>3
  <2> QED
    BY <2>3, <2>4, <2>5
<1> QED
  BY <1>4, <1>5

-----------------------------------------------------------------------------
(* The invariant holds at first, and every action keeps it.                   *)
LEMMA ApplyInit ==
  ASSUME PlanShape, PA!Init
  PROVE  ApplyInv
<1>1. PA!NoPlan.list \in Listings /\ PA!NoPlan.cfg \in Settings
  BY DEF PA!NoPlan, Listings, Settings, PlanEntries
<1>2. pa_list \in Listings
  <2>1. PICK t \in pa_Lists : pa_list = [text |-> t, fresh |-> TRUE, detail |-> 0]
    BY DEF PA!Init
  <2>2. t \in [pa_Lines -> PlanEntries]
    BY DEF PlanShape, PlanEntries
  <2> QED
    BY <2>1, <2>2 DEF Listings
<1>3. pa_cfg \in Settings
  BY DEF PA!Init, Settings
<1>4. PA!SelectedLines(pa_req) \subseteq pa_Lines
  BY DEF PA!Init, PA!NoRequest, PA!SelectedLines
<1>5. ApplyTypes
  BY <1>1, <1>2, <1>3, <1>4 DEF PA!Init, ApplyTypes, PlanShape, AllTags, PA!Phases
<1>6. ReviewInv /\ CheckedInv
  BY DEF PA!Init, ReviewInv, CheckedInv, Accepted
<1>7. DoneInv
  BY DEF PA!Init, DoneInv, Accepted, PA!AppliedAsReviewed, PA!ScopedAsReviewed, PA!OneTagEach,
     PA!ReasonIsTrue
<1> QED
  BY <1>5, <1>6, <1>7 DEF ApplyInv

(* The lines a reviewer can select are lines of the list.                     *)
LEMMA OfferedLines ==
  ASSUME NEW r \in PA!Offered
  PROVE  PA!SelectedLines(r) \subseteq pa_Lines
<1> DEFINE all(o) == LET m == PA!MatchTargets(pa_list.text, pa_Lines, pa_compose, pa_cfg, o)
                     IN  m \cup PA!Recovered(pa_list.text, pa_Lines, pa_compose, pa_cfg, m)
<1>1. CASE r \in {[lines |-> ls, ids |-> {}, opt |-> o] : ls \in SUBSET pa_Lines, o \in pa_Options}
  BY <1>1 DEF PA!SelectedLines
<1>2. CASE r \in UNION {{[lines |-> {}, ids |-> i, opt |-> o] :
                            i \in SUBSET PA!Ids(pa_list.text, pa_compose, all(o))} : o \in pa_Options}
  <2>1. PICK o \in pa_Options :
           r \in {[lines |-> {}, ids |-> i, opt |-> o] : i \in SUBSET PA!Ids(pa_list.text, pa_compose, all(o))}
    BY <1>2
  <2>2. PICK M : M = all(o)
    OBVIOUS
  <2>3. r.lines = {} /\ r.ids \subseteq PA!Ids(pa_list.text, pa_compose, M)
    <3> HIDE DEF all
    <3> QED
      BY <2>1, <2>2
  <2>4. M \subseteq pa_Lines \X PA!Discovered(pa_compose, pa_cfg)
    BY <2>2 DEF PA!MatchTargets, PA!Recovered
  <2>5. \A id \in PA!Ids(pa_list.text, pa_compose, M) : id.line \in pa_Lines
    BY <2>4 DEF PA!Ids, PA!SelectionId
  <2> QED
    BY <2>3, <2>5 DEF PA!SelectedLines
<1> QED
  BY <1>1, <1>2 DEF PA!Offered

LEMMA ReviewStep ==
  ASSUME PlanShape, ApplyInv, PA!Review
  PROVE  ApplyInv'
<1> USE DEF ApplyInv
<1>1. PICK r \in PA!Offered : /\ ~PA!BuildPlan(r, pa_list, pa_compose, pa_cfg, pa_reg).error
                              /\ pa_req' = r /\ pa_plan' = PA!BuildPlan(r, pa_list, pa_compose, pa_cfg, pa_reg)
  BY DEF PA!Review
<1>2. PICK l, f, c, rg, t : l = pa_list /\ f = pa_compose /\ c = pa_cfg /\ rg = pa_reg /\ t = pa_list.text
  OBVIOUS
<1>3. PICK p : p = PA!BuildPlan(r, l, f, c, rg)
  OBVIOUS
<1>4. p.list = l /\ p.cfg = c
  BY <1>2, <1>3, PlanIs DEF Planned
<1>5. pa_plan' = p /\ pa_req' = r /\ ~p.error
  BY <1>1, <1>2, <1>3
<1>6. /\ pa_phase = "idle" /\ pa_phase' = "reviewed" /\ pa_newer' = 0
      /\ UNCHANGED <<pa_list, pa_compose, pa_cfg, pa_reg, pa_gate, pa_source, pa_jobCfg, pa_reason, pa_applied,
                     pa_changes, pa_late, pa_outside>>
  BY DEF PA!Review
<1>7. PA!SelectedLines(pa_req)' \subseteq pa_Lines
  <2>1. PA!SelectedLines(r) \subseteq pa_Lines
    BY <1>1, OfferedLines
  <2> QED
    BY <1>5, <2>1 DEF PA!SelectedLines
<1>8. ApplyTypes'
  <2>1. pa_plan'.list \in Listings /\ pa_plan'.cfg \in Settings
    BY <1>2, <1>4, <1>5 DEF ApplyTypes
  <2>2. pa_newer' \in 0 .. pa_PlanLimit
    BY <1>6 DEF PlanShape
  <2> QED
    BY <1>6, <1>7, <2>1, <2>2 DEF ApplyTypes, PA!Phases
<1>9. ReviewInv'
  <2>1. pa_plan' = PA!BuildPlan(pa_req', pa_plan.list', f, pa_plan.cfg', rg)
    BY <1>2, <1>3, <1>4, <1>5
  <2>2. BuiltFrom(f, rg)'
    BY <2>1 DEF BuiltFrom
  <2>3. AsReviewed(f, rg)'
    BY <1>2, <1>4, <1>5, <1>6 DEF AsReviewed
  <2> QED
    BY <1>5, <2>2, <2>3 DEF ReviewInv
<1>10. CheckedInv'
  BY <1>6 DEF CheckedInv, Accepted
<1>11. DoneInv'
  BY <1>6 DEF DoneInv, Accepted, PA!AppliedAsReviewed, PA!ScopedAsReviewed, PA!OneTagEach,
     PA!ReasonIsTrue
<1> QED
  BY <1>8, <1>9, <1>10, <1>11

LEMMA AskStep ==
  ASSUME PlanShape, ApplyInv, PA!AskGate
  PROVE  ApplyInv'
<1> USE DEF ApplyInv
<1>1. /\ pa_phase = "reviewed" /\ pa_phase' \in {"asked", "refused"}
      /\ UNCHANGED <<pa_list, pa_compose, pa_cfg, pa_reg, pa_gate, pa_req, pa_plan, pa_source, pa_jobCfg, pa_newer,
                     pa_reason, pa_applied, pa_changes, pa_late, pa_outside>>
  BY DEF PA!AskGate
<1>2. ApplyTypes'
  BY <1>1 DEF ApplyTypes, PA!Phases, PA!SelectedLines
<1>3. ReviewInv'
  <2>1. PICK f, rg : BuiltFrom(f, rg) /\ AsReviewed(f, rg)
    BY <1>1 DEF ReviewInv, Reviewing
  <2>2. BuiltFrom(f, rg)' /\ AsReviewed(f, rg)' /\ ~pa_plan'.error
    BY <1>1, <2>1 DEF BuiltFrom, AsReviewed, ReviewInv
  <2> QED
    BY <2>2 DEF ReviewInv
<1>4. CheckedInv'
  BY <1>1 DEF CheckedInv, Accepted
<1>5. DoneInv'
  BY <1>1 DEF DoneInv, Accepted, PA!AppliedAsReviewed, PA!ScopedAsReviewed, PA!OneTagEach,
     PA!ReasonIsTrue
<1> QED
  BY <1>2, <1>3, <1>4, <1>5

LEMMA FetchStep ==
  ASSUME PlanShape, ApplyInv, PA!FetchList
  PROVE  ApplyInv'
<1> USE DEF ApplyInv
<1>1. /\ pa_phase = "asked" /\ pa_phase' = "fetched"
      /\ UNCHANGED <<pa_list, pa_compose, pa_cfg, pa_reg, pa_gate, pa_req, pa_plan, pa_jobCfg, pa_newer,
                     pa_reason, pa_applied, pa_changes, pa_late, pa_outside>>
  BY DEF PA!FetchList
<1>2. PICK d \in {0, 1} : pa_source' = [pa_list EXCEPT !.detail = d]
  BY DEF PA!FetchList
<1>3. pa_source' \in Listings /\ pa_source'.text = pa_list.text /\ pa_source'.fresh = pa_list.fresh
  BY <1>2 DEF ApplyTypes, Listings
<1>4. ApplyTypes'
  BY <1>1, <1>3 DEF ApplyTypes, PA!Phases, PA!SelectedLines
<1>5. ReviewInv'
  <2>1. PICK f, rg : BuiltFrom(f, rg) /\ AsReviewed(f, rg)
    BY <1>1 DEF ReviewInv, Reviewing
  <2>2. BuiltFrom(f, rg)' /\ AsReviewed(f, rg)' /\ ~pa_plan'.error
    BY <1>1, <1>3, <2>1 DEF BuiltFrom, AsReviewed, ReviewInv
  <2> QED
    BY <2>2 DEF ReviewInv
<1>6. CheckedInv'
  BY <1>1 DEF CheckedInv, Accepted
<1>7. DoneInv'
  BY <1>1 DEF DoneInv, Accepted, PA!AppliedAsReviewed, PA!ScopedAsReviewed, PA!OneTagEach,
     PA!ReasonIsTrue
<1> QED
  BY <1>4, <1>5, <1>6, <1>7

LEMMA RecheckStep ==
  ASSUME PlanShape, ApplyInv, PA!Recheck
  PROVE  ApplyInv'
<1> USE DEF ApplyInv
<1>1. PICK p : p = PA!BuildPlan(pa_req, pa_source, pa_compose, pa_cfg, pa_reg)
  OBVIOUS
<1>2. /\ pa_phase = "fetched"
      /\ \/ p.error /\ pa_phase' = "stale" /\ pa_reason' = {"selection"}
         \/ ~p.error /\ PA!PlanId(pa_req, p) # PA!PlanId(pa_req, pa_plan) /\ pa_phase' = "stale" /\ pa_reason' = PA!StaleReason(p)
         \/ /\ ~p.error /\ PA!PlanId(pa_req, p) = PA!PlanId(pa_req, pa_plan) /\ pa_reason' = {}
            /\ pa_phase' \in (IF PA!CanApply(p) THEN {"checked", "refused"} ELSE {"refused"})
      /\ UNCHANGED <<pa_list, pa_compose, pa_cfg, pa_reg, pa_gate, pa_req, pa_plan, pa_source, pa_jobCfg, pa_newer,
                     pa_applied, pa_changes, pa_late, pa_outside>>
  BY <1>1 DEF PA!Recheck
<1>3. pa_phase' \in {"stale", "checked", "refused"}
  BY <1>2
<1>4. ApplyTypes'
  BY <1>2, <1>3 DEF ApplyTypes, PA!Phases, PA!SelectedLines
<1>5. PICK f, rg : BuiltFrom(f, rg) /\ AsReviewed(f, rg)
  BY <1>2 DEF ReviewInv, Reviewing
<1>6. ReviewInv'
  <2>1. BuiltFrom(f, rg)' /\ ~pa_plan'.error
    BY <1>2, <1>5 DEF BuiltFrom, ReviewInv
  <2> QED
    BY <1>3, <2>1 DEF ReviewInv, Reviewing
<1>7. p.list = pa_source /\ p.cfg = pa_cfg /\ p.ready \in BOOLEAN
  BY <1>1, PlanHas
<1>8. CheckedInv'
  <2>1. pa_phase' = "checked" => ~p.error /\ PA!PlanId(pa_req, p) = PA!PlanId(pa_req, pa_plan) /\ PA!CanApply(p)
    BY <1>2
  <2>2. pa_phase' = "checked" => Agrees(p) /\ pa_source.text = pa_plan.list.text /\ pa_plan.ready = TRUE
    BY <1>7, <2>1 DEF PA!PlanId, PA!CanApply, Agrees
  <2>3. pa_phase' = "checked" => /\ Agrees(PA!BuildPlan(pa_req, pa_source, pa_compose, pa_cfg, pa_reg))'
                                 /\ pa_source'.text = pa_plan'.list.text /\ pa_plan'.ready = TRUE
    BY <1>1, <1>2, <2>2 DEF Agrees
  <2> QED
    BY <1>3, <2>3 DEF CheckedInv, Accepted
<1>9. PA!ReasonIsTrue'
  <2> SUFFICES ASSUME pa_phase' = "stale"
               PROVE  PA!ReasonIsTrue'
    BY DEF PA!ReasonIsTrue
  <2>1. PICK why : why = pa_reason'
    OBVIOUS
  <2>2. /\ p.error \/ PA!PlanId(pa_req, p) # PA!PlanId(pa_req, pa_plan)
        /\ why = IF p.error THEN {"selection"} ELSE PA!StaleReason(p)
    BY <1>2, <2>1
  <2>3. ~pa_plan.error
    BY <1>2 DEF ReviewInv
  <2>4. /\ pa_changes # {}
        /\ "settings" \in why => "settings" \in pa_changes
        /\ why \cap {"list", "status"} # {} => "list" \in pa_changes
        /\ "stacks" \in why => pa_changes \cap {"compose", "registry", "settings"} # {}
        /\ "list" \in pa_changes /\ why # {"selection"} /\ pa_source.text # pa_plan.list.text
             => why \cap {"list", "forgotten"} # {}
    BY <1>1, <1>2, <1>5, <2>2, <2>3, ReasonTold
  <2> QED
    BY <1>2, <2>1, <2>4 DEF PA!ReasonIsTrue
<1>10. DoneInv'
  BY <1>2, <1>3, <1>9 DEF DoneInv, Accepted, PA!AppliedAsReviewed, PA!ScopedAsReviewed,
     PA!OneTagEach
<1> QED
  BY <1>4, <1>6, <1>8, <1>10

LEMMA SubmitStep ==
  ASSUME PlanShape, ApplyInv, PA!Submit
  PROVE  ApplyInv'
<1> USE DEF ApplyInv
<1>1. /\ pa_phase = "checked" /\ pa_phase' \in {"queued", "refused"} /\ pa_gate' \in {pa_gate, "mine"}
      /\ UNCHANGED <<pa_list, pa_compose, pa_cfg, pa_reg, pa_req, pa_plan, pa_source, pa_jobCfg, pa_newer, pa_reason,
                     pa_applied, pa_changes, pa_outside>>
      /\ pa_late' = pa_late
  BY DEF PA!Submit
<1>2. ApplyTypes'
  BY <1>1 DEF ApplyTypes, PA!Phases, PA!SelectedLines
<1>3. ReviewInv'
  <2>1. PICK f, rg : BuiltFrom(f, rg)
    BY <1>1 DEF ReviewInv
  <2>2. BuiltFrom(f, rg)' /\ ~pa_plan'.error
    BY <1>1, <2>1 DEF BuiltFrom, ReviewInv
  <2> QED
    BY <1>1, <2>2 DEF ReviewInv, Reviewing
<1>4. CheckedInv'
  BY <1>1 DEF CheckedInv, Accepted, Agrees
<1>5. DoneInv'
  BY <1>1 DEF DoneInv, Accepted, PA!AppliedAsReviewed, PA!ScopedAsReviewed, PA!OneTagEach,
     PA!ReasonIsTrue
<1> QED
  BY <1>2, <1>3, <1>4, <1>5

LEMMA StartStep ==
  ASSUME PlanShape, ApplyInv, PA!StartJob
  PROVE  ApplyInv'
<1> USE DEF ApplyInv
<1>1. /\ pa_phase = "queued" /\ pa_phase' = "running" /\ pa_jobCfg' = pa_cfg
      /\ UNCHANGED <<pa_list, pa_compose, pa_cfg, pa_reg, pa_gate, pa_req, pa_plan, pa_source, pa_newer, pa_reason,
                     pa_applied, pa_changes, pa_late, pa_outside>>
  BY DEF PA!StartJob
<1>2. ApplyTypes'
  BY <1>1 DEF ApplyTypes, PA!Phases, PA!SelectedLines
<1>3. ReviewInv'
  <2>1. PICK f, rg : BuiltFrom(f, rg)
    BY <1>1 DEF ReviewInv
  <2>2. BuiltFrom(f, rg)' /\ ~pa_plan'.error
    BY <1>1, <2>1 DEF BuiltFrom, ReviewInv
  <2> QED
    BY <1>1, <2>2 DEF ReviewInv, Reviewing
<1>4. CheckedInv'
  BY <1>1 DEF CheckedInv, Accepted, Agrees
<1>5. DoneInv'
  BY <1>1 DEF DoneInv, Accepted, PA!AppliedAsReviewed, PA!ScopedAsReviewed, PA!OneTagEach,
     PA!ReasonIsTrue
<1> QED
  BY <1>2, <1>3, <1>4, <1>5

LEMMA RunningStep ==
  ASSUME PlanShape, ApplyInv, PA!Run
  PROVE  ApplyInv'
<1> USE DEF ApplyInv
<1>1. /\ pa_phase = "running" /\ pa_phase' = "done" /\ pa_gate' = "free"
      /\ UNCHANGED <<pa_list, pa_cfg, pa_reg, pa_req, pa_plan, pa_source, pa_jobCfg, pa_newer, pa_reason,
                     pa_changes, pa_late, pa_outside>>
  BY DEF PA!Run
<1>2. DOMAIN pa_compose' = pa_Slots
  <2>1. DOMAIN pa_compose = pa_Slots
    BY DEF ApplyTypes
  <2>2. CASE PA!RunRefused /\ UNCHANGED <<pa_applied, pa_compose>>
    BY <2>1, <2>2
  <2>3. CASE ~PA!RunRefused
    BY <2>3 DEF PA!Run
  <2> QED
    BY <2>2, <2>3 DEF PA!Run
<1>3. \/ pa_applied' = pa_applied
      \/ ~PA!RunRefused /\ pa_applied' = PA!RunUpdates
  BY DEF PA!Run
<1>4. PICK f, rg : BuiltFrom(f, rg)
  BY <1>1 DEF ReviewInv
<1>5. ~pa_plan.error /\ pa_source.text = pa_plan.list.text /\ pa_applied = {}
  BY <1>1 DEF ReviewInv, CheckedInv, DoneInv, Accepted
<1>6. /\ pa_applied' \subseteq [slot : pa_Slots, line : pa_Lines, image : pa_Images \ {"off"},
                                to : {"", "dig"} \cup AllTags, pin : BOOLEAN]
      /\ \A u, v \in pa_applied' : u.slot = v.slot /\ PA!Tagged(u) /\ PA!Tagged(v) => u.to = v.to
  <2>1. CASE pa_applied' = pa_applied
    BY <1>5, <2>1
  <2>2. CASE ~PA!RunRefused /\ pa_applied' = PA!RunUpdates
    <3>1. PICK W : W = PA!RunUpdates
      OBVIOUS
    <3> QED
      BY <1>1, <2>2, RunIsTyped
  <2> QED
    BY <1>3, <2>1, <2>2
<1>7. ApplyTypes'
  BY <1>1, <1>2, <1>6 DEF ApplyTypes, PA!Phases, PA!SelectedLines
<1>8. ReviewInv'
  <2>1. BuiltFrom(f, rg)' /\ ~pa_plan'.error
    BY <1>1, <1>4, <1>5 DEF BuiltFrom
  <2> QED
    BY <1>1, <2>1 DEF ReviewInv, Reviewing
<1>9. CheckedInv'
  BY <1>1 DEF CheckedInv, Accepted
<1>10. PA!AppliedAsReviewed'
  <2> SUFFICES ASSUME pa_late = {}, ~PA!RunRefused, pa_applied' = PA!RunUpdates
               PROVE  pa_applied' = pa_plan.updates
    BY <1>1, <1>3, <1>5 DEF PA!AppliedAsReviewed
  <2>1. Agrees(PA!BuildPlan(pa_req, pa_source, pa_compose, pa_cfg, pa_reg)) /\ pa_jobCfg = pa_cfg
    BY <1>1 DEF CheckedInv, Accepted
  <2>2. PA!RunUpdates = pa_plan.updates
    BY <1>4, <1>5, <2>1, RunAsPlanned
  <2> QED
    BY <2>2
<1>11. PA!ScopedAsReviewed'
  <2> SUFFICES ASSUME pa_req.lines = {}, ~PA!RunRefused, pa_applied' = PA!RunUpdates
               PROVE  Scopes(pa_applied') = Scopes(pa_plan.updates)
    BY <1>1, <1>3, <1>5 DEF PA!ScopedAsReviewed, Scopes
  <2>1. PA!SelectedLines(pa_req) \subseteq pa_Lines /\ ~PA!StaleSelection(pa_req, pa_source.text, pa_compose, PA!RunMatches)
    BY DEF ApplyTypes, PA!RunRefused
  <2>2. Scopes(PA!RunUpdates) = Scopes(pa_plan.updates)
    BY <1>4, <1>5, <2>1, RunAsSelected
  <2> QED
    BY <2>2
<1>12. DoneInv'
  BY <1>1, <1>6, <1>10, <1>11 DEF DoneInv, Accepted, PA!OneTagEach, PA!ReasonIsTrue
<1> QED
  BY <1>7, <1>8, <1>9, <1>12

(* What changes outside is noted, before the check or after it.               *)
LEMMA NotedStep ==
  ASSUME PlanShape, ApplyInv, ApplyTypes', NEW what, PA!Note(what),
         what # "compose" => pa_compose' = pa_compose, what # "settings" => pa_cfg' = pa_cfg,
         what # "registry" => pa_reg' = pa_reg, what # "list" => pa_list' = pa_list
  PROVE  ApplyInv'
<1> USE DEF ApplyInv
<1>1. /\ pa_phase \in Reviewing \cup Accepted
      /\ UNCHANGED <<pa_phase, pa_req, pa_plan, pa_source, pa_jobCfg, pa_reason, pa_applied>>
  BY DEF PA!Note, Reviewing, Accepted
<1>2. IF pa_phase \in Accepted THEN pa_late' = pa_late \cup {what} /\ pa_changes' = pa_changes
      ELSE pa_changes' = pa_changes \cup {what} /\ pa_late' = pa_late
  BY DEF PA!Note, Accepted
<1>3. ReviewInv'
  <2>1. PICK f, rg : BuiltFrom(f, rg) /\ (pa_phase \in Reviewing => AsReviewed(f, rg))
    BY <1>1 DEF ReviewInv, Reviewing, Accepted
  <2>2. BuiltFrom(f, rg)' /\ ~pa_plan'.error
    BY <1>1, <2>1 DEF BuiltFrom, ReviewInv, Reviewing, Accepted
  <2>3. pa_phase \in Reviewing => AsReviewed(f, rg)'
    <3> SUFFICES ASSUME pa_phase \in Reviewing
                 PROVE  AsReviewed(f, rg)'
      OBVIOUS
    <3>1. pa_changes' = pa_changes \cup {what} /\ AsReviewed(f, rg)
      BY <1>2, <2>1 DEF Reviewing, Accepted
    <3> QED
      BY <1>1, <3>1 DEF AsReviewed
  <2> QED
    BY <1>1, <2>2, <2>3 DEF ReviewInv
<1>4. CheckedInv'
  <2>1. pa_phase \in Accepted => pa_late' # {}
    BY <1>2
  <2> QED
    BY <1>1, <2>1 DEF CheckedInv, Accepted
<1>5. DoneInv'
  BY <1>1, <1>2 DEF DoneInv, Accepted, Reviewing, PA!AppliedAsReviewed, PA!ScopedAsReviewed,
     PA!OneTagEach,
       PA!ReasonIsTrue
<1> QED
  BY <1>3, <1>4, <1>5

LEMMA CountedOn ==
  ASSUME NEW n, NEW top \in Nat, n \in 0 .. top, n < top
  PROVE  n + 1 \in 0 .. top
OBVIOUS

LEMMA ListStep ==
  ASSUME PlanShape, ApplyInv, PA!ListChanges
  PROVE  ApplyInv'
<1> USE DEF ApplyInv
<1>1. /\ PA!Note("list") /\ pa_outside < pa_MaxOutside /\ pa_outside' = pa_outside + 1
      /\ UNCHANGED <<pa_compose, pa_cfg, pa_reg, pa_gate, pa_newer>>
  BY DEF PA!ListChanges, PA!Outside
<1>2. pa_list' \in Listings
  <2>1. CASE \E n \in pa_Lines, t \in pa_Targets \cup {PA!NoEntry} : pa_list' = [pa_list EXCEPT !.text[n] = t]
    <3>1. PICK n \in pa_Lines, t \in pa_Targets \cup {PA!NoEntry} : pa_list' = [pa_list EXCEPT !.text[n] = t]
      BY <2>1
    <3>2. t \in PlanEntries
      BY DEF PlanEntries
    <3> QED
      BY <3>1, <3>2 DEF ApplyTypes, Listings
  <2>2. CASE pa_list' = [pa_list EXCEPT !.fresh = FALSE]
    BY <2>2 DEF ApplyTypes, Listings
  <2> QED
    BY <2>1, <2>2 DEF PA!ListChanges
<1>3. UNCHANGED <<pa_phase, pa_req, pa_plan, pa_source, pa_jobCfg, pa_reason, pa_applied>>
  BY <1>1 DEF PA!Note
<1>4. pa_outside' \in 0 .. pa_MaxOutside
  BY <1>1, CountedOn DEF ApplyTypes, PlanShape
<1>5. ApplyTypes'
  BY <1>1, <1>2, <1>3, <1>4 DEF ApplyTypes, PA!SelectedLines
<1> QED
  BY <1>1, <1>5, NotedStep

LEMMA ComposeStep ==
  ASSUME PlanShape, ApplyInv, PA!ComposeEdited
  PROVE  ApplyInv'
<1> USE DEF ApplyInv
<1>1. /\ PA!Note("compose") /\ pa_outside < pa_MaxOutside /\ pa_outside' = pa_outside + 1
      /\ UNCHANGED <<pa_list, pa_cfg, pa_reg, pa_gate, pa_newer>>
  BY DEF PA!ComposeEdited, PA!Outside
<1>2. pa_phase # "done" /\ UNCHANGED <<pa_phase, pa_req, pa_plan, pa_source, pa_jobCfg, pa_reason, pa_applied>>
  BY <1>1 DEF PA!Note
<1>3. pa_compose' \in [pa_Slots -> pa_Images]
  BY <1>2 DEF PA!ComposeEdited, ApplyTypes
<1>4. pa_outside' \in 0 .. pa_MaxOutside
  BY <1>1, CountedOn DEF ApplyTypes, PlanShape
<1>5. ApplyTypes'
  BY <1>1, <1>2, <1>3, <1>4 DEF ApplyTypes, PA!SelectedLines
<1> QED
  BY <1>1, <1>5, NotedStep

LEMMA SettingsStep ==
  ASSUME PlanShape, ApplyInv, PA!SettingsSaved
  PROVE  ApplyInv'
<1> USE DEF ApplyInv
<1>1. /\ PA!Note("settings") /\ pa_outside < pa_MaxOutside /\ pa_outside' = pa_outside + 1
      /\ UNCHANGED <<pa_list, pa_compose, pa_reg, pa_gate, pa_newer>>
  BY DEF PA!SettingsSaved, PA!Outside
<1>2. UNCHANGED <<pa_phase, pa_req, pa_plan, pa_source, pa_jobCfg, pa_reason, pa_applied>>
  BY <1>1 DEF PA!Note
<1>3. pa_cfg' \in Settings
  <2>1. pa_cfg \in Settings
    BY DEF ApplyTypes
  <2>2. CASE pa_cfg' = [pa_cfg EXCEPT !.pin = ~pa_cfg.pin]
    <3>1. (~pa_cfg.pin) \in BOOLEAN
      OBVIOUS
    <3>2. PICK b \in BOOLEAN : b = ~pa_cfg.pin
      BY <3>1
    <3> QED
      BY <2>1, <2>2, <3>2 DEF Settings
  <2>3. CASE \E s \in pa_Slots : pa_cfg' = [pa_cfg EXCEPT !.ignored = {PA!Stack(s)}]
    BY <2>1, <2>3 DEF Settings
  <2> QED
    BY <2>2, <2>3 DEF PA!SettingsSaved
<1>4. pa_outside' \in 0 .. pa_MaxOutside
  BY <1>1, CountedOn DEF ApplyTypes, PlanShape
<1>5. ApplyTypes'
  BY <1>1, <1>2, <1>3, <1>4 DEF ApplyTypes, PA!SelectedLines
<1> QED
  BY <1>1, <1>5, NotedStep

LEMMA RegistryStep ==
  ASSUME PlanShape, ApplyInv, PA!RegistryChanges
  PROVE  ApplyInv'
<1> USE DEF ApplyInv
<1>1. /\ PA!Note("registry") /\ pa_outside < pa_MaxOutside /\ pa_outside' = pa_outside + 1
      /\ UNCHANGED <<pa_list, pa_compose, pa_cfg, pa_gate, pa_newer>>
  BY DEF PA!RegistryChanges, PA!Outside
<1>2. UNCHANGED <<pa_phase, pa_req, pa_plan, pa_source, pa_jobCfg, pa_reason, pa_applied>>
  BY <1>1 DEF PA!Note
<1>3. pa_reg' \subseteq AllTags
  BY DEF PA!RegistryChanges, ApplyTypes
<1>4. pa_outside' \in 0 .. pa_MaxOutside
  BY <1>1, CountedOn DEF ApplyTypes, PlanShape
<1>5. ApplyTypes'
  BY <1>1, <1>2, <1>3, <1>4 DEF ApplyTypes, PA!SelectedLines
<1> QED
  BY <1>1, <1>5, NotedStep

LEMMA OtherEndsStep ==
  ASSUME PlanShape, ApplyInv, PA!OtherJobEnds
  PROVE  ApplyInv'
<1> USE DEF ApplyInv
<1>1. /\ PA!Note("compose") /\ pa_gate' = "free"
      /\ UNCHANGED <<pa_list, pa_cfg, pa_reg, pa_newer, pa_outside>>
  BY DEF PA!OtherJobEnds
<1>2. pa_phase # "done" /\ UNCHANGED <<pa_phase, pa_req, pa_plan, pa_source, pa_jobCfg, pa_reason, pa_applied>>
  BY <1>1 DEF PA!Note
<1>3. pa_compose' \in [pa_Slots -> pa_Images]
  BY <1>2 DEF PA!OtherJobEnds, ApplyTypes, PlanShape
<1>4. ApplyTypes'
  BY <1>1, <1>2, <1>3 DEF ApplyTypes, PA!SelectedLines
<1> QED
  BY <1>1, <1>4, NotedStep

(* Nothing that the plan depends on changes.                                  *)
LEMMA QuietStep ==
  ASSUME PlanShape, ApplyInv,
         UNCHANGED <<pa_list, pa_compose, pa_cfg, pa_reg, pa_phase, pa_req, pa_plan, pa_source, pa_jobCfg, pa_reason,
                     pa_applied, pa_changes, pa_late>>,
         pa_gate' \in {"free", "mine", "other"}, pa_newer' \in 0 .. pa_PlanLimit,
         pa_outside' \in 0 .. pa_MaxOutside
  PROVE  ApplyInv'
<1> USE DEF ApplyInv
<1>1. ApplyTypes'
  BY DEF ApplyTypes, PA!SelectedLines
<1>2. ReviewInv'
  <2> SUFFICES ASSUME pa_phase # "idle"
               PROVE  ReviewInv'
    BY DEF ReviewInv
  <2>1. PICK f, rg : BuiltFrom(f, rg) /\ (pa_phase \in Reviewing => AsReviewed(f, rg))
    BY DEF ReviewInv
  <2>2. BuiltFrom(f, rg)' /\ ~pa_plan'.error /\ (pa_phase' \in Reviewing => AsReviewed(f, rg)')
    BY <2>1 DEF BuiltFrom, AsReviewed, ReviewInv
  <2> QED
    BY <2>2 DEF ReviewInv
<1>3. CheckedInv'
  BY DEF CheckedInv, Agrees
<1>4. DoneInv'
  BY DEF DoneInv, PA!AppliedAsReviewed, PA!ScopedAsReviewed, PA!OneTagEach, PA!ReasonIsTrue
<1> QED
  BY <1>1, <1>2, <1>3, <1>4

LEMMA ApplyStep ==
  ASSUME PlanShape, ApplyInv, [PA!Next]_(PA!vars)
  PROVE  ApplyInv'
<1>1. CASE PA!OtherJob
  <2>1. pa_outside' \in 0 .. pa_MaxOutside /\ pa_newer' \in 0 .. pa_PlanLimit
    BY <1>1, CountedOn DEF PA!OtherJob, ApplyInv, ApplyTypes, PlanShape
  <2> QED
    BY <1>1, <2>1, QuietStep DEF PA!OtherJob
<1>2. CASE PA!OtherReview
  <2>1. pa_outside' \in 0 .. pa_MaxOutside /\ pa_newer' \in 0 .. pa_PlanLimit /\ pa_gate' \in {"free", "mine", "other"}
    BY <1>2, CountedOn DEF PA!OtherReview, ApplyInv, ApplyTypes, PlanShape
  <2> QED
    BY <1>2, <2>1, QuietStep DEF PA!OtherReview
<1>3. CASE UNCHANGED PA!vars
  <2>1. pa_outside' \in 0 .. pa_MaxOutside /\ pa_newer' \in 0 .. pa_PlanLimit /\ pa_gate' \in {"free", "mine", "other"}
    BY <1>3 DEF PA!vars, ApplyInv, ApplyTypes
  <2> QED
    BY <1>3, <2>1, QuietStep DEF PA!vars
<1> QED
  BY <1>1, <1>2, <1>3, ReviewStep, AskStep, FetchStep, RecheckStep, SubmitStep, StartStep,
     RunningStep,
     ListStep, ComposeStep, SettingsStep, RegistryStep, OtherEndsStep DEF PA!Next

PlansKept ==
    PA!TypeOK /\ PA!AppliedAsReviewed /\ PA!ScopedAsReviewed /\ PA!OneTagEach /\ PA!ReasonIsTrue

(* A job does what was reviewed unless something changed after the check of   *)
(* api_create_job, and with stack selections even then; no service gets the   *)
(* tag of one line while another asks for a different one; and a plan is      *)
(* refused as stale for a reason that is true: for all lists, Compose files,  *)
(* selections and decisions, and any number of changes from outside.          *)
THEOREM PlansAreKept ==
  ASSUME PlanShape
  PROVE  PA!Spec => []PlansKept
<1>1. PA!Init => ApplyInv
  BY ApplyInit
<1>2. ApplyInv /\ [PA!Next]_(PA!vars) => ApplyInv'
  BY ApplyStep
<1>3. ApplyInv => PlansKept
  <2> SUFFICES ASSUME ApplyInv
               PROVE  PA!TypeOK
    BY DEF ApplyInv, DoneInv, PlansKept
  <2>1. DOMAIN pa_list.text = pa_Lines /\ pa_list.fresh \in BOOLEAN
    BY DEF ApplyInv, ApplyTypes, Listings
  <2>2. pa_cfg.pin \in BOOLEAN /\ pa_cfg.ignored \subseteq {PA!Stack(s) : s \in pa_Slots}
    BY DEF ApplyInv, ApplyTypes, Settings
  <2>3. {"", "dig"} \cup AllTags = {"", "dig", "v2a", "v2b", "v3a"}
    BY DEF AllTags
  <2> QED
    BY <2>1, <2>2, <2>3 DEF ApplyInv, ApplyTypes, PA!TypeOK
<1> QED
  BY <1>1, <1>2, <1>3, PTL DEF PA!Spec

-----------------------------------------------------------------------------
(****************************************************************************)
(* The components together                                                  *)
(****************************************************************************)

LEMMA UpdaterRuns == PartsSpec => Spec
<1>1. PartsInit => Init
  BY DEF PartsInit
<1>2. [PartsNext]_partsVars => [Next]_vars
  BY DEF PartsNext, OnlyRun, OnlyPending, OnlyPlan, partsVars, vars
<1> QED
  BY <1>1, <1>2, PTL DEF PartsSpec, Spec

LEMMA PendingRuns == PartsSpec => PO!Spec
<1>1. PartsInit => PO!Init
  BY DEF PartsInit
<1>2. [PartsNext]_partsVars => [PO!Next]_(PO!vars)
  BY DEF PartsNext, OnlyRun, OnlyPending, OnlyPlan, partsVars, poVars, PO!vars
<1> QED
  BY <1>1, <1>2, PTL DEF PartsSpec, PO!Spec

LEMMA PlanRuns == PartsSpec => PA!Spec
<1>1. PartsInit => PA!Init
  BY DEF PartsInit
<1>2. [PartsNext]_partsVars => [PA!Next]_(PA!vars)
  BY DEF PartsNext, OnlyRun, OnlyPending, OnlyPlan, partsVars, paVars, PA!vars
<1> QED
  BY <1>1, <1>2, PTL DEF PartsSpec, PA!Spec

(* The variables of a run, of the observations, and of a plan and its job     *)
(* keep their types.                                                          *)
THEOREM UpdatesTyped == PartsSpec => []UpdateTypes
<1>1. PartsSpec => []TypeOK
  BY UpdaterRuns, UpdaterTypes, PTL
<1>2. PartsSpec => []PO!TypeOK
  BY PendingRuns, ObservationsAreTrue, PTL
<1>3. PartsSpec => []PA!TypeOK
  <2>1. PA!Spec => []PlansKept
    BY PlansAreKept, PlanAssumption
  <2>2. PlansKept => PA!TypeOK
    BY DEF PlansKept
  <2> QED
    BY PlanRuns, <2>1, <2>2, PTL
<1>4. TypeOK /\ PO!TypeOK /\ PA!TypeOK => UpdateTypes
  BY DEF UpdateTypes
<1> QED
  BY <1>1, <1>2, <1>3, <1>4, PTL

(* What is applied is fresh and as reviewed, for any number of lines, stacks, *)
(* services, containers and changes from outside: an old result is kept only  *)
(* for its own image and API, a job does what was reviewed unless something   *)
(* changed after the check, and with stack selections even then; one service  *)
(* gets one tag; and a plan is refused as stale for a reason that is true.    *)
THEOREM AppliedIsReviewed == PartsSpec => []AppliedAsReviewed
<1>1. PartsSpec => []Observing
  BY PendingRuns, ObservationsAreTrue, PTL
<1>2. PartsSpec => []PlansKept
  <2>1. PA!Spec => []PlansKept
    BY PlansAreKept, PlanAssumption
  <2> QED
    BY PlanRuns, <2>1, PTL
<1>3. Observing /\ PlansKept => AppliedAsReviewed
  BY DEF Observing, PlansKept, AppliedAsReviewed
<1> QED
  BY <1>1, <1>2, <1>3, PTL
==============================================================================
