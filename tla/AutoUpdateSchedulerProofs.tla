------------------------ MODULE AutoUpdateSchedulerProofs ------------------------
(***************************************************************************)
(* Proofs about AutoUpdateScheduler, for any number of processes on one     *)
(* database, services, policies, crashes and failing writes: a slot is run  *)
(* at most once, its row says what happened to it, and never goes back; it  *)
(* is submitted in time, and a tick loses none that is held.                *)
(***************************************************************************)
EXTENDS AutoUpdateScheduler, TLAPS

-----------------------------------------------------------------------------
(* Types *)

LEMMA OccurrencesAreSlots ==
    ASSUME TypeOK, NEW s \in Services, NEW t PROVE Occurrences(s, t) \subseteq Slots
BY DEF TypeOK, Occurrences, Slots

LEMMA OpenSlotsAreSlots ==
    ASSUME TypeOK, NEW p \in Processes, NEW t PROVE OpenSlots(p, t) \subseteq Slots
BY OccurrencesAreSlots DEF OpenSlots

LEMMA SlotsOfLines ==
    ASSUME TypeOK, NEW p \in Processes, NEW L
    PROVE  UNION {SlotsOf(p, l) : l \in L} \subseteq Slots
BY DEF TypeOK, SlotsOf

LEMMA SetRowsType ==
    ASSUME TypeOK, NEW S, NEW status \in Statuses
    PROVE  SetRows(S, status) \in [Slots -> Statuses]
BY DEF TypeOK, SetRows

(* What BuildPlan does to the process, whatever is pending and blocked *)
LEMMA PlanShape ==
    ASSUME TypeOK, NEW p \in Processes, BuildPlan(p)
    PROVE  \E S \in SUBSET Slots, H \in SUBSET Slots, t \in {"idle", "reserve"} :
               /\ S \subseteq due[p] /\ H \subseteq due[p]
               /\ t = "idle" => S = {}
               /\ selected' = [selected EXCEPT ![p] = S]
               /\ held' = [held EXCEPT ![p] = H]
               /\ tick' = [tick EXCEPT ![p] = t]
<1>1. PICK pending \in SUBSET Lines, blocked \in SUBSET Range(UpdateMode) :
          BuildPlan(p)!2!(pending, blocked)
  BY DEF BuildPlan
<1> DEFINE lines == {l \in pending : Eligible(p, l)}
           modes == {m \in Range(UpdateMode) : LinesOf(lines, m) # {}}
           chosen == {m \in modes \ blocked :
                         \A n \in modes \ {m} : n \in blocked \/ Before(p, lines, m, n)}
           slots(ms) == UNION {SlotsOf(p, l) :
                                  l \in UNION {LinesOf(lines, m) : m \in ms}}
<1>2. slots(chosen) \in SUBSET Slots /\ slots(modes) \in SUBSET Slots
  BY SlotsOfLines
<1>3. slots(chosen) \subseteq due[p] /\ slots(modes) \subseteq due[p]
  BY DEF SlotsOf
<1>4. chosen = {} => slots(chosen) = {}
  OBVIOUS
<1>5. /\ selected' = [selected EXCEPT ![p] = slots(chosen)]
      /\ held' = [held EXCEPT ![p] = slots(modes) \ slots(chosen)]
      /\ tick' = [tick EXCEPT ![p] = IF chosen = {} THEN "idle" ELSE "reserve"]
  BY <1>1
<1> HIDE DEF lines, modes, chosen, slots
<1>6. CASE chosen = {}
  BY <1>2, <1>3, <1>4, <1>5, <1>6
<1>7. CASE chosen # {}
  BY <1>2, <1>3, <1>5, <1>7
<1> QED
  BY <1>6, <1>7

LEMMA InitTypes == Init => TypeOK
BY SchedulerAssumption
   DEF SchedulerAssumption, Init, TypeOK, TickStates, Jobs, Statuses, NoJob

LEMMA TypeStep == TypeOK /\ [Next]_vars => TypeOK'
<1> SUFFICES ASSUME TypeOK, [Next]_vars PROVE TypeOK'
  OBVIOUS
<1> USE DEF TypeOK, TickStates, Jobs
<1>1. CASE UNCHANGED vars
  BY <1>1 DEF vars, dbVars, tickVars, jobVars, boundVars
<1>2. CASE Advance
  BY <1>2, SchedulerAssumption
     DEF SchedulerAssumption, Advance, dbVars, tickVars, jobVars, boundVars
<1>3. ASSUME NEW s \in Services, Edit(s) PROVE TypeOK'
  BY <1>3, SchedulerAssumption
     DEF SchedulerAssumption, Edit, tickVars, jobVars
<1>4. ASSUME NEW p \in Processes,
             \/ OtherMutation(p) \/ TickStart(p) \/ TickStep(p)
             \/ JobStep(p) \/ Crash(p)
      PROVE  TypeOK'
  <2>1. CASE OtherMutation(p)
    BY <2>1 DEF OtherMutation, dbVars, tickVars, jobVars, boundVars
  <2>2. CASE TickStart(p)
    BY <2>2, OpenSlotsAreSlots DEF TickStart, dbVars, jobVars, boundVars
  <2>3. CASE RecordMissed(p)
    <3>1. row' \in [Slots -> Statuses]
      BY <2>3 DEF RecordMissed, Statuses
    <3>2. held' \in [Processes -> SUBSET Slots]
      <4>1. held' = held \/ held' = [held EXCEPT ![p] = held[p] \cap due[p]]
        BY <2>3 DEF RecordMissed
      <4>2. held[p] \cap due[p] \in SUBSET Slots
        OBVIOUS
      <4>3. CASE held' = [held EXCEPT ![p] = held[p] \cap due[p]]
        BY <4>2, <4>3
      <4> QED
        BY <4>1, <4>3
    <3>3. tick' \in [Processes -> TickStates]
      <4>1. \E t \in TickStates : tick' = [tick EXCEPT ![p] = t]
        BY <2>3 DEF RecordMissed
      <4> QED
        BY <4>1
    <3>4. faults' \in 0..MaxFaults
      BY <2>3, SchedulerAssumption DEF SchedulerAssumption, RecordMissed, Fault
    <3> QED
      BY <2>3, <3>1, <3>2, <3>3, <3>4 DEF RecordMissed, tickVars, jobVars
  <2>4. CASE CheckGate(p)
    <3> held[p] \cup due[p] \in SUBSET Slots
      OBVIOUS
    <3>1. held' \in [Processes -> SUBSET Slots]
      <4>1. CASE held' = held
        BY <4>1
      <4>2. CASE held' = [held EXCEPT ![p] = held[p] \cup due[p]]
        BY <4>2
      <4> QED
        BY <2>4, <4>1, <4>2 DEF CheckGate
    <3>2. tick' \in [Processes -> TickStates]
      <4>1. \E t \in TickStates : tick' = [tick EXCEPT ![p] = t]
        BY <2>4 DEF CheckGate
      <4> QED
        BY <4>1
    <3> QED
      BY <2>4, <3>1, <3>2 DEF CheckGate, dbVars, tickVars, jobVars, boundVars
  <2>5. CASE BuildPlan(p)
    <3>1. PICK S \in SUBSET Slots, H \in SUBSET Slots, t \in {"idle", "reserve"} :
              /\ selected' = [selected EXCEPT ![p] = S]
              /\ held' = [held EXCEPT ![p] = H]
              /\ tick' = [tick EXCEPT ![p] = t]
      BY <2>5, PlanShape
    <3> QED
      BY <2>5, <3>1 DEF BuildPlan, dbVars, tickVars, jobVars, boundVars
  <2>6. CASE PlanError(p)
    BY <2>6 DEF PlanError, dbVars, tickVars, jobVars, boundVars
  <2>7. CASE Reserve(p)
    <3>1. row' \in [Slots -> Statuses]
      BY <2>7, SetRowsType DEF Reserve, Statuses
    <3>2. tick' \in [Processes -> TickStates]
      <4>1. \E t \in TickStates : tick' = [tick EXCEPT ![p] = t]
        BY <2>7 DEF Reserve
      <4> QED
        BY <4>1
    <3>3. faults' \in 0..MaxFaults
      BY <2>7, SchedulerAssumption DEF SchedulerAssumption, Reserve, Fault
    <3> QED
      BY <2>7, <3>1, <3>2, <3>3 DEF Reserve, tickVars, jobVars
  <2>8. CASE Submit(p)
    <3> DEFINE new == [state |-> "queued", slots |-> selected[p]]
    <3>1. new \in Jobs
      OBVIOUS
    <3>2. job' = job \/ job' = [job EXCEPT ![p] = new]
      BY <2>8 DEF Submit, jobVars
    <3> HIDE DEF new
    <3>3. job' \in [Processes -> Jobs]
      BY <3>1, <3>2
    <3>4. startEvent' \in [Processes -> BOOLEAN]
      BY <2>8 DEF Submit, jobVars
    <3>5. tick' \in [Processes -> TickStates]
      <4>1. \E t \in TickStates : tick' = [tick EXCEPT ![p] = t]
        BY <2>8 DEF Submit
      <4> QED
        BY <4>1
    <3>6. faults' \in 0..MaxFaults
      BY <2>8, SchedulerAssumption DEF SchedulerAssumption, Submit, Fault
    <3> QED
      BY <2>8, <3>3, <3>4, <3>5, <3>6 DEF Submit, dbVars, tickVars
  <2>9. CASE Release(p)
    BY <2>9, SetRowsType, SchedulerAssumption
       DEF SchedulerAssumption, Release, Fault, tickVars, jobVars, Statuses
  <2>10. CASE Queue(p)
    BY <2>10, SetRowsType, SchedulerAssumption
       DEF SchedulerAssumption, Queue, Fault, tickVars, Statuses
  <2>11. CASE JobStart(p)
    <3>1. job' \in [Processes -> Jobs]
      BY <2>11 DEF JobStart
    <3>2. ran' \in [Slots -> Nat]
      BY <2>11 DEF JobStart
    <3> QED
      BY <2>11, <3>1, <3>2 DEF JobStart, dbVars, tickVars, boundVars
  <2>12. CASE JobFinish(p)
    BY <2>12, SetRowsType, SchedulerAssumption
       DEF SchedulerAssumption, JobFinish, Fault, tickVars, NoJob, Statuses
  <2>13. CASE Crash(p)
    BY <2>13, SchedulerAssumption
       DEF SchedulerAssumption, Crash, dbVars, NoJob
  <2> QED
    BY <1>4, <2>1, <2>2, <2>3, <2>4, <2>5, <2>6, <2>7, <2>8, <2>9, <2>10,
       <2>11, <2>12, <2>13 DEF TickStep, JobStep
<1> QED
  BY <1>1, <1>2, <1>3, <1>4 DEF Next

(* Every variable keeps its type, whatever processes and services there are. *)
THEOREM SchedulerTypes == Spec => []TypeOK
BY InitTypes, TypeStep, PTL DEF Spec

-----------------------------------------------------------------------------
(* Who a row belongs to *)

(* Slots whose rows p inserted for a job it has not submitted yet *)
Reserving(p) == IF tick[p] \in {"submit", "release"} THEN selected[p] ELSE {}

(* Slots whose rows p may still change *)
Own(p) == job[p].slots \cup Reserving(p)

(* The tick and the job of a process: a tick plans only while there is no     *)
(* job, and the job it has just submitted waits for it.                       *)
JobInv ==
    \A p \in Processes :
        /\ job[p].state = "none" => job[p].slots = {}
        /\ tick[p] \in {"plan", "reserve", "submit", "release"} =>
               job[p].state = "none"
        /\ tick[p] = "queue" => /\ job[p].state = "queued"
                                /\ job[p].slots = selected[p]
                                /\ ~startEvent[p]

(* A row has one owner, and is reserved or queued as long as it has one. *)
OwnInv ==
    /\ \A p, q \in Processes : p # q => Own(p) \cap Own(q) = {}
    /\ \A p \in Processes : \A k \in Own(p) : row[k] \in {"reserved", "queued"}
    /\ \A p \in Processes : \A k \in Reserving(p) : row[k] = "reserved"

(* How often a slot was run, by its row and by the job that owns it *)
RanInv ==
    /\ \A k \in Slots : ran[k] \in {0, 1}
    /\ \A k \in Slots : row[k] \in {"none", "missed"} => ran[k] = 0
    /\ \A k \in Slots : row[k] \in {"success", "failure"} => ran[k] = 1
    /\ \A p \in Processes : \A k \in Reserving(p) : ran[k] = 0
    /\ \A p \in Processes : \A k \in job[p].slots :
           ran[k] = IF job[p].state = "running" THEN 1 ELSE 0

IInv == TypeOK /\ JobInv /\ OwnInv /\ RanInv

LEMMA InitIInv == Init => IInv
<1> SUFFICES ASSUME Init PROVE IInv
  OBVIOUS
<1>1. TypeOK
  BY InitTypes
<1>2. \A p \in Processes : job[p] = NoJob /\ tick[p] = "idle"
  BY DEF Init
<1> QED
  BY <1>1, <1>2 DEF Init, NoJob, IInv, JobInv, OwnInv, RanInv, Own, Reserving

LEMMA JobInvStep == IInv /\ [Next]_vars => JobInv'
<1> SUFFICES ASSUME IInv, [Next]_vars PROVE JobInv'
  OBVIOUS
<1> USE DEF IInv, JobInv, TypeOK, Jobs
<1>1. CASE UNCHANGED <<tick, selected, job, startEvent>>
  BY <1>1
<1>2. ASSUME NEW p \in Processes, TickStart(p) PROVE JobInv'
  BY <1>2 DEF TickStart, jobVars
<1>3. ASSUME NEW p \in Processes, RecordMissed(p) PROVE JobInv'
  BY <1>3 DEF RecordMissed, jobVars
<1>4. ASSUME NEW p \in Processes, CheckGate(p) PROVE JobInv'
  BY <1>4 DEF CheckGate, jobVars, Busy
<1>5. ASSUME NEW p \in Processes, BuildPlan(p) PROVE JobInv'
  <2>1. PICK S \in SUBSET Slots, H \in SUBSET Slots, t \in {"idle", "reserve"} :
            /\ selected' = [selected EXCEPT ![p] = S]
            /\ held' = [held EXCEPT ![p] = H]
            /\ tick' = [tick EXCEPT ![p] = t]
    BY <1>5, PlanShape
  <2>2. tick[p] = "plan" /\ UNCHANGED <<job, startEvent>>
    BY <1>5 DEF BuildPlan, jobVars
  <2> QED
    BY <2>1, <2>2
<1>6. ASSUME NEW p \in Processes, PlanError(p) PROVE JobInv'
  BY <1>6 DEF PlanError, jobVars
<1>7. ASSUME NEW p \in Processes, Reserve(p) PROVE JobInv'
  BY <1>7 DEF Reserve, jobVars
<1>8. ASSUME NEW p \in Processes, Submit(p) PROVE JobInv'
  <2>1. CASE UNCHANGED jobVars /\ tick' = [tick EXCEPT ![p] = "release"]
    BY <1>8, <2>1 DEF Submit, jobVars
  <2>2. CASE tick' = [tick EXCEPT ![p] = "queue"]
    <3>1. /\ \A q \in Processes \ {p} : /\ job'[q] = job[q]
                                        /\ tick'[q] = tick[q]
                                        /\ startEvent'[q] = startEvent[q]
          /\ selected' = selected
          /\ tick'[p] = "queue" /\ startEvent'[p] = FALSE
      BY <1>8, <2>2 DEF Submit
    <3>2. job'[p] = [state |-> "queued", slots |-> selected[p]]
      BY <1>8, <2>2 DEF Submit
    <3> QED
      BY <3>1, <3>2
  <2> QED
    BY <1>8, <2>1, <2>2 DEF Submit
<1>9. ASSUME NEW p \in Processes, Release(p) PROVE JobInv'
  BY <1>9 DEF Release, jobVars
<1>10. ASSUME NEW p \in Processes, Queue(p) PROVE JobInv'
  BY <1>10 DEF Queue
<1>11. ASSUME NEW p \in Processes, JobStart(p) PROVE JobInv'
  BY <1>11 DEF JobStart
<1>12. ASSUME NEW p \in Processes, JobFinish(p) PROVE JobInv'
  BY <1>12 DEF JobFinish, NoJob
<1>13. ASSUME NEW p \in Processes, Crash(p) PROVE JobInv'
  BY <1>13 DEF Crash, NoJob
<1>14. CASE \/ UNCHANGED vars \/ Advance
            \/ \E s \in Services : Edit(s)
            \/ \E p \in Processes : OtherMutation(p)
  BY <1>14, <1>1 DEF vars, Advance, Edit, OtherMutation, jobVars
<1> QED
  BY <1>2, <1>3, <1>4, <1>5, <1>6, <1>7, <1>8, <1>9, <1>10, <1>11, <1>12,
     <1>13, <1>14 DEF Next, TickStep, JobStep

LEMMA OwnSlots ==
    ASSUME TypeOK
    PROVE  \A q \in Processes : Own(q) \subseteq Slots /\ Reserving(q) \subseteq Own(q)
BY DEF TypeOK, Jobs, Own, Reserving

(* A step of p leaves the other processes what they own. *)
LEMMA OthersKeep ==
    ASSUME IInv, NEW p \in Processes,
           \/ OtherMutation(p) \/ TickStart(p) \/ TickStep(p)
           \/ JobStep(p) \/ Crash(p)
    PROVE  \A q \in Processes \ {p} : /\ job'[q] = job[q]
                                     /\ Reserving(q)' = Reserving(q)
                                     /\ Own(q)' = Own(q)
<1>1. \A q \in Processes \ {p} : job'[q] = job[q]
  BY DEF IInv, TypeOK, OtherMutation, TickStart, TickStep, RecordMissed,
         CheckGate, BuildPlan, PlanError, Reserve, Submit, Release, Queue,
         JobStep, JobStart, JobFinish, Crash, jobVars
<1>2. \A q \in Processes \ {p} : tick'[q] = tick[q]
  BY DEF IInv, TypeOK, OtherMutation, TickStart, TickStep, RecordMissed,
         CheckGate, BuildPlan, PlanError, Reserve, Submit, Release, Queue,
         JobStep, JobStart, JobFinish, Crash
<1>3. \A q \in Processes \ {p} : selected'[q] = selected[q]
  BY DEF IInv, TypeOK, OtherMutation, TickStart, TickStep, RecordMissed,
         CheckGate, BuildPlan, PlanError, Reserve, Submit, Release, Queue,
         JobStep, JobStart, JobFinish, Crash
<1> QED
  BY <1>1, <1>2, <1>3 DEF Own, Reserving

LEMMA OwnRanStep == IInv /\ [Next]_vars => OwnInv' /\ RanInv'
<1> SUFFICES ASSUME IInv, [Next]_vars PROVE OwnInv' /\ RanInv'
  OBVIOUS
<1>1. CASE \/ UNCHANGED vars \/ Advance
           \/ \E s \in Services : Edit(s)
  <2>1. UNCHANGED <<row, ran, tick, selected, job>>
    BY <1>1 DEF vars, dbVars, jobVars, Advance, Edit
  <2> QED
    BY <2>1 DEF IInv, OwnInv, RanInv, Own, Reserving
<1>2. ASSUME NEW p \in Processes,
             \/ OtherMutation(p) \/ TickStart(p) \/ CheckGate(p)
             \/ BuildPlan(p) \/ PlanError(p)
      PROVE  OwnInv' /\ RanInv'
  <2>1. /\ UNCHANGED <<row, ran, job>>
        /\ tick[p] \notin {"submit", "release"} \/ UNCHANGED <<tick, selected>>
        /\ tick'[p] \notin {"submit", "release"} \/ UNCHANGED <<tick, selected>>
    <3>1. CASE BuildPlan(p)
      <4>1. PICK S \in SUBSET Slots, H \in SUBSET Slots, t \in {"idle", "reserve"} :
                /\ selected' = [selected EXCEPT ![p] = S]
                /\ held' = [held EXCEPT ![p] = H]
                /\ tick' = [tick EXCEPT ![p] = t]
        BY <3>1, PlanShape DEF IInv
      <4> QED
        BY <3>1, <4>1 DEF BuildPlan, IInv, TypeOK, dbVars, jobVars
    <3> QED
      BY <1>2, <3>1 DEF OtherMutation, TickStart, CheckGate, PlanError, IInv,
                        TypeOK, dbVars, jobVars
  <2>2. \A q \in Processes : Reserving(q)' = Reserving(q) /\ Own(q)' = Own(q)
    BY <1>2, <2>1, OthersKeep DEF TickStep, Own, Reserving
  <2> QED
    BY <2>1, <2>2 DEF IInv, OwnInv, RanInv
<1>3. ASSUME NEW p \in Processes, RecordMissed(p) PROVE OwnInv' /\ RanInv'
  <2>1. /\ UNCHANGED <<ran, job, selected>>
        /\ tick[p] = "record" /\ tick'[p] \in {"idle", "gate"}
        /\ \A k \in Slots : row'[k] = row[k] \/ (row[k] = "none" /\ row'[k] = "missed")
    BY <1>3 DEF RecordMissed, IInv, TypeOK, jobVars
  <2>2. \A q \in Processes : Reserving(q)' = Reserving(q) /\ Own(q)' = Own(q)
    BY <1>3, <2>1, OthersKeep DEF TickStep, Own, Reserving
  <2>3. \A q \in Processes : Own(q) \subseteq Slots /\ Reserving(q) \subseteq Own(q)
    BY OwnSlots DEF IInv
  <2>4. OwnInv'
    BY <2>1, <2>2, <2>3 DEF IInv, OwnInv
  <2>5. RanInv'
    BY <2>1, <2>2, <2>3 DEF IInv, RanInv
  <2> QED
    BY <2>4, <2>5
<1>4. ASSUME NEW p \in Processes, Reserve(p) PROVE OwnInv' /\ RanInv'
  <2>1. /\ UNCHANGED <<ran, job, selected>>
        /\ tick[p] = "reserve"
        /\ job[p].slots = {}
    BY <1>4 DEF Reserve, IInv, JobInv, jobVars
  <2>2. CASE UNCHANGED row /\ tick'[p] = "idle"
    <3>1. \A q \in Processes : Reserving(q)' = Reserving(q) /\ Own(q)' = Own(q)
      BY <1>4, <2>1, <2>2, OthersKeep DEF TickStep, Own, Reserving
    <3> QED
      BY <2>1, <2>2, <3>1 DEF IInv, OwnInv, RanInv
  <2>3. CASE /\ selected[p] \cap Recorded = {}
             /\ row' = SetRows(selected[p], "reserved")
             /\ tick'[p] = "submit"
    <3>1. /\ Reserving(p)' = selected[p] /\ Own(p)' = selected[p]
          /\ selected[p] \subseteq Slots
      BY <2>1, <2>3 DEF Own, Reserving, IInv, TypeOK
    <3>2. \A q \in Processes \ {p} : /\ job'[q] = job[q]
                                     /\ Reserving(q)' = Reserving(q)
                                     /\ Own(q)' = Own(q)
      BY <1>4, OthersKeep DEF TickStep
    <3>3. \A q \in Processes : Own(q) \subseteq Slots /\ Reserving(q) \subseteq Own(q)
      BY OwnSlots DEF IInv
    <3>4. \A k \in selected[p] : row[k] = "none" /\ row'[k] = "reserved"
      BY <2>3, <3>1 DEF Recorded, SetRows
    <3>5. \A k \in Slots \ selected[p] : row'[k] = row[k]
      BY <2>3 DEF SetRows
    <3>6. \A q \in Processes : Own(q) \cap selected[p] = {}
      BY <3>3, <3>4 DEF IInv, OwnInv
    <3>7. OwnInv'
      BY <3>1, <3>2, <3>3, <3>4, <3>5, <3>6 DEF IInv, OwnInv
    <3>8. RanInv'
      BY <2>1, <3>1, <3>2, <3>3, <3>4, <3>5, <3>6 DEF IInv, RanInv
    <3> QED
      BY <3>7, <3>8
  <2> QED
    BY <1>4, <2>2, <2>3 DEF Reserve, IInv, TypeOK
<1>5. ASSUME NEW p \in Processes, Submit(p) PROVE OwnInv' /\ RanInv'
  <2>1. /\ UNCHANGED <<row, ran, selected>>
        /\ tick[p] = "submit"
        /\ job[p].slots = {} /\ Reserving(p) = selected[p]
    BY <1>5 DEF Submit, IInv, JobInv, dbVars, Reserving
  <2>2. \A q \in Processes \ {p} : /\ job'[q] = job[q]
                                   /\ Reserving(q)' = Reserving(q)
                                   /\ Own(q)' = Own(q)
    BY <1>5, OthersKeep DEF TickStep
  <2>3. CASE tick'[p] = "release" /\ job' = job
    <3>1. Reserving(p)' = Reserving(p) /\ Own(p)' = Own(p)
      BY <2>1, <2>3 DEF Own, Reserving
    <3> QED
      BY <2>1, <2>2, <2>3, <3>1 DEF IInv, OwnInv, RanInv
  <2>4. CASE /\ tick'[p] = "queue"
             /\ job'[p] = [state |-> "queued", slots |-> selected[p]]
    <3>1. /\ Reserving(p)' = {} /\ Own(p)' = Own(p)
          /\ job'[p].slots = Reserving(p) /\ job'[p].state = "queued"
      BY <2>1, <2>4 DEF Own, Reserving
    <3>2. OwnInv'
      BY <2>1, <2>2, <3>1 DEF IInv, OwnInv
    <3>3. RanInv'
      BY <2>1, <2>2, <3>1 DEF IInv, RanInv
    <3> QED
      BY <3>2, <3>3
  <2> QED
    BY <1>5, <2>3, <2>4 DEF Submit, IInv, TypeOK, jobVars
<1>6. ASSUME NEW p \in Processes, Release(p) PROVE OwnInv' /\ RanInv'
  <2>1. /\ UNCHANGED <<ran, job, selected>>
        /\ tick[p] = "release" /\ tick'[p] = "idle"
        /\ job[p].slots = {}
        /\ Reserving(p) = selected[p] /\ Own(p) = selected[p]
        /\ Reserving(p)' = {} /\ Own(p)' = {}
    BY <1>6 DEF Release, IInv, JobInv, TypeOK, jobVars, Own, Reserving
  <2>2. \A q \in Processes \ {p} : /\ job'[q] = job[q]
                                   /\ Reserving(q)' = Reserving(q)
                                   /\ Own(q)' = Own(q)
    BY <1>6, OthersKeep DEF TickStep
  <2>3. \A q \in Processes : Own(q) \subseteq Slots /\ Reserving(q) \subseteq Own(q)
    BY OwnSlots DEF IInv
  <2>4. \A k \in Slots : row'[k] = row[k] \/ (k \in Reserving(p) /\ row'[k] = "none")
    BY <1>6, <2>1 DEF Release, SetRows
  <2>5. \A q \in Processes \ {p} : \A k \in Own(q) : row'[k] = row[k]
    BY <2>1, <2>3, <2>4 DEF IInv, OwnInv
  <2>6. OwnInv'
    BY <2>1, <2>2, <2>3, <2>5 DEF IInv, OwnInv
  <2>7. RanInv'
    BY <2>1, <2>2, <2>3, <2>4 DEF IInv, RanInv
  <2> QED
    BY <2>6, <2>7
<1>7. ASSUME NEW p \in Processes, Queue(p) PROVE OwnInv' /\ RanInv'
  <2>1. /\ UNCHANGED <<ran, job, selected>>
        /\ tick[p] = "queue" /\ tick'[p] = "idle"
        /\ job[p].slots = selected[p]
        /\ Reserving(p) = {} /\ Own(p) = selected[p]
        /\ Reserving(p)' = {} /\ Own(p)' = selected[p]
    BY <1>7 DEF Queue, IInv, JobInv, TypeOK, Own, Reserving
  <2>2. \A q \in Processes \ {p} : /\ job'[q] = job[q]
                                   /\ Reserving(q)' = Reserving(q)
                                   /\ Own(q)' = Own(q)
    BY <1>7, OthersKeep DEF TickStep
  <2>3. \A q \in Processes : Own(q) \subseteq Slots /\ Reserving(q) \subseteq Own(q)
    BY OwnSlots DEF IInv
  <2>4. \A k \in Slots : row'[k] = row[k] \/ (k \in Own(p) /\ row'[k] = "queued")
    BY <1>7, <2>1 DEF Queue, SetRows
  <2>5. \A q \in Processes \ {p} : \A k \in Own(q) : row'[k] = row[k]
    BY <2>1, <2>3, <2>4 DEF IInv, OwnInv
  <2>6. OwnInv'
    BY <2>1, <2>2, <2>3, <2>4, <2>5 DEF IInv, OwnInv
  <2>7. RanInv'
    BY <2>1, <2>2, <2>3, <2>4 DEF IInv, RanInv
  <2> QED
    BY <2>6, <2>7
<1>8. ASSUME NEW p \in Processes, JobStart(p) PROVE OwnInv' /\ RanInv'
  <2>1. /\ UNCHANGED <<row, tick, selected>>
        /\ job[p].state = "queued" /\ job'[p].state = "running"
        /\ job'[p].slots = job[p].slots
        /\ tick[p] \notin {"submit", "release"}
        /\ Reserving(p)' = {} /\ Own(p)' = Own(p)
    BY <1>8 DEF JobStart, IInv, JobInv, TypeOK, Jobs, dbVars, Own, Reserving
  <2>2. \A q \in Processes \ {p} : /\ job'[q] = job[q]
                                   /\ Reserving(q)' = Reserving(q)
                                   /\ Own(q)' = Own(q)
    BY <1>8, OthersKeep DEF JobStep
  <2>3. \A q \in Processes : Own(q) \subseteq Slots /\ Reserving(q) \subseteq Own(q)
    BY OwnSlots DEF IInv
  <2>4. /\ \A k \in Slots \ job[p].slots : ran'[k] = ran[k]
        /\ \A k \in Slots \cap job[p].slots : ran[k] = 0 /\ ran'[k] = 1
    BY <1>8, <2>1 DEF JobStart, IInv, RanInv
  <2>5. OwnInv'
    BY <2>1, <2>2 DEF IInv, OwnInv
  <2>6. \A q \in Processes \ {p} : \A k \in Own(q) : ran'[k] = ran[k]
    BY <2>3, <2>4 DEF IInv, OwnInv, Own
  <2>7. /\ \A k \in job[p].slots : k \in Slots /\ row[k] \in {"reserved", "queued"}
        /\ \A q \in Processes : job[q].slots \subseteq Own(q)
    BY <2>3 DEF IInv, OwnInv, Own
  <2>8. RanInv'
    BY <2>1, <2>2, <2>3, <2>4, <2>6, <2>7 DEF IInv, RanInv
  <2> QED
    BY <2>5, <2>8
<1>9. ASSUME NEW p \in Processes, JobFinish(p) PROVE OwnInv' /\ RanInv'
  <2>1. /\ UNCHANGED <<ran, tick, selected>>
        /\ job[p].state = "running" /\ job'[p].slots = {}
        /\ Reserving(p)' = {} /\ Own(p)' = {}
        /\ Own(p) = job[p].slots
    BY <1>9 DEF JobFinish, NoJob, IInv, JobInv, TypeOK, Own, Reserving
  <2>2. \A q \in Processes \ {p} : /\ job'[q] = job[q]
                                   /\ Reserving(q)' = Reserving(q)
                                   /\ Own(q)' = Own(q)
    BY <1>9, OthersKeep DEF JobStep
  <2>3. \A q \in Processes : Own(q) \subseteq Slots /\ Reserving(q) \subseteq Own(q)
    BY OwnSlots DEF IInv
  <2>4. \A k \in Slots : \/ row'[k] = row[k]
                         \/ k \in job[p].slots /\ row'[k] \in {"success", "failure"}
    BY <1>9 DEF JobFinish, SetRows
  <2>5. \A q \in Processes \ {p} : \A k \in Own(q) : row'[k] = row[k]
    BY <2>1, <2>3, <2>4 DEF IInv, OwnInv
  <2>6. OwnInv'
    BY <2>1, <2>2, <2>3, <2>5 DEF IInv, OwnInv
  <2>7. RanInv'
    BY <2>1, <2>2, <2>4 DEF IInv, RanInv
  <2> QED
    BY <2>6, <2>7
<1>10. ASSUME NEW p \in Processes, Crash(p) PROVE OwnInv' /\ RanInv'
  <2>1. /\ UNCHANGED <<row, ran>>
        /\ job'[p].slots = {} /\ Reserving(p)' = {} /\ Own(p)' = {}
    BY <1>10 DEF Crash, NoJob, IInv, TypeOK, dbVars, Own, Reserving
  <2>2. \A q \in Processes \ {p} : /\ job'[q] = job[q]
                                   /\ Reserving(q)' = Reserving(q)
                                   /\ Own(q)' = Own(q)
    BY <1>10, OthersKeep
  <2> QED
    BY <2>1, <2>2 DEF IInv, OwnInv, RanInv
<1> QED
  BY <1>1, <1>2, <1>3, <1>4, <1>5, <1>6, <1>7, <1>8, <1>9, <1>10
     DEF Next, TickStep, JobStep

LEMMA InvariantHolds == Spec => []IInv
<1>1. IInv /\ [Next]_vars => IInv'
  BY TypeStep, JobInvStep, OwnRanStep DEF IInv
<1> QED
  BY <1>1, InitIInv, PTL DEF Spec

-----------------------------------------------------------------------------
(* The theorems *)

(* A slot is run at most once, for any number of processes on the database    *)
(* and any number of crashes and failing writes.                              *)
THEOREM EachSlotRunsOnce == Spec => []RunsOnce
<1>1. IInv => RunsOnce
  BY DEF IInv, RanInv, RunsOnce
<1> QED
  BY <1>1, InvariantHolds, PTL

(* A slot recorded as missed was not run, one recorded with an outcome was,   *)
(* and the rows of a job are reserved or queued as long as the job lives.     *)
THEOREM RowsAreTrue == Spec => []RowsTellTheTruth
<1>1. IInv => RowsTellTheTruth
  BY DEF IInv, OwnInv, RanInv, Own, RowsTellTheTruth
<1> QED
  BY <1>1, InvariantHolds, PTL

(* A row never goes back: the "queued" of a tick never overwrites the outcome *)
(* of its own job, and no process touches the rows of another.                *)
THEOREM RowsNeverGoBack == Spec => RowsGoForward
<1> DEFINE Forward ==
        \A k \in Slots : row'[k] # row[k] =>
            \/ row[k] = "none" /\ row'[k] \in {"reserved", "missed"}
            \/ row[k] = "reserved" /\ row'[k] \in {"none", "queued", "success", "failure"}
            \/ row[k] = "queued" /\ row'[k] \in {"success", "failure"}
<1>1. ASSUME IInv, [Next]_vars PROVE [Forward]_vars
  <2>1. CASE UNCHANGED row
    BY <2>1
  <2>2. ASSUME NEW p \in Processes, RecordMissed(p) PROVE Forward
    BY <2>2 DEF RecordMissed
  <2>3. ASSUME NEW p \in Processes, Reserve(p) PROVE Forward
    BY <2>3 DEF Reserve, SetRows, Recorded
  <2>4. ASSUME NEW p \in Processes, Release(p) PROVE Forward
    BY <2>4 DEF Release, SetRows
  <2>5. ASSUME NEW p \in Processes, Queue(p) PROVE Forward
    <3>1. \A k \in selected[p] : row[k] \in {"reserved", "queued"}
      BY <1>1, <2>5 DEF Queue, IInv, JobInv, OwnInv, Own
    <3> QED
      BY <2>5, <3>1 DEF Queue, SetRows
  <2>6. ASSUME NEW p \in Processes, JobFinish(p) PROVE Forward
    <3>1. \A k \in job[p].slots : row[k] \in {"reserved", "queued"}
      BY <1>1 DEF IInv, OwnInv, Own
    <3> QED
      BY <2>6, <3>1 DEF JobFinish, SetRows
  <2> QED
    BY <1>1, <2>1, <2>2, <2>3, <2>4, <2>5, <2>6
       DEF Next, TickStep, JobStep, vars, dbVars, Advance, Edit, OtherMutation,
           TickStart, CheckGate, BuildPlan, PlanError, Submit, JobStart, Crash
<1> QED
  BY <1>1, InvariantHolds, PTL DEF Spec, RowsGoForward

-----------------------------------------------------------------------------
(* When a slot is submitted *)

(* What a tick works on was due when it began: its time had come, its late    *)
(* limit had not, and the process was up in its window.  A slot is held only  *)
(* by a process that was.                                                     *)
TimeInv ==
    \A p \in Processes :
        /\ selected[p] \subseteq due[p]
        /\ \A k \in due[p] : /\ ScheduledFor(k) <= tickNow[p]
                             /\ tickNow[p] < LateLimit(k)
                             /\ startedAt[p] < WindowEnd(k)
        /\ \A k \in held[p] : startedAt[p] < WindowEnd(k)

LEMMA SlotTimes ==
    ASSUME NEW k \in Slots
    PROVE  ScheduledFor(k) \in Int /\ WindowEnd(k) \in Int /\ LateLimit(k) \in Int
           /\ WindowEnd(k) <= LateLimit(k)
<1>1. k.date \in Int /\ k.time \in Int
  BY SchedulerAssumption DEF SchedulerAssumption, Slots, Days
<1>2. Day \in Int /\ Grace \in Int /\ MaxLate \in Int /\ Grace <= MaxLate
  BY SchedulerAssumption DEF SchedulerAssumption
<1>3. ScheduledFor(k) \in Int
  BY <1>1, <1>2 DEF ScheduledFor
<1> QED
  BY <1>2, <1>3 DEF WindowEnd, LateLimit

(* The latest occurrence of a policy is not in the future. *)
LEMMA OccurrencesArePast ==
    ASSUME NEW s \in Services, NEW t \in Nat, NEW k \in Occurrences(s, t)
    PROVE  ScheduledFor(k) <= t
BY DEF Occurrences, ScheduledFor

LEMMA TimeStep == TypeOK /\ TimeInv /\ [Next]_vars => TimeInv'
<1> SUFFICES ASSUME TypeOK, TimeInv, [Next]_vars PROVE TimeInv'
  OBVIOUS
<1>t. /\ held \in [Processes -> SUBSET Slots]
      /\ tickNow \in [Processes -> 0..MaxTime]
      /\ startedAt \in [Processes -> 0..MaxTime]
      /\ due \in [Processes -> SUBSET Slots]
      /\ selected \in [Processes -> SUBSET Slots]
      /\ now \in 0..MaxTime
  BY DEF TypeOK
<1>1. CASE UNCHANGED <<selected, due, tickNow, startedAt, held>>
  BY <1>1 DEF TimeInv
<1>2. ASSUME NEW p \in Processes, TickStart(p) PROVE TimeInv'
  <2> DEFINE open == OpenSlots(p, now)
             live == {k \in open : InWindow(p, now, k) \/ now < LateLimit(k)}
  <2>1. /\ tickNow' = [tickNow EXCEPT ![p] = now]
        /\ due' = [due EXCEPT ![p] = live]
        /\ selected' = [selected EXCEPT ![p] = {}]
        /\ UNCHANGED <<startedAt, held>>
    BY <1>2 DEF TickStart
  <2>2. \A k \in open : k \in Slots /\ ScheduledFor(k) <= now
                        /\ startedAt[p] < WindowEnd(k)
    <3> SUFFICES ASSUME NEW k \in open
                 PROVE  k \in Slots /\ ScheduledFor(k) <= now /\ startedAt[p] < WindowEnd(k)
      OBVIOUS
    <3>1. PICK s \in Services : k \in Occurrences(s, now)
      BY DEF OpenSlots
    <3>2. now \in Nat
      BY <1>t, SchedulerAssumption DEF SchedulerAssumption
    <3>3. InWindow(p, now, k) \/ k \in held[p]
      BY DEF OpenSlots
    <3> QED
      BY <3>1, <3>2, <3>3, OccurrencesAreSlots, OccurrencesArePast DEF InWindow, TimeInv
  <2>3. \A k \in live : now < LateLimit(k)
    <3> SUFFICES ASSUME NEW k \in live PROVE now < LateLimit(k)
      OBVIOUS
    <3>1. now \in Int /\ k \in Slots
      BY <1>t, <2>2, SchedulerAssumption DEF SchedulerAssumption
    <3> QED
      BY <3>1, SlotTimes DEF InWindow
  <2>4. live \subseteq open
    OBVIOUS
  <2> HIDE DEF open, live
  <2> QED
    BY <1>t, <2>1, <2>2, <2>3, <2>4 DEF TimeInv
<1>3. ASSUME NEW p \in Processes, RecordMissed(p) PROVE TimeInv'
  <2>1. /\ UNCHANGED <<selected, due, tickNow, startedAt>>
        /\ held' = held \/ held' = [held EXCEPT ![p] = held[p] \cap due[p]]
    BY <1>3 DEF RecordMissed, tickVars
  <2>2. \A q \in Processes : held'[q] \subseteq held[q]
    BY <1>t, <2>1
  <2> QED
    BY <2>1, <2>2 DEF TimeInv
<1>4. ASSUME NEW p \in Processes, CheckGate(p) PROVE TimeInv'
  <2>1. /\ UNCHANGED <<selected, due, tickNow, startedAt>>
        /\ held' = held \/ held' = [held EXCEPT ![p] = held[p] \cup due[p]]
    BY <1>4 DEF CheckGate, tickVars
  <2>2. \A q \in Processes : held'[q] \subseteq held[q] \cup due[q]
    BY <1>t, <2>1
  <2> QED
    BY <2>1, <2>2 DEF TimeInv
<1>5. ASSUME NEW p \in Processes, BuildPlan(p) PROVE TimeInv'
  <2>1. PICK S \in SUBSET Slots, H \in SUBSET Slots, t \in {"idle", "reserve"} :
            /\ S \subseteq due[p] /\ H \subseteq due[p]
            /\ selected' = [selected EXCEPT ![p] = S]
            /\ held' = [held EXCEPT ![p] = H]
    BY <1>5, PlanShape
  <2>2. UNCHANGED <<due, tickNow, startedAt>>
    BY <1>5 DEF BuildPlan, tickVars
  <2> QED
    BY <1>t, <2>1, <2>2 DEF TimeInv
<1>6. ASSUME NEW p \in Processes, Release(p) PROVE TimeInv'
  <2>1. /\ UNCHANGED <<selected, due, tickNow, startedAt>>
        /\ held' = [held EXCEPT ![p] = held[p] \cup selected[p]]
    BY <1>6 DEF Release, tickVars
  <2>2. \A q \in Processes : held'[q] \subseteq held[q] \cup selected[q]
    BY <1>t, <2>1
  <2> QED
    BY <2>1, <2>2 DEF TimeInv
<1>7. ASSUME NEW p \in Processes, Crash(p) PROVE TimeInv'
  <2>1. /\ held' = [held EXCEPT ![p] = {}]
        /\ due' = [due EXCEPT ![p] = {}]
        /\ selected' = [selected EXCEPT ![p] = {}]
        /\ startedAt' = [startedAt EXCEPT ![p] = now]
        /\ UNCHANGED tickNow
    BY <1>7 DEF Crash
  <2> QED
    BY <1>t, <2>1 DEF TimeInv
<1> QED
  BY <1>1, <1>2, <1>3, <1>4, <1>5, <1>6, <1>7
     DEF Next, TickStep, JobStep, vars, tickVars, Advance, Edit, OtherMutation,
         PlanError, Reserve, Submit, Queue, JobStart, JobFinish

(* A slot is submitted at or after its time, before its late limit, and only  *)
(* by a process that was up in its window, whatever is edited, held, crashes  *)
(* and fails between the tick that found it and the submission.               *)
THEOREM SlotsAreSubmittedOnTime == Spec => SubmittedOnTime
<1> DEFINE OnTime ==
        \A p \in Processes : tick[p] = "submit" /\ tick'[p] = "queue" =>
            \A k \in selected[p] : /\ ScheduledFor(k) <= tickNow[p]
                                   /\ tickNow[p] < LateLimit(k)
                                   /\ startedAt[p] < WindowEnd(k)
<1>1. Init => TimeInv
  BY DEF Init, TimeInv
<1>2. TimeInv => OnTime
  BY DEF TimeInv
<1>3. Spec => []TimeInv
  BY <1>1, TimeStep, SchedulerTypes, PTL DEF Spec
<1> QED
  BY <1>2, <1>3, PTL DEF Spec, SubmittedOnTime

-----------------------------------------------------------------------------
(* What a tick leaves behind *)

(* The slots a tick works on have no row until the tick inserts it, and when  *)
(* the tick is over, what it had selected is held or has one.                 *)
LeftInv ==
    \A p \in Processes :
        /\ tick[p] \in {"record", "gate", "plan"} =>
               due[p] \cap Recorded = {} /\ selected[p] = {}
        /\ tick[p] = "record" => due[p] \cap missed[p] = {}
        /\ tick[p] = "reserve" => selected[p] \cap Recorded = {}
        /\ tick[p] = "idle" => selected[p] \subseteq held[p] \cup Recorded


LEMMA LeftStep ==
    ASSUME IInv, \A p, q \in Processes : p = q,
           faults = 0 => LeftInv, [Next]_vars, faults' = 0
    PROVE  LeftInv'
<1>1. faults = 0
  <2>1. faults \in Nat
    BY SchedulerAssumption DEF SchedulerAssumption, IInv, TypeOK
  <2>2. faults' = faults \/ faults' = faults + 1
    BY DEF Next, TickStep, JobStep, vars, boundVars, Advance, Edit, OtherMutation,
           TickStart, RecordMissed, CheckGate, BuildPlan, PlanError, Reserve, Submit,
           Release, Queue, JobStart, JobFinish, Crash, Fault
  <2> QED
    BY <2>1, <2>2
<1>2. LeftInv /\ ~Fault
  BY <1>1 DEF Fault
<1>t. /\ row \in [Slots -> Statuses]
      /\ held \in [Processes -> SUBSET Slots]
      /\ due \in [Processes -> SUBSET Slots]
      /\ missed \in [Processes -> SUBSET Slots]
      /\ selected \in [Processes -> SUBSET Slots]
      /\ tick \in [Processes -> TickStates]
  BY DEF IInv, TypeOK
<1>3. CASE /\ UNCHANGED <<selected, due, missed, held, tick>>
           /\ Recorded \subseteq Recorded' /\ Recorded' \subseteq Recorded
  BY <1>2, <1>3 DEF LeftInv
<1>4. UNCHANGED row => Recorded' = Recorded
  BY DEF Recorded
<1>5. ASSUME NEW p \in Processes, TickStart(p) PROVE LeftInv'
  <2> DEFINE open == OpenSlots(p, now)
             live == {k \in open : InWindow(p, now, k) \/ now < LateLimit(k)}
  <2>1. /\ due' = [due EXCEPT ![p] = live]
        /\ missed' = [missed EXCEPT ![p] = open \ live]
        /\ selected' = [selected EXCEPT ![p] = {}]
        /\ tick' = [tick EXCEPT ![p] = "record"]
        /\ UNCHANGED row
    BY <1>5 DEF TickStart, dbVars
  <2>2. live \cap Recorded = {}
    BY DEF OpenSlots
  <2>3. Recorded' = Recorded
    BY <2>1 DEF Recorded
  <2> HIDE DEF open, live
  <2> QED
    BY <1>t, <2>1, <2>2, <2>3 DEF LeftInv
<1>6. ASSUME NEW p \in Processes, RecordMissed(p) PROVE LeftInv'
  <2>1. /\ \A k \in Slots : row'[k] # "none" => k \in missed[p] \/ row[k] # "none"
        /\ tick[p] = "record"
        /\ tick' = [tick EXCEPT ![p] = IF due[p] = {} THEN "idle" ELSE "gate"]
        /\ UNCHANGED <<due, missed, selected>>
    BY <1>2, <1>6 DEF RecordMissed, tickVars
  <2>2. Recorded' \subseteq Recorded \cup missed[p]
    BY <2>1 DEF Recorded
  <2> QED
    BY <1>2, <1>t, <2>1, <2>2 DEF LeftInv
<1>7. ASSUME NEW p \in Processes, CheckGate(p) PROVE LeftInv'
  <2>1. /\ tick[p] = "gate" /\ UNCHANGED <<row, due, missed, selected>>
        /\ \/ tick' = [tick EXCEPT ![p] = "idle"]
           \/ tick' = [tick EXCEPT ![p] = "plan"]
    BY <1>7 DEF CheckGate, tickVars, dbVars
  <2>2. Recorded' = Recorded
    BY <2>1 DEF Recorded
  <2> QED
    BY <1>2, <1>t, <2>1, <2>2 DEF LeftInv
<1>8. ASSUME NEW p \in Processes, BuildPlan(p) PROVE LeftInv'
  <2>1. PICK S \in SUBSET Slots, H \in SUBSET Slots, t \in {"idle", "reserve"} :
            /\ S \subseteq due[p] /\ H \subseteq due[p]
            /\ t = "idle" => S = {}
            /\ selected' = [selected EXCEPT ![p] = S]
            /\ tick' = [tick EXCEPT ![p] = t]
    BY <1>8, PlanShape DEF IInv
  <2>2. tick[p] = "plan" /\ UNCHANGED <<row, due, missed>>
    BY <1>8 DEF BuildPlan, tickVars, dbVars
  <2>3. Recorded' = Recorded
    BY <2>2 DEF Recorded
  <2> QED
    BY <1>2, <1>t, <2>1, <2>2, <2>3 DEF LeftInv
<1>9. ASSUME NEW p \in Processes, PlanError(p) PROVE LeftInv'
  <2>1. /\ tick[p] = "plan" /\ tick' = [tick EXCEPT ![p] = "idle"]
        /\ UNCHANGED <<due, missed, selected>>
    BY <1>9 DEF PlanError, tickVars
  <2> QED
    BY <1>2, <1>t, <2>1 DEF LeftInv
<1>10. ASSUME NEW p \in Processes, Reserve(p) \/ Submit(p) PROVE LeftInv'
  <2>1. tick'[p] \in {"submit", "release", "queue"}
    BY <1>2, <1>10, <1>t DEF Reserve, Submit, LeftInv
  <2> QED
    BY <2>1 DEF LeftInv
<1>11. ASSUME NEW p \in Processes, Release(p) PROVE LeftInv'
  <2>1. /\ tick' = [tick EXCEPT ![p] = "idle"]
        /\ held' = [held EXCEPT ![p] = held[p] \cup selected[p]]
        /\ UNCHANGED selected
    BY <1>11 DEF Release
  <2> QED
    BY <1>t, <2>1 DEF LeftInv
<1>12. ASSUME NEW p \in Processes, Queue(p) PROVE LeftInv'
  <2>1. /\ tick[p] = "queue" /\ tick' = [tick EXCEPT ![p] = "idle"]
        /\ row' = SetRows(selected[p] \cap Recorded, "queued")
        /\ UNCHANGED selected
    BY <1>2, <1>12 DEF Queue
  <2>2. \A k \in selected[p] : k \in Slots /\ row[k] # "none"
    BY <1>t, <2>1 DEF IInv, JobInv, OwnInv, Own
  <2>3. selected'[p] \subseteq Recorded'
    BY <2>1, <2>2 DEF Recorded, SetRows
  <2> QED
    BY <1>t, <2>1, <2>3 DEF LeftInv
<1>13. ASSUME NEW p \in Processes, JobFinish(p) PROVE LeftInv'
  <2>1. /\ UNCHANGED <<selected, due, missed, held, tick>>
        /\ \E status \in {"success", "failure"} :
               row' = SetRows(job[p].slots \cap Recorded, status)
    BY <1>2, <1>13 DEF JobFinish, tickVars
  <2>2. Recorded \subseteq Recorded' /\ Recorded' \subseteq Recorded
    BY <2>1 DEF Recorded, SetRows
  <2> QED
    BY <1>3, <2>1, <2>2
<1>14. ASSUME NEW p \in Processes, Crash(p) PROVE LeftInv'
  <2>1. /\ tick' = [tick EXCEPT ![p] = "idle"]
        /\ selected' = [selected EXCEPT ![p] = {}]
    BY <1>14 DEF Crash
  <2> QED
    BY <1>t, <2>1 DEF LeftInv
<1>15. CASE \/ UNCHANGED vars \/ Advance
            \/ \E s \in Services : Edit(s)
            \/ \E p \in Processes : OtherMutation(p) \/ JobStart(p)
  BY <1>3, <1>4, <1>15 DEF vars, dbVars, tickVars, Advance, Edit, OtherMutation, JobStart
<1> QED
  BY <1>5, <1>6, <1>7, <1>8, <1>9, <1>10, <1>11, <1>12, <1>13, <1>14, <1>15
     DEF Next, TickStep, JobStep

(* As long as no write to the database failed, a slot that a tick of the only *)
(* process selected is held or recorded when the tick is over.  With a second *)
(* process the claim is false: a tick that finds its slots reserved drops     *)
(* them, and the other process may release them.                              *)
THEOREM HeldSlotsStayDue ==
    ASSUME \A p, q \in Processes : p = q
    PROVE  Spec => []HeldWithoutFaults
<1> DEFINE J == faults = 0 => LeftInv
<1>1. Init => J
  BY DEF Init, LeftInv
<1>2. IInv /\ J /\ [Next]_vars => J'
  BY LeftStep
<1>3. J => HeldWithoutFaults
  BY DEF LeftInv, HeldWithoutFaults, HeldStaysDue
<1> QED
  BY <1>1, <1>2, <1>3, InvariantHolds, PTL DEF Spec
=============================================================================
