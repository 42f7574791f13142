--------------------------- MODULE MutationGateProofs ---------------------------
(***************************************************************************)
(* Proofs about MutationGate, for any number of request threads and any     *)
(* limits and bounds: the permission to mutate has at most one holder, only  *)
(* its holder works, and the gate implements SingleMutation.                *)
(***************************************************************************)
EXTENDS MutationGate, CountingLemmas, TLAPS

-----------------------------------------------------------------------------
(* The inductive invariant *)

(* The permission is exclusive, in terms of the four places it can be. *)
Exclusive ==
    /\ \A i, j \in ActiveJobs : i = j
    /\ \A s, t \in ActiveScans : s = t
    /\ ActiveJobs # {} => /\ ~selfUpdateRunning
                          /\ ~restartRunning
                          /\ ActiveScans = {}
    /\ ~(selfUpdateRunning /\ restartRunning)
    /\ selfUpdateRunning \/ restartRunning => ActiveScans = {}

(* What a thread inside web_apply_lock has seen there is still so. *)
GateInv ==
    /\ \A c \in Clients : pc[c] \in HoldsApply <=> applyLock = c
    /\ \A c \in Clients : pc[c] \in {"scanCheck", "reserve", "scanInsert"}
                              => GateFree
    /\ \A c \in Clients : pc[c] = "reserve" /\ op[c] # "scan"
                              => ActiveScans = {}

(* An active job is in one place: the executor's queue or its thread. *)
JobInv ==
    /\ queue \subseteq ActiveJobs
    /\ workerPc \in {"wait", "work"} => workerJob \in ActiveJobs \ queue

(* The same for scans, with the thread that has yet to submit one. *)
Submitting(c) == pc[c] \in {"submitScan", "popScan"}

ScanInv ==
    /\ scanQueue \subseteq ActiveScans
    /\ scanPc # "idle" => scanJob \in ActiveScans \ scanQueue
    /\ \A c \in Clients :
           Submitting(c) => /\ mine[c] \in ActiveScans \ scanQueue
                            /\ scanPc # "idle" => mine[c] # scanJob
    /\ \A c, d \in Clients : Submitting(c) /\ Submitting(d) => c = d

(* A flag is set as long as the handler that set it is at work. *)
SelfUpdating(c) == pc[c] \in {"selfWork", "selfRelease"}
Restarting(c) == pc[c] \in {"restartPrep", "restartTask", "restartRelease"}

FlagInv ==
    /\ \A c \in Clients : SelfUpdating(c) => selfUpdateRunning
    /\ \A c \in Clients : Restarting(c) => restartRunning
    /\ \A c, d \in Clients : SelfUpdating(c) /\ SelfUpdating(d) => c = d
    /\ \A c, d \in Clients : Restarting(c) /\ Restarting(d) => c = d

IInv == TypeOK /\ Exclusive /\ GateInv /\ JobInv /\ ScanInv /\ FlagInv
-----------------------------------------------------------------------------
(* What the helpers return *)

(* Oldest picks members of the set it is given. *)
LEMMA OldestSubset == \A S, n : Oldest(S, n) \subseteq S
BY DEF Oldest

(* _register_apply_job_unlocked evicts registered, finished jobs only. *)
LEMMA EvictedAreFinished == EvictedJobs \subseteq jobs \ ActiveJobs
BY OldestSubset DEF EvictedJobs

(* _prune_security_scan_jobs_unlocked drops nothing that is active. *)
LEMMA PruneKeeps ==
    \A S, st : /\ PrunedScans(S, st) \subseteq S
               /\ \A s \in S : st[s] \in Active => s \in PrunedScans(S, st)
BY OldestSubset DEF PrunedScans

-----------------------------------------------------------------------------
(* Type correctness *)

(* TypeOK by groups of variables, so that a step answers for those it changes. *)
LockTypes ==
    /\ applyLock \in Clients \cup {NoThread}
    /\ scanLock \in Clients \cup {ScanWorker, NoThread}

ClientTypes ==
    /\ pc \in [Clients -> ClientPcs]
    /\ op \in [Clients -> Ops \cup {"none"}]
    /\ mine \in [Clients -> Nat]

JobTypes ==
    /\ jobs \subseteq JobIds
    /\ status \in [JobIds -> Statuses]
    /\ kind \in [JobIds -> JobKinds]
    /\ nextJob \in 1..(MaxJobs + 1)
    /\ started \subseteq Nat
    /\ queue \subseteq JobIds

WorkTypes == workerPc \in WorkerPcs /\ workerJob \in Nat

FlagTypes == selfUpdateRunning \in BOOLEAN /\ restartRunning \in BOOLEAN

ScanTypes ==
    /\ scans \subseteq ScanIds
    /\ scanStatus \in [ScanIds -> Statuses]
    /\ nextScan \in 1..(MaxScans + 1)
    /\ scanQueue \subseteq Nat

ScanWorkTypes == scanPc \in ScanPcs /\ scanJob \in Nat

AcceptTypes == accepting \in BOOLEAN

(* The groups are all of TypeOK, *)
LEMMA TypeParts ==
    TypeOK <=> /\ LockTypes /\ ClientTypes /\ JobTypes /\ WorkTypes
               /\ FlagTypes /\ ScanTypes /\ ScanWorkTypes /\ AcceptTypes
BY Zenon DEF TypeOK, LockTypes, ClientTypes, JobTypes, WorkTypes, FlagTypes,
             ScanTypes, ScanWorkTypes, AcceptTypes

(* after a step as well as before it, *)
LEMMA TypePartsAfter ==
    TypeOK' <=> /\ LockTypes' /\ ClientTypes' /\ JobTypes' /\ WorkTypes'
                /\ FlagTypes' /\ ScanTypes' /\ ScanWorkTypes' /\ AcceptTypes'
BY Zenon DEF TypeOK, LockTypes, ClientTypes, JobTypes, WorkTypes, FlagTypes,
             ScanTypes, ScanWorkTypes, AcceptTypes

(* and a step keeps the groups it leaves alone. *)
LEMMA PartsKept ==
    /\ LockTypes /\ UNCHANGED lockVars => LockTypes'
    /\ ClientTypes /\ UNCHANGED clientVars => ClientTypes'
    /\ JobTypes /\ UNCHANGED jobVars => JobTypes'
    /\ WorkTypes /\ UNCHANGED workVars => WorkTypes'
    /\ FlagTypes /\ UNCHANGED flagVars => FlagTypes'
    /\ ScanTypes /\ UNCHANGED scanVars => ScanTypes'
    /\ ScanWorkTypes /\ UNCHANGED scanWorkVars => ScanWorkTypes'
    /\ AcceptTypes /\ UNCHANGED accepting => AcceptTypes'
<1>1. LockTypes /\ UNCHANGED lockVars => LockTypes'
  BY DEF LockTypes, lockVars
<1>2. ClientTypes /\ UNCHANGED clientVars => ClientTypes'
  BY DEF ClientTypes, clientVars
<1>3. JobTypes /\ UNCHANGED jobVars => JobTypes'
  BY DEF JobTypes, jobVars
<1>4. WorkTypes /\ UNCHANGED workVars => WorkTypes'
  BY DEF WorkTypes, workVars
<1>5. FlagTypes /\ UNCHANGED flagVars => FlagTypes'
  BY DEF FlagTypes, flagVars
<1>6. ScanTypes /\ UNCHANGED scanVars => ScanTypes'
  BY DEF ScanTypes, scanVars
<1>7. ScanWorkTypes /\ UNCHANGED scanWorkVars => ScanWorkTypes'
  BY DEF ScanWorkTypes, scanWorkVars
<1>8. AcceptTypes /\ UNCHANGED accepting => AcceptTypes'
  BY DEF AcceptTypes
<1> QED
  BY <1>1, <1>2, <1>3, <1>4, <1>5, <1>6, <1>7, <1>8

(* The end of a handler and a step within it keep the clients' types. *)
LEMMA DoneTypes == \A c \in Clients : ClientTypes /\ Done(c) => ClientTypes'
BY DEF ClientTypes, Done, ClientPcs, HoldsApply

LEMMA GotoTypes ==
    \A c \in Clients, s \in ClientPcs : ClientTypes /\ Goto(c, s) => ClientTypes'
BY DEF ClientTypes, Goto

(* Every step of every thread keeps the variables in their types. *)
LEMMA TypeStep == TypeOK /\ [Next]_vars => TypeOK'
<1> SUFFICES ASSUME TypeOK, [Next]_vars PROVE TypeOK'
  OBVIOUS
<1> /\ LockTypes /\ ClientTypes /\ JobTypes /\ WorkTypes
    /\ FlagTypes /\ ScanTypes /\ ScanWorkTypes /\ AcceptTypes
  BY TypeParts
<1> USE PartsKept, TypePartsAfter
<1>1. ASSUME NEW c \in Clients, NEW o \in Ops, Begin(c, o) PROVE TypeOK'
  <2>1. ClientTypes'
    BY <1>1 DEF Begin, ClientTypes, ClientPcs
  <2> QED
    BY <1>1, <2>1 DEF Begin
<1>2. ASSUME NEW c \in Clients, AcquireApply(c) PROVE TypeOK'
  <2>1. Goto(c, "check") /\ "check" \in ClientPcs
    BY <1>2 DEF AcquireApply, Goto, ClientPcs, HoldsApply
  <2>2. LockTypes'
    BY <1>2 DEF AcquireApply, LockTypes
  <2> QED
    BY <1>2, <2>1, <2>2, GotoTypes DEF AcquireApply
<1>3. ASSUME NEW c \in Clients, CheckActive(c) PROVE TypeOK'
  <2>1. "reserve" \in ClientPcs /\ "scanCheck" \in ClientPcs
    BY DEF ClientPcs, HoldsApply
  <2>2. ClientTypes'
    BY <1>3, <2>1, DoneTypes, GotoTypes DEF CheckActive, Reject
  <2>3. LockTypes'
    BY <1>3 DEF CheckActive, Reject, LockTypes
  <2> QED
    BY <1>3, <2>2, <2>3 DEF CheckActive
<1>4. ASSUME NEW c \in Clients, CheckScans(c) PROVE TypeOK'
  <2>1. "reserve" \in ClientPcs
    BY DEF ClientPcs, HoldsApply
  <2>2. ClientTypes'
    BY <1>4, <2>1, DoneTypes, GotoTypes DEF CheckScans, Reject
  <2>3. LockTypes'
    BY <1>4 DEF CheckScans, Reject, LockTypes
  <2> QED
    BY <1>4, <2>2, <2>3 DEF CheckScans
<1>5. ASSUME NEW c \in Clients, RegisterJob(c) PROVE TypeOK'
  <2>1. /\ nextJob \in JobIds
        /\ nextJob \in Nat
        /\ nextJob' \in 1..(MaxJobs + 1)
    BY <1>5, GateAssumption DEF RegisterJob, GateAssumption, JobIds
  <2>2. ClientTypes'
    <3>1. CASE Done(c)
      BY <3>1, DoneTypes
    <3>2. CASE /\ mine' = [mine EXCEPT ![c] = nextJob]
               /\ pc' = [pc EXCEPT ![c] = "startJob"]
               /\ op' = op
      BY <2>1, <3>2 DEF ClientTypes, ClientPcs
    <3> QED
      BY <1>5, <3>1, <3>2 DEF RegisterJob
  <2>3. JobTypes'
    <3>1. jobs' \subseteq JobIds /\ queue' \subseteq JobIds
      BY <1>5, <2>1 DEF RegisterJob, JobTypes
    <3>2. started' \subseteq Nat
      <4>1. started' = started \/ started' = started \cup {nextJob}
        BY <1>5 DEF RegisterJob
      <4> QED
        BY <2>1, <4>1 DEF JobTypes
    <3>3. status' \in [JobIds -> Statuses]
      BY <1>5 DEF RegisterJob, JobTypes, Statuses, Active
    <3>4. kind' \in [JobIds -> JobKinds]
      BY <1>5 DEF RegisterJob, JobTypes
    <3> QED
      BY <2>1, <3>1, <3>2, <3>3, <3>4 DEF JobTypes
  <2>4. LockTypes'
    BY <1>5 DEF RegisterJob, LockTypes
  <2> QED
    BY <1>5, <2>2, <2>3, <2>4 DEF RegisterJob
<1>6. ASSUME NEW c \in Clients, StartJob(c) PROVE TypeOK'
  <2>1. JobTypes'
    BY <1>6 DEF StartJob, JobTypes, ClientTypes
  <2> QED
    BY <1>6, <2>1, DoneTypes DEF StartJob
<1>7. ASSUME NEW c \in Clients, ReserveFlag(c) PROVE TypeOK'
  <2>1. ClientTypes'
    BY <1>7 DEF ReserveFlag, ClientTypes, ClientPcs
  <2>2. LockTypes'
    BY <1>7 DEF ReserveFlag, LockTypes
  <2>3. FlagTypes'
    BY <1>7 DEF ReserveFlag, FlagTypes
  <2> QED
    BY <1>7, <2>1, <2>2, <2>3 DEF ReserveFlag
<1>8. ASSUME NEW c \in Clients, SelfUpdateWork(c) PROVE TypeOK'
  <2>1. Goto(c, "selfRelease") /\ "selfRelease" \in ClientPcs
    BY <1>8 DEF SelfUpdateWork, Goto, ClientPcs
  <2> QED
    BY <1>8, <2>1, GotoTypes DEF SelfUpdateWork
<1>9. ASSUME NEW c \in Clients, PrepareRestart(c) PROVE TypeOK'
  <2>1. ClientTypes'
    BY <1>9 DEF PrepareRestart, ClientTypes, ClientPcs
  <2> QED
    BY <1>9, <2>1 DEF PrepareRestart
<1>10. ASSUME NEW c \in Clients, RestartTask(c) PROVE TypeOK'
  <2>1. Goto(c, "restartRelease") /\ "restartRelease" \in ClientPcs
    BY <1>10 DEF RestartTask, Goto, ClientPcs
  <2> QED
    BY <1>10, <2>1, GotoTypes DEF RestartTask
<1>11. ASSUME NEW c \in Clients, ReleaseFlag(c) PROVE TypeOK'
  <2>1. FlagTypes'
    BY <1>11 DEF ReleaseFlag, FlagTypes
  <2> QED
    BY <1>11, <2>1, DoneTypes DEF ReleaseFlag
<1>12. ASSUME NEW c \in Clients, LockScans(c) PROVE TypeOK'
  <2>1. Goto(c, "scanInsert") /\ "scanInsert" \in ClientPcs
    BY <1>12 DEF LockScans, Goto, ClientPcs, HoldsApply
  <2>2. LockTypes'
    BY <1>12 DEF LockScans, LockTypes
  <2> QED
    BY <1>12, <2>1, <2>2, GotoTypes DEF LockScans
<1>13. ASSUME NEW c \in Clients, RegisterScan(c) PROVE TypeOK'
  <2>1. /\ nextScan \in ScanIds
        /\ nextScan \in Nat
        /\ nextScan + 1 \in 1..(MaxScans + 1)
    BY <1>13, GateAssumption DEF RegisterScan, GateAssumption, ScanIds
  <2>2. ClientTypes'
    <3>1. CASE Done(c)
      BY <3>1, DoneTypes
    <3>2. CASE /\ mine' = [mine EXCEPT ![c] = nextScan]
               /\ pc' = [pc EXCEPT ![c] = "submitScan"]
               /\ op' = op
      BY <2>1, <3>2 DEF ClientTypes, ClientPcs
    <3> QED
      BY <1>13, <3>1, <3>2 DEF RegisterScan
  <2>3. ScanTypes'
    <3>1. scans' \subseteq scans \cup {nextScan}
      BY <1>13, PruneKeeps DEF RegisterScan
    <3>2. scanStatus' \in [ScanIds -> Statuses]
      BY <1>13 DEF RegisterScan, ScanTypes, Statuses, Active
    <3>3. nextScan' \in 1..(MaxScans + 1)
      BY <1>13, <2>1 DEF RegisterScan, ScanTypes
    <3> QED
      BY <1>13, <2>1, <3>1, <3>2, <3>3 DEF RegisterScan, ScanTypes
  <2>4. LockTypes'
    BY <1>13 DEF RegisterScan, LockTypes
  <2> QED
    BY <1>13, <2>2, <2>3, <2>4 DEF RegisterScan
<1>14. ASSUME NEW c \in Clients, SubmitScan(c) PROVE TypeOK'
  <2>1. "popScan" \in ClientPcs
    BY DEF ClientPcs
  <2>2. ClientTypes'
    BY <1>14, <2>1, DoneTypes, GotoTypes DEF SubmitScan
  <2>3. ScanTypes'
    BY <1>14 DEF SubmitScan, ScanTypes, ClientTypes
  <2> QED
    BY <1>14, <2>2, <2>3 DEF SubmitScan
<1>15. ASSUME NEW c \in Clients, PopScan(c) PROVE TypeOK'
  <2>1. ScanTypes'
    BY <1>15 DEF PopScan, ScanTypes
  <2> QED
    BY <1>15, <2>1, DoneTypes DEF PopScan
<1>16. ASSUME WorkerTake PROVE TypeOK'
  <2>1. PICK j \in queue : workerJob' = j /\ queue' = queue \ {j}
    BY OldestSubset, <1>16 DEF WorkerTake
  <2>2. JobTypes'
    BY <1>16, <2>1 DEF WorkerTake, JobTypes
  <2>3. WorkTypes'
    BY <1>16, <2>1 DEF WorkerTake, WorkTypes, JobTypes, WorkerPcs, JobIds
  <2> QED
    BY <1>16, <2>2, <2>3 DEF WorkerTake
<1>17. ASSUME WorkerStart PROVE TypeOK'
  <2>1. JobTypes'
    BY <1>17 DEF WorkerStart, SetJobStatus, JobTypes, Statuses, Active
  <2>2. WorkTypes'
    BY <1>17 DEF WorkerStart, WorkTypes, WorkerPcs
  <2> QED
    BY <1>17, <2>1, <2>2 DEF WorkerStart
<1>18. ASSUME WorkerFinish PROVE TypeOK'
  <2>1. JobTypes'
    BY <1>18 DEF WorkerFinish, SetJobStatus, JobTypes, Statuses, Terminal
  <2>2. WorkTypes'
    BY <1>18 DEF WorkerFinish, WorkTypes, WorkerPcs
  <2> QED
    BY <1>18, <2>1, <2>2 DEF WorkerFinish
<1>19. ASSUME WorkerTail PROVE TypeOK'
  <2>1. WorkTypes'
    BY <1>19 DEF WorkerTail, WorkTypes, WorkerPcs
  <2> QED
    BY <1>19, <2>1 DEF WorkerTail
<1>20. ASSUME ScanTake PROVE TypeOK'
  <2>1. PICK j \in scanQueue : scanJob' = j /\ scanQueue' = scanQueue \ {j}
    BY OldestSubset, <1>20 DEF ScanTake
  <2>2. ScanTypes'
    BY <1>20, <2>1 DEF ScanTake, ScanTypes
  <2>3. ScanWorkTypes'
    BY <1>20, <2>1 DEF ScanTake, ScanWorkTypes, ScanTypes, ScanPcs
  <2> QED
    BY <1>20, <2>2, <2>3 DEF ScanTake
<1>21. ASSUME ScanLock PROVE TypeOK'
  <2>1. LockTypes'
    BY <1>21 DEF ScanLock, LockTypes
  <2>2. ScanWorkTypes'
    BY <1>21 DEF ScanLock, ScanWorkTypes, ScanPcs
  <2> QED
    BY <1>21, <2>1, <2>2 DEF ScanLock
<1>22. ASSUME ScanUpdate PROVE TypeOK'
  <2>1. LockTypes'
    BY <1>22 DEF ScanUpdate, LockTypes
  <2>2. ScanTypes'
    <3>1. scans' \subseteq scans
      BY PruneKeeps, <1>22 DEF ScanUpdate
    <3>2. scanStatus' \in [ScanIds -> Statuses]
      BY <1>22 DEF ScanUpdate, ScanTypes, Statuses, Active, Terminal
    <3> QED
      BY <1>22, <3>1, <3>2 DEF ScanUpdate, ScanTypes
  <2>3. ScanWorkTypes'
    BY <1>22 DEF ScanUpdate, ScanWorkTypes, ScanPcs
  <2> QED
    BY <1>22, <2>1, <2>2, <2>3 DEF ScanUpdate
<1>23. ASSUME Shutdown PROVE TypeOK'
  <2>1. JobTypes' /\ ScanTypes' /\ AcceptTypes'
    BY <1>23 DEF Shutdown, JobTypes, ScanTypes, AcceptTypes
  <2> QED
    BY <1>23, <2>1 DEF Shutdown
<1>24. ASSUME UNCHANGED vars PROVE TypeOK'
  BY <1>24 DEF vars
<1> QED
  BY <1>1, <1>2, <1>3, <1>4, <1>5, <1>6, <1>7, <1>8, <1>9, <1>10, <1>11,
     <1>12, <1>13, <1>14, <1>15, <1>16, <1>17, <1>18, <1>19, <1>20, <1>21,
     <1>22, <1>23, <1>24
     DEF Next, ClientStep, WorkerStep, ScanStep

(* The empty registries are of the right types. *)
LEMMA InitTypes == Init => TypeOK
<1> SUFFICES ASSUME Init PROVE TypeOK
  OBVIOUS
<1>1. nextJob \in 1..(MaxJobs + 1) /\ nextScan \in 1..(MaxScans + 1)
  BY GateAssumption DEF Init
<1>2. /\ scanStatus \in [ScanIds -> Statuses]
      /\ status \in [JobIds -> Statuses]
      /\ kind \in [JobIds -> JobKinds]
  BY DEF Init, Statuses, JobKinds
<1>3. ClientTypes
  BY DEF Init, ClientTypes, ClientPcs, HoldsApply
<1> QED
  BY <1>1, <1>2, <1>3 DEF Init, TypeOK, ClientTypes, WorkerPcs, ScanPcs

(* Type correctness of the gate: every id, status and control point that a    *)
(* handler or an executor thread assigns is one of those it may have.         *)
THEOREM TypeCorrect == Spec => []TypeOK
BY InitTypes, TypeStep, PTL DEF Spec

-----------------------------------------------------------------------------
(* The permission is exclusive *)

(* The active jobs depend on the registry and the statuses only. *)
LEMMA JobsSame == jobs' = jobs /\ status' = status => ActiveJobs' = ActiveJobs
BY DEF ActiveJobs

(* Likewise for the active scans. *)
LEMMA ScansSame ==
    scans' = scans /\ scanStatus' = scanStatus => ActiveScans' = ActiveScans
BY DEF ActiveScans

(* A submitted job becomes active; a failed submit leaves the active jobs alone,*)
(* whatever is evicted.                                                         *)
LEMMA RegisterJobEffect ==
    ASSUME TypeOK, NEW c \in Clients, RegisterJob(c)
    PROVE  ActiveJobs' = IF accepting THEN ActiveJobs \cup {nextJob}
                                      ELSE ActiveJobs
<1>1. EvictedJobs \subseteq jobs \ ActiveJobs
  BY EvictedAreFinished
<1>2. CASE accepting
  <2>1. /\ jobs' = (jobs \ EvictedJobs) \cup {nextJob}
        /\ status' = [status EXCEPT ![nextJob] = "queued"]
        /\ nextJob \in JobIds
    BY <1>2 DEF RegisterJob
  <2>2. /\ jobs \subseteq JobIds
        /\ \A j \in JobIds :
              status'[j] = IF j = nextJob THEN "queued" ELSE status[j]
    BY <2>1 DEF TypeOK
  <2> QED
    BY <1>1, <1>2, <2>1, <2>2 DEF ActiveJobs, Active
<1>3. CASE ~accepting
  <2>1. jobs' = jobs \ EvictedJobs /\ status' = status
    BY <1>3 DEF RegisterJob
  <2> QED
    BY <1>1, <1>3, <2>1 DEF ActiveJobs
<1> QED
  BY <1>2, <1>3

(* A reserved scan is the only active one; a refused one changes nothing. *)
LEMMA RegisterScanEffect ==
    ASSUME TypeOK, NEW c \in Clients, RegisterScan(c)
    PROVE  ActiveScans' = IF ActiveScans = {} THEN {nextScan} ELSE ActiveScans
<1>1. CASE ActiveScans = {}
  <2>1. /\ scanStatus' = [scanStatus EXCEPT ![nextScan] = "queued"]
        /\ scans' = PrunedScans(scans \cup {nextScan}, scanStatus')
        /\ nextScan \in ScanIds
    BY <1>1 DEF RegisterScan
  <2>2. /\ scans' \subseteq scans \cup {nextScan}
        /\ \A s \in scans \cup {nextScan} : scanStatus'[s] \in Active => s \in scans'
    BY <2>1, PruneKeeps
  <2> QED
    BY <1>1, <2>1, <2>2 DEF ActiveScans, TypeOK, Active
<1>2. CASE ActiveScans # {}
  BY <1>2, ScansSame DEF RegisterScan
<1> QED
  BY <1>1, <1>2

(* The scan thread's updates start no second scan and end its own. *)
LEMMA ScanUpdateEffect ==
    ASSUME TypeOK, ScanUpdate, scanJob \in ActiveScans
    PROVE  ActiveScans' = IF scanPc = "starting" THEN ActiveScans
                           ELSE ActiveScans \ {scanJob}
<1>1. scanJob \in scans /\ scanJob \in ScanIds
  BY DEF ActiveScans, TypeOK
<1>2. PICK s \in (IF scanPc = "starting" THEN {"running"} ELSE Terminal) :
          scanStatus' = [scanStatus EXCEPT ![scanJob] = s]
  BY <1>1 DEF ScanUpdate
<1>3. /\ scans' \subseteq scans
      /\ \A t \in scans : scanStatus'[t] \in Active => t \in scans'
  BY <1>1, PruneKeeps DEF ScanUpdate
<1> QED
  BY <1>1, <1>2, <1>3 DEF ActiveScans, TypeOK, Active, Terminal

(* Starting a job that is active makes none active. *)
LEMMA WorkerStartEffect ==
    ASSUME TypeOK, WorkerStart, workerJob \in ActiveJobs
    PROVE  ActiveJobs' = ActiveJobs
BY DEF WorkerStart, SetJobStatus, ActiveJobs, TypeOK, Active

(* The last update of a job ends that job and no other. *)
LEMMA WorkerFinishEffect ==
    ASSUME TypeOK, WorkerFinish, workerJob \in ActiveJobs
    PROVE  ActiveJobs' = ActiveJobs \ {workerJob}
BY DEF WorkerFinish, SetJobStatus, ActiveJobs, TypeOK, Active, Terminal

(* A scan that cannot be submitted is taken back. *)
LEMMA PopScanEffect ==
    ASSUME NEW c \in Clients, PopScan(c)
    PROVE  ActiveScans' = ActiveScans \ {mine[c]}
BY DEF PopScan, ActiveScans

(* Every step of every thread keeps the invariant. *)
LEMMA IInvStep == IInv /\ [Next]_vars => IInv'
<1> SUFFICES ASSUME IInv, [Next]_vars PROVE IInv'
  OBVIOUS
<1>0. TypeOK'
  BY TypeStep DEF IInv
<1>00. NoThread \notin Clients
  BY GateAssumption
<1> USE <1>00
    DEF lockVars, jobVars, workVars, flagVars, scanVars, scanWorkVars, clientVars,
       IInv, Exclusive, GateInv, JobInv, ScanInv, FlagInv, HoldsApply, GateFree,
       Submitting, SelfUpdating, Restarting
<1>1. ASSUME NEW c \in Clients, NEW o \in Ops, Begin(c, o) PROVE IInv'
  <2>1. ActiveJobs' = ActiveJobs /\ ActiveScans' = ActiveScans
    BY <1>1, JobsSame, ScansSame DEF Begin
  <2> QED
    BY <1>0, <1>1, <2>1 DEF Begin, TypeOK
<1>2. ASSUME NEW c \in Clients, AcquireApply(c) PROVE IInv'
  <2>1. ActiveJobs' = ActiveJobs /\ ActiveScans' = ActiveScans
    BY <1>2, JobsSame, ScansSame DEF AcquireApply
  <2> QED
    BY <1>0, <1>2, <2>1 DEF AcquireApply, TypeOK
<1>3. ASSUME NEW c \in Clients, CheckActive(c) PROVE IInv'
  <2>1. ActiveJobs' = ActiveJobs /\ ActiveScans' = ActiveScans
    BY <1>3, JobsSame, ScansSame DEF CheckActive
  <2> QED
    BY <1>0, <1>3, <2>1 DEF CheckActive, Reject, Done, Goto, TypeOK
<1>4. ASSUME NEW c \in Clients, CheckScans(c) PROVE IInv'
  <2>1. ActiveJobs' = ActiveJobs /\ ActiveScans' = ActiveScans
    BY <1>4, JobsSame, ScansSame DEF CheckScans
  <2> QED
    BY <1>0, <1>4, <2>1 DEF CheckScans, Reject, Done, Goto, TypeOK
<1>5. ASSUME NEW c \in Clients, RegisterJob(c) PROVE IInv'
  <2>1. /\ ActiveJobs' = (IF accepting THEN ActiveJobs \cup {nextJob} ELSE ActiveJobs)
        /\ ActiveScans' = ActiveScans
    BY <1>5, RegisterJobEffect, ScansSame DEF RegisterJob
  <2>2. /\ ActiveJobs = {}
        /\ ~selfUpdateRunning /\ ~restartRunning
        /\ ActiveScans = {}
        /\ applyLock = c
    BY <1>5 DEF RegisterJob, JobKinds
  <2>3. /\ applyLock' = NoThread
        /\ UNCHANGED <<selfUpdateRunning, restartRunning, scanQueue, scanPc,
                       scanJob, workerPc, workerJob>>
    BY <1>5 DEF RegisterJob
  <2>4. \E next \in {"idle", "startJob"} : pc' = [pc EXCEPT ![c] = next]
    BY <1>5 DEF RegisterJob, Done
  <2>5. \A d \in Clients : d # c => mine'[d] = mine[d] /\ op'[d] = op[d]
    BY <1>5 DEF RegisterJob, Done, TypeOK
  <2>6. queue' = (IF accepting THEN queue \cup {nextJob} ELSE queue)
    BY <1>5 DEF RegisterJob
  <2>7. Exclusive' /\ JobInv'
    BY <2>1, <2>2, <2>3, <2>6
  <2>8. GateInv' /\ ScanInv' /\ FlagInv'
    BY <2>1, <2>2, <2>3, <2>4, <2>5 DEF TypeOK
  <2> QED
    BY <1>0, <2>7, <2>8
<1>6. ASSUME NEW c \in Clients, StartJob(c) PROVE IInv'
  <2>1. ActiveJobs' = ActiveJobs /\ ActiveScans' = ActiveScans
    BY <1>6, JobsSame, ScansSame DEF StartJob
  <2> QED
    BY <1>0, <1>6, <2>1 DEF StartJob, Done, TypeOK
<1>7. ASSUME NEW c \in Clients, ReserveFlag(c) PROVE IInv'
  <2>1. ActiveJobs' = ActiveJobs /\ ActiveScans' = ActiveScans
    BY <1>7, JobsSame, ScansSame DEF ReserveFlag
  <2> QED
    BY <1>0, <1>7, <2>1 DEF ReserveFlag, TypeOK
<1>8. ASSUME NEW c \in Clients, SelfUpdateWork(c) PROVE IInv'
  <2>1. ActiveJobs' = ActiveJobs /\ ActiveScans' = ActiveScans
    BY <1>8, JobsSame, ScansSame DEF SelfUpdateWork
  <2> QED
    BY <1>0, <1>8, <2>1 DEF SelfUpdateWork, TypeOK
<1>9. ASSUME NEW c \in Clients, PrepareRestart(c) PROVE IInv'
  <2>1. ActiveJobs' = ActiveJobs /\ ActiveScans' = ActiveScans
    BY <1>9, JobsSame, ScansSame DEF PrepareRestart
  <2> QED
    BY <1>0, <1>9, <2>1 DEF PrepareRestart, TypeOK
<1>10. ASSUME NEW c \in Clients, RestartTask(c) PROVE IInv'
  <2>1. ActiveJobs' = ActiveJobs /\ ActiveScans' = ActiveScans
    BY <1>10, JobsSame, ScansSame DEF RestartTask
  <2> QED
    BY <1>0, <1>10, <2>1 DEF RestartTask, TypeOK
<1>11. ASSUME NEW c \in Clients, ReleaseFlag(c) PROVE IInv'
  <2>1. ActiveJobs' = ActiveJobs /\ ActiveScans' = ActiveScans
    BY <1>11, JobsSame, ScansSame DEF ReleaseFlag
  <2> QED
    BY <1>0, <1>11, <2>1 DEF ReleaseFlag, Done, TypeOK
<1>12. ASSUME NEW c \in Clients, LockScans(c) PROVE IInv'
  <2>1. ActiveJobs' = ActiveJobs /\ ActiveScans' = ActiveScans
    BY <1>12, JobsSame, ScansSame DEF LockScans
  <2> QED
    BY <1>0, <1>12, <2>1 DEF LockScans, TypeOK
<1>13. ASSUME NEW c \in Clients, RegisterScan(c) PROVE IInv'
  <2>1. /\ ActiveJobs' = ActiveJobs
        /\ ActiveScans' = (IF ActiveScans = {} THEN {nextScan} ELSE ActiveScans)
    BY <1>13, RegisterScanEffect, JobsSame DEF RegisterScan
  <2> QED
    BY <1>0, <1>13, <2>1 DEF RegisterScan, Done, TypeOK
<1>14. ASSUME NEW c \in Clients, SubmitScan(c) PROVE IInv'
  <2>1. ActiveJobs' = ActiveJobs /\ ActiveScans' = ActiveScans
    BY <1>14, JobsSame, ScansSame DEF SubmitScan
  <2> QED
    BY <1>0, <1>14, <2>1 DEF SubmitScan, Done, Goto, TypeOK
<1>15. ASSUME NEW c \in Clients, PopScan(c) PROVE IInv'
  <2>1. ActiveJobs' = ActiveJobs /\ ActiveScans' = ActiveScans \ {mine[c]}
    BY <1>15, PopScanEffect, JobsSame DEF PopScan
  <2> QED
    BY <1>0, <1>15, <2>1 DEF PopScan, Done, TypeOK
<1>16. ASSUME WorkerTake PROVE IInv'
  <2>1. ActiveJobs' = ActiveJobs /\ ActiveScans' = ActiveScans
    BY <1>16, JobsSame, ScansSame DEF WorkerTake
  <2> QED
    BY <1>0, <1>16, <2>1, OldestSubset DEF WorkerTake, TypeOK
<1>17. ASSUME WorkerStart PROVE IInv'
  <2>1. ActiveJobs' = ActiveJobs /\ ActiveScans' = ActiveScans
    BY <1>17, WorkerStartEffect, ScansSame DEF WorkerStart
  <2> QED
    BY <1>0, <1>17, <2>1 DEF WorkerStart, TypeOK
<1>18. ASSUME WorkerFinish PROVE IInv'
  <2>1. ActiveJobs' = ActiveJobs \ {workerJob} /\ ActiveScans' = ActiveScans
    BY <1>18, WorkerFinishEffect, ScansSame DEF WorkerFinish
  <2> QED
    BY <1>0, <1>18, <2>1 DEF WorkerFinish, TypeOK
<1>19. ASSUME WorkerTail PROVE IInv'
  <2>1. ActiveJobs' = ActiveJobs /\ ActiveScans' = ActiveScans
    BY <1>19, JobsSame, ScansSame DEF WorkerTail
  <2> QED
    BY <1>0, <1>19, <2>1 DEF WorkerTail, TypeOK
<1>20. ASSUME ScanTake PROVE IInv'
  <2>1. ActiveJobs' = ActiveJobs /\ ActiveScans' = ActiveScans
    BY <1>20, JobsSame, ScansSame DEF ScanTake
  <2> QED
    BY <1>0, <1>20, <2>1, OldestSubset DEF ScanTake, TypeOK
<1>21. ASSUME ScanLock PROVE IInv'
  <2>1. ActiveJobs' = ActiveJobs /\ ActiveScans' = ActiveScans
    BY <1>21, JobsSame, ScansSame DEF ScanLock
  <2> QED
    BY <1>0, <1>21, <2>1 DEF ScanLock, TypeOK
<1>22. ASSUME ScanUpdate PROVE IInv'
  <2>1. /\ ActiveJobs' = ActiveJobs
        /\ ActiveScans' = (IF scanPc = "starting" THEN ActiveScans
                           ELSE ActiveScans \ {scanJob})
    BY <1>22, ScanUpdateEffect, JobsSame DEF ScanUpdate
  <2>2. /\ scanJob \in ActiveScans \ scanQueue /\ scanQueue' = scanQueue
        /\ \A c \in Clients : ~Submitting(c)
    BY <1>22 DEF ScanUpdate
  <2>3. ScanInv'
    BY <1>22, <2>1, <2>2 DEF ScanUpdate
  <2>4. Exclusive' /\ JobInv' /\ FlagInv'
    BY <1>22, <2>1 DEF ScanUpdate
  <2>5. GateInv'
    BY <1>22, <2>1 DEF ScanUpdate
  <2> QED
    BY <1>0, <2>3, <2>4, <2>5
<1>23. ASSUME Shutdown PROVE IInv'
  <2>1. ActiveJobs' = ActiveJobs /\ ActiveScans' = ActiveScans
    BY <1>23, JobsSame, ScansSame DEF Shutdown
  <2> QED
    BY <1>0, <1>23, <2>1 DEF Shutdown, TypeOK
<1>24. ASSUME UNCHANGED vars PROVE IInv'
  <2>1. ActiveJobs' = ActiveJobs /\ ActiveScans' = ActiveScans
    BY <1>24, JobsSame, ScansSame DEF vars
  <2> QED
    BY <1>0, <1>24, <2>1 DEF vars
<1> QED
  BY <1>1, <1>2, <1>3, <1>4, <1>5, <1>6, <1>7, <1>8, <1>9, <1>10, <1>11,
     <1>12, <1>13, <1>14, <1>15, <1>16, <1>17, <1>18, <1>19, <1>20, <1>21,
     <1>22, <1>23, <1>24
     DEF Next, ClientStep, WorkerStep, ScanStep

(* The invariant holds of every reachable state. *)
LEMMA InvariantHolds == Spec => []IInv
<1>1. Init => IInv
  <2> SUFFICES ASSUME Init PROVE IInv
    OBVIOUS
  <2>1. TypeOK
    BY InitTypes
  <2>2. ActiveJobs = {} /\ ActiveScans = {}
    BY DEF Init, ActiveJobs, ActiveScans
  <2> QED
    BY <2>1, <2>2, GateAssumption
       DEF Init, IInv, Exclusive, GateInv, JobInv, ScanInv, FlagInv,
           HoldsApply, GateFree, Submitting, SelfUpdating, Restarting
<1> QED
  BY <1>1, IInvStep, PTL DEF Spec

(* Whatever the number of requests and the length of the registries, at most  *)
(* one job, scan, self-update or restart holds the permission to mutate.      *)
THEOREM AtMostOneHolder == Spec => []OneHolder
<1>1. IInv => OneHolder
  BY DEF IInv, Exclusive, OneHolder, Holders
<1> QED
  BY <1>1, InvariantHolds, PTL

(* Only the holder works: the thread that changes files, images or containers *)
(* is alone, and the registry entry or flag it works for is what the gate     *)
(* sees as active.                                                            *)
THEOREM OnlyHolderWorks == Spec => []OneMutator
<1>1. IInv => OneMutator
  <2> SUFFICES ASSUME IInv PROVE OneMutator
    OBVIOUS
  <2>1. ASSUME NEW c \in Clients, SelfUpdating(c)
        PROVE  Holders = {<<"selfUpdate", 0>>}
    BY <2>1 DEF IInv, Exclusive, FlagInv, Holders
  <2>2. ASSUME NEW c \in Clients, Restarting(c)
        PROVE  Holders = {<<"restart", 0>>}
    BY <2>2 DEF IInv, Exclusive, FlagInv, Holders
  <2>3. ASSUME workerPc = "work" PROVE Holders = {<<"job", workerJob>>}
    BY <2>3 DEF IInv, Exclusive, JobInv, Holders
  <2>4. ASSUME scanPc \in {"work", "finishing"}
        PROVE  Holders = {<<"scan", scanJob>>}
    BY <2>4 DEF IInv, Exclusive, ScanInv, Holders
  <2>5. \A a, b \in Mutators : a = b
    <3>1. \A c \in Clients : ~(SelfUpdating(c) /\ workerPc = "work")
      BY DEF IInv, Exclusive, FlagInv, JobInv
    <3>2. \A c \in Clients : ~(Restarting(c) /\ workerPc = "work")
      BY DEF IInv, Exclusive, FlagInv, JobInv
    <3>3. \A c \in Clients : ~(SelfUpdating(c) /\ scanPc \in {"work", "finishing"})
      BY DEF IInv, Exclusive, FlagInv, ScanInv
    <3>4. \A c \in Clients : ~(Restarting(c) /\ scanPc \in {"work", "finishing"})
      BY DEF IInv, Exclusive, FlagInv, ScanInv
    <3>5. ~(workerPc = "work" /\ scanPc \in {"work", "finishing"})
      BY DEF IInv, Exclusive, JobInv, ScanInv
    <3>6. \A c, d \in Clients : ~(SelfUpdating(c) /\ Restarting(d))
      BY DEF IInv, Exclusive, FlagInv
    <3> QED
      BY <3>1, <3>2, <3>3, <3>4, <3>5, <3>6
         DEF IInv, FlagInv, Mutators, SelfUpdating, Restarting
  <2> QED
    BY <2>1, <2>2, <2>3, <2>4, <2>5 DEF OneMutator, SelfUpdating, Restarting
<1> QED
  BY <1>1, InvariantHolds, PTL
-----------------------------------------------------------------------------
(* The gate implements SingleMutation *)

(* The four places the permission can be, and what a step does to them. *)
Places == <<ActiveJobs, ActiveScans, selfUpdateRunning, restartRunning>>

AllFree == Places = <<{}, {}, FALSE, FALSE>>

OneTaken ==
    \/ \E j \in JobIds : Places = <<{j}, {}, FALSE, FALSE>>
    \/ \E s \in ScanIds : Places = <<{}, {s}, FALSE, FALSE>>
    \/ Places = <<{}, {}, TRUE, FALSE>>
    \/ Places = <<{}, {}, FALSE, TRUE>>

(* A step leaves the permission where it is, takes it when it is free, or     *)
(* gives it back.                                                             *)
LEMMA PlacesStep ==
    ASSUME IInv, [Next]_vars
    PROVE  \/ Places' = Places
           \/ AllFree /\ OneTaken'
           \/ OneTaken /\ AllFree'
<1> DEFINE Goal == \/ Places' = Places
                   \/ AllFree /\ OneTaken'
                   \/ OneTaken /\ AllFree'
<1> SUFFICES Goal
  OBVIOUS
<1> USE DEF lockVars, jobVars, workVars, flagVars, scanVars, scanWorkVars,
        clientVars
<1>0. /\ TypeOK
      /\ ActiveJobs \subseteq JobIds
      /\ ActiveScans \subseteq ScanIds
  BY DEF IInv, TypeOK, ActiveJobs, ActiveScans
<1>1. ASSUME NEW c \in Clients, NEW o \in Ops, Begin(c, o) PROVE Goal
  BY <1>1, JobsSame, ScansSame DEF Begin, Places
<1>2. ASSUME NEW c \in Clients, AcquireApply(c) PROVE Goal
  BY <1>2, JobsSame, ScansSame DEF AcquireApply, Places
<1>3. ASSUME NEW c \in Clients, CheckActive(c) PROVE Goal
  BY <1>3, JobsSame, ScansSame DEF CheckActive, Places
<1>4. ASSUME NEW c \in Clients, CheckScans(c) PROVE Goal
  BY <1>4, JobsSame, ScansSame DEF CheckScans, Places
<1>5. ASSUME NEW c \in Clients, StartJob(c) PROVE Goal
  BY <1>5, JobsSame, ScansSame DEF StartJob, Places
<1>6. ASSUME NEW c \in Clients, SelfUpdateWork(c) PROVE Goal
  BY <1>6, JobsSame, ScansSame DEF SelfUpdateWork, Places
<1>7. ASSUME NEW c \in Clients, PrepareRestart(c) PROVE Goal
  BY <1>7, JobsSame, ScansSame DEF PrepareRestart, Places
<1>8. ASSUME NEW c \in Clients, RestartTask(c) PROVE Goal
  BY <1>8, JobsSame, ScansSame DEF RestartTask, Places
<1>9. ASSUME NEW c \in Clients, LockScans(c) PROVE Goal
  BY <1>9, JobsSame, ScansSame DEF LockScans, Places
<1>10. ASSUME NEW c \in Clients, SubmitScan(c) PROVE Goal
  BY <1>10, JobsSame, ScansSame DEF SubmitScan, Places
<1>11. ASSUME NEW c \in Clients, RegisterJob(c) PROVE Goal
  <2>1. AllFree
    BY <1>11 DEF RegisterJob, IInv, GateInv, GateFree, JobKinds, AllFree, Places, TypeOK
  <2>2. /\ ActiveJobs' = IF accepting THEN ActiveJobs \cup {nextJob} ELSE ActiveJobs
        /\ ActiveScans' = ActiveScans
        /\ nextJob \in JobIds
    BY <1>0, <1>11, RegisterJobEffect, ScansSame DEF RegisterJob
  <2> QED
    BY <1>11, <2>1, <2>2 DEF RegisterJob, AllFree, OneTaken, Places
<1>12. ASSUME NEW c \in Clients, ReserveFlag(c) PROVE Goal
  <2>1. AllFree
    BY <1>12 DEF ReserveFlag, IInv, GateInv, GateFree, AllFree, Places, TypeOK
  <2>2. ActiveJobs' = ActiveJobs /\ ActiveScans' = ActiveScans
    BY <1>12, JobsSame, ScansSame DEF ReserveFlag
  <2> QED
    BY <1>12, <2>1, <2>2 DEF ReserveFlag, AllFree, OneTaken, Places
<1>13. ASSUME NEW c \in Clients, ReleaseFlag(c) PROVE Goal
  <2>1. ActiveJobs' = ActiveJobs /\ ActiveScans' = ActiveScans
    BY <1>13, JobsSame, ScansSame DEF ReleaseFlag
  <2>2. /\ pc[c] = "selfRelease" => Places = <<{}, {}, TRUE, FALSE>>
        /\ pc[c] = "restartRelease" => Places = <<{}, {}, FALSE, TRUE>>
    BY DEF IInv, TypeOK, Exclusive, FlagInv, SelfUpdating, Restarting, Places
  <2> QED
    BY <1>13, <2>1, <2>2 DEF ReleaseFlag, AllFree, OneTaken, Places
<1>14. ASSUME NEW c \in Clients, RegisterScan(c) PROVE Goal
  <2>1. /\ ActiveJobs = {} /\ ~selfUpdateRunning /\ ~restartRunning
        /\ ActiveJobs' = ActiveJobs
        /\ ActiveScans' = IF ActiveScans = {} THEN {nextScan} ELSE ActiveScans
        /\ nextScan \in ScanIds
    BY <1>0, <1>14, RegisterScanEffect, JobsSame
       DEF RegisterScan, IInv, GateInv, GateFree
  <2>2. UNCHANGED flagVars
    BY <1>14 DEF RegisterScan
  <2>3. CASE ActiveScans = {}
    <3>1. Places = <<{}, {}, FALSE, FALSE>>
      BY <1>0, <2>1, <2>3 DEF Places, TypeOK
    <3>2. Places' = <<{}, {nextScan}, FALSE, FALSE>>
      BY <1>0, <2>1, <2>2, <2>3 DEF Places, TypeOK
    <3> QED
      BY <2>1, <3>1, <3>2 DEF AllFree, OneTaken
  <2>4. CASE ActiveScans # {}
    BY <2>1, <2>2, <2>4 DEF Places
  <2> QED
    BY <2>3, <2>4
<1>15. ASSUME NEW c \in Clients, PopScan(c) PROVE Goal
  <2>1. ActiveJobs' = ActiveJobs /\ ActiveScans' = ActiveScans \ {mine[c]}
    BY <1>15, PopScanEffect, JobsSame DEF PopScan
  <2>2. mine[c] \in ScanIds /\ Places = <<{}, {mine[c]}, FALSE, FALSE>>
    <3>1. mine[c] \in ActiveScans
      BY <1>15 DEF PopScan, IInv, ScanInv, Submitting
    <3>2. mine[c] \in ScanIds
      BY <1>0, <3>1 DEF ActiveScans, TypeOK
    <3>3. /\ ActiveScans = {mine[c]} /\ ActiveJobs = {}
          /\ ~selfUpdateRunning /\ ~restartRunning
      BY <3>1 DEF IInv, Exclusive
    <3> QED
      BY <1>0, <3>2, <3>3 DEF Places, TypeOK
  <2> QED
    BY <1>15, <2>1, <2>2 DEF PopScan, AllFree, OneTaken, Places
<1>16. ASSUME WorkerStart PROVE Goal
  <2>1. workerJob \in ActiveJobs
    BY <1>16 DEF WorkerStart, IInv, JobInv
  <2> QED
    BY <1>0, <1>16, <2>1, WorkerStartEffect, ScansSame DEF WorkerStart, Places
<1>17. ASSUME WorkerFinish PROVE Goal
  <2>1. workerJob \in JobIds /\ Places = <<{workerJob}, {}, FALSE, FALSE>>
    BY <1>0, <1>17 DEF WorkerFinish, IInv, TypeOK, JobInv, Exclusive, Places
  <2>2. ActiveJobs' = ActiveJobs \ {workerJob} /\ ActiveScans' = ActiveScans
    BY <1>0, <1>17, WorkerFinishEffect, ScansSame
       DEF WorkerFinish, IInv, JobInv
  <2> QED
    BY <1>17, <2>1, <2>2 DEF WorkerFinish, AllFree, OneTaken, Places
<1>18. ASSUME ScanUpdate PROVE Goal
  <2>1. scanJob \in ScanIds /\ Places = <<{}, {scanJob}, FALSE, FALSE>>
    BY <1>0, <1>18 DEF ScanUpdate, IInv, TypeOK, ScanInv, Exclusive, Places
  <2>2. /\ ActiveJobs' = ActiveJobs
        /\ ActiveScans' = IF scanPc = "starting" THEN ActiveScans
                                                 ELSE ActiveScans \ {scanJob}
    BY <1>0, <1>18, ScanUpdateEffect, JobsSame DEF ScanUpdate, IInv, ScanInv
  <2> QED
    BY <1>18, <2>1, <2>2 DEF ScanUpdate, AllFree, OneTaken, Places
<1>19. ASSUME WorkerTake PROVE Goal
  BY <1>19, JobsSame, ScansSame DEF WorkerTake, Places
<1>20. ASSUME WorkerTail PROVE Goal
  BY <1>20, JobsSame, ScansSame DEF WorkerTail, Places
<1>21. ASSUME ScanTake PROVE Goal
  BY <1>21, JobsSame, ScansSame DEF ScanTake, Places
<1>22. ASSUME ScanLock PROVE Goal
  BY <1>22, JobsSame, ScansSame DEF ScanLock, Places
<1>23. ASSUME Shutdown PROVE Goal
  BY <1>23, JobsSame, ScansSame DEF Shutdown, Places
<1>24. ASSUME UNCHANGED vars PROVE Goal
  BY <1>24, JobsSame, ScansSame DEF vars, Places
<1> QED
  BY <1>1, <1>2, <1>3, <1>4, <1>5, <1>6, <1>7, <1>8, <1>9, <1>10, <1>11,
     <1>12, <1>13, <1>14, <1>15, <1>16, <1>17, <1>18, <1>19, <1>20, <1>21,
     <1>22, <1>23, <1>24
     DEF Next, ClientStep, WorkerStep, ScanStep

HasOwner == \E o \in Owners : Holders = {o}

(* Seen as the abstract variable: nobody holds the token, or one owner does. *)
LEMMA HoldersOfPlaces ==
    /\ AllFree => Holders = {}
    /\ OneTaken => HasOwner
<1>1. AllFree => Holders = {}
  BY DEF AllFree, Places, Holders
<1>2. ASSUME NEW j \in JobIds, Places = <<{j}, {}, FALSE, FALSE>>
      PROVE  Holders = {<<"job", j>>} /\ <<"job", j>> \in Owners
  BY <1>2 DEF Places, Holders, Owners
<1>3. ASSUME NEW s \in ScanIds, Places = <<{}, {s}, FALSE, FALSE>>
      PROVE  Holders = {<<"scan", s>>} /\ <<"scan", s>> \in Owners
  BY <1>3 DEF Places, Holders, Owners
<1>4. ASSUME Places = <<{}, {}, TRUE, FALSE>>
      PROVE  Holders = {<<"selfUpdate", 0>>} /\ <<"selfUpdate", 0>> \in Owners
  BY <1>4 DEF Places, Holders, Owners
<1>5. ASSUME Places = <<{}, {}, FALSE, TRUE>>
      PROVE  Holders = {<<"restart", 0>>} /\ <<"restart", 0>> \in Owners
  BY <1>5 DEF Places, Holders, Owners
<1> QED
  BY <1>1, <1>2, <1>3, <1>4, <1>5 DEF OneTaken, HasOwner

(* With all its locks, registries and threads, the gate is one token: every   *)
(* step takes it when it is free, gives it back, or leaves it alone.          *)
THEOREM GateImplementsToken == Spec => GateIsOneToken
<1>1. Init => Token!Init
  BY DEF Init, Token!Init, Holders, ActiveJobs, ActiveScans
<1>2. IInv /\ [Next]_vars => [Token!Next]_Holders
  <2> SUFFICES ASSUME IInv, [Next]_vars PROVE [Token!Next]_Holders
    OBVIOUS
  <2>1. CASE Places' = Places
    BY <2>1 DEF Places, Holders
  <2>2. (AllFree => Holders = {})' /\ (OneTaken => HasOwner)'
    BY HoldersOfPlaces, PTL
  <2>3. CASE AllFree /\ OneTaken'
    BY <2>2, <2>3, HoldersOfPlaces DEF HasOwner, Token!Next, Token!Acquire
  <2>4. CASE OneTaken /\ AllFree'
    BY <2>2, <2>4, HoldersOfPlaces DEF HasOwner, Token!Next, Token!Release
  <2> QED
    BY <2>1, <2>3, <2>4, PlacesStep
<1> QED
  BY <1>1, <1>2, InvariantHolds, PTL DEF Spec, GateIsOneToken, Token!Spec
-----------------------------------------------------------------------------
(* The registries *)

(* Ids are used in their order, and the place of a job tells its status. *)
StatusInv ==
    /\ \A j \in JobIds : j >= nextJob => status[j] = "none"
    /\ \A j \in jobs : status[j] # "none"
    /\ \A j \in queue : status[j] = "queued"
    /\ workerPc = "wait" => status[workerJob] = "queued"
    /\ workerPc = "work" => status[workerJob] = "running"

RegInv == IInv /\ StatusInv /\ RegistriesBounded

(* The oldest member of a registry that is not empty exists. *)
LEMMA OldestExists ==
    ASSUME NEW S \in SUBSET Nat, S # {}
    PROVE  Oldest(S, 1) # {}
<1>1. PICK i \in S : \A k \in S : i <= k
  BY LeastMember
<1>2. {k \in S : k < i} = {}
  <2>1. \A k \in S : ~(k < i)
    BY <1>1
  <2> QED
    BY <2>1
<1>3. Cardinality({k \in S : k < i}) < 1
  BY <1>2, FS_EmptySet
<1> QED
  BY <1>3 DEF Oldest

(* The registries are finite. *)
LEMMA RegistriesFinite ==
    ASSUME TypeOK
    PROVE  /\ IsFiniteSet(jobs) /\ Cardinality(jobs) \in Nat
           /\ IsFiniteSet(scans) /\ Cardinality(scans) \in Nat
<1>1. IsFiniteSet(JobIds) /\ IsFiniteSet(ScanIds)
  BY GateAssumption, FS_Interval DEF JobIds, ScanIds
<1> QED
  BY <1>1, FS_Subset, FS_CardinalityType DEF TypeOK

(* A full registry of finished jobs gives up one of them for a new one. *)
LEMMA RegisterJobBound ==
    ASSUME TypeOK, ActiveJobs = {}, RegistriesBounded
    PROVE  /\ Cardinality((jobs \ EvictedJobs) \cup {nextJob}) <= JobLimit
           /\ Cardinality(jobs \ EvictedJobs) <= JobLimit
<1> DEFINE kept == jobs \ EvictedJobs
<1>1. IsFiniteSet(jobs) /\ Cardinality(jobs) \in Nat /\ Cardinality(jobs) <= JobLimit
  BY RegistriesFinite DEF RegistriesBounded
<1>2. EvictedJobs \in SUBSET jobs
  BY EvictedAreFinished
<1>3. IsFiniteSet(kept) /\ Cardinality(kept) \in Nat /\ Cardinality(kept) <= JobLimit - 1
  <2>1. IsFiniteSet(kept) /\ Cardinality(kept) \in Nat /\ Cardinality(kept) <= Cardinality(jobs)
    BY <1>1, FS_Subset, FS_CardinalityType
  <2>2. CASE Cardinality(jobs) < JobLimit
    BY <1>1, <2>1, <2>2, GateAssumption
  <2>3. CASE Cardinality(jobs) = JobLimit
    <3>1. jobs # {} /\ jobs \in SUBSET Nat
      BY <1>1, <2>3, FS_EmptySet, GateAssumption DEF TypeOK, JobIds
    <3>2. jobs \ ActiveJobs = jobs
      OBVIOUS
    <3>3. EvictedJobs = Oldest(jobs, 1)
      BY <2>3, <3>2, GateAssumption DEF EvictedJobs
    <3> QED
      BY <1>1, <1>2, <2>1, <2>3, <3>1, <3>3, OldestExists, SmallerByOne
  <2> QED
    BY <1>1, <2>2, <2>3, GateAssumption
<1> HIDE DEF kept
<1>4. Cardinality(kept \cup {nextJob}) = IF nextJob \in kept THEN Cardinality(kept)
                                                            ELSE Cardinality(kept) + 1
  BY <1>3, FS_AddElement
<1>5. IsFiniteSet(kept \cup {nextJob}) /\ Cardinality(kept \cup {nextJob}) \in Nat
  BY <1>3, FS_AddElement, FS_CardinalityType
<1> QED
  BY <1>3, <1>4, <1>5, GateAssumption DEF kept

(* A full registry of finished scans gives up one of them for the new one. *)
LEMMA RegisterScanBound ==
    ASSUME TypeOK, RegistriesBounded, ActiveScans = {},
           NEW st, \A s \in scans : s # nextScan => st[s] = scanStatus[s]
    PROVE  Cardinality(PrunedScans(scans \cup {nextScan}, st)) <= ScanLimit
<1> DEFINE all == scans \cup {nextScan}
           old == {s \in all : st[s] \notin Active}
           size == Cardinality(all)
           pruned == Oldest(old, IF size > ScanLimit THEN size - ScanLimit ELSE 0)
<1>1. /\ IsFiniteSet(scans) /\ Cardinality(scans) \in Nat
      /\ Cardinality(scans) <= ScanLimit
  BY RegistriesFinite DEF RegistriesBounded
<1> HIDE DEF pruned
<1>2. /\ IsFiniteSet(all) /\ size \in Nat
      /\ size = IF nextScan \in scans THEN Cardinality(scans) ELSE Cardinality(scans) + 1
  BY <1>1, FS_AddElement, FS_CardinalityType
<1>3. PrunedScans(all, st) = all \ pruned
  BY DEF PrunedScans, pruned
<1>4. pruned \in SUBSET all
  BY OldestSubset DEF pruned
<1>5. CASE size <= ScanLimit
  <2>1. all \ pruned \in SUBSET all
    OBVIOUS
  <2>2. Cardinality(all \ pruned) <= size
    BY <1>2, <2>1, FS_Subset
  <2>3. IsFiniteSet(all \ pruned)
    BY <1>2, <2>1, FS_Subset
  <2>4. Cardinality(all \ pruned) \in Nat
    BY <2>3, FS_CardinalityType
  <2>5. Cardinality(all \ pruned) <= ScanLimit
    BY <1>2, <1>5, <2>2, <2>4, GateAssumption
  <2> QED
    BY <1>3, <2>5, Zenon
<1>6. CASE size > ScanLimit
  <2>1. /\ nextScan \notin scans
        /\ Cardinality(scans) = ScanLimit
        /\ size = ScanLimit + 1
    BY <1>1, <1>2, <1>6, GateAssumption
  <2>2. scans # {} /\ scans \in SUBSET Nat
    BY <1>1, <2>1, FS_EmptySet, GateAssumption DEF TypeOK, ScanIds
  <2>3. scans \subseteq old
    BY <2>1 DEF ActiveScans
  <2>4. old \in SUBSET Nat /\ old # {}
    <3>1. nextScan \in Nat
      BY GateAssumption DEF TypeOK
    <3> QED
      BY <2>2, <2>3, <3>1
  <2>5. pruned = Oldest(old, 1)
    BY <1>6, <2>1, GateAssumption DEF pruned
  <2>6. pruned # {}
    BY <2>4, <2>5, OldestExists
  <2>7. /\ Cardinality(all \ pruned) <= size - 1
        /\ IsFiniteSet(all \ pruned)
    BY <1>2, <1>4, <2>6, SmallerByOne
  <2>8. Cardinality(all \ pruned) \in Nat
    BY <2>7, FS_CardinalityType
  <2>9. Cardinality(all \ pruned) <= ScanLimit
    BY <2>1, <2>7, <2>8, GateAssumption
  <2> QED
    BY <1>3, <2>9, Zenon
<1> QED
  BY <1>2, <1>5, <1>6, GateAssumption

(* A job is added with an id that was never used, and starts and ends in the  *)
(* order of its statuses; only finished jobs make room.                       *)
RegistryStep ==
    /\ RegistriesBounded'
    /\ \A j \in JobIds : /\ MayFollow(status[j], status'[j])
                         /\ j \in jobs \ jobs' => status[j] \in Terminal

LEMMA RegStep == RegInv /\ [Next]_vars => StatusInv' /\ RegistryStep
<1> SUFFICES ASSUME RegInv, [Next]_vars PROVE StatusInv' /\ RegistryStep
  OBVIOUS
<1>0. TypeOK /\ IInv /\ StatusInv /\ RegistriesBounded
  BY DEF RegInv, IInv
<1> DEFINE Goal == StatusInv' /\ RegistryStep
           Quiet == /\ UNCHANGED <<jobs, status, nextJob, scans>>
                    /\ queue' \subseteq queue
                    /\ \/ workerPc' \notin {"wait", "work"}
                       \/ UNCHANGED <<workerPc, workerJob>>
                       \/ workerPc' = "wait" /\ workerJob' \in queue
<1>1. ASSUME Quiet PROVE Goal
  <2>1. StatusInv'
    BY <1>0, <1>1 DEF StatusInv
  <2>2. RegistriesBounded'
    BY <1>0, <1>1 DEF RegistriesBounded
  <2> QED
    BY <1>0, <1>1, <2>1, <2>2 DEF RegistryStep, MayFollow
<1> USE DEF lockVars, jobVars, workVars, flagVars, scanVars, scanWorkVars, clientVars
<1>2. ASSUME NEW c \in Clients, (\E o \in Ops : Begin(c, o)) \/ ClientStep(c),
             ~RegisterJob(c), ~RegisterScan(c), ~PopScan(c)
      PROVE  Goal
  <2>1. UNCHANGED <<jobs, status, nextJob, scans, queue, workerPc, workerJob>>
    BY <1>2 DEF ClientStep, Begin, AcquireApply, CheckActive, CheckScans, StartJob,
            ReserveFlag, SelfUpdateWork, PrepareRestart, RestartTask, ReleaseFlag,
            LockScans, SubmitScan
  <2>2. Quiet
    BY <2>1
  <2> QED
    BY <1>1, <2>2
<1>3. ASSUME NEW c \in Clients, RegisterJob(c) PROVE Goal
  <2>1. ActiveJobs = {}
    BY <1>0, <1>3 DEF RegisterJob, IInv, GateInv, GateFree
  <2>2. /\ nextJob \in JobIds /\ nextJob \in Nat
        /\ nextJob' = nextJob + 1
        /\ jobs \subseteq JobIds /\ JobIds \subseteq Nat
        /\ nextJob \notin jobs /\ status[nextJob] = "none"
        /\ UNCHANGED <<workerPc, workerJob, scans>>
    <3>1. nextJob \in JobIds
      BY <1>3 DEF RegisterJob
    <3>2. nextJob \in Nat /\ JobIds \subseteq Nat
      BY <3>1, GateAssumption DEF JobIds
    <3> QED
      BY <1>0, <1>3, <3>1, <3>2 DEF RegisterJob, StatusInv, TypeOK
  <2>3. RegistriesBounded'
    <3>1. Cardinality(jobs') <= JobLimit
      BY <1>0, <1>3, <2>1, RegisterJobBound DEF RegisterJob
    <3> QED
      BY <1>0, <2>2, <3>1 DEF RegistriesBounded
  <2>4. /\ \A j \in JobIds : j # nextJob => status'[j] = status[j]
        /\ status'[nextJob] \in {"queued", "none"}
        /\ jobs' \subseteq jobs \cup {nextJob} /\ queue' \subseteq queue \cup {nextJob}
        /\ nextJob \in jobs' \cup queue' => status'[nextJob] = "queued"
    BY <1>0, <1>3, <2>2 DEF RegisterJob, TypeOK, IInv, JobInv, ActiveJobs
  <2>5. \A j \in jobs \ jobs' : status[j] \in Terminal
    <3>1. jobs \ jobs' \subseteq jobs \ ActiveJobs
      BY <1>3, EvictedAreFinished DEF RegisterJob
    <3> QED
      BY <1>0, <3>1 DEF StatusInv, ActiveJobs, TypeOK, Statuses, Terminal
  <2>6. workerPc \notin {"wait", "work"}
    BY <1>0, <2>1 DEF IInv, JobInv
  <2>7. StatusInv'
    BY <1>0, <2>2, <2>4, <2>6 DEF StatusInv, TypeOK
  <2> QED
    BY <2>2, <2>3, <2>4, <2>5, <2>7 DEF RegistryStep, MayFollow
<1>4. ASSUME UNCHANGED <<jobs, status, nextJob, queue, workerPc, workerJob>>,
             Cardinality(scans') <= ScanLimit
      PROVE  Goal
  <2>1. StatusInv'
    BY <1>0, <1>4 DEF StatusInv
  <2>2. RegistriesBounded'
    BY <1>0, <1>4 DEF RegistriesBounded
  <2> QED
    BY <1>0, <1>4, <2>1, <2>2 DEF RegistryStep, MayFollow
<1>5. ASSUME scans' \subseteq scans PROVE Cardinality(scans') <= ScanLimit
  <2>1. IsFiniteSet(scans) /\ scans' \in SUBSET scans
    BY <1>0, <1>5, RegistriesFinite
  <2>2. IsFiniteSet(scans') /\ Cardinality(scans') <= Cardinality(scans)
    BY <2>1, FS_Subset
  <2>3. Cardinality(scans') \in Nat /\ Cardinality(scans) \in Nat
    BY <2>1, <2>2, FS_CardinalityType
  <2> QED
    BY <1>0, <2>2, <2>3, GateAssumption DEF RegistriesBounded
<1>6. ASSUME NEW c \in Clients, RegisterScan(c) PROVE Goal
  <2>1. UNCHANGED <<jobs, status, nextJob, queue, workerPc, workerJob>>
    BY <1>6 DEF RegisterScan
  <2>2. CASE ActiveScans = {}
    <3>1. /\ scans' = PrunedScans(scans \cup {nextScan}, scanStatus')
          /\ \A s \in scans : s # nextScan => scanStatus'[s] = scanStatus[s]
      BY <1>0, <1>6, <2>2 DEF RegisterScan, TypeOK
    <3>2. Cardinality(scans') <= ScanLimit
      BY <1>0, <2>2, <3>1, RegisterScanBound
    <3> QED
      BY <1>4, <2>1, <3>2
  <2>3. CASE ActiveScans # {}
    BY <1>4, <1>5, <1>6, <2>1, <2>3 DEF RegisterScan
  <2> QED
    BY <2>2, <2>3
<1>7. ASSUME NEW c \in Clients, PopScan(c) PROVE Goal
  BY <1>4, <1>5, <1>7 DEF PopScan
<1>8. ASSUME ScanUpdate PROVE Goal
  <2>1. scans' \subseteq scans
    BY <1>8, PruneKeeps DEF ScanUpdate
  <2> QED
    BY <1>4, <1>5, <1>8, <2>1 DEF ScanUpdate
<1>9. ASSUME ScanTake \/ ScanLock \/ Shutdown \/ UNCHANGED vars PROVE Goal
  <2>1. Quiet
    BY <1>9 DEF ScanTake, ScanLock, Shutdown, vars
  <2> QED
    BY <1>1, <2>1
<1>10. ASSUME WorkerTake PROVE Goal
  <2>1. PICK j \in queue : workerJob' = j /\ queue' = queue \ {j}
    BY <1>10, OldestSubset DEF WorkerTake
  <2> QED
    BY <1>1, <1>10, <2>1 DEF WorkerTake
<1>11. ASSUME WorkerTail PROVE Goal
  BY <1>1, <1>11 DEF WorkerTail
<1>12. ASSUME WorkerStart \/ WorkerFinish PROVE Goal
  <2>1. /\ UNCHANGED <<jobs, nextJob, scans, queue>>
        /\ workerPc \in {"wait", "work"}
        /\ workerJob \in jobs /\ workerJob \in JobIds /\ workerJob \notin queue
    BY <1>0, <1>12 DEF WorkerStart, WorkerFinish, IInv, JobInv, ActiveJobs, TypeOK
  <2>2. \E s \in {"running"} \cup Terminal :
            /\ MayFollow(status[workerJob], s)
            /\ status' = [status EXCEPT ![workerJob] = s]
            /\ workerPc' = "work" => s = "running" /\ workerJob' = workerJob
            /\ workerPc' # "wait"
    BY <1>0, <1>12, <2>1
       DEF WorkerStart, WorkerFinish, SetJobStatus, StatusInv, MayFollow
  <2>3. workerJob < nextJob
    <3>1. JobIds \subseteq Nat /\ nextJob \in Nat
      BY <1>0, GateAssumption DEF JobIds, TypeOK
    <3> QED
      BY <1>0, <2>1, <3>1 DEF StatusInv
  <2>4. StatusInv'
    BY <1>0, <2>1, <2>2, <2>3, GateAssumption DEF StatusInv, TypeOK, Terminal, JobIds
  <2>5. RegistriesBounded'
    BY <1>0, <2>1 DEF RegistriesBounded
  <2> QED
    BY <1>0, <2>1, <2>2, <2>4, <2>5 DEF RegistryStep, MayFollow, TypeOK
<1> QED
  BY <1>2, <1>3, <1>6, <1>7, <1>8, <1>9, <1>10, <1>11, <1>12
     DEF Next, WorkerStep, ScanStep

(* For any limits and any number of jobs, scans and threads: no registry      *)
(* outgrows its limit, a job only goes forward, and only a finished job is    *)
(* evicted.  The invariant is what makes one eviction enough: while a job is  *)
(* added no other one is active, so that a full registry has one to give up.  *)
THEOREM RegistriesAreKept == Spec => RegistriesKept
<1>1. Init => StatusInv /\ RegistriesBounded
  <2> SUFFICES ASSUME Init PROVE StatusInv /\ RegistriesBounded
    OBVIOUS
  <2>1. StatusInv
    BY DEF Init, StatusInv
  <2>2. RegistriesBounded
    BY FS_EmptySet, GateAssumption DEF Init, RegistriesBounded
  <2> QED
    BY <2>1, <2>2
<1>2. RegInv /\ [Next]_vars /\ IInv' => RegInv'
  BY RegStep DEF RegInv, RegistryStep
<1>3. RegInv /\ [Next]_vars => RegistryStep
  BY RegStep
<1>4. Spec => []RegInv
  BY <1>1, <1>2, InvariantHolds, PTL DEF Spec, RegInv
<1> QED
  BY <1>3, <1>4, PTL DEF Spec, RegistriesKept, RegistryStep
=============================================================================
