------------------------------ MODULE WudCache ------------------------------
(* The snapshot of WUD's API in a process of WUDup (web_wud_cache.py), the    *)
(* pending lines made of it (web_pending_sources.py), and the rescans that    *)
(* ask WUD to look again (web_pending_rescan.py).                             *)
(*                                                                            *)
(* A request runs in a thread; HTTP calls and sections under _cache_lock are  *)
(* one step each, _refresh_lock is a variable.  Containers may change, and    *)
(* WUD may check them, at any time: every payload is possible.                *)
EXTENDS Naturals, WudObservations

CONSTANTS
    Threads,
    Rescanners, \* the threads that serve rescans, a bound of the model
    MaxClock,   \* end of time, a bound of the model
    Cooldown    \* WUD_API_RATE_LIMIT_COOLDOWN_SECONDS

All == "all"    \* _WATCH_ALL_COOLDOWN_CONTAINER_ID, and the scope of a full rescan

VARIABLES
    snapshot,   \* _snapshot_cache
    pending,    \* _pending_observation_cache
    until,      \* _watch_rate_limit_until
    clock,      \* time.monotonic
    lock,       \* holder of _refresh_lock
    pc, task,   \* where a thread is, and the locals of its call
    known       \* history: containers whose last stored check found an update

cache == <<snapshot, pending, known>>
vars == <<cache, until, clock, lock, pc, task>>

Snapshot == [state : {"ready", "down"}, checked : Nat, metadata : BOOLEAN,
             updates : SUBSET Observation, unresolved : SUBSET (Containers \X {0, 1}),
             degraded : SUBSET Containers]

TypeOK ==
    /\ snapshot \in Snapshot \cup {None}
    /\ pending \subseteq Observation
    /\ until \in [Containers \cup {All} -> Nat]
    /\ clock \in 0..MaxClock
    /\ lock \in Threads \cup {None}
    /\ pc \in [Threads -> {"idle", "lock", "fetch", "store", "post", "select",
                        "report"}]
    /\ known \subseteq Containers

Idle == [then |-> "idle", metadata |-> FALSE, result |-> None, pending |-> None,
         checked |-> 0, scope |-> {}, ids |-> {}, watched |-> {}, all |-> TRUE, paused |-> {}]

Init ==
    /\ snapshot = None /\ pending = {} /\ known = {}
    /\ until = [x \in Containers \cup {All} |-> 0]
    /\ clock = 0 /\ lock = None
    /\ pc = [t \in Threads |-> "idle"] /\ task = [t \in Threads |-> Idle]

Goto(t, l) == pc' = [pc EXCEPT ![t] = l]

-----------------------------------------------------------------------------
(* Refresh *)

(* get_snapshot: the cached snapshot will do for a while, but a health check  *)
(* is not enough for one who asks for containers.                             *)
Call(t, metadata, then, new) ==
    /\ task' = [task EXCEPT ![t] = [new EXCEPT !.metadata = metadata, !.then = then]]
    /\ Goto(t, "lock")

CachedEnough(metadata) ==
    snapshot # None /\ snapshot.checked = clock /\ (metadata => snapshot.metadata)

GetSnapshot(t) ==
    /\ pc[t] = "idle"
    /\ \E metadata \in BOOLEAN :
           /\ ~CachedEnough(metadata)
           /\ Call(t, metadata, "idle", Idle)
    /\ UNCHANGED <<cache, until, clock, lock>>

(* _refresh_snapshot *)
RefreshBegin(t) ==
    /\ pc[t] = "lock" /\ lock = None
    /\ lock' = t
    /\ Goto(t, "fetch")
    /\ task' = [task EXCEPT ![t].checked = clock]
    /\ UNCHANGED <<cache, until, clock>>

Outcome(state, metadata, checked) ==
    [state |-> state, checked |-> checked, metadata |-> metadata,
     updates |-> {}, unresolved |-> {}, degraded |-> {}]

(* _refresh_snapshot_serialized: the health check, then the containers.  Any  *)
(* status but ready is "down" here.                                           *)
Fetch(t) ==
    /\ pc[t] = "fetch"
    /\ \/ /\ task' = [task EXCEPT ![t].result = Outcome("down", task[t].metadata, task[t].checked)]
       \/ /\ ~task[t].metadata
          /\ task' = [task EXCEPT ![t].result = Outcome("ready", FALSE, task[t].checked)]
       \/ /\ task[t].metadata
          /\ \E payload \in Payload :
                LET r == Reconcile(pending, payload)
                IN  task' = [task EXCEPT
                        ![t].result = [Outcome("ready", TRUE, task[t].checked) EXCEPT
                             !.updates = r.updates, !.unresolved = r.unresolved,
                             !.degraded = r.degraded],
                        ![t].pending = r.pending]
    /\ Goto(t, "store")
    /\ UNCHANGED <<cache, until, clock, lock>>

(* Mutant: whoever comes last wins. *)
OvertakenNever(s) == FALSE

(* _store_snapshot keeps a snapshot that was begun later. *)
Overtaken(s) == snapshot # None /\ snapshot.checked > s.checked

Known(os) == {o.c : o \in {o \in os : o.digest}}

(* Mutant: an early return keeps the lock. *)
ReleasedIfReady(t) == IF task[t].result.state = "ready" THEN None ELSE lock

(* with _refresh_lock *)
Released(t) == None

(* _store_snapshot, and back to the caller *)
Store(t) ==
    /\ pc[t] = "store"
    /\ IF Overtaken(task[t].result)
       THEN UNCHANGED <<snapshot, pending, known>>
       ELSE /\ snapshot' = task[t].result
            /\ pending' = IF task[t].pending = None THEN pending ELSE task[t].pending
            /\ known' = IF task[t].pending = None THEN known
                        ELSE Known(task[t].result.updates)
    /\ lock' = Released(t)
    /\ \/ /\ task[t].then = "post" /\ task[t].result.state = "ready"
          /\ Goto(t, "post")
          /\ task' = [task EXCEPT ![t].result = None, ![t].checked = 0]
       \/ /\ task[t].then = "post" /\ task[t].result.state # "ready"
          /\ Goto(t, "report")
          /\ task' = [task EXCEPT ![t].ids = {}, ![t].all = FALSE, ![t].checked = 0]
       \/ /\ task[t].then = "idle"
          /\ Goto(t, "idle") /\ task' = [task EXCEPT ![t] = Idle]
       \/ /\ task[t].then \in {"report", "select"}
          /\ Goto(t, task[t].then)
          /\ task' = [task EXCEPT ![t].pending = None, ![t].checked = 0]
    /\ UNCHANGED <<until, clock>>

-----------------------------------------------------------------------------
(* Rescans: api_pending_rescan, watch_all and watch_containers *)

(* Mutant: a full scan only heeds a pause of its own. *)
PausedOwn(x) == {x} \cap {y \in DOMAIN until : until[y] > clock}

(* _watch_rate_limit_cooldown_remaining: the pauses that keep x waiting *)
Paused(x) ==
    {y \in DOMAIN until : until[y] > clock /\ (x = All \/ y \in {All, x})}

(* _watch_items_after_cooldown: nothing left to watch is only a refresh;      *)
(* otherwise a health check goes first (_watch_paths).                        *)
StartWatch(t, scope) ==
    LET items == {x \in scope : Paused(x) = {}}
        new == [Idle EXCEPT !.ids = items, !.scope = scope, !.all = items = scope,
                            !.paused = {y \in DOMAIN until : until[y] > clock}]
    IN  Call(t, items = {}, IF items = {} THEN "report" ELSE "post", new)

(* _pending_rescan_all, and the refresh after an apply (web_jobs.py) *)
WatchBegin(t, scope) ==
    /\ t \in Rescanners /\ pc[t] = "idle"
    /\ StartWatch(t, scope)
    /\ UNCHANGED <<cache, until, clock, lock>>

(* _pending_rescan_selected: first the source is read anew *)
RescanBegin(t) ==
    /\ t \in Rescanners /\ pc[t] = "idle"
    /\ Call(t, TRUE, "select", Idle)
    /\ UNCHANGED <<cache, until, clock, lock>>

(* The selected lines must still be there, with their containers; a stale     *)
(* selection is refused.                                                      *)
Select(t) ==
    /\ pc[t] = "select"
    /\ \/ /\ task[t].result.state = "ready"
          /\ \E scope \in SUBSET {o.c : o \in task[t].result.updates} :
                 scope # {} /\ StartWatch(t, scope)
       \/ /\ task[t].result.state = "ready"
          /\ Goto(t, "idle") /\ task' = [task EXCEPT ![t] = Idle]
       \/ /\ task[t].result.state # "ready"
          /\ Goto(t, "report") /\ task' = [task EXCEPT ![t].all = FALSE]
    /\ UNCHANGED <<cache, until, clock, lock>>

Targets(x) == IF x = All THEN Containers ELSE {x}

(* One request of _watch_batch: answered, and a check that the registry       *)
(* refused with 429 starts a pause; 404, the container is gone; or another    *)
(* error, which ends the batch.                                               *)
WatchPost(t, x) ==
    /\ pc[t] = "post" /\ x \in task[t].ids
    /\ \/ /\ \E limited \in SUBSET Targets(x) :
                /\ until' = [y \in DOMAIN until |->
                                 IF y \in limited THEN clock + Cooldown ELSE until[y]]
                /\ task' = [task EXCEPT ![t].ids = @ \ {x}, ![t].watched = @ \cup {x},
                                        ![t].all = @ /\ limited = {}]
          /\ UNCHANGED <<cache, pc>>
       \/ /\ x # All
          /\ task' = [task EXCEPT ![t].ids = @ \ {x}, ![t].all = FALSE]
          /\ UNCHANGED <<cache, until, pc>>
       \/ /\ snapshot' = LET s == Outcome("down", TRUE, clock)
                         IN  IF Overtaken(s) THEN snapshot ELSE s
          /\ task' = [task EXCEPT ![t].result = Outcome("down", TRUE, clock),
                                  ![t].ids = {}, ![t].all = FALSE]
          /\ Goto(t, "report")
          /\ UNCHANGED <<pending, known, until>>
    /\ UNCHANGED <<clock, lock>>

(* All requests are done, or the time of the batch is over: the containers    *)
(* are read anew for the report.                                              *)
WatchEnd(t) ==
    /\ pc[t] = "post"
    /\ Call(t, TRUE, "report", [task[t] EXCEPT !.ids = {}, !.all = @ /\ task[t].ids = {}])
    /\ UNCHANGED <<cache, until, clock, lock>>

(* Mutant: what is still degraded is not asked. *)
RemainingNone(t) == {}

(* _remaining_degraded_container_ids, and watch_all's own *)
Remaining(t) ==
    task[t].result.degraded \cap (IF All \in task[t].scope THEN Containers ELSE task[t].scope)

(* _pending_rescan_status *)
RescanStatus(t) ==
    IF task[t].result.state # "ready" \/ (~task[t].all /\ task[t].watched = {})
    THEN IF task[t].watched # {} THEN "partial" ELSE "blocked"
    ELSE IF ~task[t].all \/ Remaining(t) # {} THEN "partial" ELSE "success"

(* The response, and the end of its audit row *)
Report(t) ==
    /\ pc[t] = "report"
    /\ Goto(t, "idle")
    /\ task' = [task EXCEPT ![t] = Idle]
    /\ UNCHANGED <<cache, until, clock, lock>>

-----------------------------------------------------------------------------
Tick ==
    /\ clock < MaxClock
    /\ clock' = clock + 1
    /\ UNCHANGED <<cache, until, lock, pc, task>>

Step(t) == Select(t) \/ RefreshBegin(t) \/ Fetch(t) \/ Store(t) \/ Report(t) \/ WatchEnd(t)
               \/ \E x \in Containers \cup {All} : WatchPost(t, x)

Next ==
    \/ \E t \in Threads :
           \/ Step(t) \/ GetSnapshot(t) \/ RescanBegin(t)
           \/ \E scope \in {{All}} \cup (SUBSET Containers \ {{}}) : WatchBegin(t, scope)
    \/ Tick

Spec == Init /\ [][Next]_vars

(* A thread in a call goes on; HTTP calls have timeouts. *)
FairSpec == Spec /\ \A t \in Threads : SF_vars(RefreshBegin(t)) /\ WF_vars(Step(t))

-----------------------------------------------------------------------------
(* "When a WUD update check fails, the affected update keeps its last         *)
(* successful result if WUDup saw one" (docs/wiki/webui-container.md:64):     *)
(* from stored refresh to stored refresh, failed checks of an unchanged       *)
(* container do not make its update unknown (if its digest was known).        *)
LastResultKept ==
    [][(snapshot' # None /\ snapshot' # snapshot) =>
           \A c \in known : <<c, 0>> \notin snapshot'.unresolved]_vars

(* The cached snapshot never gets older: an answer that was asked for before  *)
(* a newer one is dropped.                                                    *)
SnapshotsGoForward ==
    [][(snapshot # None /\ snapshot' # None) => snapshot'.checked >= snapshot.checked]_vars

(* A rescan that reports success has watched everything it was asked for, and *)
(* the containers were read after that without a failed check among them; one *)
(* that is not blocked has watched something.                                 *)
SuccessMeansScanned ==
    \A t \in Threads :
        pc[t] = "report" =>
            /\ RescanStatus(t) = "success" =>
                  /\ task[t].watched = task[t].scope
                  /\ task[t].result.degraded
                         \cap (UNION {Targets(x) : x \in task[t].scope}) = {}
            /\ RescanStatus(t) # "blocked" => task[t].watched # {}

(* A rescan that begins in a pause after HTTP 429 does not ask WUD for the    *)
(* paused container, neither alone nor with all others.                       *)
PausesKept ==
    \A t \in Threads : \A x \in task[t].watched : task[t].paused \cap (Targets(x) \cup {All}) = {}

Called(t) == pc[t] # "idle"

(* Every call returns: nobody waits for ever on _refresh_lock. *)
CallsReturn == \A t \in Threads : Called(t) ~> ~Called(t)
=============================================================================
