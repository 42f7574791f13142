------------------------ MODULE PendingObservations ------------------------
(* What outlives a refresh of WUD's API: the pending observations in memory,  *)
(* their copy in the database, and the pending lines that a plan is made of   *)
(* (web_wud_cache.py, web_wud_observation_store.py, web_pending_sources.py).  *)
(* A refresh is one step here; its interleavings are WudCache's.              *)
EXTENDS WudObservations

CONSTANT Sources    \* base URLs of the API

VARIABLES
    config,     \* base URL of this process, and whether it has credentials
    pending,    \* _pending_observation_cache
    shown,      \* the last snapshot: updates, unresolved, degraded
    db,         \* the row wud.pending_observations
    origin      \* history: where and how the entries of pending and db were seen

vars == <<config, pending, shown, db, origin>>

Config == [source : Sources, auth : BOOLEAN]
NothingShown == [updates |-> {}, unresolved |-> {}, degraded |-> {}]

TypeOK ==
    /\ config \in Config
    /\ pending \subseteq Observation
    /\ shown.updates \subseteq Observation
    /\ db \in [source : Sources, observations : SUBSET Observation] \cup {None}
    /\ origin \in [pending : Config, db : Config \cup {None}]

Init ==
    /\ config \in Config
    /\ pending = {} /\ shown = NothingShown /\ db = None
    /\ origin = [pending |-> config, db |-> None]

(* A refresh that got a payload, in the terms of _reconcile_container_...     *)
Refresh ==
    /\ \E payload \in Payload :
           LET r == Reconcile(pending, payload)
           IN  /\ pending' = r.pending
               /\ shown' = [updates |-> r.updates, unresolved |-> r.unresolved,
                            degraded |-> r.degraded]
    /\ origin' = [origin EXCEPT !.pending = config]
    /\ UNCHANGED <<config, db>>

(* WUD does not answer: _store_snapshot without observations *)
RefreshFails ==
    /\ shown' = NothingShown
    /\ UNCHANGED <<config, pending, db, origin>>

(* Mutant: every process keeps a copy. *)
PersistenceAlways == TRUE

(* _observation_persistence_enabled: never with credentials *)
PersistenceEnabled == ~config.auth

(* checkpoint_pending_observation_cache and replace_pending_observations,     *)
(* after an apply and at a clean end.  status and labels are not stored.      *)
Checkpoint ==
    /\ PersistenceEnabled
    /\ db' = [source |-> config.source,
              observations |-> {[o EXCEPT !.status = "fresh", !.on = o.image] : o \in pending}]
    /\ origin' = [origin EXCEPT !.db = origin.pending]
    /\ UNCHANGED <<config, pending, shown>>

(* Mutant: the row is taken whatever API it came from. *)
LoadAnything(cf) == IF db = None THEN {} ELSE db.observations

(* load_pending_observations *)
Load(cf) == IF db # None /\ db.source = cf.source THEN db.observations ELSE {}

(* The process stops or is killed, and the next one begins, maybe with        *)
(* another configuration: initialize_pending_observation_cache.  With         *)
(* credentials it forgets the row, which may fail, and loads nothing.         *)
Restart ==
    /\ \E cf \in Config :
           /\ config' = cf
           /\ \/ cf.auth /\ UNCHANGED db
              \/ cf.auth /\ db' = [source |-> cf.source, observations |-> {}]
              \/ ~cf.auth /\ UNCHANGED db
           /\ pending' = IF cf.auth THEN {} ELSE Load(cf)
           /\ origin' = [pending |-> IF cf.auth \/ Load(cf) = {} THEN cf ELSE origin.db,
                         db |-> origin.db]
    /\ shown' = NothingShown

Next == Refresh \/ RefreshFails \/ Checkpoint \/ Restart

Spec == Init /\ [][Next]_vars

-----------------------------------------------------------------------------
(* Pending lines: one line for the update of the repository *)

(* Mutant: only the containers with an update speak. *)
RelatedOwn == {o.status : o \in shown.updates}

(* api_pending_lines merges every container that an apply of the line may     *)
(* touch; an unresolved one counts as retained.                               *)
Related ==
    {o.status : o \in shown.updates} \cup {"retained" : u \in shown.unresolved}

(* _least_fresh_metadata_status *)
LineStatus == IF "retained" \in Related THEN "retained" ELSE "fresh"

(* A plan can be applied only from fresh lines (plan_can_apply): then no      *)
(* container that runs the repository has an old or an unknown result.        *)
FreshLineIsFresh ==
    (shown.updates # {} /\ LineStatus = "fresh") =>
        shown.degraded = {} /\ \A o \in shown.updates : o.status = "fresh"

(* An old result is kept only for the very image it was about, never for a    *)
(* container that was updated or rolled back since, also across restarts.     *)
RetainedIsAboutThisImage == \A o \in shown.updates : o.on = o.image

(* Observations stay with the API they came from, and "authenticated          *)
(* observations must not cross restarts" (web_wud_cache.py:994).              *)
ObservationsStayHome ==
    /\ pending # {} => origin.pending = config
    /\ db # None /\ db.observations # {} => ~origin.db.auth /\ origin.db.source = db.source
=============================================================================
