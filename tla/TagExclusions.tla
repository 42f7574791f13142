---------------------------- MODULE TagExclusions ----------------------------
(* The lines of a run that exclude the proposed tag                           *)
(* (updater_tag_exclusions.py): the plan, the labels wud.tag.exclude in the   *)
(* Compose files, the rules in the database and the recreation of the         *)
(* services, over several runs.  A line whose exclusion fails stays pending   *)
(* and comes again.                                                           *)
(*                                                                            *)
(* A label is the sequence of the alternatives of its regex, and each of them *)
(* a set of tags: the text matters only because two texts are compared.       *)
EXTENDS Naturals, Sequences, FiniteSets, Functions, SequencesExt

CONSTANTS
    Stacks, ServicesOf,
    Repo,           \* the image repository of each service
    Provider,       \* network_mode: the service whose network a service uses
    TagOf,          \* the tag that each line excludes
    Matches,        \* the services that each line names
    Writable,       \* services whose labels can be rewritten
    Authored,       \* services that may have a regex of their user
    MayStop,        \* services that may be stopped
    Overridden,     \* stacks whose containers were started with more files
    MaxRuns         \* bound: runs

Existing == UNION {ServicesOf[st] : st \in Stacks}
StackOf(sv) == CHOOSE st \in Stacks : sv \in ServicesOf[st]
Lines == DOMAIN TagOf

VARIABLES
    label,          \* the label of each service in the Compose file
    rules,          \* active tag_exclusion_rules, as the tags of each service
    carried,        \* the label of each container
    up,             \* the services whose container runs
    lost,           \* history: running services whose network this run replaced
    pc, updates,    \* the run, and its planned pairs of service and line
    applied,        \* successful_updates
    recreate,       \* recreate_excluded_services
    failed,         \* pairs of stack and line with a failure
    todo,           \* stacks that are still to come
    pending,        \* lines in the pending file
    runs

runVars == <<pc, updates, applied, recreate, failed, todo>>
vars == <<label, rules, carried, up, lost, runVars, pending, runs>>

Tags == {TagOf[l] : l \in Lines}
Labels == Seq(SUBSET (Tags \cup {"user"}))

TypeOK ==
    /\ label \in [Existing -> Labels] /\ carried \in [Existing -> Labels]
    /\ rules \in [Existing -> SUBSET Tags]
    /\ up \subseteq Existing /\ lost \subseteq Existing
    /\ pc \in {"idle", "write", "recreate", "mark"}
    /\ updates \subseteq Existing \X Lines /\ applied \subseteq updates
    /\ recreate \in BOOLEAN /\ failed \subseteq Stacks \X Lines
    /\ todo \subseteq Stacks /\ pending \subseteq Lines /\ runs \in 0..MaxRuns

Excluded(text) == UNION Range(text)

(* A user may have written a regex of his own. *)
Init ==
    /\ \E U \in SUBSET Authored :
           label = [sv \in Existing |-> IF sv \in U THEN <<{"user"}>> ELSE <<>>]
    /\ carried = label
    /\ rules = [sv \in Existing |-> {}]
    /\ \E S \in SUBSET MayStop : up = Existing \ S
    /\ lost = {}
    /\ pc = "idle" /\ updates = {} /\ applied = {} /\ recreate = FALSE
    /\ failed = {} /\ todo = {} /\ pending = Lines /\ runs = 0

-----------------------------------------------------------------------------
(* plan_tag_exclusions *)

(* tag_exclusion_repo_updates *)
SameRepo(l) == {sv \in Existing : \E m \in Matches[l] : Repo[sv] = Repo[m]}

(* All services of the repository, or else those of the line, or none *)
Planned(l) ==
    IF SameRepo(l) \subseteq Writable THEN SameRepo(l)
    ELSE IF Matches[l] \subseteq Writable THEN Matches[l]
    ELSE {}

(* The user chooses lines and whether to recreate. *)
StartRun ==
    /\ pc = "idle" /\ runs < MaxRuns
    /\ runs' = runs + 1
    /\ \E L \in SUBSET pending : updates' = UNION {Planned(l) \X {l} : l \in L}
    /\ recreate' \in BOOLEAN
    /\ applied' = {} /\ failed' = {}
    /\ todo' = {StackOf(u[1]) : u \in updates'}
    /\ pc' = "write" /\ lost' = {}
    /\ UNCHANGED <<label, rules, carried, up, pending>>

-----------------------------------------------------------------------------
(* apply_tag_exclusions *)

OfStack(st, U) == {u \in U : StackOf(u[1]) = st}
FailStack(st, U) == failed' = failed \cup {<<st, u[2]>> : u \in OfStack(st, U)}

NewTags(sv) == {TagOf[u[2]] : u \in {x \in updates : x[1] = sv}}

(* Mutant: the managed part holds only the new tags. *)
NextManagedNew(sv) == NewTags(sv)

NextManaged(sv) == rules[sv] \cup NewTags(sv)

(* merge_wud_exclude_regex *)
Merge(current, previous, next) ==
    IF current = <<>> \/ current = <<previous>> THEN <<next>>
    ELSE IF current = <<next>> THEN current
    ELSE Append(current, next)

(* Mutant: a stack is refused only when it comes to recreating it. *)
RefusedLater(st) == FALSE

(* _compose_file_refusal_reason *)
Refused(st) == recreate /\ st \in Overridden

(* _write_stack_tag_exclusions: the labels that change, and the rules.  The   *)
(* file may have changed or be unwritable.  Docker may not tell how the       *)
(* projects were started.                                                     *)
WriteStack(st) ==
    /\ pc = "write" /\ st \in todo
    /\ todo' = todo \ {st}
    /\ LET mine == {u[1] : u \in OfStack(st, updates)}
           new == [sv \in mine |-> Merge(label[sv], rules[sv], NextManaged(sv))]
           changed == {sv \in mine : new[sv] # label[sv]}
       IN  \/ /\ ~Refused(st)
              /\ label' = [sv \in Existing |-> IF sv \in mine THEN new[sv] ELSE label[sv]]
              /\ rules' = [sv \in Existing |->
                              IF sv \in mine THEN rules[sv] \cup NewTags(sv) ELSE rules[sv]]
              /\ applied' = applied \cup {u \in updates : u[1] \in changed}
              /\ UNCHANGED failed
           \/ FailStack(st, updates) /\ UNCHANGED <<label, rules, applied>>
    /\ UNCHANGED <<carried, up, lost, pc, updates, recreate, pending, runs>>

WritesDone ==
    /\ pc = "write" /\ todo = {}
    /\ pc' = IF recreate THEN "recreate" ELSE "mark"
    /\ todo' = IF recreate THEN {StackOf(u[1]) : u \in applied} ELSE {}
    /\ UNCHANGED <<label, rules, carried, up, lost, updates, applied, recreate, failed,
                   pending, runs>>

-----------------------------------------------------------------------------
(* recreate_tag_exclusion_services *)

Consumers(S) == {sv \in Existing : sv \in DOMAIN Provider /\ Provider[sv] \in S}

(* Mutant: the services that use the network are left alone. *)
ExpandNone(S) == S

(* _expand_network_mode_services: the services with all that use their        *)
(* networks, directly or through one another                                  *)
Expand(S) ==
    {sv \in Existing : \A T \in SUBSET Existing :
        S \subseteq T /\ Consumers(T) \subseteq T => sv \in T}

(* _missing_network_mode_providers *)
Missing(S) == {Provider[sv] : sv \in S \cap DOMAIN Provider} \ (S \cup up)

(* _running_consumers_of_stopped_providers *)
Blocked(S) == {sv \in S \cap up : sv \in DOMAIN Provider /\ Provider[sv] \in S \ up}

(* What is recreated, and the networks that go with it: a provider that is    *)
(* stopped has none to lose                                                   *)
Recreated(S) ==
    /\ carried' = [sv \in Existing |-> IF sv \in S THEN label[sv] ELSE carried[sv]]
    /\ lost' = (lost \ S) \cup ((Consumers(S \cap up) \cap up) \ S)

(* Mutant: all services are started. *)
StartedAll(S) == S

(* The services that are recreated and run afterwards *)
Started(S) == S \cap up

(* _recreate_preserving_runtime_state: first the stopped ones, without a      *)
(* start, then the others and their health.  Each of the calls may fail.      *)
RecreateStack(st) ==
    /\ pc = "recreate" /\ st \in todo
    /\ todo' = todo \ {st}
    /\ LET changed == {u[1] : u \in OfStack(st, applied)}
           S == Expand(changed) \cup Missing(changed)
       IN  \/ /\ Blocked(S) = {}
              /\ Recreated(S) /\ up' = up \cup Started(S)
              /\ UNCHANGED failed
           \/ /\ FailStack(st, applied)
              /\ \E T \in SUBSET S :
                     Recreated(IF Blocked(S) = {} THEN T ELSE {})
              /\ UNCHANGED up
    /\ UNCHANGED <<label, rules, pc, updates, applied, recreate, pending, runs>>

RecreateDone ==
    /\ pc = "recreate" /\ todo = {}
    /\ pc' = "mark"
    /\ UNCHANGED <<label, rules, carried, up, lost, updates, applied, recreate, failed, todo,
                   pending, runs>>

(* Mutant: the last stack of a line decides. *)
LineOkAny(l) ==
    \E u \in updates : u[2] = l /\ <<StackOf(u[1]), l>> \notin failed

(* A line succeeds when it was planned and no stack of it failed. *)
LineOk(l) ==
    /\ \E u \in updates : u[2] = l
    /\ \A u \in updates : u[2] = l => <<StackOf(u[1]), l>> \notin failed

(* mark_successful_tag_exclusions; the lines that succeeded leave the file *)
Mark ==
    /\ pc = "mark"
    /\ pending' = {l \in pending : ~LineOk(l)}
    /\ pc' = "idle" /\ updates' = {} /\ applied' = {} /\ failed' = {} /\ recreate' = FALSE
    /\ UNCHANGED <<label, rules, carried, up, lost, todo, runs>>

Next ==
    \/ StartRun \/ WritesDone \/ RecreateDone \/ Mark
    \/ \E st \in Stacks : WriteStack(st) \/ RecreateStack(st)

Spec == Init /\ [][Next]_vars

-----------------------------------------------------------------------------
(* A line leaves the pending file only when the tag is excluded for every     *)
(* service that it names, whatever other lines and earlier runs did.          *)
ResolvedMeansExcluded ==
    \A l \in Lines \ pending : \A sv \in Matches[l] : TagOf[l] \in Excluded(label[sv])

(* What is excluded stays excluded: the user's own regex, and the tags of     *)
(* earlier runs ("Existing user-authored exclude regexes are preserved").     *)
ExclusionsKept ==
    [][\A sv \in Existing : Excluded(label[sv]) \subseteq Excluded(label'[sv])]_vars

(* A stopped service is recreated, but not started. *)
StoppedStayStopped == [][up' = up]_vars

(* A stack that cannot be recreated gets no label that its containers would   *)
(* not carry ("Refuse before writing labels", apply_tag_exclusions).          *)
RefusedUntouched ==
    [][\A st \in Overridden : recreate =>
           \A sv \in ServicesOf[st] : label'[sv] = label[sv]]_vars

(* No service is left running without its network by a run that does not say  *)
(* that the stack failed.                                                     *)
NetworksKept ==
    pc = "mark" =>
        \A sv \in lost : \E l \in Lines : <<StackOf(sv), l>> \in failed
=============================================================================
