----------------------------- MODULE PlanApply -----------------------------
(* A plan from its review to the run that applies it.  The plan is built    *)
(* from WUD's list of updates, the Compose files, the settings and the      *)
(* registry; its id is a hash of what it would do.  To apply it the server  *)
(* asks the mutation gate, fetches the list again, builds the plan again,   *)
(* compares the ids, and takes the gate; the run that follows reads the     *)
(* settings and the Compose files once more, with the list as it was        *)
(* checked.  Anybody may edit any of them in between.  A hash is modelled   *)
(* by what is hashed.                                                       *)
EXTENDS Naturals, FiniteSets

CONSTANTS
    Slots,        \* services, as pairs of a stack and a service
    Lines,        \* line numbers of WUD's list
    Targets,      \* [from, to]: the image an entry names, the tag it asks for
    Images,       \* what a service may run in Compose: a tag, "pin" or "off"
    Lists, Files, \* the lists and Compose files to start from
    Options,      \* [allow, over, dec]: what a reviewer sends with the lines
    PlanLimit,    \* REVIEWED_PLAN_LIMIT
    MaxOutside    \* bound on changes from outside

VARIABLES
    list,     \* WUD's list: the entry of each line, and the status of its data
    compose,  \* the image of each service in its Compose file
    cfg,      \* [pin, ignored]: digest_pin_updates, compose_ignore_paths
    reg,      \* the tags the registry has
    gate,     \* who holds the mutation gate
    phase,    \* where the request is
    req,      \* what the reviewer selected
    plan,     \* the plan that was reviewed
    source,   \* the list this request fetched
    jobCfg,   \* the settings the job has read
    newer,    \* how many plans were reviewed since, or PlanLimit after a restart
    reason,   \* why the plan was refused as stale
    applied,  \* what the run changed
    changes,  \* what changed since the review, up to the check
    late,     \* what changed after the check
    outside

vars == <<list, compose, cfg, reg, gate, phase, req, plan, source, jobCfg,
          newer, reason, applied, changes, late, outside>>

NoEntry == [from |-> "", to |-> ""]
Stack(s) == s[1]
Tagged(t) == t.to \notin {"", "dig"}

-----------------------------------------------------------------------------
(* Matching lines with services, shared by the planner and the run.         *)

(* The slots of the stacks that discovery finds.                            *)
Discovered(f, c) == {s \in Slots : f[s] # "off" /\ Stack(s) \notin c.ignored}

(* An entry fits the image it names; with pinning on, an entry for a new    *)
(* digest also fits the service that is pinned to the old one.              *)
Fits(t, image, c) ==
    \/ image = t.from
    \/ c.pin /\ t.to = "dig" /\ image = "pin"

(* Lines that ask for a tag are left out unless tags may change.            *)
MatchTargets(l, lines, f, c, opt) ==
    {m \in lines \X Discovered(f, c) :
        /\ l[m[1]] # NoEntry
        /\ Tagged(l[m[1]]) => opt.allow
        /\ Fits(l[m[1]], f[m[2]], c)}

(* Without pinning, a line for a digest that fits nothing is matched with   *)
(* the services pinned to that image, whose tag is known.                   *)
Recovered(l, lines, f, c, matches) ==
    IF c.pin THEN {}
    ELSE {m \in lines \X Discovered(f, c) :
            /\ l[m[1]].to = "dig"
            /\ \A n \in matches : n[1] # m[1]
            /\ f[m[2]] = "pin"}

(* Mutant: a selection is known by its line and stack alone.                *)
SelectionIdLoose(l, f, matches, line, stack) ==
    [line |-> line, stack |-> stack, target |-> NoEntry, images |-> {}]

(* A selection within a line: one stack, with its services, their images    *)
(* and the text of the entry.                                               *)
SelectionId(l, f, matches, line, stack) ==
    [line |-> line, stack |-> stack, target |-> l[line],
     images |-> {<<m[2], f[m[2]]>> :
                    m \in {n \in matches : n[1] = line /\ Stack(n[2]) = stack}}]

Ids(l, f, matches) ==
    {SelectionId(l, f, matches, m[1], Stack(m[2])) : m \in matches}

SelectedLines(r) == r.lines \cup {id.line : id \in r.ids}

(* A selection that no longer names a group of matches is refused.          *)
StaleSelection(r, l, f, matches) == ~(r.ids \subseteq Ids(l, f, matches))

FilterMatches(r, l, f, matches) ==
    {m \in matches :
        \/ m[1] \in r.lines
        \/ SelectionId(l, f, matches, m[1], Stack(m[2])) \in r.ids}

(* Mutant: the services of a line must agree on a tag, lines need not.      *)
ConflictingWithinLine(updates) ==
    \E u, v \in updates : u.slot = v.slot /\ u.line = v.line /\ u.to # v.to

(* Two lines ask for different tags of one service.                         *)
Conflicting(updates) ==
    \E u, v \in updates :
        /\ u.slot = v.slot /\ u.to # v.to
        /\ {u.to, v.to} \cap {"", "dig"} = {}

-----------------------------------------------------------------------------
(* The plan.                                                                *)

(* The tag that would keep a service on its stream, when the registry has   *)
(* it: the change of stream then needs a decision.                          *)
SameStream(to) == IF to = "v2b" THEN "v2a" ELSE to
StreamChange(t, image) == t.to = "v2b" /\ image = "v1a"
Verified(l, matches, f, rg) ==
    {line \in {m[1] : m \in matches} :
        /\ SameStream(l[line].to) \in rg
        /\ \E m \in matches : m[1] = line /\ StreamChange(l[line], f[m[2]])}

(* The tag of one match: as overridden, as decided, or as reported.         *)
PlannedTag(l, f, r, m, verified) ==
    CASE r.opt.over[m[1]] # "" -> r.opt.over[m[1]]
      [] m[1] \in verified /\ r.opt.dec[m[1]] = "preserve" /\ StreamChange(l[m[1]], f[m[2]])
            -> SameStream(l[m[1]].to)
      [] OTHER -> l[m[1]].to

(* What makes the server refuse to build a plan.                            *)
InputError(r, l, f, all, matches, verified) ==
    \/ SelectedLines(r) = {}
    \/ \E line \in SelectedLines(r) : l[line] = NoEntry
    \/ StaleSelection(r, l, f, all)
    \/ \E line \in Lines :
        /\ r.opt.over[line] # ""
        /\ ~r.opt.allow \/ line \notin SelectedLines(r) \/ ~Tagged(l[line])
            \/ line \in verified
    \/ \E line \in Lines : r.opt.dec[line] # "" /\ line \notin verified

(* _PlanBuilder.build: what the plan would do, and whether it is ready: no  *)
(* line unmatched or skipped, no undecided change of stream, no conflict,   *)
(* no tag that the registry lacks.                                          *)
BuildPlan(r, l, f, c, rg) ==
    LET lines    == SelectedLines(r)
        ordinary == MatchTargets(l.text, lines, f, c, r.opt)
        all      == ordinary \cup Recovered(l.text, lines, f, c, ordinary)
        matches  == FilterMatches(r, l.text, f, all)
        verified == Verified(l.text, matches, f, rg)
        updates  == {[slot |-> m[2], line |-> m[1], image |-> f[m[2]],
                      to |-> PlannedTag(l.text, f, r, m, verified),
                      pin |-> c.pin] : m \in matches}
    IN [error   |-> InputError(r, l.text, f, all, matches, verified),
        updates |-> updates,
        stream  |-> {u \in updates : u.line \in verified
                                      /\ StreamChange(l.text[u.line], u.image)},
        ready   |-> /\ \A line \in lines : \E u \in updates : u.line = line
                    /\ \A line \in verified : r.opt.dec[line] # ""
                    /\ ~Conflicting(updates)
                    /\ \A u \in updates : u.to \in rg \cup {"", "dig"},
        cfg |-> c, list |-> l]

(* Mutant: the id covers the list and the lines, not what would be done.    *)
PlanIdOfLines(r, p) == <<r, p.list.text, p.list.fresh, p.cfg.pin, {}, TRUE>>

(* Mutant: the id covers how the list was obtained.                         *)
PlanIdWithDetail(r, p) ==
    <<r, p.list, p.list.fresh, p.cfg.pin, p.updates, p.ready>>

(* The id hashes the request, the settings, the list, and all that the plan *)
(* would do, but not how the list was obtained.                             *)
PlanId(r, p) == <<r, p.list.text, p.list.fresh, p.cfg.pin, p.updates, p.ready>>

CanApply(p) == p.ready /\ p.list.fresh

-----------------------------------------------------------------------------
NoPlan == [error |-> TRUE, updates |-> {}, stream |-> {}, ready |-> FALSE,
           cfg |-> [pin |-> FALSE, ignored |-> {}],
           list |-> [text |-> [n \in Lines |-> NoEntry], fresh |-> TRUE, detail |-> 0]]
NoRequest == [lines |-> {}, ids |-> {},
              opt |-> [allow |-> FALSE, over |-> [n \in Lines |-> ""],
                       dec |-> [n \in Lines |-> ""]]]

Init ==
    /\ list \in {[text |-> t, fresh |-> TRUE, detail |-> 0] : t \in Lists}
    /\ compose \in Files
    /\ cfg \in {[pin |-> p, ignored |-> {}] : p \in BOOLEAN}
    /\ reg = {"v2a", "v2b", "v3a"}
    /\ gate = "free" /\ phase = "idle" /\ req = NoRequest /\ plan = NoPlan
    /\ source = NoPlan.list /\ jobCfg = NoPlan.cfg
    /\ newer = 0 /\ reason = {} /\ applied = {}
    /\ changes = {} /\ late = {} /\ outside = 0

(* The lines, or the groups within lines, that the page offers now.         *)
Offered ==
    LET all(o) == LET m == MatchTargets(list.text, Lines, compose, cfg, o)
                  IN  m \cup Recovered(list.text, Lines, compose, cfg, m)
    IN  {[lines |-> ls, ids |-> {}, opt |-> o] : ls \in SUBSET Lines, o \in Options}
        \cup UNION {{[lines |-> {}, ids |-> i, opt |-> o] :
                        i \in SUBSET Ids(list.text, compose, all(o))} : o \in Options}

(* api_create_plan: the plan is built, remembered and shown.                *)
Review ==
    /\ phase = "idle"
    /\ \E r \in Offered :
        LET p == BuildPlan(r, list, compose, cfg, reg)
        IN  /\ ~p.error
            /\ req' = r /\ plan' = p
    /\ phase' = "reviewed" /\ newer' = 0
    /\ UNCHANGED <<list, compose, cfg, reg, gate, source, jobCfg, reason, applied,
                   changes, late, outside>>

(* api_create_job looks at the gate but does not take it.                   *)
AskGate ==
    /\ phase = "reviewed"
    /\ phase' = IF gate = "free" THEN "asked" ELSE "refused"
    /\ UNCHANGED <<list, compose, cfg, reg, gate, req, plan, source, jobCfg, newer,
                   reason, applied, changes, late, outside>>

(* The list is fetched from WUD, not taken from the cache.                  *)
FetchList ==
    /\ phase = "asked"
    /\ \E d \in {0, 1} : source' = [list EXCEPT !.detail = d]
    /\ phase' = "fetched"
    /\ UNCHANGED <<list, compose, cfg, reg, gate, req, plan, jobCfg, newer,
                   reason, applied, changes, late, outside>>

Forgotten == newer >= PlanLimit

(* stale_plan_reason: settings, list and problems are named first, and the  *)
(* stacks only when nothing else explains the difference.                   *)
StaleReason(p) ==
    LET causes == {x \in {"settings", "list", "status", "problems"} :
                      \/ x = "settings" /\ p.cfg.pin # plan.cfg.pin
                      \/ x = "list" /\ p.list.text # plan.list.text
                      \/ x = "status" /\ p.list.fresh # plan.list.fresh
                      \/ x = "problems" /\ p.ready # plan.ready}
    IN  CASE Forgotten -> {"forgotten"}
          [] ~Forgotten /\ causes # {} -> causes
          [] OTHER -> IF p.updates # plan.updates THEN {"stacks"} ELSE {"details"}

(* The plan is built again from the list just fetched, and compared.        *)
Recheck ==
    /\ phase = "fetched"
    /\ LET p == BuildPlan(req, source, compose, cfg, reg)
       IN  \/ /\ p.error
              /\ phase' = "stale" /\ reason' = {"selection"}
           \/ /\ ~p.error /\ PlanId(req, p) # PlanId(req, plan)
              /\ phase' = "stale" /\ reason' = StaleReason(p)
           \/ /\ ~p.error /\ PlanId(req, p) = PlanId(req, plan)
              /\ phase' \in (IF CanApply(p) THEN {"checked", "refused"} ELSE {"refused"})
              /\ reason' = {}
    /\ UNCHANGED <<list, compose, cfg, reg, gate, req, plan, source, jobCfg, newer,
                   applied, changes, late, outside>>

(* _submit_apply_job_state: the gate is taken, or somebody else has it.     *)
Submit ==
    /\ phase = "checked"
    /\ IF gate = "free" THEN phase' = "queued" /\ gate' = "mine"
                        ELSE phase' = "refused" /\ UNCHANGED gate
    /\ UNCHANGED <<list, compose, cfg, reg, req, plan, source, jobCfg, newer, reason,
                   applied, changes, late, outside>>

(* _apply_options: the job writes the list as checked to a file of its own  *)
(* and reads the settings of now.                                           *)
StartJob ==
    /\ phase = "queued"
    /\ jobCfg' = cfg /\ phase' = "running"
    /\ UNCHANGED <<list, compose, cfg, reg, gate, req, plan, source, newer, reason,
                   applied, changes, late, outside>>

(* Without a match of its own a stack may hold a service of the unpin plan, *)
(* which is known by the tag and the digest that it was made for.           *)
UnpinCandidates(lines, matches) ==
    {m \in lines \X Discovered(compose, jobCfg) :
        /\ source.text[m[1]].to = "dig" /\ compose[m[2]] = "pin"
        /\ \E u \in plan.updates : /\ u.slot[2] = m[2][2] /\ u.image = "pin" /\ ~u.pin
                                   /\ source.text[u.line] = source.text[m[1]]
        /\ \A n \in matches : n[1] = m[1] => Stack(n[2]) # Stack(m[2])}

(* The tag of one match in the run: as overridden, as the plan of the       *)
(* stream says for exactly this service and image, or as reported.          *)
RunTag(m) ==
    LET s == {u \in plan.stream : u.line = m[1] /\ u.slot = m[2]
                                   /\ u.image = compose[m[2]]}
    IN  CASE req.opt.over[m[1]] # "" -> req.opt.over[m[1]]
          [] req.opt.over[m[1]] = "" /\ s # {} -> (CHOOSE u \in s : TRUE).to
          [] OTHER -> source.text[m[1]].to

(* The run: the Compose files are discovered and matched again, stale       *)
(* selections and stream plans refused, conflicts and missing tags refused, *)
(* and then each match is updated.                                          *)
RunMatches ==
    LET lines    == SelectedLines(req)
        ordinary == MatchTargets(source.text, lines, compose, jobCfg, req.opt)
    IN  ordinary \cup UnpinCandidates(lines, ordinary)

RunUpdates ==
    {[slot |-> m[2], line |-> m[1], image |-> compose[m[2]], to |-> RunTag(m),
      pin |-> jobCfg.pin] : m \in FilterMatches(req, source.text, compose, RunMatches)}

RunRefused ==
    \/ StaleSelection(req, source.text, compose, RunMatches)
    \/ \E u \in plan.stream : \A v \in RunUpdates : <<v.line, v.slot, v.image>>
                                                  # <<u.line, u.slot, u.image>>
    \/ Conflicting(RunUpdates)
    \/ \E u \in RunUpdates : u.to \notin reg \cup {"", "dig"}

Image(to, old, pinned) ==
    IF pinned THEN "pin" ELSE IF to \in {"", "dig"} THEN
        (IF old = "pin" THEN "v1a" ELSE old) ELSE to

Run ==
    /\ phase = "running"
    /\ gate' = "free" /\ phase' = "done"
    /\ \/ RunRefused /\ UNCHANGED <<applied, compose>>
       \/ /\ ~RunRefused
          /\ applied' = RunUpdates
          /\ compose' = [s \in Slots |->
                LET us == {u \in RunUpdates : u.slot = s}
                IN  IF us = {} THEN compose[s]
                    ELSE LET u == CHOOSE u \in us : u.to \notin {"", "dig"}
                                                    \/ \A v \in us : v.to \in {"", "dig"}
                         IN  Image(u.to, u.image, jobCfg.pin)]
    /\ UNCHANGED <<list, cfg, reg, req, plan, source, jobCfg, newer, reason,
                   changes, late, outside>>

-----------------------------------------------------------------------------
(* The world outside: what changes is noted as before or after the check.   *)
Note(what) ==
    /\ phase \in {"reviewed", "asked", "fetched", "checked", "queued", "running"}
    /\ IF phase \in {"checked", "queued", "running"}
       THEN late' = late \cup {what} /\ UNCHANGED changes
       ELSE changes' = changes \cup {what} /\ UNCHANGED late
    /\ UNCHANGED <<phase, req, plan, source, jobCfg, reason, applied>>

Outside(what) == Note(what) /\ outside < MaxOutside /\ outside' = outside + 1

ListChanges ==
    /\ Outside("list")
    /\ \/ \E n \in Lines, t \in Targets \cup {NoEntry} : list' = [list EXCEPT !.text[n] = t]
       \/ list' = [list EXCEPT !.fresh = FALSE]
    /\ UNCHANGED <<compose, cfg, reg, gate, newer>>

ComposeEdited ==
    /\ Outside("compose")
    /\ \E s \in Slots, i \in Images : compose' = [compose EXCEPT ![s] = i]
    /\ UNCHANGED <<list, cfg, reg, gate, newer>>

SettingsSaved ==
    /\ Outside("settings")
    /\ \/ cfg' = [cfg EXCEPT !.pin = ~cfg.pin]
       \/ \E s \in Slots : cfg' = [cfg EXCEPT !.ignored = {Stack(s)}]
    /\ UNCHANGED <<list, compose, reg, gate, newer>>

RegistryChanges ==
    /\ Outside("registry")
    /\ \E t \in reg : reg' = reg \ {t}
    /\ UNCHANGED <<list, compose, cfg, gate, newer>>

(* Another job takes the gate, and changes a service when it ends.          *)
OtherJob ==
    /\ phase \in {"reviewed", "asked", "fetched", "checked"} /\ gate = "free"
    /\ outside < MaxOutside /\ outside' = outside + 1
    /\ gate' = "other"
    /\ UNCHANGED <<list, compose, cfg, reg, phase, req, plan, source, jobCfg, newer,
                   reason, applied, changes, late>>
OtherJobEnds ==
    /\ gate = "other" /\ Note("compose")
    /\ gate' = "free"
    /\ \E s \in Slots : compose' = [compose EXCEPT ![s] = "v1a"]
    /\ UNCHANGED <<list, cfg, reg, newer, outside>>

(* Other plans are reviewed, until this one is no longer remembered.        *)
OtherReview ==
    /\ phase \in {"reviewed", "fetched"} /\ newer < PlanLimit
    /\ newer' = newer + 1
    /\ UNCHANGED <<list, compose, cfg, reg, gate, phase, req, plan, source, jobCfg,
                   reason, applied, changes, late, outside>>

Next ==
    \/ Review \/ AskGate \/ FetchList \/ Recheck \/ Submit \/ StartJob \/ Run
    \/ ListChanges \/ ComposeEdited \/ SettingsSaved \/ RegistryChanges
    \/ OtherJob \/ OtherJobEnds \/ OtherReview

Spec == Init /\ [][Next]_vars

-----------------------------------------------------------------------------
Phases == {"idle", "reviewed", "asked", "fetched", "checked", "queued", "running",
           "done", "stale", "refused"}
TypeOK ==
    /\ DOMAIN list.text = Lines /\ list.fresh \in BOOLEAN
    /\ DOMAIN compose = Slots
    /\ cfg.pin \in BOOLEAN /\ cfg.ignored \subseteq {Stack(s) : s \in Slots}
    /\ gate \in {"free", "mine", "other"} /\ phase \in Phases
    /\ newer \in 0 .. PlanLimit /\ outside \in 0 .. MaxOutside
    /\ applied \subseteq [slot : Slots, line : Lines, image : Images \ {"off"},
                          to : {"", "dig", "v2a", "v2b", "v3a"}, pin : BOOLEAN]

(* What a job does is what was reviewed, unless something changed after the *)
(* plan was checked: api_create_job compares all that matters.              *)
AppliedAsReviewed ==
    applied # {} => (applied = plan.updates \/ late # {})

(* With selections of single stacks a job touches the services reviewed,    *)
(* from the images and to the tags reviewed, whatever changed at whatever   *)
(* moment: filter_matches_for_selections refuses the rest.                  *)
ScopedAsReviewed ==
    (applied # {} /\ req.lines = {}) =>
        {<<u.slot, u.line, u.image, u.to>> : u \in applied}
        = {<<u.slot, u.line, u.image, u.to>> : u \in plan.updates}

(* No run gives a service the tag of one line while another line that was   *)
(* applied with it asks for a different one (tag_update_plan_issues,        *)
(* validate_tag_update_plan).                                               *)
OneTagEach ==
    \A u, v \in applied : u.slot = v.slot /\ Tagged(u) /\ Tagged(v) => u.to = v.to

(* A plan is refused as stale only if something did change, and the reason  *)
(* that stale_plan_reason gives names what changed.                         *)
ReasonIsTrue ==
    phase = "stale" =>
        /\ changes # {}
        /\ "settings" \in reason => "settings" \in changes
        /\ reason \cap {"list", "status"} # {} => "list" \in changes
        /\ "stacks" \in reason => changes \cap {"compose", "registry", "settings"} # {}
        /\ "list" \in changes /\ reason # {"selection"} /\ source.text # plan.list.text
            => reason \cap {"list", "forgotten"} # {}
=============================================================================
