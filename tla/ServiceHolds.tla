---------------------------- MODULE ServiceHolds ----------------------------
(* What an operator has decided about services: their update policy, and    *)
(* what holds an update back (a snooze until a time, a snooze until another *)
(* service was updated, a release that is skipped), with the rules that     *)
(* exclude tags.  Two browsers edit them; runs write the events that end a  *)
(* hold; a scheduler tick reads them one kind after the other.  Time is in  *)
(* seconds, as the database keeps it.                                       *)
EXTENDS Integers, Sequences

CONSTANTS
    Clients,   \* requests that edit the state
    Services,
    Lines,     \* entries of the list, as the sets of services they match
    Offers,    \* releases that may be offered: [lsio, tag, digest]
    MaxTime,   \* bound on the clock
    MaxOps     \* bound on the operations

VARIABLES
    now,
    policy,    \* service -> its policy
    rule,      \* the status of a tag exclusion rule, or "none"
    holds,     \* snoozes, dependency snoozes and release skips
    last,      \* kind of event -> service -> when the last was written
    lock,      \* the client whose transaction is open
    seen,      \* what that transaction read
    tick,      \* where the scheduler is
    due,       \* service -> the mode it is due with in this tick, or "no"
    offer,     \* the release this tick finds offered
    waits,     \* services that wait for others
    picked,    \* lines the tick updates
    kept,      \* ghost: ids of the holds in force since the tick began
    want,      \* ghost: service -> field -> the value last asked for
    ops

tickVars == <<tick, due, offer, waits, picked>>
vars == <<now, policy, rule, holds, last, lock, seen, tickVars, kept, want, ops>>

NoTag == [num |-> <<>>, suffix |-> "", build |-> 0]
NoOffer == [lsio |-> FALSE, tag |-> NoTag, digest |-> ""]
(* The fields of a policy; the schedule stands with auto_update.            *)
Fields == {"mode", "auto"}
Default == [mode |-> "", auto |-> FALSE]
Started == [mode |-> "", auto |-> TRUE]
NoPolicy == [there |-> FALSE, set |-> Default]
NobodySeen == [policy |-> [s \in Services |-> NoPolicy], rule |-> "none", holds |-> {}]

-----------------------------------------------------------------------------
(* Releases.  A tag is a version number, a suffix and, for LinuxServer      *)
(* images, a build; without a number it is only a name.                     *)

(* Mutant: the suffix is not part of the version.                           *)
ReleaseVersionNumberOnly(o) == [o.tag EXCEPT !.suffix = "", !.build = 0]

(* LinuxServer images are rebuilt: their builds are one release.            *)
ReleaseVersion(o) == IF o.lsio THEN [o.tag EXCEPT !.build = 0] ELSE o.tag

ReleaseLine(v) == IF Len(v.num) < 2 THEN <<>> ELSE SubSeq(v.num, 1, 2)

ReleaseKey(o) ==
    IF o.tag # NoTag
    THEN IF o.tag.num # <<>>
         THEN [basis |-> "version", value |-> ReleaseVersion(o), digest |-> "",
               line |-> ReleaseLine(ReleaseVersion(o))]
         ELSE [basis |-> "tag", value |-> o.tag, digest |-> "", line |-> <<>>]
    ELSE [basis |-> IF o.digest = "" THEN "none" ELSE "digest",
          value |-> NoTag, digest |-> o.digest, line |-> <<>>]

SkipMatches(h, key) ==
    /\ key.basis # "none" /\ key.basis = h.key.basis
    /\ IF h.scope = "line" THEN key.line # <<>> /\ key.line = h.key.line
       ELSE key.value = h.key.value /\ key.digest = h.key.digest

(* A skip of one service of a line hides the line.                          *)
SkipForRelease(active, l, o) ==
    \E h \in active : h.service \in l /\ SkipMatches(h, ReleaseKey(o))

-----------------------------------------------------------------------------
(* Holds                                                                    *)

(* Mutant: any event about the service counts, its own audit row too.       *)
UpdatedSinceAnyEvent(s, t, l) == l["update"][s] >= t \/ l["other"][s] >= t

(* A run or a retag updated the service at or after t.                      *)
UpdatedSince(s, t, l) == l["update"][s] >= t

ActiveAt(h, t, l) ==
    CASE h.kind = "time" -> h.until > t
      [] h.kind = "wait" -> ~UpdatedSince(h.waitFor, h.at, l)
      [] h.kind = "skip" -> ~UpdatedSince(h.service, h.at, l)
Active(h) == ActiveAt(h, now, last)

ActiveSkips == {h \in holds : h.kind = "skip" /\ Active(h)}

DependencyWaits(rows) == {h.service : h \in rows}

StillKept == {i \in kept : \E h \in holds' : h.id = i /\ ActiveAt(h, now', last')}

-----------------------------------------------------------------------------
Init ==
    /\ now = 1
    /\ policy = [s \in Services |-> [there |-> TRUE, set |-> Started]]
    /\ rule = "none" /\ holds = {}
    /\ last = [e \in {"update", "other"} |-> [s \in Services |-> 0]]
    /\ lock = {} /\ seen = [c \in Clients |-> NobodySeen]
    /\ tick = "idle" /\ due = [s \in Services |-> "no"] /\ offer = NoOffer
    /\ waits = {} /\ picked = {} /\ kept = {}
    /\ want = [s \in Services |-> Started]
    /\ ops = 0

Second ==
    /\ now < MaxTime /\ now' = now + 1
    /\ UNCHANGED <<policy, rule, holds, last, lock, seen, tickVars, want, ops>>
    /\ kept' = StillKept

-----------------------------------------------------------------------------
(* Edits: one immediate transaction each.                                   *)

(* Mutant: the transaction takes the write lock only with its first write.  *)
BeginDeferred(c) == c \notin lock
(* BEGIN IMMEDIATE waits for the transaction of the other client.           *)
BeginImmediate(c) == lock = {}

Begin(c) ==
    /\ BeginImmediate(c) /\ ops < MaxOps /\ ops' = ops + 1
    /\ lock' = lock \cup {c}
    /\ seen' = [seen EXCEPT ![c] = [policy |-> policy, rule |-> rule, holds |-> holds]]
    /\ UNCHANGED <<now, policy, rule, holds, last, tickVars, kept, want>>

(* The audit rows of an edit are events of the services it is about.        *)
Commit(c, about) ==
    /\ lock' = lock \ {c} /\ seen' = [seen EXCEPT ![c] = NobodySeen]
    /\ last' = [last EXCEPT !["other"] = [s \in Services |-> IF s \in about THEN now ELSE @[s]]]
    /\ UNCHANGED <<now, tickVars, ops>>
    /\ kept' = StillKept

(* A refused or failed operation is rolled back.                            *)
Refused(c) ==
    /\ c \in lock
    /\ lock' = lock \ {c} /\ seen' = [seen EXCEPT ![c] = NobodySeen]
    /\ UNCHANGED <<now, policy, rule, holds, last, tickVars, kept, want, ops>>

(* Fields the request leaves out keep their value.                          *)
PolicyValues(before, given, set) ==
    [f \in Fields |-> IF f \in given THEN set[f]
                      ELSE IF before.there THEN before.set[f] ELSE Default[f]]

UpsertServicePolicy(c) ==
    /\ c \in lock
    /\ \E s \in Services, given \in (SUBSET Fields) \ {{}} :
       \E set \in [mode : {"", "stop"}, auto : BOOLEAN] :
        /\ \A f \in Fields \ given : set[f] = Default[f]
        /\ policy' = [policy EXCEPT ![s] =
                        [there |-> TRUE, set |-> PolicyValues(seen[c].policy[s], given, set)]]
        /\ want' = [want EXCEPT ![s] = [f \in Fields |-> IF f \in given THEN set[f] ELSE @[f]]]
        /\ UNCHANGED <<rule, holds>> /\ Commit(c, {s})

DeleteServicePolicy(c) ==
    /\ c \in lock
    /\ \E s \in Services :
        /\ seen[c].policy[s].there
        /\ policy' = [policy EXCEPT ![s] = NoPolicy]
        /\ want' = [want EXCEPT ![s] = Default]
        /\ UNCHANGED <<rule, holds>> /\ Commit(c, {s})

NewHold(kind, s) ==
    [id |-> <<ops, s>>, kind |-> kind, service |-> s, until |-> 0, waitFor |-> s,
     key |-> ReleaseKey(NoOffer), scope |-> "release", at |-> now,
     offered |-> NoOffer, since |-> FALSE]

CreateSnooze(c) ==
    /\ c \in lock
    /\ \E s \in Services, until \in now + 1 .. MaxTime :
        /\ holds' = holds \cup {[NewHold("time", s) EXCEPT !.until = until]}
        /\ Commit(c, {s})
    /\ UNCHANGED <<policy, rule, want>>

CreateDependencySnooze(c) ==
    /\ c \in lock
    /\ \E s, w \in Services :
        /\ s # w
        /\ holds' = holds \cup {[NewHold("wait", s) EXCEPT !.waitFor = w]}
        /\ Commit(c, {s})
    /\ UNCHANGED <<policy, rule, want>>

(* Mutant: a skip is known by the tag it was made for.                      *)
AlreadySkippedTag(h, o, scope) == h.offered = o /\ h.scope = scope
AlreadySkipped(h, o, scope) == h.key = ReleaseKey(o) /\ h.scope = scope

(* One row per service, or none when one of them has it already.            *)
CreateReleaseSkip(c) ==
    /\ c \in lock
    /\ \E l \in Lines, o \in Offers, scope \in {"release", "line"} :
        /\ ReleaseKey(o).basis # "none"
        /\ scope = "line" => ReleaseKey(o).line # <<>>
        /\ ~\E h \in seen[c].holds : /\ h.kind = "skip" /\ h.service \in l /\ Active(h)
                                     /\ AlreadySkipped(h, o, scope)
        /\ holds' = holds \cup
             {[NewHold("skip", s) EXCEPT !.key = ReleaseKey(o), !.scope = scope, !.offered = o] :
              s \in l}
        /\ Commit(c, l)
    /\ UNCHANGED <<policy, rule, want>>

(* The three kinds of holds are deleted alike.                              *)
DeleteHold(c) ==
    /\ c \in lock
    /\ \E h \in seen[c].holds :
        /\ holds' = {g \in holds : g.id # h.id}
        /\ Commit(c, {h.service})
    /\ UNCHANGED <<policy, rule, want>>

(* A rule for an image is about no service.                                 *)
UpsertTagExclusion(c) ==
    /\ c \in lock
    /\ rule' \in {"active", "disabled"}
    /\ UNCHANGED <<policy, holds, want>> /\ Commit(c, {})

SetTagExclusionStatus(c) ==
    /\ c \in lock /\ seen[c].rule # "none"
    /\ rule' \in {"active", "disabled"}
    /\ UNCHANGED <<policy, holds, want>> /\ Commit(c, {})

-----------------------------------------------------------------------------
(* A run ends: its events are written.  Only these end a hold; dry runs     *)
(* leave events like those of an edit.                                      *)
UpdateSucceeds(s) ==
    /\ lock = {} /\ last["update"][s] < now
    /\ last' = [last EXCEPT !["update"][s] = now]
    /\ holds' = {IF (h.kind = "wait" /\ h.waitFor = s) \/ (h.kind = "skip" /\ h.service = s)
                 THEN [h EXCEPT !.since = TRUE] ELSE h : h \in holds}
    /\ UNCHANGED <<now, policy, rule, lock, seen, tickVars, want, ops>>
    /\ kept' = StillKept

-----------------------------------------------------------------------------
(* A tick of the scheduler; one is enough, later ones begin afresh.         *)
TickStart ==
    /\ tick = "idle" /\ tick' = "due"
    /\ due' = [s \in Services |->
                IF policy[s].set.auto
                   /\ ~\E h \in holds : h.kind = "time" /\ h.service = s /\ Active(h)
                THEN policy[s].set.mode ELSE "no"]
    /\ kept' = {h.id : h \in {g \in holds : Active(g)}}
    /\ UNCHANGED <<now, policy, rule, holds, last, lock, seen, offer, waits, picked, want, ops>>

ReadWaits ==
    /\ tick = "due" /\ tick' = "waits"
    /\ offer' \in {o \in Offers : o.tag = NoTag}   \* a change of tag is never automatic
    /\ waits' = DependencyWaits({h \in holds : h.kind = "wait" /\ Active(h)})
    /\ UNCHANGED <<now, policy, rule, holds, last, lock, seen, due, picked, kept, want, ops>>

(* Mutant: a line waits when all its services do.                           *)
WaitingAll(l) == l \subseteq waits
Waiting(l) == l \cap waits # {}

(* A line is a candidate if it is not skipped, and all its services are due *)
(* in one mode and wait for nothing.                                        *)
Candidate(l, mode, skips) ==
    /\ ~SkipForRelease(skips, l, offer)
    /\ \A s \in l : due[s] = mode
    /\ ~Waiting(l)

(* The skips are read, and the lines of the mode due first are selected.    *)
Select ==
    /\ tick = "waits" /\ tick' = "picked"
    /\ \E mode \in {"", "stop"} : picked' = {l \in Lines : Candidate(l, mode, ActiveSkips)}
    /\ UNCHANGED <<now, policy, rule, holds, last, lock, seen, due, offer, waits, kept, want, ops>>

TickEnd ==
    /\ tick = "picked" /\ tick' = "done"
    /\ due' = [s \in Services |-> "no"] /\ offer' = NoOffer /\ waits' = {}
    /\ picked' = {} /\ kept' = {}
    /\ UNCHANGED <<now, policy, rule, holds, last, lock, seen, want, ops>>

Next ==
    \/ Second
    \/ \E c \in Clients :
        \/ Begin(c) \/ Refused(c) \/ UpsertServicePolicy(c) \/ DeleteServicePolicy(c)
        \/ CreateSnooze(c) \/ CreateDependencySnooze(c) \/ CreateReleaseSkip(c)
        \/ DeleteHold(c) \/ UpsertTagExclusion(c) \/ SetTagExclusionStatus(c)
    \/ \E s \in Services : UpdateSucceeds(s)
    \/ TickStart \/ ReadWaits \/ Select \/ TickEnd

Spec == Init /\ [][Next]_vars

-----------------------------------------------------------------------------
TypeOK ==
    /\ now \in 1 .. MaxTime /\ rule \in {"none", "active", "disabled"}
    /\ \A s \in Services : policy[s].there \in BOOLEAN /\ DOMAIN policy[s].set = Fields
    /\ \A h \in holds : h.kind \in {"time", "wait", "skip"} /\ h.service \in Services
    /\ lock \subseteq Clients /\ DOMAIN due = Services /\ picked \subseteq Lines

(* The same release in an operator's words: rebuilds of a LinuxServer       *)
(* version are one release, everything else is told apart by the whole tag, *)
(* and an update that changes no tag by its digest.                         *)
SameRelease(a, b) ==
    IF a.tag = NoTag THEN b.tag = NoTag /\ a.digest = b.digest /\ a.digest # ""
    ELSE IF a.lsio /\ b.lsio THEN a.tag.num = b.tag.num /\ a.tag.suffix = b.tag.suffix
    ELSE a.tag = b.tag
SameLine(a, b) ==
    /\ Len(a.tag.num) >= 2 /\ Len(b.tag.num) >= 2
    /\ SubSeq(a.tag.num, 1, 2) = SubSeq(b.tag.num, 1, 2)
Covers(h, o) == SameRelease(h.offered, o) \/ (h.scope = "line" /\ SameLine(h.offered, o))

UpdatedInItsSecond(h) ==
    last["update"][IF h.kind = "wait" THEN h.waitFor ELSE h.service] = h.at

(* Pending hides exactly the releases an operator skipped: the skipped      *)
(* release and its rebuilds, or the line, never another one                 *)
(* (skip_for_release).                                                      *)
HiddenExactly ==
    \A l \in Lines, o \in Offers :
        SkipForRelease(ActiveSkips, l, o)
          <=> \E h \in ActiveSkips : h.service \in l /\ Covers(h, o)

(* A hold that is tied to an update is over once that service was really    *)
(* updated, and not before: no audit row, dry run or event of another       *)
(* service ends it.  An update in the very second of the hold counts, also  *)
(* when it came first (service_updated_since).                              *)
HoldsEndWithUpdates ==
    \A h \in holds : h.kind # "time" =>
        /\ Active(h) => ~h.since
        /\ ~Active(h) => h.since \/ UpdatedInItsSecond(h)

(* The scheduler updates no line that a hold kept back during the whole     *)
(* tick, although it reads the kinds of holds one after the other.          *)
NotUpdatedWhileHeld ==
    \A l \in picked, h \in holds :
        h.id \in kept /\ h.service \in l => h.kind = "skip" /\ ~Covers(h, offer)

(* No release is skipped twice at once for a service (_already_skipped),    *)
(* whoever asks at the same time.                                           *)
NoDuplicateSkips ==
    \A g, h \in ActiveSkips :
        g.service = h.service /\ g.key = h.key /\ g.scope = h.scope => g = h

(* Operators who edit different fields of one policy at once both get what  *)
(* they asked for (_service_policy_upsert_values in its transaction).       *)
EditsCombine ==
    \A s \in Services : policy[s].there => policy[s].set = want[s]
=============================================================================
