---------------------------- MODULE RequestReuse ----------------------------
(* What a web request may reuse.  Inside one reading request an identical   *)
(* docker read is not run twice; a registry check that succeeded a short    *)
(* while ago is not repeated by the plan pages.  Requests run side by side, *)
(* and a streamed body goes on after the end of its own, while containers   *)
(* and tags change.                                                         *)
EXTENDS Integers, FiniteSets, Sequences, SequencesExt

CONSTANTS
    Workers,      \* threads
    Of,           \* worker -> its request
    Kind,         \* request -> [method, path]
    Tags,
    Limit,        \* successful checks remembered (256 in the code)
    TTL,          \* and for how long
    MaxTime, MaxState, MaxRequests, MaxOps

VARIABLES
    docker,    \* what a docker read returns now: a version
    exists,    \* the tags the registry has
    clock,
    scope,     \* request -> [active, reuse, read, since]
    work,      \* worker -> [pc, command, started, late]
    checks,    \* remembered checks, <<tag, time>>, oldest first
    answer,    \* what the last step answered to a worker
    goneAt,    \* ghost: tag -> when it went, 0 if it exists
    begun, ops \* bounds on requests, and on reads and checks

vars == <<docker, exists, clock, scope, work, checks, answer, goneAt, begun, ops>>

Requests == {Of[w] : w \in Workers}
Commands == {"ps", "pull"}

-----------------------------------------------------------------------------
(* Pages, and the preview of a plan, only read.                             *)
ReusesReads(k) == k.method = "GET" \/ (k.method = "POST" /\ k.path = "plans")
ReusesChecks(k) == k.method = "POST" /\ k.path \in {"plans", "plans/apply", "jobs"}

(* Of the docker commands, ps, inspect, config and version read.            *)
IsReusableRead(command) == command = "ps"

NoWork == [pc |-> "idle", command |-> "", started |-> 0, late |-> FALSE]
NoAnswer == [to |-> 0, kind |-> "none", of |-> "", value |-> 0, started |-> 0, shared |-> FALSE]
NoScope == [active |-> FALSE, reuse |-> FALSE, read |-> 0, since |-> 0]

Init ==
    /\ docker = 1 /\ exists = Tags /\ clock = 0
    /\ scope = [r \in Requests |-> NoScope]
    /\ work = [w \in Workers |-> NoWork] /\ checks = <<>>
    /\ answer = NoAnswer
    /\ goneAt = [t \in Tags |-> 0] /\ begun = 0 /\ ops = 0

R(w) == Of[w]
Holds(w) == scope[R(w)].active
Give(w, kind, of, value, shared) ==
    answer' = [to |-> w, kind |-> kind, of |-> of, value |-> value,
               started |-> work[w].started, shared |-> shared]
Silent == answer' = NoAnswer

-----------------------------------------------------------------------------
DockerChanges ==
    /\ docker < MaxState /\ docker' = docker + 1
    /\ UNCHANGED <<exists, clock, scope, work, checks, goneAt, begun, ops>> /\ Silent

TagChanges(t) ==
    /\ exists' = IF t \in exists THEN exists \ {t} ELSE exists \cup {t}
    /\ goneAt' = [goneAt EXCEPT ![t] = IF t \in exists THEN clock ELSE 0]
    /\ UNCHANGED <<docker, clock, scope, work, checks, begun, ops>> /\ Silent

(* What is stored at once after a registry's answer has the time of it.     *)
Tick ==
    /\ clock < MaxTime /\ clock' = clock + 1
    /\ \A w \in Workers : work[w].pc # "store"
    /\ UNCHANGED <<docker, exists, scope, work, checks, goneAt, begun, ops>> /\ Silent

(* Mutant: the reads of all requests are kept in one place.                 *)
FirstReadShared(r) == LET S == {scope[q].read : q \in Requests} \ {0}
                      IN  IF S = {} THEN 0 ELSE CHOOSE v \in S : TRUE

FirstRead(r) == 0

Begin(r) ==
    /\ ~scope[r].active /\ begun < MaxRequests /\ begun' = begun + 1
    /\ \A w \in Workers : Of[w] = r => work[w] = NoWork
    /\ scope' = [scope EXCEPT ![r] = [active |-> TRUE, reuse |-> ReusesReads(Kind[r]),
                                      read |-> FirstRead(r), since |-> docker]]
    /\ UNCHANGED <<docker, exists, clock, work, checks, goneAt, ops>> /\ Silent

(* Mutant: the end of a request leaves its reads in place.                  *)
EndedOpen(s) == [s EXCEPT !.active = FALSE]

Ended(s) == [s EXCEPT !.active = FALSE, !.reuse = FALSE, !.read = 0]

End(r) ==
    /\ scope[r].active /\ scope' = [scope EXCEPT ![r] = Ended(@)]
    /\ UNCHANGED <<docker, exists, clock, work, checks, goneAt, begun, ops>> /\ Silent

-----------------------------------------------------------------------------
(* A read, in the request or in the body it streams afterwards: the scope   *)
(* is looked at, the command is run, and its result is stored.              *)
Capture(w, command) ==
    /\ work[w].pc = "idle" /\ scope[R(w)] # NoScope
    /\ IF IsReusableRead(command) /\ scope[R(w)].reuse /\ scope[R(w)].read # 0
       THEN /\ answer' = [to |-> w, kind |-> "read", of |-> command, value |-> scope[R(w)].read,
                          started |-> docker, shared |-> Holds(w) /\ ReusesReads(Kind[R(w)])]
            /\ UNCHANGED work
       ELSE /\ work' = [work EXCEPT ![w] = [pc |-> "run", command |-> command, started |-> docker,
                                            late |-> ~Holds(w)]]
            /\ Silent
    /\ ops < MaxOps /\ ops' = ops + 1
    /\ UNCHANGED <<docker, exists, clock, scope, checks, goneAt, begun>>

CaptureDone(w) ==
    /\ work[w].pc = "run" /\ work' = [work EXCEPT ![w] = NoWork]
    /\ \E v \in work[w].started..docker :
        /\ Give(w, "read", work[w].command, v, FALSE)
        /\ scope' = IF IsReusableRead(work[w].command) /\ scope[R(w)].reuse /\ scope[R(w)].read = 0
                    THEN [scope EXCEPT ![R(w)].read = v] ELSE scope
    /\ UNCHANGED <<docker, exists, clock, checks, goneAt, begun, ops>>

-----------------------------------------------------------------------------
(* Registry checks                                                          *)
Remembered(t) == {c \in ToSet(checks) : c[1] = t}
Without(t) == SelectSeq(checks, LAMBDA c : c[1] # t)

Recent(c) == clock - c[2] < TTL

Check(w, t) ==
    /\ work[w].pc = "idle" /\ Holds(w)
    /\ IF ReusesChecks(Kind[R(w)]) /\ \E c \in Remembered(t) : Recent(c)
       THEN /\ answer' = [to |-> w, kind |-> "check", of |-> t, value |-> clock,
                          started |-> clock, shared |-> TRUE]
            /\ UNCHANGED <<work, checks>>
       ELSE /\ work' = [work EXCEPT ![w] = [pc |-> "ask", command |-> t, started |-> clock,
                                            late |-> ReusesChecks(Kind[R(w)])]]
            /\ checks' = IF ReusesChecks(Kind[R(w)]) THEN Without(t) ELSE checks
            /\ Silent
    /\ ops < MaxOps /\ ops' = ops + 1
    /\ UNCHANGED <<docker, exists, clock, scope, goneAt, begun>>

(* Mutant: failures are remembered as well.                                 *)
PassesAlways(t) == TRUE

Passes(t) == t \in exists

(* The registry answers, or fails for a moment.                             *)
Ask(w) ==
    /\ work[w].pc = "ask"
    /\ \E passes \in {FALSE, Passes(work[w].command)} :
        IF passes THEN /\ work' = [work EXCEPT ![w].pc = "store"] /\ Silent
        ELSE /\ work' = [work EXCEPT ![w] = NoWork]
             /\ Give(w, "refused", work[w].command, 0, FALSE)
    /\ UNCHANGED <<docker, exists, clock, scope, checks, goneAt, begun, ops>>

Store(w) ==
    /\ work[w].pc = "store" /\ work' = [work EXCEPT ![w] = NoWork]
    /\ LET all == Append(Without(work[w].command), <<work[w].command, clock>>)
       IN  checks' = IF ~work[w].late THEN checks
                     ELSE SubSeq(all, IF Len(all) > Limit THEN Len(all) - Limit + 1 ELSE 1, Len(all))
    /\ Give(w, "check", work[w].command, clock, FALSE)
    /\ UNCHANGED <<docker, exists, clock, scope, goneAt, begun, ops>>

Next ==
    \/ DockerChanges \/ Tick
    \/ \E t \in Tags : TagChanges(t)
    \/ \E r \in Requests : Begin(r) \/ End(r)
    \/ \E w \in Workers : \/ \E c \in Commands : Capture(w, c)
                          \/ CaptureDone(w) \/ Ask(w) \/ Store(w)
                          \/ \E t \in Tags : Check(w, t)

Spec == Init /\ [][Next]_vars

-----------------------------------------------------------------------------
TypeOK ==
    /\ Len(checks) <= Limit /\ docker \in 1..MaxState
    /\ \A w \in Workers : work[w].pc \in {"idle", "run", "ask", "store"}

(* No read returns what Docker said before its own request began, whatever  *)
(* other requests read.                                                     *)
NotBeforeRequest ==
    answer.kind = "read" => answer.value >= scope[R(answer.to)].since

Changes(k) == k.method = "POST" /\ k.path # "plans"

(* A read gives the state of its own time, unless a reading request that is *)
(* not over shares it: a streamed body and a request that changes something *)
(* read afresh.                                                             *)
FreshUnlessShared ==
    answer.kind = "read" /\ answer.value < answer.started =>
        answer.shared /\ ~Changes(Kind[R(answer.to)])

(* A registry check passes only if the tag existed less than the time to    *)
(* live ago; no failure is ever taken for a success.                        *)
CheckedExisted ==
    answer.kind = "check" /\ answer.of \notin exists => clock - goneAt[answer.of] < TTL
=============================================================================
