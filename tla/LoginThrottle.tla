---------------------------- MODULE LoginThrottle ----------------------------
(* The limit on wrong passwords, bearer tokens and read-only API tokens       *)
(* (web_auth.py, web_integration_auth.py).  A check of a secret is slow and   *)
(* runs outside the throttle's lock, so many requests may be between the      *)
(* first look at the limit and the record of their failure.                   *)
(*                                                                            *)
(* A section under web_login_throttle_lock is one step.  An entry holds the   *)
(* time since its last failure, not the time of it, so that time may go on    *)
(* for ever.  Each door has tables of its own: a behaviour is about one.      *)
EXTENDS Naturals, FiniteSets, Functions

CONSTANTS
    Requests, Names, Clients,
    None,
    MaxFailures,        \* LOGIN_THROTTLE_MAX_FAILURES
    Cooldown,           \* LOGIN_THROTTLE_COOLDOWN_SECONDS
    MaxEntries,         \* LOGIN_THROTTLE_MAX_ENTRIES
    MaxClientEntries    \* LOGIN_THROTTLE_MAX_CLIENT_ENTRIES

Doors == {"password", "bearer", "readonly"}
Keys == Names \X Clients

VARIABLES
    door,           \* which secret is asked for
    throttle,       \* web_login_throttle, by name and client
    clientThrottle, \* web_login_client_throttle, web_bearer_throttle or
                    \* web_readonly_throttle, by client
    pending,        \* web_login_pending
    clientPending,  \* web_login_client_pending
    pc, key,        \* where a request is, and its name and client
    recent          \* history: wrong guesses of a client, by their age

tables == <<throttle, clientThrottle>>
counters == <<pending, clientPending>>
vars == <<door, tables, counters, pc, key, recent>>

(* failures, time since the last one, and time until the lock is over *)
Entry == [failures : Nat, age : 0..Cooldown, left : 0..Cooldown]

TypeOK ==
    /\ door \in Doors
    /\ throttle \in [Keys -> Entry \cup {None}]
    /\ clientThrottle \in [Clients -> Entry \cup {None}]
    /\ pending \in [Keys -> Nat] /\ clientPending \in [Clients -> Nat]
    /\ pc \in [Requests -> {"idle", "verify", "compare", "release"}]
    /\ key \in [Requests -> Keys \cup {None}]
    /\ recent \in [Clients -> [0..Cooldown - 1 -> Nat]]

NoGuess == [a \in 0..Cooldown - 1 |-> 0]

Init ==
    /\ door \in Doors
    /\ throttle = [k \in Keys |-> None]
    /\ clientThrottle = [c \in Clients |-> None]
    /\ pending = [k \in Keys |-> 0]
    /\ clientPending = [c \in Clients |-> 0]
    /\ pc = [r \in Requests |-> "idle"]
    /\ key = [r \in Requests |-> None]
    /\ recent = [c \in Clients |-> NoGuess]

-----------------------------------------------------------------------------
(* Tables *)

(* _prune_login_throttle *)
Prune(T) ==
    [k \in DOMAIN T |-> IF T[k] # None /\ T[k].age >= Cooldown THEN None ELSE T[k]]

(* _locked_out *)
Locked(e) == e # None /\ e.left > 0

Failures(e) == IF e = None THEN 0 ELSE e.failures

(* Mutant: attempts under way are not counted. *)
ExhaustedByFailures(e, underWay) == Locked(e) \/ Failures(e) >= MaxFailures

(* _login_attempts_exhausted *)
Exhausted(e, underWay) == Locked(e) \/ Failures(e) + underWay >= MaxFailures

(* One more failure *)
Failed(e) ==
    LET n == Failures(e) + 1
    IN  [failures |-> n, age |-> 0,
         left |-> IF n >= MaxFailures THEN Cooldown ELSE IF e = None THEN 0 ELSE e.left]

Full(T, limit) == Cardinality({k \in DOMAIN T : T[k] # None}) >= limit

(* The keys _evict_login_throttle_entry may choose: the oldest failure.  Ties *)
(* are open here; the code looks at the first failure then.                   *)
Victims(T, preserveLocked) ==
    LET evictable == {k \in DOMAIN T : T[k] # None /\ ~(preserveLocked /\ Locked(T[k]))}
    IN  {k \in evictable : \A m \in evictable : T[m].age <= T[k].age}

Without(T, k) == [T EXCEPT ![k] = None]

(* _record_login_client_failure.  A full table forgets another client, even   *)
(* a locked one; the history forgets it, too.                                 *)
RecordClientFailure(T, c) ==
    LET guessed(h) == [h EXCEPT ![c][0] = @ + 1]
    IN  IF T[c] = None /\ Full(T, MaxClientEntries)
        THEN \E v \in Victims(T, FALSE) :
                 /\ clientThrottle' = [Without(T, v) EXCEPT ![c] = Failed(None)]
                 /\ recent' = guessed([recent EXCEPT ![v] = NoGuess])
        ELSE /\ clientThrottle' = [T EXCEPT ![c] = Failed(T[c])]
             /\ recent' = guessed(recent)

(* The other half of _record_login_failure: a table full of locked entries    *)
(* takes no new one.                                                          *)
RecordKeyFailure(T, k) ==
    IF T[k] = None /\ Full(T, MaxEntries)
    THEN \/ /\ Victims(T, TRUE) = {}
            /\ throttle' = T
         \/ \E v \in Victims(T, TRUE) :
                throttle' = [Without(T, v) EXCEPT ![k] = Failed(None)]
    ELSE throttle' = [T EXCEPT ![k] = Failed(T[k])]

-----------------------------------------------------------------------------
(* Passwords: api_auth_login *)

(* _reserve_login_attempt *)
Reserve(r, k) ==
    /\ door = "password" /\ pc[r] = "idle"
    /\ throttle' = Prune(throttle) /\ clientThrottle' = Prune(clientThrottle)
    /\ \/ /\ Exhausted(throttle'[k], pending[k])
             \/ Exhausted(clientThrottle'[k[2]], clientPending[k[2]])
          /\ UNCHANGED <<counters, pc, key>>
       \/ /\ ~Exhausted(throttle'[k], pending[k])
          /\ ~Exhausted(clientThrottle'[k[2]], clientPending[k[2]])
          /\ pending' = [pending EXCEPT ![k] = @ + 1]
          /\ clientPending' = [clientPending EXCEPT ![k[2]] = @ + 1]
          /\ pc' = [pc EXCEPT ![r] = "verify"]
          /\ key' = [key EXCEPT ![r] = k]
    /\ UNCHANGED <<door, recent>>

(* Wrong password, or no session: _record_login_failure *)
RecordFailure(r) ==
    /\ pc[r] = "verify"
    /\ RecordClientFailure(Prune(clientThrottle), key[r][2])
    /\ RecordKeyFailure(Prune(throttle), key[r])
    /\ pc' = [pc EXCEPT ![r] = "release"]
    /\ UNCHANGED <<door, counters, key>>

(* Right password: _clear_login_throttle *)
Clear(r) ==
    /\ pc[r] = "verify"
    /\ throttle' = Without(throttle, key[r])
    /\ clientThrottle' = Without(clientThrottle, key[r][2])
    /\ recent' = [recent EXCEPT ![key[r][2]] = NoGuess]
    /\ pc' = [pc EXCEPT ![r] = "release"]
    /\ UNCHANGED <<door, counters, key>>

(* Mutant: the request ends with the error. *)
DatabaseErrorUnreleased(r) ==
    /\ pc[r] = "verify"
    /\ pc' = [pc EXCEPT ![r] = "idle"]
    /\ key' = [key EXCEPT ![r] = None]
    /\ UNCHANGED <<door, tables, counters, recent>>

(* The database fails during the check: only the finally clause is left. *)
DatabaseError(r) ==
    /\ pc[r] = "verify"
    /\ pc' = [pc EXCEPT ![r] = "release"]
    /\ UNCHANGED <<door, tables, counters, key, recent>>

(* _release_login_attempt *)
Release(r) ==
    /\ pc[r] = "release"
    /\ pending' = [pending EXCEPT ![key[r]] = @ - 1]
    /\ clientPending' = [clientPending EXCEPT ![key[r][2]] = @ - 1]
    /\ pc' = [pc EXCEPT ![r] = "idle"]
    /\ key' = [key EXCEPT ![r] = None]
    /\ UNCHANGED <<door, tables, recent>>

-----------------------------------------------------------------------------
(* Tokens *)

(* _bearer_token_accepted with a wrong token: all under the lock.  A right    *)
(* one only prunes.                                                           *)
BearerToken(c) ==
    /\ door = "bearer"
    /\ LET T == Prune(clientThrottle)
       IN  \/ clientThrottle' = T /\ UNCHANGED recent
           \/ ~Locked(T[c]) /\ RecordClientFailure(T, c)
    /\ UNCHANGED <<door, throttle, counters, pc, key>>

(* _readonly_token_accepted: the first look, before the database is read *)
ReadonlyLook(r, k) ==
    /\ door = "readonly" /\ pc[r] = "idle"
    /\ clientThrottle' = Prune(clientThrottle)
    /\ ~Locked(clientThrottle'[k[2]])
    /\ pc' = [pc EXCEPT ![r] = "compare"]
    /\ key' = [key EXCEPT ![r] = k]
    /\ UNCHANGED <<door, throttle, counters, recent>>

(* Mutant: no second look. *)
StillLockedForgotten(c) == FALSE

StillLocked(c) == Locked(clientThrottle[c])

(* The second look, the comparison and the record.  It may also be that the   *)
(* database could not be read, or that the token is right.                    *)
ReadonlyCompare(r) ==
    /\ pc[r] = "compare"
    /\ \/ UNCHANGED <<clientThrottle, recent>>
       \/ ~StillLocked(key[r][2]) /\ RecordClientFailure(clientThrottle, key[r][2])
    /\ pc' = [pc EXCEPT ![r] = "idle"]
    /\ key' = [key EXCEPT ![r] = None]
    /\ UNCHANGED <<door, throttle, counters>>

-----------------------------------------------------------------------------
Older(e) ==
    IF e = None THEN None
    ELSE [e EXCEPT !.age = IF @ < Cooldown THEN @ + 1 ELSE @,
                   !.left = IF @ > 0 THEN @ - 1 ELSE @]

(* time.monotonic *)
Tick ==
    /\ throttle' = [k \in Keys |-> Older(throttle[k])]
    /\ clientThrottle' = [c \in Clients |-> Older(clientThrottle[c])]
    /\ recent' = [c \in Clients |->
                     [a \in 0..Cooldown - 1 |-> IF a = 0 THEN 0 ELSE recent[c][a - 1]]]
    /\ UNCHANGED <<door, counters, pc, key>>

Finish(r) == RecordFailure(r) \/ Clear(r) \/ DatabaseError(r) \/ Release(r)
                 \/ ReadonlyCompare(r)

Next ==
    \/ \E r \in Requests :
           Finish(r) \/ \E k \in Keys : Reserve(r, k) \/ ReadonlyLook(r, k)
    \/ \E c \in Clients : BearerToken(c)
    \/ Tick

Spec == Init /\ [][Next]_vars

(* Time passes, and a request that was let in ends. *)
FairSpec ==
    /\ Spec
    /\ WF_vars(Tick)
    /\ \A r \in Requests : WF_vars(Finish(r))

-----------------------------------------------------------------------------
(* No client gets more than MaxFailures wrong guesses within a cooldown,      *)
(* however many of its requests are served at once: "concurrent requests      *)
(* cannot all pass the throttle before any failure is recorded"               *)
(* (api_auth_login), "concurrent guesses cannot exceed the limit"             *)
(* (_readonly_token_accepted).  A right password starts anew.                 *)
GuessRate ==
    \A c \in Clients : FoldFunction(LAMBDA n, sum : n + sum, 0, recent[c]) <= MaxFailures

UnderWay == {r \in Requests : pc[r] \in {"verify", "release"}}

(* The pending counters are the attempts under way: none is forgotten, none   *)
(* counted twice, whatever way an attempt ends.                               *)
PendingExact ==
    /\ \A c \in Clients :
           clientPending[c] = Cardinality({r \in UnderWay : key[r][2] = c})
    /\ \A k \in Keys : pending[k] = Cardinality({r \in UnderWay : key[r] = k})

CanTry(c) ==
    ~Exhausted(Prune(clientThrottle)[c], clientPending[c])

(* Nobody stays locked out: again and again every client may try. *)
NobodyLockedForEver == \A c \in Clients : []<>CanTry(c)
=============================================================================
