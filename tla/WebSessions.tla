----------------------------- MODULE WebSessions -----------------------------
(* Accounts and sessions of the WebUI (web_auth.py): the first set-up, log-in *)
(* with a rehash, recovery from the command line, log-out and the check of a  *)
(* session.  Every transaction is one step; requests, a starting process and  *)
(* the command line interleave between them.                                  *)
(*                                                                            *)
(* Secrets never repeat, so a claim or a salt is a number.  Expiry is an      *)
(* event: nothing depends on how long it takes.  Throttling: LoginThrottle.   *)
EXTENDS Naturals, Sequences, FiniteSets

CONSTANTS
    Requests,       \* threads that serve a request
    Passwords,      \* what a user may type
    None,           \* no claim, no row
    MaxClaims,      \* bound: claims issued, set-up and recovery together
    MaxSessions,    \* bound: sessions opened
    MaxHashes       \* bound: password hashes made

VARIABLES
    users,          \* web_users: the password hash of each account
    setupClaim,     \* setup_claim_hash and its expiry, or None
    resetClaim,     \* reset_admin_claim_hash and its expiry, or None
    claims,         \* number of claims made so far
    hashes,         \* number of password hashes made so far
    sessions,       \* web_sessions
    pc,             \* where a request is
    row,            \* the credential a request goes on with
    typed,          \* the password of a request
    epoch,          \* history: recoveries issued so far
    redeemed        \* history: how often each claim was accepted

claimVars == <<setupClaim, resetClaim, claims, redeemed>>
requestVars == <<pc, row, typed>>
vars == <<users, claimVars, hashes, sessions, requestVars, epoch>>

Pcs == {"idle", "prepare", "rehash", "insert"}

(* A hash knows the password, its salt and whether its parameters are old;   *)
(* the password of a recovery that is not redeemed yet is nobody's (None).   *)
(* The epoch is history: the recoveries before the password was chosen.      *)
Hash == [pw : Passwords \cup {None}, salt : Nat, old : BOOLEAN, epoch : Nat]
Claim == [id : Nat, expired : BOOLEAN]
Session == [epoch : Nat, revoked : BOOLEAN, expired : BOOLEAN]

TypeOK ==
    /\ users \in Seq(Hash)
    /\ setupClaim \in Claim \cup {None} /\ resetClaim \in Claim \cup {None}
    /\ claims \in 0..MaxClaims /\ hashes \in 0..MaxHashes
    /\ sessions \in Seq(Session) /\ Len(sessions) <= MaxSessions
    /\ pc \in [Requests -> Pcs]
    /\ row \in [Requests -> Hash \cup {None}]
    /\ typed \in [Requests -> Passwords \cup {None}]
    /\ epoch \in Nat
    /\ redeemed \in [1..MaxClaims -> Nat]

(* A new database, or one with an account whose hash may need a rehash *)
Init ==
    /\ \/ users = <<>> /\ hashes = 0
       \/ \E p \in Passwords, old \in BOOLEAN :
              /\ users = <<[pw |-> p, salt |-> 1, old |-> old, epoch |-> 0]>>
              /\ hashes = 1
    /\ setupClaim = None /\ resetClaim = None /\ claims = 0
    /\ sessions = <<>>
    /\ pc = [r \in Requests |-> "idle"]
    /\ row = [r \in Requests |-> None]
    /\ typed = [r \in Requests |-> None]
    /\ epoch = 0
    /\ redeemed = [c \in 1..MaxClaims |-> 0]

(* A request ends and forgets what it read. *)
Done(r) ==
    /\ pc' = [pc EXCEPT ![r] = "idle"]
    /\ row' = [row EXCEPT ![r] = None]
    /\ typed' = [typed EXCEPT ![r] = None]

GoTo(r, where, hash, pw) ==
    /\ pc' = [pc EXCEPT ![r] = where]
    /\ row' = [row EXCEPT ![r] = hash]
    /\ typed' = [typed EXCEPT ![r] = pw]

-----------------------------------------------------------------------------
(* Claims *)

(* _prepare_web_auth_state at the start of a process: the count of accounts   *)
(* and the claim are not one transaction.  With an account, the claim is      *)
(* deleted in a transaction that is never committed, which changes nothing.   *)
PrepareRead(r) ==
    /\ pc[r] = "idle" /\ users = <<>>
    /\ GoTo(r, "prepare", None, None)
    /\ UNCHANGED <<users, claimVars, hashes, sessions, epoch>>

PrepareWrite(r) ==
    /\ pc[r] = "prepare" /\ claims < MaxClaims
    /\ claims' = claims + 1
    /\ setupClaim' = [id |-> claims + 1, expired |-> FALSE]
    /\ Done(r)
    /\ UNCHANGED <<users, resetClaim, redeemed, hashes, sessions, epoch>>

NewHash(p, e) == [pw |-> p, salt |-> hashes + 1, old |-> FALSE, epoch |-> e]

Accepted(claim, c) == claim # None /\ claim.id = c /\ ~claim.expired

(* Mutant: setup_required was checked when the page was loaded. *)
SetupOpenAlways == TRUE

SetupOpen == users = <<>>

(* _claim_initial_admin: one immediate transaction *)
ClaimInitialAdmin(r, c, p) ==
    /\ pc[r] = "idle" /\ hashes < MaxHashes
    /\ SetupOpen /\ Accepted(setupClaim, c)
    /\ users' = Append(users, NewHash(p, epoch))
    /\ GoTo(r, "insert", NewHash(p, epoch), p)
    /\ hashes' = hashes + 1
    /\ setupClaim' = None
    /\ redeemed' = [redeemed EXCEPT ![c] = @ + 1]
    /\ UNCHANGED <<resetClaim, claims, sessions, epoch>>

(* issue_admin_recovery_claim, from the command line: one transaction gives  *)
(* the account a password that nobody knows and revokes its sessions.        *)
IssueRecovery ==
    /\ users # <<>> /\ claims < MaxClaims /\ hashes < MaxHashes
    /\ epoch' = epoch + 1
    /\ users' = [users EXCEPT ![1] = NewHash(None, epoch + 1)]
    /\ hashes' = hashes + 1
    /\ sessions' = [s \in DOMAIN sessions |-> [sessions[s] EXCEPT !.revoked = TRUE]]
    /\ claims' = claims + 1
    /\ resetClaim' = [id |-> claims + 1, expired |-> FALSE]
    /\ UNCHANGED <<setupClaim, redeemed, requestVars>>

(* Mutant: the claim is left to its expiry. *)
SpendResetLater == UNCHANGED resetClaim

(* _delete_admin_recovery_claim *)
SpendReset == resetClaim' = None

(* _redeem_admin_recovery_claim: one transaction *)
RedeemRecovery(r, c, p) ==
    /\ pc[r] = "idle" /\ hashes < MaxHashes
    /\ users # <<>> /\ Accepted(resetClaim, c)
    /\ users' = [users EXCEPT ![1] = NewHash(p, epoch)]
    /\ GoTo(r, "insert", NewHash(p, epoch), p)
    /\ hashes' = hashes + 1
    /\ SpendReset
    /\ redeemed' = [redeemed EXCEPT ![c] = @ + 1]
    /\ UNCHANGED <<setupClaim, claims, sessions, epoch>>

-----------------------------------------------------------------------------
(* Log-in and log-out *)

(* _verify_web_user: the row is read and checked, the rest comes later.  A   *)
(* wrong password changes nothing here.                                      *)
VerifyWebUser(r, p) ==
    /\ pc[r] = "idle"
    /\ users # <<>> /\ users[1].pw = p
    /\ GoTo(r, IF users[1].old THEN "rehash" ELSE "insert", users[1], p)
    /\ UNCHANGED <<users, claimVars, hashes, sessions, epoch>>

(* Mutant: the row is written whatever hash it has by now. *)
RehashHitsAlways(r) == TRUE

(* UPDATE ... WHERE password_hash = the one that was checked *)
RehashHits(r) == users[1] = row[r]

(* _rehash_web_user: when another writer was first, the password is checked  *)
(* against what is there now.                                                *)
RehashWebUser(r) ==
    /\ pc[r] = "rehash"
    /\ \/ /\ RehashHits(r) /\ hashes < MaxHashes
          /\ LET new == [row[r] EXCEPT !.salt = hashes + 1, !.old = FALSE]
             IN  users' = [users EXCEPT ![1] = new] /\ GoTo(r, "insert", new, typed[r])
          /\ hashes' = hashes + 1
       \/ /\ ~RehashHits(r)
          /\ IF users[1].pw = typed[r] THEN GoTo(r, "insert", users[1], typed[r])
             ELSE Done(r)
          /\ UNCHANGED <<users, hashes>>
    /\ UNCHANGED <<claimVars, sessions, epoch>>

(* Mutant: the account is looked up by its id alone. *)
CredentialCurrentById(r) == users # <<>>

(* INSERT ... SELECT ... WHERE id = ? AND password_hash = ? *)
CredentialCurrent(r) == \E i \in DOMAIN users : users[i] = row[r]

(* _create_web_session: the check and the insert are one statement. *)
CreateWebSession(r) ==
    /\ pc[r] = "insert"
    /\ \/ /\ CredentialCurrent(r) /\ Len(sessions) < MaxSessions
          /\ sessions' = Append(sessions, [epoch |-> row[r].epoch, revoked |-> FALSE,
                                           expired |-> FALSE])
       \/ ~CredentialCurrent(r) /\ UNCHANGED sessions
    /\ Done(r)
    /\ UNCHANGED <<users, claimVars, hashes, epoch>>

(* _revoke_web_session *)
Logout(s) ==
    /\ sessions' = [sessions EXCEPT ![s].revoked = TRUE]
    /\ UNCHANGED <<users, claimVars, hashes, requestVars, epoch>>

(* A database error: the request answers 500 and nothing is committed. *)
Fail(r) ==
    /\ pc[r] # "idle" /\ Done(r)
    /\ UNCHANGED <<users, claimVars, hashes, sessions, epoch>>

(* A day passes. *)
ExpireClaim ==
    /\ \/ /\ setupClaim # None /\ setupClaim' = [setupClaim EXCEPT !.expired = TRUE]
          /\ UNCHANGED resetClaim
       \/ /\ resetClaim # None /\ resetClaim' = [resetClaim EXCEPT !.expired = TRUE]
          /\ UNCHANGED setupClaim
    /\ UNCHANGED <<users, claims, redeemed, hashes, sessions, requestVars, epoch>>

ExpireSession(s) ==
    /\ sessions' = [sessions EXCEPT ![s].expired = TRUE]
    /\ UNCHANGED <<users, claimVars, hashes, requestVars, epoch>>

Next ==
    \/ \E r \in Requests :
           \/ PrepareRead(r) \/ PrepareWrite(r)
           \/ RehashWebUser(r) \/ CreateWebSession(r) \/ Fail(r)
           \/ \E p \in Passwords :
                  \/ VerifyWebUser(r, p)
                  \/ \E c \in 1..claims : ClaimInitialAdmin(r, c, p) \/ RedeemRecovery(r, c, p)
    \/ IssueRecovery \/ ExpireClaim
    \/ \E s \in DOMAIN sessions : Logout(s) \/ ExpireSession(s)

Spec == Init /\ [][Next]_vars

-----------------------------------------------------------------------------
(* _session_user accepts it. *)
Live(s) == ~sessions[s].revoked /\ ~sessions[s].expired

(* The set-up makes one account, also when a process that started before it  *)
(* stores its claim afterwards (_prepare_web_auth_state).                    *)
OneAdmin == Len(users) <= 1

(* After a recovery was issued, no session that was opened with an older     *)
(* password is accepted: "Recovery either changes the hash first, or revokes *)
(* this session after insertion" (_create_web_session).                      *)
RecoveryEndsSessions ==
    \A s \in DOMAIN sessions : Live(s) => sessions[s].epoch = epoch

(* A log-in that rehashes while a recovery is issued does not bring the old  *)
(* password back (_rehash_web_user).                                         *)
OldPasswordsStayDead == \A i \in DOMAIN users : users[i].epoch = epoch

(* A claim is accepted once, whoever else presents it. *)
ClaimsAreSpent == \A c \in 1..MaxClaims : redeemed[c] <= 1

(* An account with a password that nobody knows has a claim to set a new one.*)
NobodyLockedOut == \A i \in DOMAIN users : users[i].pw = None => resetClaim # None
=============================================================================
