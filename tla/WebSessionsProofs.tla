-------------------------- MODULE WebSessionsProofs --------------------------
(* What WebSessions promises, for any number of requests, passwords, claims,  *)
(* sessions and hashes: one account, no session and no password that a        *)
(* recovery has ended, every claim spent once, and nobody locked out.         *)
EXTENDS WebSessions, SequenceTheorems, TLAPS

(* The bounds are numbers, and None is neither a password nor a claim. *)
Constants ==
    /\ MaxClaims \in Nat /\ MaxSessions \in Nat /\ MaxHashes \in Nat \ {0}
    /\ None \notin Passwords /\ None \notin Claim /\ None \notin Hash

(* A stored claim was issued, has not been accepted yet, and is the set-up's *)
(* or the recovery's, not both.                                              *)
Unspent(claim) == claim # None => claim.id \in 1..claims /\ redeemed[claim.id] = 0
ClaimsInv ==
    /\ Unspent(setupClaim) /\ Unspent(resetClaim)
    /\ (setupClaim # None /\ resetClaim # None) => setupClaim.id # resetClaim.id
    /\ \A c \in 1..MaxClaims : c > claims => redeemed[c] = 0
    /\ ClaimsAreSpent

(* The requests that rehash have found an account.                           *)
UsersInv ==
    /\ OneAdmin /\ OldPasswordsStayDead /\ NobodyLockedOut
    /\ \A r \in Requests : pc[r] = "rehash" => users # <<>> /\ row[r] \in Hash
    /\ \A r \in Requests : pc[r] = "insert" => row[r] \in Hash

SessionsInv == RecoveryEndsSessions

Inv == TypeOK /\ ClaimsInv /\ UsersInv /\ SessionsInv

-----------------------------------------------------------------------------
(* What a step may do to the sequences.                                      *)
LEMMA ChangedSequence ==
  ASSUME NEW S, NEW q \in Seq(S), NEW f, DOMAIN f = DOMAIN q, f = [i \in DOMAIN q |-> f[i]],
         \A i \in DOMAIN q : f[i] \in S
  PROVE  f \in Seq(S) /\ Len(f) = Len(q)
<1>1. Len(q) \in Nat /\ DOMAIN q = 1..Len(q)
  BY LenProperties
<1>2. f \in [1..Len(q) -> S]
  BY <1>1
<1>3. f \in Seq(S)
  BY <1>1, <1>2, SeqDef
<1>4. Len(f) \in Nat /\ DOMAIN f = 1..Len(f)
  BY <1>3, LenProperties
<1>5. 1..Len(f) = 1..Len(q)
  BY <1>1, <1>4
<1>6. Len(f) = Len(q)
  BY <1>1, <1>4, <1>5
<1>7. QED BY <1>3, <1>6

(* A request that ends or goes on leaves the others where they are.          *)
LEMMA RequestStep ==
  ASSUME TypeOK, NEW r \in Requests,
         NEW w \in Pcs, NEW h \in Hash \cup {None}, NEW p \in Passwords \cup {None},
         GoTo(r, w, h, p)
  PROVE  /\ pc' \in [Requests -> Pcs] /\ row' \in [Requests -> Hash \cup {None}]
         /\ typed' \in [Requests -> Passwords \cup {None}]
         /\ pc'[r] = w /\ row'[r] = h
         /\ \A q \in Requests : q # r => pc'[q] = pc[q] /\ row'[q] = row[q]
BY DEF TypeOK, GoTo

LEMMA DoneStep ==
  ASSUME TypeOK, NEW r \in Requests, Done(r)
  PROVE  /\ pc' \in [Requests -> Pcs] /\ row' \in [Requests -> Hash \cup {None}]
         /\ typed' \in [Requests -> Passwords \cup {None}]
         /\ pc'[r] = "idle"
         /\ \A q \in Requests : q # r => pc'[q] = pc[q] /\ row'[q] = row[q]
BY DEF TypeOK, Done, Pcs

(* There is no account or one, and a step that writes it leaves one.         *)
LEMMA OneUser ==
  ASSUME users \in Seq(Hash), Len(users) <= 1
  PROVE  /\ users = <<>> => DOMAIN users = {} /\ Len(users) = 0
         /\ users # <<>> => DOMAIN users = {1} /\ Len(users) = 1 /\ users[1] \in Hash
<1>1. Len(users) \in Nat /\ DOMAIN users = 1..Len(users)
  BY LenProperties
<1>2. CASE users = <<>>
  BY <1>1, <1>2
<1>3. CASE users # <<>>
  <2>1. Len(users) # 0
    BY <1>3, EmptySeq
  <2>2. Len(users) = 1 /\ DOMAIN users = {1}
    BY <1>1, <2>1
  <2>3. users[1] \in Hash
    BY <2>2, ElementOfSeq
  <2>4. QED BY <1>3, <2>2, <2>3
<1>4. QED BY <1>2, <1>3

LEMMA WrittenUser ==
  ASSUME users \in Seq(Hash), Len(users) <= 1, NEW h \in Hash,
         \/ users = <<>> /\ users' = Append(users, h)
         \/ users # <<>> /\ users' = [users EXCEPT ![1] = h]
  PROVE  users' \in Seq(Hash) /\ Len(users') = 1 /\ DOMAIN users' = {1} /\ users'[1] = h
<1>1. CASE users = <<>> /\ users' = Append(users, h)
  BY <1>1
<1>2. CASE users # <<>> /\ users' = [users EXCEPT ![1] = h]
  <2>1. DOMAIN users = {1} /\ Len(users) = 1 /\ users[1] \in Hash
    BY <1>2, OneUser
  <2>2. /\ DOMAIN users' = {1} /\ users'[1] = h
        /\ users' = [i \in DOMAIN users |-> users'[i]]
    BY <1>2, <2>1
  <2>3. users' \in Seq(Hash) /\ Len(users') = Len(users)
    BY <2>1, <2>2, ChangedSequence
  <2>4. QED BY <2>1, <2>2, <2>3
<1>3. QED BY <1>1, <1>2

(* What the steps do to the account.                                         *)
Chosen(h) == h \in Hash /\ h.epoch = epoch' /\ (h.pw = None => resetClaim' # None)
UsersKept ==
    /\ users' = users /\ hashes' = hashes
    /\ resetClaim # None => resetClaim' # None
    /\ epoch' = epoch
UsersWritten ==
    /\ hashes < MaxHashes /\ hashes' = hashes + 1
    /\ \E h : /\ Chosen(h)
              /\ \/ users = <<>> /\ users' = Append(users, h)
                 \/ users # <<>> /\ users' = [users EXCEPT ![1] = h]
    /\ epoch' \in {epoch, epoch + 1}

LEMMA NewHashIs ==
  ASSUME TypeOK, NEW p \in Passwords \cup {None}, NEW e \in Nat
  PROVE  /\ NewHash(p, e) \in Hash
         /\ NewHash(p, e).pw = p /\ NewHash(p, e).epoch = e
<1>1. hashes \in Nat
  BY DEF TypeOK
<1>2. QED BY <1>1 DEF NewHash, Hash

LEMMA RehashedIs ==
  ASSUME NEW h \in Hash, NEW n \in Nat
  PROVE  LET new == [h EXCEPT !.salt = n, !.old = FALSE]
         IN  new \in Hash /\ new.pw = h.pw /\ new.epoch = h.epoch
<1> DEFINE one == [h EXCEPT !.salt = n]
           new == [one EXCEPT !.old = FALSE]
<1>1. one \in Hash /\ one.pw = h.pw /\ one.epoch = h.epoch
  BY DEF Hash
<1> HIDE DEF one
<1>2. new \in Hash /\ new.pw = one.pw /\ new.epoch = one.epoch
  BY <1>1 DEF Hash
<1>3. QED BY <1>1, <1>2 DEF one

LEMMA UsersEffect ==
  ASSUME Constants, Inv, Next
  PROVE  UsersKept \/ UsersWritten
<1>t. /\ hashes \in Nat /\ epoch \in Nat /\ users \in Seq(Hash) /\ TypeOK
      /\ OneAdmin /\ OldPasswordsStayDead /\ NobodyLockedOut
  BY DEF Inv, UsersInv, TypeOK
<1>o. users # <<>> => DOMAIN users = {1} /\ users[1] \in Hash
  BY <1>t, OneUser DEF OneAdmin
<1>1. ASSUME NEW r \in Requests,
             PrepareRead(r) \/ PrepareWrite(r) \/ CreateWebSession(r) \/ Fail(r)
      PROVE  UsersKept
  BY <1>1 DEF PrepareRead, PrepareWrite, CreateWebSession, Fail, UsersKept,
              claimVars
<1>2. ASSUME NEW r \in Requests, RehashWebUser(r)
      PROVE  UsersKept \/ UsersWritten
  <2>1. users # <<>> /\ row[r] \in Hash
    BY <1>2 DEF RehashWebUser, Inv, UsersInv
  <2>2. CASE RehashHits(r) /\ hashes < MaxHashes
    <3> DEFINE new == [row[r] EXCEPT !.salt = hashes + 1, !.old = FALSE]
    <3>1. /\ users' = [users EXCEPT ![1] = new] /\ hashes' = hashes + 1
          /\ epoch' = epoch /\ resetClaim' = resetClaim
      BY <1>2, <2>2 DEF RehashWebUser, GoTo, claimVars
    <3>2. new \in Hash /\ new.pw = users[1].pw /\ new.epoch = users[1].epoch
      <4>1. hashes + 1 \in Nat
        BY <1>t
      <4>2. new \in Hash /\ new.pw = row[r].pw /\ new.epoch = row[r].epoch
        BY <2>1, <4>1, RehashedIs
      <4>3. QED BY <2>2, <4>2 DEF RehashHits
    <3>3. Chosen(new)
      BY <1>t, <1>o, <2>1, <3>1, <3>2 DEF Chosen, OldPasswordsStayDead, NobodyLockedOut
    <3>4. QED BY <2>1, <2>2, <3>1, <3>3 DEF UsersWritten
  <2>3. CASE ~(RehashHits(r) /\ hashes < MaxHashes)
    BY <1>2, <2>3 DEF RehashWebUser, UsersKept, claimVars
  <2>4. QED BY <2>2, <2>3
<1>3. ASSUME NEW r \in Requests, NEW p \in Passwords, VerifyWebUser(r, p)
      PROVE  UsersKept
  BY <1>3 DEF VerifyWebUser, UsersKept, claimVars
<1>4. ASSUME NEW r \in Requests, NEW p \in Passwords, NEW c \in 1..claims,
             ClaimInitialAdmin(r, c, p)
      PROVE  UsersWritten
  <2>1. /\ users = <<>> /\ users' = Append(users, NewHash(p, epoch))
        /\ hashes < MaxHashes /\ hashes' = hashes + 1 /\ epoch' = epoch
    BY <1>4 DEF ClaimInitialAdmin, SetupOpen
  <2>2. Chosen(NewHash(p, epoch))
    BY <1>t, <2>1, NewHashIs DEF Chosen, Constants
  <2>3. QED BY <2>1, <2>2 DEF UsersWritten
<1>5. ASSUME NEW r \in Requests, NEW p \in Passwords, NEW c \in 1..claims,
             RedeemRecovery(r, c, p)
      PROVE  UsersWritten
  <2>1. /\ users # <<>> /\ users' = [users EXCEPT ![1] = NewHash(p, epoch)]
        /\ hashes < MaxHashes /\ hashes' = hashes + 1 /\ epoch' = epoch
    BY <1>5 DEF RedeemRecovery
  <2>2. Chosen(NewHash(p, epoch))
    BY <1>t, <2>1, NewHashIs DEF Chosen, Constants
  <2>3. QED BY <2>1, <2>2 DEF UsersWritten
<1>6. ASSUME IssueRecovery
      PROVE  UsersWritten
  <2>1. /\ users # <<>> /\ users' = [users EXCEPT ![1] = NewHash(None, epoch + 1)]
        /\ hashes < MaxHashes /\ hashes' = hashes + 1 /\ epoch' = epoch + 1
        /\ resetClaim' = [id |-> claims + 1, expired |-> FALSE]
    BY <1>6 DEF IssueRecovery
  <2>2. resetClaim' \in Claim
    BY <1>t, <2>1 DEF Claim, TypeOK
  <2>3. Chosen(NewHash(None, epoch + 1))
    <3>1. epoch + 1 \in Nat /\ resetClaim' # None
      BY <1>t, <2>2 DEF Constants
    <3>2. QED BY <1>t, <2>1, <3>1, NewHashIs DEF Chosen
  <2>4. QED BY <2>1, <2>3 DEF UsersWritten
<1>7. ASSUME ExpireClaim
      PROVE  UsersKept
  <2>1. resetClaim # None => resetClaim' # None
    <3>1. resetClaim # None => [resetClaim EXCEPT !.expired = TRUE] \in Claim
      BY <1>t DEF TypeOK, Claim
    <3>2. QED BY <1>7, <3>1 DEF ExpireClaim, Constants
  <2>2. QED BY <1>7, <2>1 DEF ExpireClaim, UsersKept
<1>8. ASSUME NEW s \in DOMAIN sessions, Logout(s) \/ ExpireSession(s)
      PROVE  UsersKept
  BY <1>8 DEF Logout, ExpireSession, UsersKept, claimVars
<1>9. QED BY <1>1, <1>2, <1>3, <1>4, <1>5, <1>6, <1>7, <1>8 DEF Next

(* What the steps do to the requests.                                        *)
RequestsKept == UNCHANGED requestVars
Moved(r, w, h, p) ==
    /\ w \in Pcs /\ h \in Hash \cup {None} /\ p \in Passwords \cup {None}
    /\ GoTo(r, w, h, p)
    /\ w \in {"rehash", "insert"} => h \in Hash
    /\ w = "rehash" => users # <<>>
RequestMoved == \E r \in Requests : Done(r) \/ \E w, h, p : Moved(r, w, h, p)

LEMMA RequestsEffect ==
  ASSUME Constants, Inv, Next
  PROVE  RequestsKept \/ RequestMoved
<1>t. /\ hashes \in Nat /\ epoch \in Nat /\ users \in Seq(Hash) /\ TypeOK
      /\ \A r \in Requests : typed[r] \in Passwords \cup {None}
      /\ OneAdmin
  BY DEF Inv, UsersInv, TypeOK
<1>o. users # <<>> => users[1] \in Hash
  BY <1>t, OneUser DEF OneAdmin
<1>m. ASSUME NEW r \in Requests, NEW w, NEW h, NEW p, Moved(r, w, h, p)
      PROVE  RequestMoved
  BY <1>m DEF RequestMoved
<1>1. ASSUME NEW r \in Requests, PrepareRead(r)
      PROVE  RequestsKept \/ RequestMoved
  <2>1. UNCHANGED requestVars \/ GoTo(r, "prepare", None, None)
    BY <1>1 DEF PrepareRead
  <2>2. GoTo(r, "prepare", None, None) => Moved(r, "prepare", None, None)
    BY DEF Moved, Pcs
  <2>3. QED BY <1>m, <2>1, <2>2 DEF RequestsKept
<1>2. ASSUME NEW r \in Requests, PrepareWrite(r) \/ CreateWebSession(r) \/ Fail(r)
      PROVE  RequestMoved
  BY <1>2 DEF PrepareWrite, CreateWebSession, Fail, RequestMoved
<1>3. ASSUME NEW r \in Requests, RehashWebUser(r)
      PROVE  RequestMoved
  <2>1. users # <<>> /\ row[r] \in Hash
    BY <1>3 DEF RehashWebUser, Inv, UsersInv
  <2> DEFINE new == [row[r] EXCEPT !.salt = hashes + 1, !.old = FALSE]
  <2>2. new \in Hash
    <3>1. hashes + 1 \in Nat
      BY <1>t
    <3>2. QED BY <2>1, <3>1, RehashedIs
  <2>3. \/ GoTo(r, "insert", new, typed[r])
        \/ GoTo(r, "insert", users[1], typed[r])
        \/ Done(r)
    BY <1>3 DEF RehashWebUser
  <2>4. ASSUME NEW h \in Hash, GoTo(r, "insert", h, typed[r])
        PROVE  Moved(r, "insert", h, typed[r])
    BY <1>t, <2>4 DEF Moved, Pcs
  <2>5. QED BY <1>m, <1>o, <2>1, <2>2, <2>3, <2>4 DEF RequestMoved
<1>4. ASSUME NEW r \in Requests, NEW p \in Passwords, VerifyWebUser(r, p)
      PROVE  RequestMoved
  <2>1. /\ users # <<>>
        /\ GoTo(r, "rehash", users[1], p) \/ GoTo(r, "insert", users[1], p)
    BY <1>4 DEF VerifyWebUser
  <2>2. ASSUME NEW w \in {"rehash", "insert"}, GoTo(r, w, users[1], p)
        PROVE  Moved(r, w, users[1], p)
    BY <1>o, <2>1, <2>2 DEF Moved, Pcs
  <2>3. QED BY <1>m, <2>1, <2>2
<1>5. ASSUME NEW r \in Requests, NEW p \in Passwords, NEW c \in 1..claims,
             ClaimInitialAdmin(r, c, p) \/ RedeemRecovery(r, c, p)
      PROVE  RequestMoved
  <2>1. GoTo(r, "insert", NewHash(p, epoch), p)
    BY <1>5 DEF ClaimInitialAdmin, RedeemRecovery
  <2>2. NewHash(p, epoch) \in Hash
    BY <1>t, NewHashIs
  <2>3. Moved(r, "insert", NewHash(p, epoch), p)
    BY <2>1, <2>2 DEF Moved, Pcs
  <2>4. QED BY <1>m, <2>3
<1>6. ASSUME \/ IssueRecovery \/ ExpireClaim
             \/ \E s \in DOMAIN sessions : Logout(s) \/ ExpireSession(s)
      PROVE  RequestsKept
  BY <1>6 DEF IssueRecovery, ExpireClaim, Logout, ExpireSession, RequestsKept
<1>7. QED BY <1>1, <1>2, <1>3, <1>4, <1>5, <1>6 DEF Next

(* What the steps do to a stored claim and to the sessions.                  *)
Lasts(old, new) == new = None \/ new = old \/ (old # None /\ new \in Claim /\ new.id = old.id)
ClaimsLast ==
    /\ claims' = claims /\ redeemed' = redeemed
    /\ Lasts(setupClaim, setupClaim') /\ Lasts(resetClaim, resetClaim')
ClaimIssued ==
    /\ claims < MaxClaims /\ claims' = claims + 1 /\ redeemed' = redeemed
    /\ LET new == [id |-> claims + 1, expired |-> FALSE]
       IN  \/ setupClaim' = new /\ resetClaim' = resetClaim
           \/ resetClaim' = new /\ setupClaim' = setupClaim
ClaimRedeemed ==
    /\ claims' = claims
    /\ \E c \in 1..claims :
           /\ redeemed' = [redeemed EXCEPT ![c] = @ + 1]
           /\ \/ /\ setupClaim # None /\ setupClaim.id = c
                 /\ setupClaim' = None /\ resetClaim' = resetClaim
              \/ /\ resetClaim # None /\ resetClaim.id = c
                 /\ resetClaim' = None /\ setupClaim' = setupClaim

LEMMA ClaimsEffect ==
  ASSUME Constants, Inv, Next
  PROVE  ClaimsLast \/ ClaimIssued \/ ClaimRedeemed
<1>1. ASSUME NEW r \in Requests,
             PrepareRead(r) \/ RehashWebUser(r) \/ CreateWebSession(r) \/ Fail(r)
      PROVE  ClaimsLast
  BY <1>1 DEF PrepareRead, RehashWebUser, CreateWebSession, Fail, claimVars,
              ClaimsLast, Lasts
<1>2. ASSUME NEW r \in Requests, NEW p \in Passwords, VerifyWebUser(r, p)
      PROVE  ClaimsLast
  BY <1>2 DEF VerifyWebUser, claimVars, ClaimsLast, Lasts
<1>3. ASSUME IssueRecovery \/ (\E r \in Requests : PrepareWrite(r))
      PROVE  ClaimIssued
  BY <1>3 DEF IssueRecovery, PrepareWrite, ClaimIssued
<1>4. ASSUME NEW r \in Requests, NEW p \in Passwords, NEW c \in 1..claims,
             ClaimInitialAdmin(r, c, p) \/ RedeemRecovery(r, c, p)
      PROVE  ClaimRedeemed
  BY <1>4 DEF ClaimInitialAdmin, RedeemRecovery, Accepted, SpendReset, ClaimRedeemed
<1>5. ASSUME ExpireClaim
      PROVE  ClaimsLast
  BY <1>5 DEF ExpireClaim, ClaimsLast, Lasts, Inv, TypeOK, Claim
<1>6. ASSUME NEW s \in DOMAIN sessions, Logout(s) \/ ExpireSession(s)
      PROVE  ClaimsLast
  BY <1>6 DEF Logout, ExpireSession, claimVars, ClaimsLast, Lasts
<1>7. QED BY <1>1, <1>2, <1>3, <1>4, <1>5, <1>6 DEF Next

LEMMA ClaimsStep ==
  ASSUME Constants, Inv, Next
  PROVE  /\ setupClaim' \in Claim \cup {None} /\ resetClaim' \in Claim \cup {None}
         /\ claims' \in 0..MaxClaims /\ redeemed' \in [1..MaxClaims -> Nat]
         /\ ClaimsInv'
<1>t. /\ setupClaim \in Claim \cup {None} /\ resetClaim \in Claim \cup {None}
      /\ claims \in 0..MaxClaims /\ redeemed \in [1..MaxClaims -> Nat] /\ MaxClaims \in Nat
      /\ ClaimsInv
  BY DEF Inv, TypeOK, Constants
<1>1. CASE ClaimsLast
  BY <1>t, <1>1 DEF ClaimsLast, Lasts, ClaimsInv, Unspent, ClaimsAreSpent
<1>2. CASE ClaimIssued
  <2> DEFINE new == [id |-> claims + 1, expired |-> FALSE]
  <2>1. /\ new \in Claim /\ new.id = claims + 1 /\ new.id \in 1..MaxClaims
        /\ redeemed[new.id] = 0
    BY <1>t, <1>2 DEF ClaimIssued, Claim, ClaimsInv
  <2>2. /\ \/ setupClaim' = new /\ resetClaim' = resetClaim
           \/ resetClaim' = new /\ setupClaim' = setupClaim
        /\ claims' = claims + 1 /\ redeemed' = redeemed
    BY <1>2 DEF ClaimIssued
  <2> HIDE DEF new
  <2>3. QED BY <1>t, <2>1, <2>2 DEF ClaimsInv, Unspent, ClaimsAreSpent
<1>3. CASE ClaimRedeemed
  <2>1. PICK c \in 1..claims :
           /\ redeemed' = [redeemed EXCEPT ![c] = @ + 1]
           /\ \/ /\ setupClaim # None /\ setupClaim.id = c
                 /\ setupClaim' = None /\ resetClaim' = resetClaim
              \/ /\ resetClaim # None /\ resetClaim.id = c
                 /\ resetClaim' = None /\ setupClaim' = setupClaim
    BY <1>3 DEF ClaimRedeemed
  <2>2. claims' = claims
    BY <1>3 DEF ClaimRedeemed
  <2>3. c \in 1..MaxClaims /\ redeemed[c] = 0
    BY <1>t, <2>1 DEF ClaimsInv, Unspent
  <2>4. /\ redeemed' \in [1..MaxClaims -> Nat] /\ redeemed'[c] = 1
        /\ \A d \in 1..MaxClaims : d # c => redeemed'[d] = redeemed[d]
    BY <1>t, <2>1, <2>3
  <2>5. QED BY <1>t, <2>1, <2>2, <2>3, <2>4 DEF ClaimsInv, Unspent, ClaimsAreSpent
<1>4. QED BY <1>1, <1>2, <1>3, ClaimsEffect

LEMMA UsersStep ==
  ASSUME Constants, Inv, Next
  PROVE  /\ users' \in Seq(Hash) /\ hashes' \in 0..MaxHashes /\ epoch' \in Nat
         /\ pc' \in [Requests -> Pcs] /\ row' \in [Requests -> Hash \cup {None}]
         /\ typed' \in [Requests -> Passwords \cup {None}]
         /\ UsersInv'
<1>t. /\ hashes \in 0..MaxHashes /\ epoch \in Nat /\ users \in Seq(Hash) /\ TypeOK
      /\ OneAdmin /\ OldPasswordsStayDead /\ NobodyLockedOut /\ MaxHashes \in Nat
      /\ UsersInv
  BY DEF Inv, UsersInv, TypeOK, Constants
<1>1. /\ users' \in Seq(Hash) /\ hashes' \in 0..MaxHashes /\ epoch' \in Nat
      /\ (OneAdmin /\ OldPasswordsStayDead /\ NobodyLockedOut)'
      /\ users # <<>> => users' # <<>>
  <2>1. CASE UsersKept
    BY <1>t, <2>1 DEF UsersKept, OneAdmin, OldPasswordsStayDead, NobodyLockedOut
  <2>2. CASE UsersWritten
    <3>1. PICK h : /\ Chosen(h)
                   /\ \/ users = <<>> /\ users' = Append(users, h)
                      \/ users # <<>> /\ users' = [users EXCEPT ![1] = h]
      BY <2>2 DEF UsersWritten
    <3>2. h \in Hash
      BY <3>1 DEF Chosen
    <3>3. /\ users' \in Seq(Hash) /\ Len(users') = 1 /\ DOMAIN users' = {1}
          /\ users'[1] = h
      BY <1>t, <3>1, <3>2, WrittenUser DEF OneAdmin
    <3>4. users' # <<>>
      BY <3>3
    <3>5. (OneAdmin /\ OldPasswordsStayDead /\ NobodyLockedOut)'
      BY <3>1, <3>3 DEF Chosen, OneAdmin, OldPasswordsStayDead, NobodyLockedOut
    <3>6. hashes' \in 0..MaxHashes /\ epoch' \in Nat
      BY <1>t, <2>2 DEF UsersWritten
    <3>7. QED BY <3>3, <3>4, <3>5, <3>6
  <2>3. QED BY <2>1, <2>2, UsersEffect
<1>2. /\ pc' \in [Requests -> Pcs] /\ row' \in [Requests -> Hash \cup {None}]
      /\ typed' \in [Requests -> Passwords \cup {None}]
      /\ \A r \in Requests : pc'[r] = "rehash" => users # <<>> /\ row'[r] \in Hash
      /\ \A r \in Requests : pc'[r] = "insert" => row'[r] \in Hash
  <2>1. CASE RequestsKept
    BY <1>t, <2>1 DEF RequestsKept, requestVars, TypeOK, UsersInv
  <2>2. ASSUME NEW r \in Requests, Done(r)
        PROVE  <1>2!:
    BY <1>t, <2>2, DoneStep DEF UsersInv
  <2>3. ASSUME NEW r \in Requests, NEW w, NEW h, NEW p, Moved(r, w, h, p)
        PROVE  <1>2!:
    BY <1>t, <2>3, RequestStep DEF UsersInv, Moved
  <2>4. QED BY <2>1, <2>2, <2>3, RequestsEffect DEF RequestMoved
<1>3. QED BY <1>1, <1>2 DEF UsersInv

LEMMA SessionsStep ==
  ASSUME Constants, Inv, Next
  PROVE  /\ sessions' \in Seq(Session) /\ Len(sessions') <= MaxSessions
         /\ SessionsInv'
<1>t. /\ sessions \in Seq(Session) /\ Len(sessions) <= MaxSessions /\ epoch \in Nat
      /\ RecoveryEndsSessions /\ OldPasswordsStayDead /\ MaxSessions \in Nat
      /\ users \in Seq(Hash)
  BY DEF Inv, UsersInv, SessionsInv, TypeOK, Constants
<1>d. /\ Len(sessions) \in Nat /\ DOMAIN sessions = 1..Len(sessions)
      /\ \A s \in DOMAIN sessions : sessions[s] \in Session
  BY <1>t, LenProperties, ElementOfSeq
<1>1. CASE sessions' = sessions /\ epoch' = epoch
  BY <1>t, <1>1 DEF SessionsInv, RecoveryEndsSessions, Live
<1>2. ASSUME NEW x \in Session, sessions' = Append(sessions, x), x.epoch = epoch,
             epoch' = epoch, Len(sessions) < MaxSessions
      PROVE  /\ sessions' \in Seq(Session) /\ Len(sessions') <= MaxSessions /\ SessionsInv'
  BY <1>t, <1>d, <1>2 DEF SessionsInv, RecoveryEndsSessions, Live
<1>3. ASSUME sessions' = [s \in DOMAIN sessions |-> sessions'[s]],
             \A s \in DOMAIN sessions :
                 /\ sessions'[s] \in Session
                 /\ ~sessions'[s].revoked /\ ~sessions'[s].expired
                        => Live(s) /\ epoch' = epoch /\ sessions'[s].epoch = sessions[s].epoch
      PROVE  /\ sessions' \in Seq(Session) /\ Len(sessions') <= MaxSessions /\ SessionsInv'
  <2>1. DOMAIN sessions' = DOMAIN sessions
    BY <1>3
  <2>2. sessions' \in Seq(Session) /\ Len(sessions') = Len(sessions)
    BY <1>t, <1>3, <2>1, ChangedSequence
  <2>3. SessionsInv'
    BY <1>t, <1>3, <2>1 DEF SessionsInv, RecoveryEndsSessions, Live
  <2>4. QED BY <1>t, <2>2, <2>3
<1>4. ASSUME NEW r \in Requests, CreateWebSession(r)
      PROVE  /\ sessions' \in Seq(Session) /\ Len(sessions') <= MaxSessions /\ SessionsInv'
  <2> DEFINE x == [epoch |-> row[r].epoch, revoked |-> FALSE, expired |-> FALSE]
  <2>1. CASE CredentialCurrent(r) /\ Len(sessions) < MaxSessions /\ sessions' = Append(sessions, x)
    <3>1. row[r].epoch = epoch
      BY <1>t, <2>1 DEF CredentialCurrent, OldPasswordsStayDead
    <3>2. x \in Session /\ x.epoch = epoch /\ epoch' = epoch
      BY <1>t, <1>4, <3>1 DEF Session, CreateWebSession
    <3>3. QED BY <1>2, <2>1, <3>2
  <2>2. CASE sessions' = sessions
    BY <1>1, <1>4, <2>2 DEF CreateWebSession
  <2>3. QED BY <1>4, <2>1, <2>2 DEF CreateWebSession
<1>5. ASSUME IssueRecovery
      PROVE  /\ sessions' \in Seq(Session) /\ Len(sessions') <= MaxSessions /\ SessionsInv'
  <2>1. sessions' = [s \in DOMAIN sessions |-> [sessions[s] EXCEPT !.revoked = TRUE]]
    BY <1>5 DEF IssueRecovery
  <2>2. \A s \in DOMAIN sessions : sessions'[s] \in Session /\ sessions'[s].revoked
    BY <1>d, <2>1 DEF Session
  <2>3. QED BY <1>3, <2>1, <2>2
<1>6. ASSUME NEW s \in DOMAIN sessions, Logout(s) \/ ExpireSession(s)
      PROVE  /\ sessions' \in Seq(Session) /\ Len(sessions') <= MaxSessions /\ SessionsInv'
  <2>1. /\ \/ sessions' = [sessions EXCEPT ![s].revoked = TRUE]
           \/ sessions' = [sessions EXCEPT ![s].expired = TRUE]
        /\ epoch' = epoch
    BY <1>6 DEF Logout, ExpireSession
  <2>2. /\ sessions' = [i \in DOMAIN sessions |-> sessions'[i]]
        /\ \A i \in DOMAIN sessions : i # s => sessions'[i] = sessions[i]
        /\ \/ sessions'[s] = [sessions[s] EXCEPT !.revoked = TRUE]
           \/ sessions'[s] = [sessions[s] EXCEPT !.expired = TRUE]
    BY <1>t, <1>d, <2>1
  <2>3. sessions'[s] \in Session /\ (sessions'[s].revoked \/ sessions'[s].expired)
    BY <1>d, <2>2 DEF Session
  <2>4. QED BY <1>3, <1>d, <2>1, <2>2, <2>3 DEF Live
<1>7. ASSUME \/ ExpireClaim
             \/ \E r \in Requests : PrepareRead(r) \/ PrepareWrite(r) \/ RehashWebUser(r) \/ Fail(r)
             \/ \E r \in Requests, p \in Passwords : VerifyWebUser(r, p)
             \/ \E r \in Requests, p \in Passwords, c \in 1..claims :
                    ClaimInitialAdmin(r, c, p) \/ RedeemRecovery(r, c, p)
      PROVE  sessions' = sessions /\ epoch' = epoch
  BY <1>7 DEF ExpireClaim, PrepareRead, PrepareWrite, RehashWebUser, Fail, VerifyWebUser,
              ClaimInitialAdmin, RedeemRecovery
<1>8. QED BY <1>1, <1>4, <1>5, <1>6, <1>7 DEF Next

-----------------------------------------------------------------------------
LEMMA InvInit ==
  ASSUME Constants, Init
  PROVE  Inv
<1>1. /\ users \in Seq(Hash) /\ hashes \in 0..MaxHashes /\ OneAdmin
      /\ \A i \in DOMAIN users : users[i].epoch = 0 /\ users[i].pw # None
  <2>1. CASE users = <<>> /\ hashes = 0
    BY <2>1 DEF OneAdmin, Constants
  <2>2. ASSUME NEW p \in Passwords, NEW old \in BOOLEAN,
               users = <<[pw |-> p, salt |-> 1, old |-> old, epoch |-> 0]>>, hashes = 1
        PROVE  <1>1!:
    <3> DEFINE h == [pw |-> p, salt |-> 1, old |-> old, epoch |-> 0]
    <3>1. h \in Hash /\ h.epoch = 0 /\ h.pw # None
      BY DEF Hash, Constants
    <3> HIDE DEF h
    <3>2. users = <<h>> /\ hashes = 1
      BY <2>2 DEF h
    <3>3. QED BY <3>1, <3>2 DEF OneAdmin, Constants
  <2>3. QED BY <2>1, <2>2 DEF Init
<1>2. TypeOK
  <2>1. sessions \in Seq(Session) /\ Len(sessions) = 0
    BY DEF Init
  <2>2. QED BY <1>1, <2>1 DEF Init, TypeOK, Pcs, Constants
<1>3. ClaimsInv
  BY DEF Init, ClaimsInv, Unspent, ClaimsAreSpent
<1>4. UsersInv
  BY <1>1 DEF Init, UsersInv, OldPasswordsStayDead, NobodyLockedOut
<1>5. SessionsInv
  BY DEF Init, SessionsInv, RecoveryEndsSessions
<1>6. QED BY <1>2, <1>3, <1>4, <1>5 DEF Inv

LEMMA InvStep ==
  ASSUME Constants, Inv, [Next]_vars
  PROVE  Inv'
<1>1. CASE Next
  BY <1>1, ClaimsStep, UsersStep, SessionsStep DEF Inv, TypeOK
<1>2. CASE UNCHANGED vars
  BY <1>2 DEF vars, claimVars, requestVars, Inv, TypeOK, ClaimsInv, Unspent, ClaimsAreSpent,
              UsersInv, OneAdmin, OldPasswordsStayDead, NobodyLockedOut, SessionsInv,
              RecoveryEndsSessions, Live
<1>3. QED BY <1>1, <1>2

(* The account, the claims and the sessions stay within their types, however *)
(* the transactions of web_auth.py interleave.                               *)
THEOREM SessionTypes ==
  ASSUME Constants
  PROVE  Spec => []TypeOK
<1>1. Init => Inv
  BY InvInit
<1>2. Inv /\ [Next]_vars => Inv'
  BY InvStep
<1>3. Inv => TypeOK
  BY DEF Inv
<1>4. QED BY <1>1, <1>2, <1>3, PTL DEF Spec

(* A recovery from the command line ends what came before it: no session that *)
(* was opened with an older password is accepted (_create_web_session inserts *)
(* by the hash it checked, issue_admin_recovery_claim revokes), and no rehash *)
(* brings an older password back (_rehash_web_user).                          *)
THEOREM RecoveryEndsOldLogins ==
  ASSUME Constants
  PROVE  Spec => [](RecoveryEndsSessions /\ OldPasswordsStayDead)
<1>1. Init => Inv
  BY InvInit
<1>2. Inv /\ [Next]_vars => Inv'
  BY InvStep
<1>3. Inv => RecoveryEndsSessions /\ OldPasswordsStayDead
  BY DEF Inv, UsersInv, SessionsInv
<1>4. QED BY <1>1, <1>2, <1>3, PTL DEF Spec

(* The set-up makes one account, a claim of _claim_initial_admin or           *)
(* _redeem_admin_recovery_claim is accepted once, and an account whose        *)
(* password nobody knows has a claim to set a new one.                        *)
THEOREM AccountsAreSafe ==
  ASSUME Constants
  PROVE  Spec => [](OneAdmin /\ ClaimsAreSpent /\ NobodyLockedOut)
<1>1. Init => Inv
  BY InvInit
<1>2. Inv /\ [Next]_vars => Inv'
  BY InvStep
<1>3. Inv => OneAdmin /\ ClaimsAreSpent /\ NobodyLockedOut
  BY DEF Inv, UsersInv, ClaimsInv
<1>4. QED BY <1>1, <1>2, <1>3, PTL DEF Spec
=============================================================================
