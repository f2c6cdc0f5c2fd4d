----------------------------- MODULE AuthTokens -----------------------------
(***************************************************************************)
(* Token issue, rotation and mass revocation: AuthService, the parts of    *)
(* UsersService that change a password or an activation flag,              *)
(* SessionsService, and the blacklist that JwtStrategy consults.           *)
(*                                                                         *)
(* A request is suspended at each await, so an action is one operation on  *)
(* MongoDB or Redis with the code around it.  A JWT carries the user, the  *)
(* type and the second it was signed in: two tokens of one type signed for *)
(* one user in the same second are the same string.  The other claims are  *)
(* constant here.  A wrong password is the business of module Lockout.     *)
(***************************************************************************)
EXTENDS Naturals, FiniteSets

CONSTANTS
    Users, Devices, SessionIds,
    Reqs,           \* requests that can be in flight at once
    Kinds,          \* the endpoints in use
    RefreshTTL,     \* jwt.refreshExpiration, in seconds
    AccessTTL,      \* jwt.accessExpiration, in seconds
    MaxTime,        \* bound: the last second
    MaxEras,        \* bound: mass revocations owed by one account
    FirstLogins,    \* whether accounts start with a temporary password
    Outages,        \* Redis may be out of reach
    None

AllKinds == {"login", "certificate", "refresh", "logout", "change", "force",
             "deactivate", "activate", "reset"}

Stages == {"idle", "issue", "store", "endDevice", "startSession",
           "revokeOld", "reload", "blacklist", "revokeOne", "endAll",
           "save", "revokeAll"}

Token == [user: Users, iat: Nat]

\* era counts the account's changes that are to revoke all its tokens: a new
\* password, a reset, a deactivation.  temporary is history: the password in
\* force was set by an administrator, alone or while another change of the
\* account was under way.
Account == [active: BOOLEAN, mustChange: BOOLEAN, era: Nat,
            temporary: {"no", "yes", "raced"}]

\* era and survivor are history: the account's era when the client logged in,
\* and whether the token passed a mass revocation in a request in flight.
TokenDoc == [expires: Nat, revoked: BOOLEAN, era: Nat, survivor: BOOLEAN]

\* A key of Redis with the second at which it expires.
Ban == [tok: Token, until: Nat]

Session == [user: Users, device: Devices, active: BOOLEAN]

Request ==
    [kind: AllKinds, stage: Stages, user: Users, era: Nat, must: BOOLEAN,
     tok: Token \union {None}, acc: Token \union {None}, ttl: Nat,
     mint: Token \union {None}, device: Devices \union {None},
     survivor: BOOLEAN]

ASSUME AuthAssumption ==
    /\ Kinds \subseteq AllKinds
    /\ RefreshTTL \in Nat \ {0} /\ AccessTTL \in Nat
    /\ IsFiniteSet(Reqs) /\ IsFiniteSet(SessionIds)
    /\ MaxTime \in Nat /\ MaxEras \in Nat
    /\ FirstLogins \subseteq BOOLEAN /\ FirstLogins # {}
    /\ Outages \in BOOLEAN
    /\ None \notin Token \union TokenDoc \union Session \union Request
    /\ None \notin Devices

VARIABLES
    now,        \* the second
    acct,       \* the users collection
    stored,     \* the refresh_tokens collection, by token
    sessions,   \* the sessions collection
    blacklist,  \* Redis: the keys of blacklisted access tokens
    client,     \* the connection to Redis: "up", "down" while the client
                \* retries, "ended" once it has given up
    access,     \* access tokens clients have been given
    refresh,    \* refresh tokens clients have been given
    owed,       \* history: accounts whose era changed and whose tokens have
                \* not been revoked since
    req         \* requests in flight

vars == <<now, acct, stored, sessions, blacklist, client, access, refresh,
          owed, req>>

db == <<acct, stored, sessions, owed>>
clients == <<access, refresh>>
redis == <<blacklist, client>>

TypeOK ==
    /\ now \in 0..MaxTime
    /\ acct \in [Users -> Account]
    /\ DOMAIN stored \subseteq Token
    /\ \A t \in DOMAIN stored : stored[t] \in TokenDoc
    /\ sessions \in [SessionIds -> Session \union {None}]
    /\ blacklist \subseteq Ban /\ client \in {"up", "down", "ended"}
    /\ access \subseteq Token /\ refresh \subseteq Token
    /\ owed \subseteq Users
    /\ req \in [Reqs -> Request \union {None}]

-----------------------------------------------------------------------------
(* The collections. *)

Live(t) == t \in DOMAIN stored /\ ~stored[t].revoked

\* updateMany({userId}, {isRevoked: true})
\* Mutant: the filter picks the expired tokens instead of all of them.
RevokedExpiredFor(u) ==
    [t \in DOMAIN stored |->
        IF t.user = u /\ stored[t].expires <= now
        THEN [stored[t] EXCEPT !.revoked = TRUE] ELSE stored[t]]

RevokedFor(u) ==
    [t \in DOMAIN stored |->
        IF t.user = u THEN [stored[t] EXCEPT !.revoked = TRUE] ELSE stored[t]]

\* updateMany on the active sessions that match
Ended(S) ==
    [s \in SessionIds |->
        IF s \in S THEN [sessions[s] EXCEPT !.active = FALSE] ELSE sessions[s]]

SessionsOf(u) == {s \in SessionIds : sessions[s] # None /\ sessions[s].user = u}

SessionsOn(u, d) == {s \in SessionsOf(u) : sessions[s].device = d}

AccessExpired(t) == now >= t.iat + AccessTTL

Blacklisted(t) == \E b \in blacklist : b.tok = t

\* JwtAuthGuard and JwtStrategy: signature, expiry, blacklist.  The user
\* record is not read.  While the client retries, the look-up waits in its
\* queue; once it has given up, the look-up fails and the request with it.
Accepted(t) ==
    /\ t \in access
    /\ ~AccessExpired(t)
    /\ client = "up"
    /\ ~Blacklisted(t)

Init ==
    /\ now = 0
    /\ \E first \in FirstLogins :
          acct = [u \in Users |->
                    [active |-> TRUE, mustChange |-> first, era |-> 0,
                     temporary |-> IF first THEN "yes" ELSE "no"]]
    /\ stored = [t \in {} |-> None]
    /\ sessions = [s \in SessionIds |-> None]
    /\ blacklist = {} /\ client = "up"
    /\ access = {} /\ refresh = {}
    /\ owed = {}
    /\ req = [r \in Reqs |-> None]

-----------------------------------------------------------------------------
(* Requests. *)

Start(r, kind, stage, u) ==
    [kind |-> kind, stage |-> stage, user |-> u, era |-> acct[u].era,
     must |-> acct[u].mustChange, tok |-> None, acc |-> None, ttl |-> 0,
     mint |-> None, device |-> None, survivor |-> FALSE]

Idle(r, kind) == req[r] = None /\ kind \in Kinds

At(r, stage) == req[r] # None /\ req[r].stage = stage

Become(r, q) == req' = [req EXCEPT ![r] = q]
Goto(r, stage) == req' = [req EXCEPT ![r].stage = stage]
Finish(r) == req' = [req EXCEPT ![r] = None]

\* The client receives both tokens of a pair.
Return(t) == access' = access \union {t} /\ refresh' = refresh \union {t}

(* login and certificateLogin: the account is read, its flag and credential *)
(* are checked on that copy, and tokens are signed later.                  *)
FindForLogin(r, u) ==
    /\ Idle(r, "login")
    /\ acct[u].active
    /\ Become(r, Start(r, "login", "issue", u))
    /\ UNCHANGED <<now, db, redis, clients>>

FindForCertificateLogin(r, u, d) ==
    /\ Idle(r, "certificate")
    /\ acct[u].active
    /\ Become(r, [Start(r, "certificate", "issue", u) EXCEPT !.device = d])
    /\ UNCHANGED <<now, db, redis, clients>>

\* generateTokens
Sign(r) == [user |-> req[r].user, iat |-> now]

Issue(r) ==
    /\ At(r, "issue")
    /\ \/ /\ req[r].kind # "force"
          /\ Become(r, [req[r] EXCEPT !.mint = Sign(r), !.stage = "store"])
          /\ UNCHANGED clients
       \/ \* forceChangePassword returns the pair without storing it
          /\ req[r].kind = "force"
          /\ Return(Sign(r))
          /\ Finish(r)
    /\ UNCHANGED <<now, db, redis>>

\* Mutant: the expiry setting does not parse and there is no default.
TokenWithoutExpiry(r) ==
    [expires |-> None, revoked |-> FALSE, era |-> req[r].era,
     survivor |-> req[r].survivor]

NewToken(r) ==
    [expires |-> now + RefreshTTL, revoked |-> FALSE, era |-> req[r].era,
     survivor |-> req[r].survivor]

\* Mutant: the document is upserted by its token.
UpsertRefreshToken(r) ==
    /\ At(r, "store")
    /\ stored' = [t \in DOMAIN stored \union {req[r].mint} |->
                     IF t = req[r].mint THEN NewToken(r) ELSE stored[t]]
    /\ \/ /\ req[r].kind = "certificate"
          /\ Goto(r, "endDevice")
          /\ UNCHANGED clients
       \/ /\ req[r].kind # "certificate"
          /\ Return(req[r].mint)
          /\ Finish(r)
    /\ UNCHANGED <<now, acct, sessions, owed, redis>>

\* storeRefreshToken: the unique index refuses a token that is there already.
StoreRefreshToken(r) ==
    /\ At(r, "store")
    /\ \/ /\ req[r].mint \in DOMAIN stored
          /\ Finish(r)
          /\ UNCHANGED <<stored, clients>>
       \/ /\ req[r].mint \notin DOMAIN stored
          /\ stored' = [t \in DOMAIN stored \union {req[r].mint} |->
                          IF t = req[r].mint THEN NewToken(r) ELSE stored[t]]
          /\ \/ /\ req[r].kind = "certificate"
                /\ Goto(r, "endDevice")
                /\ UNCHANGED clients
             \/ /\ req[r].kind # "certificate"
                /\ Return(req[r].mint)
                /\ Finish(r)
    /\ UNCHANGED <<now, acct, sessions, owed, redis>>

(* createSession: end the device's sessions, then create one. *)

\* Mutant: the sessions of the device are left as they are.
KeepDeviceSessions(r) ==
    /\ At(r, "endDevice")
    /\ Goto(r, "startSession")
    /\ UNCHANGED <<now, db, redis, clients>>

EndDeviceSessions(r) ==
    /\ At(r, "endDevice")
    /\ sessions' = Ended(SessionsOn(req[r].user, req[r].device))
    /\ Goto(r, "startSession")
    /\ UNCHANGED <<now, acct, stored, owed, redis, clients>>

StartSession(r) ==
    /\ At(r, "startSession")
    /\ \E s \in SessionIds :
          /\ sessions[s] = None
          /\ sessions' = [sessions EXCEPT ![s] =
                [user |-> req[r].user, device |-> req[r].device,
                 active |-> TRUE]]
    /\ Return(req[r].mint)
    /\ Finish(r)
    /\ UNCHANGED <<now, acct, stored, owed, redis>>

(* refreshTokens: find the document, revoke it, reload the user, issue. *)
FindForRefresh(r, t) ==
    /\ Idle(r, "refresh")
    /\ t \in refresh
    /\ Live(t)
    /\ now <= stored[t].expires
    /\ Become(r, [Start(r, "refresh", "revokeOld", t.user) EXCEPT
                    !.tok = t, !.era = stored[t].era,
                    !.survivor = stored[t].survivor])
    /\ UNCHANGED <<now, db, redis, clients>>

\* Mutant: the assignment is not saved.
RevokeOldInMemory(r) ==
    /\ At(r, "revokeOld")
    /\ Goto(r, "reload")
    /\ UNCHANGED <<now, db, redis, clients>>

\* save() of a document the TTL monitor has removed meanwhile fails.
RevokeOld(r) ==
    /\ At(r, "revokeOld")
    /\ \/ /\ req[r].tok \in DOMAIN stored
          /\ stored' = [stored EXCEPT ![req[r].tok].revoked = TRUE]
          /\ Goto(r, "reload")
       \/ /\ req[r].tok \notin DOMAIN stored
          /\ Finish(r)
          /\ UNCHANGED stored
    /\ UNCHANGED <<now, acct, sessions, owed, redis, clients>>

ReloadUser(r) ==
    /\ At(r, "reload")
    /\ \/ acct[req[r].user].active /\ Goto(r, "issue")
       \/ ~acct[req[r].user].active /\ Finish(r)
    /\ UNCHANGED <<now, db, redis, clients>>

(* logout: blacklist, revoke, end sessions.  The time to live is computed   *)
(* when the request arrives; the key is set when Redis gets it.             *)

\* Mutant: the remaining time is rounded down once too often.
TimeToLiveShort(a) ==
    IF AccessExpired(a) THEN 0 ELSE a.iat + AccessTTL - now - 1

\* decoded.exp - now
TimeToLive(a) ==
    IF AccessExpired(a) THEN 0 ELSE a.iat + AccessTTL - now

StartLogout(r, a, t) ==
    /\ Idle(r, "logout")
    /\ Accepted(a)
    /\ t \in refresh \union {None}
    /\ Become(r, [Start(r, "logout", "blacklist", a.user) EXCEPT
                    !.acc = a, !.tok = t, !.ttl = TimeToLive(a)])
    /\ UNCHANGED <<now, db, redis, clients>>

\* setex with the token as its key
BlacklistFor(a, ttl) ==
    IF ttl > 0 THEN blacklist \union {[tok |-> a, until |-> now + ttl]}
    ELSE blacklist

\* Mutant: the client does not queue commands, so that a lost connection is
\* an error, which is caught.
BlacklistOrSkip(r) ==
    /\ At(r, "blacklist")
    /\ blacklist' = IF client = "up" THEN BlacklistFor(req[r].acc, req[r].ttl)
                    ELSE blacklist
    /\ Goto(r, "revokeOne")
    /\ UNCHANGED <<now, db, client, clients>>

\* The command waits while the client retries.  Once the client has given up
\* it fails, the error is caught, and the logout goes on.
Blacklist(r) ==
    /\ At(r, "blacklist")
    /\ \/ /\ client = "up"
          /\ blacklist' = BlacklistFor(req[r].acc, req[r].ttl)
       \/ /\ client = "ended"
          /\ UNCHANGED blacklist
    /\ Goto(r, "revokeOne")
    /\ UNCHANGED <<now, db, client, clients>>

RevokeOne(r) ==
    /\ At(r, "revokeOne")
    /\ stored' = IF req[r].tok \in DOMAIN stored
                 THEN [stored EXCEPT ![req[r].tok].revoked = TRUE] ELSE stored
    /\ Goto(r, "endAll")
    /\ UNCHANGED <<now, acct, sessions, owed, redis, clients>>

EndAllUserSessions(r) ==
    /\ At(r, "endAll")
    /\ sessions' = Ended(SessionsOf(req[r].user))
    /\ Finish(r)
    /\ UNCHANGED <<now, acct, stored, owed, redis, clients>>

(* changePassword and forceChangePassword: the current password is compared *)
(* with the copy that was read; the new one is written by _id.              *)
FindForChange(r, a, kind) ==
    /\ Idle(r, kind)
    /\ kind \in {"change", "force"}
    /\ Accepted(a)
    /\ kind = "force" => acct[a.user].mustChange
    /\ acct[a.user].era < MaxEras
    /\ Become(r, Start(r, kind, "save", a.user))
    /\ UNCHANGED <<now, db, redis, clients>>

(* resetPassword by an administrator: the document is read first, and save() *)
(* writes mustChangePassword only if the copy says false.                  *)
FindForReset(r, u) ==
    /\ Idle(r, "reset")
    /\ acct[u].era < MaxEras
    /\ Become(r, Start(r, "reset", "save", u))
    /\ UNCHANGED <<now, db, redis, clients>>

\* Mutant: the reset stores its hash through updatePassword.
ResetThroughUpdate(a, q) ==
    [a EXCEPT !.era = @ + 1, !.mustChange = FALSE,
              !.temporary = IF q.kind = "reset" THEN "yes" ELSE "no"]

Updated(a, q) ==
    CASE q.kind \in {"change", "force"} ->
            [a EXCEPT !.era = @ + 1, !.mustChange = FALSE, !.temporary = "no"]
      [] q.kind = "reset" ->
            [a EXCEPT !.era = @ + 1,
                      !.mustChange = IF q.must THEN @ ELSE TRUE,
                      !.temporary = IF a.era = q.era THEN "yes" ELSE "raced"]

SaveAccount(r) ==
    /\ At(r, "save")
    /\ acct' = [acct EXCEPT ![req[r].user] = Updated(@, req[r])]
    /\ owed' = owed \union {req[r].user}
    /\ Goto(r, "revokeAll")
    /\ UNCHANGED <<now, stored, sessions, redis, clients>>

\* deactivateUser writes the flag by _id without reading the document.
DeactivateUser(r, u) ==
    /\ Idle(r, "deactivate")
    /\ acct[u].era < MaxEras
    /\ acct' = [acct EXCEPT ![u].active = FALSE, ![u].era = @ + 1]
    /\ owed' = owed \union {u}
    /\ Become(r, Start(r, "deactivate", "revokeAll", u))
    /\ UNCHANGED <<now, stored, sessions, redis, clients>>

\* The requests in flight for u outlive the revocation: history.
Outlive(q, u) ==
    IF q # None /\ q.user = u THEN [q EXCEPT !.survivor = TRUE] ELSE q

AfterRevocation(q) ==
    IF q.kind = "force" THEN [q EXCEPT !.stage = "issue"] ELSE None

RevokeAll(r) ==
    /\ At(r, "revokeAll")
    /\ stored' = RevokedFor(req[r].user)
    /\ owed' = owed \ {req[r].user}
    /\ req' = [q \in Reqs |-> IF q = r THEN AfterRevocation(req[r])
                              ELSE Outlive(req[q], req[r].user)]
    /\ UNCHANGED <<now, acct, sessions, redis, clients>>

(* activateUser, and updateUser with isActive: one write, no revocation. *)
SetActive(u, flag) ==
    /\ "activate" \in Kinds
    /\ acct[u].active # flag
    /\ acct' = [acct EXCEPT ![u].active = flag]
    /\ UNCHANGED <<now, stored, sessions, owed, redis, clients, req>>

(* The environment: time, the TTL monitor, Redis, the process. *)
Tick ==
    /\ now < MaxTime
    /\ now' = now + 1
    /\ UNCHANGED <<db, redis, clients, req>>

\* A token outlives (by days) the request that signed it, so no request still
\* has to store the token that is purged.
PurgeExpired(t) ==
    /\ t \in DOMAIN stored
    /\ stored[t].expires <= now
    /\ \A r \in Reqs : req[r] # None => req[r].mint # t
    /\ stored' = [u \in DOMAIN stored \ {t} |-> stored[u]]
    /\ UNCHANGED <<now, acct, sessions, owed, redis, clients, req>>

\* Redis drops a key when its time is up.
KeyExpires(b) ==
    /\ now >= b.until
    /\ blacklist' = blacklist \ {b}
    /\ UNCHANGED <<now, db, client, clients, req>>

(* retryStrategy: five attempts, then the client is over for the life of    *)
(* the process.                                                             *)
RedisFails ==
    /\ Outages
    /\ client = "up"
    /\ client' = "down"
    /\ UNCHANGED <<now, db, blacklist, clients, req>>

RedisRecovers ==
    /\ client = "down"
    /\ client' = "up"
    /\ UNCHANGED <<now, db, blacklist, clients, req>>

RedisGivesUp ==
    /\ client = "down"
    /\ client' = "ended"
    /\ UNCHANGED <<now, db, blacklist, clients, req>>

\* A new process has a new client, which connects or starts to retry.
Restart ==
    /\ client = "ended" \/ \E r \in Reqs : req[r] # None
    /\ req' = [r \in Reqs |-> None]
    /\ client' \in {"up"} \union (IF Outages THEN {"down"} ELSE {})
    /\ UNCHANGED <<now, db, blacklist, clients>>

-----------------------------------------------------------------------------
Login(r) ==
    \/ \E u \in Users : FindForLogin(r, u)
    \/ \E u \in Users, d \in Devices : FindForCertificateLogin(r, u, d)
    \/ Issue(r)
    \/ StoreRefreshToken(r)
    \/ EndDeviceSessions(r)
    \/ StartSession(r)

RefreshTokens(r) ==
    \/ \E t \in refresh : FindForRefresh(r, t)
    \/ RevokeOld(r)
    \/ ReloadUser(r)

Logout(r) ==
    \/ \E a \in access, t \in refresh \union {None} : StartLogout(r, a, t)
    \/ Blacklist(r)
    \/ RevokeOne(r)
    \/ EndAllUserSessions(r)

Manage(r) ==
    \/ \E a \in access, kind \in {"change", "force"} : FindForChange(r, a, kind)
    \/ \E u \in Users : FindForReset(r, u) \/ DeactivateUser(r, u)
    \/ SaveAccount(r)
    \/ RevokeAll(r)

Environment ==
    \/ \E u \in Users, flag \in BOOLEAN : SetActive(u, flag)
    \/ Tick
    \/ \E t \in DOMAIN stored : PurgeExpired(t)
    \/ \E b \in blacklist : KeyExpires(b)
    \/ RedisFails
    \/ RedisRecovers
    \/ RedisGivesUp
    \/ Restart

Next ==
    \/ \E r \in Reqs : Login(r) \/ RefreshTokens(r) \/ Logout(r) \/ Manage(r)
    \/ Environment

Spec == Init /\ [][Next]_vars

-----------------------------------------------------------------------------
(* Properties. *)

\* A refresh token that is still live and dates from before the account's last
\* new password, reset or deactivation was in the hands of a request in flight
\* during the revocation (or descends from such a token), or the revocation is
\* still owed because the request that owes it is under way or has died.
StaleOnlyIfInFlight ==
    \A t \in DOMAIN stored :
        Live(t) /\ stored[t].era # acct[t.user].era
            => stored[t].survivor \/ t.user \in owed

\* Rotation consumes before it produces: once a refresh has signed a new pair,
\* the token it was given is revoked, so a crash, a refused insert or a racing
\* logout never leaves the client with two usable tokens from one exchange.
RotationConsumesFirst ==
    \A r \in Reqs :
        req[r] # None /\ req[r].kind = "refresh" /\ req[r].mint # None
            => ~Live(req[r].tok)

\* A revoked refresh token is never live again, whatever stale document is
\* saved over it, and a token's record is never replaced by a second one.
RevocationIsFinal ==
    [][\A t \in DOMAIN stored :
          stored[t].revoked /\ t \in DOMAIN stored' => stored'[t].revoked]_vars

\* An access token that its owner has logged out is refused until it expires,
\* by the clock JwtStrategy uses and not by Redis's: the key lives exactly as
\* long as the token.
LoggedOutStaysOut ==
    [][\A b \in blacklist : ~Accepted(b.tok)']_vars

\* "Revokes the refresh token, blacklists the access token": once a logout has
\* answered, neither token works for as long as the process lives, whether
\* Redis answered, came back late, or was given up half-way.
LogoutRevokes ==
    [][\A r \in Reqs, a \in access, t \in refresh \union {None} :
          EndAllUserSessions(r) /\ req[r].acc = a /\ req[r].tok = t
              => ~Accepted(a)' /\ ~Live(t)']_vars

\* A password that an administrator has set has to be changed at the next
\* login, unless another change of the account overlapped the reset: then the
\* save leaves out the flag its stale copy had, and the flag may be gone.
TemporaryMustChange ==
    \A u \in Users : acct[u].temporary = "yes" => acct[u].mustChange

\* A device has no more active sessions of a user than logins can overlap:
\* every login ends what it finds, so only logins that were in flight together
\* leave a session each, and sessions never pile up over time.
SessionsPerDevice ==
    \A u \in Users, d \in Devices :
        Cardinality({s \in SessionsOn(u, d) : sessions[s].active})
            + Cardinality({r \in Reqs : At(r, "startSession")
                                          /\ req[r].user = u /\ req[r].device = d})
            <= Cardinality(Reqs)

\* "Password changed, new tokens issued": a refresh token a client has been
\* given has been stored, so that it can be exchanged until it expires.
ReturnedTokensAreStored ==
    \A t \in refresh : t \in DOMAIN stored \/ now >= t.iat + RefreshTTL
=============================================================================
