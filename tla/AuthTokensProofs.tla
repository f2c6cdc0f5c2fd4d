-------------------------- MODULE AuthTokensProofs --------------------------
(***************************************************************************)
(* Tokens, for any number of users, devices and requests and any lifetime. *)
(*                                                                         *)
(* The properties look at the collections, and what would break them is a  *)
(* request that read them before another one wrote.  The invariant follows *)
(* each request: an era it has copied is the account's, or is forgiven; a  *)
(* token it has consumed can never be live again; a flag it will leave out *)
(* is the account's; what it has logged out is refused.                    *)
(***************************************************************************)
EXTENDS AuthTokensRefinement, FiniteSetTheorems, TLAPS

Issuers == {"login", "certificate", "refresh"}

\* What a request has in hand at its stage.
Carries(q) ==
    /\ q.kind \in Kinds
    /\ q.kind = "certificate" => q.device \in Devices
    /\ q.kind = "refresh" => q.tok \in Token
    /\ q.kind = "logout" => q.acc \in Token
    /\ q.stage \in {"endDevice", "startSession"} => q.kind = "certificate"
    /\ q.stage \in {"store", "endDevice", "startSession"} =>
          q.kind \in Issuers /\ q.mint \in Token
    /\ q.stage \notin {"store", "endDevice", "startSession"} => q.mint = None
    /\ q.stage = "issue" => q.kind \in Issuers \union {"force"}
    /\ q.stage \in {"revokeOld", "reload"} => q.kind = "refresh"
    /\ q.stage \in {"blacklist", "revokeOne", "endAll"} => q.kind = "logout"
    /\ q.stage = "save" => q.kind \in {"change", "force", "reset"}
    /\ q.stage = "revokeAll" => q.kind \in {"change", "force", "reset", "deactivate"}

\* A token t that is not live and never will be again.
Spent(t) ==
    \/ t \in DOMAIN stored /\ stored[t].revoked
    \/ t \notin DOMAIN stored /\ t.iat < now /\ \A r \in Reqs : req[r] # None => req[r].mint # t

Known(t) == t \in DOMAIN stored \/ Spent(t)

\* What a request may rely on.
ConsumedFirst(q) ==
    q.kind = "refresh" /\ q.stage # "revokeOld" => Spent(q.tok)

EraIsCurrent(q) ==
    q.kind \in Issuers /\ q.era # acct[q.user].era => q.survivor \/ q.user \in owed

FlagIsCurrent(q) ==
    q.stage = "save" =>
        /\ q.era <= acct[q.user].era
        /\ q.era = acct[q.user].era => q.must = acct[q.user].mustChange

MintIsOwn(q) == q.mint # None => q.mint.user = q.user /\ q.mint.iat <= now

Refused(t) == client = "ended" \/ AccessExpired(t) \/ Blacklisted(t)

LoggingOut(q) ==
    /\ q.stage = "blacklist" => q.acc.iat + AccessTTL <= now + q.ttl
    /\ q.stage \in {"revokeOne", "endAll"} => Refused(q.acc)

\* What it will return, and what it was given to revoke.
Exchanges(q) ==
    /\ q.stage \in {"endDevice", "startSession"} => Known(q.mint)
    /\ "force" \notin Kinds =>
          /\ q.stage \in {"blacklist", "revokeOne"} => q.tok = None \/ Known(q.tok)
          /\ q.stage = "endAll" => q.tok = None \/ Spent(q.tok)

Fits(q) ==
    /\ Carries(q) /\ ConsumedFirst(q) /\ EraIsCurrent(q) /\ FlagIsCurrent(q)
    /\ MintIsOwn(q) /\ LoggingOut(q) /\ Exchanges(q)

RequestsFit == \A r \in Reqs : req[r] # None => Fits(req[r])

StoredIsPast == \A t \in DOMAIN stored : t.iat <= now /\ t.iat < stored[t].expires

\* forceChangePassword hands out refresh tokens that are stored nowhere.
GivenAreKnown == "force" \notin Kinds => \A t \in refresh : Known(t)

BansLast == \A b \in blacklist : b.tok.iat + AccessTTL <= b.until

IInv ==
    /\ TypeOK
    /\ RequestsFit
    /\ StoredIsPast
    /\ BansLast
    /\ GivenAreKnown
    /\ StaleOnlyIfInFlight
    /\ TemporaryMustChange

LEMMA InitHolds == Init => IInv
BY AuthAssumption
DEF Init, IInv, TypeOK, Account, RequestsFit, StoredIsPast, BansLast, GivenAreKnown,
    StaleOnlyIfInFlight, TemporaryMustChange

-----------------------------------------------------------------------------
(* Types. *)

LEMMA TypeOfStart ==
    ASSUME TypeOK, NEW r \in Reqs, NEW kind \in AllKinds, NEW stage \in Stages,
           NEW u \in Users
    PROVE  /\ Start(r, kind, stage, u) \in Request
           /\ Start(r, kind, stage, u).kind = kind
           /\ Start(r, kind, stage, u).stage = stage
           /\ Start(r, kind, stage, u).user = u
           /\ Start(r, kind, stage, u).era = acct[u].era
           /\ Start(r, kind, stage, u).must = acct[u].mustChange
           /\ Start(r, kind, stage, u).mint = None
BY DEF TypeOK, Start, Request, Account

\* The request of r is well typed and may rely on what it should.
LEMMA InHand ==
    ASSUME IInv, NEW r \in Reqs, NEW stage, At(r, stage)
    PROVE  req[r] # None /\ req[r] \in Request /\ req[r].stage = stage /\ Fits(req[r])
BY DEF IInv, TypeOK, RequestsFit, At

LEMMA StageType ==
    ASSUME NEW q \in Request, NEW stage \in Stages
    PROVE  [q EXCEPT !.stage = stage] \in Request
BY DEF Request

LEMMA StageIs ==
    ASSUME NEW q \in Request, NEW stage \in Stages, NEW p, p = [q EXCEPT !.stage = stage]
    PROVE  /\ p \in Request /\ p.stage = stage
           /\ p.kind = q.kind /\ p.user = q.user /\ p.era = q.era /\ p.must = q.must
           /\ p.tok = q.tok /\ p.acc = q.acc /\ p.ttl = q.ttl /\ p.mint = q.mint
           /\ p.device = q.device /\ p.survivor = q.survivor
BY DEF Request

LEMMA TypeOfSign ==
    ASSUME IInv, NEW r \in Reqs, At(r, "issue")
    PROVE  Sign(r) \in Token /\ Sign(r).iat = now
BY InHand DEF Sign, Token, Request, IInv, TypeOK

LEMMA TypeOfEnded ==
    ASSUME TypeOK, NEW S, \A s \in S : sessions[s] # None
    PROVE  Ended(S) \in [SessionIds -> Session \union {None}]
<1>1. ASSUME NEW s \in SessionIds
      PROVE  (IF s \in S THEN [sessions[s] EXCEPT !.active = FALSE] ELSE sessions[s])
                \in Session \union {None}
  <2>1. CASE s \in S
    <3>1. sessions[s] \in Session
      BY <2>1 DEF TypeOK
    <3>. QED BY <2>1, <3>1 DEF Session
  <2>2. CASE s \notin S
    BY <2>2 DEF TypeOK
  <2>. QED BY <2>1, <2>2
<1>. QED BY <1>1 DEF Ended

\* Revoking a document keeps its type.
LEMMA TypeOfRevoked ==
    ASSUME NEW d \in TokenDoc
    PROVE  [d EXCEPT !.revoked = TRUE] \in TokenDoc
BY DEF TokenDoc

\* Logging in and refreshing keep types.
LEMMA LoginTypes ==
    ASSUME IInv, NEW r \in Reqs, Login(r) \/ RefreshTokens(r)
    PROVE  TypeOK'
<1>. USE DEF IInv
<1>1. ASSUME NEW u \in Users, FindForLogin(r, u) PROVE TypeOK'
  <2>1. Start(r, "login", "issue", u) \in Request
    BY TypeOfStart DEF AllKinds, Stages
  <2>. QED BY <1>1, <2>1 DEF FindForLogin, Become, TypeOK, db, redis, clients
<1>2. ASSUME NEW u \in Users, NEW d \in Devices, FindForCertificateLogin(r, u, d)
      PROVE  TypeOK'
  <2>1. Start(r, "certificate", "issue", u) \in Request
    BY TypeOfStart DEF AllKinds, Stages
  <2>2. [Start(r, "certificate", "issue", u) EXCEPT !.device = d] \in Request
    BY <2>1 DEF Request
  <2>. QED BY <1>2, <2>2 DEF FindForCertificateLogin, Become, TypeOK, db, redis, clients
<1>3. CASE Issue(r)
  <2>1. Sign(r) \in Token /\ req[r] \in Request
    BY <1>3, TypeOfSign, InHand DEF Issue
  <2>2. [req[r] EXCEPT !.mint = Sign(r), !.stage = "store"] \in Request
    BY <2>1 DEF Request, Stages
  <2>. QED
    BY <1>3, <2>1, <2>2 DEF Issue, Become, Finish, Return, TypeOK, db, redis, clients
<1>4. CASE StoreRefreshToken(r)
  <2>1. req[r] \in Request /\ req[r].mint \in Token
    BY <1>4, InHand DEF StoreRefreshToken, Fits, Carries
  <2>2. NewToken(r) \in TokenDoc
    BY <2>1, AuthAssumption DEF NewToken, TokenDoc, Request, TypeOK
  <2>3. req' \in [Reqs -> Request \union {None}]
    <3>1. [req[r] EXCEPT !.stage = "endDevice"] \in Request
      BY <2>1, StageType DEF Stages
    <3>. QED BY <1>4, <3>1 DEF StoreRefreshToken, Goto, Finish, TypeOK
  <2>4. access' \subseteq Token /\ refresh' \subseteq Token
    BY <1>4, <2>1 DEF StoreRefreshToken, Return, clients, TypeOK
  <2>5. /\ DOMAIN stored' \subseteq Token
        /\ \A t \in DOMAIN stored' : stored'[t] \in TokenDoc
    BY <1>4, <2>1, <2>2 DEF StoreRefreshToken, TypeOK
  <2>. QED BY <1>4, <2>3, <2>4, <2>5 DEF StoreRefreshToken, redis, TypeOK
<1>5. CASE EndDeviceSessions(r)
  <2>1. [req[r] EXCEPT !.stage = "startSession"] \in Request
    BY <1>5, InHand, StageType DEF EndDeviceSessions, Stages
  <2>2. sessions' \in [SessionIds -> Session \union {None}]
    BY <1>5, TypeOfEnded DEF EndDeviceSessions, SessionsOn, SessionsOf
  <2>. QED
    BY <1>5, <2>1, <2>2 DEF EndDeviceSessions, Goto, TypeOK, redis, clients
<1>6. CASE StartSession(r)
  <2>1. req[r] \in Request /\ req[r].mint \in Token /\ req[r].device \in Devices
    BY <1>6, InHand DEF StartSession, Fits, Carries
  <2>2. [user |-> req[r].user, device |-> req[r].device, active |-> TRUE] \in Session
    BY <2>1 DEF Session, Request
  <2>. QED
    BY <1>6, <2>1, <2>2 DEF StartSession, Return, Finish, TypeOK, redis
<1>7. ASSUME NEW t \in refresh, FindForRefresh(r, t) PROVE TypeOK'
  <2>1. t \in Token /\ stored[t] \in TokenDoc
    BY <1>7 DEF FindForRefresh, Live, TypeOK
  <2>2. Start(r, "refresh", "revokeOld", t.user) \in Request
    BY <2>1, TypeOfStart DEF AllKinds, Stages, Token
  <2>3. [Start(r, "refresh", "revokeOld", t.user) EXCEPT
           !.tok = t, !.era = stored[t].era, !.survivor = stored[t].survivor] \in Request
    BY <2>1, <2>2 DEF Request, TokenDoc
  <2>. QED BY <1>7, <2>3 DEF FindForRefresh, Become, TypeOK, db, redis, clients
<1>8. CASE RevokeOld(r)
  <2>1. [req[r] EXCEPT !.stage = "reload"] \in Request
    BY <1>8, InHand, StageType DEF RevokeOld, Stages
  <2>2. /\ DOMAIN stored' \subseteq Token
        /\ \A t \in DOMAIN stored' : stored'[t] \in TokenDoc
    BY <1>8, TypeOfRevoked DEF RevokeOld, TypeOK
  <2>. QED
    BY <1>8, <2>1, <2>2 DEF RevokeOld, Goto, Finish, TypeOK, redis, clients
<1>9. CASE ReloadUser(r)
  <2>1. [req[r] EXCEPT !.stage = "issue"] \in Request
    BY <1>9, InHand, StageType DEF ReloadUser, Stages
  <2>. QED
    BY <1>9, <2>1 DEF ReloadUser, Goto, Finish, TypeOK, db, redis, clients
<1>. QED
  BY <1>1, <1>2, <1>3, <1>4, <1>5, <1>6, <1>7, <1>8, <1>9 DEF Login, RefreshTokens

\* So do logging out and administration.
LEMMA LogoutTypes ==
    ASSUME IInv, NEW r \in Reqs, Logout(r)
    PROVE  TypeOK'
<1>. USE DEF IInv
<1>1. ASSUME NEW a \in access, NEW t \in refresh \union {None}, StartLogout(r, a, t)
      PROVE  TypeOK'
  <2>1. a \in Token /\ t \in Token \union {None} /\ ~AccessExpired(a)
    BY <1>1 DEF StartLogout, Accepted, TypeOK
  <2>2. Start(r, "logout", "blacklist", a.user) \in Request
    BY <2>1, TypeOfStart DEF AllKinds, Stages, Token
  <2>3. TimeToLive(a) \in Nat
    BY <2>1, AuthAssumption DEF TimeToLive, AccessExpired, Token, TypeOK
  <2>4. [Start(r, "logout", "blacklist", a.user) EXCEPT
           !.acc = a, !.tok = t, !.ttl = TimeToLive(a)] \in Request
    BY <2>1, <2>2, <2>3 DEF Request
  <2>. QED BY <1>1, <2>4 DEF StartLogout, Become, TypeOK, db, redis, clients
<1>2. CASE Blacklist(r)
  <2>1. [req[r] EXCEPT !.stage = "revokeOne"] \in Request
    BY <1>2, InHand, StageType DEF Blacklist, Stages
  <2>2. req[r].acc \in Token /\ req[r].ttl \in Nat
    BY <1>2, InHand DEF Blacklist, Fits, Carries, Request
  <2>3. blacklist' \subseteq Ban
    BY <1>2, <2>2 DEF Blacklist, BlacklistFor, Ban, TypeOK
  <2>. QED BY <1>2, <2>1, <2>3 DEF Blacklist, Goto, TypeOK, db, clients
<1>3. CASE RevokeOne(r)
  <2>1. [req[r] EXCEPT !.stage = "endAll"] \in Request
    BY <1>3, InHand, StageType DEF RevokeOne, Stages
  <2>2. /\ DOMAIN stored' \subseteq Token
        /\ \A t \in DOMAIN stored' : stored'[t] \in TokenDoc
    BY <1>3, TypeOfRevoked DEF RevokeOne, TypeOK
  <2>. QED BY <1>3, <2>1, <2>2 DEF RevokeOne, Goto, TypeOK, redis, clients
<1>4. CASE EndAllUserSessions(r)
  <2>1. sessions' \in [SessionIds -> Session \union {None}]
    BY <1>4, TypeOfEnded DEF EndAllUserSessions, SessionsOf
  <2>. QED BY <1>4, <2>1 DEF EndAllUserSessions, Finish, TypeOK, redis, clients
<1>. QED BY <1>1, <1>2, <1>3, <1>4 DEF Logout

\* The account that an account with a new era may become.
LEMMA NextAccount ==
    ASSUME NEW a \in Account, NEW flag \in BOOLEAN, NEW must \in BOOLEAN,
           NEW how \in {"no", "yes", "raced"}
    PROVE  [active |-> flag, mustChange |-> must, era |-> a.era + 1,
            temporary |-> how] \in Account
BY DEF Account

LEMMA UpdatedIs ==
    ASSUME NEW a \in Account, NEW q \in Request, q.kind \in {"change", "force", "reset"}
    PROVE  /\ Updated(a, q) \in Account
           /\ Updated(a, q).era = a.era + 1
           /\ Updated(a, q).temporary = "yes" /\ (a.era = q.era => q.must = a.mustChange)
                 => Updated(a, q).mustChange
<1>0. a.active \in BOOLEAN /\ a.mustChange \in BOOLEAN /\ q.must \in BOOLEAN
  BY DEF Account, Request
<1>1. CASE q.kind \in {"change", "force"}
  <2>1. Updated(a, q) = [a EXCEPT !.era = @ + 1, !.mustChange = FALSE, !.temporary = "no"]
    BY <1>1 DEF Updated
  <2>2. Updated(a, q) = [active |-> a.active, mustChange |-> FALSE, era |-> a.era + 1,
                         temporary |-> "no"]
    BY <2>1 DEF Account
  <2>3. Updated(a, q) \in Account
    BY <1>0, <2>2, NextAccount
  <2>. QED BY <2>2, <2>3
<1>2. CASE q.kind = "reset"
  <2>. DEFINE must == IF q.must THEN a.mustChange ELSE TRUE
              how == IF a.era = q.era THEN "yes" ELSE "raced"
  <2>1. Updated(a, q) = [a EXCEPT !.era = @ + 1, !.mustChange = must, !.temporary = how]
    BY <1>2 DEF Updated, Account
  <2>2. Updated(a, q) = [active |-> a.active, mustChange |-> must,
                         era |-> a.era + 1, temporary |-> how]
    BY <2>1 DEF Account
  <2>3. must \in BOOLEAN /\ how \in {"no", "yes", "raced"}
    BY <1>0
  <2>4. how = "yes" /\ (a.era = q.era => q.must = a.mustChange) => must
    BY <1>0
  <2>. HIDE DEF must, how
  <2>5. Updated(a, q) \in Account
    BY <1>0, <2>2, <2>3, NextAccount
  <2>. QED BY <2>2, <2>4, <2>5
<1>. QED BY <1>1, <1>2

LEMMA ManageTypes ==
    ASSUME IInv, NEW r \in Reqs, Manage(r)
    PROVE  TypeOK'
<1>. USE DEF IInv
<1>1. ASSUME NEW a \in access, NEW kind \in {"change", "force"}, FindForChange(r, a, kind)
      PROVE  TypeOK'
  <2>1. Start(r, kind, "save", a.user) \in Request
    BY TypeOfStart DEF AllKinds, Stages, Token, TypeOK
  <2>. QED BY <1>1, <2>1 DEF FindForChange, Become, TypeOK, db, redis, clients
<1>2. ASSUME NEW u \in Users, FindForReset(r, u) PROVE TypeOK'
  <2>1. Start(r, "reset", "save", u) \in Request
    BY TypeOfStart DEF AllKinds, Stages
  <2>. QED BY <1>2, <2>1 DEF FindForReset, Become, TypeOK, db, redis, clients
<1>3. ASSUME NEW u \in Users, DeactivateUser(r, u) PROVE TypeOK'
  <2>1. Start(r, "deactivate", "revokeAll", u) \in Request
    BY TypeOfStart DEF AllKinds, Stages
  <2>2. acct' \in [Users -> Account]
    <3>. DEFINE b == [active |-> FALSE, mustChange |-> acct[u].mustChange,
                      era |-> acct[u].era + 1, temporary |-> acct[u].temporary]
    <3>1. acct[u] \in Account /\ b \in Account
      BY NextAccount DEF Account, TypeOK
    <3>2. acct' = [acct EXCEPT ![u] = b]
      BY <1>3, <3>1 DEF DeactivateUser, Account, TypeOK
    <3>. HIDE DEF b
    <3>. QED BY <3>1, <3>2 DEF TypeOK
  <2>. QED BY <1>3, <2>1, <2>2 DEF DeactivateUser, Become, TypeOK, redis, clients
<1>4. CASE SaveAccount(r)
  <2>1. /\ req[r] \in Request /\ req[r].user \in Users
        /\ req[r].kind \in {"change", "force", "reset"}
    BY <1>4, InHand DEF SaveAccount, Fits, Carries, Request
  <2>2. [req[r] EXCEPT !.stage = "revokeAll"] \in Request
    BY <2>1, StageType DEF Stages
  <2>3. Updated(acct[req[r].user], req[r]) \in Account
    BY <2>1, UpdatedIs DEF TypeOK
  <2>. QED BY <1>4, <2>1, <2>2, <2>3 DEF SaveAccount, Goto, TypeOK, redis, clients
<1>5. CASE RevokeAll(r)
  <2>1. ASSUME NEW q \in Request
        PROVE  /\ [q EXCEPT !.survivor = TRUE] \in Request
               /\ [q EXCEPT !.stage = "issue"] \in Request
    BY DEF Request, Stages
  <2>2. req' \in [Reqs -> Request \union {None}]
    BY <1>5, <2>1 DEF RevokeAll, At, AfterRevocation, Outlive, TypeOK
  <2>3. /\ DOMAIN stored' \subseteq Token
        /\ \A t \in DOMAIN stored' : stored'[t] \in TokenDoc
    BY <1>5, TypeOfRevoked DEF RevokeAll, RevokedFor, TypeOK
  <2>. QED BY <1>5, <2>2, <2>3 DEF RevokeAll, TypeOK, redis, clients
<1>. QED BY <1>1, <1>2, <1>3, <1>4, <1>5 DEF Manage

LEMMA TypeStep ==
    ASSUME IInv, [Next]_vars
    PROVE  TypeOK'
<1>1. CASE Environment
  <2>1. ASSUME NEW u \in Users, NEW flag \in BOOLEAN, SetActive(u, flag) PROVE TypeOK'
    <3>1. [acct[u] EXCEPT !.active = flag] \in Account
      BY DEF Account, IInv, TypeOK
    <3>. QED BY <2>1, <3>1 DEF SetActive, IInv, TypeOK, redis, clients
  <2>2. CASE Tick
    BY <2>2, AuthAssumption DEF Tick, IInv, TypeOK, db, redis, clients
  <2>3. ASSUME NEW t \in DOMAIN stored, PurgeExpired(t) PROVE TypeOK'
    BY <2>3 DEF PurgeExpired, IInv, TypeOK, redis, clients
  <2>4. ASSUME NEW b \in blacklist, KeyExpires(b) PROVE TypeOK'
    BY <2>4 DEF KeyExpires, IInv, TypeOK, db, clients
  <2>5. CASE RedisFails \/ RedisRecovers \/ RedisGivesUp
    BY <2>5 DEF RedisFails, RedisRecovers, RedisGivesUp, IInv, TypeOK, db, clients
  <2>6. CASE Restart
    BY <2>6 DEF Restart, IInv, TypeOK, db, clients
  <2>. QED BY <1>1, <2>1, <2>2, <2>3, <2>4, <2>5, <2>6 DEF Environment
<1>2. CASE UNCHANGED vars
  BY <1>2 DEF vars, IInv, TypeOK
<1>. QED
  BY <1>1, <1>2, LoginTypes, LogoutTypes, ManageTypes DEF Next

-----------------------------------------------------------------------------
(* What a step leaves as it is. *)

\* A token is signed only now, stored only by the request that signed it,
\* never made valid again and purged only when it is past.
LEMMA SpentStays ==
    ASSUME IInv, now' \in Nat, now <= now',
           \A t \in DOMAIN stored \intersect DOMAIN stored' :
              stored[t].revoked => stored'[t].revoked,
           \A t \in DOMAIN stored \ DOMAIN stored' :
              t.iat < now' /\ \A r \in Reqs : req'[r] # None => req'[r].mint # t,
           \A t \in DOMAIN stored' \ DOMAIN stored :
              \E r \in Reqs : req[r] # None /\ req[r].mint = t,
           \A r \in Reqs : req'[r] # None =>
              \/ req'[r].mint = None
              \/ req[r] # None /\ req'[r].mint = req[r].mint
              \/ req'[r].mint.iat = now
    PROVE  \A t \in Token : (Spent(t) => Spent(t)') /\ (Known(t) => Known(t)')
<1>. SUFFICES ASSUME NEW t \in Token
              PROVE  (Spent(t) => Spent(t)') /\ (Known(t) => Known(t)')
  OBVIOUS
<1>0. now \in Nat /\ t.iat \in Nat /\ t # None
  BY AuthAssumption DEF IInv, TypeOK, Token
<1>1. ASSUME t \in DOMAIN stored, t \notin DOMAIN stored' PROVE Spent(t)'
  BY <1>1 DEF Spent
<1>2. ASSUME Spent(t) PROVE Spent(t)'
  <2>1. CASE t \in DOMAIN stored
    BY <1>1, <1>2, <2>1 DEF Spent
  <2>2. CASE t \notin DOMAIN stored
    <3>1. t.iat < now /\ \A r \in Reqs : req[r] # None => req[r].mint # t
      BY <1>2, <2>2 DEF Spent
    <3>2. t \notin DOMAIN stored' /\ t.iat < now'
      BY <1>0, <2>2, <3>1
    <3>3. ASSUME NEW r \in Reqs, req'[r] # None PROVE req'[r].mint # t
      BY <1>0, <3>1, <3>3
    <3>. QED BY <3>2, <3>3 DEF Spent
  <2>. QED BY <2>1, <2>2
<1>. QED BY <1>1, <1>2 DEF Known

\* A request that the step is not about keeps what it relies on.
LEMMA FitStays ==
    ASSUME IInv, TypeOK', now <= now',
           \A t \in Token : (Spent(t) => Spent(t)') /\ (Known(t) => Known(t)'),
           \A t \in Token : Refused(t) => Refused(t)',
           NEW q \in Request, Fits(q),
           \/ /\ acct'[q.user].era = acct[q.user].era
              /\ acct'[q.user].mustChange = acct[q.user].mustChange
           \/ acct[q.user].era < acct'[q.user].era /\ q.user \in owed',
           q.survivor \/ (q.user \in owed => q.user \in owed')
    PROVE  Fits(q)'
<1>0. /\ now \in Nat /\ now' \in Nat /\ AccessTTL \in Nat
      /\ q.user \in Users /\ q.era \in Nat /\ q.ttl \in Nat
      /\ acct[q.user].era \in Nat /\ acct'[q.user].era \in Nat
      /\ q.tok \in Token \union {None} /\ q.mint \in Token \union {None}
  BY AuthAssumption DEF IInv, TypeOK, Account, Request
<1>1. Carries(q)'
  BY DEF Fits, Carries
<1>2. ConsumedFirst(q)'
  BY DEF Fits, Carries, ConsumedFirst
<1>3. EraIsCurrent(q)'
  BY DEF Fits, EraIsCurrent
<1>4. FlagIsCurrent(q)'
  BY <1>0 DEF Fits, FlagIsCurrent
<1>5. MintIsOwn(q)'
  BY <1>0 DEF Fits, MintIsOwn, Token
<1>6. LoggingOut(q)'
  BY <1>0 DEF Fits, Carries, LoggingOut, Token
<1>7. Exchanges(q)'
  BY <1>0 DEF Fits, Carries, Exchanges
<1>. QED BY <1>1, <1>2, <1>3, <1>4, <1>5, <1>6, <1>7 DEF Fits

\* Every request fits if those that changed do.
LEMMA RequestsStayFit ==
    ASSUME IInv, TypeOK', now <= now',
           \A t \in Token : (Spent(t) => Spent(t)') /\ (Known(t) => Known(t)'),
           \A t \in Token : Refused(t) => Refused(t)',
           \A u \in Users :
              /\ u \in owed => u \in owed'
              /\ \/ /\ acct'[u].era = acct[u].era
                    /\ acct'[u].mustChange = acct[u].mustChange
                 \/ acct[u].era < acct'[u].era /\ u \in owed',
           \A r \in Reqs : req'[r] # None => req'[r] = req[r] \/ Fits(req[r])'
    PROVE  RequestsFit'
<1>. SUFFICES ASSUME NEW r \in Reqs, req'[r] # None, req'[r] = req[r]
              PROVE  Fits(req[r])'
  BY DEF RequestsFit
<1>1. PICK q : q = req[r]
  OBVIOUS
<1>2. q \in Request /\ Fits(q) /\ q.user \in Users
  BY <1>1 DEF IInv, TypeOK, RequestsFit, Request
<1>3. Fits(q)'
  BY <1>2, FitStays
<1>4. q = req'[r]
  BY <1>1
<1>. QED BY <1>3, <1>4

\* A step that moves one request and writes nothing keeps the invariant if
\* what the request relies on next is there now.
LEMMA RequestStep ==
    ASSUME IInv, TypeOK', NEW r \in Reqs, NEW q,
           UNCHANGED <<now, acct, stored, owed, blacklist, client>>,
           req' = [req EXCEPT ![r] = q],
           \/ q = None
           \/ /\ q \in Request /\ Fits(q)
              /\ \/ q.mint = None
                 \/ req[r] # None /\ q.mint = req[r].mint
                 \/ q.mint.iat = now,
           "force" \notin Kinds => \A t \in refresh' : t \in refresh \/ Known(t)
    PROVE  IInv'
<1>1. req \in [Reqs -> Request \union {None}] /\ now \in Nat /\ refresh' \subseteq Token
  BY DEF IInv, TypeOK
<1>2. \A t \in Token : (Spent(t) => Spent(t)') /\ (Known(t) => Known(t)')
  <2>1. \A s \in Reqs : req'[s] # None =>
              \/ req'[s].mint = None
              \/ req[s] # None /\ req'[s].mint = req[s].mint
              \/ req'[s].mint.iat = now
    BY <1>1
  <2>. QED BY <1>1, <2>1, SpentStays
<1>3. \A t \in Token : Refused(t) => Refused(t)'
  BY DEF Refused, AccessExpired, Blacklisted
<1>4. RequestsFit'
  <2>. SUFFICES ASSUME NEW s \in Reqs, req'[s] # None
                PROVE  Fits(req[s])'
    BY DEF RequestsFit
  <2>1. PICK p : p = req'[s]
    OBVIOUS
  <2>2. p \in Request /\ Fits(p)
    BY <1>1, <2>1 DEF IInv, RequestsFit
  <2>3. Fits(p)'
    BY <1>1, <1>2, <1>3, <2>2, FitStays
  <2>. QED BY <2>1, <2>3
<1>5. GivenAreKnown'
  BY <1>1, <1>2 DEF IInv, GivenAreKnown
<1>6. StoredIsPast' /\ BansLast' /\ StaleOnlyIfInFlight' /\ TemporaryMustChange'
  BY DEF IInv, StoredIsPast, BansLast, StaleOnlyIfInFlight, Live, TemporaryMustChange
<1>. QED BY <1>4, <1>5, <1>6 DEF IInv

-----------------------------------------------------------------------------
(* Steps of logins and refreshes. *)

LEMMA FindUserSteps ==
    ASSUME IInv, TypeOK', NEW r \in Reqs, NEW u \in Users,
           \/ FindForLogin(r, u)
           \/ \E d \in Devices : FindForCertificateLogin(r, u, d)
           \/ FindForReset(r, u)
    PROVE  IInv'
<1>. USE DEF Fits, Carries, ConsumedFirst, EraIsCurrent, FlagIsCurrent, MintIsOwn,
             LoggingOut, Exchanges, Issuers
<1>0. TypeOK /\ acct[u].era \in Nat
  BY DEF IInv, TypeOK, Account
<1>1. CASE FindForLogin(r, u)
  <2>. DEFINE q == Start(r, "login", "issue", u)
  <2>1. q \in Request /\ q.kind = "login" /\ q.stage = "issue" /\ q.user = u
        /\ q.era = acct[u].era /\ q.mint = None
    BY <1>0, TypeOfStart DEF AllKinds, Stages
  <2>2. req' = [req EXCEPT ![r] = q] /\ q.kind \in Kinds
        /\ UNCHANGED <<now, db, redis, clients>>
    BY <1>1, <2>1 DEF FindForLogin, Become, Idle
  <2>. HIDE DEF q
  <2>3. Fits(q)
    BY <2>1, <2>2
  <2>. QED BY <2>1, <2>2, <2>3, RequestStep DEF db, redis, clients
<1>2. ASSUME NEW d \in Devices, FindForCertificateLogin(r, u, d) PROVE IInv'
  <2>. DEFINE b == Start(r, "certificate", "issue", u)
              q == [b EXCEPT !.device = d]
  <2>1. b \in Request /\ b.kind = "certificate" /\ b.stage = "issue" /\ b.user = u
        /\ b.era = acct[u].era /\ b.mint = None
    BY <1>0, TypeOfStart DEF AllKinds, Stages
  <2>2. req' = [req EXCEPT ![r] = q] /\ b.kind \in Kinds
        /\ UNCHANGED <<now, db, redis, clients>>
    BY <1>2, <2>1 DEF FindForCertificateLogin, Become, Idle
  <2>. HIDE DEF b
  <2>3. q \in Request /\ q.kind = "certificate" /\ q.stage = "issue" /\ q.user = u
        /\ q.era = acct[u].era /\ q.mint = None /\ q.device = d
    BY <2>1 DEF Request
  <2>. HIDE DEF q
  <2>4. Fits(q)
    BY <2>1, <2>2, <2>3
  <2>. QED BY <2>2, <2>3, <2>4, RequestStep DEF db, redis, clients
<1>3. CASE FindForReset(r, u)
  <2>. DEFINE q == Start(r, "reset", "save", u)
  <2>1. q \in Request /\ q.kind = "reset" /\ q.stage = "save" /\ q.user = u
        /\ q.era = acct[u].era /\ q.must = acct[u].mustChange /\ q.mint = None
    BY <1>0, TypeOfStart DEF AllKinds, Stages
  <2>2. req' = [req EXCEPT ![r] = q] /\ q.kind \in Kinds
        /\ UNCHANGED <<now, db, redis, clients>>
    BY <1>3, <2>1 DEF FindForReset, Become, Idle
  <2>. HIDE DEF q
  <2>3. Fits(q)
    BY <1>0, <2>1, <2>2
  <2>. QED BY <2>1, <2>2, <2>3, RequestStep DEF db, redis, clients
<1>. QED BY <1>1, <1>2, <1>3

LEMMA FindForChangeStep ==
    ASSUME IInv, TypeOK', NEW r \in Reqs, NEW a \in access,
           NEW kind \in {"change", "force"}, FindForChange(r, a, kind)
    PROVE  IInv'
<1>. DEFINE q == Start(r, kind, "save", a.user)
<1>0. TypeOK /\ a.user \in Users /\ acct[a.user].era \in Nat
  BY DEF IInv, TypeOK, Account, Token
<1>1. q \in Request /\ q.kind = kind /\ q.stage = "save" /\ q.user = a.user
      /\ q.era = acct[a.user].era /\ q.must = acct[a.user].mustChange /\ q.mint = None
  BY <1>0, TypeOfStart DEF AllKinds, Stages
<1>2. req' = [req EXCEPT ![r] = q] /\ q.kind \in Kinds
      /\ UNCHANGED <<now, db, redis, clients>>
  BY <1>1 DEF FindForChange, Become, Idle
<1>. HIDE DEF q
<1>3. Fits(q)
  BY <1>0, <1>1, <1>2 DEF Fits, Carries, ConsumedFirst, EraIsCurrent, FlagIsCurrent,
     MintIsOwn, LoggingOut, Exchanges, Issuers
<1>. QED BY <1>1, <1>2, <1>3, RequestStep DEF db, redis, clients

LEMMA FindForRefreshStep ==
    ASSUME IInv, TypeOK', NEW r \in Reqs, NEW t \in refresh, FindForRefresh(r, t)
    PROVE  IInv'
<1>. DEFINE b == Start(r, "refresh", "revokeOld", t.user)
            q == [b EXCEPT !.tok = t, !.era = stored[t].era,
                           !.survivor = stored[t].survivor]
<1>0. TypeOK /\ t \in Token /\ t.user \in Users /\ stored[t] \in TokenDoc /\ Live(t)
  BY DEF IInv, TypeOK, Token, FindForRefresh, Live
<1>1. b \in Request /\ b.kind = "refresh" /\ b.stage = "revokeOld" /\ b.user = t.user
      /\ b.mint = None
  BY <1>0, TypeOfStart DEF AllKinds, Stages
<1>2. req' = [req EXCEPT ![r] = q] /\ b.kind \in Kinds
      /\ UNCHANGED <<now, db, redis, clients>>
  BY <1>1 DEF FindForRefresh, Become, Idle
<1>. HIDE DEF b
<1>3. q \in Request /\ q.kind = "refresh" /\ q.stage = "revokeOld" /\ q.user = t.user
      /\ q.era = stored[t].era /\ q.survivor = stored[t].survivor
      /\ q.mint = None /\ q.tok = t
  BY <1>0, <1>1 DEF Request, TokenDoc
<1>. HIDE DEF q
<1>4. EraIsCurrent(q)
  <2>1. t \in DOMAIN stored
    BY <1>0 DEF Live
  <2>2. stored[t].era # acct[t.user].era => stored[t].survivor \/ t.user \in owed
    BY <1>0, <2>1 DEF IInv, StaleOnlyIfInFlight
  <2>. QED BY <1>3, <2>2 DEF EraIsCurrent
<1>5. Fits(q)
  BY <1>0, <1>1, <1>2, <1>3, <1>4 DEF Fits, Carries, ConsumedFirst, FlagIsCurrent,
     MintIsOwn, LoggingOut, Exchanges, Issuers
<1>. QED BY <1>2, <1>3, <1>5, RequestStep DEF db, redis, clients

\* A request that goes on to another stage without signing.
LEMMA GotoStep ==
    ASSUME IInv, TypeOK', NEW r \in Reqs, NEW from, NEW to \in Stages,
           At(r, from), Goto(r, to),
           UNCHANGED <<now, acct, stored, owed, blacklist, client, refresh>>,
           \/ from = "reload" /\ to = "issue"
           \/ from = "endDevice" /\ to = "startSession"
    PROVE  IInv'
<1>. DEFINE q == [req[r] EXCEPT !.stage = to]
<1>1. req[r] # None /\ req[r] \in Request /\ req[r].stage = from /\ Fits(req[r])
  BY InHand
<1>2. q \in Request /\ q.stage = to /\ q.kind = req[r].kind /\ q.user = req[r].user
      /\ q.era = req[r].era /\ q.must = req[r].must /\ q.tok = req[r].tok
      /\ q.acc = req[r].acc /\ q.ttl = req[r].ttl /\ q.mint = req[r].mint
      /\ q.device = req[r].device /\ q.survivor = req[r].survivor
  BY <1>1, StageType DEF Request
<1>3. req' = [req EXCEPT ![r] = q]
  BY <1>2 DEF Goto, IInv, TypeOK
<1>. HIDE DEF q
<1>4. Fits(q)
  BY <1>1, <1>2 DEF Fits, Carries, ConsumedFirst, EraIsCurrent, FlagIsCurrent,
     MintIsOwn, LoggingOut, Exchanges, Issuers
<1>. QED BY <1>1, <1>2, <1>3, <1>4, RequestStep

LEMMA FinishStep ==
    ASSUME IInv, TypeOK', NEW r \in Reqs, Finish(r),
           UNCHANGED <<now, acct, stored, owed, blacklist, client>>,
           "force" \notin Kinds => \A t \in refresh' : t \in refresh \/ Known(t)
    PROVE  IInv'
<1>1. PICK q : q = None
  OBVIOUS
<1>2. req' = [req EXCEPT ![r] = q]
  BY <1>1 DEF Finish
<1>. QED BY <1>1, <1>2, RequestStep

LEMMA IssueStep ==
    ASSUME IInv, TypeOK', NEW r \in Reqs, Issue(r)
    PROVE  IInv'
<1>1. /\ req[r] # None /\ req[r] \in Request /\ req[r].stage = "issue" /\ Fits(req[r])
      /\ Sign(r) \in Token /\ Sign(r).iat = now /\ Sign(r).user = req[r].user
      /\ now \in Nat
  BY InHand, TypeOfSign DEF Issue, Sign, IInv, TypeOK
<1>2. CASE req[r].kind # "force" /\ Become(r, [req[r] EXCEPT !.mint = Sign(r), !.stage = "store"])
           /\ UNCHANGED clients
  <2>. DEFINE q == [req[r] EXCEPT !.mint = Sign(r), !.stage = "store"]
  <2>1. q \in Request /\ q.stage = "store" /\ q.kind = req[r].kind /\ q.user = req[r].user
        /\ q.era = req[r].era /\ q.tok = req[r].tok /\ q.mint = Sign(r)
        /\ q.device = req[r].device /\ q.survivor = req[r].survivor
        /\ q.acc = req[r].acc
    BY <1>1 DEF Request, Stages
  <2>2. req' = [req EXCEPT ![r] = q] /\ UNCHANGED <<now, db, redis, clients>>
    BY <1>2 DEF Become, Issue
  <2>. HIDE DEF q
  <2>3. Fits(q)
    BY <1>1, <1>2, <2>1 DEF Fits, Carries, ConsumedFirst, EraIsCurrent, FlagIsCurrent,
       MintIsOwn, LoggingOut, Exchanges, Issuers
  <2>. QED BY <1>1, <2>1, <2>2, <2>3, RequestStep DEF db, redis, clients
<1>3. CASE req[r].kind = "force" /\ Return(Sign(r)) /\ Finish(r)
  <2>1. "force" \in Kinds
    BY <1>1, <1>3 DEF Fits, Carries
  <2>. QED BY <1>3, <2>1, FinishStep DEF Issue, db, redis
<1>. QED BY <1>2, <1>3 DEF Issue

LEMMA EndDeviceStep ==
    ASSUME IInv, TypeOK', NEW r \in Reqs, EndDeviceSessions(r) \/ StartSession(r)
    PROVE  IInv'
<1>1. CASE EndDeviceSessions(r)
  BY <1>1, GotoStep DEF EndDeviceSessions, Stages, redis, clients
<1>2. CASE StartSession(r)
  <2>1. Known(req[r].mint)
    BY <1>2, InHand DEF StartSession, Fits, Exchanges
  <2>. QED BY <1>2, <2>1, FinishStep DEF StartSession, Return, redis
<1>. QED BY <1>1, <1>2

LEMMA ReloadStep ==
    ASSUME IInv, TypeOK', NEW r \in Reqs, ReloadUser(r)
    PROVE  IInv'
<1>1. UNCHANGED <<now, acct, stored, owed, blacklist, client, refresh>> /\ At(r, "reload")
  BY DEF ReloadUser, db, redis, clients
<1>2. CASE Goto(r, "issue")
  BY <1>1, <1>2, GotoStep DEF Stages
<1>3. CASE Finish(r)
  BY <1>1, <1>3, FinishStep
<1>. QED BY <1>2, <1>3 DEF ReloadUser

LEMMA StoreStep ==
    ASSUME IInv, TypeOK', NEW r \in Reqs, StoreRefreshToken(r)
    PROVE  IInv'
<1>1. /\ At(r, "store") /\ req[r] # None /\ req[r] \in Request /\ req[r].stage = "store"
      /\ Fits(req[r]) /\ req[r].mint \in Token
  BY InHand DEF StoreRefreshToken, Fits, Carries
<1>2. CASE req[r].mint \in DOMAIN stored /\ Finish(r) /\ UNCHANGED <<stored, clients>>
  BY <1>2, FinishStep DEF StoreRefreshToken, redis, clients
<1>3. CASE req[r].mint \notin DOMAIN stored
  <2>. DEFINE m == req[r].mint
              d == NewToken(r)
  <2>1. /\ DOMAIN stored' = DOMAIN stored \union {m}
        /\ stored'[m] = d
        /\ \A t \in DOMAIN stored : stored'[t] = stored[t]
        /\ UNCHANGED <<now, acct, sessions, owed, redis>>
    BY <1>3 DEF StoreRefreshToken
  <2>2. /\ m \in Token /\ m.iat \in Nat /\ m.iat <= now /\ m.user = req[r].user
        /\ now \in Nat /\ RefreshTTL \in Nat /\ 0 < RefreshTTL
        /\ d.expires = now + RefreshTTL /\ ~d.revoked /\ d.era = req[r].era
        /\ d.survivor = req[r].survivor
    BY <1>1, AuthAssumption DEF Fits, MintIsOwn, Token, IInv, TypeOK, NewToken
  <2>3. /\ \A s \in Reqs : s # r => req'[s] = req[s]
        /\ req'[r] # None =>
              /\ req[r].kind = "certificate"
              /\ req'[r] = [req[r] EXCEPT !.stage = "endDevice"]
        /\ refresh' \subseteq refresh \union {m}
    BY <1>1, <1>3 DEF StoreRefreshToken, Goto, Finish, Return, clients, IInv, TypeOK
  <2>. HIDE DEF d
  <2>4. \A t \in Token : (Spent(t) => Spent(t)') /\ (Known(t) => Known(t)')
    <3>1. \A s \in Reqs : req'[s] # None => req[s] # None /\ req'[s].mint = req[s].mint
      BY <1>1, <2>3 DEF Request
    <3>. QED BY <1>1, <2>1, <2>2, <3>1, SpentStays
  <2>5. \A t \in Token : Refused(t) => Refused(t)'
    BY <2>1 DEF Refused, AccessExpired, Blacklisted, redis
  <2>6. ASSUME req'[r] # None PROVE Fits(req[r])'
    <3>1. PICK q : q = req'[r]
      OBVIOUS
    <3>2. /\ q \in Request /\ q.kind = "certificate" /\ q.stage = "endDevice"
          /\ q.user = req[r].user /\ q.era = req[r].era /\ q.survivor = req[r].survivor
          /\ q.mint = m /\ q.device = req[r].device /\ req[r].kind = q.kind
      <4>1. "endDevice" \in Stages /\ q = [req[r] EXCEPT !.stage = "endDevice"]
        BY <2>3, <2>6, <3>1 DEF Stages
      <4>. QED BY <1>1, <2>3, <2>6, <4>1, StageIs
    <3>3. Known(q.mint)' /\ q.mint \in Token
      BY <1>1, <2>1, <3>2 DEF Known
    <3>4. EraIsCurrent(q)'
      BY <1>1, <2>1, <3>2 DEF Fits, EraIsCurrent
    <3>5. MintIsOwn(q)'
      BY <2>1, <2>2, <3>2 DEF MintIsOwn
    <3>6. Carries(q)'
      BY <1>1, <3>2, <3>3 DEF Fits, Carries, Issuers
    <3>. QED
      BY <3>2, <3>3, <3>4, <3>5, <3>6, <3>1 DEF Fits, ConsumedFirst, FlagIsCurrent,
         LoggingOut, Exchanges
  <2>7. RequestsFit'
    <3>1. \A s \in Reqs : req'[s] # None => req'[s] = req[s] \/ Fits(req[s])'
      BY <2>3, <2>6
    <3>. QED BY <2>1, <2>2, <2>4, <2>5, <3>1, RequestsStayFit
  <2>8. StoredIsPast'
    BY <2>1, <2>2 DEF StoredIsPast, IInv
  <2>9. StaleOnlyIfInFlight'
    <3>1. d.era # acct[m.user].era => d.survivor \/ m.user \in owed
      BY <1>1, <2>2 DEF Fits, EraIsCurrent, Carries
    <3>. QED BY <2>1, <3>1 DEF IInv, StaleOnlyIfInFlight, Live
  <2>10. GivenAreKnown'
    BY <2>1, <2>2, <2>3, <2>4 DEF IInv, GivenAreKnown, Known, TypeOK
  <2>11. BansLast' /\ TemporaryMustChange'
    BY <2>1 DEF IInv, BansLast, TemporaryMustChange, redis
  <2>. QED BY <2>7, <2>8, <2>9, <2>10, <2>11 DEF IInv
<1>. QED BY <1>2, <1>3 DEF StoreRefreshToken

\* One token revoked.
LEMMA RevokeFacts ==
    ASSUME IInv, TypeOK', NEW t \in Token, now' = now, UNCHANGED <<acct, owed, redis, refresh>>,
           stored' = IF t \in DOMAIN stored
                     THEN [stored EXCEPT ![t].revoked = TRUE] ELSE stored,
           \A s \in Reqs : req'[s] # None => req[s] # None /\ req'[s].mint = req[s].mint
    PROVE  /\ \A k \in Token : (Spent(k) => Spent(k)') /\ (Known(k) => Known(k)')
           /\ \A k \in Token : Refused(k) => Refused(k)'
           /\ Known(t) => Spent(t)'
           /\ StoredIsPast' /\ BansLast' /\ GivenAreKnown'
           /\ StaleOnlyIfInFlight' /\ TemporaryMustChange'
<1>1. /\ DOMAIN stored' = DOMAIN stored
      /\ \A k \in DOMAIN stored :
            /\ stored'[k].expires = stored[k].expires /\ stored'[k].era = stored[k].era
            /\ stored'[k].survivor = stored[k].survivor
            /\ stored[k].revoked => stored'[k].revoked
            /\ k = t => stored'[k].revoked
  BY DEF IInv, TypeOK, TokenDoc
<1>2. \A k \in Token : (Spent(k) => Spent(k)') /\ (Known(k) => Known(k)')
  BY <1>1, SpentStays DEF IInv, TypeOK
<1>3. \A k \in Token : Refused(k) => Refused(k)'
  BY DEF Refused, AccessExpired, Blacklisted, redis
<1>4. Known(t) => Spent(t)'
  BY <1>1, <1>2 DEF Known, Spent
<1>5. StoredIsPast' /\ StaleOnlyIfInFlight'
  BY <1>1 DEF IInv, StoredIsPast, StaleOnlyIfInFlight, Live
<1>6. BansLast' /\ TemporaryMustChange'
  BY DEF IInv, BansLast, TemporaryMustChange, redis
<1>7. GivenAreKnown'
  BY <1>2 DEF IInv, GivenAreKnown, TypeOK
<1>. QED BY <1>2, <1>3, <1>4, <1>5, <1>6, <1>7

LEMMA RevokeOldStep ==
    ASSUME IInv, TypeOK', NEW r \in Reqs, RevokeOld(r)
    PROVE  IInv'
<1>1. /\ At(r, "revokeOld") /\ req[r] # None /\ req[r] \in Request
      /\ req[r].stage = "revokeOld" /\ Fits(req[r])
      /\ req[r].kind = "refresh" /\ req[r].tok \in Token /\ req[r].mint = None
  BY InHand DEF RevokeOld, Fits, Carries
<1>2. CASE req[r].tok \notin DOMAIN stored
  BY <1>2, FinishStep DEF RevokeOld, redis, clients
<1>3. CASE req[r].tok \in DOMAIN stored
  <2>1. /\ UNCHANGED <<now, acct, owed, redis, refresh>>
        /\ stored' = [stored EXCEPT ![req[r].tok].revoked = TRUE]
        /\ \A s \in Reqs : s # r => req'[s] = req[s]
        /\ req'[r] = [req[r] EXCEPT !.stage = "reload"]
    BY <1>1, <1>3 DEF RevokeOld, Goto, clients, IInv, TypeOK
  <2>2. PICK q : q = req'[r]
    OBVIOUS
  <2>3. /\ q \in Request /\ q.kind = "refresh" /\ q.stage = "reload"
        /\ q.user = req[r].user /\ q.era = req[r].era /\ q.survivor = req[r].survivor
        /\ q.mint = None /\ q.tok = req[r].tok
    <3>1. "reload" \in Stages /\ q = [req[r] EXCEPT !.stage = "reload"]
      BY <2>1, <2>2 DEF Stages
    <3>. QED BY <1>1, <3>1, StageIs
  <2>4. \A s \in Reqs : req'[s] # None => req[s] # None /\ req'[s].mint = req[s].mint
    BY <1>1, <2>1, <2>2, <2>3
  <2>5. PICK t : t = req[r].tok
    OBVIOUS
  <2>6. t \in Token /\ t \in DOMAIN stored
        /\ stored' = [stored EXCEPT ![t].revoked = TRUE]
    BY <1>1, <1>3, <2>1, <2>5
  <2>7. /\ \A k \in Token : (Spent(k) => Spent(k)') /\ (Known(k) => Known(k)')
        /\ \A k \in Token : Refused(k) => Refused(k)'
        /\ Spent(t)'
        /\ StoredIsPast' /\ BansLast' /\ GivenAreKnown'
        /\ StaleOnlyIfInFlight' /\ TemporaryMustChange'
    BY <2>1, <2>4, <2>6, RevokeFacts DEF Known
  <2>8. Fits(q)'
    BY <1>1, <2>1, <2>3, <2>5, <2>7 DEF Fits, Carries, ConsumedFirst, EraIsCurrent,
       FlagIsCurrent, MintIsOwn, LoggingOut, Exchanges, Issuers
  <2>9. RequestsFit'
    <3>1. \A s \in Reqs : req'[s] # None => req'[s] = req[s] \/ Fits(req[s])'
      BY <2>1, <2>2, <2>8
    <3>2. now <= now'
      BY <2>1 DEF IInv, TypeOK
    <3>. QED BY <2>1, <2>7, <3>1, <3>2, RequestsStayFit
  <2>. QED BY <2>7, <2>9 DEF IInv
<1>. QED BY <1>2, <1>3

-----------------------------------------------------------------------------
(* Steps of logouts. *)

LEMMA StartLogoutStep ==
    ASSUME IInv, TypeOK', NEW r \in Reqs, NEW a \in access,
           NEW t \in refresh \union {None}, StartLogout(r, a, t)
    PROVE  IInv'
<1>. DEFINE b == Start(r, "logout", "blacklist", a.user)
            q == [b EXCEPT !.acc = a, !.tok = t, !.ttl = TimeToLive(a)]
<1>0. /\ TypeOK /\ a \in Token /\ a.user \in Users /\ a.iat \in Nat /\ AccessTTL \in Nat
      /\ t \in Token \union {None} /\ now \in Nat /\ ~AccessExpired(a)
  BY AuthAssumption DEF IInv, TypeOK, Token, StartLogout, Accepted
<1>1. b \in Request /\ b.kind = "logout" /\ b.stage = "blacklist" /\ b.user = a.user
      /\ b.mint = None
  BY <1>0, TypeOfStart DEF AllKinds, Stages
<1>2. req' = [req EXCEPT ![r] = q] /\ b.kind \in Kinds
      /\ UNCHANGED <<now, db, redis, clients>>
  BY <1>1 DEF StartLogout, Become, Idle
<1>3. TimeToLive(a) \in Nat /\ a.iat + AccessTTL <= now + TimeToLive(a)
  BY <1>0 DEF TimeToLive, AccessExpired
<1>. HIDE DEF b
<1>4. q \in Request /\ q.kind = "logout" /\ q.stage = "blacklist" /\ q.mint = None
      /\ q.acc = a /\ q.tok = t /\ q.ttl = TimeToLive(a)
  BY <1>0, <1>1, <1>3 DEF Request
<1>. HIDE DEF q
<1>5. "force" \notin Kinds => q.tok = None \/ Known(q.tok)
  BY <1>4 DEF IInv, GivenAreKnown
<1>6. Fits(q)
  BY <1>0, <1>1, <1>2, <1>3, <1>4, <1>5 DEF Fits, Carries, ConsumedFirst, EraIsCurrent,
     FlagIsCurrent, MintIsOwn, LoggingOut, Exchanges, Issuers
<1>. QED BY <1>2, <1>4, <1>6, RequestStep DEF db, redis, clients

LEMMA BlacklistStep ==
    ASSUME IInv, TypeOK', NEW r \in Reqs, Blacklist(r)
    PROVE  IInv'
<1>1. /\ At(r, "blacklist") /\ req[r] # None /\ req[r] \in Request
      /\ req[r].stage = "blacklist" /\ Fits(req[r]) /\ req[r].kind = "logout"
      /\ req[r].acc \in Token /\ req[r].ttl \in Nat /\ req[r].mint = None
  BY InHand DEF Blacklist, Fits, Carries, Request
<1>2. /\ UNCHANGED <<now, acct, stored, owed, client, refresh>>
      /\ \A s \in Reqs : s # r => req'[s] = req[s]
      /\ req'[r] = [req[r] EXCEPT !.stage = "revokeOne"]
      /\ now \in Nat /\ AccessTTL \in Nat
  BY <1>1, AuthAssumption DEF Blacklist, Goto, db, clients, IInv, TypeOK
<1>3. PICK q : q = req'[r]
  OBVIOUS
<1>4. /\ q \in Request /\ q.kind = "logout" /\ q.stage = "revokeOne"
      /\ q.mint = None /\ q.tok = req[r].tok /\ q.acc = req[r].acc
  <2>1. "revokeOne" \in Stages /\ q = [req[r] EXCEPT !.stage = "revokeOne"]
    BY <1>2, <1>3 DEF Stages
  <2>. QED BY <1>1, <2>1, StageIs
<1>5. \A t \in Token : (Spent(t) => Spent(t)') /\ (Known(t) => Known(t)')
  <2>1. \A s \in Reqs : req'[s] # None => req[s] # None /\ req'[s].mint = req[s].mint
    BY <1>1, <1>2, <1>3, <1>4
  <2>. QED BY <1>2, <2>1, SpentStays
<1>6. blacklist \subseteq blacklist'
  BY DEF Blacklist, BlacklistFor
<1>7. \A t \in Token : Refused(t) => Refused(t)'
  BY <1>2, <1>6 DEF Refused, AccessExpired, Blacklisted
<1>8. Refused(q.acc)'
  <2>1. q.acc.iat \in Nat /\ q.acc.iat + AccessTTL <= now + req[r].ttl
    BY <1>1, <1>4 DEF Fits, LoggingOut, Token
  <2>2. CASE client = "up" /\ req[r].ttl > 0
    <3>1. [tok |-> q.acc, until |-> now + req[r].ttl] \in blacklist'
      BY <1>4, <2>2 DEF Blacklist, BlacklistFor
    <3>. QED BY <3>1 DEF Refused, Blacklisted
  <2>3. CASE ~(req[r].ttl > 0)
    BY <1>1, <1>2, <2>1, <2>3 DEF Refused, AccessExpired
  <2>4. CASE client = "ended"
    BY <1>2, <2>4 DEF Refused
  <2>. QED BY <2>2, <2>3, <2>4 DEF Blacklist
<1>9. Fits(q)'
  <2>1. "force" \notin Kinds => q.tok = None \/ Known(q.tok)'
    BY <1>1, <1>4, <1>5 DEF Fits, Exchanges, Request
  <2>. QED BY <1>1, <1>4, <1>8, <2>1 DEF Fits, Carries, ConsumedFirst, EraIsCurrent,
          FlagIsCurrent, MintIsOwn, LoggingOut, Exchanges, Issuers
<1>10. RequestsFit'
  <2>1. \A s \in Reqs : req'[s] # None => req'[s] = req[s] \/ Fits(req[s])'
    BY <1>2, <1>3, <1>9
  <2>. QED BY <1>2, <1>5, <1>7, <2>1, RequestsStayFit
<1>11. BansLast'
  <2>1. ASSUME NEW b \in blacklist', b \notin blacklist
        PROVE  b.tok.iat + AccessTTL <= b.until
    <3>1. b = [tok |-> req[r].acc, until |-> now + req[r].ttl]
      BY <2>1 DEF Blacklist, BlacklistFor
    <3>. QED BY <1>1, <3>1 DEF Fits, LoggingOut
  <2>. QED BY <2>1 DEF IInv, BansLast
<1>12. StoredIsPast' /\ StaleOnlyIfInFlight' /\ TemporaryMustChange' /\ GivenAreKnown'
  BY <1>2, <1>5 DEF IInv, StoredIsPast, StaleOnlyIfInFlight, Live, TemporaryMustChange,
     GivenAreKnown, TypeOK
<1>. QED BY <1>10, <1>11, <1>12 DEF IInv

LEMMA RevokeOneStep ==
    ASSUME IInv, TypeOK', NEW r \in Reqs, RevokeOne(r)
    PROVE  IInv'
<1>1. /\ At(r, "revokeOne") /\ req[r] # None /\ req[r] \in Request
      /\ req[r].stage = "revokeOne" /\ Fits(req[r]) /\ req[r].kind = "logout"
      /\ req[r].acc \in Token /\ req[r].tok \in Token \union {None} /\ req[r].mint = None
  BY InHand DEF RevokeOne, Fits, Carries, Request
<1>2. /\ UNCHANGED <<now, acct, owed, redis, refresh>>
      /\ \A s \in Reqs : s # r => req'[s] = req[s]
      /\ req'[r] = [req[r] EXCEPT !.stage = "endAll"]
  BY <1>1 DEF RevokeOne, Goto, clients, IInv, TypeOK
<1>3. PICK q : q = req'[r]
  OBVIOUS
<1>4. /\ q \in Request /\ q.kind = "logout" /\ q.stage = "endAll"
      /\ q.mint = None /\ q.tok = req[r].tok /\ q.acc = req[r].acc
  <2>1. "endAll" \in Stages /\ q = [req[r] EXCEPT !.stage = "endAll"]
    BY <1>2, <1>3 DEF Stages
  <2>. QED BY <1>1, <2>1, StageIs
<1>5. \A s \in Reqs : req'[s] # None => req[s] # None /\ req'[s].mint = req[s].mint
  BY <1>1, <1>2, <1>3, <1>4
<1>6. /\ \A t \in Token : (Spent(t) => Spent(t)') /\ (Known(t) => Known(t)')
      /\ \A t \in Token : Refused(t) => Refused(t)'
      /\ q.tok # None /\ Known(q.tok) => Spent(q.tok)'
      /\ StoredIsPast' /\ BansLast' /\ GivenAreKnown'
      /\ StaleOnlyIfInFlight' /\ TemporaryMustChange'
  <2>1. CASE q.tok \in Token
    <3>1. stored' = IF q.tok \in DOMAIN stored
                    THEN [stored EXCEPT ![q.tok].revoked = TRUE] ELSE stored
      BY <1>4 DEF RevokeOne
    <3>. QED BY <1>2, <1>5, <2>1, <3>1, RevokeFacts
  <2>2. CASE q.tok = None
    <3>1. UNCHANGED stored
      BY <1>4, <2>2, AuthAssumption DEF RevokeOne, IInv, TypeOK
    <3>2. /\ \A t \in Token : (Spent(t) => Spent(t)') /\ (Known(t) => Known(t)')
      BY <1>2, <1>5, <3>1, SpentStays DEF IInv, TypeOK
    <3>3. \A t \in Token : Refused(t) => Refused(t)'
      BY <1>2 DEF Refused, AccessExpired, Blacklisted, redis
    <3>4. StoredIsPast' /\ BansLast' /\ StaleOnlyIfInFlight' /\ TemporaryMustChange'
      BY <1>2, <3>1 DEF IInv, StoredIsPast, BansLast, StaleOnlyIfInFlight, Live,
         TemporaryMustChange, redis
    <3>5. GivenAreKnown'
      BY <1>2, <3>2 DEF IInv, GivenAreKnown, TypeOK
    <3>. QED BY <2>2, <3>2, <3>3, <3>4, <3>5
  <2>. QED BY <1>1, <1>4, <2>1, <2>2
<1>7. Fits(q)'
  <2>1. Refused(q.acc)'
    BY <1>1, <1>4, <1>6 DEF Fits, LoggingOut
  <2>2. "force" \notin Kinds => q.tok = None \/ Spent(q.tok)'
    BY <1>1, <1>4, <1>6 DEF Fits, Exchanges
  <2>. QED BY <1>1, <1>4, <2>1, <2>2 DEF Fits, Carries, ConsumedFirst, EraIsCurrent,
          FlagIsCurrent, MintIsOwn, LoggingOut, Exchanges, Issuers
<1>8. RequestsFit'
  <2>1. \A s \in Reqs : req'[s] # None => req'[s] = req[s] \/ Fits(req[s])'
    BY <1>2, <1>3, <1>7
  <2>2. now <= now'
    BY <1>2 DEF IInv, TypeOK
  <2>. QED BY <1>2, <1>6, <2>1, <2>2, RequestsStayFit
<1>. QED BY <1>6, <1>8 DEF IInv

LEMMA EndAllStep ==
    ASSUME IInv, TypeOK', NEW r \in Reqs, EndAllUserSessions(r)
    PROVE  IInv'
BY FinishStep DEF EndAllUserSessions, redis, clients

-----------------------------------------------------------------------------
(* Steps of administration. *)

\* A step that changes an account's era owes it a revocation.
LEMMA NewEraFacts ==
    ASSUME IInv, TypeOK', NEW u \in Users,
           UNCHANGED <<now, stored, blacklist, client, refresh>>,
           owed' = owed \union {u},
           acct[u].era < acct'[u].era,
           acct'[u].temporary = "yes" => acct'[u].mustChange,
           \A v \in Users : v # u => acct'[v] = acct[v],
           \A s \in Reqs : req'[s] # None =>
                 req'[s].mint = None \/ (req[s] # None /\ req'[s].mint = req[s].mint),
           \A s \in Reqs : req'[s] # None => req'[s] = req[s] \/ Fits(req[s])'
    PROVE  IInv'
<1>1. now \in Nat /\ now <= now'
  BY DEF IInv, TypeOK
<1>2. \A t \in Token : (Spent(t) => Spent(t)') /\ (Known(t) => Known(t)')
  BY <1>1, SpentStays
<1>3. \A t \in Token : Refused(t) => Refused(t)'
  BY DEF Refused, AccessExpired, Blacklisted
<1>4. RequestsFit'
  BY <1>1, <1>2, <1>3, RequestsStayFit
<1>5. StaleOnlyIfInFlight'
  BY DEF IInv, StaleOnlyIfInFlight, Live, TypeOK, Token
<1>6. TemporaryMustChange'
  BY DEF IInv, TemporaryMustChange
<1>7. StoredIsPast' /\ BansLast' /\ GivenAreKnown'
  BY <1>2 DEF IInv, StoredIsPast, BansLast, GivenAreKnown, TypeOK
<1>. QED BY <1>4, <1>5, <1>6, <1>7 DEF IInv

LEMMA SaveAccountStep ==
    ASSUME IInv, TypeOK', NEW r \in Reqs, SaveAccount(r)
    PROVE  IInv'
<1>1. /\ At(r, "save") /\ req[r] # None /\ req[r] \in Request /\ req[r].stage = "save"
      /\ Fits(req[r]) /\ req[r].kind \in {"change", "force", "reset"}
      /\ req[r].user \in Users /\ req[r].mint = None
  BY InHand DEF SaveAccount, Fits, Carries, Request
<1>2. PICK u : u = req[r].user
  OBVIOUS
<1>3. /\ u \in Users /\ acct[u] \in Account /\ acct[u].era \in Nat
      /\ acct' = [acct EXCEPT ![u] = Updated(acct[u], req[r])]
      /\ owed' = owed \union {u}
      /\ UNCHANGED <<now, stored, blacklist, client, refresh>>
      /\ \A s \in Reqs : s # r => req'[s] = req[s]
      /\ req'[r] = [req[r] EXCEPT !.stage = "revokeAll"]
  BY <1>1, <1>2 DEF SaveAccount, Goto, redis, clients, IInv, TypeOK, Account
<1>4. /\ acct'[u] = Updated(acct[u], req[r])
      /\ \A v \in Users : v # u => acct'[v] = acct[v]
  BY <1>3 DEF IInv, TypeOK
<1>5. /\ acct[u].era < acct'[u].era
      /\ acct'[u].temporary = "yes" => acct'[u].mustChange
  <2>1. acct[u].era = req[r].era => req[r].must = acct[u].mustChange
    BY <1>1, <1>2 DEF Fits, FlagIsCurrent
  <2>2. /\ acct'[u].era = acct[u].era + 1
        /\ acct'[u].temporary = "yes" /\ (acct[u].era = req[r].era => req[r].must = acct[u].mustChange)
              => acct'[u].mustChange
    BY <1>1, <1>3, <1>4, UpdatedIs
  <2>. QED BY <1>3, <2>1, <2>2
<1>6. PICK q : q = req'[r]
  OBVIOUS
<1>7. /\ q \in Request /\ q.kind = req[r].kind /\ q.stage = "revokeAll" /\ q.mint = None
  <2>1. "revokeAll" \in Stages /\ q = [req[r] EXCEPT !.stage = "revokeAll"]
    BY <1>3, <1>6 DEF Stages
  <2>. QED BY <1>1, <2>1, StageIs
<1>8. Fits(q)'
  BY <1>1, <1>7 DEF Fits, Carries, ConsumedFirst, EraIsCurrent, FlagIsCurrent,
     MintIsOwn, LoggingOut, Exchanges, Issuers
<1>9. /\ \A s \in Reqs : req'[s] # None =>
            req'[s].mint = None \/ (req[s] # None /\ req'[s].mint = req[s].mint)
      /\ \A s \in Reqs : req'[s] # None => req'[s] = req[s] \/ Fits(req[s])'
  BY <1>3, <1>6, <1>7, <1>8
<1>. QED BY <1>3, <1>4, <1>5, <1>9, NewEraFacts

LEMMA DeactivateStep ==
    ASSUME IInv, TypeOK', NEW r \in Reqs, NEW u \in Users, DeactivateUser(r, u)
    PROVE  IInv'
<1>. DEFINE b == Start(r, "deactivate", "revokeAll", u)
<1>1. b \in Request /\ b.kind = "deactivate" /\ b.stage = "revokeAll" /\ b.mint = None
  BY TypeOfStart DEF AllKinds, Stages, IInv
<1>2. /\ req' = [req EXCEPT ![r] = b] /\ b.kind \in Kinds
      /\ owed' = owed \union {u}
      /\ UNCHANGED <<now, stored, blacklist, client, refresh>>
  BY <1>1 DEF DeactivateUser, Become, Idle, redis, clients
<1>. HIDE DEF b
<1>3. /\ acct[u].era < acct'[u].era
      /\ acct'[u].temporary = "yes" => acct'[u].mustChange
      /\ \A v \in Users : v # u => acct'[v] = acct[v]
  <2>1. acct[u] \in Account /\ acct[u].era \in Nat
    BY DEF IInv, TypeOK, Account
  <2>2. /\ acct'[u].era = acct[u].era + 1
        /\ acct'[u].temporary = acct[u].temporary
        /\ acct'[u].mustChange = acct[u].mustChange
        /\ \A v \in Users : v # u => acct'[v] = acct[v]
    BY <2>1 DEF DeactivateUser, IInv, TypeOK, Account
  <2>. QED BY <2>1, <2>2 DEF IInv, TemporaryMustChange
<1>4. PICK q : q = req'[r]
  OBVIOUS
<1>5. /\ q = b /\ \A s \in Reqs : s # r => req'[s] = req[s]
  BY <1>2, <1>4 DEF IInv, TypeOK
<1>6. Fits(q)'
  BY <1>1, <1>2, <1>5 DEF Fits, Carries, ConsumedFirst, EraIsCurrent, FlagIsCurrent,
     MintIsOwn, LoggingOut, Exchanges, Issuers
<1>7. /\ \A s \in Reqs : req'[s] # None =>
            req'[s].mint = None \/ (req[s] # None /\ req'[s].mint = req[s].mint)
      /\ \A s \in Reqs : req'[s] # None => req'[s] = req[s] \/ Fits(req[s])'
  BY <1>1, <1>4, <1>5, <1>6
<1>. QED BY <1>2, <1>3, <1>7, NewEraFacts

\* What outlives a revocation of u, and what becomes of the one that ordered it.
LEMMA OutliveIs ==
    ASSUME NEW q \in Request, NEW u, NEW p, p = Outlive(q, u)
    PROVE  /\ p \in Request
           /\ p.kind = q.kind /\ p.stage = q.stage /\ p.user = q.user /\ p.era = q.era
           /\ p.must = q.must /\ p.tok = q.tok /\ p.acc = q.acc /\ p.ttl = q.ttl
           /\ p.mint = q.mint /\ p.device = q.device
           /\ q.survivor => p.survivor
           /\ q.user = u => p.survivor
<1>0. q # None
  BY AuthAssumption
<1>1. CASE q.user = u
  BY <1>0, <1>1 DEF Outlive, Request
<1>2. CASE q.user # u
  BY <1>2 DEF Outlive
<1>. QED BY <1>1, <1>2

LEMMA RevokeAllStep ==
    ASSUME IInv, TypeOK', NEW r \in Reqs, RevokeAll(r)
    PROVE  IInv'
<1>1. /\ At(r, "revokeAll") /\ req[r] # None /\ req[r] \in Request
      /\ req[r].stage = "revokeAll" /\ Fits(req[r]) /\ req[r].mint = None
      /\ req[r].user \in Users
  BY InHand DEF RevokeAll, Fits, Carries, Request
<1>2. PICK u : u = req[r].user
  OBVIOUS
<1>3. /\ owed' = owed \ {u} /\ UNCHANGED <<now, acct, redis, refresh>>
      /\ now \in Nat /\ now <= now'
      /\ DOMAIN stored' = DOMAIN stored
      /\ \A t \in DOMAIN stored :
            /\ stored'[t].expires = stored[t].expires /\ stored'[t].era = stored[t].era
            /\ stored'[t].survivor = stored[t].survivor
            /\ stored[t].revoked => stored'[t].revoked
            /\ t.user = u => stored'[t].revoked
  <2>1. /\ owed' = owed \ {u} /\ UNCHANGED <<now, acct, redis, refresh>>
        /\ stored' = [t \in DOMAIN stored |->
             IF t.user = u THEN [stored[t] EXCEPT !.revoked = TRUE] ELSE stored[t]]
    BY <1>2 DEF RevokeAll, RevokedFor, clients
  <2>2. \A t \in DOMAIN stored : stored[t] \in TokenDoc
    BY DEF IInv, TypeOK
  <2>3. now \in Nat
    BY DEF IInv, TypeOK
  <2>. QED BY <2>1, <2>2, <2>3 DEF TokenDoc
<1>4. ASSUME NEW s \in Reqs, s # r, req'[s] # None
      PROVE  /\ req[s] # None /\ req[s] \in Request /\ Fits(req[s])
             /\ req'[s] = Outlive(req[s], u)
  BY <1>2, <1>4 DEF RevokeAll, Outlive, IInv, TypeOK, RequestsFit
<1>5. ASSUME req'[r] # None
      PROVE  req[r].kind = "force" /\ req'[r] = [req[r] EXCEPT !.stage = "issue"]
  BY <1>5 DEF RevokeAll, AfterRevocation
<1>6. ASSUME NEW s \in Reqs, req'[s] # None
      PROVE  req[s] # None /\ req'[s].mint = req[s].mint
  <2>1. CASE s = r
    BY <1>1, <1>5, <1>6, <2>1 DEF Request
  <2>2. CASE s # r
    BY <1>4, <1>6, <2>2, OutliveIs
  <2>. QED BY <2>1, <2>2
<1>7. \A t \in Token : (Spent(t) => Spent(t)') /\ (Known(t) => Known(t)')
  BY <1>3, <1>6, SpentStays
<1>8. \A t \in Token : Refused(t) => Refused(t)'
  BY <1>3 DEF Refused, AccessExpired, Blacklisted, redis
<1>9. RequestsFit'
  <2>. SUFFICES ASSUME NEW s \in Reqs, req'[s] # None PROVE Fits(req[s])'
    BY DEF RequestsFit
  <2>1. PICK p : p = req'[s]
    OBVIOUS
  <2>2. CASE s = r
    <3>1. "issue" \in Stages /\ p = [req[r] EXCEPT !.stage = "issue"]
      BY <1>5, <2>1, <2>2 DEF Stages
    <3>2. /\ p \in Request /\ p.kind = "force" /\ p.stage = "issue" /\ p.mint = None
      BY <1>1, <1>5, <2>1, <2>2, <3>1, StageIs
    <3>3. p.kind \in Kinds
      BY <1>1, <1>5, <2>2, <3>2 DEF Fits, Carries
    <3>4. Fits(p)'
      BY <3>2, <3>3 DEF Fits, Carries, ConsumedFirst, EraIsCurrent, FlagIsCurrent,
         MintIsOwn, LoggingOut, Exchanges, Issuers
    <3>. QED BY <2>1, <3>4
  <2>3. CASE s # r
    <3>1. PICK q : q = req[s]
      OBVIOUS
    <3>2. q \in Request /\ Fits(q) /\ p = Outlive(q, u)
      BY <1>4, <2>1, <2>3, <3>1
    <3>3. /\ p \in Request
          /\ p.kind = q.kind /\ p.stage = q.stage /\ p.user = q.user /\ p.era = q.era
          /\ p.must = q.must /\ p.tok = q.tok /\ p.acc = q.acc /\ p.ttl = q.ttl
          /\ p.mint = q.mint /\ p.device = q.device
          /\ q.survivor => p.survivor
          /\ q.user = u => p.survivor
      BY <3>2, OutliveIs
    <3>4. Fits(p)
      BY <3>2, <3>3 DEF Fits, Carries, ConsumedFirst, EraIsCurrent, FlagIsCurrent,
         MintIsOwn, LoggingOut, Exchanges
    <3>5. p.survivor \/ (p.user \in owed => p.user \in owed')
      BY <1>3, <3>3
    <3>6. Fits(p)'
      BY <1>3, <1>7, <1>8, <3>3, <3>4, <3>5, FitStays
    <3>. QED BY <2>1, <3>6
  <2>. QED BY <2>2, <2>3
<1>10. StoredIsPast' /\ StaleOnlyIfInFlight'
  BY <1>3 DEF IInv, StoredIsPast, StaleOnlyIfInFlight, Live
<1>11. BansLast' /\ TemporaryMustChange' /\ GivenAreKnown'
  BY <1>3, <1>7 DEF IInv, BansLast, TemporaryMustChange, GivenAreKnown, TypeOK, redis
<1>. QED BY <1>9, <1>10, <1>11 DEF IInv

-----------------------------------------------------------------------------
(* Steps of the environment. *)

LEMMA SetActiveStep ==
    ASSUME IInv, TypeOK', NEW u \in Users, NEW flag \in BOOLEAN, SetActive(u, flag)
    PROVE  IInv'
<1>1. /\ UNCHANGED <<now, stored, owed, blacklist, client, refresh, req>>
      /\ now \in Nat /\ now <= now'
      /\ \A v \in Users : /\ acct'[v].era = acct[v].era
                          /\ acct'[v].mustChange = acct[v].mustChange
                          /\ acct'[v].temporary = acct[v].temporary
  BY DEF SetActive, redis, clients, IInv, TypeOK, Account
<1>2. \A t \in Token : (Spent(t) => Spent(t)') /\ (Known(t) => Known(t)')
  BY <1>1, SpentStays
<1>3. \A t \in Token : Refused(t) => Refused(t)'
  BY <1>1 DEF Refused, AccessExpired, Blacklisted
<1>4. RequestsFit'
  BY <1>1, <1>2, <1>3, RequestsStayFit
<1>5. StaleOnlyIfInFlight'
  BY <1>1 DEF IInv, StaleOnlyIfInFlight, Live, TypeOK, Token
<1>6. TemporaryMustChange'
  BY <1>1 DEF IInv, TemporaryMustChange
<1>7. StoredIsPast' /\ BansLast' /\ GivenAreKnown'
  BY <1>1, <1>2 DEF IInv, StoredIsPast, BansLast, GivenAreKnown, TypeOK
<1>. QED BY <1>4, <1>5, <1>6, <1>7 DEF IInv

\* Steps that leave the database, but for purged tokens, and the requests.
LEMMA QuietStep ==
    ASSUME IInv, TypeOK',
           UNCHANGED <<acct, owed, refresh>>, req' = req \/ \A r \in Reqs : req'[r] = None,
           now <= now',
           DOMAIN stored' \subseteq DOMAIN stored,
           \A t \in DOMAIN stored' : stored'[t] = stored[t],
           \A t \in DOMAIN stored \ DOMAIN stored' :
              t.iat < now' /\ \A r \in Reqs : req[r] # None => req[r].mint # t,
           blacklist' \subseteq blacklist,
           \A r \in Reqs : req'[r] = None \/ \A t \in Token : Refused(t) => Refused(t)'
    PROVE  IInv'
<1>1. now \in Nat /\ now' \in Nat
  BY DEF IInv, TypeOK
<1>2. \A t \in Token : (Spent(t) => Spent(t)') /\ (Known(t) => Known(t)')
  BY <1>1, SpentStays
<1>3. RequestsFit'
  <2>1. CASE \A r \in Reqs : req'[r] = None
    BY <2>1 DEF RequestsFit
  <2>2. ASSUME NEW r \in Reqs, req'[r] # None PROVE RequestsFit'
    <3>1. /\ \A t \in Token : Refused(t) => Refused(t)'
          /\ req' = req
      BY <2>2
    <3>. QED BY <1>2, <3>1, RequestsStayFit
  <2>. QED BY <2>1, <2>2
<1>4. StoredIsPast'
  BY <1>1 DEF IInv, StoredIsPast, TypeOK, Token
<1>5. StaleOnlyIfInFlight' /\ TemporaryMustChange' /\ BansLast'
  BY DEF IInv, StaleOnlyIfInFlight, Live, TemporaryMustChange, BansLast
<1>6. GivenAreKnown'
  BY <1>2 DEF IInv, GivenAreKnown, TypeOK
<1>. QED BY <1>3, <1>4, <1>5, <1>6 DEF IInv

LEMMA EnvironmentStep ==
    ASSUME IInv, TypeOK', Environment
    PROVE  IInv'
<1>0. now \in Nat /\ AccessTTL \in Nat /\ (\A t \in Token : t.iat \in Nat)
  BY AuthAssumption DEF IInv, TypeOK, Token
<1>1. ASSUME NEW u \in Users, NEW flag \in BOOLEAN, SetActive(u, flag) PROVE IInv'
  BY <1>1, SetActiveStep
<1>2. CASE Tick
  <2>1. \A t \in Token : Refused(t) => Refused(t)'
    BY <1>0, <1>2 DEF Tick, Refused, AccessExpired, Blacklisted, redis
  <2>. QED BY <1>0, <1>2, <2>1, QuietStep DEF Tick, db, redis, clients
<1>3. ASSUME NEW t \in DOMAIN stored, PurgeExpired(t) PROVE IInv'
  <2>1. \A k \in Token : Refused(k) => Refused(k)'
    BY <1>3 DEF PurgeExpired, Refused, AccessExpired, Blacklisted, redis
  <2>2. t \in Token /\ stored[t].expires \in Nat /\ t.iat < stored[t].expires
    BY DEF IInv, TypeOK, TokenDoc, StoredIsPast
  <2>3. /\ DOMAIN stored' = DOMAIN stored \ {t}
        /\ \A k \in DOMAIN stored' : stored'[k] = stored[k]
        /\ UNCHANGED <<now, acct, owed, refresh, req, blacklist>>
        /\ stored[t].expires <= now
        /\ \A r \in Reqs : req[r] # None => req[r].mint # t
    BY <1>3 DEF PurgeExpired, redis, clients
  <2>4. t.iat < now'
    BY <1>0, <2>2, <2>3
  <2>. QED BY <1>0, <2>1, <2>3, <2>4, QuietStep
<1>4. ASSUME NEW b \in blacklist, KeyExpires(b) PROVE IInv'
  <2>1. b \in Ban /\ b.tok \in Token /\ b.until \in Nat /\ b.until <= now
    BY <1>4 DEF KeyExpires, IInv, TypeOK, Ban
  <2>2. AccessExpired(b.tok)
    BY <1>0, <2>1 DEF IInv, BansLast, AccessExpired
  <2>3. blacklist' = blacklist \ {b} /\ UNCHANGED <<now, db, client, clients, req>>
    BY <1>4 DEF KeyExpires
  <2>4. \A t \in Token : Refused(t) => Refused(t)'
    BY <2>2, <2>3 DEF Refused, AccessExpired, Blacklisted
  <2>. QED BY <1>0, <2>3, <2>4, QuietStep DEF db, clients
<1>5. CASE RedisFails \/ RedisRecovers \/ RedisGivesUp
  <2>1. \A t \in Token : Refused(t) => Refused(t)'
    BY <1>5 DEF RedisFails, RedisRecovers, RedisGivesUp, Refused, AccessExpired, Blacklisted
  <2>. QED BY <1>0, <1>5, <2>1, QuietStep
          DEF RedisFails, RedisRecovers, RedisGivesUp, db, clients
<1>6. CASE Restart
  <2>1. \A r \in Reqs : req'[r] = None
    BY <1>6 DEF Restart
  <2>. QED BY <1>0, <1>6, <2>1, QuietStep DEF Restart, db, clients
<1>. QED BY <1>1, <1>2, <1>3, <1>4, <1>5, <1>6 DEF Environment

LEMMA StepKeeps == IInv /\ [Next]_vars => IInv'
<1>. SUFFICES ASSUME IInv, [Next]_vars PROVE IInv'
  OBVIOUS
<1>0. TypeOK'
  BY TypeStep
<1>1. CASE UNCHANGED vars
  BY <1>0, <1>1, QuietStep DEF vars, IInv, TypeOK, Refused, AccessExpired, Blacklisted
<1>2. ASSUME NEW r \in Reqs, Login(r) PROVE IInv'
  BY <1>0, <1>2, FindUserSteps, IssueStep, StoreStep, EndDeviceStep DEF Login
<1>3. ASSUME NEW r \in Reqs, RefreshTokens(r) PROVE IInv'
  BY <1>0, <1>3, FindForRefreshStep, RevokeOldStep, ReloadStep DEF RefreshTokens
<1>4. ASSUME NEW r \in Reqs, Logout(r) PROVE IInv'
  BY <1>0, <1>4, StartLogoutStep, BlacklistStep, RevokeOneStep, EndAllStep DEF Logout
<1>5. ASSUME NEW r \in Reqs, Manage(r) PROVE IInv'
  BY <1>0, <1>5, FindForChangeStep, FindUserSteps, DeactivateStep, SaveAccountStep,
     RevokeAllStep DEF Manage
<1>6. CASE Environment
  BY <1>0, <1>6, EnvironmentStep
<1>. QED BY <1>1, <1>2, <1>3, <1>4, <1>5, <1>6 DEF Next

-----------------------------------------------------------------------------
(* Theorems. *)

\* The invariant, of every behaviour.
THEOREM InvariantHolds == Spec => []IInv
BY InitHolds, StepKeeps, PTL DEF Spec

\* The collections and the requests in flight keep their types.
THEOREM TypeCorrect == Spec => []TypeOK
<1>1. IInv => TypeOK
  BY DEF IInv
<1>. QED BY <1>1, InvariantHolds, PTL

\* A live refresh token from before the last mass revocation of its account
\* passed it in a request in flight, or the revocation is still owed.
THEOREM StaleOnesWereInFlight == Spec => []StaleOnlyIfInFlight
<1>1. IInv => StaleOnlyIfInFlight
  BY DEF IInv
<1>. QED BY <1>1, InvariantHolds, PTL

\* A password that an administrator has set has to be changed.
THEOREM ResetsMustBeChanged == Spec => []TemporaryMustChange
<1>1. IInv => TemporaryMustChange
  BY DEF IInv
<1>. QED BY <1>1, InvariantHolds, PTL

\* A refresh that has signed a new pair has consumed the token it was given.
THEOREM ConsumesFirst == Spec => []RotationConsumesFirst
<1>1. IInv => RotationConsumesFirst
  <2>. SUFFICES ASSUME IInv, NEW r \in Reqs, req[r] # None, req[r].kind = "refresh",
                       req[r].mint # None
                PROVE  ~Live(req[r].tok)
    BY DEF RotationConsumesFirst
  <2>1. Fits(req[r])
    BY DEF IInv, RequestsFit
  <2>2. req[r].stage # "revokeOld"
    BY <2>1 DEF Fits, Carries
  <2>3. Spent(req[r].tok)
    BY <2>1, <2>2 DEF Fits, ConsumedFirst
  <2>. QED BY <2>3 DEF Spent, Live
<1>. QED BY <1>1, InvariantHolds, PTL

-----------------------------------------------------------------------------
(* What a step may not do. *)

\* The steps that touch the documents of refresh tokens.
LEMMA StoredChanges ==
    ASSUME [Next]_vars
    PROVE  \/ UNCHANGED stored
           \/ \E r \in Reqs : StoreRefreshToken(r) \/ RevokeOld(r) \/ RevokeOne(r) \/ RevokeAll(r)
           \/ \E t \in DOMAIN stored : PurgeExpired(t)
<1>1. ASSUME NEW r \in Reqs, Login(r) PROVE UNCHANGED stored \/ StoreRefreshToken(r)
  BY <1>1 DEF Login, FindForLogin, FindForCertificateLogin, Issue, EndDeviceSessions,
     StartSession, db
<1>2. ASSUME NEW r \in Reqs, RefreshTokens(r) PROVE UNCHANGED stored \/ RevokeOld(r)
  BY <1>2 DEF RefreshTokens, FindForRefresh, ReloadUser, db
<1>3. ASSUME NEW r \in Reqs, Logout(r) PROVE UNCHANGED stored \/ RevokeOne(r)
  BY <1>3 DEF Logout, StartLogout, Blacklist, EndAllUserSessions, db
<1>4. ASSUME NEW r \in Reqs, Manage(r) PROVE UNCHANGED stored \/ RevokeAll(r)
  BY <1>4 DEF Manage, FindForChange, FindForReset, DeactivateUser, SaveAccount, db
<1>5. CASE Environment
  BY <1>5 DEF Environment, SetActive, Tick, KeyExpires, RedisFails, RedisRecovers,
     RedisGivesUp, Restart, db
<1>6. CASE UNCHANGED vars
  BY <1>6 DEF vars
<1>. QED BY <1>1, <1>2, <1>3, <1>4, <1>5, <1>6 DEF Next

\* A revoked refresh token is never live again: the only write that could put
\* a fresh document in its place is refused by the unique index.
THEOREM RevokedForGood == Spec => RevocationIsFinal
<1>1. ASSUME IInv, [Next]_vars
      PROVE  \A t \in DOMAIN stored :
                stored[t].revoked /\ t \in DOMAIN stored' => stored'[t].revoked
  <2>. SUFFICES ASSUME NEW t \in DOMAIN stored, stored[t].revoked, t \in DOMAIN stored'
                PROVE  stored'[t].revoked
    OBVIOUS
  <2>0. \A k \in DOMAIN stored : stored[k] \in TokenDoc
    BY <1>1 DEF IInv, TypeOK
  <2>1. CASE UNCHANGED stored
    BY <2>1
  <2>2. ASSUME NEW r \in Reqs, StoreRefreshToken(r) PROVE stored'[t].revoked
    BY <2>2 DEF StoreRefreshToken
  <2>3. ASSUME NEW r \in Reqs, RevokeOld(r) \/ RevokeOne(r) PROVE stored'[t].revoked
    BY <2>0, <2>3 DEF RevokeOld, RevokeOne, TokenDoc, Goto
  <2>4. ASSUME NEW r \in Reqs, RevokeAll(r) PROVE stored'[t].revoked
    BY <2>0, <2>4 DEF RevokeAll, RevokedFor, TokenDoc
  <2>5. ASSUME NEW k \in DOMAIN stored, PurgeExpired(k) PROVE stored'[t].revoked
    BY <2>5 DEF PurgeExpired
  <2>. QED BY <1>1, <2>1, <2>2, <2>3, <2>4, <2>5, StoredChanges
<1>. QED BY <1>1, InvariantHolds, PTL DEF Spec, RevocationIsFinal

\* Redis drops a key no earlier than its token expires.
LEMMA KeysStay ==
    ASSUME IInv, [Next]_vars, NEW b \in blacklist
    PROVE  b \in blacklist' \/ AccessExpired(b.tok)'
<1>1. ASSUME NEW r \in Reqs, Login(r) \/ RefreshTokens(r) PROVE b \in blacklist'
  BY <1>1 DEF Login, FindForLogin, FindForCertificateLogin, Issue, StoreRefreshToken,
     EndDeviceSessions, StartSession, RefreshTokens, FindForRefresh, RevokeOld,
     ReloadUser, redis
<1>2. ASSUME NEW r \in Reqs, Logout(r) PROVE b \in blacklist'
  BY <1>2 DEF Logout, StartLogout, Blacklist, BlacklistFor, RevokeOne,
     EndAllUserSessions, redis
<1>3. ASSUME NEW r \in Reqs, Manage(r) PROVE b \in blacklist'
  BY <1>3 DEF Manage, FindForChange, FindForReset, DeactivateUser, SaveAccount,
     RevokeAll, redis
<1>4. ASSUME NEW k \in blacklist, KeyExpires(k)
      PROVE  b \in blacklist' \/ AccessExpired(b.tok)'
  <2>1. CASE b # k
    BY <1>4, <2>1 DEF KeyExpires
  <2>2. CASE b = k
    <3>1. /\ b.until \in Nat /\ b.tok.iat \in Nat /\ now \in Nat /\ now' = now
          /\ AccessTTL \in Nat /\ now >= b.until /\ b.tok.iat + AccessTTL <= b.until
      BY <1>4, <2>2, AuthAssumption DEF KeyExpires, IInv, TypeOK, Ban, Token, BansLast
    <3>. QED BY <3>1 DEF AccessExpired
  <2>. QED BY <2>1, <2>2
<1>5. ASSUME Environment, ~ \E k \in blacklist : KeyExpires(k) PROVE b \in blacklist'
  BY <1>5 DEF Environment, SetActive, Tick, PurgeExpired, RedisFails, RedisRecovers,
     RedisGivesUp, Restart, redis
<1>6. CASE UNCHANGED vars
  BY <1>6 DEF vars
<1>. QED BY <1>1, <1>2, <1>3, <1>4, <1>5, <1>6 DEF Next

\* An access token on the blacklist is refused until it has expired.
THEOREM BannedStayOut == Spec => LoggedOutStaysOut
<1>1. ASSUME IInv, [Next]_vars, NEW b \in blacklist PROVE ~Accepted(b.tok)'
  <2>1. CASE b \in blacklist'
    BY <2>1 DEF Accepted, Blacklisted
  <2>2. CASE AccessExpired(b.tok)'
    BY <2>2 DEF Accepted
  <2>. QED BY <1>1, <2>1, <2>2, KeysStay
<1>2. IInv /\ [Next]_vars => [\A b \in blacklist : ~Accepted(b.tok)']_vars
  BY <1>1
<1>. QED BY <1>2, InvariantHolds, PTL DEF Spec, LoggedOutStaysOut

\* A logout that answers has put both tokens out of use, whatever Redis did
\* meanwhile, in a system in which no password change is forced: that one
\* hands out refresh tokens no logout can revoke.
THEOREM LogoutsRevoke ==
    ASSUME "force" \notin Kinds
    PROVE  Spec => LogoutRevokes
<1>1. ASSUME IInv, NEW r \in Reqs, NEW a \in access, NEW t \in refresh \union {None},
             EndAllUserSessions(r), req[r].acc = a, req[r].tok = t
      PROVE  ~Accepted(a)' /\ ~Live(t)'
  <2>1. Refused(a) /\ (t = None \/ Spent(t))
    BY <1>1, InHand DEF EndAllUserSessions, Fits, LoggingOut, Exchanges
  <2>2. UNCHANGED <<now, stored, blacklist, client>>
    BY <1>1 DEF EndAllUserSessions, redis
  <2>3. None \notin DOMAIN stored
    BY <1>1, AuthAssumption DEF IInv, TypeOK
  <2>4. ~Accepted(a)'
    BY <2>1, <2>2 DEF Refused, Accepted, AccessExpired, Blacklisted
  <2>5. ~Live(t)'
    BY <2>1, <2>2, <2>3 DEF Spent, Live
  <2>. QED BY <2>4, <2>5
<1>2. IInv => \A r \in Reqs, a \in access, t \in refresh \union {None} :
                 EndAllUserSessions(r) /\ req[r].acc = a /\ req[r].tok = t
                     => ~Accepted(a)' /\ ~Live(t)'
  BY <1>1
<1>. QED BY <1>2, InvariantHolds, PTL DEF Spec, LogoutRevokes

-----------------------------------------------------------------------------
(* Sessions of a device. *)

ActiveOn(u, d) == {s \in SessionsOn(u, d) : sessions[s].active}

StartingOn(u, d) ==
    {r \in Reqs : At(r, "startSession") /\ req[r].user = u /\ req[r].device = d}

\* Only ending a device's sessions brings a login to the start of a session.
LEMMA StartingIsOld ==
    ASSUME IInv, [Next]_vars, NEW q \in Reqs, ~EndDeviceSessions(q),
           req'[q] # None, req'[q].stage = "startSession"
    PROVE  /\ req[q] # None /\ req[q].stage = "startSession"
           /\ req'[q].user = req[q].user /\ req'[q].device = req[q].device
<1>0. /\ req \in [Reqs -> Request \union {None}]
      /\ \A r \in Reqs, stage \in Stages : At(r, stage) => req[r] \in Request
  BY DEF IInv, TypeOK, At
<1>1. CASE req'[q] = req[q]
  BY <1>1
<1>2. ASSUME NEW r \in Reqs, Login(r), req'[q] # req[q] PROVE FALSE
  <2>1. ASSUME NEW u \in Users, FindForLogin(r, u) PROVE FALSE
    BY <1>0, <1>2, <2>1 DEF FindForLogin, Become, Start
  <2>2. ASSUME NEW u \in Users, NEW d \in Devices, FindForCertificateLogin(r, u, d)
        PROVE FALSE
    BY <1>0, <1>2, <2>2 DEF FindForCertificateLogin, Become, Start
  <2>3. CASE Issue(r)
    BY <1>0, <1>2, <2>3 DEF Issue, At, Become, Finish, Request
  <2>4. CASE StoreRefreshToken(r)
    BY <1>0, <1>2, <2>4 DEF StoreRefreshToken, At, Goto, Finish, Request
  <2>5. CASE EndDeviceSessions(r)
    BY <1>0, <1>2, <2>5 DEF EndDeviceSessions, Goto
  <2>6. CASE StartSession(r)
    BY <1>0, <1>2, <2>6 DEF StartSession, Finish
  <2>. QED BY <1>2, <2>1, <2>2, <2>3, <2>4, <2>5, <2>6 DEF Login
<1>3. ASSUME NEW r \in Reqs, RefreshTokens(r), req'[q] # req[q] PROVE FALSE
  <2>1. ASSUME NEW t \in refresh, FindForRefresh(r, t) PROVE FALSE
    BY <1>0, <1>3, <2>1 DEF FindForRefresh, Become, Start
  <2>2. CASE RevokeOld(r)
    BY <1>0, <1>3, <2>2 DEF RevokeOld, At, Goto, Finish, Request
  <2>3. CASE ReloadUser(r)
    BY <1>0, <1>3, <2>3 DEF ReloadUser, At, Goto, Finish, Request
  <2>. QED BY <1>3, <2>1, <2>2, <2>3 DEF RefreshTokens
<1>4. ASSUME NEW r \in Reqs, Logout(r), req'[q] # req[q] PROVE FALSE
  <2>1. ASSUME NEW a \in access, NEW t \in refresh \union {None}, StartLogout(r, a, t)
        PROVE FALSE
    BY <1>0, <1>4, <2>1 DEF StartLogout, Become, Start
  <2>2. CASE Blacklist(r) \/ RevokeOne(r) \/ EndAllUserSessions(r)
    BY <1>0, <1>4, <2>2 DEF Blacklist, RevokeOne, EndAllUserSessions, At, Goto, Finish, Request
  <2>. QED BY <1>4, <2>1, <2>2 DEF Logout
<1>5. ASSUME NEW r \in Reqs, Manage(r), req'[q] # req[q]
      PROVE  /\ req[q] # None /\ req[q].stage = "startSession"
             /\ req'[q].user = req[q].user /\ req'[q].device = req[q].device
  <2>1. ASSUME NEW a \in access, NEW kind, FindForChange(r, a, kind) PROVE FALSE
    BY <1>0, <1>5, <2>1 DEF FindForChange, Become, Start
  <2>2. ASSUME NEW u \in Users, FindForReset(r, u) \/ DeactivateUser(r, u) PROVE FALSE
    BY <1>0, <1>5, <2>2 DEF FindForReset, DeactivateUser, Become, Start
  <2>3. CASE SaveAccount(r)
    BY <1>0, <1>5, <2>3 DEF SaveAccount, At, Goto, Request
  <2>4. CASE RevokeAll(r)
    <3>1. CASE q = r
      <4>1. req'[q] = AfterRevocation(req[q]) /\ req[q] \in Request
        BY <1>0, <2>4, <3>1 DEF RevokeAll, At, Stages
      <4>. QED BY <4>1 DEF AfterRevocation, Request
    <3>2. CASE q # r
      <4>1. req'[q] = Outlive(req[q], req[r].user)
        BY <2>4, <3>2 DEF RevokeAll
      <4>2. req[q] # None /\ req[q] \in Request
        BY <1>0, <4>1 DEF Outlive
      <4>. QED BY <4>1, <4>2, OutliveIs
    <3>. QED BY <3>1, <3>2
  <2>. QED BY <1>5, <2>1, <2>2, <2>3, <2>4 DEF Manage
<1>6. CASE Environment
  BY <1>0, <1>6 DEF Environment, SetActive, Tick, PurgeExpired, KeyExpires, RedisFails,
     RedisRecovers, RedisGivesUp, Restart
<1>7. CASE UNCHANGED vars
  BY <1>7 DEF vars
<1>. QED BY <1>1, <1>2, <1>3, <1>4, <1>5, <1>6, <1>7 DEF Next

\* Sessions are started, ended in bulk, or left alone.
LEMMA SessionsChange ==
    ASSUME [Next]_vars
    PROVE  \/ UNCHANGED sessions
           \/ \E r \in Reqs : StartSession(r)
           \/ \E r \in Reqs : EndDeviceSessions(r)
           \/ \E r \in Reqs : EndAllUserSessions(r)
<1>1. ASSUME NEW r \in Reqs, Login(r) \/ RefreshTokens(r)
      PROVE  UNCHANGED sessions \/ StartSession(r) \/ EndDeviceSessions(r)
  BY <1>1 DEF Login, FindForLogin, FindForCertificateLogin, Issue, StoreRefreshToken,
     RefreshTokens, FindForRefresh, RevokeOld, ReloadUser, db
<1>2. ASSUME NEW r \in Reqs, Logout(r) \/ Manage(r)
      PROVE  UNCHANGED sessions \/ EndAllUserSessions(r)
  BY <1>2 DEF Logout, StartLogout, Blacklist, RevokeOne, Manage, FindForChange,
     FindForReset, DeactivateUser, SaveAccount, RevokeAll, db
<1>3. CASE Environment
  BY <1>3 DEF Environment, SetActive, Tick, PurgeExpired, KeyExpires, RedisFails,
     RedisRecovers, RedisGivesUp, Restart, db
<1>4. CASE UNCHANGED vars
  BY <1>4 DEF vars
<1>. QED BY <1>1, <1>2, <1>3, <1>4 DEF Next

\* Ending sessions starts none, and those it is given are over.
LEMMA EndedIs ==
    ASSUME TypeOK, NEW S, sessions' = Ended(S), \A s \in S : sessions[s] # None,
           NEW u, NEW d
    PROVE  /\ ActiveOn(u, d)' \subseteq ActiveOn(u, d)
           /\ S \intersect ActiveOn(u, d)' = {}
<1>1. ASSUME NEW s \in SessionIds, sessions'[s] # None
      PROVE  /\ sessions[s] # None
             /\ sessions'[s].user = sessions[s].user /\ sessions'[s].device = sessions[s].device
             /\ sessions'[s].active => sessions[s].active
             /\ s \in S => ~sessions'[s].active
  <2>1. CASE s \in S
    <3>1. sessions[s] \in Session /\ sessions'[s] = [sessions[s] EXCEPT !.active = FALSE]
      BY <2>1 DEF TypeOK, Ended
    <3>2. sessions[s] # None
      BY <2>1
    <3>. QED BY <3>1, <3>2 DEF Session
  <2>2. CASE s \notin S
    BY <1>1, <2>2 DEF Ended
  <2>. QED BY <2>1, <2>2
<1>. QED BY <1>1 DEF ActiveOn, SessionsOn, SessionsOf

LEMMA SessionsStep ==
    ASSUME IInv, [Next]_vars, SessionsPerDevice
    PROVE  SessionsPerDevice'
<1>. SUFFICES ASSUME NEW u \in Users, NEW d \in Devices
              PROVE  Cardinality(ActiveOn(u, d)') + Cardinality(StartingOn(u, d)')
                        <= Cardinality(Reqs)
  BY DEF SessionsPerDevice, ActiveOn, StartingOn
<1>. DEFINE A == ActiveOn(u, d)
            B == StartingOn(u, d)
<1>1. Cardinality(A) + Cardinality(B) <= Cardinality(Reqs)
  BY DEF SessionsPerDevice, ActiveOn, StartingOn
<1>2. /\ IsFiniteSet(A) /\ IsFiniteSet(B) /\ IsFiniteSet(A') /\ IsFiniteSet(B')
      /\ Cardinality(A) \in Nat /\ Cardinality(B) \in Nat
      /\ Cardinality(A') \in Nat /\ Cardinality(B') \in Nat
      /\ Cardinality(B') <= Cardinality(Reqs) /\ Cardinality(Reqs) \in Nat
  <2>1. A \subseteq SessionIds /\ A' \subseteq SessionIds /\ B \subseteq Reqs /\ B' \subseteq Reqs
    BY DEF ActiveOn, StartingOn, SessionsOn, SessionsOf
  <2>. QED BY <2>1, AuthAssumption, FS_Subset, FS_CardinalityType
<1>3. CASE A' \subseteq A /\ B' \subseteq B
  BY <1>1, <1>2, <1>3, FS_Subset
<1>4. B' \subseteq B \union {r \in Reqs : EndDeviceSessions(r) /\ req[r].user = u /\ req[r].device = d}
  <2>1. ASSUME NEW q \in B', ~EndDeviceSessions(q) PROVE q \in B
    <3>1. q \in Reqs /\ req'[q] # None /\ req'[q].stage = "startSession"
          /\ req'[q].user = u /\ req'[q].device = d
      BY DEF StartingOn, At
    <3>. QED BY <2>1, <3>1, StartingIsOld DEF StartingOn, At
  <2>2. ASSUME NEW q \in B', EndDeviceSessions(q) PROVE req[q].user = u /\ req[q].device = d
    <3>1. q \in Reqs /\ req'[q].user = u /\ req'[q].device = d
      BY DEF StartingOn
    <3>2. req[q] \in Request /\ req'[q] = [req[q] EXCEPT !.stage = "startSession"]
      BY <2>2, <3>1, InHand DEF EndDeviceSessions, Goto, IInv, TypeOK
    <3>. QED BY <3>1, <3>2 DEF Request
  <2>. QED BY <2>1, <2>2 DEF StartingOn
<1>5. CASE UNCHANGED sessions
  <2>1. A' = A
    BY <1>5 DEF ActiveOn, SessionsOn, SessionsOf
  <2>2. CASE B' \subseteq B
    BY <1>3, <2>1, <2>2
  <2>3. ASSUME NEW r \in Reqs, EndDeviceSessions(r), req[r].user = u, req[r].device = d
        PROVE  A' = {}
    <3>1. /\ sessions' = Ended(SessionsOn(u, d))
          /\ \A s \in SessionsOn(u, d) : sessions[s] # None
      BY <2>3 DEF EndDeviceSessions, SessionsOn, SessionsOf
    <3>2. A' \subseteq A /\ SessionsOn(u, d) \intersect A' = {}
      BY <3>1, EndedIs DEF IInv
    <3>. QED BY <3>2 DEF ActiveOn
  <2>. QED BY <1>2, <1>4, <2>2, <2>3, FS_EmptySet
<1>6. ASSUME NEW r \in Reqs, EndDeviceSessions(r)
      PROVE  Cardinality(A') + Cardinality(B') <= Cardinality(Reqs)
  <2>1. /\ sessions' = Ended(SessionsOn(req[r].user, req[r].device))
        /\ \A s \in SessionsOn(req[r].user, req[r].device) : sessions[s] # None
    BY <1>6 DEF EndDeviceSessions, SessionsOn, SessionsOf
  <2>2. A' \subseteq A /\ SessionsOn(req[r].user, req[r].device) \intersect A' = {}
    BY <2>1, EndedIs DEF IInv
  <2>3. CASE req[r].user = u /\ req[r].device = d
    <3>1. A' = {}
      BY <2>2, <2>3 DEF ActiveOn
    <3>. QED BY <1>2, <3>1, FS_EmptySet
  <2>4. CASE ~(req[r].user = u /\ req[r].device = d)
    <3>1. ASSUME NEW q \in Reqs, EndDeviceSessions(q) PROVE q = r
      <4>1. req'[q] = [req[q] EXCEPT !.stage = "startSession"] /\ req[q].stage = "endDevice"
            /\ req[q] \in Request /\ req'[q].stage = "startSession"
        BY <3>1, InHand DEF EndDeviceSessions, Goto, IInv, TypeOK, Request
      <4>2. q # r => req'[q] = req[q]
        BY <1>6 DEF EndDeviceSessions, Goto, IInv, TypeOK
      <4>. QED BY <4>1, <4>2
    <3>2. B' \subseteq B
      BY <1>4, <2>4, <3>1
    <3>. QED BY <1>3, <2>2, <3>2
  <2>. QED BY <2>3, <2>4
<1>7. ASSUME NEW r \in Reqs, EndAllUserSessions(r)
      PROVE  Cardinality(A') + Cardinality(B') <= Cardinality(Reqs)
  <2>1. /\ sessions' = Ended(SessionsOf(req[r].user))
        /\ \A s \in SessionsOf(req[r].user) : sessions[s] # None
    BY <1>7 DEF EndAllUserSessions, SessionsOf
  <2>2. A' \subseteq A
    BY <2>1, EndedIs DEF IInv
  <2>3. B' \subseteq B
    <3>1. /\ req[r].stage = "endAll"
          /\ \A q \in Reqs : req'[q] = req[q] \/ req'[q] = None
      BY <1>7 DEF EndAllUserSessions, At, Finish, IInv, TypeOK
    <3>. QED BY <3>1 DEF StartingOn, At
  <2>. QED BY <1>3, <2>2, <2>3
<1>8. ASSUME NEW r \in Reqs, StartSession(r)
      PROVE  Cardinality(A') + Cardinality(B') <= Cardinality(Reqs)
  <2>1. PICK s \in SessionIds :
          /\ sessions[s] = None
          /\ sessions' = [sessions EXCEPT ![s] =
                [user |-> req[r].user, device |-> req[r].device, active |-> TRUE]]
    BY <1>8 DEF StartSession
  <2>2. /\ \A q \in Reqs : q # r => req'[q] = req[q]
        /\ req'[r] = None
        /\ req[r] # None /\ req[r].stage = "startSession"
    BY <1>8 DEF StartSession, At, Finish, IInv, TypeOK
  <2>3. /\ sessions'[s].user = req[r].user /\ sessions'[s].device = req[r].device
        /\ \A k \in SessionIds : k # s => sessions'[k] = sessions[k]
    BY <2>1 DEF IInv, TypeOK
  <2>4. B' \subseteq B \ {r}
    BY <2>2 DEF StartingOn, At
  <2>5. CASE req[r].user = u /\ req[r].device = d
    <3>1. r \in B
      BY <2>2, <2>5 DEF StartingOn, At
    <3>2. A' \subseteq A \union {s} /\ s \notin A
      BY <2>1, <2>3 DEF ActiveOn, SessionsOn, SessionsOf
    <3>3. /\ IsFiniteSet(B \ {r}) /\ Cardinality(B \ {r}) = Cardinality(B) - 1
      BY <1>2, <3>1, FS_RemoveElement
    <3>4. /\ IsFiniteSet(A \union {s}) /\ Cardinality(A \union {s}) = Cardinality(A) + 1
      BY <1>2, <3>2, FS_AddElement
    <3>5. Cardinality(A') <= Cardinality(A) + 1
      BY <3>2, <3>4, FS_Subset
    <3>6. Cardinality(B') <= Cardinality(B) - 1
      BY <2>4, <3>3, FS_Subset
    <3>. QED BY <1>1, <1>2, <3>5, <3>6
  <2>6. CASE ~(req[r].user = u /\ req[r].device = d)
    <3>1. A' \subseteq A
      BY <2>3, <2>6 DEF ActiveOn, SessionsOn, SessionsOf
    <3>. QED BY <1>3, <2>4, <3>1
  <2>. QED BY <2>5, <2>6
<1>. QED BY <1>5, <1>6, <1>7, <1>8, SessionsChange

\* However logins overlap, a device is left with no more active sessions of a
\* user than there can be requests in flight.
THEOREM SessionsAreBounded == Spec => []SessionsPerDevice
<1>1. Init => SessionsPerDevice
  <2>. SUFFICES ASSUME Init, NEW u \in Users, NEW d \in Devices
                PROVE  Cardinality(ActiveOn(u, d)) + Cardinality(StartingOn(u, d))
                          <= Cardinality(Reqs)
    BY DEF SessionsPerDevice, ActiveOn, StartingOn
  <2>1. ActiveOn(u, d) = {} /\ StartingOn(u, d) = {}
    BY DEF Init, ActiveOn, StartingOn, SessionsOn, SessionsOf, At
  <2>. QED BY <2>1, AuthAssumption, FS_EmptySet, FS_CardinalityType
<1>. QED BY <1>1, SessionsStep, InvariantHolds, PTL DEF Spec

-----------------------------------------------------------------------------
(* The life of a refresh token. *)

\* A document stays at least as long as its token can be good.
Lasting ==
    \A t \in DOMAIN stored :
        /\ stored[t].expires \in Nat
        /\ t.iat + RefreshTTL <= stored[t].expires

LEMMA LastingStep ==
    ASSUME IInv, Lasting, [Next]_vars
    PROVE  Lasting'
<1>0. \A t \in DOMAIN stored : t \in Token /\ stored[t] \in TokenDoc
  BY DEF IInv, TypeOK
<1>1. CASE UNCHANGED stored
  BY <1>1 DEF Lasting
<1>2. ASSUME NEW r \in Reqs, StoreRefreshToken(r) PROVE Lasting'
  <2>1. /\ req[r].mint.iat \in Nat /\ req[r].mint.iat <= now
        /\ now \in Nat /\ RefreshTTL \in Nat
    BY <1>2, InHand, AuthAssumption
    DEF StoreRefreshToken, Fits, Carries, MintIsOwn, Token, IInv, TypeOK
  <2>2. /\ NewToken(r).expires \in Nat
        /\ req[r].mint.iat + RefreshTTL <= NewToken(r).expires
    BY <2>1 DEF NewToken
  <2>. QED BY <1>2, <2>2 DEF StoreRefreshToken, Lasting
<1>3. ASSUME NEW r \in Reqs, RevokeOld(r) \/ RevokeOne(r) PROVE Lasting'
  BY <1>0, <1>3 DEF RevokeOld, RevokeOne, TokenDoc, Lasting
<1>4. ASSUME NEW r \in Reqs, RevokeAll(r) PROVE Lasting'
  BY <1>0, <1>4 DEF RevokeAll, RevokedFor, TokenDoc, Lasting
<1>5. ASSUME NEW t \in DOMAIN stored, PurgeExpired(t) PROVE Lasting'
  BY <1>5 DEF PurgeExpired, Lasting
<1>. QED BY <1>1, <1>2, <1>3, <1>4, <1>5, StoredChanges

\* Documents are those of tokens of the abstract specification.
LEMMA StoredAreTokens ==
    ASSUME IInv
    PROVE  DOMAIN stored \subseteq Tokens
BY AuthAssumption DEF IInv, TypeOK, StoredIsPast, Token, Tokens

\* A token gone is out of use in the sense of the invariant, and conversely.
LEMMA GoneIsSpent ==
    ASSUME NEW t \in Tokens
    PROVE  t \in GoneTokens <=> t \notin DOMAIN stored /\ Spent(t)
BY DEF GoneTokens, Held, Spent

-----------------------------------------------------------------------------
(* The tokens that requests have signed. *)

\* A request holds what it has held, or what it signs now.
Signs(r) ==
    req'[r] # None =>
        \/ req'[r].mint = None
        \/ req[r] # None /\ req'[r].mint = req[r].mint
        \/ req'[r].mint.iat = now

LEMMA GotoHolds ==
    ASSUME IInv, NEW r \in Reqs, NEW old, At(r, old), NEW stage, Goto(r, stage)
    PROVE  /\ req'[r] # None => req'[r].mint = req[r].mint
           /\ \A s \in Reqs \ {r} : req'[s] = req[s]
BY DEF Goto, At, IInv, TypeOK, Request

\* A mass revocation leaves the requests that outlive it what they hold.
LEMMA RevokeAllHolds ==
    ASSUME IInv, NEW r \in Reqs, RevokeAll(r)
    PROVE  \A s \in Reqs :
              /\ req'[s] # None => req[s] # None /\ req'[s].mint = req[s].mint
              /\ req[s] # None /\ req[s].mint # None => req'[s] # None
<1>1. req \in [Reqs -> Request \union {None}] /\ req[r] \in Request /\ req[r].mint = None
  BY InHand DEF RevokeAll, Fits, Carries, IInv, TypeOK
<1>2. ASSUME NEW q \in Request
      PROVE  /\ [q EXCEPT !.survivor = TRUE].mint = q.mint
             /\ [q EXCEPT !.stage = "issue"].mint = q.mint
             /\ [q EXCEPT !.survivor = TRUE] \in Request
             /\ [q EXCEPT !.stage = "issue"] \in Request
  BY DEF Request, Stages
<1>3. None \notin Request
  BY AuthAssumption
<1>. QED
  BY <1>1, <1>2, <1>3 DEF RevokeAll, At, AfterRevocation, Outlive

\* Requests sign tokens only with the second it is.
LEMMA MintsSigned ==
    ASSUME IInv, [Next]_vars
    PROVE  \A r \in Reqs : Signs(r)
<1>. USE DEF Signs
<1>0. req \in [Reqs -> Request \union {None}]
  BY DEF IInv, TypeOK
<1>1. ASSUME NEW r \in Reqs, NEW q, req' = [req EXCEPT ![r] = q],
             q = None \/ q.mint = None \/ q.mint.iat = now
      PROVE  \A s \in Reqs : Signs(s)
  BY <1>0, <1>1
<1>2. ASSUME NEW r \in Reqs, Finish(r) PROVE \A s \in Reqs : Signs(s)
  BY <1>0, <1>2 DEF Finish
<1>3. ASSUME NEW r \in Reqs, NEW old, At(r, old), NEW stage, Goto(r, stage)
      PROVE  \A s \in Reqs : Signs(s)
  BY <1>3, GotoHolds DEF At
<1>4. ASSUME NEW r \in Reqs, Login(r) PROVE \A s \in Reqs : Signs(s)
  <2>1. ASSUME NEW u \in Users, FindForLogin(r, u) PROVE \A s \in Reqs : Signs(s)
    BY <1>1, <2>1 DEF FindForLogin, Become, Start
  <2>2. ASSUME NEW u \in Users, NEW d \in Devices, FindForCertificateLogin(r, u, d)
        PROVE  \A s \in Reqs : Signs(s)
    BY <1>1, <2>2 DEF FindForCertificateLogin, Become, Start
  <2>3. CASE Issue(r)
    <3>1. req[r] \in Request /\ Sign(r).iat = now
      BY <2>3, InHand, TypeOfSign DEF Issue
    <3>2. PICK q : q = [req[r] EXCEPT !.mint = Sign(r), !.stage = "store"]
      OBVIOUS
    <3>3. q.mint.iat = now
      BY <3>1, <3>2 DEF Request
    <3>. QED BY <1>1, <1>2, <2>3, <3>2, <3>3 DEF Issue, Become
  <2>4. CASE StoreRefreshToken(r)
    BY <1>2, <1>3, <2>4 DEF StoreRefreshToken
  <2>5. CASE EndDeviceSessions(r) \/ StartSession(r)
    BY <1>2, <1>3, <2>5 DEF EndDeviceSessions, StartSession
  <2>. QED BY <1>4, <2>1, <2>2, <2>3, <2>4, <2>5 DEF Login
<1>5. ASSUME NEW r \in Reqs, RefreshTokens(r) PROVE \A s \in Reqs : Signs(s)
  <2>1. ASSUME NEW t \in refresh, FindForRefresh(r, t) PROVE \A s \in Reqs : Signs(s)
    BY <1>1, <2>1 DEF FindForRefresh, Become, Start
  <2>2. CASE RevokeOld(r) \/ ReloadUser(r)
    BY <1>2, <1>3, <2>2 DEF RevokeOld, ReloadUser
  <2>. QED BY <1>5, <2>1, <2>2 DEF RefreshTokens
<1>6. ASSUME NEW r \in Reqs, Logout(r) PROVE \A s \in Reqs : Signs(s)
  <2>1. ASSUME NEW a \in access, NEW t \in refresh \union {None}, StartLogout(r, a, t)
        PROVE  \A s \in Reqs : Signs(s)
    BY <1>1, <2>1 DEF StartLogout, Become, Start
  <2>2. CASE Blacklist(r) \/ RevokeOne(r) \/ EndAllUserSessions(r)
    BY <1>2, <1>3, <2>2 DEF Blacklist, RevokeOne, EndAllUserSessions
  <2>. QED BY <1>6, <2>1, <2>2 DEF Logout
<1>7. ASSUME NEW r \in Reqs, Manage(r) PROVE \A s \in Reqs : Signs(s)
  <2>1. ASSUME NEW a \in access, NEW kind \in {"change", "force"}, FindForChange(r, a, kind)
        PROVE  \A s \in Reqs : Signs(s)
    BY <1>1, <2>1 DEF FindForChange, Become, Start
  <2>2. ASSUME NEW u \in Users, FindForReset(r, u) \/ DeactivateUser(r, u)
        PROVE  \A s \in Reqs : Signs(s)
    BY <1>1, <2>2 DEF FindForReset, DeactivateUser, Become, Start
  <2>3. CASE SaveAccount(r)
    BY <1>3, <2>3 DEF SaveAccount
  <2>4. CASE RevokeAll(r)
    BY <2>4, RevokeAllHolds
  <2>. QED BY <1>7, <2>1, <2>2, <2>3, <2>4 DEF Manage
<1>8. CASE Environment
  BY <1>8 DEF Environment, SetActive, Tick, PurgeExpired, KeyExpires, RedisFails,
     RedisRecovers, RedisGivesUp, Restart
<1>9. CASE UNCHANGED vars
  BY <1>9 DEF vars
<1>. QED BY <1>4, <1>5, <1>6, <1>7, <1>8, <1>9 DEF Next

-----------------------------------------------------------------------------
(* Each step as a step in the life of the tokens. *)

LEMMA NowStep ==
    ASSUME [Next]_vars
    PROVE  now' \in {now, now + 1}
BY DEF Next, vars, Login, FindForLogin, FindForCertificateLogin, Issue,
       StoreRefreshToken, EndDeviceSessions, StartSession, RefreshTokens,
       FindForRefresh, RevokeOld, ReloadUser, Logout, StartLogout, Blacklist,
       RevokeOne, EndAllUserSessions, Manage, FindForChange, FindForReset,
       DeactivateUser, SaveAccount, RevokeAll, Environment, SetActive, Tick,
       PurgeExpired, KeyExpires, RedisFails, RedisRecovers, RedisGivesUp, Restart

\* Steps that write no document let time pass, or take the last request away
\* that could have stored a token.
LEMMA PassStep ==
    ASSUME IInv, [Next]_vars, UNCHANGED stored
    PROVE  Lifecycle!Pass
<1>1. now \in Nat /\ now' \in Nat /\ now <= now' /\ now' \in {now, now + 1}
  BY NowStep DEF IInv, TypeOK
<1>2. Tokens \subseteq Token
  BY AuthAssumption DEF Tokens, Token
<1>3. \A t \in Token : Spent(t) => Spent(t)'
  BY <1>1, MintsSigned, SpentStays DEF Signs
<1>4. GoneTokens \subseteq GoneTokens'
  BY <1>2, <1>3 DEF GoneTokens, Held, Spent
<1>5. PICK S : S = GoneTokens'
  OBVIOUS
<1>6. /\ S \in SUBSET {t \in Tokens \ (LiveTokens \union RevokedTokens) : t.iat < now'}
      /\ GoneTokens' = GoneTokens \union S
  BY <1>4, <1>5 DEF GoneTokens, LiveTokens, RevokedTokens
<1>7. UNCHANGED <<LiveTokens, RevokedTokens>>
  BY DEF LiveTokens, RevokedTokens
<1>. QED BY <1>1, <1>6, <1>7 DEF Lifecycle!Pass

\* Steps that keep the documents and what requests hold of other tokens.
LEMMA GoneStays ==
    ASSUME UNCHANGED now, DOMAIN stored \subseteq DOMAIN stored',
           \A t \in Tokens \ DOMAIN stored' : Held(t)' <=> Held(t),
           \A t \in DOMAIN stored' \ DOMAIN stored : Held(t)
    PROVE  UNCHANGED GoneTokens
BY DEF GoneTokens

\* A document is inserted only by a request that holds its token.
LEMMA InsertStep ==
    ASSUME IInv, NEW r \in Reqs, StoreRefreshToken(r), stored' # stored
    PROVE  \E t \in Tokens : Lifecycle!Issue(t)
<1>1. /\ req[r] # None /\ req[r].mint \in Token /\ req[r].mint.iat <= now /\ At(r, "store")
  <2>1. At(r, "store")
    BY DEF StoreRefreshToken
  <2>2. /\ req[r] # None /\ req[r].stage = "store"
        /\ Carries(req[r]) /\ MintIsOwn(req[r])
    BY <2>1, InHand DEF Fits
  <2>. QED BY <2>1, <2>2, AuthAssumption DEF Carries, MintIsOwn
<1>2. PICK m : m = req[r].mint
  OBVIOUS
<1>3. /\ m \notin DOMAIN stored /\ DOMAIN stored' = DOMAIN stored \union {m}
      /\ stored'[m] = NewToken(r) /\ \A t \in DOMAIN stored : stored'[t] = stored[t]
      /\ UNCHANGED now
  BY <1>2 DEF StoreRefreshToken
<1>4. m \in Tokens /\ m.iat <= now
  BY <1>1, <1>2, AuthAssumption DEF IInv, TypeOK, Token, Tokens
<1>5. Held(m)
  BY <1>1, <1>2 DEF Held
<1>6. \A t \in Tokens \ DOMAIN stored' : Held(t)' <=> Held(t)
  <2>1. Finish(r) \/ Goto(r, "endDevice")
    BY DEF StoreRefreshToken
  <2>2. CASE Finish(r)
    BY <1>1, <1>2, <1>3, <2>2 DEF Finish, Held, IInv, TypeOK
  <2>3. CASE Goto(r, "endDevice")
    <3>1. /\ \A s \in Reqs : req'[s] # None => req[s] # None /\ req'[s].mint = req[s].mint
          /\ \A s \in Reqs \ {r} : req'[s] = req[s]
      BY <1>1, <2>3, GotoHolds
    <3>. QED BY <1>2, <1>3, <3>1 DEF Held
  <2>. QED BY <2>1, <2>2, <2>3
<1>7. UNCHANGED GoneTokens
  BY <1>3, <1>5, <1>6, GoneStays
<1>8. m \notin LiveTokens \union RevokedTokens \union GoneTokens
  BY <1>3, <1>5 DEF LiveTokens, RevokedTokens, GoneTokens
<1>9. LiveTokens' = LiveTokens \union {m} /\ RevokedTokens' = RevokedTokens
  BY <1>3 DEF LiveTokens, RevokedTokens, NewToken
<1>. QED BY <1>3, <1>4, <1>7, <1>8, <1>9 DEF Lifecycle!Issue

\* Revoking a set of tokens of which some may be revoked already.
LEMMA RefuseStep ==
    ASSUME IInv, NEW S, UNCHANGED <<now, GoneTokens>>,
           DOMAIN stored' = DOMAIN stored,
           \A t \in DOMAIN stored :
              stored'[t].revoked <=> stored[t].revoked \/ t \in S
    PROVE  Lifecycle!Refuse(LiveTokens \intersect S)
BY DEF LiveTokens, RevokedTokens, Lifecycle!Refuse

\* A rotation or a logout revokes one token, if it is not revoked yet.
LEMMA RevokeOneToken ==
    ASSUME IInv, NEW r \in Reqs, RevokeOld(r) \/ RevokeOne(r), stored' # stored
    PROVE  \/ \E t \in Tokens : Lifecycle!Revoke(t)
           \/ UNCHANGED <<now, LiveTokens, RevokedTokens, GoneTokens>>
<1>1. PICK old, new \in Stages : At(r, old) /\ Goto(r, new)
  BY DEF RevokeOld, RevokeOne, Stages
<1>2. PICK k : k = req[r].tok
  OBVIOUS
<1>3. /\ k \in DOMAIN stored /\ stored' = [stored EXCEPT ![k].revoked = TRUE]
      /\ UNCHANGED now
  BY <1>2 DEF RevokeOld, RevokeOne
<1>4. /\ DOMAIN stored' = DOMAIN stored
      /\ \A t \in DOMAIN stored :
            stored'[t].revoked <=> stored[t].revoked \/ t \in {k}
  BY <1>3 DEF IInv, TypeOK, TokenDoc
<1>5. \A t \in Tokens : Held(t)' <=> Held(t)
  <2>1. /\ req'[r] # None => req'[r].mint = req[r].mint
        /\ \A s \in Reqs \ {r} : req'[s] = req[s]
    BY <1>1, GotoHolds
  <2>2. req'[r] # None /\ req[r] # None
    BY <1>1, StageType, AuthAssumption DEF Goto, At, IInv, TypeOK
  <2>. QED BY <2>1, <2>2 DEF Held
<1>6. UNCHANGED GoneTokens
  BY <1>3, <1>4, <1>5, GoneStays
<1>7. Lifecycle!Refuse(LiveTokens \intersect {k})
  BY <1>3, <1>4, <1>6, RefuseStep
<1>8. CASE k \in LiveTokens
  <2>1. LiveTokens \intersect {k} = {k} /\ k \in Tokens
    BY <1>3, <1>8, StoredAreTokens
  <2>. QED BY <1>7, <1>8, <2>1 DEF Lifecycle!Revoke
<1>9. CASE k \notin LiveTokens
  <2>1. LiveTokens \intersect {k} = {}
    BY <1>9
  <2>. QED BY <1>3, <1>6, <1>7, <2>1 DEF Lifecycle!Refuse
<1>. QED BY <1>8, <1>9

\* A mass revocation revokes all tokens of the user at once.
LEMMA RevokeAllTokens ==
    ASSUME IInv, NEW r \in Reqs, RevokeAll(r)
    PROVE  \E u \in Users : Lifecycle!RevokeAll(u)
<1>1. PICK u \in Users : u = req[r].user
  BY InHand DEF RevokeAll, Request
<1>2. PICK S : S = {t \in Tokens : t.user = u}
  OBVIOUS
<1>3. /\ UNCHANGED now /\ DOMAIN stored' = DOMAIN stored
      /\ \A t \in DOMAIN stored :
            stored'[t].revoked <=> stored[t].revoked \/ t \in S
  BY <1>1, <1>2, StoredAreTokens
  DEF RevokeAll, RevokedFor, IInv, TypeOK, TokenDoc
<1>4. \A t \in Tokens : Held(t)' <=> Held(t)
  <2>1. None \notin Tokens
    BY AuthAssumption DEF Tokens, Token
  <2>. QED BY <2>1, RevokeAllHolds DEF Held
<1>5. UNCHANGED GoneTokens
  BY <1>3, <1>4, GoneStays
<1>6. Lifecycle!Refuse(LiveTokens \intersect S)
  BY <1>3, <1>5, RefuseStep
<1>7. LiveTokens \intersect S = {t \in LiveTokens : t.user = u}
  BY <1>2, StoredAreTokens DEF LiveTokens
<1>. QED BY <1>6, <1>7 DEF Lifecycle!RevokeAll

\* The database forgets a token when it has lived out its time.
LEMMA ForgetStep ==
    ASSUME IInv, Lasting, NEW t \in DOMAIN stored, PurgeExpired(t)
    PROVE  Lifecycle!Forget(t)
<1>1. /\ t \in Tokens /\ now \in Nat /\ t.iat \in Nat /\ stored[t].expires \in Nat
      /\ t.iat < stored[t].expires /\ t.iat + RefreshTTL <= stored[t].expires
      /\ RefreshTTL \in Nat
  BY StoredAreTokens, AuthAssumption DEF IInv, TypeOK, StoredIsPast, Lasting, Tokens, Token
<1>2. /\ UNCHANGED <<now, req>> /\ stored[t].expires <= now
      /\ DOMAIN stored' = DOMAIN stored \ {t}
      /\ \A k \in DOMAIN stored \ {t} : stored'[k] = stored[k]
      /\ ~Held(t)
  BY DEF PurgeExpired, Held
<1>3. now >= t.iat + RefreshTTL /\ t.iat < now
  BY <1>1, <1>2
<1>4. GoneTokens' = GoneTokens \union {t}
  BY <1>1, <1>2, <1>3 DEF GoneTokens, Held
<1>5. /\ t \in LiveTokens \union RevokedTokens
      /\ LiveTokens' = LiveTokens \ {t} /\ RevokedTokens' = RevokedTokens \ {t}
  BY <1>2 DEF LiveTokens, RevokedTokens
<1>. QED BY <1>2, <1>3, <1>4, <1>5 DEF Lifecycle!Forget

\* Refresh tokens are issued once, refused as they are revoked, forgotten when
\* they are past, and never come back.
THEOREM TokensLiveOnce == Spec => ImplementsLifecycle
<1>1. Init => Lasting /\ Lifecycle!Init
  BY AuthAssumption
  DEF Init, Lasting, Lifecycle!Init, LiveTokens, RevokedTokens, GoneTokens, Tokens
<1>2. IInv /\ Lasting /\ [Next]_vars => Lasting'
  BY LastingStep
<1>3. IInv /\ Lasting /\ [Next]_vars
        => [Lifecycle!Next]_<<now, LiveTokens, RevokedTokens, GoneTokens>>
  <2>. SUFFICES ASSUME IInv, Lasting, [Next]_vars, stored' # stored
                PROVE  \/ Lifecycle!Next
                       \/ UNCHANGED <<now, LiveTokens, RevokedTokens, GoneTokens>>
    BY PassStep DEF Lifecycle!Next
  <2>1. ASSUME NEW r \in Reqs, StoreRefreshToken(r) PROVE Lifecycle!Next
    BY <2>1, InsertStep DEF Lifecycle!Next
  <2>2. ASSUME NEW r \in Reqs, RevokeOld(r) \/ RevokeOne(r)
        PROVE  \/ Lifecycle!Next
               \/ UNCHANGED <<now, LiveTokens, RevokedTokens, GoneTokens>>
    BY <2>2, RevokeOneToken DEF Lifecycle!Next
  <2>3. ASSUME NEW r \in Reqs, RevokeAll(r) PROVE Lifecycle!Next
    BY <2>3, RevokeAllTokens DEF Lifecycle!Next
  <2>4. ASSUME NEW t \in DOMAIN stored, PurgeExpired(t) PROVE Lifecycle!Next
    BY <2>4, ForgetStep, StoredAreTokens DEF Lifecycle!Next
  <2>. QED BY <2>1, <2>2, <2>3, <2>4, StoredChanges
<1>. QED
  BY <1>1, <1>2, <1>3, InvariantHolds, PTL
  DEF Spec, ImplementsLifecycle, Lifecycle!Spec

-----------------------------------------------------------------------------
(* Tokens that clients have been given. *)

GivenLast ==
    "force" \notin Kinds =>
        \A t \in refresh : t \in DOMAIN stored \/ now >= t.iat + RefreshTTL

\* A token is given to a client only by requests that have stored it.
LEMMA GivenChanges ==
    ASSUME IInv, [Next]_vars, "force" \notin Kinds
    PROVE  \A t \in refresh' \ refresh : t \in DOMAIN stored'
<1>1. ASSUME NEW r \in Reqs, Issue(r) PROVE refresh' = refresh
  BY <1>1, InHand DEF Issue, Fits, Carries, clients
<1>2. ASSUME NEW r \in Reqs, StoreRefreshToken(r)
      PROVE  \A t \in refresh' \ refresh : t \in DOMAIN stored'
  BY <1>2 DEF StoreRefreshToken, Return, clients
<1>3. ASSUME NEW r \in Reqs, StartSession(r)
      PROVE  \A t \in refresh' \ refresh : t \in DOMAIN stored'
  <2>1. Known(req[r].mint) /\ req[r] # None
    BY <1>3, InHand DEF StartSession, Fits, Exchanges
  <2>2. req[r].mint \in DOMAIN stored
    BY <2>1 DEF Known, Spent
  <2>. QED BY <1>3, <2>2 DEF StartSession, Return
<1>4. ASSUME NEW r \in Reqs, Login(r), ~Issue(r), ~StoreRefreshToken(r), ~StartSession(r)
      PROVE  refresh' = refresh
  BY <1>4 DEF Login, FindForLogin, FindForCertificateLogin, EndDeviceSessions, clients
<1>5. ASSUME NEW r \in Reqs, RefreshTokens(r) \/ Logout(r) PROVE refresh' = refresh
  BY <1>5 DEF RefreshTokens, FindForRefresh, RevokeOld, ReloadUser, Logout, StartLogout,
     Blacklist, RevokeOne, EndAllUserSessions, clients
<1>6. ASSUME NEW r \in Reqs, Manage(r) PROVE refresh' = refresh
  BY <1>6 DEF Manage, FindForChange, FindForReset, DeactivateUser, SaveAccount,
     RevokeAll, clients
<1>7. ASSUME Environment PROVE refresh' = refresh
  BY <1>7 DEF Environment, SetActive, Tick, PurgeExpired, KeyExpires, RedisFails,
     RedisRecovers, RedisGivesUp, Restart, clients
<1>8. ASSUME UNCHANGED vars PROVE refresh' = refresh
  BY <1>8 DEF vars
<1>. QED BY <1>1, <1>2, <1>3, <1>4, <1>5, <1>6, <1>7, <1>8 DEF Next

LEMMA GivenStep ==
    ASSUME IInv, Lasting, GivenLast, [Next]_vars
    PROVE  GivenLast'
<1>. SUFFICES ASSUME "force" \notin Kinds, NEW t \in refresh', t \notin DOMAIN stored'
              PROVE  now' >= t.iat + RefreshTTL
  BY DEF GivenLast
<1>1. /\ t \in refresh /\ now \in Nat /\ now' \in Nat /\ now <= now'
      /\ t.iat \in Nat /\ RefreshTTL \in Nat
  BY GivenChanges, NowStep, AuthAssumption DEF IInv, TypeOK, Token
<1>2. CASE t \notin DOMAIN stored
  BY <1>1, <1>2 DEF GivenLast
<1>3. CASE t \in DOMAIN stored
  <2>1. PurgeExpired(t)
    <3>1. ASSUME NEW k \in DOMAIN stored, PurgeExpired(k), k # t PROVE FALSE
      BY <1>3, <3>1 DEF PurgeExpired
    <3>2. ASSUME NEW r \in Reqs, StoreRefreshToken(r) \/ RevokeAll(r) PROVE FALSE
      BY <1>3, <3>2 DEF StoreRefreshToken, RevokeAll, RevokedFor
    <3>3. ASSUME NEW r \in Reqs, RevokeOld(r) \/ RevokeOne(r) PROVE FALSE
      BY <1>3, <3>3 DEF RevokeOld, RevokeOne
    <3>. QED BY <1>3, <3>1, <3>2, <3>3, StoredChanges
  <2>. QED BY <1>1, <1>3, <2>1 DEF PurgeExpired, Lasting
<1>. QED BY <1>2, <1>3

\* A refresh token a client has been given stays exchangeable or known to be
\* revoked for its whole life, in a system in which no password change is
\* forced: those hand out tokens that are stored nowhere.
THEOREM GivenTokensAreStored ==
    ASSUME "force" \notin Kinds
    PROVE  Spec => []ReturnedTokensAreStored
<1>1. Init => Lasting /\ GivenLast
  BY DEF Init, Lasting, GivenLast
<1>2. IInv /\ Lasting /\ [Next]_vars => Lasting'
  BY LastingStep
<1>3. IInv /\ Lasting /\ GivenLast /\ [Next]_vars => GivenLast'
  BY GivenStep
<1>4. GivenLast => ReturnedTokensAreStored
  BY DEF GivenLast, ReturnedTokensAreStored
<1>. QED BY <1>1, <1>2, <1>3, <1>4, InvariantHolds, PTL DEF Spec
=============================================================================
