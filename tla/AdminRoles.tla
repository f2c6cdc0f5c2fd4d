----------------------------- MODULE AdminRoles -----------------------------
(***************************************************************************)
(* Accounts, roles and the claims that carry them: AdminService and the    *)
(* part of UsersService it drives, the seeding of the first account by     *)
(* AppModule, and the role claim that AuthService signs into a token and   *)
(* JwtStrategy and RolesGuard trust until the token expires.               *)
(*                                                                         *)
(* Passwords, the blacklist and the revocation of refresh tokens are those *)
(* of module AuthTokens; here every refresh token is taken to be live,     *)
(* every presented password to be right and every forced change to be due, *)
(* which only lets more requests through.                                  *)
(***************************************************************************)
EXTENDS Naturals, FiniteSets

CONSTANTS
    Ids,            \* _id of the documents of the users collection
    Emails,
    SeedEmail,      \* SEED_SUPER_ADMIN_EMAIL
    Reqs,           \* requests that can be in flight at once
    Grantable,      \* the roles that requests name
    AccessTTL,      \* jwt.accessExpiration, in seconds
    MaxTime,        \* bound: the last second
    MaxAccess,      \* bound: unexpired access tokens at a login or a refresh
    None

ROLE_HIERARCHY ==
    [SUPER_ADMIN |-> 100, ADMIN |-> 80, MANAGER |-> 60, EMPLOYEE |-> 40,
     VIEWER |-> 20]

Role == DOMAIN ROLE_HIERARCHY

\* @Roles(Role.SUPER_ADMIN, Role.ADMIN)
ADMIN_ROLES == {"SUPER_ADMIN", "ADMIN"}

User == [email: Emails, role: Role, active: BOOLEAN]

\* An access token.  late is history: the document its claims were copied from
\* changed before it was signed.
Access == [user: Ids, role: Role, iat: Nat, late: BOOLEAN]

\* Who holds a refresh token, and the role in the last one.
Refresh == [Ids -> Role \union {None}]

\* $set: the fields of the body that are there.
Change == [role: Role] \union [active: BOOLEAN]

Issuing ==
    [kind: {"pair", "force"}, stage: {"reload", "sign", "store"},
     user: Ids, role: Role, iat: Nat, late: BOOLEAN]
Creating == [kind: {"create"}, stage: {"find", "create"},
             email: Emails, role: Role]
Updating == [kind: {"update"}, stage: {"write"}, target: Ids, set: Change]

ASSUME RolesAssumption ==
    /\ SeedEmail \in Emails
    /\ Grantable \subseteq Role
    /\ AccessTTL \in Nat /\ MaxTime \in Nat /\ MaxAccess \in Nat
    /\ None \notin User \union Issuing \union Creating \union Updating

VARIABLES
    now,        \* the second
    server,     \* the process: down, starting (find, hash) or serving
    users,      \* the users collection, by _id
    access,     \* access tokens clients hold and that have not expired
    refresh,    \* the refresh tokens clients hold
    changed,    \* history: when the role or the flag of an account changed last
    req         \* requests in flight

vars == <<now, server, users, access, refresh, changed, req>>

TypeOK ==
    /\ now \in 0..MaxTime
    /\ server \in {"down", "find", "hash", "serving"}
    /\ users \in [Ids -> User \union {None}]
    /\ access \subseteq Access /\ refresh \in Refresh
    /\ changed \in [Ids -> 0..MaxTime]
    /\ req \in [Reqs -> Issuing \union Creating \union Updating \union {None}]

Init ==
    /\ now = 0
    /\ server = "down"
    /\ users = [i \in Ids |-> None]
    /\ access = {} /\ refresh = [i \in Ids |-> None]
    /\ changed = [i \in Ids |-> 0]
    /\ req = [r \in Reqs |-> None]

-----------------------------------------------------------------------------
Accounts == {i \in Ids : users[i] # None}

Taken(e) == \E i \in Accounts : users[i].email = e

Free == Cardinality(access) < MaxAccess

Idle(r) == server = "serving" /\ req[r] = None

At(r, stage) == req[r] # None /\ req[r].stage = stage

Become(r, q) == req' = [req EXCEPT ![r] = q]
Finish(r) == req' = [req EXCEPT ![r] = None]

\* JwtAuthGuard and JwtStrategy: only the token is looked at.
Accepted(t) == t \in access /\ now < t.iat + AccessTTL

\* RolesGuard: the claim is one of those the route lists.
Allowed(t, roles) == Accepted(t) /\ t.role \in roles

\* Mutant: the schema has no default for isActive.
InsertWithoutDefault(e, role) ==
    \E i \in Ids \ Accounts :
        /\ ~Taken(e)
        /\ users' = [users EXCEPT ![i] =
                        [email |-> e, role |-> role, active |-> None]]

\* create(): the unique index on email decides, whatever was found before.
Insert(e, role) ==
    \E i \in Ids \ Accounts :
        /\ ~Taken(e)
        /\ users' = [users EXCEPT ![i] =
                        [email |-> e, role |-> role, active |-> TRUE]]

-----------------------------------------------------------------------------
(* AppModule.onModuleInit, at every start of the process. *)
Start ==
    /\ server = "down"
    /\ server' = "find"
    /\ UNCHANGED <<now, users, access, refresh, changed, req>>

\* Mutant: the account is seeded in the background.
SeedInBackground ==
    /\ server = "find"
    /\ server' \in {"serving", "hash"}
    /\ UNCHANGED <<now, users, access, refresh, changed, req>>

\* Mutant: an account that exists is brought back to its seeded state.
SeedUpsert ==
    /\ server = "find"
    /\ server' = IF Taken(SeedEmail) THEN "serving" ELSE "hash"
    /\ users' = [i \in Ids |->
                    IF i \in Accounts /\ users[i].email = SeedEmail
                    THEN [users[i] EXCEPT !.role = "SUPER_ADMIN", !.active = TRUE]
                    ELSE users[i]]
    /\ UNCHANGED <<now, access, refresh, changed, req>>

SeedFind ==
    /\ server = "find"
    /\ server' = IF Taken(SeedEmail) THEN "serving" ELSE "hash"
    /\ UNCHANGED <<now, users, access, refresh, changed, req>>

SeedCreate ==
    /\ server = "hash"
    /\ Insert(SeedEmail, "SUPER_ADMIN")
    /\ server' = "serving"
    /\ UNCHANGED <<now, access, refresh, changed, req>>

Crash ==
    /\ server # "down"
    /\ server' = "down"
    /\ req' = [r \in Reqs |-> None]
    /\ UNCHANGED <<now, users, access, refresh, changed>>

-----------------------------------------------------------------------------
(* Tokens: the claims are copied from a document, signed and handed out.   *)
Copy(kind, stage, i, role) ==
    [kind |-> kind, stage |-> stage, user |-> i, role |-> role,
     iat |-> 0, late |-> FALSE]

\* login and certificateLogin
FindForLogin(r, i) ==
    /\ Idle(r) /\ Free
    /\ i \in Accounts
    /\ users[i].active
    /\ Become(r, Copy("pair", "sign", i, users[i].role))
    /\ UNCHANGED <<now, server, users, access, refresh, changed>>

FindForRefresh(r, i) ==
    /\ Idle(r) /\ Free
    /\ refresh[i] # None
    /\ Become(r, Copy("pair", "reload", i, refresh[i]))
    /\ UNCHANGED <<now, server, users, access, refresh, changed>>

FindForForce(r, t) ==
    /\ Idle(r) /\ Cardinality(access) <= MaxAccess
    /\ Accepted(t)
    /\ Become(r, Copy("force", "reload", t.user, t.role))
    /\ UNCHANGED <<now, server, users, access, refresh, changed>>

\* Mutant: the role of the refresh token is signed again.
ReloadFlagOnly(r) ==
    /\ At(r, "reload")
    /\ \/ /\ req[r].kind = "force" \/ users[req[r].user].active
          /\ Become(r, [req[r] EXCEPT !.stage = "sign"])
       \/ /\ req[r].kind = "pair" /\ ~users[req[r].user].active
          /\ Finish(r)
    /\ UNCHANGED <<now, server, users, access, refresh, changed>>

\* Mutant: nobody looks at the flag.
ReloadRoleOnly(r) ==
    /\ At(r, "reload")
    /\ Become(r, [req[r] EXCEPT !.stage = "sign", !.role = users[req[r].user].role])
    /\ UNCHANGED <<now, server, users, access, refresh, changed>>

\* Only refreshTokens looks at the flag of what it has loaded.
ReloadUser(r) ==
    /\ At(r, "reload")
    /\ \/ /\ req[r].kind = "force" \/ users[req[r].user].active
          /\ Become(r, [req[r] EXCEPT !.stage = "sign",
                                      !.role = users[req[r].user].role])
       \/ /\ req[r].kind = "pair" /\ ~users[req[r].user].active
          /\ Finish(r)
    /\ UNCHANGED <<now, server, users, access, refresh, changed>>

Return(q) ==
    /\ access' = access \union
          {[user |-> q.user, role |-> q.role, iat |-> q.iat, late |-> q.late]}
    /\ refresh' = [refresh EXCEPT ![q.user] = q.role]

\* generateTokens; forceChangePassword returns what it has signed, the others
\* store the refresh token first.
Sign(r) ==
    /\ At(r, "sign")
    /\ \/ /\ req[r].kind = "force"
          /\ Return([req[r] EXCEPT !.iat = now])
          /\ Finish(r)
       \/ /\ req[r].kind # "force"
          /\ Become(r, [req[r] EXCEPT !.stage = "store", !.iat = now])
          /\ UNCHANGED <<access, refresh>>
    /\ UNCHANGED <<now, server, users, changed>>

StoreRefreshToken(r) ==
    /\ At(r, "store")
    /\ Return(req[r])
    /\ Finish(r)
    /\ UNCHANGED <<now, server, users, changed>>

-----------------------------------------------------------------------------
(* The routes of AdminController that write an account.  Everything up to   *)
(* the first operation on MongoDB looks only at the claims.                *)

\* validateRoleChange
Below(role, claim) == ROLE_HIERARCHY[role] < ROLE_HIERARCHY[claim]

AdmitCreate(r, t, e, role) ==
    /\ Idle(r)
    /\ Allowed(t, ADMIN_ROLES)
    /\ Below(role, t.role)
    /\ Become(r, [kind |-> "create", stage |-> "find", email |-> e, role |-> role])
    /\ UNCHANGED <<now, server, users, access, refresh, changed>>

FindByEmail(r) ==
    /\ At(r, "find")
    /\ IF Taken(req[r].email) THEN Finish(r)
       ELSE Become(r, [req[r] EXCEPT !.stage = "create"])
    /\ UNCHANGED <<now, server, users, access, refresh, changed>>

\* Mutant: email is not a unique index.
CreateUserUnindexed(r) ==
    /\ At(r, "create")
    /\ \E i \in Ids \ Accounts :
          users' = [users EXCEPT ![i] = [email |-> req[r].email,
                                         role |-> req[r].role, active |-> TRUE]]
    /\ Finish(r)
    /\ UNCHANGED <<now, server, access, refresh, changed>>

CreateUser(r) ==
    /\ At(r, "create")
    /\ \/ Insert(req[r].email, req[r].role)
       \/ Taken(req[r].email) /\ UNCHANGED users
    /\ Finish(r)
    /\ UNCHANGED <<now, server, access, refresh, changed>>

Set(i, fields) ==
    [kind |-> "update", stage |-> "write", target |-> i, set |-> fields]

AdmitUpdate(r, t, i, dto) ==
    /\ Idle(r)
    /\ Allowed(t, ADMIN_ROLES)
    /\ i \in Accounts
    /\ Become(r, Set(i, dto))
    /\ UNCHANGED <<now, server, users, access, refresh, changed>>

\* The bodies of PATCH users/:id that name a role or the flag (a body
\* with both is left out); names and departments are left out.
Dtos == [role: Grantable] \union [active: BOOLEAN]

AdmitActivate(r, t, i) == AdmitUpdate(r, t, i, [active |-> TRUE])

AdmitDeactivate(r, t, i) == i # t.user /\ AdmitUpdate(r, t, i, [active |-> FALSE])

AdmitChangeRole(r, t, i, role) ==
    /\ Idle(r)
    /\ Allowed(t, {"SUPER_ADMIN"})
    /\ i \in Accounts \ {t.user}
    /\ Below(role, t.role)
    /\ Become(r, Set(i, [role |-> role]))
    /\ UNCHANGED <<now, server, users, access, refresh, changed>>

Apply(u, set) ==
    [f \in DOMAIN u |-> IF f \in DOMAIN set THEN set[f] ELSE u[f]]

\* History: what a request has copied from the document of i is out of date.
Outdate(q, i) ==
    IF q # None /\ q.kind \in {"pair", "force"} /\ q.user = i
          /\ q.stage = "sign"
    THEN [q EXCEPT !.late = TRUE] ELSE q

\* findByIdAndUpdate
UpdateUser(r) ==
    /\ At(r, "write")
    /\ LET i == req[r].target
           u == Apply(users[i], req[r].set)
       IN  /\ users' = [users EXCEPT ![i] = u]
           /\ \/ /\ u = users[i]
                 /\ Finish(r)
                 /\ UNCHANGED changed
              \/ /\ u # users[i]
                 /\ changed' = [changed EXCEPT ![i] = now]
                 /\ req' = [q \in Reqs |->
                               IF q = r THEN None ELSE Outdate(req[q], i)]
    /\ UNCHANGED <<now, server, access, refresh>>

\* A second passes; an access token that has expired is dropped from the model.
Tick ==
    /\ now < MaxTime
    /\ now' = now + 1
    /\ access' = {t \in access : now + 1 < t.iat + AccessTTL}
    /\ UNCHANGED <<server, users, refresh, changed, req>>

-----------------------------------------------------------------------------
Bootstrap == Start \/ SeedFind \/ SeedCreate \/ Crash

Tokens(r) ==
    \/ \E i \in Ids : FindForLogin(r, i) \/ FindForRefresh(r, i)
    \/ \E t \in access : FindForForce(r, t)
    \/ ReloadUser(r)
    \/ Sign(r)
    \/ StoreRefreshToken(r)

Administer(r) ==
    \/ \E t \in access, e \in Emails, role \in Grantable : AdmitCreate(r, t, e, role)
    \/ FindByEmail(r)
    \/ CreateUser(r)
    \/ \E t \in access, i \in Ids :
          \/ \E dto \in Dtos : AdmitUpdate(r, t, i, dto)
          \/ AdmitActivate(r, t, i)
          \/ AdmitDeactivate(r, t, i)
          \/ \E role \in Grantable : AdmitChangeRole(r, t, i, role)
    \/ UpdateUser(r)

Next ==
    \/ Bootstrap
    \/ \E r \in Reqs : Tokens(r) \/ Administer(r)
    \/ Tick

Spec == Init /\ [][Next]_vars

-----------------------------------------------------------------------------
(* Properties. *)

\* A change of role takes effect everywhere within the life of an access
\* token: a token that is still accepted with another role than the account's
\* was signed before the last change, or by a request that had copied the role
\* before it.  Refreshing never prolongs a role.
ClaimsAreRecent ==
    \A t \in access :
        Accepted(t) /\ t.role # users[t.user].role
            => now < changed[t.user] + AccessTTL \/ t.late

\* A deactivated account is handed no new token: what it still receives was
\* signed before the deactivation or by a request that had read the account
\* before it.  (forceChangePassword does not look at the flag.)
InactiveGetsNoTokens ==
    [][\A t \in access' \ access :
          \/ users[t.user].active
          \/ t.late \/ t.iat <= changed[t.user]
          \/ \E r \in Reqs : At(r, "sign") /\ req[r].kind = "force"]_vars

\* Two creations that both found no account with an address do not leave two
\* accounts with it, and neither does the seeding.
OneAccountPerEmail ==
    \A i, j \in Accounts : users[i].email = users[j].email => i = j

\* Whenever requests are served the seeded account exists, so a crash between
\* looking for it and creating it is made good by the next start.
ServesSeeded == server = "serving" => Taken(SeedEmail)

\* Starting the process again undoes no decision of an administrator: an
\* account that exists keeps its role and its flag.
SeedLeavesAccountsAlone ==
    [][\A i \in Accounts : users'[i] = users[i] \/ server = "serving"]_vars
=============================================================================
