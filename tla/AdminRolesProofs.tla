-------------------------- MODULE AdminRolesProofs --------------------------
(***************************************************************************)
(* Accounts and claims, for any number of accounts, addresses, requests    *)
(* and any life of an access token.                                        *)
(*                                                                         *)
(* ClaimsAreRecent is not inductive: it looks at the tokens that clients   *)
(* hold, and a token is signed from a copy of the account and handed out   *)
(* by a later step.  The invariant follows the claim all the way: a copy   *)
(* has the account's role or is marked late, and a signed claim differs    *)
(* from the account only if it is late or no younger than the last change. *)
(***************************************************************************)
EXTENDS AdminRoles, TLAPS

\* A claim about account i that was signed at iat agrees with the account.
Agrees(role, i, iat, late) ==
    role = users[i].role \/ iat <= changed[i] \/ late

ClaimsAgree ==
    \A t \in access :
        t.user \in Accounts /\ t.iat <= now /\ Agrees(t.role, t.user, t.iat, t.late)

\* What a request has copied from an account, and what it has signed.  Only
\* forceChangePassword signs for an account that is not active.
CopyAgrees(q) ==
    /\ q.user \in Accounts
    /\ q.stage = "sign" =>
          \/ q.late
          \/ /\ q.role = users[q.user].role
             /\ q.kind = "pair" => users[q.user].active
    /\ q.stage = "store" =>
          /\ q.kind = "pair"
          /\ q.iat <= now
          /\ \/ q.late \/ q.iat <= changed[q.user]
             \/ q.role = users[q.user].role /\ users[q.user].active

CopiesAgree ==
    \A r \in Reqs :
        req[r] # None /\ req[r].kind \in {"pair", "force"} => CopyAgrees(req[r])

TargetsExist ==
    \A r \in Reqs : At(r, "write") => req[r].target \in Accounts

HoldersExist == \A i \in Ids : refresh[i] # None => i \in Accounts

ChangesArePast == \A i \in Ids : changed[i] <= now

OnlyServedWait == server # "serving" => \A r \in Reqs : req[r] = None

IInv ==
    /\ TypeOK
    /\ ClaimsAgree
    /\ CopiesAgree
    /\ TargetsExist
    /\ HoldersExist
    /\ ChangesArePast
    /\ OnlyServedWait
    /\ OneAccountPerEmail
    /\ ServesSeeded

LEMMA InitHolds == Init => IInv
BY RolesAssumption
DEF Init, IInv, TypeOK, Refresh, ClaimsAgree, CopiesAgree, TargetsExist,
    HoldersExist, ChangesArePast, OnlyServedWait, OneAccountPerEmail,
    ServesSeeded, Accounts, At

-----------------------------------------------------------------------------
(* Helpers. *)

Pending == Issuing \union Creating \union Updating

\* The stage of a request tells what it is doing.
LEMMA StageOf ==
    ASSUME NEW q \in Pending
    PROVE  /\ q # None
           /\ q.stage \in {"reload", "sign", "store"} => q \in Issuing
           /\ q.stage \in {"find", "create"} => q \in Creating
           /\ q.stage = "write" => q \in Updating
           /\ q.kind \in {"pair", "force"} => q \in Issuing
BY RolesAssumption DEF Pending, Issuing, Creating, Updating

\* A change of some fields of an account keeps its address and its types.
LEMMA ApplyKeeps ==
    ASSUME NEW u \in User, NEW set \in Change
    PROVE  /\ Apply(u, set) \in User
           /\ Apply(u, set).email = u.email
<1>1. DOMAIN u = {"email", "role", "active"}
  BY DEF User
<1>2. CASE set \in [role: Role]
  <2>1. Apply(u, set) = [email |-> u.email, role |-> set.role, active |-> u.active]
    BY <1>1, <1>2 DEF Apply, User
  <2>. QED BY <1>2, <2>1 DEF User
<1>3. CASE set \in [active: BOOLEAN]
  <2>1. Apply(u, set) = [email |-> u.email, role |-> u.role, active |-> set.active]
    BY <1>1, <1>3 DEF Apply, User
  <2>. QED BY <1>3, <2>1 DEF User
<1>. QED BY <1>2, <1>3 DEF Change

-----------------------------------------------------------------------------
(* Types. *)

\* Every route that changes an account asks for a change of its fields.
LEMMA WritesAreChanges ==
    ASSUME NEW r \in Reqs, NEW t, NEW i \in Ids,
           \/ \E dto \in Dtos : AdmitUpdate(r, t, i, dto)
           \/ AdmitActivate(r, t, i)
           \/ AdmitDeactivate(r, t, i)
           \/ \E role \in Grantable : AdmitChangeRole(r, t, i, role)
    PROVE  \E set \in Change :
              /\ Idle(r) /\ i \in Accounts
              /\ Become(r, Set(i, set))
              /\ UNCHANGED <<now, server, users, access, refresh, changed>>
BY RolesAssumption
DEF Dtos, Change, AdmitUpdate, AdmitActivate, AdmitDeactivate, AdmitChangeRole

\* The document a copy was made from is there.
LEMMA CopyOf ==
    ASSUME IInv, NEW r \in Reqs,
           \E stage \in {"reload", "sign", "store"} : At(r, stage)
    PROVE  /\ req[r] \in Issuing
           /\ req[r].user \in Accounts
           /\ users[req[r].user] \in User
<1>1. req[r] \in Issuing
  BY StageOf DEF IInv, TypeOK, At, Pending
<1>2. req[r].kind \in {"pair", "force"} /\ req[r] # None
  BY <1>1 DEF Issuing, At
<1>. QED BY <1>1, <1>2 DEF IInv, CopiesAgree, CopyAgrees, TypeOK, Accounts

\* So is the document an update is for.
LEMMA TargetOf ==
    ASSUME IInv, NEW r \in Reqs, At(r, "write")
    PROVE  /\ req[r] \in Updating
           /\ req[r].target \in Accounts
           /\ users[req[r].target] \in User
<1>1. req[r] \in Updating
  BY StageOf DEF IInv, TypeOK, At, Pending
<1>. QED BY <1>1 DEF IInv, TargetsExist, TypeOK, Accounts

\* Types are kept by every step.
LEMMA TypeStep ==
    ASSUME IInv, [Next]_vars
    PROVE  TypeOK'
<1>. USE RolesAssumption DEF IInv, TypeOK, Refresh, Accounts, Idle, Become, Finish
<1>1. CASE Start
  BY <1>1 DEF Start
<1>2. CASE SeedFind
  BY <1>2 DEF SeedFind
<1>3. CASE SeedCreate
  BY <1>3 DEF SeedCreate, Insert, User, Role, ROLE_HIERARCHY
<1>4. CASE Crash
  BY <1>4 DEF Crash
<1>5. ASSUME NEW r \in Reqs, NEW i \in Ids, FindForLogin(r, i) PROVE TypeOK'
  BY <1>5 DEF FindForLogin, Copy, Issuing, User
<1>6. ASSUME NEW r \in Reqs, NEW i \in Ids, FindForRefresh(r, i) PROVE TypeOK'
  BY <1>6 DEF FindForRefresh, Copy, Issuing
<1>7. ASSUME NEW r \in Reqs, NEW t \in access, FindForForce(r, t) PROVE TypeOK'
  BY <1>7 DEF FindForForce, Copy, Issuing, Access
<1>8. ASSUME NEW r \in Reqs, ReloadUser(r) PROVE TypeOK'
  <2>1. req[r] \in Issuing /\ users[req[r].user].role \in Role
    BY <1>8, CopyOf DEF ReloadUser, User
  <2>2. [req[r] EXCEPT !.stage = "sign", !.role = users[req[r].user].role]
           \in Issuing
    BY <2>1 DEF Issuing
  <2>. QED BY <1>8, <2>2 DEF ReloadUser
<1>9. ASSUME NEW r \in Reqs, Sign(r) PROVE TypeOK'
  <2>1. req[r] \in Issuing
    BY <1>9, CopyOf DEF Sign
  <2>. DEFINE p == [req[r] EXCEPT !.iat = now]
  <2>2. now \in Nat
    OBVIOUS
  <2>3. [req[r] EXCEPT !.stage = "store", !.iat = now] \in Issuing /\ p \in Issuing
    BY <2>1, <2>2 DEF Issuing
  <2>4. CASE Become(r, [req[r] EXCEPT !.stage = "store", !.iat = now])
             /\ UNCHANGED <<access, refresh>>
    BY <1>9, <2>3, <2>4 DEF Sign
  <2>5. CASE Return(p) /\ Finish(r)
    <3>. HIDE DEF p
    <3>1. /\ [user |-> p.user, role |-> p.role, iat |-> p.iat, late |-> p.late]
                \in Access
          /\ p.user \in Ids /\ p.role \in Role
      BY <2>3 DEF Issuing, Access
    <3>2. access' \subseteq Access /\ refresh' \in Refresh
      BY <2>5, <3>1 DEF Return
    <3>. QED BY <1>9, <2>5, <3>2 DEF Sign
  <2>. QED BY <1>9, <2>4, <2>5 DEF Sign
<1>10. ASSUME NEW r \in Reqs, StoreRefreshToken(r) PROVE TypeOK'
  <2>1. req[r] \in Issuing
    BY <1>10, CopyOf DEF StoreRefreshToken
  <2>. QED BY <1>10, <2>1 DEF StoreRefreshToken, Return, Issuing, Access
<1>11. ASSUME NEW r \in Reqs, NEW t \in access, NEW e \in Emails,
             NEW role \in Grantable, AdmitCreate(r, t, e, role)
       PROVE TypeOK'
  BY <1>11 DEF AdmitCreate, Creating
<1>12. ASSUME NEW r \in Reqs, FindByEmail(r) PROVE TypeOK'
  BY <1>12, StageOf DEF FindByEmail, At, Pending, Creating
<1>13. ASSUME NEW r \in Reqs, CreateUser(r) PROVE TypeOK'
  <2>1. req[r] \in Creating
    BY <1>13, StageOf DEF CreateUser, At, Pending
  <2>2. req[r].email \in Emails /\ req[r].role \in Role
    BY <2>1 DEF Creating
  <2>3. [email |-> req[r].email, role |-> req[r].role, active |-> TRUE] \in User
    BY <2>2 DEF User
  <2>4. users' \in [Ids -> User \union {None}]
    BY <1>13, <2>3 DEF CreateUser, Insert
  <2>. QED BY <1>13, <2>4 DEF CreateUser
<1>14. ASSUME NEW r \in Reqs, NEW i \in Ids, NEW set \in Change,
             Idle(r), i \in Accounts, Become(r, Set(i, set)),
             UNCHANGED <<now, server, users, access, refresh, changed>>
       PROVE TypeOK'
  BY <1>14 DEF Set, Updating
<1>15. ASSUME NEW r \in Reqs, UpdateUser(r) PROVE TypeOK'
  <2>. DEFINE i == req[r].target  u == Apply(users[i], req[r].set)
  <2>1. i \in Ids /\ u \in User
    BY <1>15, TargetOf, ApplyKeeps DEF UpdateUser, Updating
  <2>2. users' \in [Ids -> User \union {None}] /\ changed' \in [Ids -> 0..MaxTime]
    BY <1>15, <2>1 DEF UpdateUser
  <2>3. \A q \in Pending \union {None} : Outdate(q, i) \in Pending \union {None}
    <3>1. \A q \in Issuing : [q EXCEPT !.late = TRUE] \in Issuing
      BY DEF Issuing
    <3>. QED BY <3>1, StageOf DEF Outdate, Pending
  <2>4. req' \in [Reqs -> Pending \union {None}]
    BY <1>15, <2>3 DEF UpdateUser, Pending
  <2>. QED BY <1>15, <2>2, <2>4 DEF UpdateUser, Pending
<1>16. CASE Tick
  BY <1>16 DEF Tick
<1>17. CASE UNCHANGED vars
  BY <1>17 DEF vars
<1>. QED
  BY <1>1, <1>2, <1>3, <1>4, <1>5, <1>6, <1>7, <1>8, <1>9, <1>10, <1>11, <1>12,
     <1>13, <1>14, <1>15, <1>16, <1>17, WritesAreChanges
  DEF Next, Bootstrap, Tokens, Administer

-----------------------------------------------------------------------------
(* The invariant is kept. *)

\* A step that changes no account, hands out nothing and leaves the time alone
\* only has to look after the request it moves.
LEMMA RequestStep ==
    ASSUME IInv, TypeOK', NEW r \in Reqs,
           UNCHANGED <<now, server, users, access, refresh, changed>>,
           server = "serving",
           NEW q \in Pending \union {None}, Become(r, q),
           q \in Issuing => CopyAgrees(q),
           q \in Updating => q.target \in Accounts
    PROVE  IInv'
<1>. USE DEF IInv
<1>1. Accounts' = Accounts
  BY DEF Accounts
<1>2. req' = [req EXCEPT ![r] = q] /\ req \in [Reqs -> Pending \union {None}]
  BY DEF Become, TypeOK, Pending
<1>3. ClaimsAgree' /\ HoldersExist' /\ ChangesArePast' /\ OneAccountPerEmail'
      /\ ServesSeeded' /\ OnlyServedWait'
  BY <1>1 DEF ClaimsAgree, HoldersExist, ChangesArePast, OneAccountPerEmail,
              ServesSeeded, OnlyServedWait, Agrees, Taken
<1>4. CopiesAgree'
  BY <1>1, <1>2, StageOf DEF CopiesAgree, CopyAgrees, Agrees
<1>5. TargetsExist'
  BY <1>1, <1>2, StageOf DEF TargetsExist, At
<1>. QED BY <1>3, <1>4, <1>5

\* A new account disturbs no other.
LEMMA InsertStep ==
    ASSUME IInv, NEW e \in Emails, NEW role \in Role, Insert(e, role)
    PROVE  /\ Accounts \subseteq Accounts'
           /\ \A j \in Accounts : users'[j] = users[j]
           /\ OneAccountPerEmail'
           /\ Taken(e)'
           /\ Taken(SeedEmail) => Taken(SeedEmail)'
<1>. DEFINE new == [email |-> e, role |-> role, active |-> TRUE]
<1>1. PICK i \in Ids \ Accounts : ~Taken(e) /\ users' = [users EXCEPT ![i] = new]
  BY DEF Insert
<1>2. new \in User /\ new.email = e
  BY DEF User
<1>3. new # None
  BY <1>2, RolesAssumption
<1>. HIDE DEF new
<1>4. /\ users'[i] = new
      /\ \A j \in Ids : j # i => users'[j] = users[j]
  BY <1>1 DEF IInv, TypeOK
<1>5. Accounts' = Accounts \union {i} /\ i \notin Accounts
  BY <1>1, <1>3, <1>4 DEF Accounts
<1>6. OneAccountPerEmail'
  BY <1>1, <1>2, <1>4, <1>5 DEF IInv, OneAccountPerEmail, Taken, Accounts
<1>7. Taken(e)' /\ (Taken(SeedEmail) => Taken(SeedEmail)')
  BY <1>2, <1>4, <1>5 DEF Taken, Accounts
<1>. QED BY <1>4, <1>5, <1>6, <1>7 DEF Accounts

\* A pair whose claims agree with the account may be handed out.
LEMMA ReturnStep ==
    ASSUME IInv, TypeOK', NEW r \in Reqs, NEW q \in Issuing,
           UNCHANGED <<now, server, users, changed>>,
           Return(q), Finish(r),
           q.user \in Accounts, q.iat <= now,
           Agrees(q.role, q.user, q.iat, q.late)
    PROVE  IInv'
<1>. USE DEF IInv
<1>1. Accounts' = Accounts
  BY DEF Accounts
<1>2. ClaimsAgree'
  BY <1>1 DEF ClaimsAgree, Return, Agrees
<1>3. HoldersExist'
  BY <1>1 DEF HoldersExist, Return, TypeOK, Refresh
<1>4. /\ CopiesAgree' /\ TargetsExist' /\ ChangesArePast' /\ OnlyServedWait'
      /\ OneAccountPerEmail' /\ ServesSeeded'
  BY <1>1 DEF CopiesAgree, TargetsExist, ChangesArePast, OnlyServedWait,
              OneAccountPerEmail, ServesSeeded, Taken, Finish, At, TypeOK,
              CopyAgrees, Agrees
<1>. QED BY <1>2, <1>3, <1>4

\* A write marks everything that was read or signed before it.
LEMMA UpdateStep ==
    ASSUME IInv, TypeOK', NEW r \in Reqs, UpdateUser(r)
    PROVE  IInv'
<1>. DEFINE i == req[r].target  u == Apply(users[i], req[r].set)
<1>1. /\ i \in Accounts /\ u \in User /\ u.email = users[i].email
      /\ u # None /\ server = "serving"
  BY TargetOf, ApplyKeeps, RolesAssumption
  DEF UpdateUser, Updating, IInv, OnlyServedWait, At
<1>2. users' = [users EXCEPT ![i] = u] /\ UNCHANGED <<now, server, access, refresh>>
  BY DEF UpdateUser
<1>. HIDE DEF u
<1>3. /\ users'[i] = u
      /\ \A j \in Ids : j # i => users'[j] = users[j]
  BY <1>1, <1>2 DEF IInv, TypeOK, Accounts
<1>4. Accounts' = Accounts
  BY <1>1, <1>3 DEF Accounts
<1>5. \A j \in Accounts : users'[j].email = users[j].email
  BY <1>1, <1>3 DEF Accounts
<1>6. /\ HoldersExist' /\ OneAccountPerEmail' /\ ServesSeeded'
  BY <1>2, <1>4, <1>5 DEF IInv, HoldersExist, OneAccountPerEmail, ServesSeeded, Taken
<1>7. OnlyServedWait'
  BY <1>1, <1>2 DEF OnlyServedWait
<1>8. CASE u = users[i] /\ Finish(r) /\ UNCHANGED changed
  <2>1. users' = users
    BY <1>2, <1>8 DEF IInv, TypeOK
  <2>. QED
    BY <1>2, <1>4, <1>6, <1>7, <1>8, <2>1
    DEF IInv, ClaimsAgree, CopiesAgree, TargetsExist, ChangesArePast, Agrees,
        CopyAgrees, Finish, At, TypeOK
<1>9. CASE /\ changed' = [changed EXCEPT ![i] = now]
           /\ req' = [q \in Reqs |-> IF q = r THEN None ELSE Outdate(req[q], i)]
  <2>1. /\ changed'[i] = now /\ i \in Ids /\ now \in Nat
        /\ \A j \in Ids : j # i => changed'[j] = changed[j]
    BY <1>1, <1>9 DEF IInv, TypeOK, Accounts
  <2>2. ChangesArePast'
    BY <1>2, <1>9, <2>1 DEF IInv, ChangesArePast
  <2>3. ClaimsAgree'
    BY <1>2, <1>3, <1>4, <2>1 DEF IInv, ClaimsAgree, Agrees, Accounts
  <2>4. ASSUME NEW q \in Reqs, req'[q] # None
        PROVE  /\ q # r /\ req[q] \in Pending
               /\ req'[q] = Outdate(req[q], i)
    BY <1>9, <2>4 DEF IInv, TypeOK, Pending, Outdate
  <2>5. CopiesAgree'
    <3>. SUFFICES ASSUME NEW q \in Reqs, req'[q] # None,
                         req'[q].kind \in {"pair", "force"}
         PROVE  CopyAgrees(req[q])'
      BY DEF CopiesAgree
    <3>1. req[q] \in Issuing /\ req[q].kind \in {"pair", "force"}
      BY <2>4, StageOf DEF Outdate, Pending, Issuing
    <3>2. CopyAgrees(req[q])
      BY <2>4, <3>1, StageOf DEF IInv, CopiesAgree, Pending
    <3>3. CASE req[q].user = i /\ req[q].stage = "sign"
      <4>1. req'[q] = [req[q] EXCEPT !.late = TRUE]
        BY <2>4, <3>1, <3>3, StageOf DEF Outdate, Pending
      <4>. QED BY <1>4, <3>1, <3>2, <3>3, <4>1 DEF Issuing, CopyAgrees
    <3>4. CASE ~(req[q].user = i /\ req[q].stage = "sign")
      <4>1. req'[q] = req[q]
        BY <2>4, <3>4 DEF Outdate
      <4>. QED
        BY <1>2, <1>3, <1>4, <2>1, <3>1, <3>2, <3>4, <4>1
        DEF CopyAgrees, Agrees, Accounts
    <3>. QED BY <3>3, <3>4
  <2>6. TargetsExist'
    <3>. SUFFICES ASSUME NEW q \in Reqs, At(q, "write")'
         PROVE  req'[q].target \in Accounts
      BY <1>4 DEF TargetsExist
    <3>1. req'[q] = req[q]
      BY <2>4, StageOf DEF At, Outdate, Pending, Issuing
    <3>. QED BY <3>1 DEF IInv, TargetsExist, At
  <2>. QED BY <1>6, <1>7, <2>2, <2>3, <2>5, <2>6 DEF IInv
<1>. QED BY <1>8, <1>9 DEF UpdateUser, u

LEMMA InvariantStep ==
    ASSUME IInv, [Next]_vars
    PROVE  IInv'
<1>. TypeOK'
  BY TypeStep
<1>1. CASE Start
  BY <1>1
  DEF Start, IInv, ClaimsAgree, CopiesAgree, CopyAgrees, TargetsExist, HoldersExist,
      ChangesArePast, OnlyServedWait, OneAccountPerEmail, ServesSeeded, Taken,
      Accounts, At, Agrees
<1>2. CASE SeedFind
  BY <1>2
  DEF SeedFind, IInv, ClaimsAgree, CopiesAgree, CopyAgrees, TargetsExist, HoldersExist,
      ChangesArePast, OnlyServedWait, OneAccountPerEmail, ServesSeeded, Taken,
      Accounts, At, Agrees
<1>3. CASE SeedCreate
  <2>1. SeedEmail \in Emails /\ "SUPER_ADMIN" \in Role
    BY RolesAssumption DEF Role, ROLE_HIERARCHY
  <2>2. /\ Accounts \subseteq Accounts'
        /\ \A j \in Accounts : users'[j] = users[j]
        /\ OneAccountPerEmail' /\ Taken(SeedEmail)'
    BY <1>3, <2>1, InsertStep DEF SeedCreate
  <2>. QED
    BY <1>3, <2>2
    DEF SeedCreate, IInv, ClaimsAgree, CopiesAgree, CopyAgrees, TargetsExist,
        HoldersExist, ChangesArePast, OnlyServedWait, ServesSeeded, At, Agrees
<1>4. CASE Crash
  BY <1>4
  DEF Crash, IInv, ClaimsAgree, CopiesAgree, TargetsExist, HoldersExist,
      ChangesArePast, OnlyServedWait, OneAccountPerEmail, ServesSeeded, Taken,
      Accounts, At, Agrees
<1>5. ASSUME NEW r \in Reqs, NEW i \in Ids, FindForLogin(r, i) PROVE IInv'
  <2>. DEFINE q == Copy("pair", "sign", i, users[i].role)
  <2>1. users[i] \in User
    BY <1>5 DEF FindForLogin, IInv, TypeOK, Accounts
  <2>2. q \in Issuing
    BY <2>1 DEF Copy, Issuing, User
  <2>3. CopyAgrees(q)
    BY <1>5 DEF CopyAgrees, Copy, FindForLogin
  <2>. HIDE DEF q
  <2>. QED BY <1>5, <2>2, <2>3, RequestStep, StageOf
           DEF FindForLogin, Idle, q, Pending, Updating, Issuing
<1>6. ASSUME NEW r \in Reqs, NEW i \in Ids, FindForRefresh(r, i) PROVE IInv'
  <2>. DEFINE q == Copy("pair", "reload", i, refresh[i])
  <2>1. i \in Accounts /\ refresh[i] \in Role
    BY <1>6 DEF FindForRefresh, IInv, TypeOK, HoldersExist, Refresh
  <2>2. q \in Issuing /\ CopyAgrees(q)
    BY <2>1 DEF Copy, Issuing, CopyAgrees
  <2>. QED BY <1>6, <2>2, RequestStep
           DEF FindForRefresh, Idle, Pending, Updating, Issuing
<1>7. ASSUME NEW r \in Reqs, NEW t \in access, FindForForce(r, t) PROVE IInv'
  <2>. DEFINE q == Copy("force", "reload", t.user, t.role)
  <2>1. t \in Access /\ t.user \in Accounts
    BY DEF IInv, TypeOK, ClaimsAgree
  <2>2. q \in Issuing /\ CopyAgrees(q)
    BY <2>1 DEF Copy, Issuing, CopyAgrees, Access
  <2>. QED BY <1>7, <2>2, RequestStep
           DEF FindForForce, Idle, Pending, Updating, Issuing
<1>8. ASSUME NEW r \in Reqs, ReloadUser(r) PROVE IInv'
  <2>. DEFINE q == [req[r] EXCEPT !.stage = "sign", !.role = users[req[r].user].role]
  <2>1. /\ req[r] \in Issuing /\ req[r].user \in Accounts
        /\ users[req[r].user] \in User /\ server = "serving"
    BY <1>8, CopyOf DEF ReloadUser, At, IInv, OnlyServedWait
  <2>2. q \in Issuing
    BY <2>1 DEF Issuing, User
  <2>3. CASE Become(r, q) /\ (req[r].kind = "force" \/ users[req[r].user].active)
    <3>1. CopyAgrees(q)
      BY <2>1, <2>3 DEF CopyAgrees, Issuing
    <3>. QED BY <1>8, <2>1, <2>2, <2>3, <3>1, RequestStep
             DEF ReloadUser, Pending, Updating, Issuing
  <2>4. CASE Finish(r)
    BY <1>8, <2>1, <2>4, RequestStep, RolesAssumption
    DEF ReloadUser, Finish, Become, Pending
  <2>. QED BY <1>8, <2>3, <2>4 DEF ReloadUser
<1>9. ASSUME NEW r \in Reqs, Sign(r) PROVE IInv'
  <2>. DEFINE q == [req[r] EXCEPT !.stage = "store", !.iat = now]
              p == [req[r] EXCEPT !.iat = now]
  <2>1. /\ req[r] \in Issuing /\ req[r].user \in Accounts
        /\ req[r].stage = "sign" /\ server = "serving" /\ CopyAgrees(req[r])
    BY <1>9, CopyOf DEF Sign, At, IInv, OnlyServedWait, CopiesAgree, Issuing
  <2>2. now \in Nat
    BY DEF IInv, TypeOK
  <2>3. CASE req[r].kind # "force" /\ Become(r, q) /\ UNCHANGED <<access, refresh>>
    <3>. q \in Issuing
      BY <2>1, <2>2 DEF Issuing
    <3>2. /\ q.stage = "store" /\ q.iat = now /\ q.kind = "pair"
          /\ q.user = req[r].user /\ q.role = req[r].role /\ q.late = req[r].late
          /\ now <= now
      BY <2>1, <2>2, <2>3 DEF Issuing
    <3>3. q.late \/ (q.role = users[q.user].role /\ users[q.user].active)
      BY <2>1, <2>3, <3>2 DEF CopyAgrees, Issuing
    <3>. HIDE DEF q
    <3>1. CopyAgrees(q)
      BY <2>1, <3>2, <3>3 DEF CopyAgrees
    <3>. USE DEF q
    <3>. QED BY <1>9, <2>1, <2>3, <3>1, RequestStep
             DEF Sign, Pending, Updating, Issuing
  <2>4. CASE Return(p) /\ Finish(r)
    <3>1. /\ p \in Issuing /\ p.user \in Accounts /\ p.iat <= now
          /\ Agrees(p.role, p.user, p.iat, p.late)
      BY <2>1, <2>2 DEF Issuing, CopyAgrees, Agrees
    <3>. QED BY <1>9, <2>4, <3>1, ReturnStep DEF Sign
  <2>. QED BY <1>9, <2>3, <2>4 DEF Sign
<1>10. ASSUME NEW r \in Reqs, StoreRefreshToken(r) PROVE IInv'
  <2>1. /\ req[r] \in Issuing /\ req[r].user \in Accounts
        /\ req[r].stage = "store" /\ CopyAgrees(req[r])
    BY <1>10, CopyOf DEF StoreRefreshToken, At, IInv, CopiesAgree, Issuing
  <2>. QED BY <1>10, <2>1, ReturnStep DEF StoreRefreshToken, CopyAgrees, Agrees
<1>11. ASSUME NEW r \in Reqs, NEW t \in access, NEW e \in Emails,
             NEW role \in Grantable, AdmitCreate(r, t, e, role)
       PROVE IInv'
  <2>. DEFINE q == [kind |-> "create", stage |-> "find", email |-> e, role |-> role]
  <2>1. q \in Creating
    BY RolesAssumption DEF Creating
  <2>2. q \notin Issuing /\ q \notin Updating
    BY DEF Issuing, Updating
  <2>. QED BY <1>11, <2>1, <2>2, RequestStep DEF AdmitCreate, Idle, Pending
<1>12. ASSUME NEW r \in Reqs, FindByEmail(r) PROVE IInv'
  <2>. DEFINE q == [req[r] EXCEPT !.stage = "create"]
  <2>1. req[r] \in Creating /\ server = "serving"
    BY <1>12, StageOf DEF FindByEmail, At, Pending, IInv, TypeOK, OnlyServedWait
  <2>2. q \in Creating /\ q \notin Issuing /\ q \notin Updating
    BY <2>1 DEF Creating, Issuing, Updating
  <2>3. CASE Become(r, q)
    BY <1>12, <2>1, <2>2, <2>3, RequestStep DEF FindByEmail, Pending
  <2>4. CASE Finish(r)
    BY <1>12, <2>1, <2>4, RequestStep, RolesAssumption
    DEF FindByEmail, Finish, Become, Pending
  <2>. QED BY <1>12, <2>3, <2>4 DEF FindByEmail
<1>13. ASSUME NEW r \in Reqs, CreateUser(r) PROVE IInv'
  <2>1. req[r] \in Creating /\ server = "serving"
    BY <1>13, StageOf DEF CreateUser, At, Pending, IInv, TypeOK, OnlyServedWait
  <2>2. CASE UNCHANGED users
    BY <1>13, <2>1, <2>2, RequestStep, RolesAssumption
    DEF CreateUser, Finish, Become, Pending
  <2>3. CASE Insert(req[r].email, req[r].role)
    <3>1. /\ Accounts \subseteq Accounts'
          /\ \A j \in Accounts : users'[j] = users[j]
          /\ OneAccountPerEmail'
          /\ Taken(SeedEmail) => Taken(SeedEmail)'
      BY <2>1, <2>3, InsertStep DEF Creating
    <3>. QED
      BY <1>13, <2>1, <3>1
      DEF CreateUser, Finish, IInv, TypeOK, ClaimsAgree, CopiesAgree, CopyAgrees,
          TargetsExist, HoldersExist, ChangesArePast, OnlyServedWait, ServesSeeded,
          At, Agrees
  <2>. QED BY <1>13, <2>2, <2>3 DEF CreateUser
<1>14. ASSUME NEW r \in Reqs, NEW i \in Ids, NEW set \in Change,
             Idle(r), i \in Accounts, Become(r, Set(i, set)),
             UNCHANGED <<now, server, users, access, refresh, changed>>
       PROVE IInv'
  <2>. DEFINE q == Set(i, set)
  <2>1. q \in Updating /\ q.target = i
    BY <1>14 DEF Set, Updating
  <2>2. q \notin Issuing
    BY DEF Set, Issuing
  <2>. HIDE DEF q
  <2>. QED BY <1>14, <2>1, <2>2, RequestStep DEF Idle, Pending, q
<1>15. ASSUME NEW r \in Reqs, UpdateUser(r) PROVE IInv'
  BY <1>15, UpdateStep
<1>16. CASE Tick
  <2>1. /\ now \in Nat /\ now' = now + 1 /\ access' \subseteq access
        /\ \A n \in Nat : n <= now => n <= now'
    BY <1>16 DEF Tick, IInv, TypeOK
  <2>2. /\ UNCHANGED <<server, users, refresh, changed, req>>
        /\ Accounts' = Accounts
    BY <1>16 DEF Tick, Accounts
  <2>3. ClaimsAgree'
    BY <2>1, <2>2 DEF IInv, TypeOK, ClaimsAgree, Agrees, Access
  <2>4. ChangesArePast'
    BY <2>1, <2>2 DEF IInv, TypeOK, ChangesArePast
  <2>5. CopiesAgree'
    <3>. SUFFICES ASSUME NEW r \in Reqs, req[r] # None, req[r].kind \in {"pair", "force"}
         PROVE  CopyAgrees(req[r])'
      BY <2>2 DEF CopiesAgree
    <3>1. req[r] \in Issuing /\ req[r].iat \in Nat
      BY StageOf DEF IInv, TypeOK, Pending, Issuing
    <3>2. CopyAgrees(req[r])
      BY DEF IInv, CopiesAgree
    <3>. QED BY <2>1, <2>2, <3>1, <3>2 DEF CopyAgrees
  <2>6. /\ TargetsExist' /\ HoldersExist' /\ OnlyServedWait'
        /\ OneAccountPerEmail' /\ ServesSeeded'
    BY <2>2 DEF IInv, TargetsExist, HoldersExist, OnlyServedWait,
                OneAccountPerEmail, ServesSeeded, Taken, At
  <2>. QED BY <2>3, <2>4, <2>5, <2>6 DEF IInv
<1>17. CASE UNCHANGED vars
  BY <1>17
  DEF vars, IInv, ClaimsAgree, CopiesAgree, CopyAgrees, TargetsExist, HoldersExist,
      ChangesArePast, OnlyServedWait, OneAccountPerEmail, ServesSeeded, Taken,
      Accounts, At, Agrees
<1>. QED
  BY <1>1, <1>2, <1>3, <1>4, <1>5, <1>6, <1>7, <1>8, <1>9, <1>10, <1>11, <1>12,
     <1>13, <1>14, <1>15, <1>16, <1>17, WritesAreChanges
  DEF Next, Bootstrap, Tokens, Administer

-----------------------------------------------------------------------------
(* Theorems. *)

\* The inductive invariant holds in every behavior.
THEOREM InvariantHolds == Spec => []IInv
<1>1. IInv /\ [Next]_vars => IInv'
  BY InvariantStep
<1>. QED
  BY InitHolds, <1>1, PTL DEF Spec

\* Accounts, tokens and requests keep their types.
THEOREM TypeCorrect == Spec => []TypeOK
<1>1. IInv => TypeOK
  BY DEF IInv
<1>. QED
  BY InvariantHolds, <1>1, PTL

\* A role that has been taken away is gone from every accepted token once the
\* life of an access token has passed, refreshed or not, up to requests that
\* had read the account before.
THEOREM RoleChangesTakeEffect == Spec => []ClaimsAreRecent
<1>1. IInv => ClaimsAreRecent
  <2>. SUFFICES ASSUME IInv, NEW t \in access, Accepted(t),
                       t.role # users[t.user].role
       PROVE  now < changed[t.user] + AccessTTL \/ t.late
    BY DEF ClaimsAreRecent
  <2>1. t \in Access /\ t.user \in Ids /\ (t.iat <= changed[t.user] \/ t.late)
    BY DEF IInv, TypeOK, ClaimsAgree, Agrees, Accounts
  <2>2. t.iat \in Nat /\ changed[t.user] \in Nat /\ now \in Nat
    BY <2>1 DEF Access, IInv, TypeOK
  <2>. QED BY <2>1, <2>2, RolesAssumption DEF Accepted
<1>. QED
  BY InvariantHolds, <1>1, PTL

\* No two creations, or a creation and a seeding, leave two accounts with one
\* address.
THEOREM UniqueEmail == Spec => []OneAccountPerEmail
<1>1. IInv => OneAccountPerEmail
  BY DEF IInv
<1>. QED
  BY InvariantHolds, <1>1, PTL

\* Whatever crashes during start-up, no request is served without the seeded
\* account.
THEOREM SeededBeforeServing == Spec => []ServesSeeded
<1>1. IInv => ServesSeeded
  BY DEF IInv
<1>. QED
  BY InvariantHolds, <1>1, PTL


\* A deactivated account is handed no new token, up to requests that had read
\* it before and the forced change of a password.
THEOREM InactiveAreRefused == Spec => InactiveGetsNoTokens
<1>. DEFINE Entitled(t) ==
               \/ users[t.user].active
               \/ t.late \/ t.iat <= changed[t.user]
               \/ \E r \in Reqs : At(r, "sign") /\ req[r].kind = "force"
            A == \A t \in access' \ access : Entitled(t)
<1>1. ASSUME IInv, NEW r \in Reqs, Sign(r) PROVE A
  <2>1. CASE req[r].kind = "force"
    BY <1>1, <2>1 DEF Sign
  <2>2. CASE req[r].kind # "force"
    BY <1>1, <2>2 DEF Sign
  <2>. QED BY <2>1, <2>2
<1>2. ASSUME IInv, NEW r \in Reqs, StoreRefreshToken(r) PROVE A
  <2>1. req[r] \in Issuing /\ CopyAgrees(req[r]) /\ req[r].stage = "store"
    BY <1>2, CopyOf DEF StoreRefreshToken, At, IInv, CopiesAgree, Issuing
  <2>2. \A t \in access' \ access :
           t.user = req[r].user /\ t.iat = req[r].iat /\ t.late = req[r].late
    BY <1>2 DEF StoreRefreshToken, Return
  <2>. QED BY <2>1, <2>2 DEF CopyAgrees
<1>3. IInv /\ [Next]_vars => [A]_vars
  <2>. SUFFICES ASSUME IInv, Next PROVE A
    OBVIOUS
  <2>1. CASE access' \subseteq access
    BY <2>1
  <2>2. CASE \E r \in Reqs : Sign(r) \/ StoreRefreshToken(r)
    BY <1>1, <1>2, <2>2
  <2>3. (\E r \in Reqs : Sign(r) \/ StoreRefreshToken(r)) \/ access' \subseteq access
    BY DEF Next, Bootstrap, Start, SeedFind, SeedCreate, Crash, Tokens, Administer,
           FindForLogin, FindForRefresh, FindForForce, ReloadUser, AdmitCreate,
           FindByEmail, CreateUser, AdmitUpdate, AdmitActivate, AdmitDeactivate,
           AdmitChangeRole, UpdateUser, Tick
  <2>. QED BY <2>1, <2>2, <2>3
<1>. QED
  BY InvariantHolds, <1>3, PTL DEF Spec, InactiveGetsNoTokens

\* A start of the process leaves the accounts there are as they are.
THEOREM SeedingIsHarmless == Spec => SeedLeavesAccountsAlone
<1>. DEFINE A == \A i \in Accounts : users'[i] = users[i] \/ server = "serving"
<1>1. ASSUME IInv, SeedCreate PROVE A
  BY <1>1, InsertStep, RolesAssumption DEF SeedCreate, Role, ROLE_HIERARCHY
<1>2. ASSUME IInv, NEW r \in Reqs, Tokens(r) \/ Administer(r) PROVE A
  <2>1. server = "serving" \/ UNCHANGED users
    BY <1>2
    DEF IInv, OnlyServedWait, At, Idle, Tokens, Administer, FindForLogin,
        FindForRefresh, FindForForce, ReloadUser, Sign, StoreRefreshToken, AdmitCreate,
        FindByEmail, CreateUser, AdmitUpdate, AdmitActivate, AdmitDeactivate,
        AdmitChangeRole, UpdateUser
  <2>. QED BY <2>1
<1>3. IInv /\ [Next]_vars => [A]_vars
  <2>. SUFFICES ASSUME IInv, Next PROVE A
    OBVIOUS
  <2>1. CASE Start \/ SeedFind \/ Crash \/ Tick
    BY <2>1 DEF Start, SeedFind, Crash, Tick
  <2>. QED BY <1>1, <1>2, <2>1 DEF Next, Bootstrap
<1>. QED
  BY InvariantHolds, <1>3, PTL DEF Spec, SeedLeavesAccountsAlone
=============================================================================
