------------------------------ MODULE Lockout ------------------------------
(***************************************************************************)
(* Account lockout: AuthService.login up to the point where the attempt    *)
(* has been recorded, and the parts of UsersService that write             *)
(* failedLoginAttempts and lockoutUntil.  Accounts do not interact, so the *)
(* module has one.  A request is suspended at each await; an action is one *)
(* operation on MongoDB with the code around it.  The password compared is *)
(* right or wrong.                                                         *)
(***************************************************************************)
EXTENDS Naturals, FiniteSets

CONSTANTS
    Reqs,           \* requests that can be in flight at once
    MaxAttempts,    \* MAX_FAILED_LOGIN_ATTEMPTS
    Duration,       \* LOCKOUT_DURATION_MINUTES
    Admins,         \* administrators are at work on the account
    MayFail,        \* a call may throw, the process may die
    MaxTime,        \* bound: the last minute
    MaxWrong,       \* bound: wrong passwords tried
    None

ASSUME LockoutAssumption ==
    /\ MaxAttempts \in Nat \ {0}
    /\ Duration \in Nat /\ MaxTime \in Nat /\ MaxWrong \in Nat
    /\ Admins \in BOOLEAN /\ MayFail \in BOOLEAN
    /\ None \notin Nat

VARIABLES
    now,        \* the minute
    active,     \* isActive
    attempts,   \* failedLoginAttempts
    until,      \* lockoutUntil
    pc,         \* where each request is suspended
    seen,       \* failedLoginAttempts as the request has read it
    end,        \* the lockoutUntil it has read, or is going to write
    wrong,      \* history: wrong passwords recorded
    row,        \* history: of those, the ones since the counter was cleared
    alone       \* history: requests have been served one at a time, to the end

store == <<active, attempts, until>>
local == <<seen, end>>
history == <<wrong, row, alone>>
vars == <<now, store, pc, local, history>>

Stages == {"idle", "resetLock", "compare", "saveAttempt", "saveReset"}

TypeOK ==
    /\ now \in 0..MaxTime
    /\ active \in BOOLEAN
    /\ attempts \in Nat
    /\ until \in Nat \union {None}
    /\ pc \in [Reqs -> Stages]
    /\ seen \in [Reqs -> Nat]
    /\ end \in [Reqs -> Nat \union {None}]
    /\ wrong \in Nat /\ row \in Nat /\ alone \in BOOLEAN

\* Mutant: the schema gives failedLoginAttempts no default.
InitWithoutDefault ==
    /\ now = 0
    /\ active = TRUE /\ attempts = None /\ until = None
    /\ pc = [r \in Reqs |-> "idle"]
    /\ seen = [r \in Reqs |-> 0]
    /\ end = [r \in Reqs |-> None]
    /\ wrong = 0 /\ row = 0 /\ alone = TRUE

Init ==
    /\ now = 0
    /\ active = TRUE /\ attempts = 0 /\ until = None
    /\ pc = [r \in Reqs |-> "idle"]
    /\ seen = [r \in Reqs |-> 0]
    /\ end = [r \in Reqs |-> None]
    /\ wrong = 0 /\ row = 0 /\ alone = TRUE

Step(r, from, to) ==
    /\ pc[r] = from
    /\ pc' = [pc EXCEPT ![r] = to]

AllIdle == \A r \in Reqs : pc[r] = "idle"

Keep(r, n, e) ==
    /\ seen' = [seen EXCEPT ![r] = n]
    /\ end' = [end EXCEPT ![r] = e]

Forget(r) == Keep(r, 0, None)

Clear ==
    /\ attempts' = 0
    /\ until' = None
    /\ row' = 0

-----------------------------------------------------------------------------
(* login *)

Expired == until # None /\ now > until

Locked == until # None /\ now <= until

\* A deactivated or locked account is refused here.
FindUser(r) ==
    /\ active
    /\ ~Locked
    /\ Step(r, "idle", IF Expired THEN "resetLock" ELSE "compare")
    /\ alone' = (alone /\ AllIdle)
    /\ UNCHANGED <<now, store, local, wrong, row>>

\* Mutant: an expired lock is lifted and the counter stays.
ResetLockOnly(r) ==
    /\ Step(r, "resetLock", "compare")
    /\ until' = None
    /\ row' = 0
    /\ UNCHANGED <<now, active, attempts, local, wrong, alone>>

\* isAccountLocked, when the lock it has read is over.
ResetLock(r) ==
    /\ Step(r, "resetLock", "compare")
    /\ Clear
    /\ UNCHANGED <<now, active, local, wrong, alone>>

RightPassword(r) ==
    /\ Step(r, "compare", "idle")
    /\ Clear
    /\ UNCHANGED <<now, active, local, wrong, alone>>

\* Mutant: the comparison with the maximum is off by one.
LockOneEarly(r) ==
    /\ wrong < MaxWrong
    /\ Step(r, "compare", "saveAttempt")
    /\ Keep(r, attempts,
            IF attempts + 2 >= MaxAttempts THEN now + Duration ELSE None)
    /\ wrong' = wrong + 1
    /\ row' = row + 1
    /\ UNCHANGED <<now, store, alone>>

\* recordLoginAttempt reads the counter, and prepares what it will write.
WrongPassword(r) ==
    /\ wrong < MaxWrong
    /\ Step(r, "compare", "saveAttempt")
    /\ Keep(r, attempts,
            IF attempts + 1 >= MaxAttempts THEN now + Duration ELSE None)
    /\ wrong' = wrong + 1
    /\ row' = row + 1
    /\ UNCHANGED <<now, store, alone>>

SaveAttempt(r) ==
    /\ Step(r, "saveAttempt", "idle")
    /\ attempts' = seen[r] + 1
    /\ until' = IF end[r] = None THEN until ELSE end[r]
    /\ Forget(r)
    /\ UNCHANGED <<now, active, history>>

-----------------------------------------------------------------------------
(* Administrators. *)

ActivateUser ==
    /\ Admins
    /\ active' = TRUE
    /\ Clear
    /\ alone' = (alone /\ AllIdle)
    /\ UNCHANGED <<now, pc, local, wrong>>

DeactivateUser ==
    /\ Admins
    /\ active' = FALSE
    /\ UNCHANGED <<now, attempts, until, pc, local, history>>

\* resetPassword reads the account, and save() writes the fields that differ
\* from the copy it has read.
FindForReset(r) ==
    /\ Admins
    /\ Step(r, "idle", "saveReset")
    /\ Keep(r, attempts, until)
    /\ alone' = (alone /\ AllIdle)
    /\ UNCHANGED <<now, store, wrong, row>>

SaveReset(r) ==
    /\ Step(r, "saveReset", "idle")
    /\ attempts' = IF seen[r] = 0 THEN attempts ELSE 0
    /\ until' = IF end[r] = None THEN until ELSE None
    /\ row' = 0
    /\ Forget(r)
    /\ UNCHANGED <<now, active, wrong, alone>>

Abort(r) ==
    /\ MayFail
    /\ pc[r] # "idle"
    /\ pc' = [pc EXCEPT ![r] = "idle"]
    /\ Forget(r)
    /\ alone' = FALSE
    /\ UNCHANGED <<now, store, wrong, row>>

Tick ==
    /\ now < MaxTime
    /\ now' = now + 1
    /\ UNCHANGED <<store, pc, local, history>>

-----------------------------------------------------------------------------
Login(r) ==
    \/ FindUser(r)
    \/ ResetLock(r)
    \/ RightPassword(r)
    \/ WrongPassword(r)
    \/ SaveAttempt(r)

Next ==
    \/ \E r \in Reqs : Login(r) \/ FindForReset(r) \/ SaveReset(r) \/ Abort(r)
    \/ ActivateUser
    \/ DeactivateUser
    \/ Tick

Spec == Init /\ [][Next]_vars

-----------------------------------------------------------------------------
(* Properties. *)

\* Nobody is locked out who has mistyped fewer than MaxAttempts passwords:
\* no order of counting, resetting and writing back a stale count makes up
\* failures that never happened.
NoFalseLock == until # None => wrong >= MaxAttempts

\* "5 failed attempts -> 30 min lockout": once MaxAttempts wrong passwords in
\* a row have been recorded the account is locked.
LockAfterMax == AllIdle /\ row >= MaxAttempts => until # None

\* The policy, as long as requests have been served one at a time and none has
\* failed: the counter is the number of wrong passwords in a row, and the account
\* is locked from the last one allowed until the lock is found to be over.
PolicyHolds ==
    alone /\ AllIdle => /\ attempts = row
                        /\ row <= MaxAttempts
                        /\ until # None <=> row = MaxAttempts
=============================================================================
