--------------------------- MODULE LockoutProofs ---------------------------
(***************************************************************************)
(* Nobody is locked out for failures that never happened, for any number   *)
(* of requests and any maximum.                                            *)
(*                                                                         *)
(* NoFalseLock is not inductive: a lock is written from a counter that was *)
(* read earlier and may have been reset or overwritten since.  What stays  *)
(* true is that every count, stored or in hand, has as many wrong          *)
(* passwords behind it, and that a lock in hand has the maximum.           *)
(***************************************************************************)
EXTENDS Lockout, TLAPS

CountsAreBacked ==
    /\ attempts <= wrong
    /\ \A r \in Reqs : pc[r] = "saveAttempt" =>
          /\ seen[r] < wrong
          /\ end[r] # None => wrong >= MaxAttempts

IInv == TypeOK /\ CountsAreBacked /\ NoFalseLock

LEMMA InitHolds == Init => IInv
BY LockoutAssumption
DEF Init, IInv, TypeOK, Stages, CountsAreBacked, NoFalseLock

\* Types are kept by every step.
LEMMA TypeStep ==
    ASSUME TypeOK, [Next]_vars
    PROVE  TypeOK'
<1>. USE LockoutAssumption DEF TypeOK, Stages, Step, Keep, Forget, Clear,
         store, local, history
<1>1. ASSUME NEW r \in Reqs, FindUser(r) PROVE TypeOK'
  BY <1>1 DEF FindUser
<1>2. ASSUME NEW r \in Reqs, ResetLock(r) PROVE TypeOK'
  BY <1>2 DEF ResetLock
<1>3. ASSUME NEW r \in Reqs, RightPassword(r) PROVE TypeOK'
  BY <1>3 DEF RightPassword
<1>4. ASSUME NEW r \in Reqs, WrongPassword(r) PROVE TypeOK'
  BY <1>4 DEF WrongPassword
<1>5. ASSUME NEW r \in Reqs, SaveAttempt(r) PROVE TypeOK'
  BY <1>5 DEF SaveAttempt
<1>6. CASE ActivateUser
  BY <1>6 DEF ActivateUser
<1>7. CASE DeactivateUser
  BY <1>7 DEF DeactivateUser
<1>8. ASSUME NEW r \in Reqs, FindForReset(r) PROVE TypeOK'
  BY <1>8 DEF FindForReset
<1>9. ASSUME NEW r \in Reqs, SaveReset(r) PROVE TypeOK'
  BY <1>9 DEF SaveReset
<1>10. ASSUME NEW r \in Reqs, Abort(r) PROVE TypeOK'
  BY <1>10 DEF Abort
<1>11. CASE Tick
  BY <1>11 DEF Tick
<1>12. CASE UNCHANGED vars
  BY <1>12 DEF vars
<1>. QED
  BY <1>1, <1>2, <1>3, <1>4, <1>5, <1>6, <1>7, <1>8, <1>9, <1>10, <1>11, <1>12
  DEF Next, Login

\* So is the backing of every count and of every lock.
LEMMA BackingStep ==
    ASSUME IInv, [Next]_vars
    PROVE  CountsAreBacked' /\ NoFalseLock'
<1>. DEFINE Goal == CountsAreBacked' /\ NoFalseLock'
<1>. USE LockoutAssumption DEF IInv, TypeOK, CountsAreBacked, NoFalseLock,
         Step, Keep, Forget, Clear, store, local, history
<1>1. ASSUME NEW r \in Reqs, FindUser(r) PROVE Goal
  BY <1>1 DEF FindUser
<1>2. ASSUME NEW r \in Reqs, ResetLock(r) PROVE Goal
  BY <1>2 DEF ResetLock
<1>3. ASSUME NEW r \in Reqs, RightPassword(r) PROVE Goal
  BY <1>3 DEF RightPassword
<1>4. ASSUME NEW r \in Reqs, WrongPassword(r) PROVE Goal
  BY <1>4 DEF WrongPassword
<1>5. ASSUME NEW r \in Reqs, SaveAttempt(r) PROVE Goal
  BY <1>5 DEF SaveAttempt
<1>6. CASE ActivateUser
  BY <1>6 DEF ActivateUser
<1>7. CASE DeactivateUser
  BY <1>7 DEF DeactivateUser
<1>8. ASSUME NEW r \in Reqs, FindForReset(r) PROVE Goal
  BY <1>8 DEF FindForReset
<1>9. ASSUME NEW r \in Reqs, SaveReset(r) PROVE Goal
  BY <1>9 DEF SaveReset
<1>10. ASSUME NEW r \in Reqs, Abort(r) PROVE Goal
  BY <1>10 DEF Abort
<1>11. CASE Tick
  BY <1>11 DEF Tick
<1>12. CASE UNCHANGED vars
  BY <1>12 DEF vars
<1>. QED
  BY <1>1, <1>2, <1>3, <1>4, <1>5, <1>6, <1>7, <1>8, <1>9, <1>10, <1>11, <1>12
  DEF Next, Login

\* The inductive invariant holds in every behavior.
THEOREM InvariantHolds == Spec => []IInv
<1>1. IInv /\ [Next]_vars => IInv'
  BY TypeStep, BackingStep DEF IInv
<1>. QED
  BY InitHolds, <1>1, PTL DEF Spec

\* The account and the requests keep their types.
THEOREM TypeCorrect == Spec => []TypeOK
<1>1. IInv => TypeOK
  BY DEF IInv
<1>. QED
  BY InvariantHolds, <1>1, PTL

\* An account is never locked with fewer than MaxAttempts wrong passwords
\* recorded, in whatever order the counter is read, reset and written.
THEOREM LockIsEarned == Spec => []NoFalseLock
<1>1. IInv => NoFalseLock
  BY DEF IInv
<1>. QED
  BY InvariantHolds, <1>1, PTL

-----------------------------------------------------------------------------
(* While requests are served one at a time the policy holds between them;  *)
(* what the one in flight has read is then still what is stored.           *)

OneAtATime ==
    \A r, q \in Reqs : pc[r] # "idle" /\ pc[q] # "idle" => r = q

Policy ==
    /\ attempts = row
    /\ row <= MaxAttempts
    /\ until # None <=> row = MaxAttempts

\* The request in flight compares a password that is allowed, writes back the
\* counter it has read, or resets what it has read.
InFlight(r) ==
    /\ pc[r] = "compare" => attempts = row /\ row < MaxAttempts /\ until = None
    /\ pc[r] = "saveAttempt" =>
          /\ until = None /\ row <= MaxAttempts
          /\ seen[r] + 1 = row
          /\ end[r] # None <=> row = MaxAttempts
    /\ pc[r] = "saveReset" => seen[r] = attempts /\ end[r] = until

PolicyInv ==
    alone => /\ OneAtATime
             /\ AllIdle => Policy
             /\ \A r \in Reqs : InFlight(r)

\* A step of a request, of an administrator or of the clock keeps the policy.
LEMMA PolicyStep ==
    ASSUME TypeOK, PolicyInv, [Next]_vars
    PROVE  PolicyInv'
<1>. USE LockoutAssumption DEF TypeOK, Stages, PolicyInv, OneAtATime, Policy,
         InFlight, AllIdle, Step, Keep, Forget, Clear, store, local, history
<1>1. ASSUME NEW r \in Reqs, FindUser(r) PROVE PolicyInv'
  <2>. SUFFICES ASSUME alone'
                PROVE  OneAtATime' /\ ~AllIdle' /\ \A q \in Reqs : InFlight(q)'
    BY DEF PolicyInv
  <2>1. alone /\ AllIdle
    BY ONLY <1>1, alone' DEF FindUser
  <2>2. Policy
    BY ONLY <2>1, PolicyInv DEF PolicyInv
  <2>3. PICK stage \in {"resetLock", "compare"} :
          /\ pc' = [pc EXCEPT ![r] = stage]
          /\ stage = "compare" => ~Expired
    BY <1>1 DEF FindUser
  <2>4. stage = "compare" => until = None
    BY <1>1, <2>3 DEF FindUser, Expired, Locked
  <2>5. attempts' = attempts /\ until' = until /\ row' = row
    BY <1>1 DEF FindUser
  <2>. QED
    BY <2>1, <2>2, <2>3, <2>4, <2>5
<1>2. ASSUME NEW r \in Reqs, ResetLock(r) PROVE PolicyInv'
  BY <1>2 DEF ResetLock
<1>3. ASSUME NEW r \in Reqs, RightPassword(r) PROVE PolicyInv'
  BY <1>3 DEF RightPassword
<1>4. ASSUME NEW r \in Reqs, WrongPassword(r) PROVE PolicyInv'
  BY <1>4 DEF WrongPassword
<1>5. ASSUME NEW r \in Reqs, SaveAttempt(r) PROVE PolicyInv'
  BY <1>5 DEF SaveAttempt
<1>6. CASE ActivateUser
  <2>. SUFFICES ASSUME alone'
                PROVE  OneAtATime' /\ Policy' /\ \A q \in Reqs : InFlight(q)'
    BY DEF PolicyInv
  <2>1. AllIdle /\ pc' = pc /\ attempts' = 0 /\ until' = None /\ row' = 0
    BY <1>6 DEF ActivateUser
  <2>. QED
    BY <2>1
<1>7. CASE DeactivateUser
  BY <1>7 DEF DeactivateUser
<1>8. ASSUME NEW r \in Reqs, FindForReset(r) PROVE PolicyInv'
  BY <1>8 DEF FindForReset
<1>9. ASSUME NEW r \in Reqs, SaveReset(r) PROVE PolicyInv'
  BY <1>9 DEF SaveReset
<1>10. ASSUME NEW r \in Reqs, Abort(r) PROVE PolicyInv'
  BY <1>10 DEF Abort
<1>11. CASE Tick
  BY <1>11 DEF Tick
<1>12. CASE UNCHANGED vars
  BY <1>12 DEF vars
<1>. QED
  BY <1>1, <1>2, <1>3, <1>4, <1>5, <1>6, <1>7, <1>8, <1>9, <1>10, <1>11, <1>12
  DEF Next, Login

\* Requests that do not overlap and do not fail lock the account after exactly
\* MaxAttempts wrong passwords in a row, for any maximum and any duration.
THEOREM PolicyKept == Spec => []PolicyHolds
<1>1. Init => PolicyInv
  BY LockoutAssumption
  DEF Init, PolicyInv, OneAtATime, Policy, InFlight, AllIdle
<1>2. IInv /\ PolicyInv /\ [Next]_vars => PolicyInv'
  BY PolicyStep DEF IInv
<1>3. PolicyInv => PolicyHolds
  BY DEF PolicyInv, Policy, PolicyHolds
<1>. QED
  BY <1>1, <1>2, <1>3, InvariantHolds, PTL DEF Spec
=============================================================================
