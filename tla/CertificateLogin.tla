-------------------------- MODULE CertificateLogin --------------------------
(***************************************************************************)
(* AuthService.certificateLogin beside module Enrollment: the verification *)
(* of the certificate reads the certificate, the revocation table and the  *)
(* device one after the other, while enrollments, renewals, revocations    *)
(* and changes of status write them.  The tokens and the session that a    *)
(* verified login gets are module AuthTokens's.                            *)
(***************************************************************************)
EXTENDS Enrollment

CONSTANT Logins     \* certificate logins that can be in flight at once

LoginStages == {"table", "trust", "user"}

\* once and decided are history: during the login the certificate was valid and
\* the device trusted at one moment; an administrator reinstated the device.
Login == [stage: LoginStages, ser: Serials, dev: Devices, once: BOOLEAN,
          decided: BOOLEAN]

ASSUME LoginAssumption == None \notin Login

VARIABLES
    login,      \* logins in flight
    barred      \* history: devices an administrator has blocked or revoked,
                \* with no approval in flight, and has not decided on since

loginVars == <<login, barred>>

LoginTypeOK ==
    /\ login \in [Logins -> Login \union {None}]
    /\ barred \subseteq Devices

LoginInit ==
    /\ Init
    /\ login = [l \in Logins |-> None]
    /\ barred = {}

-----------------------------------------------------------------------------
At(l, stage) == login[l] # None /\ login[l].stage = stage

Goto(l, stage) == login' = [login EXCEPT ![l].stage = stage]
Leave(l) == login' = [login EXCEPT ![l] = None]

Acceptable(c) == Valid(c) /\ IsDeviceTrusted(cert[c].device)

Presented(c) ==
    [stage |-> "table", ser |-> c, dev |-> cert[c].device,
     once |-> Acceptable(c), decided |-> FALSE]

\* Mutant: the status is not looked at, as the revocation table has it too.
PresentAny(l, c) ==
    /\ login[l] = None
    /\ c \in given /\ c \notin lapsed
    /\ login' = [login EXCEPT ![l] = Presented(c)]
    /\ UNCHANGED <<vars, barred>>

(* verifyCertificate: expiry and document, table, device.  A read that       *)
(* refuses the certificate ends the login.                                 *)
PresentCertificate(l, c) ==
    /\ login[l] = None
    /\ c \in given /\ c \notin lapsed
    /\ Valid(c)
    /\ login' = [login EXCEPT ![l] = Presented(c)]
    /\ UNCHANGED <<vars, barred>>

LookUpRevocation(l) ==
    /\ At(l, "table")
    /\ \/ login[l].ser \notin recorded /\ Goto(l, "trust")
       \/ login[l].ser \in recorded /\ Leave(l)
    /\ UNCHANGED <<vars, barred>>

LookUpDevice(l) ==
    /\ At(l, "trust")
    /\ \/ IsDeviceTrusted(login[l].dev) /\ Goto(l, "user")
       \/ ~IsDeviceTrusted(login[l].dev) /\ Leave(l)
    /\ UNCHANGED <<vars, barred>>

\* findById: the user may be gone or inactive.  The tokens and the session that
\* follow are written whatever happens to the certificate meanwhile.
FindUser(l) ==
    /\ At(l, "user")
    /\ Leave(l)
    /\ UNCHANGED <<vars, barred>>

\* A call that throws, or the death of the process.
AbortLogin(l) ==
    /\ MayFail
    /\ login[l] # None
    /\ Leave(l)
    /\ UNCHANGED <<vars, barred>>

-----------------------------------------------------------------------------
(* A step of Enrollment, and what the logins in flight and the history make *)
(* of it.                                                                  *)

Decides(d, status) == \E r \in Reqs : dev[r] = d /\ SaveStatus(r, status)

Reinstates(d) == ~IsDeviceTrusted(d) /\ Decides(d, "approved")

ApprovalInFlight(d) == \E r \in Reqs : pc[r] = "approve" /\ dev[r] = d

Watched(q) ==
    [q EXCEPT !.once = @ \/ \E c \in Serials : c = q.ser /\ Acceptable(c)',
              !.decided = @ \/ Reinstates(q.dev)]

BarredAfter ==
    {d \in Devices :
        \/ /\ d \in barred
           /\ \A status \in AdminStatuses : ~Decides(d, status)
        \/ /\ \E status \in AdminStatuses \intersect {"blocked", "revoked"} :
                 Decides(d, status) /\ device'[d].status = status
           /\ ~ApprovalInFlight(d)}

EnrollmentStep ==
    /\ Next
    /\ login' = [l \in Logins |-> IF login[l] = None THEN None ELSE Watched(login[l])]
    /\ barred' = BarredAfter

LoginStep(l) ==
    \/ \E c \in Serials : PresentCertificate(l, c)
    \/ LookUpRevocation(l)
    \/ LookUpDevice(l)
    \/ FindUser(l)
    \/ AbortLogin(l)

LoginNext ==
    \/ EnrollmentStep
    \/ \E l \in Logins : LoginStep(l)

LoginSpec == LoginInit /\ [][LoginNext]_<<vars, loginVars>>

-----------------------------------------------------------------------------
(* Properties. *)

\* A login that has got past the verification could have been verified at one
\* moment: the certificate was valid while the device was trusted, although the
\* two are read apart and both may be withdrawn between, unless an administrator
\* reinstated the device meanwhile.
VerifiedAtOnce ==
    \A l \in Logins :
        login[l] # None /\ login[l].stage \notin {"table", "trust"}
            => login[l].once \/ login[l].decided

\* A device that an administrator has blocked or revoked stays untrusted until
\* an administrator decides again: an enrollment can lift the block only if it
\* had read the pending status before.
DecisionStands ==
    \A d \in barred : ~IsDeviceTrusted(d)
=============================================================================
