----------------------- MODULE CertificateLoginProofs -----------------------
(***************************************************************************)
(* A certificate login beside any number of enrollments, renewals,         *)
(* revocations and decisions of administrators.                            *)
(*                                                                         *)
(* The composition keeps every behaviour of Enrollment within bounds, so   *)
(* that its invariants hold here too.  A login reads the certificate first *)
(* and the device last.  What makes the two reads worth one is that the    *)
(* device of a certificate is not being enrolled by anyone: only a         *)
(* decision can make it trusted between them.                              *)
(***************************************************************************)
EXTENDS CertificateLogin, EnrollmentProofs

\* A step takes the status of a device from where it was only by an approval in
\* flight or by a decision.
LEMMA StatusStep ==
    ASSUME IInv, Next, NEW d \in Devices, Known(d)
    PROVE  \/ device'[d].status = device[d].status
           \/ ApprovalInFlight(d)
           \/ \E s \in AdminStatuses : Decides(d, s) /\ device'[d].status = s
<1>. DEFINE Kept == device'[d].status = device[d].status
<1>. USE DEF IInv, TypeOK, DeviceDoc, Known
<1>1. ASSUME NEW r \in Reqs, EnrollDevice(r) PROVE Kept \/ ApprovalInFlight(d)
  <2>1. CASE RegisterDevice(r)
    BY <2>1 DEF RegisterDevice
  <2>2. CASE ApproveDevice(r)
    BY <2>2 DEF ApproveDevice, Step, ApprovalInFlight
  <2>3. CASE ~RegisterDevice(r) /\ ~ApproveDevice(r)
    <3>1. device' = device
      BY <1>1, <2>3
      DEF EnrollDevice, VerifyToken, StartRegistration, LookUpFingerprint,
          RefuseKnownDevice, FindPendingDevice, FindToken, ConsumeToken, stores
    <3>. QED
      BY <3>1
  <2>. QED
    BY <2>1, <2>2, <2>3
<1>2. ASSUME NEW r \in Reqs, SignAndStore(r) PROVE Kept
  <2>1. CASE BindCertificate(r)
    BY <2>1 DEF BindCertificate
  <2>2. CASE ~BindCertificate(r)
    <3>1. device' = device
      BY <1>2, <2>2
      DEF SignAndStore, GenerateCertificate, SignCsr, StoreCertificate, stores
    <3>. QED
      BY <3>1
  <2>. QED
    BY <2>1, <2>2
<1>3. ASSUME NEW r \in Reqs, RenewOrRevoke(r) PROVE Kept
  <2>1. device' = device
    BY <1>3
    DEF RenewOrRevoke, VerifyCertificate, StartRevoke, CheckRevocationTable,
        CheckDeviceTrust, FindCertificate, RevokeInVault, SaveRevoked,
        RecordRevocation, stores
  <2>. QED
    BY <2>1
<1>4. ASSUME NEW r \in Reqs, NEW s \in AdminStatuses, SaveStatus(r, s)
      PROVE  Kept \/ (Decides(d, s) /\ device'[d].status = s)
  BY <1>4 DEF SaveStatus, Decides
<1>5. ASSUME NEW r \in Reqs, NEW e \in Devices, FindDevice(r, e) PROVE Kept
  BY <1>5 DEF FindDevice, stores
<1>6. ASSUME NEW r \in Reqs, Abort(r) PROVE Kept
  BY <1>6 DEF Abort, stores
<1>7. ASSUME NEW t \in Tokens, NEW m \in Budgets, CreateEnrollmentToken(t, m)
      PROVE  Kept
  BY <1>7 DEF CreateEnrollmentToken
<1>8. ASSUME NEW x \in Tokens \union Serials, Lapse(x) PROVE Kept
  BY <1>8 DEF Lapse, stores
<1>. QED
  BY <1>1, <1>2, <1>3, <1>4, <1>5, <1>6, <1>7, <1>8 DEF Next, UpdateStatus

\* Only the read of a pending status starts an approval.
LEMMA ApprovalStep ==
    ASSUME IInv, Next, NEW d \in Devices, device[d].status # "pending",
           ~ApprovalInFlight(d)
    PROVE  ~ApprovalInFlight(d)'
<1>. DEFINE Kept == \A r \in Reqs : pc'[r] = "approve" /\ dev'[r] = d =>
                                    pc[r] = "approve" /\ dev[r] = d
<1>. USE DEF IInv, TypeOK, Step, Finish, Start, Idle, local
<1>1. ASSUME NEW r \in Reqs, EnrollDevice(r) PROVE Kept
  BY <1>1
  DEF EnrollDevice, VerifyToken, StartRegistration, LookUpFingerprint,
      RefuseKnownDevice, RegisterDevice, FindPendingDevice, ApproveDevice,
      FindToken, ConsumeToken
<1>2. ASSUME NEW r \in Reqs, SignAndStore(r) PROVE Kept
  BY <1>2
  DEF SignAndStore, GenerateCertificate, SignCsr, StoreCertificate,
      BindCertificate
<1>3. ASSUME NEW r \in Reqs, RenewOrRevoke(r) PROVE Kept
  BY <1>3
  DEF RenewOrRevoke, VerifyCertificate, StartRevoke, CheckRevocationTable,
      CheckDeviceTrust, FindCertificate, RevokeInVault, SaveRevoked,
      RecordRevocation
<1>4. ASSUME NEW r \in Reqs, UpdateStatus(r) PROVE Kept
  BY <1>4 DEF UpdateStatus, FindDevice, SaveStatus
<1>5. ASSUME NEW r \in Reqs, Abort(r) PROVE Kept
  BY <1>5 DEF Abort
<1>6. ASSUME NEW t \in Tokens, NEW m \in Budgets, CreateEnrollmentToken(t, m)
      PROVE  Kept
  BY <1>6 DEF CreateEnrollmentToken
<1>7. ASSUME NEW x \in Tokens \union Serials, Lapse(x) PROVE Kept
  BY <1>7 DEF Lapse
<1>8. Kept
  BY <1>1, <1>2, <1>3, <1>4, <1>5, <1>6, <1>7 DEF Next
<1>. QED
  BY <1>8 DEF ApprovalInFlight

\* A device that has a certificate is being enrolled by nobody.
NoSecondEnrollment ==
    \A c \in Serials, r \in Reqs :
        cert[c] # None /\ kind[r] = "enroll" /\ pc[r] \in EnrollStages
            => dev[r] # cert[c].device

\* A step that stores no certificate and brings no request to enroll.
LEMMA EnrollmentKept ==
    ASSUME IInv, NoSecondEnrollment,
           \A c \in Serials : cert'[c] # None =>
              cert[c] # None /\ cert'[c].device = cert[c].device,
           \A r \in Reqs : kind'[r] = "enroll" /\ pc'[r] \in EnrollStages =>
              kind[r] = "enroll" /\ pc[r] \in EnrollStages /\ dev'[r] = dev[r]
    PROVE  NoSecondEnrollment'
BY DEF NoSecondEnrollment

\* Every action of Enrollment keeps it so.
LEMMA EnrollmentUnique ==
    ASSUME IInv, NoSecondEnrollment, Next
    PROVE  NoSecondEnrollment'
<1>. DEFINE Stored == \A c \in Serials : cert'[c] # None =>
                          cert[c] # None /\ cert'[c].device = cert[c].device
            Enrolling == \A r \in Reqs :
                kind'[r] = "enroll" /\ pc'[r] \in EnrollStages =>
                   /\ kind[r] = "enroll" /\ pc[r] \in EnrollStages
                   /\ dev'[r] = dev[r]
<1>. USE DEF Step, Finish, Start, Idle, local, stores, EnrollStages
<1>1. ASSUME NEW r \in Reqs, EnrollDevice(r) PROVE NoSecondEnrollment'
  <2>1. Stored
    BY <1>1
    DEF EnrollDevice, VerifyToken, StartRegistration, LookUpFingerprint,
        RefuseKnownDevice, RegisterDevice, FindPendingDevice, ApproveDevice,
        FindToken, ConsumeToken
  <2>2. CASE ~RegisterDevice(r)
    <3>1. Enrolling
      BY <1>1, <2>2
      DEF EnrollDevice, VerifyToken, StartRegistration, LookUpFingerprint,
          RefuseKnownDevice, FindPendingDevice, ApproveDevice, FindToken,
          ConsumeToken, IInv, TypeOK
    <3>. QED
      BY <2>1, <3>1, EnrollmentKept
  <2>3. CASE RegisterDevice(r)
    <3>1. cert' = cert
      BY <2>3 DEF RegisterDevice
    <3>2. \A q \in Reqs :
             kind'[q] = "enroll" /\ pc'[q] \in EnrollStages =>
                /\ dev'[q] = dev[q] /\ kind[q] = "enroll"
                /\ pc[q] \in EnrollStages \/ ~Known(dev[q])
      BY <2>3 DEF RegisterDevice, IInv, TypeOK
    <3>. QED
      BY <3>1, <3>2 DEF NoSecondEnrollment, IInv, StoredIsSigned
  <2>. QED
    BY <2>2, <2>3
<1>2. ASSUME NEW r \in Reqs, SignAndStore(r) PROVE NoSecondEnrollment'
  <2>1. CASE ~StoreCertificate(r)
    <3>1. Stored
      BY <1>2, <2>1
      DEF SignAndStore, GenerateCertificate, SignCsr, BindCertificate
    <3>2. Enrolling
      BY <1>2, <2>1
      DEF SignAndStore, GenerateCertificate, SignCsr, BindCertificate, IInv,
          TypeOK
    <3>. QED
      BY <3>1, <3>2, EnrollmentKept
  <2>2. CASE StoreCertificate(r)
    <3>1. /\ pc[r] = "store" /\ kind[r] \in {"enroll", "renew"}
          /\ dev[r] \in Devices
      BY <2>2 DEF StoreCertificate, IInv, KindAtStage
    <3>2. Issuer(r, dev[r])
      BY <3>1 DEF Issuer
    <3>3. \A q \in Reqs : kind'[q] = "enroll" /\ pc'[q] \in EnrollStages =>
             /\ q # r /\ dev'[q] = dev[q] /\ dev[q] \in Devices
             /\ kind[q] = "enroll" /\ pc[q] \in EnrollStages
      BY <2>2 DEF StoreCertificate, IInv, TypeOK, KindAtStage
    <3>4. \A q \in Reqs : kind'[q] = "enroll" /\ pc'[q] \in EnrollStages =>
             dev[q] # dev[r]
      BY <3>1, <3>2, <3>3 DEF IInv, OneIssueRight, Issuer
    <3>5. \A c \in Serials : cert'[c] # None =>
             \/ cert[c] # None /\ cert'[c].device = cert[c].device
             \/ cert'[c].device = dev[r]
      BY <2>2 DEF StoreCertificate, IInv, TypeOK
    <3>. QED
      BY <3>3, <3>4, <3>5 DEF NoSecondEnrollment
  <2>. QED
    BY <2>1, <2>2
<1>3. ASSUME NEW r \in Reqs, RenewOrRevoke(r) PROVE NoSecondEnrollment'
  <2>1. Stored
    BY <1>3
    DEF RenewOrRevoke, VerifyCertificate, StartRevoke, CheckRevocationTable,
        CheckDeviceTrust, FindCertificate, RevokeInVault, SaveRevoked,
        RecordRevocation, IInv, TypeOK, InHand, RevokeStages, CertificateDoc
  <2>2. Enrolling
    BY <1>3
    DEF RenewOrRevoke, VerifyCertificate, StartRevoke, CheckRevocationTable,
        CheckDeviceTrust, FindCertificate, RevokeInVault, SaveRevoked,
        RecordRevocation, IInv, TypeOK, KindAtStage, RevokeStages
  <2>. QED
    BY <2>1, <2>2, EnrollmentKept
<1>4. ASSUME NEW r \in Reqs, UpdateStatus(r) \/ Abort(r)
      PROVE  NoSecondEnrollment'
  <2>1. Stored
    BY <1>4 DEF UpdateStatus, FindDevice, SaveStatus, Abort
  <2>2. Enrolling
    BY <1>4 DEF UpdateStatus, FindDevice, SaveStatus, Abort, IInv, TypeOK
  <2>. QED
    BY <2>1, <2>2, EnrollmentKept
<1>5. ASSUME NEW t \in Tokens, NEW m \in Budgets, CreateEnrollmentToken(t, m)
      PROVE  NoSecondEnrollment'
  BY <1>5 DEF CreateEnrollmentToken, NoSecondEnrollment
<1>6. ASSUME NEW x \in Tokens \union Serials, Lapse(x)
      PROVE  NoSecondEnrollment'
  BY <1>6 DEF Lapse, NoSecondEnrollment
<1>. QED
  BY <1>1, <1>2, <1>3, <1>4, <1>5, <1>6 DEF Next

-----------------------------------------------------------------------------
(* The composition. *)

BarredStand ==
    \A d \in barred : /\ Known(d)
                      /\ device[d].status \in {"blocked", "revoked"}
                      /\ ~ApprovalInFlight(d)

\* The device of a login that was not acceptable at once is not trusted yet.
Followed(q) ==
    /\ cert[q.ser] # None /\ q.dev = cert[q.ser].device
    /\ q.once \/ q.decided \/ ~IsDeviceTrusted(q.dev)
    /\ q.stage = "user" => q.once \/ q.decided

LoginsFollowed == \A l \in Logins : login[l] # None => Followed(login[l])

LoginInv ==
    /\ LoginTypeOK
    /\ NoSecondEnrollment
    /\ BarredStand
    /\ LoginsFollowed

\* A step of the composition is a step of Enrollment or leaves it alone.
LEMMA StepRefines == [LoginNext]_<<vars, loginVars>> => [Next]_vars
BY DEF LoginNext, LoginStep, EnrollmentStep, PresentCertificate, FindUser,
       LookUpRevocation, LookUpDevice, AbortLogin

\* What a step of Enrollment makes of a login in flight.
LEMMA WatchedFollowed ==
    ASSUME IInv, NoSecondEnrollment, Next, NEW q \in Login, Followed(q)
    PROVE  \E v \in Login : v = Watched(q) /\ Followed(v)'
<1>1. PICK o \in BOOLEAN :
         o = (q.once \/ \E c \in Serials : c = q.ser /\ Acceptable(c)')
  OBVIOUS
<1>2. PICK b \in BOOLEAN : b = (q.decided \/ Reinstates(q.dev))
  OBVIOUS
<1>3. PICK v : v = [q EXCEPT !.once = o, !.decided = b]
  OBVIOUS
<1>4. Watched(q) = v
  BY <1>1, <1>2, <1>3 DEF Watched
<1>5. /\ v \in Login /\ v.ser = q.ser /\ v.dev = q.dev /\ v.stage = q.stage
      /\ v.once = o /\ v.decided = b
  BY <1>3 DEF Login
<1>6. q.ser \in Serials /\ q.dev \in Devices
  BY DEF Login
<1>7. cert'[q.ser] # None /\ q.dev = cert'[q.ser].device
  BY <1>6, CertificatesStay DEF CertificatesKept, Followed
<1>8. Known(q.dev) /\ Known(q.dev)'
  BY <1>6, DocumentsStay DEF Followed, IInv, StoredIsSigned, DevicesKept
<1>9. ~ApprovalInFlight(q.dev)
  BY <1>6
  DEF ApprovalInFlight, NoSecondEnrollment, Followed, IInv, KindAtStage,
      EnrollStages
<1>10. o \/ b \/ ~IsDeviceTrusted(q.dev)'
  <2>1. CASE q.once \/ q.decided
    BY <2>1, <1>1, <1>2
  <2>2. CASE ~IsDeviceTrusted(q.dev)
    <3>1. device[q.dev].status # "approved"
      BY <1>8, <2>2 DEF IsDeviceTrusted
    <3>2. CASE device'[q.dev].status = device[q.dev].status
      BY <3>1, <3>2 DEF IsDeviceTrusted
    <3>3. CASE \E s \in AdminStatuses :
                  Decides(q.dev, s) /\ device'[q.dev].status = s
      <4>1. PICK s \in AdminStatuses :
                  Decides(q.dev, s) /\ device'[q.dev].status = s
        BY <3>3
      <4>2. CASE s = "approved"
        BY <4>1, <4>2, <2>2, <1>2 DEF Reinstates
      <4>3. CASE s # "approved"
        BY <4>1, <4>3 DEF IsDeviceTrusted
      <4>. QED
        BY <4>2, <4>3
    <3>. QED
      BY <1>6, <1>8, <1>9, <3>2, <3>3, StatusStep
  <2>. QED
    BY <2>1, <2>2 DEF Followed
<1>11. q.stage = "user" => o \/ b
  BY <1>1, <1>2 DEF Followed
<1>12. Followed(v)'
  BY <1>5, <1>7, <1>10, <1>11 DEF Followed, IsDeviceTrusted, Known
<1>. QED
  BY <1>4, <1>5, <1>12

\* A step of Enrollment, with what it makes of the logins and the history.
LEMMA EnrollmentKeepsLogins ==
    ASSUME IInv, LoginInv, EnrollmentStep
    PROVE  LoginInv'
<1>1. Next
  BY DEF EnrollmentStep
<1>2. NoSecondEnrollment'
  BY <1>1, EnrollmentUnique DEF LoginInv
<1>3. ASSUME NEW l \in Logins
      PROVE  /\ login'[l] \in Login \union {None}
             /\ login'[l] # None => \E v : v = login'[l] /\ Followed(v)'
  <2>1. CASE login[l] = None
    BY <2>1 DEF EnrollmentStep
  <2>2. CASE login[l] # None
    <3>1. PICK q \in Login : q = login[l]
      BY <2>2 DEF LoginInv, LoginTypeOK
    <3>2. Followed(q)
      BY <2>2, <3>1 DEF LoginInv, LoginsFollowed
    <3>3. PICK v \in Login : v = Watched(q) /\ Followed(v)'
      BY <1>1, <3>2, WatchedFollowed DEF LoginInv
    <3>4. login'[l] = Watched(q)
      BY <2>2, <3>1 DEF EnrollmentStep
    <3>. QED
      BY <3>3, <3>4
  <2>. QED
    BY <2>1, <2>2
<1>4. LoginTypeOK'
  BY <1>3 DEF LoginTypeOK, EnrollmentStep, BarredAfter
<1>5. LoginsFollowed'
  BY <1>3 DEF LoginsFollowed, Followed, IsDeviceTrusted, Known
<1>6. BarredStand'
  <2>. SUFFICES ASSUME NEW d \in barred'
                PROVE  /\ Known(d)' /\ ~ApprovalInFlight(d)'
                       /\ device'[d].status \in {"blocked", "revoked"}
    BY DEF BarredStand
  <2>1. d \in Devices
    BY DEF EnrollmentStep, BarredAfter
  <2>2. CASE d \in barred /\ \A s \in AdminStatuses : ~Decides(d, s)
    <3>1. /\ Known(d) /\ ~ApprovalInFlight(d)
          /\ device[d].status \in {"blocked", "revoked"}
      BY <2>2 DEF LoginInv, BarredStand
    <3>2. device'[d].status = device[d].status
      BY <1>1, <2>1, <2>2, <3>1, StatusStep
    <3>3. ~ApprovalInFlight(d)'
      BY <1>1, <2>1, <3>1, ApprovalStep
    <3>4. Known(d)'
      BY <1>1, <2>1, <3>1, DocumentsStay DEF DevicesKept
    <3>. QED
      BY <3>1, <3>2, <3>3, <3>4
  <2>3. CASE /\ \E s \in AdminStatuses \intersect {"blocked", "revoked"} :
                   Decides(d, s) /\ device'[d].status = s
             /\ ~ApprovalInFlight(d)
    <3>1. PICK s \in AdminStatuses \intersect {"blocked", "revoked"}, r \in Reqs :
                   dev[r] = d /\ SaveStatus(r, s) /\ device'[d].status = s
      BY <2>3 DEF Decides
    <3>2. Known(d)'
      <4>1. Known(d)
        BY <3>1 DEF SaveStatus, IInv, InHand
      <4>. QED
        BY <1>1, <2>1, <4>1, DocumentsStay DEF DevicesKept
    <3>3. ~ApprovalInFlight(d)'
      BY <2>3, <3>1 DEF SaveStatus, Finish, ApprovalInFlight, IInv, TypeOK
    <3>. QED
      BY <3>1, <3>2, <3>3
  <2>. QED
    BY <2>2, <2>3 DEF EnrollmentStep, BarredAfter
<1>. QED
  BY <1>2, <1>4, <1>5, <1>6 DEF LoginInv

\* A step of a login that leaves Enrollment alone.
LEMMA LoginStepKeeps ==
    ASSUME IInv, LoginInv, NEW l \in Logins, LoginStep(l)
    PROVE  LoginInv'
<1>. USE DEF LoginInv, LoginTypeOK, Goto, Leave, At
<1>1. UNCHANGED <<vars, barred>>
  BY DEF LoginStep, PresentCertificate, LookUpRevocation, LookUpDevice, FindUser,
         AbortLogin
<1>2. NoSecondEnrollment' /\ BarredStand'
  BY <1>1 DEF vars, stores, local, NoSecondEnrollment, BarredStand, Known,
              ApprovalInFlight
<1>3. \A q : Followed(q)' <=> Followed(q)
  BY <1>1 DEF vars, stores, Followed, IsDeviceTrusted, Known
<1>4. ASSUME NEW v \in Login \union {None}, v # None => Followed(v),
             login' = [login EXCEPT ![l] = v]
      PROVE  LoginTypeOK' /\ LoginsFollowed'
  BY <1>1, <1>3, <1>4 DEF LoginsFollowed
<1>5. ASSUME NEW c \in Serials, PresentCertificate(l, c)
      PROVE  LoginTypeOK' /\ LoginsFollowed'
  <2>1. PICK v : v = Presented(c)
    OBVIOUS
  <2>2. Valid(c) /\ cert[c].device \in Devices
    BY <1>5 DEF PresentCertificate, Valid, IInv, TypeOK, CertificateDoc
  <2>3. v \in Login
    BY <2>1, <2>2
    DEF Presented, Login, LoginStages, Acceptable, Valid, IsDeviceTrusted, Known
  <2>4. Followed(v)
    BY <2>1, <2>2 DEF Presented, Followed, Acceptable, Valid
  <2>. QED
    BY <1>4, <1>5, <2>1, <2>3, <2>4 DEF PresentCertificate
<1>6. ASSUME NEW stage \in LoginStages, At(l, login[l].stage), Goto(l, stage),
             stage = "user" => IsDeviceTrusted(login[l].dev)
      PROVE  LoginTypeOK' /\ LoginsFollowed'
  <2>1. PICK q \in Login : q = login[l]
    BY <1>6
  <2>2. PICK v : v = [q EXCEPT !.stage = stage]
    OBVIOUS
  <2>3. /\ v \in Login /\ v.ser = q.ser /\ v.dev = q.dev /\ v.stage = stage
        /\ v.once = q.once /\ v.decided = q.decided
    BY <2>2 DEF Login
  <2>4. Followed(q)
    BY <1>6, <2>1 DEF LoginsFollowed
  <2>5. Followed(v)
    BY <1>6, <2>1, <2>3, <2>4 DEF Followed
  <2>. QED
    BY <1>4, <1>6, <2>1, <2>2, <2>3, <2>5
<1>7. ASSUME Leave(l) PROVE LoginTypeOK' /\ LoginsFollowed'
  BY <1>4, <1>7
<1>. QED
  BY <1>2, <1>5, <1>6, <1>7
  DEF LoginStep, LookUpRevocation, LookUpDevice, FindUser, AbortLogin,
      LoginStages

\* The invariant of the logins holds initially and is kept by every step.
LEMMA LoginInductive ==
    /\ LoginInit => LoginInv
    /\ IInv /\ LoginInv /\ [LoginNext]_<<vars, loginVars>> => LoginInv'
<1>1. LoginInit => LoginInv
  BY DEF LoginInit, Init, LoginInv, LoginTypeOK, NoSecondEnrollment, BarredStand,
         LoginsFollowed
<1>2. IInv /\ LoginInv /\ UNCHANGED <<vars, loginVars>> => LoginInv'
  BY DEF vars, stores, local, loginVars, LoginInv, LoginTypeOK,
         NoSecondEnrollment, BarredStand, LoginsFollowed, Followed, Known,
         IsDeviceTrusted, ApprovalInFlight
<1>. QED
  BY <1>1, <1>2, EnrollmentKeepsLogins, LoginStepKeeps DEF LoginNext

\* Logins change nothing for the onboarding and certificate services: whatever
\* is true of Enrollment is true beside them.
THEOREM LoginsOnlyRead == LoginSpec => Spec
<1>1. LoginInit => Init
  BY DEF LoginInit
<1>. QED
  BY <1>1, StepRefines, PTL DEF LoginSpec, Spec

\* Beside any number of logins the certificates of a device still form a line.
THEOREM LineBesideLogins == LoginSpec => ImplementsLineage
BY LoginsOnlyRead, CertificatesFormALine, PTL

\* Every state of the composition satisfies both invariants.
LEMMA LoginInvariantHolds == LoginSpec => [](IInv /\ LoginInv)
BY LoginsOnlyRead, InvariantHolds, LoginInductive, PTL DEF LoginSpec

\* Every login and every mark of the history keeps its type.
THEOREM LoginTypeCorrect == LoginSpec => []LoginTypeOK
<1>1. IInv /\ LoginInv => LoginTypeOK
  BY DEF LoginInv
<1>. QED
  BY <1>1, LoginInvariantHolds, PTL

\* The verification that reads certificate, table and device one after the other
\* accepts nothing that was never acceptable at one moment, unless an
\* administrator reinstated the device while it ran.
THEOREM VerificationIsAtOnce == LoginSpec => []VerifiedAtOnce
<1>1. IInv /\ LoginInv => VerifiedAtOnce
  <2>. SUFFICES ASSUME LoginInv, NEW l \in Logins, login[l] # None,
                       login[l].stage \notin {"table", "trust"}
                PROVE  login[l].once \/ login[l].decided
    BY DEF VerifiedAtOnce
  <2>1. login[l].stage = "user" /\ Followed(login[l])
    BY DEF LoginInv, LoginTypeOK, LoginsFollowed, Login, LoginStages
  <2>. QED
    BY <2>1 DEF Followed
<1>. QED
  BY <1>1, LoginInvariantHolds, PTL

\* A block or a revocation of a device that no approval in flight undoes is
\* undone by decisions of administrators only.
THEOREM DecisionsStand == LoginSpec => []DecisionStands
<1>1. IInv /\ LoginInv => DecisionStands
  BY DEF LoginInv, BarredStand, DecisionStands, IsDeviceTrusted
<1>. QED
  BY <1>1, LoginInvariantHolds, PTL
=============================================================================
