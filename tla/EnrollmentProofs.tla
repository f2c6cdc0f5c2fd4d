-------------------------- MODULE EnrollmentProofs --------------------------
(***************************************************************************)
(* A device has one valid certificate, for any number of devices, requests *)
(* and certificates.                                                       *)
(*                                                                         *)
(* OneValidCertificate is not inductive: between two saves of a renewal    *)
(* the device has no valid certificate at all, and what keeps a second     *)
(* issue away is the revocation record.  The invariant speaks of the right *)
(* to issue for a device.  It belongs to the device's one certificate that *)
(* has no revocation record, whether revoked yet or not, or else to the    *)
(* one enrollment or renewal that will store the next certificate.         *)
(***************************************************************************)
EXTENDS EnrollmentRefinement, TLAPS

\* An unrecorded certificate of d.
Tip(c, d) == cert[c] # None /\ cert[c].device = d /\ c \notin recorded

EnrollStages == {"findPending", "approve", "sign", "store"}

\* r is going to store a certificate for d.
Issuer(r, d) ==
    /\ dev[r] = d
    /\ \/ kind[r] = "enroll" /\ pc[r] \in EnrollStages
       \/ kind[r] = "renew" /\ pc[r] \in {"sign", "store"}

\* The stages at which a request has an existing certificate in hand.
RevokeStages ==
    {"table", "trust", "findCertificate", "vault", "saveRevoked", "record"}

KindAtStage ==
    \A r \in Reqs :
        /\ pc[r] \in {"lookup", "findPending", "approve",
                      "findToken", "consume"} => kind[r] = "enroll"
        /\ pc[r] = "insert" => kind[r] \in {"enroll", "register"}
        /\ pc[r] \in RevokeStages => kind[r] \in {"renew", "revoke"}
        /\ pc[r] = "sign" => kind[r] \in {"enroll", "renew", "generate"}
        /\ pc[r] \in {"store", "bind"} => kind[r] \in {"enroll", "renew"}
        /\ kind[r] = "enroll" => tok[r] \in Tokens /\ token[tok[r]] # None
        /\ pc[r] # "idle" => dev[r] \in Devices

InHand ==
    \A r \in Reqs :
        /\ pc[r] \in RevokeStages =>
              /\ ser[r] \in Serials
              /\ cert[ser[r]] # None
              /\ cert[ser[r]].device = dev[r]
        /\ pc[r] = "record" => cert[ser[r]].revoked
        /\ pc[r] = "store" =>
              /\ ser[r] \in signed
              /\ cert[ser[r]] = None
        /\ pc[r] \in {"bind", "findToken", "consume"} => ser[r] \in Serials
        /\ pc[r] \in {"findPending", "approve", "bind", "save"} => Known(dev[r])
        /\ pc[r] = "save" => was[r] \in DeviceStatus

StoringDiffer ==
    \A r, q \in Reqs :
        pc[r] = "store" /\ pc[q] = "store" /\ ser[r] = ser[q] => r = q

RecordsAreRevoked ==
    \A c \in recorded : cert[c] # None /\ cert[c].revoked

StoredIsSigned ==
    \A c \in Serials : cert[c] # None => c \in signed /\ Known(cert[c].device)

OneIssueRight ==
    /\ \A d \in Devices, c, e \in Serials : Tip(c, d) /\ Tip(e, d) => c = e
    /\ \A d \in Devices, c \in Serials, r \in Reqs : Tip(c, d) => ~Issuer(r, d)
    /\ \A d \in Devices, r, q \in Reqs : Issuer(r, d) /\ Issuer(q, d) => r = q
    /\ \A d \in Devices, r \in Reqs : Issuer(r, d) => Known(d)

IInv ==
    /\ TypeOK
    /\ KindAtStage
    /\ InHand
    /\ StoringDiffer
    /\ RecordsAreRevoked
    /\ StoredIsSigned
    /\ OneIssueRight

-----------------------------------------------------------------------------
(* Types.  The bookkeeping of requests is typed once, for the three ways in *)
(* which an action moves a request.                                         *)
StoreType ==
    /\ token \in [Tokens -> TokenDoc \union {None}]
    /\ device \in [Devices -> DeviceDoc \union {None}]
    /\ cert \in [Serials -> CertificateDoc \union {None}]
    /\ recorded \subseteq Serials
    /\ signed \subseteq Serials /\ crl \subseteq Serials
    /\ lapsed \subseteq Tokens \union Serials
    /\ given \subseteq Serials
    /\ enrolled \in [Tokens -> Nat]

RequestType ==
    /\ pc \in [Reqs -> Stages]
    /\ kind \in [Reqs -> Kinds]
    /\ tok \in [Reqs -> Tokens \union {None}]
    /\ dev \in [Reqs -> Devices \union {None}]
    /\ ser \in [Reqs -> Serials \union {None}]
    /\ was \in [Reqs -> DeviceStatus \union {None}]
    /\ count \in [Reqs -> Nat]

LEMMA TypeParts == TypeOK <=> StoreType /\ RequestType
BY DEF TypeOK, StoreType, RequestType

\* The document that the consumption of a token saves.
LEMMA ConsumedType ==
    ASSUME NEW t \in Tokens, token[t] \in TokenDoc, NEW n \in Nat
    PROVE  Consumed(t, n) \in TokenDoc
<1>1. n + 1 \in Nat
  OBVIOUS
<1>2. token[t].isUsed \in BOOLEAN
  BY DEF TokenDoc
<1>. QED
  BY ONLY token[t] \in TokenDoc, <1>1, <1>2 DEF Consumed, TokenDoc

\* A request that finishes, whatever the action does to the stores.
LEMMA FinishType ==
    ASSUME RequestType, NEW r \in Reqs, Finish(r)
    PROVE  RequestType'
BY DEF RequestType, Finish, Stages, Kinds

\* A request that is suspended at its next stage with the same data in hand.
LEMMA StepType ==
    ASSUME RequestType, NEW r \in Reqs, NEW from, NEW to \in Stages,
           Step(r, from, to), UNCHANGED local
    PROVE  RequestType'
BY DEF RequestType, Step, local

\* A request that starts.
LEMMA StartType ==
    ASSUME RequestType, NEW r \in Reqs, NEW k \in Kinds, NEW stage \in Stages,
           NEW t \in Tokens \union {None}, NEW d \in Devices \union {None},
           NEW c \in Serials \union {None}, Start(r, k, stage, t, d, c)
    PROVE  RequestType'
BY DEF RequestType, Start

\* Every action leaves the collections, Vault and the history in their types.
LEMMA StoreTypeStep ==
    ASSUME IInv, [Next]_vars
    PROVE  StoreType'
<1>. USE DEF IInv, TypeOK, StoreType, Step, Finish, Start, Idle, Known, Valid,
             stores, local, KindAtStage, InHand, DeviceStatus, RevokeStages
<1>1. ASSUME NEW r \in Reqs, NEW t \in Tokens, NEW d \in Devices,
             VerifyToken(r, t, d)
      PROVE  StoreType'
  BY <1>1 DEF VerifyToken
<1>2. ASSUME NEW r \in Reqs, LookUpFingerprint(r) PROVE  StoreType'
  BY <1>2 DEF LookUpFingerprint
<1>3. ASSUME NEW r \in Reqs, RefuseKnownDevice(r) PROVE  StoreType'
  BY <1>3 DEF RefuseKnownDevice
<1>4. ASSUME NEW r \in Reqs, RegisterDevice(r) PROVE  StoreType'
  BY <1>4 DEF RegisterDevice, DeviceDoc
<1>5. ASSUME NEW r \in Reqs, FindPendingDevice(r) PROVE  StoreType'
  BY <1>5 DEF FindPendingDevice
<1>6. ASSUME NEW r \in Reqs, ApproveDevice(r) PROVE  StoreType'
  BY <1>6 DEF ApproveDevice, DeviceDoc
<1>7. ASSUME NEW r \in Reqs, FindToken(r) PROVE  StoreType'
  BY <1>7 DEF FindToken
<1>8. ASSUME NEW r \in Reqs, ConsumeToken(r) PROVE  StoreType'
  <2>1. tok[r] \in Tokens /\ token[tok[r]] \in TokenDoc
    BY <1>8 DEF ConsumeToken
  <2>2. Consumed(tok[r], count[r]) \in TokenDoc
    BY <2>1, ConsumedType
  <2>3. ser[r] \in Serials
    BY <1>8 DEF ConsumeToken
  <2>. QED
    BY <1>8, <2>1, <2>2, <2>3 DEF ConsumeToken
<1>9. ASSUME NEW r \in Reqs, NEW d \in Devices, GenerateCertificate(r, d)
      PROVE  StoreType'
  BY <1>9 DEF GenerateCertificate
<1>10. ASSUME NEW r \in Reqs, SignCsr(r) PROVE  StoreType'
  BY <1>10 DEF SignCsr
<1>11. ASSUME NEW r \in Reqs, StoreCertificate(r) PROVE  StoreType'
  BY <1>11 DEF StoreCertificate, CertificateDoc
<1>12. ASSUME NEW r \in Reqs, BindCertificate(r) PROVE  StoreType'
  BY <1>12 DEF BindCertificate, DeviceDoc
<1>13. ASSUME NEW r \in Reqs, NEW c \in Serials, VerifyCertificate(r, c)
       PROVE  StoreType'
  BY <1>13 DEF VerifyCertificate
<1>14. ASSUME NEW r \in Reqs, NEW c \in Serials, StartRevoke(r, c)
       PROVE  StoreType'
  BY <1>14 DEF StartRevoke
<1>15. ASSUME NEW r \in Reqs, CheckRevocationTable(r) PROVE  StoreType'
  BY <1>15 DEF CheckRevocationTable
<1>16. ASSUME NEW r \in Reqs, CheckDeviceTrust(r) PROVE  StoreType'
  BY <1>16 DEF CheckDeviceTrust
<1>17. ASSUME NEW r \in Reqs, FindCertificate(r) PROVE  StoreType'
  BY <1>17 DEF FindCertificate
<1>18. ASSUME NEW r \in Reqs, RevokeInVault(r) PROVE  StoreType'
  BY <1>18 DEF RevokeInVault
<1>19. ASSUME NEW r \in Reqs, SaveRevoked(r) PROVE  StoreType'
  <2>1. pc[r] \in RevokeStages
    BY <1>19 DEF SaveRevoked
  <2>2. ser[r] \in Serials /\ cert[ser[r]] \in CertificateDoc
    BY <2>1
  <2>3. [cert[ser[r]] EXCEPT !.revoked = TRUE] \in CertificateDoc
    BY <2>2 DEF CertificateDoc
  <2>. QED
    BY <1>19, <2>2, <2>3 DEF SaveRevoked
<1>20. ASSUME NEW r \in Reqs, RecordRevocation(r) PROVE  StoreType'
  BY <1>20 DEF RecordRevocation
<1>21. ASSUME NEW r \in Reqs, NEW d \in Devices, FindDevice(r, d)
       PROVE  StoreType'
  BY <1>21 DEF FindDevice
<1>22. ASSUME NEW r \in Reqs, NEW s \in AdminStatuses, SaveStatus(r, s)
       PROVE  StoreType'
  BY <1>22, EnrollmentAssumption DEF SaveStatus, DeviceDoc
<1>23. ASSUME NEW r \in Reqs, Abort(r) PROVE  StoreType'
  BY <1>23 DEF Abort
<1>24. ASSUME NEW t \in Tokens, NEW m \in Budgets, CreateEnrollmentToken(t, m)
       PROVE  StoreType'
  BY <1>24, EnrollmentAssumption
  DEF CreateEnrollmentToken, TokenDoc
<1>25. ASSUME NEW x \in Tokens \union Serials, Lapse(x) PROVE  StoreType'
  BY <1>25 DEF Lapse
<1>26. CASE UNCHANGED vars
  BY <1>26 DEF vars
<1>27. ASSUME NEW r \in Reqs, NEW d \in Devices, StartRegistration(r, d)
      PROVE  StoreType'
  BY <1>27 DEF StartRegistration
<1>. QED
  BY <1>1, <1>2, <1>3, <1>4, <1>5, <1>6, <1>7, <1>8, <1>9, <1>10, <1>11, <1>12,
     <1>13, <1>14, <1>15, <1>16, <1>17, <1>18, <1>19, <1>20, <1>21, <1>22,
     <1>23, <1>24, <1>25, <1>26, <1>27
  DEF Next, EnrollDevice, SignAndStore, RenewOrRevoke, UpdateStatus

\* Every action leaves the requests in their types.
LEMMA RequestTypeStep ==
    ASSUME IInv, [Next]_vars
    PROVE  RequestType'
<1>0. RequestType
  BY TypeParts DEF IInv
<1>. USE <1>0 DEF Stages, Kinds
<1>1. ASSUME NEW r \in Reqs, NEW t \in Tokens, NEW d \in Devices,
             VerifyToken(r, t, d)
      PROVE  RequestType'
  BY <1>1, StartType DEF VerifyToken
<1>2. ASSUME NEW r \in Reqs, LookUpFingerprint(r) PROVE  RequestType'
  BY <1>2, StepType DEF LookUpFingerprint
<1>3. ASSUME NEW r \in Reqs, RefuseKnownDevice(r) PROVE  RequestType'
  BY <1>3, FinishType DEF RefuseKnownDevice
<1>4. ASSUME NEW r \in Reqs, RegisterDevice(r) PROVE  RequestType'
  BY <1>4, FinishType, StepType DEF RegisterDevice
<1>5. ASSUME NEW r \in Reqs, FindPendingDevice(r) PROVE  RequestType'
  BY <1>5, FinishType, StepType DEF FindPendingDevice
<1>6. ASSUME NEW r \in Reqs, ApproveDevice(r) PROVE  RequestType'
  BY <1>6, StepType DEF ApproveDevice
<1>7. ASSUME NEW r \in Reqs, FindToken(r) PROVE  RequestType'
  <2>1. token[tok[r]] \in TokenDoc
    BY <1>7 DEF FindToken, Step, IInv, TypeOK, KindAtStage
  <2>. QED
    BY <1>7, <2>1 DEF FindToken, Step, RequestType, TokenDoc
<1>8. ASSUME NEW r \in Reqs, ConsumeToken(r) PROVE  RequestType'
  BY <1>8, FinishType DEF ConsumeToken
<1>9. ASSUME NEW r \in Reqs, NEW d \in Devices, GenerateCertificate(r, d)
      PROVE  RequestType'
  BY <1>9, StartType DEF GenerateCertificate
<1>10. ASSUME NEW r \in Reqs, SignCsr(r) PROVE  RequestType'
  BY <1>10, FinishType DEF SignCsr, Step, RequestType
<1>11. ASSUME NEW r \in Reqs, StoreCertificate(r) PROVE  RequestType'
  BY <1>11, StepType DEF StoreCertificate
<1>12. ASSUME NEW r \in Reqs, BindCertificate(r) PROVE  RequestType'
  BY <1>12, FinishType, StepType DEF BindCertificate
<1>13. ASSUME NEW r \in Reqs, NEW c \in Serials, VerifyCertificate(r, c)
       PROVE  RequestType'
  <2>1. cert[c].device \in Devices
    BY <1>13 DEF VerifyCertificate, IInv, TypeOK, Valid, CertificateDoc
  <2>. QED
    BY <1>13, <2>1, StartType DEF VerifyCertificate
<1>14. ASSUME NEW r \in Reqs, NEW c \in Serials, StartRevoke(r, c)
       PROVE  RequestType'
  <2>1. cert[c].device \in Devices
    BY <1>14 DEF StartRevoke, IInv, TypeOK, Valid, CertificateDoc
  <2>. QED
    BY <1>14, <2>1, StartType DEF StartRevoke
<1>15. ASSUME NEW r \in Reqs, CheckRevocationTable(r) PROVE  RequestType'
  BY <1>15, FinishType, StepType DEF CheckRevocationTable
<1>16. ASSUME NEW r \in Reqs, CheckDeviceTrust(r) PROVE  RequestType'
  BY <1>16, FinishType, StepType DEF CheckDeviceTrust
<1>17. ASSUME NEW r \in Reqs, FindCertificate(r) PROVE  RequestType'
  BY <1>17, FinishType, StepType DEF FindCertificate
<1>18. ASSUME NEW r \in Reqs, RevokeInVault(r) PROVE  RequestType'
  BY <1>18, StepType DEF RevokeInVault
<1>19. ASSUME NEW r \in Reqs, SaveRevoked(r) PROVE  RequestType'
  BY <1>19, StepType DEF SaveRevoked
<1>20. ASSUME NEW r \in Reqs, RecordRevocation(r) PROVE  RequestType'
  BY <1>20, FinishType, StepType DEF RecordRevocation
<1>21. ASSUME NEW r \in Reqs, NEW d \in Devices, FindDevice(r, d)
       PROVE  RequestType'
  <2>1. device[d] \in DeviceDoc
    BY <1>21 DEF FindDevice, Known, IInv, TypeOK
  <2>. QED
    BY <1>21, <2>1 DEF FindDevice, RequestType, DeviceDoc
<1>22. ASSUME NEW r \in Reqs, NEW s \in AdminStatuses, SaveStatus(r, s)
       PROVE  RequestType'
  BY <1>22, FinishType DEF SaveStatus
<1>23. ASSUME NEW r \in Reqs, Abort(r) PROVE  RequestType'
  BY <1>23, FinishType DEF Abort
<1>24. ASSUME NEW t \in Tokens, NEW m \in Budgets, CreateEnrollmentToken(t, m)
       PROVE  RequestType'
  BY <1>24 DEF CreateEnrollmentToken, RequestType, local, vars
<1>25. ASSUME NEW x \in Tokens \union Serials, Lapse(x) PROVE  RequestType'
  BY <1>25 DEF Lapse, RequestType, local, vars
<1>26. CASE UNCHANGED vars
  BY <1>26 DEF vars, RequestType, local
<1>27. ASSUME NEW r \in Reqs, NEW d \in Devices, StartRegistration(r, d)
      PROVE  RequestType'
  BY <1>27, StartType DEF StartRegistration
<1>. QED
  BY <1>1, <1>2, <1>3, <1>4, <1>5, <1>6, <1>7, <1>8, <1>9, <1>10, <1>11, <1>12,
     <1>13, <1>14, <1>15, <1>16, <1>17, <1>18, <1>19, <1>20, <1>21, <1>22,
     <1>23, <1>24, <1>25, <1>26, <1>27
  DEF Next, EnrollDevice, SignAndStore, RenewOrRevoke, UpdateStatus

DevicesKept == \A d \in Devices : Known(d) => Known(d)'

TokensKept == \A t \in Tokens : token[t] # None => token'[t] # None

CertificatesKept ==
    \A c \in Serials :
        cert[c] # None => /\ cert'[c] # None
                          /\ cert'[c].device = cert[c].device
                          /\ cert[c].revoked => cert'[c].revoked

\* No device and no token is ever deleted.
LEMMA DocumentsStay ==
    ASSUME IInv, [Next]_vars
    PROVE  DevicesKept /\ TokensKept
<1>. USE DEF DevicesKept, TokensKept, IInv, TypeOK, KindAtStage, InHand, Known,
             DeviceDoc, Step, Finish, Start, Idle, stores, local, RevokeStages
<1>1. ASSUME NEW r \in Reqs, NEW t \in Tokens, NEW d \in Devices,
             VerifyToken(r, t, d)
      PROVE  DevicesKept /\ TokensKept
  BY <1>1 DEF VerifyToken, TokenDoc
<1>2. ASSUME NEW r \in Reqs, LookUpFingerprint(r)
      PROVE  DevicesKept /\ TokensKept
  BY <1>2 DEF LookUpFingerprint, TokenDoc
<1>3. ASSUME NEW r \in Reqs, RefuseKnownDevice(r)
      PROVE  DevicesKept /\ TokensKept
  BY <1>3 DEF RefuseKnownDevice, TokenDoc
<1>4. ASSUME NEW r \in Reqs, RegisterDevice(r) PROVE  DevicesKept /\ TokensKept
  BY <1>4 DEF RegisterDevice, TokenDoc
<1>5. ASSUME NEW r \in Reqs, FindPendingDevice(r)
      PROVE  DevicesKept /\ TokensKept
  BY <1>5 DEF FindPendingDevice, TokenDoc
<1>6. ASSUME NEW r \in Reqs, ApproveDevice(r) PROVE  DevicesKept /\ TokensKept
  <2>1. dev[r] \in Devices /\ device[dev[r]] \in DeviceDoc
    BY <1>6 DEF ApproveDevice
  <2>2. [device[dev[r]] EXCEPT !.status = "approved"] \in DeviceDoc
    BY <2>1 DEF DeviceStatus
  <2>. QED
    BY <1>6, <2>2, EnrollmentAssumption DEF ApproveDevice
<1>7. ASSUME NEW r \in Reqs, FindToken(r) PROVE  DevicesKept /\ TokensKept
  BY <1>7 DEF FindToken, TokenDoc
<1>8. ASSUME NEW r \in Reqs, ConsumeToken(r) PROVE  DevicesKept /\ TokensKept
  <2>1. tok[r] \in Tokens /\ token[tok[r]] \in TokenDoc
    BY <1>8 DEF ConsumeToken
  <2>2. Consumed(tok[r], count[r]) \in TokenDoc
    BY <2>1, ConsumedType
  <2>. QED
    BY <1>8, <2>2, EnrollmentAssumption DEF ConsumeToken
<1>9. ASSUME NEW r \in Reqs, NEW d \in Devices, GenerateCertificate(r, d)
      PROVE  DevicesKept /\ TokensKept
  BY <1>9 DEF GenerateCertificate, TokenDoc
<1>10. ASSUME NEW r \in Reqs, SignCsr(r) PROVE  DevicesKept /\ TokensKept
  BY <1>10 DEF SignCsr, TokenDoc
<1>11. ASSUME NEW r \in Reqs, StoreCertificate(r)
       PROVE  DevicesKept /\ TokensKept
  BY <1>11 DEF StoreCertificate, TokenDoc
<1>12. ASSUME NEW r \in Reqs, BindCertificate(r)
       PROVE  DevicesKept /\ TokensKept
  BY <1>12, EnrollmentAssumption DEF BindCertificate, TokenDoc
<1>13. ASSUME NEW r \in Reqs, NEW c \in Serials, VerifyCertificate(r, c)
       PROVE  DevicesKept /\ TokensKept
  BY <1>13 DEF VerifyCertificate, TokenDoc
<1>14. ASSUME NEW r \in Reqs, NEW c \in Serials, StartRevoke(r, c)
       PROVE  DevicesKept /\ TokensKept
  BY <1>14 DEF StartRevoke, TokenDoc
<1>15. ASSUME NEW r \in Reqs, CheckRevocationTable(r)
       PROVE  DevicesKept /\ TokensKept
  BY <1>15 DEF CheckRevocationTable, TokenDoc
<1>16. ASSUME NEW r \in Reqs, CheckDeviceTrust(r)
       PROVE  DevicesKept /\ TokensKept
  BY <1>16 DEF CheckDeviceTrust, TokenDoc
<1>17. ASSUME NEW r \in Reqs, FindCertificate(r)
       PROVE  DevicesKept /\ TokensKept
  BY <1>17 DEF FindCertificate, TokenDoc
<1>18. ASSUME NEW r \in Reqs, RevokeInVault(r) PROVE  DevicesKept /\ TokensKept
  BY <1>18 DEF RevokeInVault, TokenDoc
<1>19. ASSUME NEW r \in Reqs, SaveRevoked(r) PROVE  DevicesKept /\ TokensKept
  BY <1>19 DEF SaveRevoked, TokenDoc
<1>20. ASSUME NEW r \in Reqs, RecordRevocation(r)
       PROVE  DevicesKept /\ TokensKept
  BY <1>20 DEF RecordRevocation, TokenDoc
<1>21. ASSUME NEW r \in Reqs, NEW d \in Devices, FindDevice(r, d)
       PROVE  DevicesKept /\ TokensKept
  BY <1>21 DEF FindDevice, TokenDoc
<1>22. ASSUME NEW r \in Reqs, NEW s \in AdminStatuses, SaveStatus(r, s)
       PROVE  DevicesKept /\ TokensKept
  BY <1>22, EnrollmentAssumption DEF SaveStatus, TokenDoc
<1>23. ASSUME NEW r \in Reqs, Abort(r) PROVE  DevicesKept /\ TokensKept
  BY <1>23 DEF Abort, TokenDoc
<1>24. ASSUME NEW t \in Tokens, NEW m \in Budgets, CreateEnrollmentToken(t, m)
       PROVE  DevicesKept /\ TokensKept
  BY <1>24 DEF CreateEnrollmentToken, TokenDoc
<1>25. ASSUME NEW x \in Tokens \union Serials, Lapse(x)
       PROVE  DevicesKept /\ TokensKept
  BY <1>25 DEF Lapse, TokenDoc
<1>26. CASE UNCHANGED vars
  BY <1>26 DEF vars, TokenDoc
<1>27. ASSUME NEW r \in Reqs, NEW d \in Devices, StartRegistration(r, d)
      PROVE  DevicesKept /\ TokensKept
  BY <1>27 DEF StartRegistration, TokenDoc
<1>. QED
  BY <1>1, <1>2, <1>3, <1>4, <1>5, <1>6, <1>7, <1>8, <1>9, <1>10, <1>11, <1>12,
     <1>13, <1>14, <1>15, <1>16, <1>17, <1>18, <1>19, <1>20, <1>21, <1>22,
     <1>23, <1>24, <1>25, <1>26, <1>27
  DEF Next, EnrollDevice, SignAndStore, RenewOrRevoke, UpdateStatus

\* A certificate stays with its device, and stays revoked once it is.
LEMMA CertificatesStay ==
    ASSUME IInv, [Next]_vars
    PROVE  CertificatesKept
<1>. USE DEF CertificatesKept, IInv, TypeOK, InHand, Step, Finish, Start, Idle,
             stores, local, RevokeStages
<1>1. ASSUME NEW r \in Reqs, NEW t \in Tokens, NEW d \in Devices,
             VerifyToken(r, t, d)
      PROVE  CertificatesKept
  BY <1>1 DEF VerifyToken
<1>2. ASSUME NEW r \in Reqs, LookUpFingerprint(r) PROVE  CertificatesKept
  BY <1>2 DEF LookUpFingerprint
<1>3. ASSUME NEW r \in Reqs, RefuseKnownDevice(r) PROVE  CertificatesKept
  BY <1>3 DEF RefuseKnownDevice
<1>4. ASSUME NEW r \in Reqs, RegisterDevice(r) PROVE  CertificatesKept
  BY <1>4 DEF RegisterDevice
<1>5. ASSUME NEW r \in Reqs, FindPendingDevice(r) PROVE  CertificatesKept
  BY <1>5 DEF FindPendingDevice
<1>6. ASSUME NEW r \in Reqs, ApproveDevice(r) PROVE  CertificatesKept
  BY <1>6 DEF ApproveDevice
<1>7. ASSUME NEW r \in Reqs, FindToken(r) PROVE  CertificatesKept
  BY <1>7 DEF FindToken
<1>8. ASSUME NEW r \in Reqs, ConsumeToken(r) PROVE  CertificatesKept
  BY <1>8 DEF ConsumeToken
<1>9. ASSUME NEW r \in Reqs, NEW d \in Devices, GenerateCertificate(r, d)
      PROVE  CertificatesKept
  BY <1>9 DEF GenerateCertificate
<1>10. ASSUME NEW r \in Reqs, SignCsr(r) PROVE  CertificatesKept
  BY <1>10 DEF SignCsr
<1>11. ASSUME NEW r \in Reqs, StoreCertificate(r) PROVE  CertificatesKept
  BY <1>11 DEF StoreCertificate
<1>12. ASSUME NEW r \in Reqs, BindCertificate(r) PROVE  CertificatesKept
  BY <1>12 DEF BindCertificate
<1>13. ASSUME NEW r \in Reqs, NEW c \in Serials, VerifyCertificate(r, c)
       PROVE  CertificatesKept
  BY <1>13 DEF VerifyCertificate
<1>14. ASSUME NEW r \in Reqs, NEW c \in Serials, StartRevoke(r, c)
       PROVE  CertificatesKept
  BY <1>14 DEF StartRevoke
<1>15. ASSUME NEW r \in Reqs, CheckRevocationTable(r) PROVE  CertificatesKept
  BY <1>15 DEF CheckRevocationTable
<1>16. ASSUME NEW r \in Reqs, CheckDeviceTrust(r) PROVE  CertificatesKept
  BY <1>16 DEF CheckDeviceTrust
<1>17. ASSUME NEW r \in Reqs, FindCertificate(r) PROVE  CertificatesKept
  BY <1>17 DEF FindCertificate
<1>18. ASSUME NEW r \in Reqs, RevokeInVault(r) PROVE  CertificatesKept
  BY <1>18 DEF RevokeInVault
<1>19. ASSUME NEW r \in Reqs, SaveRevoked(r) PROVE  CertificatesKept
  <2>1. ser[r] \in Serials /\ cert[ser[r]] \in CertificateDoc
    BY <1>19 DEF SaveRevoked
  <2>2. [cert[ser[r]] EXCEPT !.revoked = TRUE] \in CertificateDoc
    BY <2>1 DEF CertificateDoc
  <2>. QED
    BY <1>19, <2>1, <2>2, EnrollmentAssumption DEF SaveRevoked, CertificateDoc
<1>20. ASSUME NEW r \in Reqs, RecordRevocation(r) PROVE  CertificatesKept
  BY <1>20 DEF RecordRevocation
<1>21. ASSUME NEW r \in Reqs, NEW d \in Devices, FindDevice(r, d)
       PROVE  CertificatesKept
  BY <1>21 DEF FindDevice
<1>22. ASSUME NEW r \in Reqs, NEW s \in AdminStatuses, SaveStatus(r, s)
       PROVE  CertificatesKept
  BY <1>22 DEF SaveStatus
<1>23. ASSUME NEW r \in Reqs, Abort(r) PROVE  CertificatesKept
  BY <1>23 DEF Abort
<1>24. ASSUME NEW t \in Tokens, NEW m \in Budgets, CreateEnrollmentToken(t, m)
       PROVE  CertificatesKept
  BY <1>24 DEF CreateEnrollmentToken
<1>25. ASSUME NEW x \in Tokens \union Serials, Lapse(x) PROVE  CertificatesKept
  BY <1>25 DEF Lapse
<1>26. CASE UNCHANGED vars
  BY <1>26 DEF vars
<1>27. ASSUME NEW r \in Reqs, NEW d \in Devices, StartRegistration(r, d)
      PROVE  CertificatesKept
  BY <1>27 DEF StartRegistration
<1>. QED
  BY <1>1, <1>2, <1>3, <1>4, <1>5, <1>6, <1>7, <1>8, <1>9, <1>10, <1>11, <1>12,
     <1>13, <1>14, <1>15, <1>16, <1>17, <1>18, <1>19, <1>20, <1>21, <1>22,
     <1>23, <1>24, <1>25, <1>26, <1>27
  DEF Next, EnrollDevice, SignAndStore, RenewOrRevoke, UpdateStatus

\* The stage a request has reached tells what the request is doing.
LEMMA KindStep ==
    ASSUME IInv, [Next]_vars
    PROVE  KindAtStage'
<1>. USE DEF IInv, TypeOK, DevicesKept, TokensKept, CertificatesKept,
             KindAtStage, InHand, Step, Finish, Start, Idle, stores, local,
             RevokeStages
<1>1. ASSUME NEW r \in Reqs, NEW t \in Tokens, NEW d \in Devices,
             VerifyToken(r, t, d)
      PROVE  KindAtStage'
  BY <1>1 DEF VerifyToken
<1>2. ASSUME NEW r \in Reqs, LookUpFingerprint(r) PROVE  KindAtStage'
  BY <1>2 DEF LookUpFingerprint
<1>3. ASSUME NEW r \in Reqs, RefuseKnownDevice(r) PROVE  KindAtStage'
  BY <1>3 DEF RefuseKnownDevice
<1>4. ASSUME NEW r \in Reqs, RegisterDevice(r) PROVE  KindAtStage'
  BY <1>4 DEF RegisterDevice
<1>5. ASSUME NEW r \in Reqs, FindPendingDevice(r) PROVE  KindAtStage'
  BY <1>5 DEF FindPendingDevice
<1>6. ASSUME NEW r \in Reqs, ApproveDevice(r) PROVE  KindAtStage'
  BY <1>6 DEF ApproveDevice
<1>7. ASSUME NEW r \in Reqs, FindToken(r) PROVE  KindAtStage'
  BY <1>7 DEF FindToken
<1>8. ASSUME NEW r \in Reqs, ConsumeToken(r) PROVE  KindAtStage'
  BY <1>8, DocumentsStay DEF ConsumeToken
<1>9. ASSUME NEW r \in Reqs, NEW d \in Devices, GenerateCertificate(r, d)
      PROVE  KindAtStage'
  BY <1>9 DEF GenerateCertificate
<1>10. ASSUME NEW r \in Reqs, SignCsr(r) PROVE  KindAtStage'
  BY <1>10 DEF SignCsr
<1>11. ASSUME NEW r \in Reqs, StoreCertificate(r) PROVE  KindAtStage'
  BY <1>11 DEF StoreCertificate
<1>12. ASSUME NEW r \in Reqs, BindCertificate(r) PROVE  KindAtStage'
  BY <1>12 DEF BindCertificate
<1>13. ASSUME NEW r \in Reqs, NEW c \in Serials, VerifyCertificate(r, c)
       PROVE  KindAtStage'
  <2>1. cert[c].device \in Devices
    BY <1>13 DEF VerifyCertificate, Valid, CertificateDoc
  <2>. QED
    BY <1>13, <2>1, DocumentsStay DEF VerifyCertificate
<1>14. ASSUME NEW r \in Reqs, NEW c \in Serials, StartRevoke(r, c)
       PROVE  KindAtStage'
  <2>1. cert[c].device \in Devices
    BY <1>14 DEF StartRevoke, Valid, CertificateDoc
  <2>. QED
    BY <1>14, <2>1, DocumentsStay DEF StartRevoke
<1>15. ASSUME NEW r \in Reqs, CheckRevocationTable(r) PROVE  KindAtStage'
  BY <1>15 DEF CheckRevocationTable
<1>16. ASSUME NEW r \in Reqs, CheckDeviceTrust(r) PROVE  KindAtStage'
  BY <1>16 DEF CheckDeviceTrust
<1>17. ASSUME NEW r \in Reqs, FindCertificate(r) PROVE  KindAtStage'
  BY <1>17 DEF FindCertificate
<1>18. ASSUME NEW r \in Reqs, RevokeInVault(r) PROVE  KindAtStage'
  BY <1>18 DEF RevokeInVault
<1>19. ASSUME NEW r \in Reqs, SaveRevoked(r) PROVE  KindAtStage'
  BY <1>19 DEF SaveRevoked
<1>20. ASSUME NEW r \in Reqs, RecordRevocation(r) PROVE  KindAtStage'
  BY <1>20 DEF RecordRevocation
<1>21. ASSUME NEW r \in Reqs, NEW d \in Devices, FindDevice(r, d)
       PROVE  KindAtStage'
  BY <1>21 DEF FindDevice
<1>22. ASSUME NEW r \in Reqs, NEW s \in AdminStatuses, SaveStatus(r, s)
       PROVE  KindAtStage'
  BY <1>22 DEF SaveStatus
<1>23. ASSUME NEW r \in Reqs, Abort(r) PROVE  KindAtStage'
  BY <1>23 DEF Abort
<1>24. ASSUME NEW t \in Tokens, NEW m \in Budgets, CreateEnrollmentToken(t, m)
       PROVE  KindAtStage'
  BY <1>24 DEF CreateEnrollmentToken
<1>25. ASSUME NEW x \in Tokens \union Serials, Lapse(x) PROVE  KindAtStage'
  BY <1>25 DEF Lapse
<1>26. CASE UNCHANGED vars
  BY <1>26 DEF vars
<1>27. ASSUME NEW r \in Reqs, NEW d \in Devices, StartRegistration(r, d)
      PROVE  KindAtStage'
  BY <1>27 DEF StartRegistration
<1>. QED
  BY <1>1, <1>2, <1>3, <1>4, <1>5, <1>6, <1>7, <1>8, <1>9, <1>10, <1>11, <1>12,
     <1>13, <1>14, <1>15, <1>16, <1>17, <1>18, <1>19, <1>20, <1>21, <1>22,
     <1>23, <1>24, <1>25, <1>26, <1>27
  DEF Next, EnrollDevice, SignAndStore, RenewOrRevoke, UpdateStatus

\* What a request has in hand stays true of the stores until it is used.
LEMMA HandStep ==
    ASSUME IInv, [Next]_vars
    PROVE  InHand'
<1>. USE DEF IInv, TypeOK, DevicesKept, TokensKept, CertificatesKept,
             KindAtStage, InHand, Valid, Step, Finish, Start, Idle, stores,
             local, RevokeStages
<1>1. ASSUME NEW r \in Reqs, NEW t \in Tokens, NEW d \in Devices,
             VerifyToken(r, t, d)
      PROVE  InHand'
  BY <1>1, DocumentsStay DEF VerifyToken
<1>2. ASSUME NEW r \in Reqs, LookUpFingerprint(r) PROVE  InHand'
  BY <1>2, DocumentsStay DEF LookUpFingerprint
<1>3. ASSUME NEW r \in Reqs, RefuseKnownDevice(r) PROVE  InHand'
  BY <1>3, DocumentsStay DEF RefuseKnownDevice
<1>4. ASSUME NEW r \in Reqs, RegisterDevice(r) PROVE  InHand'
  <2>1. dev[r] \in Devices
    BY <1>4 DEF RegisterDevice
  <2>2. CASE Known(dev[r])
    BY <1>4, <2>2, DocumentsStay, CertificatesStay DEF RegisterDevice
  <2>3. CASE ~Known(dev[r]) /\ kind[r] = "enroll"
    <3>1. Known(dev[r])' /\ UNCHANGED <<local, cert, signed>>
      BY <1>4, <2>1, <2>3, EnrollmentAssumption
      DEF RegisterDevice, Known, DeviceDoc, DeviceStatus
    <3>2. pc' = [pc EXCEPT ![r] = "findPending"]
      BY <1>4, <2>3 DEF RegisterDevice
    <3>. QED
      BY <2>1, <3>1, <3>2, DocumentsStay
  <2>4. CASE ~Known(dev[r]) /\ kind[r] # "enroll"
    <3>1. Finish(r) /\ UNCHANGED <<cert, signed>>
      BY <1>4, <2>4 DEF RegisterDevice
    <3>. QED
      BY <3>1, DocumentsStay, CertificatesStay
  <2>. QED
    BY <2>2, <2>3, <2>4
<1>5. ASSUME NEW r \in Reqs, FindPendingDevice(r) PROVE  InHand'
  BY <1>5, DocumentsStay DEF FindPendingDevice
<1>6. ASSUME NEW r \in Reqs, ApproveDevice(r) PROVE  InHand'
  BY <1>6, DocumentsStay DEF ApproveDevice
<1>7. ASSUME NEW r \in Reqs, FindToken(r) PROVE  InHand'
  BY <1>7, DocumentsStay DEF FindToken
<1>8. ASSUME NEW r \in Reqs, ConsumeToken(r) PROVE  InHand'
  BY <1>8, DocumentsStay DEF ConsumeToken
<1>9. ASSUME NEW r \in Reqs, NEW d \in Devices, GenerateCertificate(r, d)
      PROVE  InHand'
  BY <1>9, DocumentsStay DEF GenerateCertificate
<1>10. ASSUME NEW r \in Reqs, SignCsr(r) PROVE  InHand'
  <2>1. PICK c \in Serials \ signed :
          /\ signed' = signed \union {c}
          /\ \/ /\ Step(r, "sign", "store")
                /\ ser' = [ser EXCEPT ![r] = c]
                /\ UNCHANGED <<kind, tok, dev, was, count>>
             \/ Finish(r)
    BY <1>10 DEF SignCsr
  <2>2. UNCHANGED <<device, cert>>
    BY <1>10 DEF SignCsr
  <2>3. cert[c] = None
    BY DEF StoredIsSigned
  <2>4. \A q \in Reqs \ {r} : pc'[q] = pc[q] /\ ser'[q] = ser[q]
                             /\ dev'[q] = dev[q] /\ was'[q] = was[q]
    BY <2>1
  <2>5. \/ pc'[r] = "idle"
        \/ pc'[r] = "store" /\ ser'[r] = c
    BY <2>1
  <2>. QED
    BY ONLY InHand, RequestType, <2>1, <2>2, <2>3, <2>4, <2>5
    DEF InHand, RevokeStages, Known, RequestType
<1>11. ASSUME NEW r \in Reqs, StoreCertificate(r) PROVE  InHand'
  BY <1>11, DocumentsStay
  DEF StoreCertificate, StoredIsSigned, StoringDiffer, OneIssueRight, Issuer,
      EnrollStages, DeviceDoc, CertificateDoc
<1>12. ASSUME NEW r \in Reqs, BindCertificate(r) PROVE  InHand'
  BY <1>12, DocumentsStay DEF BindCertificate
<1>13. ASSUME NEW r \in Reqs, NEW c \in Serials, VerifyCertificate(r, c)
       PROVE  InHand'
  BY <1>13, DocumentsStay DEF VerifyCertificate
<1>14. ASSUME NEW r \in Reqs, NEW c \in Serials, StartRevoke(r, c)
       PROVE  InHand'
  BY <1>14, DocumentsStay DEF StartRevoke
<1>15. ASSUME NEW r \in Reqs, CheckRevocationTable(r) PROVE  InHand'
  BY <1>15, DocumentsStay DEF CheckRevocationTable
<1>16. ASSUME NEW r \in Reqs, CheckDeviceTrust(r) PROVE  InHand'
  BY <1>16, DocumentsStay DEF CheckDeviceTrust
<1>17. ASSUME NEW r \in Reqs, FindCertificate(r) PROVE  InHand'
  BY <1>17, DocumentsStay DEF FindCertificate
<1>18. ASSUME NEW r \in Reqs, RevokeInVault(r) PROVE  InHand'
  BY <1>18, DocumentsStay DEF RevokeInVault
<1>19. ASSUME NEW r \in Reqs, SaveRevoked(r) PROVE  InHand'
  <2>1. ser[r] \in Serials /\ cert[ser[r]] # None
    BY <1>19 DEF SaveRevoked
  <2>2. cert'[ser[r]].revoked
    BY <1>19, <2>1 DEF SaveRevoked, CertificateDoc
  <2>3. \A q \in Reqs : pc[q] = "store" => ser[q] # ser[r]
    BY <2>1
  <2>4. \A q \in Reqs : pc[q] = "store" => cert'[ser[q]] = None
    BY <1>19, <2>1, <2>3 DEF SaveRevoked
  <2>. QED
    BY <1>19, <2>2, <2>4, DocumentsStay, CertificatesStay DEF SaveRevoked
<1>20. ASSUME NEW r \in Reqs, RecordRevocation(r) PROVE  InHand'
  BY <1>20, DocumentsStay DEF RecordRevocation
<1>21. ASSUME NEW r \in Reqs, NEW d \in Devices, FindDevice(r, d)
       PROVE  InHand'
  <2>1. device[d].status \in DeviceStatus
    BY <1>21 DEF FindDevice, Known, DeviceDoc
  <2>2. was'[r] \in DeviceStatus /\ dev'[r] = d /\ Known(d)'
    BY <1>21, <2>1, DocumentsStay DEF FindDevice
  <2>3. \A q \in Reqs \ {r} : pc'[q] = pc[q] /\ dev'[q] = dev[q] /\ was'[q] = was[q]
    BY <1>21 DEF FindDevice
  <2>. QED
    BY <1>21, <2>2, <2>3, DocumentsStay, CertificatesStay DEF FindDevice
<1>22. ASSUME NEW r \in Reqs, NEW s \in AdminStatuses, SaveStatus(r, s)
       PROVE  InHand'
  BY <1>22, DocumentsStay DEF SaveStatus
<1>23. ASSUME NEW r \in Reqs, Abort(r) PROVE  InHand'
  BY <1>23, DocumentsStay DEF Abort
<1>24. ASSUME NEW t \in Tokens, NEW m \in Budgets, CreateEnrollmentToken(t, m)
       PROVE  InHand'
  BY <1>24, DocumentsStay DEF CreateEnrollmentToken
<1>25. ASSUME NEW x \in Tokens \union Serials, Lapse(x) PROVE  InHand'
  BY <1>25, DocumentsStay DEF Lapse
<1>26. CASE UNCHANGED vars
  BY <1>26, DocumentsStay DEF vars
<1>27. ASSUME NEW r \in Reqs, NEW d \in Devices, StartRegistration(r, d)
      PROVE  InHand'
  BY <1>27, DocumentsStay DEF StartRegistration
<1>. QED
  BY <1>1, <1>2, <1>3, <1>4, <1>5, <1>6, <1>7, <1>8, <1>9, <1>10, <1>11, <1>12,
     <1>13, <1>14, <1>15, <1>16, <1>17, <1>18, <1>19, <1>20, <1>21, <1>22,
     <1>23, <1>24, <1>25, <1>26, <1>27
  DEF Next, EnrollDevice, SignAndStore, RenewOrRevoke, UpdateStatus

\* Two requests never hold the same certificate to be stored: Vault signs
\* each serial number once.
LEMMA StoringStep ==
    ASSUME IInv, [Next]_vars
    PROVE  StoringDiffer'
<1>. USE DEF IInv, TypeOK, DevicesKept, TokensKept, CertificatesKept,
             StoringDiffer, Step, Finish, Start, Idle, stores, local,
             RevokeStages
<1>1. ASSUME NEW r \in Reqs, NEW t \in Tokens, NEW d \in Devices,
             VerifyToken(r, t, d)
      PROVE  StoringDiffer'
  BY <1>1 DEF VerifyToken
<1>2. ASSUME NEW r \in Reqs, LookUpFingerprint(r) PROVE  StoringDiffer'
  BY <1>2 DEF LookUpFingerprint
<1>3. ASSUME NEW r \in Reqs, RefuseKnownDevice(r) PROVE  StoringDiffer'
  BY <1>3 DEF RefuseKnownDevice
<1>4. ASSUME NEW r \in Reqs, RegisterDevice(r) PROVE  StoringDiffer'
  BY <1>4 DEF RegisterDevice
<1>5. ASSUME NEW r \in Reqs, FindPendingDevice(r) PROVE  StoringDiffer'
  BY <1>5 DEF FindPendingDevice
<1>6. ASSUME NEW r \in Reqs, ApproveDevice(r) PROVE  StoringDiffer'
  BY <1>6 DEF ApproveDevice
<1>7. ASSUME NEW r \in Reqs, FindToken(r) PROVE  StoringDiffer'
  BY <1>7 DEF FindToken
<1>8. ASSUME NEW r \in Reqs, ConsumeToken(r) PROVE  StoringDiffer'
  BY <1>8 DEF ConsumeToken
<1>9. ASSUME NEW r \in Reqs, NEW d \in Devices, GenerateCertificate(r, d)
      PROVE  StoringDiffer'
  BY <1>9 DEF GenerateCertificate
<1>10. ASSUME NEW r \in Reqs, SignCsr(r) PROVE  StoringDiffer'
  BY <1>10 DEF SignCsr, InHand, KindAtStage
<1>11. ASSUME NEW r \in Reqs, StoreCertificate(r) PROVE  StoringDiffer'
  BY <1>11 DEF StoreCertificate, InHand, KindAtStage
<1>12. ASSUME NEW r \in Reqs, BindCertificate(r) PROVE  StoringDiffer'
  BY <1>12 DEF BindCertificate
<1>13. ASSUME NEW r \in Reqs, NEW c \in Serials, VerifyCertificate(r, c)
       PROVE  StoringDiffer'
  BY <1>13 DEF VerifyCertificate
<1>14. ASSUME NEW r \in Reqs, NEW c \in Serials, StartRevoke(r, c)
       PROVE  StoringDiffer'
  BY <1>14 DEF StartRevoke
<1>15. ASSUME NEW r \in Reqs, CheckRevocationTable(r) PROVE  StoringDiffer'
  BY <1>15 DEF CheckRevocationTable
<1>16. ASSUME NEW r \in Reqs, CheckDeviceTrust(r) PROVE  StoringDiffer'
  BY <1>16 DEF CheckDeviceTrust
<1>17. ASSUME NEW r \in Reqs, FindCertificate(r) PROVE  StoringDiffer'
  BY <1>17 DEF FindCertificate
<1>18. ASSUME NEW r \in Reqs, RevokeInVault(r) PROVE  StoringDiffer'
  BY <1>18 DEF RevokeInVault
<1>19. ASSUME NEW r \in Reqs, SaveRevoked(r) PROVE  StoringDiffer'
  BY <1>19 DEF SaveRevoked, InHand, KindAtStage
<1>20. ASSUME NEW r \in Reqs, RecordRevocation(r) PROVE  StoringDiffer'
  BY <1>20 DEF RecordRevocation, InHand, KindAtStage
<1>21. ASSUME NEW r \in Reqs, NEW d \in Devices, FindDevice(r, d)
       PROVE  StoringDiffer'
  BY <1>21 DEF FindDevice
<1>22. ASSUME NEW r \in Reqs, NEW s \in AdminStatuses, SaveStatus(r, s)
       PROVE  StoringDiffer'
  BY <1>22 DEF SaveStatus
<1>23. ASSUME NEW r \in Reqs, Abort(r) PROVE  StoringDiffer'
  BY <1>23 DEF Abort
<1>24. ASSUME NEW t \in Tokens, NEW m \in Budgets, CreateEnrollmentToken(t, m)
       PROVE  StoringDiffer'
  BY <1>24 DEF CreateEnrollmentToken
<1>25. ASSUME NEW x \in Tokens \union Serials, Lapse(x) PROVE  StoringDiffer'
  BY <1>25 DEF Lapse
<1>26. CASE UNCHANGED vars
  BY <1>26 DEF vars, Known
<1>27. ASSUME NEW r \in Reqs, NEW d \in Devices, StartRegistration(r, d)
      PROVE  StoringDiffer'
  BY <1>27 DEF StartRegistration
<1>. QED
  BY <1>1, <1>2, <1>3, <1>4, <1>5, <1>6, <1>7, <1>8, <1>9, <1>10, <1>11, <1>12,
     <1>13, <1>14, <1>15, <1>16, <1>17, <1>18, <1>19, <1>20, <1>21, <1>22,
     <1>23, <1>24, <1>25, <1>26, <1>27
  DEF Next, EnrollDevice, SignAndStore, RenewOrRevoke, UpdateStatus

\* The record of a revocation is written after the status.
LEMMA RecordStep ==
    ASSUME IInv, [Next]_vars
    PROVE  RecordsAreRevoked'
<1>. USE DEF IInv, TypeOK, DevicesKept, TokensKept, CertificatesKept,
             RecordsAreRevoked, Step, Finish, Start, Idle, stores, local,
             RevokeStages
<1>1. ASSUME NEW r \in Reqs, NEW t \in Tokens, NEW d \in Devices,
             VerifyToken(r, t, d)
      PROVE  RecordsAreRevoked'
  BY <1>1 DEF VerifyToken
<1>2. ASSUME NEW r \in Reqs, LookUpFingerprint(r) PROVE  RecordsAreRevoked'
  BY <1>2 DEF LookUpFingerprint
<1>3. ASSUME NEW r \in Reqs, RefuseKnownDevice(r) PROVE  RecordsAreRevoked'
  BY <1>3 DEF RefuseKnownDevice
<1>4. ASSUME NEW r \in Reqs, RegisterDevice(r) PROVE  RecordsAreRevoked'
  BY <1>4 DEF RegisterDevice
<1>5. ASSUME NEW r \in Reqs, FindPendingDevice(r) PROVE  RecordsAreRevoked'
  BY <1>5 DEF FindPendingDevice
<1>6. ASSUME NEW r \in Reqs, ApproveDevice(r) PROVE  RecordsAreRevoked'
  BY <1>6 DEF ApproveDevice
<1>7. ASSUME NEW r \in Reqs, FindToken(r) PROVE  RecordsAreRevoked'
  BY <1>7 DEF FindToken
<1>8. ASSUME NEW r \in Reqs, ConsumeToken(r) PROVE  RecordsAreRevoked'
  BY <1>8 DEF ConsumeToken
<1>9. ASSUME NEW r \in Reqs, NEW d \in Devices, GenerateCertificate(r, d)
      PROVE  RecordsAreRevoked'
  BY <1>9 DEF GenerateCertificate
<1>10. ASSUME NEW r \in Reqs, SignCsr(r) PROVE  RecordsAreRevoked'
  BY <1>10 DEF SignCsr, InHand, KindAtStage
<1>11. ASSUME NEW r \in Reqs, StoreCertificate(r) PROVE  RecordsAreRevoked'
  BY <1>11 DEF StoreCertificate, InHand, KindAtStage
<1>12. ASSUME NEW r \in Reqs, BindCertificate(r) PROVE  RecordsAreRevoked'
  BY <1>12 DEF BindCertificate
<1>13. ASSUME NEW r \in Reqs, NEW c \in Serials, VerifyCertificate(r, c)
       PROVE  RecordsAreRevoked'
  BY <1>13 DEF VerifyCertificate
<1>14. ASSUME NEW r \in Reqs, NEW c \in Serials, StartRevoke(r, c)
       PROVE  RecordsAreRevoked'
  BY <1>14 DEF StartRevoke
<1>15. ASSUME NEW r \in Reqs, CheckRevocationTable(r) PROVE  RecordsAreRevoked'
  BY <1>15 DEF CheckRevocationTable
<1>16. ASSUME NEW r \in Reqs, CheckDeviceTrust(r) PROVE  RecordsAreRevoked'
  BY <1>16 DEF CheckDeviceTrust
<1>17. ASSUME NEW r \in Reqs, FindCertificate(r) PROVE  RecordsAreRevoked'
  BY <1>17 DEF FindCertificate
<1>18. ASSUME NEW r \in Reqs, RevokeInVault(r) PROVE  RecordsAreRevoked'
  BY <1>18 DEF RevokeInVault
<1>19. ASSUME NEW r \in Reqs, SaveRevoked(r) PROVE  RecordsAreRevoked'
  BY <1>19, CertificatesStay
  DEF SaveRevoked, InHand, KindAtStage
<1>20. ASSUME NEW r \in Reqs, RecordRevocation(r) PROVE  RecordsAreRevoked'
  BY <1>20 DEF RecordRevocation, InHand, KindAtStage
<1>21. ASSUME NEW r \in Reqs, NEW d \in Devices, FindDevice(r, d)
       PROVE  RecordsAreRevoked'
  BY <1>21 DEF FindDevice
<1>22. ASSUME NEW r \in Reqs, NEW s \in AdminStatuses, SaveStatus(r, s)
       PROVE  RecordsAreRevoked'
  BY <1>22 DEF SaveStatus
<1>23. ASSUME NEW r \in Reqs, Abort(r) PROVE  RecordsAreRevoked'
  BY <1>23 DEF Abort
<1>24. ASSUME NEW t \in Tokens, NEW m \in Budgets, CreateEnrollmentToken(t, m)
       PROVE  RecordsAreRevoked'
  BY <1>24 DEF CreateEnrollmentToken
<1>25. ASSUME NEW x \in Tokens \union Serials, Lapse(x)
       PROVE  RecordsAreRevoked'
  BY <1>25 DEF Lapse
<1>26. CASE UNCHANGED vars
  BY <1>26 DEF vars, Known
<1>27. ASSUME NEW r \in Reqs, NEW d \in Devices, StartRegistration(r, d)
      PROVE  RecordsAreRevoked'
  BY <1>27 DEF StartRegistration
<1>. QED
  BY <1>1, <1>2, <1>3, <1>4, <1>5, <1>6, <1>7, <1>8, <1>9, <1>10, <1>11, <1>12,
     <1>13, <1>14, <1>15, <1>16, <1>17, <1>18, <1>19, <1>20, <1>21, <1>22,
     <1>23, <1>24, <1>25, <1>26, <1>27
  DEF Next, EnrollDevice, SignAndStore, RenewOrRevoke, UpdateStatus

\* A stored certificate has been signed, and its device is registered.
LEMMA SignedStep ==
    ASSUME IInv, [Next]_vars
    PROVE  StoredIsSigned'
<1>. USE DEF CertificateDoc, IInv, TypeOK, DevicesKept, TokensKept, CertificatesKept,
             StoredIsSigned, Step, Finish, Start, Idle, stores, local,
             RevokeStages
<1>1. ASSUME NEW r \in Reqs, NEW t \in Tokens, NEW d \in Devices,
             VerifyToken(r, t, d)
      PROVE  StoredIsSigned'
  BY <1>1, DocumentsStay DEF VerifyToken
<1>2. ASSUME NEW r \in Reqs, LookUpFingerprint(r) PROVE  StoredIsSigned'
  BY <1>2, DocumentsStay DEF LookUpFingerprint
<1>3. ASSUME NEW r \in Reqs, RefuseKnownDevice(r) PROVE  StoredIsSigned'
  BY <1>3, DocumentsStay DEF RefuseKnownDevice
<1>4. ASSUME NEW r \in Reqs, RegisterDevice(r) PROVE  StoredIsSigned'
  BY <1>4, DocumentsStay DEF RegisterDevice
<1>5. ASSUME NEW r \in Reqs, FindPendingDevice(r) PROVE  StoredIsSigned'
  BY <1>5, DocumentsStay DEF FindPendingDevice
<1>6. ASSUME NEW r \in Reqs, ApproveDevice(r) PROVE  StoredIsSigned'
  BY <1>6, DocumentsStay DEF ApproveDevice
<1>7. ASSUME NEW r \in Reqs, FindToken(r) PROVE  StoredIsSigned'
  BY <1>7, DocumentsStay DEF FindToken
<1>8. ASSUME NEW r \in Reqs, ConsumeToken(r) PROVE  StoredIsSigned'
  BY <1>8, DocumentsStay DEF ConsumeToken
<1>9. ASSUME NEW r \in Reqs, NEW d \in Devices, GenerateCertificate(r, d)
      PROVE  StoredIsSigned'
  BY <1>9, DocumentsStay DEF GenerateCertificate
<1>10. ASSUME NEW r \in Reqs, SignCsr(r) PROVE  StoredIsSigned'
  BY <1>10, DocumentsStay DEF SignCsr, InHand, KindAtStage
<1>11. ASSUME NEW r \in Reqs, StoreCertificate(r) PROVE  StoredIsSigned'
  <2>1. ser[r] \in signed /\ dev[r] \in Devices /\ Known(dev[r])
    BY <1>11
    DEF StoreCertificate, InHand, KindAtStage, OneIssueRight, Issuer,
        EnrollStages
  <2>. QED
    BY <1>11, <2>1, DocumentsStay DEF StoreCertificate
<1>12. ASSUME NEW r \in Reqs, BindCertificate(r) PROVE  StoredIsSigned'
  BY <1>12, DocumentsStay DEF BindCertificate
<1>13. ASSUME NEW r \in Reqs, NEW c \in Serials, VerifyCertificate(r, c)
       PROVE  StoredIsSigned'
  BY <1>13, DocumentsStay DEF VerifyCertificate
<1>14. ASSUME NEW r \in Reqs, NEW c \in Serials, StartRevoke(r, c)
       PROVE  StoredIsSigned'
  BY <1>14, DocumentsStay DEF StartRevoke
<1>15. ASSUME NEW r \in Reqs, CheckRevocationTable(r) PROVE  StoredIsSigned'
  BY <1>15, DocumentsStay DEF CheckRevocationTable
<1>16. ASSUME NEW r \in Reqs, CheckDeviceTrust(r) PROVE  StoredIsSigned'
  BY <1>16, DocumentsStay DEF CheckDeviceTrust
<1>17. ASSUME NEW r \in Reqs, FindCertificate(r) PROVE  StoredIsSigned'
  BY <1>17, DocumentsStay DEF FindCertificate
<1>18. ASSUME NEW r \in Reqs, RevokeInVault(r) PROVE  StoredIsSigned'
  BY <1>18, DocumentsStay DEF RevokeInVault
<1>19. ASSUME NEW r \in Reqs, SaveRevoked(r) PROVE  StoredIsSigned'
  BY <1>19, DocumentsStay DEF SaveRevoked, InHand, KindAtStage
<1>20. ASSUME NEW r \in Reqs, RecordRevocation(r) PROVE  StoredIsSigned'
  BY <1>20, DocumentsStay
  DEF RecordRevocation, InHand, KindAtStage
<1>21. ASSUME NEW r \in Reqs, NEW d \in Devices, FindDevice(r, d)
       PROVE  StoredIsSigned'
  BY <1>21, DocumentsStay DEF FindDevice
<1>22. ASSUME NEW r \in Reqs, NEW s \in AdminStatuses, SaveStatus(r, s)
       PROVE  StoredIsSigned'
  BY <1>22, DocumentsStay DEF SaveStatus
<1>23. ASSUME NEW r \in Reqs, Abort(r) PROVE  StoredIsSigned'
  BY <1>23, DocumentsStay DEF Abort
<1>24. ASSUME NEW t \in Tokens, NEW m \in Budgets, CreateEnrollmentToken(t, m)
       PROVE  StoredIsSigned'
  BY <1>24, DocumentsStay DEF CreateEnrollmentToken
<1>25. ASSUME NEW x \in Tokens \union Serials, Lapse(x) PROVE  StoredIsSigned'
  BY <1>25, DocumentsStay DEF Lapse
<1>26. CASE UNCHANGED vars
  BY <1>26 DEF vars, Known
<1>27. ASSUME NEW r \in Reqs, NEW d \in Devices, StartRegistration(r, d)
      PROVE  StoredIsSigned'
  BY <1>27, DocumentsStay DEF StartRegistration
<1>. QED
  BY <1>1, <1>2, <1>3, <1>4, <1>5, <1>6, <1>7, <1>8, <1>9, <1>10, <1>11, <1>12,
     <1>13, <1>14, <1>15, <1>16, <1>17, <1>18, <1>19, <1>20, <1>21, <1>22,
     <1>23, <1>24, <1>25, <1>26, <1>27
  DEF Next, EnrollDevice, SignAndStore, RenewOrRevoke, UpdateStatus

\* The right to issue is kept by a step that makes no certificate and no issuer.
LEMMA RightKept ==
    ASSUME IInv, [Next]_vars,
           \A c \in Serials, d \in Devices : Tip(c, d)' => Tip(c, d),
           \A q \in Reqs, d \in Devices : Issuer(q, d)' => Issuer(q, d)
    PROVE  OneIssueRight'
BY DocumentsStay DEF IInv, OneIssueRight, DevicesKept

\* A step that gives the right to issue for d to r, when no certificate and no
\* other request has it after the step.
LEMMA NewIssuer ==
    ASSUME IInv, [Next]_vars, NEW r \in Reqs, NEW d \in Devices, Known(d)',
           \A c \in Serials, e \in Devices : Tip(c, e)' => Tip(c, e) /\ e # d,
           \A q \in Reqs \ {r}, e \in Devices : Issuer(q, e)' => Issuer(q, e),
           \A e \in Devices : Issuer(r, e)' => e = d,
           \A q \in Reqs : ~Issuer(q, d)
    PROVE  OneIssueRight'
BY DocumentsStay DEF IInv, OneIssueRight, DevicesKept

\* Every action keeps the right to issue unique.
LEMMA RightStep ==
    ASSUME IInv, [Next]_vars
    PROVE  OneIssueRight'
<1>. USE DEF IInv, TypeOK, DevicesKept, TokensKept, CertificatesKept, Step,
             Finish, Start, Idle, stores, local, RevokeStages, Issuer,
             EnrollStages, KindAtStage
<1>1. ASSUME NEW r \in Reqs, NEW t \in Tokens, NEW d \in Devices,
             VerifyToken(r, t, d)
      PROVE  OneIssueRight'
  <2>1. \A c \in Serials, e \in Devices : Tip(c, e)' => Tip(c, e)
    BY <1>1, CertificatesStay DEF VerifyToken, Tip, vars
  <2>2. \A q \in Reqs, e \in Devices : Issuer(q, e)' => Issuer(q, e)
    BY <1>1 DEF VerifyToken, Issuer, EnrollStages, KindAtStage, vars
  <2>. QED
    BY <2>1, <2>2, RightKept
<1>2. ASSUME NEW r \in Reqs, LookUpFingerprint(r) PROVE  OneIssueRight'
  <2>1. \A c \in Serials, e \in Devices : Tip(c, e)' => Tip(c, e)
    BY <1>2, CertificatesStay DEF LookUpFingerprint, Tip, vars
  <2>2. \A q \in Reqs, e \in Devices : Issuer(q, e)' => Issuer(q, e)
    BY <1>2 DEF LookUpFingerprint, Issuer, EnrollStages, KindAtStage, vars
  <2>. QED
    BY <2>1, <2>2, RightKept
<1>3. ASSUME NEW r \in Reqs, RefuseKnownDevice(r) PROVE  OneIssueRight'
  <2>1. \A c \in Serials, e \in Devices : Tip(c, e)' => Tip(c, e)
    BY <1>3, CertificatesStay DEF RefuseKnownDevice, Tip, vars
  <2>2. \A q \in Reqs, e \in Devices : Issuer(q, e)' => Issuer(q, e)
    BY <1>3 DEF RefuseKnownDevice, Issuer, EnrollStages, KindAtStage, vars
  <2>. QED
    BY <2>1, <2>2, RightKept
<1>4. ASSUME NEW r \in Reqs, RegisterDevice(r) PROVE  OneIssueRight'
  <2>1. CASE Known(dev[r]) \/ kind[r] # "enroll"
    <3>1. \A c \in Serials, e \in Devices : Tip(c, e)' => Tip(c, e)
      BY <1>4, <2>1 DEF RegisterDevice, Tip
    <3>2. \A q \in Reqs, e \in Devices : Issuer(q, e)' => Issuer(q, e)
      BY <1>4, <2>1 DEF RegisterDevice
    <3>. QED
      BY <3>1, <3>2, RightKept
  <2>2. CASE ~Known(dev[r]) /\ kind[r] = "enroll"
    <3>1. dev[r] \in Devices
      BY <1>4 DEF RegisterDevice
    <3>2. \A c \in Serials, e \in Devices : Tip(c, e)' => Tip(c, e) /\ e # dev[r]
      BY <1>4, <2>2 DEF RegisterDevice, Tip, StoredIsSigned
    <3>3. \A q \in Reqs \ {r}, e \in Devices : Issuer(q, e)' => Issuer(q, e)
      BY <1>4, <2>2 DEF RegisterDevice
    <3>4. \A e \in Devices : Issuer(r, e)' => e = dev[r]
      BY <1>4, <2>2 DEF RegisterDevice
    <3>5. \A q \in Reqs : ~Issuer(q, dev[r])
      BY <3>1, <2>2 DEF OneIssueRight
    <3>6. Known(dev[r])' /\ UNCHANGED dev
      BY <1>4, <2>2, <3>1, EnrollmentAssumption
      DEF RegisterDevice, Known, DeviceDoc, DeviceStatus
    <3>. QED
      BY <3>1, <3>2, <3>3, <3>4, <3>5, <3>6, NewIssuer
  <2>. QED
    BY <2>1, <2>2
<1>5. ASSUME NEW r \in Reqs, FindPendingDevice(r) PROVE  OneIssueRight'
  <2>1. \A c \in Serials, e \in Devices : Tip(c, e)' => Tip(c, e)
    BY <1>5, CertificatesStay DEF FindPendingDevice, Tip, vars
  <2>2. \A q \in Reqs, e \in Devices : Issuer(q, e)' => Issuer(q, e)
    BY <1>5 DEF FindPendingDevice, Issuer, EnrollStages, KindAtStage, vars
  <2>. QED
    BY <2>1, <2>2, RightKept
<1>6. ASSUME NEW r \in Reqs, ApproveDevice(r) PROVE  OneIssueRight'
  <2>1. \A c \in Serials, e \in Devices : Tip(c, e)' => Tip(c, e)
    BY <1>6, CertificatesStay DEF ApproveDevice, Tip, vars
  <2>2. \A q \in Reqs, e \in Devices : Issuer(q, e)' => Issuer(q, e)
    BY <1>6 DEF ApproveDevice, Issuer, EnrollStages, KindAtStage, vars
  <2>. QED
    BY <2>1, <2>2, RightKept
<1>7. ASSUME NEW r \in Reqs, FindToken(r) PROVE  OneIssueRight'
  <2>1. \A c \in Serials, e \in Devices : Tip(c, e)' => Tip(c, e)
    BY <1>7, CertificatesStay DEF FindToken, Tip, vars
  <2>2. \A q \in Reqs, e \in Devices : Issuer(q, e)' => Issuer(q, e)
    BY <1>7 DEF FindToken, Issuer, EnrollStages, KindAtStage, vars
  <2>. QED
    BY <2>1, <2>2, RightKept
<1>8. ASSUME NEW r \in Reqs, ConsumeToken(r) PROVE  OneIssueRight'
  <2>1. \A c \in Serials, e \in Devices : Tip(c, e)' => Tip(c, e)
    BY <1>8, CertificatesStay DEF ConsumeToken, Tip, vars
  <2>2. \A q \in Reqs, e \in Devices : Issuer(q, e)' => Issuer(q, e)
    BY <1>8 DEF ConsumeToken, Issuer, EnrollStages, KindAtStage, vars
  <2>. QED
    BY <2>1, <2>2, RightKept
<1>9. ASSUME NEW r \in Reqs, NEW d \in Devices, GenerateCertificate(r, d)
      PROVE  OneIssueRight'
  <2>1. \A c \in Serials, e \in Devices : Tip(c, e)' => Tip(c, e)
    BY <1>9, CertificatesStay DEF GenerateCertificate, Tip, vars
  <2>2. \A q \in Reqs, e \in Devices : Issuer(q, e)' => Issuer(q, e)
    BY <1>9 DEF GenerateCertificate, Issuer, EnrollStages, KindAtStage, vars
  <2>. QED
    BY <2>1, <2>2, RightKept
<1>10. ASSUME NEW r \in Reqs, SignCsr(r) PROVE  OneIssueRight'
  <2>1. \A c \in Serials, e \in Devices : Tip(c, e)' => Tip(c, e)
    BY <1>10, CertificatesStay DEF SignCsr, Tip, vars
  <2>2. \A q \in Reqs, e \in Devices : Issuer(q, e)' => Issuer(q, e)
    BY <1>10 DEF SignCsr, Issuer, EnrollStages, KindAtStage, vars
  <2>. QED
    BY <2>1, <2>2, RightKept
<1>11. ASSUME NEW r \in Reqs, StoreCertificate(r) PROVE  OneIssueRight'
  BY <1>11
  DEF StoreCertificate, Tip, OneIssueRight, StoredIsSigned, RecordsAreRevoked,
      Known, InHand
<1>12. ASSUME NEW r \in Reqs, BindCertificate(r) PROVE  OneIssueRight'
  <2>1. \A c \in Serials, e \in Devices : Tip(c, e)' => Tip(c, e)
    BY <1>12, CertificatesStay DEF BindCertificate, Tip, vars
  <2>2. \A q \in Reqs, e \in Devices : Issuer(q, e)' => Issuer(q, e)
    BY <1>12 DEF BindCertificate, Issuer, EnrollStages, KindAtStage, vars
  <2>. QED
    BY <2>1, <2>2, RightKept
<1>13. ASSUME NEW r \in Reqs, NEW c \in Serials, VerifyCertificate(r, c)
       PROVE  OneIssueRight'
  <2>1. \A b \in Serials, e \in Devices : Tip(b, e)' => Tip(b, e)
    BY <1>13, CertificatesStay DEF VerifyCertificate, Tip, vars
  <2>2. \A q \in Reqs, e \in Devices : Issuer(q, e)' => Issuer(q, e)
    BY <1>13 DEF VerifyCertificate, Issuer, EnrollStages, KindAtStage, vars
  <2>. QED
    BY <2>1, <2>2, RightKept
<1>14. ASSUME NEW r \in Reqs, NEW c \in Serials, StartRevoke(r, c)
       PROVE  OneIssueRight'
  <2>1. \A b \in Serials, e \in Devices : Tip(b, e)' => Tip(b, e)
    BY <1>14, CertificatesStay DEF StartRevoke, Tip, vars
  <2>2. \A q \in Reqs, e \in Devices : Issuer(q, e)' => Issuer(q, e)
    BY <1>14 DEF StartRevoke, Issuer, EnrollStages, KindAtStage, vars
  <2>. QED
    BY <2>1, <2>2, RightKept
<1>15. ASSUME NEW r \in Reqs, CheckRevocationTable(r) PROVE  OneIssueRight'
  <2>1. \A c \in Serials, e \in Devices : Tip(c, e)' => Tip(c, e)
    BY <1>15, CertificatesStay DEF CheckRevocationTable, Tip, vars
  <2>2. \A q \in Reqs, e \in Devices : Issuer(q, e)' => Issuer(q, e)
    BY <1>15 DEF CheckRevocationTable, Issuer, EnrollStages, KindAtStage, vars
  <2>. QED
    BY <2>1, <2>2, RightKept
<1>16. ASSUME NEW r \in Reqs, CheckDeviceTrust(r) PROVE  OneIssueRight'
  <2>1. \A c \in Serials, e \in Devices : Tip(c, e)' => Tip(c, e)
    BY <1>16, CertificatesStay DEF CheckDeviceTrust, Tip, vars
  <2>2. \A q \in Reqs, e \in Devices : Issuer(q, e)' => Issuer(q, e)
    BY <1>16 DEF CheckDeviceTrust, Issuer, EnrollStages, KindAtStage, vars
  <2>. QED
    BY <2>1, <2>2, RightKept
<1>17. ASSUME NEW r \in Reqs, FindCertificate(r) PROVE  OneIssueRight'
  <2>1. \A c \in Serials, e \in Devices : Tip(c, e)' => Tip(c, e)
    BY <1>17, CertificatesStay DEF FindCertificate, Tip, vars
  <2>2. \A q \in Reqs, e \in Devices : Issuer(q, e)' => Issuer(q, e)
    BY <1>17 DEF FindCertificate, Issuer, EnrollStages, KindAtStage, vars
  <2>. QED
    BY <2>1, <2>2, RightKept
<1>18. ASSUME NEW r \in Reqs, RevokeInVault(r) PROVE  OneIssueRight'
  <2>1. \A c \in Serials, e \in Devices : Tip(c, e)' => Tip(c, e)
    BY <1>18, CertificatesStay DEF RevokeInVault, Tip, vars
  <2>2. \A q \in Reqs, e \in Devices : Issuer(q, e)' => Issuer(q, e)
    BY <1>18 DEF RevokeInVault, Issuer, EnrollStages, KindAtStage, vars
  <2>. QED
    BY <2>1, <2>2, RightKept
<1>19. ASSUME NEW r \in Reqs, SaveRevoked(r) PROVE  OneIssueRight'
  <2>1. \A c \in Serials, e \in Devices : Tip(c, e)' => Tip(c, e)
    BY <1>19 DEF SaveRevoked, Tip, InHand, CertificateDoc
  <2>2. \A q \in Reqs, e \in Devices : Issuer(q, e)' => Issuer(q, e)
    BY <1>19 DEF SaveRevoked, Issuer, EnrollStages, KindAtStage, vars
  <2>. QED
    BY <2>1, <2>2, RightKept
<1>20. ASSUME NEW r \in Reqs, RecordRevocation(r) PROVE  OneIssueRight'
  <2>1. CASE ser[r] \in recorded
    <3>1. \A c \in Serials, e \in Devices : Tip(c, e)' => Tip(c, e)
      BY <1>20, <2>1 DEF RecordRevocation, Tip
    <3>2. \A q \in Reqs, e \in Devices : Issuer(q, e)' => Issuer(q, e)
      BY <1>20, <2>1 DEF RecordRevocation
    <3>. QED
      BY <3>1, <3>2, RightKept
  <2>2. CASE ser[r] \notin recorded
    <3>1. ser[r] \in Serials /\ dev[r] \in Devices /\ Tip(ser[r], dev[r])
      BY <1>20, <2>2 DEF RecordRevocation, InHand, Tip
    <3>2. \A c \in Serials, e \in Devices : Tip(c, e)' => Tip(c, e) /\ e # dev[r]
      BY <1>20, <2>2, <3>1 DEF RecordRevocation, Tip, OneIssueRight
    <3>3. \A q \in Reqs \ {r}, e \in Devices : Issuer(q, e)' => Issuer(q, e)
      BY <1>20, <2>2, <3>1 DEF RecordRevocation
    <3>4. \A e \in Devices : Issuer(r, e)' => e = dev[r]
      BY <1>20, <2>2, <3>1 DEF RecordRevocation
    <3>5. \A q \in Reqs : ~Issuer(q, dev[r])
      BY <3>1 DEF OneIssueRight
    <3>6. Known(dev[r])
      BY <3>1 DEF Tip, StoredIsSigned
    <3>. QED
      BY <3>1, <3>2, <3>3, <3>4, <3>5, <3>6, NewIssuer, DocumentsStay
  <2>. QED
    BY <2>1, <2>2
<1>21. ASSUME NEW r \in Reqs, NEW d \in Devices, FindDevice(r, d)
       PROVE  OneIssueRight'
  <2>1. \A c \in Serials, e \in Devices : Tip(c, e)' => Tip(c, e)
    BY <1>21, CertificatesStay DEF FindDevice, Tip, vars
  <2>2. \A q \in Reqs, e \in Devices : Issuer(q, e)' => Issuer(q, e)
    BY <1>21 DEF FindDevice, Issuer, EnrollStages, KindAtStage, vars
  <2>. QED
    BY <2>1, <2>2, RightKept
<1>22. ASSUME NEW r \in Reqs, NEW s \in AdminStatuses, SaveStatus(r, s)
       PROVE  OneIssueRight'
  <2>1. \A c \in Serials, e \in Devices : Tip(c, e)' => Tip(c, e)
    BY <1>22, CertificatesStay DEF SaveStatus, Tip, vars
  <2>2. \A q \in Reqs, e \in Devices : Issuer(q, e)' => Issuer(q, e)
    BY <1>22 DEF SaveStatus, Issuer, EnrollStages, KindAtStage, vars
  <2>. QED
    BY <2>1, <2>2, RightKept
<1>23. ASSUME NEW r \in Reqs, Abort(r) PROVE  OneIssueRight'
  <2>1. \A c \in Serials, e \in Devices : Tip(c, e)' => Tip(c, e)
    BY <1>23, CertificatesStay DEF Abort, Tip, vars
  <2>2. \A q \in Reqs, e \in Devices : Issuer(q, e)' => Issuer(q, e)
    BY <1>23 DEF Abort, Issuer, EnrollStages, KindAtStage, vars
  <2>. QED
    BY <2>1, <2>2, RightKept
<1>24. ASSUME NEW t \in Tokens, NEW m \in Budgets, CreateEnrollmentToken(t, m)
       PROVE  OneIssueRight'
  <2>1. \A c \in Serials, e \in Devices : Tip(c, e)' => Tip(c, e)
    BY <1>24, CertificatesStay DEF CreateEnrollmentToken, Tip, vars
  <2>2. \A q \in Reqs, e \in Devices : Issuer(q, e)' => Issuer(q, e)
    BY <1>24 DEF CreateEnrollmentToken, Issuer, EnrollStages, KindAtStage, vars
  <2>. QED
    BY <2>1, <2>2, RightKept
<1>25. ASSUME NEW x \in Tokens \union Serials, Lapse(x) PROVE  OneIssueRight'
  <2>1. \A c \in Serials, e \in Devices : Tip(c, e)' => Tip(c, e)
    BY <1>25, CertificatesStay DEF Lapse, Tip, vars
  <2>2. \A q \in Reqs, e \in Devices : Issuer(q, e)' => Issuer(q, e)
    BY <1>25 DEF Lapse, Issuer, EnrollStages, KindAtStage, vars
  <2>. QED
    BY <2>1, <2>2, RightKept
<1>26. CASE UNCHANGED vars
  <2>1. \A c \in Serials, e \in Devices : Tip(c, e)' => Tip(c, e)
    BY <1>26 DEF vars, Tip
  <2>2. \A q \in Reqs, e \in Devices : Issuer(q, e)' => Issuer(q, e)
    BY <1>26 DEF vars, Issuer, EnrollStages, KindAtStage
  <2>. QED
    BY <2>1, <2>2, RightKept
<1>27. ASSUME NEW r \in Reqs, NEW d \in Devices, StartRegistration(r, d)
      PROVE  OneIssueRight'
  <2>1. \A c \in Serials, e \in Devices : Tip(c, e)' => Tip(c, e)
    BY <1>27, CertificatesStay DEF StartRegistration, Tip, vars
  <2>2. \A q \in Reqs, e \in Devices : Issuer(q, e)' => Issuer(q, e)
    BY <1>27 DEF StartRegistration, Issuer, EnrollStages, KindAtStage, vars
  <2>. QED
    BY <2>1, <2>2, RightKept
<1>. QED
  BY <1>1, <1>2, <1>3, <1>4, <1>5, <1>6, <1>7, <1>8, <1>9, <1>10, <1>11, <1>12,
     <1>13, <1>14, <1>15, <1>16, <1>17, <1>18, <1>19, <1>20, <1>21, <1>22,
     <1>23, <1>24, <1>25, <1>26, <1>27
  DEF Next, EnrollDevice, SignAndStore, RenewOrRevoke, UpdateStatus

-----------------------------------------------------------------------------
\* The invariant holds initially and is kept by every step.
LEMMA Inductive ==
    /\ Init => IInv
    /\ IInv /\ [Next]_vars => IInv'
<1>1. Init => IInv
  BY EnrollmentAssumption
  DEF Init, IInv, TypeOK, KindAtStage, InHand, StoringDiffer, RecordsAreRevoked,
      StoredIsSigned, OneIssueRight, Tip, Issuer, EnrollStages, RevokeStages,
      Stages, Kinds
<1>2. IInv /\ [Next]_vars => IInv'
  BY StoreTypeStep, RequestTypeStep, KindStep, HandStep, StoringStep,
     RecordStep, SignedStep, RightStep, TypeParts
  DEF IInv, TypeOK, StoreType, RequestType
<1>. QED
  BY <1>1, <1>2

\* Every state of every behaviour of Enrollment is well typed and satisfies the
\* invariant.
THEOREM InvariantHolds == Spec => []IInv
BY Inductive, PTL DEF Spec

\* No operation of the onboarding and certificate services writes a value
\* outside the type of its collection.
THEOREM TypeCorrect == Spec => []TypeOK
<1>1. IInv => TypeOK
  BY DEF IInv
<1>. QED
  BY <1>1, InvariantHolds, PTL

\* At any number of concurrent enrollments, renewals and revocations a device
\* has at most one certificate that is not revoked.
THEOREM UniqueCertificate == Spec => []OneValidCertificate
<1>1. IInv => OneValidCertificate
  BY DEF IInv, TypeOK, CertificateDoc, RecordsAreRevoked, OneIssueRight,
         OneValidCertificate, Tip, Valid
<1>. QED
  BY <1>1, InvariantHolds, PTL

\* No step of any request makes a revoked certificate valid again.
THEOREM RevokedForGood == Spec => RevocationIsFinal
<1>1. IInv /\ [Next]_vars =>
        \A c \in Serials : cert[c] # None /\ ~Valid(c) => ~Valid(c)'
  BY CertificatesStay DEF Valid, CertificatesKept
<1>. QED
  BY <1>1, InvariantHolds, PTL DEF Spec, RevocationIsFinal

-----------------------------------------------------------------------------
(* The certificate a client holds is the one its device is bound to.  A     *)
(* certificate is bound some steps after it is stored, and may be revoked   *)
(* between; what orders the bindings of a device is that nobody can issue   *)
(* for it while a stored certificate waits for its binding.                 *)

\* A valid certificate that its device is bound to.
Settled(c) ==
    Valid(c) => /\ Known(cert[c].device)
                /\ device[cert[c].device].certificate = c

\* The stages between the insert of a certificate and its delivery.
IssuedStages == {"bind", "findToken", "consume"}

\* r has stored a certificate that its device is not bound to yet: nobody else
\* can issue for the device.
OnlyIssue(r) ==
    /\ cert[ser[r]].device = dev[r]
    /\ ser[r] \notin given
    /\ \A c \in Serials : Tip(c, dev[r]) => c = ser[r]
    /\ \A q \in Reqs : ~Issuer(q, dev[r])

GivenSettled == \A c \in given : cert[c] # None /\ Settled(c)

IssuedStored == \A r \in Reqs : pc[r] \in IssuedStages => cert[ser[r]] # None

BinderOnlyIssues == \A r \in Reqs : pc[r] = "bind" => OnlyIssue(r)

HandSettled ==
    \A r \in Reqs : pc[r] \in {"findToken", "consume"} => Settled(ser[r])

RenewsGiven ==
    \A r \in Reqs :
        kind[r] = "renew" /\ pc[r] \in RevokeStages => ser[r] \in given

IssuedDiffer ==
    \A r, q \in Reqs :
        pc[r] \in IssuedStages /\ pc[q] \in IssuedStages /\ ser[r] = ser[q]
            => r = q

HeldInv ==
    /\ GivenSettled
    /\ IssuedStored
    /\ BinderOnlyIssues
    /\ HandSettled
    /\ RenewsGiven
    /\ IssuedDiffer

DevicesKeepBinding ==
    \A d \in Devices :
        Known(d) => Known(d)' /\ device'[d].certificate = device[d].certificate

\* Only the binding of a certificate unsettles others of its device.
LEMMA SettledKept ==
    ASSUME TypeOK, NEW c \in Serials, cert[c] # None, Settled(c),
           CertificatesKept, DevicesKeepBinding
    PROVE  Settled(c)'
BY DEF TypeOK, CertificateDoc, Settled, Valid, CertificatesKept,
       DevicesKeepBinding

\* A step that hands out no certificate in hand and no right to issue for a
\* device that somebody is about to bind.
LEMMA BinderKept ==
    ASSUME IInv, HeldInv, CertificatesKept,
           \A q \in Reqs : pc'[q] = "bind" =>
              /\ pc[q] = "bind" /\ ser'[q] = ser[q] /\ dev'[q] = dev[q]
              /\ ser[q] \notin given',
           \A q \in Reqs, c \in Serials :
              pc'[q] = "bind" /\ Tip(c, dev[q])' => Tip(c, dev[q]),
           \A q, p \in Reqs :
              pc'[q] = "bind" /\ Issuer(p, dev[q])' => Issuer(p, dev[q])
    PROVE  BinderOnlyIssues'
<1>. SUFFICES ASSUME NEW r \in Reqs, pc'[r] = "bind" PROVE OnlyIssue(r)'
  BY DEF BinderOnlyIssues
<1>1. OnlyIssue(r) /\ ser[r] \in Serials /\ cert[ser[r]] # None
  BY DEF HeldInv, BinderOnlyIssues, IInv, InHand, IssuedStored, IssuedStages
<1>2. cert'[ser[r]].device = cert[ser[r]].device
  BY <1>1 DEF CertificatesKept
<1>3. \A c \in Serials : Tip(c, dev[r])' => c = ser[r]
  BY <1>1 DEF OnlyIssue
<1>4. \A q \in Reqs : ~Issuer(q, dev[r])'
  BY <1>1 DEF OnlyIssue
<1>. QED
  BY <1>1, <1>2, <1>3, <1>4 DEF OnlyIssue, Tip, Issuer

\* The one who binds is the only one who has issued: the device has no valid
\* certificate but its own.
LEMMA BindSettles ==
    ASSUME IInv, HeldInv, NEW r \in Reqs, BindCertificate(r),
           NEW c \in Serials, cert[c] # None, c = ser[r] \/ Settled(c)
    PROVE  Settled(c)'
<1>1. OnlyIssue(r) /\ dev[r] \in Devices /\ ser[r] \in Serials /\ Known(dev[r])
  BY DEF HeldInv, BinderOnlyIssues, IInv, KindAtStage, InHand, BindCertificate
<1>2. /\ cert' = cert
      /\ device' = [device EXCEPT ![dev[r]] =
                        [device[dev[r]] EXCEPT !.certificate = ser[r]]]
  BY DEF BindCertificate
<1>3. device[dev[r]] \in DeviceDoc
  BY <1>1 DEF IInv, TypeOK, Known
<1>4. /\ device'[dev[r]] \in DeviceDoc
      /\ device'[dev[r]].certificate = ser[r]
  BY <1>1, <1>2, <1>3 DEF IInv, TypeOK, DeviceDoc
<1>5. CASE c = ser[r]
  BY <1>1, <1>2, <1>4, <1>5, EnrollmentAssumption
  DEF Settled, Valid, OnlyIssue, Known
<1>6. CASE c # ser[r]
  <2>1. Valid(c) => cert[c].device # dev[r]
    <3>1. Valid(c) => c \notin recorded
      BY DEF IInv, RecordsAreRevoked, Valid
    <3>. QED
      BY <1>1, <1>6, <3>1 DEF OnlyIssue, Tip
  <2>2. cert[c].device \in Devices
    BY DEF IInv, TypeOK, CertificateDoc
  <2>3. Settled(c)
    BY <1>6
  <2>. QED
    BY <1>1, <1>2, <2>1, <2>2, <2>3 DEF Settled, Valid, Known, IInv, TypeOK
<1>. QED
  BY <1>5, <1>6

\* The certificates that clients have been given stay settled through a binding.
LEMMA BindGiven ==
    ASSUME IInv, HeldInv, NEW r \in Reqs, BindCertificate(r)
    PROVE  GivenSettled'
<1>1. /\ cert' = cert /\ pc[r] = "bind"
      /\ given' \subseteq given \union {ser[r]}
  BY DEF BindCertificate, Step
<1>2. ser[r] \in Serials /\ cert[ser[r]] # None /\ given \subseteq Serials
  BY <1>1 DEF IInv, TypeOK, InHand, HeldInv, IssuedStored, IssuedStages
<1>. SUFFICES ASSUME NEW c \in given' PROVE cert'[c] # None /\ Settled(c)'
  BY DEF GivenSettled
<1>3. c = ser[r] \/ (c \in given /\ cert[c] # None /\ Settled(c))
  BY <1>1 DEF HeldInv, GivenSettled
<1>4. c \in Serials /\ cert[c] # None
  BY <1>2, <1>3
<1>5. Settled(c)'
  BY <1>3, <1>4, BindSettles
<1>. QED
  BY <1>1, <1>4, <1>5

\* So do those that enrollments have in hand.
LEMMA BindHand ==
    ASSUME IInv, HeldInv, NEW r \in Reqs, BindCertificate(r)
    PROVE  HandSettled'
<1>1. /\ ser[r] \in Serials /\ cert[ser[r]] # None
      /\ \A q \in Reqs : pc[q] \in {"findToken", "consume"} =>
            ser[q] \in Serials /\ cert[ser[q]] # None /\ Settled(ser[q])
  BY DEF IInv, InHand, HeldInv, HandSettled, IssuedStored, IssuedStages,
         BindCertificate
<1>2. \A q \in Reqs : pc'[q] \in {"findToken", "consume"} =>
         ser'[q] = ser[q] /\ (q = r \/ pc[q] \in {"findToken", "consume"})
  BY DEF IInv, TypeOK, BindCertificate, Step, Finish, local
<1>. SUFFICES ASSUME NEW q \in Reqs, pc'[q] \in {"findToken", "consume"}
              PROVE  Settled(ser[q])'
  BY DEF HandSettled
<1>3. PICK c : c = ser[q]
  OBVIOUS
<1>4. c \in Serials /\ cert[c] # None /\ (c = ser[r] \/ Settled(c))
  BY <1>1, <1>2, <1>3
<1>5. Settled(c)'
  BY <1>4, BindSettles
<1>6. ser'[q] = c
  BY <1>2, <1>3
<1>. QED
  BY <1>5, <1>6 DEF Settled, Valid, Known

\* Every action keeps the order of issue and binding.
LEMMA HeldStep ==
    ASSUME IInv, HeldInv, [Next]_vars
    PROVE  HeldInv'
<1>. USE DEF IInv, TypeOK, HeldInv, Settled, IssuedStages, OnlyIssue, Tip,
             Issuer, EnrollStages, RevokeStages, KindAtStage, InHand,
             RecordsAreRevoked, StoredIsSigned, OneIssueRight, Known, Valid,
             Step, Finish, Start, Idle, stores, local, vars, CertificateDoc,
             DeviceDoc
<1>1. ASSUME NEW r \in Reqs, RegisterDevice(r) PROVE  HeldInv'
  <2>1. GivenSettled'
    <3>1. DevicesKeepBinding
      <4>1. DevicesKept
        BY DocumentsStay
      <4>2. \A d \in Devices :
               Known(d) => device'[d].certificate = device[d].certificate
        BY ONLY TypeOK, <1>1
        DEF RegisterDevice, TypeOK, DeviceDoc, Known, Step, Finish, local
      <4>. QED
        BY <4>1, <4>2 DEF DevicesKeepBinding, DevicesKept
    <3>2. given' = given
      BY <1>1 DEF RegisterDevice
    <3>. QED
      BY <3>1, <3>2, SettledKept, CertificatesStay
      DEF GivenSettled, CertificatesKept
  <2>2. IssuedStored'
    BY <1>1 DEF RegisterDevice, IssuedStored
  <2>3. BinderOnlyIssues'
    <3>1. \A q \in Reqs : pc'[q] = "bind" =>
             /\ pc[q] = "bind" /\ ser'[q] = ser[q] /\ dev'[q] = dev[q]
             /\ ser[q] \notin given'
      BY ONLY TypeOK, BinderOnlyIssues, <1>1
      DEF RegisterDevice, BinderOnlyIssues, OnlyIssue, TypeOK, Step, Finish, stores, local
    <3>2. \A q \in Reqs, c \in Serials :
             pc'[q] = "bind" /\ Tip(c, dev[q])' => Tip(c, dev[q])
      BY <1>1 DEF RegisterDevice
    <3>3. \A q, p \in Reqs :
             pc'[q] = "bind" /\ Issuer(p, dev[q])' => Issuer(p, dev[q])
      BY <1>1 DEF RegisterDevice
    <3>. QED
      BY <3>1, <3>2, <3>3, BinderKept, CertificatesStay
  <2>4. HandSettled'
    BY <1>1 DEF RegisterDevice, HandSettled
  <2>5. RenewsGiven'
    <3>1. \A q \in Reqs : kind'[q] = "renew" /\ pc'[q] \in RevokeStages =>
             kind[q] = "renew" /\ pc[q] \in RevokeStages /\ ser'[q] = ser[q]
      BY ONLY TypeOK, <1>1
      DEF RegisterDevice, TypeOK, Step, Finish, local, RevokeStages
    <3>2. given' = given
      BY <1>1 DEF RegisterDevice
    <3>. QED
      BY ONLY RenewsGiven, <3>1, <3>2 DEF RenewsGiven
  <2>6. IssuedDiffer'
    BY <1>1 DEF RegisterDevice, IssuedDiffer
  <2>. QED
    BY <2>1, <2>2, <2>3, <2>4, <2>5, <2>6 DEF HeldInv
<1>2. ASSUME NEW r \in Reqs, FindPendingDevice(r) PROVE  HeldInv'
  <2>1. GivenSettled'
    BY <1>2 DEF FindPendingDevice, GivenSettled
  <2>2. IssuedStored'
    BY <1>2 DEF FindPendingDevice, IssuedStored
  <2>3. BinderOnlyIssues'
    <3>1. \A q \in Reqs : pc'[q] = "bind" =>
             /\ pc[q] = "bind" /\ ser'[q] = ser[q] /\ dev'[q] = dev[q]
             /\ ser[q] \notin given'
      BY ONLY TypeOK, BinderOnlyIssues, <1>2
      DEF FindPendingDevice, BinderOnlyIssues, OnlyIssue, TypeOK, Step, Finish, stores, local
    <3>2. \A q \in Reqs, c \in Serials :
             pc'[q] = "bind" /\ Tip(c, dev[q])' => Tip(c, dev[q])
      BY <1>2 DEF FindPendingDevice
    <3>3. \A q, p \in Reqs :
             pc'[q] = "bind" /\ Issuer(p, dev[q])' => Issuer(p, dev[q])
      BY <1>2 DEF FindPendingDevice
    <3>. QED
      BY <3>1, <3>2, <3>3, BinderKept, CertificatesStay
  <2>4. HandSettled'
    BY <1>2 DEF FindPendingDevice, HandSettled
  <2>5. RenewsGiven'
    BY <1>2 DEF FindPendingDevice, RenewsGiven
  <2>6. IssuedDiffer'
    BY <1>2 DEF FindPendingDevice, IssuedDiffer
  <2>. QED
    BY <2>1, <2>2, <2>3, <2>4, <2>5, <2>6 DEF HeldInv
<1>3. ASSUME NEW r \in Reqs, SignCsr(r) PROVE  HeldInv'
  <2>1. GivenSettled'
    BY <1>3 DEF SignCsr, GivenSettled
  <2>2. IssuedStored'
    BY <1>3 DEF SignCsr, IssuedStored
  <2>3. BinderOnlyIssues'
    <3>1. \A q \in Reqs : pc'[q] = "bind" =>
             /\ pc[q] = "bind" /\ ser'[q] = ser[q] /\ dev'[q] = dev[q]
             /\ ser[q] \notin given'
      BY ONLY TypeOK, BinderOnlyIssues, <1>3
      DEF SignCsr, BinderOnlyIssues, OnlyIssue, TypeOK, Step, Finish, stores, local
    <3>2. \A q \in Reqs, c \in Serials :
             pc'[q] = "bind" /\ Tip(c, dev[q])' => Tip(c, dev[q])
      BY <1>3 DEF SignCsr
    <3>3. \A q, p \in Reqs :
             pc'[q] = "bind" /\ Issuer(p, dev[q])' => Issuer(p, dev[q])
      BY <1>3 DEF SignCsr
    <3>. QED
      BY <3>1, <3>2, <3>3, BinderKept, CertificatesStay
  <2>4. HandSettled'
    BY <1>3 DEF SignCsr, HandSettled
  <2>5. RenewsGiven'
    BY <1>3 DEF SignCsr, RenewsGiven
  <2>6. IssuedDiffer'
    BY <1>3 DEF SignCsr, IssuedDiffer
  <2>. QED
    BY <2>1, <2>2, <2>3, <2>4, <2>5, <2>6 DEF HeldInv
<1>4. ASSUME NEW r \in Reqs, StoreCertificate(r) PROVE  HeldInv'
  <2>1. GivenSettled'
    BY <1>4 DEF StoreCertificate, GivenSettled
  <2>2. IssuedStored'
    <3>1. cert'[ser[r]] # None
      <4>1. ser[r] \in Serials /\ dev[r] \in Devices
        BY <1>4 DEF StoreCertificate
      <4>2. cert'[ser[r]] = [device |-> dev[r], revoked |-> FALSE]
        BY ONLY TypeOK, <4>1, <1>4 DEF StoreCertificate, TypeOK
      <4>3. cert'[ser[r]] \in CertificateDoc
        BY <4>1, <4>2
      <4>. QED
        BY ONLY <4>3, EnrollmentAssumption
    <3>2. \A q \in Reqs : pc'[q] \in IssuedStages =>
             /\ q = r \/ pc[q] \in IssuedStages
             /\ ser'[q] = ser[q] /\ ser[q] \in Serials
      BY <1>4 DEF StoreCertificate
    <3>. QED
      BY <3>1, <3>2, CertificatesStay DEF IssuedStored, CertificatesKept
  <2>3. BinderOnlyIssues'
    <3>1. dev[r] \in Devices /\ ser[r] \in Serials /\ cert[ser[r]] = None
      BY <1>4 DEF StoreCertificate
    <3>2. Issuer(r, dev[r]) /\ dev' = dev /\ ser' = ser /\ given' = given
      BY <1>4 DEF StoreCertificate
    <3>3. \A c \in Serials, d \in Devices :
             Tip(c, d)' => Tip(c, d) \/ (c = ser[r] /\ d = dev[r])
      BY ONLY TypeOK, <3>1, <1>4
      DEF StoreCertificate, TypeOK, CertificateDoc, Tip
    <3>4. \A q \in Reqs, d \in Devices : Issuer(q, d)' => Issuer(q, d) /\ q # r
      BY <1>4 DEF StoreCertificate
    <3>5. OnlyIssue(r)'
      <4>1. cert'[ser[r]].device = dev[r]
        BY <1>4 DEF StoreCertificate
      <4>2. ser[r] \notin given
        BY <3>1 DEF GivenSettled
      <4>. QED
        BY ONLY <3>1, <3>2, <3>3, <3>4, <4>1, <4>2, OneIssueRight
        DEF OnlyIssue, OneIssueRight
    <3>6. ASSUME NEW q \in Reqs, pc'[q] = "bind", q # r PROVE OnlyIssue(q)'
      <4>1. pc[q] = "bind" /\ dev[q] \in Devices /\ ser[q] \in Serials
        BY <1>4, <3>6 DEF StoreCertificate
      <4>2. OnlyIssue(q) /\ cert[ser[q]] # None
        BY <4>1 DEF BinderOnlyIssues, IssuedStored
      <4>3. dev[q] # dev[r]
        BY ONLY <4>2, <3>2 DEF OnlyIssue
      <4>4. cert'[ser[q]].device = cert[ser[q]].device
        BY <4>1, <4>2, CertificatesStay DEF CertificatesKept
      <4>. QED
        BY ONLY <3>2, <3>3, <3>4, <4>1, <4>2, <4>3, <4>4 DEF OnlyIssue
    <3>. QED
      BY ONLY <3>5, <3>6 DEF BinderOnlyIssues
  <2>4. HandSettled'
    <3>1. DevicesKeepBinding
      <4>1. DevicesKept
        BY DocumentsStay
      <4>2. \A d \in Devices :
               Known(d) => device'[d].certificate = device[d].certificate
        BY ONLY TypeOK, <1>4
        DEF StoreCertificate, TypeOK, DeviceDoc, Known, Step, Finish, local
      <4>. QED
        BY <4>1, <4>2 DEF DevicesKeepBinding, DevicesKept
    <3>2. \A q \in Reqs : pc'[q] \in {"findToken", "consume"} =>
             /\ pc[q] \in {"findToken", "consume"} /\ ser'[q] = ser[q]
             /\ cert[ser[q]] # None
      BY <1>4 DEF StoreCertificate, IssuedStored
    <3>. QED
      BY <3>1, <3>2, SettledKept, CertificatesStay
      DEF HandSettled, CertificatesKept
  <2>5. RenewsGiven'
    BY <1>4 DEF StoreCertificate, RenewsGiven
  <2>6. IssuedDiffer'
    <3>1. \A q \in Reqs : pc'[q] \in IssuedStages =>
             (q = r \/ pc[q] \in IssuedStages) /\ ser'[q] = ser[q]
      BY <1>4 DEF StoreCertificate
    <3>2. \A q \in Reqs : pc[q] \in IssuedStages => ser[q] # ser[r]
      BY <1>4 DEF StoreCertificate, IssuedStored
    <3>. QED
      BY ONLY <3>1, <3>2, IssuedDiffer DEF IssuedDiffer
  <2>. QED
    BY <2>1, <2>2, <2>3, <2>4, <2>5, <2>6 DEF HeldInv
<1>5. ASSUME NEW r \in Reqs, BindCertificate(r) PROVE  HeldInv'
  <2>1. GivenSettled'
    BY <1>5, BindGiven
  <2>2. IssuedStored'
    BY <1>5 DEF BindCertificate, IssuedStored
  <2>3. BinderOnlyIssues'
    <3>1. \A q \in Reqs : pc'[q] = "bind" =>
             /\ pc[q] = "bind" /\ ser'[q] = ser[q] /\ dev'[q] = dev[q]
             /\ ser[q] \notin given'
      <4>1. given' \subseteq given \union {ser[r]} /\ pc[r] = "bind"
        BY ONLY TypeOK, <1>5 DEF BindCertificate, Step
      <4>2. \A q \in Reqs : pc'[q] = "bind" =>
               q # r /\ pc[q] = "bind" /\ ser'[q] = ser[q] /\ dev'[q] = dev[q]
        BY ONLY TypeOK, <1>5 DEF BindCertificate, TypeOK, Step, Finish, local
      <4>3. \A q \in Reqs : pc[q] = "bind" => ser[q] \notin given
        BY ONLY BinderOnlyIssues DEF BinderOnlyIssues, OnlyIssue
      <4>4. \A q \in Reqs : q # r /\ pc[q] = "bind" => ser[q] # ser[r]
        BY ONLY IssuedDiffer, <4>1 DEF IssuedDiffer, IssuedStages
      <4>. QED
        BY ONLY <4>1, <4>2, <4>3, <4>4
    <3>2. \A q \in Reqs, c \in Serials :
             pc'[q] = "bind" /\ Tip(c, dev[q])' => Tip(c, dev[q])
      BY <1>5 DEF BindCertificate
    <3>3. \A q, p \in Reqs :
             pc'[q] = "bind" /\ Issuer(p, dev[q])' => Issuer(p, dev[q])
      BY <1>5 DEF BindCertificate
    <3>. QED
      BY <3>1, <3>2, <3>3, BinderKept, CertificatesStay
  <2>4. HandSettled'
    BY <1>5, BindHand
  <2>5. RenewsGiven'
    BY <1>5 DEF BindCertificate, RenewsGiven
  <2>6. IssuedDiffer'
    BY <1>5 DEF BindCertificate, IssuedDiffer
  <2>. QED
    BY <2>1, <2>2, <2>3, <2>4, <2>5, <2>6 DEF HeldInv
<1>6. ASSUME NEW r \in Reqs, CheckRevocationTable(r) PROVE  HeldInv'
  <2>1. GivenSettled'
    BY <1>6 DEF CheckRevocationTable, GivenSettled
  <2>2. IssuedStored'
    BY <1>6 DEF CheckRevocationTable, IssuedStored
  <2>3. BinderOnlyIssues'
    <3>1. \A q \in Reqs : pc'[q] = "bind" =>
             /\ pc[q] = "bind" /\ ser'[q] = ser[q] /\ dev'[q] = dev[q]
             /\ ser[q] \notin given'
      BY ONLY TypeOK, BinderOnlyIssues, <1>6
      DEF CheckRevocationTable, BinderOnlyIssues, OnlyIssue, TypeOK, Step, Finish, stores, local
    <3>2. \A q \in Reqs, c \in Serials :
             pc'[q] = "bind" /\ Tip(c, dev[q])' => Tip(c, dev[q])
      BY <1>6 DEF CheckRevocationTable
    <3>3. \A q, p \in Reqs :
             pc'[q] = "bind" /\ Issuer(p, dev[q])' => Issuer(p, dev[q])
      BY <1>6 DEF CheckRevocationTable
    <3>. QED
      BY <3>1, <3>2, <3>3, BinderKept, CertificatesStay
  <2>4. HandSettled'
    BY <1>6 DEF CheckRevocationTable, HandSettled
  <2>5. RenewsGiven'
    BY <1>6 DEF CheckRevocationTable, RenewsGiven
  <2>6. IssuedDiffer'
    BY <1>6 DEF CheckRevocationTable, IssuedDiffer
  <2>. QED
    BY <2>1, <2>2, <2>3, <2>4, <2>5, <2>6 DEF HeldInv
<1>7. ASSUME NEW r \in Reqs, CheckDeviceTrust(r) PROVE  HeldInv'
  <2>1. GivenSettled'
    BY <1>7 DEF CheckDeviceTrust, GivenSettled
  <2>2. IssuedStored'
    BY <1>7 DEF CheckDeviceTrust, IssuedStored
  <2>3. BinderOnlyIssues'
    <3>1. \A q \in Reqs : pc'[q] = "bind" =>
             /\ pc[q] = "bind" /\ ser'[q] = ser[q] /\ dev'[q] = dev[q]
             /\ ser[q] \notin given'
      BY ONLY TypeOK, BinderOnlyIssues, <1>7
      DEF CheckDeviceTrust, BinderOnlyIssues, OnlyIssue, TypeOK, Step, Finish, stores, local
    <3>2. \A q \in Reqs, c \in Serials :
             pc'[q] = "bind" /\ Tip(c, dev[q])' => Tip(c, dev[q])
      BY <1>7 DEF CheckDeviceTrust
    <3>3. \A q, p \in Reqs :
             pc'[q] = "bind" /\ Issuer(p, dev[q])' => Issuer(p, dev[q])
      BY <1>7 DEF CheckDeviceTrust
    <3>. QED
      BY <3>1, <3>2, <3>3, BinderKept, CertificatesStay
  <2>4. HandSettled'
    BY <1>7 DEF CheckDeviceTrust, HandSettled
  <2>5. RenewsGiven'
    BY <1>7 DEF CheckDeviceTrust, RenewsGiven
  <2>6. IssuedDiffer'
    BY <1>7 DEF CheckDeviceTrust, IssuedDiffer
  <2>. QED
    BY <2>1, <2>2, <2>3, <2>4, <2>5, <2>6 DEF HeldInv
<1>8. ASSUME NEW r \in Reqs, FindCertificate(r) PROVE  HeldInv'
  <2>1. GivenSettled'
    BY <1>8 DEF FindCertificate, GivenSettled
  <2>2. IssuedStored'
    BY <1>8 DEF FindCertificate, IssuedStored
  <2>3. BinderOnlyIssues'
    <3>1. \A q \in Reqs : pc'[q] = "bind" =>
             /\ pc[q] = "bind" /\ ser'[q] = ser[q] /\ dev'[q] = dev[q]
             /\ ser[q] \notin given'
      BY ONLY TypeOK, BinderOnlyIssues, <1>8
      DEF FindCertificate, BinderOnlyIssues, OnlyIssue, TypeOK, Step, Finish, stores, local
    <3>2. \A q \in Reqs, c \in Serials :
             pc'[q] = "bind" /\ Tip(c, dev[q])' => Tip(c, dev[q])
      BY <1>8 DEF FindCertificate
    <3>3. \A q, p \in Reqs :
             pc'[q] = "bind" /\ Issuer(p, dev[q])' => Issuer(p, dev[q])
      BY <1>8 DEF FindCertificate
    <3>. QED
      BY <3>1, <3>2, <3>3, BinderKept, CertificatesStay
  <2>4. HandSettled'
    BY <1>8 DEF FindCertificate, HandSettled
  <2>5. RenewsGiven'
    BY <1>8 DEF FindCertificate, RenewsGiven
  <2>6. IssuedDiffer'
    BY <1>8 DEF FindCertificate, IssuedDiffer
  <2>. QED
    BY <2>1, <2>2, <2>3, <2>4, <2>5, <2>6 DEF HeldInv
<1>9. ASSUME NEW r \in Reqs, SaveRevoked(r) PROVE  HeldInv'
  <2>1. GivenSettled'
    <3>1. DevicesKeepBinding
      <4>1. DevicesKept
        BY DocumentsStay
      <4>2. \A d \in Devices :
               Known(d) => device'[d].certificate = device[d].certificate
        BY ONLY TypeOK, <1>9
        DEF SaveRevoked, TypeOK, DeviceDoc, Known, Step, Finish, local
      <4>. QED
        BY <4>1, <4>2 DEF DevicesKeepBinding, DevicesKept
    <3>2. given' = given
      BY <1>9 DEF SaveRevoked
    <3>. QED
      BY <3>1, <3>2, SettledKept, CertificatesStay
      DEF GivenSettled, CertificatesKept
  <2>2. IssuedStored'
    BY <1>9, CertificatesStay DEF SaveRevoked, IssuedStored, CertificatesKept
  <2>3. BinderOnlyIssues'
    BY <1>9 DEF SaveRevoked, BinderOnlyIssues
  <2>4. HandSettled'
    BY <1>9 DEF SaveRevoked, HandSettled
  <2>5. RenewsGiven'
    BY <1>9 DEF SaveRevoked, RenewsGiven
  <2>6. IssuedDiffer'
    BY <1>9 DEF SaveRevoked, IssuedDiffer
  <2>. QED
    BY <2>1, <2>2, <2>3, <2>4, <2>5, <2>6 DEF HeldInv
<1>10. ASSUME NEW r \in Reqs, RecordRevocation(r) PROVE  HeldInv'
  <2>1. GivenSettled'
    BY <1>10 DEF RecordRevocation, GivenSettled
  <2>2. IssuedStored'
    BY <1>10 DEF RecordRevocation, IssuedStored
  <2>3. BinderOnlyIssues'
    <3>1. \A q \in Reqs : pc'[q] = "bind" =>
             /\ pc[q] = "bind" /\ ser'[q] = ser[q] /\ dev'[q] = dev[q]
             /\ ser[q] \notin given'
      BY ONLY TypeOK, BinderOnlyIssues, <1>10
      DEF RecordRevocation, BinderOnlyIssues, OnlyIssue, TypeOK, Step, Finish, stores, local
    <3>2. \A q \in Reqs, c \in Serials :
             pc'[q] = "bind" /\ Tip(c, dev[q])' => Tip(c, dev[q])
      BY <1>10 DEF RecordRevocation
    <3>3. \A q, p \in Reqs :
             pc'[q] = "bind" /\ Issuer(p, dev[q])' => Issuer(p, dev[q])
      BY <1>10 DEF RecordRevocation, BinderOnlyIssues, OnlyIssue, RenewsGiven
    <3>. QED
      BY <3>1, <3>2, <3>3, BinderKept, CertificatesStay
  <2>4. HandSettled'
    BY <1>10 DEF RecordRevocation, HandSettled
  <2>5. RenewsGiven'
    <3>1. \A q \in Reqs : kind'[q] = "renew" /\ pc'[q] \in RevokeStages =>
             kind[q] = "renew" /\ pc[q] \in RevokeStages /\ ser'[q] = ser[q]
      BY ONLY TypeOK, <1>10
      DEF RecordRevocation, TypeOK, Step, Finish, local, RevokeStages
    <3>2. given' = given
      BY <1>10 DEF RecordRevocation
    <3>. QED
      BY ONLY RenewsGiven, <3>1, <3>2 DEF RenewsGiven
  <2>6. IssuedDiffer'
    BY <1>10 DEF RecordRevocation, IssuedDiffer
  <2>. QED
    BY <2>1, <2>2, <2>3, <2>4, <2>5, <2>6 DEF HeldInv
<1>11. ASSUME NEW r \in Reqs, NEW s \in AdminStatuses, SaveStatus(r, s)
       PROVE  HeldInv'
  <2>1. GivenSettled'
    <3>1. DevicesKeepBinding
      <4>1. DevicesKept
        BY DocumentsStay
      <4>2. \A d \in Devices :
               Known(d) => device'[d].certificate = device[d].certificate
        BY ONLY TypeOK, <1>11
        DEF SaveStatus, TypeOK, DeviceDoc, Known, Step, Finish, local
      <4>. QED
        BY <4>1, <4>2 DEF DevicesKeepBinding, DevicesKept
    <3>2. given' = given
      BY <1>11 DEF SaveStatus
    <3>. QED
      BY <3>1, <3>2, SettledKept, CertificatesStay
      DEF GivenSettled, CertificatesKept
  <2>2. IssuedStored'
    BY <1>11 DEF SaveStatus, IssuedStored
  <2>3. BinderOnlyIssues'
    BY <1>11 DEF SaveStatus, BinderOnlyIssues
  <2>4. HandSettled'
    <3>1. DevicesKeepBinding
      <4>1. DevicesKept
        BY DocumentsStay
      <4>2. \A d \in Devices :
               Known(d) => device'[d].certificate = device[d].certificate
        BY ONLY TypeOK, <1>11
        DEF SaveStatus, TypeOK, DeviceDoc, Known, Step, Finish, local
      <4>. QED
        BY <4>1, <4>2 DEF DevicesKeepBinding, DevicesKept
    <3>2. \A q \in Reqs : pc'[q] \in {"findToken", "consume"} =>
             /\ pc[q] \in {"findToken", "consume"} /\ ser'[q] = ser[q]
             /\ cert[ser[q]] # None
      BY <1>11 DEF SaveStatus, IssuedStored
    <3>. QED
      BY <3>1, <3>2, SettledKept, CertificatesStay
      DEF HandSettled, CertificatesKept
  <2>5. RenewsGiven'
    BY <1>11 DEF SaveStatus, RenewsGiven
  <2>6. IssuedDiffer'
    BY <1>11 DEF SaveStatus, IssuedDiffer
  <2>. QED
    BY <2>1, <2>2, <2>3, <2>4, <2>5, <2>6 DEF HeldInv
<1>. USE DEF GivenSettled, IssuedStored, BinderOnlyIssues, HandSettled,
             RenewsGiven, IssuedDiffer
<1>12. ASSUME NEW r \in Reqs, NEW t \in Tokens, NEW d \in Devices,
             VerifyToken(r, t, d)
       PROVE  HeldInv'
  BY <1>12 DEF VerifyToken
<1>13. ASSUME NEW r \in Reqs, LookUpFingerprint(r) PROVE  HeldInv'
  BY <1>13 DEF LookUpFingerprint
<1>14. ASSUME NEW r \in Reqs, RefuseKnownDevice(r) PROVE  HeldInv'
  BY <1>14 DEF RefuseKnownDevice
<1>15. ASSUME NEW r \in Reqs, ApproveDevice(r) PROVE  HeldInv'
  BY <1>15 DEF ApproveDevice
<1>16. ASSUME NEW r \in Reqs, FindToken(r) PROVE  HeldInv'
  BY <1>16 DEF FindToken
<1>17. ASSUME NEW r \in Reqs, ConsumeToken(r) PROVE  HeldInv'
  BY <1>17 DEF ConsumeToken
<1>18. ASSUME NEW r \in Reqs, NEW d \in Devices, GenerateCertificate(r, d)
       PROVE  HeldInv'
  BY <1>18 DEF GenerateCertificate
<1>19. ASSUME NEW r \in Reqs, NEW c \in Serials, VerifyCertificate(r, c)
       PROVE  HeldInv'
  BY <1>19 DEF VerifyCertificate
<1>20. ASSUME NEW r \in Reqs, NEW c \in Serials, StartRevoke(r, c)
       PROVE  HeldInv'
  BY <1>20 DEF StartRevoke
<1>21. ASSUME NEW r \in Reqs, RevokeInVault(r) PROVE  HeldInv'
  BY <1>21 DEF RevokeInVault
<1>22. ASSUME NEW r \in Reqs, NEW d \in Devices, FindDevice(r, d)
       PROVE  HeldInv'
  BY <1>22 DEF FindDevice
<1>23. ASSUME NEW r \in Reqs, Abort(r) PROVE  HeldInv'
  BY <1>23 DEF Abort
<1>24. ASSUME NEW t \in Tokens, NEW m \in Budgets,
             CreateEnrollmentToken(t, m)
       PROVE  HeldInv'
  BY <1>24 DEF CreateEnrollmentToken
<1>25. ASSUME NEW x \in Tokens \union Serials, Lapse(x) PROVE  HeldInv'
  BY <1>25 DEF Lapse
<1>26. ASSUME NEW r \in Reqs, NEW d \in Devices, StartRegistration(r, d)
       PROVE  HeldInv'
  BY <1>26 DEF StartRegistration
<1>27. CASE UNCHANGED vars
  BY <1>27 DEF vars
<1>. QED
  BY <1>1, <1>2, <1>3, <1>4, <1>5, <1>6, <1>7, <1>8, <1>9, <1>10, <1>11,
     <1>12, <1>13, <1>14, <1>15, <1>16, <1>17, <1>18, <1>19, <1>20, <1>21,
     <1>22, <1>23, <1>24, <1>25, <1>26, <1>27
  DEF Next, EnrollDevice, SignAndStore, RenewOrRevoke, UpdateStatus

\* At any number of concurrent enrollments, renewals, revocations and failures,
\* a device is bound to the valid certificate its client has been given.
THEOREM HeldStaysBound == Spec => []HeldIsBound
<1>1. Init => HeldInv
  BY DEF Init, HeldInv, GivenSettled, IssuedStored, BinderOnlyIssues,
         HandSettled, RenewsGiven, IssuedDiffer, IssuedStages
<1>2. IInv /\ HeldInv /\ [Next]_vars => HeldInv'
  BY HeldStep
<1>3. HeldInv => HeldIsBound
  BY DEF HeldInv, GivenSettled, Settled, HeldIsBound
<1>. QED
  BY <1>1, <1>2, <1>3, InvariantHolds, PTL DEF Spec

-----------------------------------------------------------------------------
(* The certificates of a device form the line of CertificateLineage.  What  *)
(* HeldInv leaves open is the enrollment that has bound its certificate and *)
(* not given it yet: the certificate may be revoked meanwhile, so that no   *)
(* uniqueness protects it.  What does is that nobody renews a certificate   *)
(* that nobody has, so that nobody issues for the device.                   *)

HandStages == {"findToken", "consume"}

\* An enrollment with a bound certificate in hand is alone with its device.
HandBound ==
    \A r \in Reqs : pc[r] \in HandStages =>
        /\ OnlyIssue(r) /\ Known(dev[r])
        /\ device[dev[r]].certificate = ser[r]

\* No two requests issue to one device at a time.
IssuedApart ==
    \A r, q \in Reqs :
        pc[r] \in IssuedStages /\ pc[q] \in IssuedStages /\ dev[r] = dev[q]
            => r = q

LineInv == HandBound /\ IssuedApart

\* The right to issue is had by an enrollment of a new device or by a renewal
\* of a certificate that a client holds.
LEMMA NewIssuers ==
    ASSUME IInv, HeldInv, [Next]_vars, NEW r \in Reqs, NEW d \in Devices,
           Issuer(r, d)'
    PROVE  \/ Issuer(r, d) \/ ~Known(d)
           \/ \E c \in given : c \in Serials /\ Tip(c, d)
<1>1. CASE \E q \in Reqs : RegisterDevice(q)
  BY <1>1 DEF RegisterDevice, IInv, TypeOK, KindAtStage, Issuer, EnrollStages,
              Step, Finish, local
<1>2. CASE \E q \in Reqs : RecordRevocation(q)
  <2>1. PICK q \in Reqs : RecordRevocation(q)
    BY <1>2
  <2>2. CASE q = r /\ kind[r] = "renew" /\ ser[r] \notin recorded /\ dev[r] = d
    BY <2>1, <2>2
    DEF RecordRevocation, IInv, InHand, RevokeStages, Tip, HeldInv, RenewsGiven
  <2>3. CASE ~(q = r /\ kind[r] = "renew" /\ ser[r] \notin recorded /\ dev[r] = d)
    BY <2>1, <2>3
    DEF RecordRevocation, IInv, TypeOK, Issuer, EnrollStages, Step, Finish, local
  <2>. QED
    BY <2>2, <2>3
<1>3. CASE ~(\E q \in Reqs : RegisterDevice(q) \/ RecordRevocation(q))
  <2>. USE <1>3 DEF IInv, TypeOK, KindAtStage, Issuer, EnrollStages, Idle, Start,
                    Step, Finish, local
  <2>1. ASSUME NEW q \in Reqs, EnrollDevice(q) PROVE Issuer(r, d)
    BY <2>1
    DEF EnrollDevice, VerifyToken, StartRegistration, LookUpFingerprint,
        RefuseKnownDevice, FindPendingDevice, ApproveDevice, FindToken, ConsumeToken
  <2>2. ASSUME NEW q \in Reqs, SignAndStore(q) PROVE Issuer(r, d)
    BY <2>2
    DEF SignAndStore, GenerateCertificate, SignCsr, StoreCertificate, BindCertificate
  <2>3. ASSUME NEW q \in Reqs, RenewOrRevoke(q) PROVE Issuer(r, d)
    BY <2>3
    DEF RenewOrRevoke, VerifyCertificate, StartRevoke, CheckRevocationTable,
        CheckDeviceTrust, FindCertificate, RevokeInVault, SaveRevoked
  <2>4. ASSUME NEW q \in Reqs, UpdateStatus(q) \/ Abort(q) PROVE Issuer(r, d)
    BY <2>4 DEF UpdateStatus, FindDevice, SaveStatus, Abort
  <2>5. ASSUME UNCHANGED <<pc, local>> PROVE Issuer(r, d)
    BY <2>5
  <2>. QED
    BY ONLY <2>1, <2>2, <2>3, <2>4, <2>5, [Next]_vars
    DEF Next, CreateEnrollmentToken, Lapse, vars
<1>. QED
  BY <1>1, <1>2, <1>3

\* Only who has the right to issue adds an unrecorded certificate.
LEMMA NewTips ==
    ASSUME IInv, [Next]_vars, NEW c \in Serials, NEW d \in Devices, Tip(c, d)'
    PROVE  Tip(c, d) \/ \E r \in Reqs : Issuer(r, d)
<1>1. CASE \E r \in Reqs : StoreCertificate(r)
  <2>1. PICK r \in Reqs : StoreCertificate(r)
    BY <1>1
  <2>2. ser[r] \in Serials /\ Issuer(r, dev[r])
    BY <2>1
    DEF StoreCertificate, Step, IInv, TypeOK, KindAtStage, InHand, StoredIsSigned,
        Issuer, EnrollStages
  <2>. QED
    BY <2>1, <2>2 DEF StoreCertificate, IInv, TypeOK, Tip
<1>2. CASE ~(\E r \in Reqs : StoreCertificate(r))
  <2>. USE <1>2 DEF stores, Step, IInv, TypeOK, InHand, RevokeStages
  <2>1. ASSUME NEW r \in Reqs,
               EnrollDevice(r) \/ SignAndStore(r) \/ UpdateStatus(r) \/ Abort(r)
        PROVE  UNCHANGED <<cert, recorded>>
    BY <2>1
    DEF EnrollDevice, SignAndStore, UpdateStatus, VerifyToken, StartRegistration,
        LookUpFingerprint, RefuseKnownDevice, RegisterDevice, FindPendingDevice,
        ApproveDevice, FindToken, ConsumeToken, GenerateCertificate, SignCsr,
        BindCertificate, FindDevice, SaveStatus, Abort
  <2>2. ASSUME NEW r \in Reqs, RenewOrRevoke(r)
        PROVE  recorded \subseteq recorded' /\ (cert'[c] # None => cert[c] # None)
    BY <2>2
    DEF RenewOrRevoke, VerifyCertificate, StartRevoke, CheckRevocationTable,
        CheckDeviceTrust, FindCertificate, RevokeInVault, SaveRevoked,
        RecordRevocation
  <2>3. recorded \subseteq recorded' /\ (cert'[c] # None => cert[c] # None)
    BY ONLY <2>1, <2>2, [Next]_vars
    DEF Next, CreateEnrollmentToken, Lapse, stores, vars
  <2>. QED
    BY <2>3, CertificatesStay DEF CertificatesKept, Tip
<1>. QED
  BY <1>1, <1>2

\* A certificate in hand was bound by an enrollment, and waits.
LEMMA HandStaysPut ==
    ASSUME IInv, [Next]_vars, NEW r \in Reqs, pc'[r] \in IssuedStages
    PROVE  /\ ser'[r] = ser[r] /\ dev'[r] = dev[r]
           /\ pc[r] \in IssuedStages \/ StoreCertificate(r)
           /\ pc'[r] \in HandStages => pc[r] \in HandStages \/ BindCertificate(r)
<1>. DEFINE Put == /\ ser'[r] = ser[r] /\ dev'[r] = dev[r]
                   /\ pc[r] \in IssuedStages \/ StoreCertificate(r)
                   /\ pc'[r] \in HandStages
                         => pc[r] \in HandStages \/ BindCertificate(r)
<1>. USE DEF IInv, TypeOK, KindAtStage, IssuedStages, HandStages, Idle, Start, Step,
             Finish, local
<1>1. ASSUME NEW q \in Reqs, EnrollDevice(q) PROVE Put
  BY <1>1
  DEF EnrollDevice, VerifyToken, StartRegistration, LookUpFingerprint,
      RefuseKnownDevice, RegisterDevice, FindPendingDevice, ApproveDevice, FindToken,
      ConsumeToken
<1>2. ASSUME NEW q \in Reqs, SignAndStore(q) PROVE Put
  <2>1. CASE q = r /\ (BindCertificate(q) \/ StoreCertificate(q))
    BY <2>1 DEF BindCertificate, StoreCertificate
  <2>2. CASE ~(q = r /\ (BindCertificate(q) \/ StoreCertificate(q)))
    BY <1>2, <2>2
    DEF SignAndStore, GenerateCertificate, SignCsr, StoreCertificate, BindCertificate
  <2>. QED
    BY <2>1, <2>2
<1>3. ASSUME NEW q \in Reqs, RenewOrRevoke(q) PROVE Put
  BY <1>3
  DEF RenewOrRevoke, VerifyCertificate, StartRevoke, CheckRevocationTable,
      CheckDeviceTrust, FindCertificate, RevokeInVault, SaveRevoked, RecordRevocation
<1>4. ASSUME NEW q \in Reqs, UpdateStatus(q) \/ Abort(q) PROVE Put
  BY <1>4 DEF UpdateStatus, FindDevice, SaveStatus, Abort
<1>5. ASSUME UNCHANGED <<pc, local>> PROVE Put
  BY <1>5
<1>. QED
  BY ONLY <1>1, <1>2, <1>3, <1>4, <1>5, [Next]_vars
  DEF Next, CreateEnrollmentToken, Lapse, vars

\* A certificate is given by the request that has it in hand, which ends.
LEMMA NewlyGiven ==
    ASSUME IInv, [Next]_vars, NEW c \in given' \ given
    PROVE  \E r \in Reqs :
              pc[r] \in IssuedStages /\ pc'[r] = "idle" /\ ser[r] = c
<1>1. ASSUME NEW r \in Reqs, ConsumeToken(r) \/ BindCertificate(r)
      PROVE  pc[r] \in IssuedStages /\ pc'[r] = "idle" /\ ser[r] = c
  BY <1>1
  DEF ConsumeToken, BindCertificate, Step, Finish, IssuedStages, IInv, TypeOK
<1>2. \E r \in Reqs : ConsumeToken(r) \/ BindCertificate(r)
  BY DEF Next, EnrollDevice, SignAndStore, RenewOrRevoke, UpdateStatus, VerifyToken,
         StartRegistration, LookUpFingerprint, RefuseKnownDevice, RegisterDevice,
         FindPendingDevice, ApproveDevice, FindToken, GenerateCertificate, SignCsr,
         StoreCertificate, VerifyCertificate, StartRevoke, CheckRevocationTable,
         CheckDeviceTrust, FindCertificate, RevokeInVault, SaveRevoked,
         RecordRevocation, FindDevice, SaveStatus, Abort, CreateEnrollmentToken,
         Lapse, vars
<1>. QED
  BY <1>1, <1>2

\* Only a binding changes what a known device is bound to.
LEMMA BindingStays ==
    ASSUME IInv, [Next]_vars, NEW d \in Devices, Known(d),
           ~\E r \in Reqs : BindCertificate(r) /\ dev[r] = d
    PROVE  Known(d)' /\ device'[d].certificate = device[d].certificate
<1>. USE DEF IInv, TypeOK, KindAtStage, InHand, Known, DeviceDoc, Step, stores
<1>1. ASSUME NEW r \in Reqs, EnrollDevice(r)
      PROVE  device'[d].certificate = device[d].certificate
  BY <1>1
  DEF EnrollDevice, VerifyToken, StartRegistration, LookUpFingerprint,
      RefuseKnownDevice, RegisterDevice, FindPendingDevice, ApproveDevice, FindToken,
      ConsumeToken
<1>2. ASSUME NEW r \in Reqs, SignAndStore(r)
      PROVE  device'[d].certificate = device[d].certificate
  BY <1>2
  DEF SignAndStore, GenerateCertificate, SignCsr, StoreCertificate, BindCertificate
<1>3. ASSUME NEW r \in Reqs, RenewOrRevoke(r) \/ Abort(r)
      PROVE  device'[d].certificate = device[d].certificate
  BY <1>3
  DEF RenewOrRevoke, VerifyCertificate, StartRevoke, CheckRevocationTable,
      CheckDeviceTrust, FindCertificate, RevokeInVault, SaveRevoked, RecordRevocation,
      Abort
<1>4. ASSUME NEW r \in Reqs, UpdateStatus(r)
      PROVE  device'[d].certificate = device[d].certificate
  BY <1>4 DEF UpdateStatus, FindDevice, SaveStatus
<1>5. device'[d].certificate = device[d].certificate
  BY ONLY <1>1, <1>2, <1>3, <1>4, [Next]_vars
  DEF Next, CreateEnrollmentToken, Lapse, stores, vars
<1>. QED
  BY <1>5, DocumentsStay DEF DevicesKept

\* Every step keeps the line.
LEMMA LineStep ==
    ASSUME IInv, HeldInv, LineInv, [Next]_vars
    PROVE  LineInv'
<1>1. CertificatesKept /\ DevicesKept
  BY CertificatesStay, DocumentsStay
<1>2. \A r \in Reqs : pc[r] \in IssuedStages =>
         /\ OnlyIssue(r) /\ Known(dev[r]) /\ dev[r] \in Devices
         /\ ser[r] \in Serials /\ cert[ser[r]] # None
  BY DEF LineInv, HandBound, HeldInv, BinderOnlyIssues, IssuedStored, IssuedStages,
         HandStages, IInv, TypeOK, KindAtStage, InHand
<1>3. IssuedApart'
  <2>. SUFFICES ASSUME NEW r \in Reqs, NEW q \in Reqs, pc'[r] \in IssuedStages,
                       pc'[q] \in IssuedStages, dev'[r] = dev'[q], r # q
                PROVE  FALSE
    BY DEF IssuedApart
  <2>1. dev[r] = dev[q] /\ dev[r] \in Devices
    BY HandStaysPut, <1>2
    DEF StoreCertificate, Step, IInv, TypeOK, KindAtStage, IssuedStages
  <2>2. \A p \in Reqs : StoreCertificate(p) => Issuer(p, dev[p])
    BY DEF StoreCertificate, Step, IInv, KindAtStage, Issuer, EnrollStages
  <2>3. CASE pc[r] \in IssuedStages /\ pc[q] \in IssuedStages
    BY <2>1, <2>3 DEF LineInv, IssuedApart
  <2>4. CASE StoreCertificate(r) \/ StoreCertificate(q)
    <3>1. ~(StoreCertificate(r) /\ StoreCertificate(q))
      BY DEF StoreCertificate, Step, IInv, TypeOK
    <3>. QED
      BY <1>2, <2>1, <2>2, <2>4, <3>1, HandStaysPut DEF OnlyIssue
  <2>. QED
    BY <2>3, <2>4, HandStaysPut
<1>4. ASSUME NEW r \in Reqs, pc'[r] \in HandStages
      PROVE  OnlyIssue(r)'
  <2>1. /\ pc[r] \in IssuedStages /\ pc'[r] \in IssuedStages
        /\ ser'[r] = ser[r] /\ dev'[r] = dev[r]
    BY <1>4, HandStaysPut DEF HandStages, IssuedStages, BindCertificate, Step
  <2>2. PICK c \in Serials, d \in Devices : c = ser[r] /\ d = dev[r]
    BY <1>2, <2>1
  <2>3. /\ cert[c].device = d /\ cert[c] # None /\ c \notin given /\ Known(d)
        /\ \A e \in Serials : Tip(e, d) => e = c
        /\ \A q \in Reqs : ~Issuer(q, d)
    BY <1>2, <2>1, <2>2 DEF OnlyIssue
  <2>4. cert'[c].device = d
    BY <1>1, <2>3 DEF CertificatesKept
  <2>5. c \notin given'
    <3>. SUFFICES ASSUME c \in given' PROVE FALSE
      OBVIOUS
    <3>1. PICK q \in Reqs : pc[q] \in IssuedStages /\ pc'[q] = "idle" /\ ser[q] = c
      BY <2>3, NewlyGiven
    <3>2. q = r
      BY <2>1, <2>2, <3>1 DEF HeldInv, IssuedDiffer
    <3>. QED
      BY <2>1, <3>1, <3>2 DEF IssuedStages
  <2>6. \A e \in Serials : Tip(e, d)' => e = c
    BY <2>3, NewTips
  <2>7. \A q \in Reqs : ~Issuer(q, d)'
    BY <2>3, NewIssuers
  <2>. QED
    BY <2>1, <2>2, <2>4, <2>5, <2>6, <2>7 DEF OnlyIssue, Tip, Issuer
<1>5. ASSUME NEW r \in Reqs, pc'[r] \in HandStages
      PROVE  Known(dev[r])' /\ device'[dev'[r]].certificate = ser'[r]
  <2>1. /\ pc[r] \in IssuedStages
        /\ ser'[r] = ser[r] /\ dev'[r] = dev[r]
    BY <1>5, HandStaysPut DEF HandStages, IssuedStages, BindCertificate, Step
  <2>2. PICK c \in Serials, d \in Devices : c = ser[r] /\ d = dev[r]
    BY <1>2, <2>1
  <2>3. CASE BindCertificate(r)
    BY <1>2, <2>1, <2>2, <2>3, EnrollmentAssumption
    DEF BindCertificate, IInv, TypeOK, Known, DeviceDoc
  <2>4. CASE pc[r] \in HandStages
    <3>1. ~\E q \in Reqs : BindCertificate(q) /\ dev[q] = d
      <4>. SUFFICES ASSUME NEW q \in Reqs, BindCertificate(q), dev[q] = d
                    PROVE  FALSE
        OBVIOUS
      <4>1. pc[q] = "bind"
        BY DEF BindCertificate
      <4>2. q = r
        BY <2>1, <2>2, <4>1 DEF LineInv, IssuedApart, IssuedStages
      <4>. QED
        BY <2>4, <4>1, <4>2 DEF HandStages
    <3>2. Known(d) /\ device[d].certificate = c
      BY <2>2, <2>4 DEF LineInv, HandBound
    <3>3. Known(d)' /\ device'[d].certificate = c
      BY <3>1, <3>2, BindingStays
    <3>. QED
      BY <2>1, <2>2, <3>3 DEF Known
  <2>. QED
    BY <1>5, <2>3, <2>4, HandStaysPut DEF HandStages, IssuedStages
<1>6. HandBound'
  BY <1>4, <1>5 DEF HandBound
<1>. QED
  BY <1>3, <1>6 DEF LineInv

HolderMap == [c \in Serials |-> Holder(c)]

BoundMap == [d \in Devices |-> Bound(d)]

\* Without a binding, nothing that the line knows of devices changes.
LEMMA SameBound ==
    ASSUME IInv, [Next]_vars, ~\E r \in Reqs : BindCertificate(r)
    PROVE  UNCHANGED BoundMap
<1>1. ASSUME NEW d \in Devices PROVE Bound(d)' = Bound(d)
  <2>1. CASE Known(d)
    BY <2>1, BindingStays DEF Bound
  <2>2. CASE ~Known(d)
    <3>1. device'[d] = device[d] \/ device'[d].certificate = None
      <4>1. \A r \in Reqs : pc[r] \in {"approve", "save"} => dev[r] # d
        BY <2>2 DEF IInv, InHand
      <4>2. ASSUME NEW r \in Reqs, RegisterDevice(r)
            PROVE  device'[d] = device[d] \/ device'[d].certificate = None
        BY <4>2 DEF RegisterDevice, IInv, TypeOK, KindAtStage
      <4>3. ASSUME NEW r \in Reqs,
                   ApproveDevice(r) \/ \E s \in AdminStatuses : SaveStatus(r, s)
            PROVE  device'[d] = device[d]
        BY <4>1, <4>3
        DEF ApproveDevice, SaveStatus, Step, IInv, TypeOK, KindAtStage
      <4>4. \/ \E r \in Reqs :
                  \/ RegisterDevice(r)
                  \/ ApproveDevice(r)
                  \/ \E s \in AdminStatuses : SaveStatus(r, s)
            \/ UNCHANGED device
        BY DEF Next, EnrollDevice, SignAndStore, RenewOrRevoke, UpdateStatus,
               VerifyToken, StartRegistration, LookUpFingerprint, RefuseKnownDevice,
               FindPendingDevice, FindToken, ConsumeToken, GenerateCertificate,
               SignCsr, StoreCertificate, VerifyCertificate, StartRevoke,
               CheckRevocationTable, CheckDeviceTrust, FindCertificate,
               RevokeInVault, SaveRevoked, RecordRevocation, FindDevice, Abort,
               CreateEnrollmentToken, Lapse, stores, vars
      <4>. QED
        BY <4>2, <4>3, <4>4
    <3>. QED
      BY <2>2, <3>1 DEF Bound, Known
  <2>. QED
    BY <2>1, <2>2
<1>. QED
  BY <1>1 DEF BoundMap

LEMMA IssueStep ==
    ASSUME IInv, NEW r \in Reqs, StoreCertificate(r), [Next]_vars
    PROVE  \E c \in Serials, d \in Devices : Lineage!Issue(c, d)
<1>1. PICK c \in Serials, d \in Devices : c = ser[r] /\ d = dev[r]
  BY DEF StoreCertificate, Step, IInv, TypeOK, KindAtStage, InHand, StoredIsSigned
<1>2. /\ cert[c] = None /\ cert' = [cert EXCEPT ![c] = [device |-> d, revoked |-> FALSE]]
      /\ UNCHANGED given
  BY <1>1 DEF StoreCertificate, Step, IInv, InHand
<1>3. Issuer(r, d)
  BY <1>1 DEF StoreCertificate, Step, IInv, KindAtStage, Issuer, EnrollStages
<1>4. ASSUME NEW e \in Serials, Holder(e) = d PROVE e \in Revoked
  <2>1. cert[e] # None /\ cert[e].device = d
    BY <1>4, EnrollmentAssumption DEF Holder
  <2>2. e \in recorded
    BY <1>3, <2>1 DEF IInv, OneIssueRight, Tip
  <2>. QED
    BY <2>1, <2>2 DEF IInv, RecordsAreRevoked, Revoked
<1>5. cert'[c] # None
  <2>1. cert'[c] = [device |-> d, revoked |-> FALSE]
    BY <1>2 DEF IInv, TypeOK
  <2>2. cert'[c] \in CertificateDoc
    BY ONLY <2>1 DEF CertificateDoc
  <2>. QED
    BY ONLY <2>2, EnrollmentAssumption
<1>6. HolderMap' = [HolderMap EXCEPT ![c] = d]
  <2>1. cert'[c] = [device |-> d, revoked |-> FALSE]
    BY <1>2 DEF IInv, TypeOK
  <2>2. Holder(c)' = d
    BY <1>2, <2>1, <1>5 DEF Holder
  <2>3. \A e \in Serials : e # c => Holder(e)' = Holder(e)
    BY <1>2 DEF Holder, IInv, TypeOK
  <2>. QED
    BY <2>2, <2>3 DEF HolderMap
<1>7. UNCHANGED Revoked
  BY <1>2 DEF Revoked, IInv, TypeOK
<1>8. UNCHANGED BoundMap
  <2>1. cert' # cert
    BY <1>2, <1>5
  <2>2. ~\E q \in Reqs : BindCertificate(q)
    BY <2>1 DEF BindCertificate
  <2>. QED
    BY <2>2, SameBound
<1>9. HolderMap[c] = None
  BY <1>2 DEF HolderMap, Holder
<1>. QED
  BY <1>2, <1>4, <1>6, <1>7, <1>8, <1>9
  DEF Lineage!Issue, Lineage!Of, HolderMap, BoundMap

LEMMA RevokeStep ==
    ASSUME IInv, NEW r \in Reqs, SaveRevoked(r), [Next]_vars
    PROVE  \E c \in Serials : Lineage!Revoke(c)
<1>1. PICK c \in Serials : c = ser[r] /\ cert[c] # None
  BY DEF SaveRevoked, Step, IInv, InHand, RevokeStages
<1>2. /\ cert' = [cert EXCEPT ![c] = [cert[c] EXCEPT !.revoked = TRUE]]
      /\ UNCHANGED <<device, given>>
  BY <1>1 DEF SaveRevoked
<1>3. cert[c] \in CertificateDoc /\ cert'[c] = [cert[c] EXCEPT !.revoked = TRUE]
  BY <1>1, <1>2 DEF IInv, TypeOK
<1>4. cert'[c] \in CertificateDoc /\ cert'[c].revoked /\ cert'[c].device = cert[c].device
  BY <1>3 DEF CertificateDoc
<1>5. \A e \in Serials : e # c => cert'[e] = cert[e]
  BY <1>2 DEF IInv, TypeOK
<1>6. UNCHANGED HolderMap
  BY <1>1, <1>4, <1>5, EnrollmentAssumption DEF HolderMap, Holder
<1>7. Revoked' = Revoked \union {c}
  BY <1>1, <1>4, <1>5, EnrollmentAssumption DEF Revoked
<1>8. UNCHANGED BoundMap
  BY <1>2 DEF BoundMap, Bound, Known
<1>9. HolderMap[c] # None
  BY <1>1, <1>3, EnrollmentAssumption DEF HolderMap, Holder, CertificateDoc
<1>. QED
  BY <1>2, <1>6, <1>7, <1>8, <1>9 DEF Lineage!Revoke, HolderMap, BoundMap

LEMMA BindStep ==
    ASSUME IInv, HeldInv, NEW r \in Reqs, BindCertificate(r)
    PROVE  \E c \in Serials, d \in Devices : Lineage!Bind(c, d)
<1>1. PICK c \in Serials, d \in Devices : c = ser[r] /\ d = dev[r]
  BY DEF BindCertificate, IInv, KindAtStage, InHand
<1>2. /\ OnlyIssue(r) /\ cert[c] # None /\ Known(d)
      /\ cert[c].device = d /\ c \notin given
      /\ \A e \in Serials : Tip(e, d) => e = c
  BY <1>1
  DEF BindCertificate, HeldInv, BinderOnlyIssues, IssuedStored, IssuedStages,
      OnlyIssue, IInv, InHand
<1>3. /\ device' = [device EXCEPT ![d] = [device[d] EXCEPT !.certificate = c]]
      /\ given' \in {given, given \union {c}} /\ UNCHANGED cert
  BY <1>1 DEF BindCertificate
<1>4. device'[d] = [device[d] EXCEPT !.certificate = c] /\ device[d] \in DeviceDoc
  BY <1>2, <1>3 DEF IInv, TypeOK, Known
<1>5. device'[d] \in DeviceDoc /\ device'[d].certificate = c
  BY <1>4 DEF DeviceDoc
<1>6. \A e \in Devices : e # d => device'[e] = device[e]
  BY <1>3 DEF IInv, TypeOK
<1>7. BoundMap' = [BoundMap EXCEPT ![d] = c]
  BY <1>5, <1>6, EnrollmentAssumption DEF BoundMap, Bound, Known
<1>8. ASSUME NEW e \in Serials, Holder(e) = d, e # c PROVE e \in Revoked
  <2>1. cert[e] # None /\ cert[e].device = d
    BY <1>8, EnrollmentAssumption DEF Holder
  <2>2. e \in recorded
    BY <1>2, <1>8, <2>1 DEF Tip
  <2>. QED
    BY <2>1, <2>2 DEF IInv, RecordsAreRevoked, Revoked
<1>9. UNCHANGED <<HolderMap, Revoked>>
  BY <1>3 DEF HolderMap, Holder, Revoked
<1>10. HolderMap[c] = d
  BY <1>2 DEF HolderMap, Holder
<1>. QED
  BY <1>2, <1>3, <1>7, <1>8, <1>9, <1>10
  DEF Lineage!Bind, Lineage!Of, HolderMap, BoundMap

LEMMA GiveStep ==
    ASSUME IInv, HeldInv, LineInv, NEW r \in Reqs, ConsumeToken(r)
    PROVE  \E c \in Serials, d \in Devices : Lineage!Give(c, d)
<1>1. PICK c \in Serials, d \in Devices : c = ser[r] /\ d = dev[r]
  BY DEF ConsumeToken, IInv, KindAtStage, InHand
<1>2. /\ Known(d) /\ device[d].certificate = c
      /\ cert[c].device = d /\ c \notin given
  BY <1>1 DEF ConsumeToken, LineInv, HandBound, HandStages, OnlyIssue
<1>3. cert[c] # None
  BY <1>1 DEF ConsumeToken, HeldInv, IssuedStored, IssuedStages
<1>4. given' = given \union {c} /\ UNCHANGED <<cert, device>>
  BY <1>1 DEF ConsumeToken
<1>5. UNCHANGED <<HolderMap, Revoked, BoundMap>>
  BY <1>4 DEF HolderMap, Holder, Revoked, BoundMap, Bound, Known
<1>6. HolderMap[c] = d /\ BoundMap[d] = c
  BY <1>2, <1>3 DEF HolderMap, Holder, BoundMap, Bound
<1>. QED
  BY <1>2, <1>4, <1>5, <1>6 DEF Lineage!Give, Lineage!Of, HolderMap, BoundMap

\* Every step of the services is a step of the line, or leaves it alone.
LEMMA LineageStep ==
    ASSUME IInv, HeldInv, LineInv, [Next]_vars
    PROVE  [Lineage!Next]_<<HolderMap, Revoked, BoundMap, given>>
<1>1. CASE \E r \in Reqs : StoreCertificate(r)
  BY <1>1, IssueStep DEF Lineage!Next
<1>2. CASE \E r \in Reqs : SaveRevoked(r)
  BY <1>2, RevokeStep DEF Lineage!Next
<1>3. CASE \E r \in Reqs : BindCertificate(r)
  BY <1>3, BindStep DEF Lineage!Next
<1>4. CASE \E r \in Reqs : ConsumeToken(r)
  BY <1>4, GiveStep DEF Lineage!Next
<1>5. CASE ~\E r \in Reqs :
              \/ StoreCertificate(r) \/ SaveRevoked(r)
              \/ BindCertificate(r) \/ ConsumeToken(r)
  <2>1. UNCHANGED <<cert, given>>
    BY <1>5
    DEF Next, EnrollDevice, SignAndStore, RenewOrRevoke, UpdateStatus, VerifyToken,
        StartRegistration, LookUpFingerprint, RefuseKnownDevice, RegisterDevice,
        FindPendingDevice, ApproveDevice, FindToken, GenerateCertificate, SignCsr,
        VerifyCertificate, StartRevoke, CheckRevocationTable, CheckDeviceTrust,
        FindCertificate, RevokeInVault, RecordRevocation, FindDevice, SaveStatus,
        Abort, CreateEnrollmentToken, Lapse, stores, vars
  <2>2. UNCHANGED BoundMap
    BY <1>5, SameBound
  <2>. QED
    BY <2>1, <2>2 DEF HolderMap, Holder, Revoked
<1>. QED
  BY <1>1, <1>2, <1>3, <1>4, <1>5

\* The services implement the line of certificates: a device gets its next one
\* when all earlier ones are revoked, is bound to it before anybody has it, and
\* to no other while it is valid.
THEOREM CertificatesFormALine == Spec => ImplementsLineage
<1>1. Init => HeldInv /\ LineInv
  BY DEF Init, HeldInv, GivenSettled, IssuedStored, BinderOnlyIssues,
         HandSettled, RenewsGiven, IssuedDiffer, IssuedStages, LineInv, HandBound,
         IssuedApart, HandStages
<1>2. IInv /\ HeldInv /\ [Next]_vars => HeldInv'
  BY HeldStep
<1>3. IInv /\ HeldInv /\ LineInv /\ [Next]_vars => LineInv'
  BY LineStep
<1>4. Init => Lineage!Init
  BY DEF Init, Lineage!Init, Holder, Revoked, Bound, Known
<1>5. IInv /\ HeldInv /\ LineInv /\ [Next]_vars
        => [Lineage!Next]_<<HolderMap, Revoked, BoundMap, given>>
  BY LineageStep
<1>. QED
  BY <1>1, <1>2, <1>3, <1>4, <1>5, InvariantHolds, PTL
  DEF Spec, ImplementsLineage, Lineage!Spec, HolderMap, BoundMap
=============================================================================
