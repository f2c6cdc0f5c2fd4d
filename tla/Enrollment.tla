----------------------------- MODULE Enrollment -----------------------------
(***************************************************************************)
(* Device onboarding and the life of a device certificate: SetupService    *)
(* (enrollment tokens, enrollment, renewal), DevicesService (registration, *)
(* approval, status) and CertificatesService (signing, verification,       *)
(* revocation), with Vault PKI as the external signer.                     *)
(*                                                                         *)
(* A request is suspended at each await; an action is one call to MongoDB  *)
(* or Vault with the code that follows it.  A read that refuses a request  *)
(* which has written nothing leaves the system as it was and has no        *)
(* action.  Devices are named by their fingerprints, which are unique, and *)
(* certificates by their serial numbers.                                   *)
(***************************************************************************)
EXTENDS Naturals, FiniteSets

CONSTANTS
    Devices, Serials, Tokens,
    Reqs,           \* requests that can be in flight at once
    Budgets,        \* values of maxDevices an administrator asks for
    AdminStatuses,  \* statuses an administrator may set
    MayFail,        \* Vault or MongoDB calls may fail, the process may die
    MaxLapsed,      \* bound: tokens and certificates that expire
    None

DeviceStatus == {"pending", "approved", "revoked", "blocked"}

DeviceDoc == [status: DeviceStatus, certificate: Serials \union {None}]

CertificateDoc == [device: Devices, revoked: BOOLEAN]

TokenDoc == [max: Nat, used: Nat, isUsed: BOOLEAN]

Kinds == {"none", "enroll", "register", "renew", "revoke", "generate", "status"}

Stages == {"idle", "lookup", "insert", "findPending", "approve", "sign",
           "store", "bind", "findToken", "consume", "table", "trust",
           "findCertificate", "vault", "saveRevoked", "record", "save"}

ASSUME EnrollmentAssumption ==
    /\ IsFiniteSet(Reqs)
    /\ Budgets \subseteq Nat \ {0}
    /\ AdminStatuses \subseteq DeviceStatus
    /\ MayFail \in BOOLEAN /\ MaxLapsed \in Nat
    /\ None \notin Devices \union Serials \union Tokens
    /\ None \notin DeviceDoc \union CertificateDoc \union TokenDoc
    /\ None \notin DeviceStatus

VARIABLES
    token,      \* the enrollment_tokens collection
    device,     \* the devices collection
    cert,       \* the certificates collection
    recorded,   \* the certificate_revocations collection
    signed,     \* Vault: certificates signed
    crl,        \* Vault: certificates revoked
    lapsed,     \* tokens and certificates past their expiry
    given,      \* certificates a client has been given
    enrolled,   \* history: devices certified on each token
    pc,         \* where each request is suspended
    kind,       \* what it does
    tok,        \* the enrollment token it presented
    dev,        \* the device it is about
    ser,        \* the serial number it has in hand
    was,        \* the device status it has read
    count       \* the usedCount it has read

stores == <<token, device, cert, recorded, signed, crl>>
local == <<kind, tok, dev, ser, was, count>>
vars == <<stores, lapsed, given, enrolled, pc, local>>

TypeOK ==
    /\ token \in [Tokens -> TokenDoc \union {None}]
    /\ device \in [Devices -> DeviceDoc \union {None}]
    /\ cert \in [Serials -> CertificateDoc \union {None}]
    /\ recorded \subseteq Serials
    /\ signed \subseteq Serials /\ crl \subseteq Serials
    /\ lapsed \subseteq Tokens \union Serials
    /\ given \subseteq Serials
    /\ enrolled \in [Tokens -> Nat]
    /\ pc \in [Reqs -> Stages]
    /\ kind \in [Reqs -> Kinds]
    /\ tok \in [Reqs -> Tokens \union {None}]
    /\ dev \in [Reqs -> Devices \union {None}]
    /\ ser \in [Reqs -> Serials \union {None}]
    /\ was \in [Reqs -> DeviceStatus \union {None}]
    /\ count \in [Reqs -> Nat]

Init ==
    /\ token = [t \in Tokens |-> None]
    /\ device = [d \in Devices |-> None]
    /\ cert = [c \in Serials |-> None]
    /\ recorded = {} /\ signed = {} /\ crl = {}
    /\ lapsed = {} /\ given = {}
    /\ enrolled = [t \in Tokens |-> 0]
    /\ pc = [r \in Reqs |-> "idle"]
    /\ kind = [r \in Reqs |-> "none"]
    /\ tok = [r \in Reqs |-> None]
    /\ dev = [r \in Reqs |-> None]
    /\ ser = [r \in Reqs |-> None]
    /\ was = [r \in Reqs |-> None]
    /\ count = [r \in Reqs |-> 0]

-----------------------------------------------------------------------------
(* Requests: start, suspend at the next stage, finish. *)

Idle(r) == pc[r] = "idle"

Start(r, k, stage, t, d, c) ==
    /\ Idle(r)
    /\ pc' = [pc EXCEPT ![r] = stage]
    /\ kind' = [kind EXCEPT ![r] = k]
    /\ tok' = [tok EXCEPT ![r] = t]
    /\ dev' = [dev EXCEPT ![r] = d]
    /\ ser' = [ser EXCEPT ![r] = c]
    /\ UNCHANGED <<was, count>>

Step(r, from, to) ==
    /\ pc[r] = from
    /\ pc' = [pc EXCEPT ![r] = to]

Finish(r) ==
    /\ pc' = [pc EXCEPT ![r] = "idle"]
    /\ kind' = [kind EXCEPT ![r] = "none"]
    /\ tok' = [tok EXCEPT ![r] = None]
    /\ dev' = [dev EXCEPT ![r] = None]
    /\ ser' = [ser EXCEPT ![r] = None]
    /\ was' = [was EXCEPT ![r] = None]
    /\ count' = [count EXCEPT ![r] = 0]

\* A call that throws, or the death of the process: the request is gone and
\* what it has written stays.
Abort(r) ==
    /\ MayFail
    /\ ~Idle(r)
    /\ Finish(r)
    /\ UNCHANGED <<stores, lapsed, given, enrolled>>

Known(d) == device[d] # None

Valid(c) == cert[c] # None /\ ~cert[c].revoked

-----------------------------------------------------------------------------
(* Enrollment tokens. *)

\* Mutant: maxDevices is not given and has no default.
TokenWithoutMaximum(t, max) ==
    /\ token[t] = None
    /\ token' = [token EXCEPT ![t] = [max |-> None, used |-> 0, isUsed |-> FALSE]]
    /\ UNCHANGED <<device, cert, recorded, signed, crl, lapsed, given,
                   enrolled, pc, local>>

CreateEnrollmentToken(t, max) ==
    /\ token[t] = None
    /\ token' = [token EXCEPT ![t] = [max |-> max, used |-> 0, isUsed |-> FALSE]]
    /\ UNCHANGED <<device, cert, recorded, signed, crl, lapsed, given,
                   enrolled, pc, local>>

FullyConsumed(t) == token[t].isUsed /\ token[t].used >= token[t].max

VerifyToken(r, t, d) ==
    /\ token[t] # None
    /\ t \notin lapsed
    /\ ~FullyConsumed(t)
    /\ Start(r, "enroll", "lookup", t, d, None)
    /\ UNCHANGED <<stores, lapsed, given, enrolled>>

(* Registration.  enrollDevice and registerDevice each look the fingerprint *)
(* up; the second lookup refuses every device the first one refuses.        *)
LookUpFingerprint(r) ==
    /\ Step(r, "lookup", "insert")
    /\ ~Known(dev[r])
    /\ UNCHANGED <<stores, lapsed, given, enrolled, local>>

RefuseKnownDevice(r) ==
    /\ pc[r] = "lookup"
    /\ Known(dev[r])
    /\ Finish(r)
    /\ UNCHANGED <<stores, lapsed, given, enrolled>>

\* POST /devices registers a device that nobody has approved.
StartRegistration(r, d) ==
    /\ ~Known(d)
    /\ Start(r, "register", "insert", None, d, None)
    /\ UNCHANGED <<stores, lapsed, given, enrolled>>

\* Mutant: the registration finds or creates.
FindOrRegister(r) ==
    /\ pc[r] = "insert"
    /\ device' = IF Known(dev[r]) THEN device
                 ELSE [device EXCEPT ![dev[r]] =
                         [status |-> "pending", certificate |-> None]]
    /\ \/ /\ kind[r] = "enroll"
          /\ Step(r, "insert", "findPending")
          /\ UNCHANGED local
       \/ kind[r] = "register" /\ Finish(r)
    /\ UNCHANGED <<token, cert, recorded, signed, crl, lapsed, given, enrolled>>

\* The unique index on fingerprint settles a race between two registrations.
RegisterDevice(r) ==
    /\ pc[r] = "insert"
    /\ \/ /\ ~Known(dev[r])
          /\ device' = [device EXCEPT ![dev[r]] =
                          [status |-> "pending", certificate |-> None]]
          /\ \/ /\ kind[r] = "enroll"
                /\ Step(r, "insert", "findPending")
                /\ UNCHANGED local
             \/ kind[r] = "register" /\ Finish(r)
       \/ /\ Known(dev[r])
          /\ Finish(r)
          /\ UNCHANGED device
    /\ UNCHANGED <<token, cert, recorded, signed, crl, lapsed, given, enrolled>>

\* Mutant: approveDevice does not look at the status it has read.
ApproveAnyStatus(r) ==
    /\ Step(r, "findPending", "approve")
    /\ UNCHANGED <<stores, lapsed, given, enrolled, local>>

(* approveDevice reads the status and then saves "approved". *)
FindPendingDevice(r) ==
    /\ pc[r] = "findPending"
    /\ \/ device[dev[r]].status = "pending" /\ Step(r, "findPending", "approve")
          /\ UNCHANGED local
       \/ device[dev[r]].status # "pending" /\ Finish(r)
    /\ UNCHANGED <<stores, lapsed, given, enrolled>>

\* Mutant: the token is charged as soon as the device is approved.
ChargeOnApproval(r) ==
    /\ Step(r, "approve", "sign")
    /\ device' = [device EXCEPT ![dev[r]].status = "approved"]
    /\ token' = [token EXCEPT ![tok[r]].used = @ + 1]
    /\ UNCHANGED <<cert, recorded, signed, crl, lapsed, given, enrolled, local>>

ApproveDevice(r) ==
    /\ Step(r, "approve", "sign")
    /\ device' = [device EXCEPT ![dev[r]].status = "approved"]
    /\ UNCHANGED <<token, cert, recorded, signed, crl, lapsed, given, enrolled,
                   local>>

(* signAndStoreCertificate, for an enrollment, a renewal or by hand.  The   *)
(* document of a certificate made by hand cannot be built, since "system"   *)
(* is no ObjectId: the request ends once Vault has signed.                  *)
SignCsr(r) ==
    /\ pc[r] = "sign"
    /\ \E c \in Serials \ signed :
          /\ signed' = signed \union {c}
          /\ \/ /\ kind[r] # "generate"
                /\ Step(r, "sign", "store")
                /\ ser' = [ser EXCEPT ![r] = c]
                /\ UNCHANGED <<kind, tok, dev, was, count>>
             \/ kind[r] = "generate" /\ Finish(r)
    /\ UNCHANGED <<token, device, cert, recorded, crl, lapsed, given, enrolled>>

StoreCertificate(r) ==
    /\ Step(r, "store", "bind")
    /\ cert' = [cert EXCEPT ![ser[r]] = [device |-> dev[r], revoked |-> FALSE]]
    /\ enrolled' = IF kind[r] = "enroll"
                   THEN [enrolled EXCEPT ![tok[r]] = @ + 1] ELSE enrolled
    /\ UNCHANGED <<token, device, recorded, signed, crl, lapsed, given, local>>

\* Mutant: only an enrollment binds its certificate.
BindAtEnrollmentOnly(r) ==
    /\ pc[r] = "bind"
    /\ \/ /\ kind[r] = "enroll"
          /\ device' = [device EXCEPT ![dev[r]].certificate = ser[r]]
          /\ Step(r, "bind", "findToken")
          /\ UNCHANGED <<given, local>>
       \/ /\ kind[r] # "enroll"
          /\ given' = given \union {ser[r]}
          /\ Finish(r)
          /\ UNCHANGED device
    /\ UNCHANGED <<token, cert, recorded, signed, crl, lapsed, enrolled>>

BindCertificate(r) ==
    /\ pc[r] = "bind"
    /\ device' = [device EXCEPT ![dev[r]].certificate = ser[r]]
    /\ \/ /\ kind[r] = "enroll"
          /\ Step(r, "bind", "findToken")
          /\ UNCHANGED <<given, local>>
       \/ /\ kind[r] # "enroll"
          /\ given' = given \union {ser[r]}
          /\ Finish(r)
    /\ UNCHANGED <<token, cert, recorded, signed, crl, lapsed, enrolled>>

(* The token is read again and saved with one more use. *)
FindToken(r) ==
    /\ Step(r, "findToken", "consume")
    /\ count' = [count EXCEPT ![r] = token[tok[r]].used]
    /\ UNCHANGED <<stores, lapsed, given, enrolled, kind, tok, dev, ser, was>>

\* save() writes isUsed only when the copy in hand has become used up.
Consumed(t, used) ==
    [token[t] EXCEPT !.used = used + 1,
                     !.isUsed = IF used + 1 >= token[t].max THEN TRUE ELSE @]

ConsumeToken(r) ==
    /\ pc[r] = "consume"
    /\ token' = [token EXCEPT ![tok[r]] = Consumed(tok[r], count[r])]
    /\ given' = given \union {ser[r]}
    /\ Finish(r)
    /\ UNCHANGED <<device, cert, recorded, signed, crl, lapsed, enrolled>>

-----------------------------------------------------------------------------
(* verifyCertificate, as renewCertificate calls it: the certificate, the    *)
(* revocation table and the device are read one after the other.            *)
VerifyCertificate(r, c) ==
    /\ c \in given
    /\ c \notin lapsed
    /\ Valid(c)
    /\ Start(r, "renew", "table", None, cert[c].device, c)
    /\ UNCHANGED <<stores, lapsed, given, enrolled>>

CheckRevocationTable(r) ==
    /\ pc[r] = "table"
    /\ \/ ser[r] \notin recorded /\ Step(r, "table", "trust") /\ UNCHANGED local
       \/ ser[r] \in recorded /\ Finish(r)
    /\ UNCHANGED <<stores, lapsed, given, enrolled>>

IsDeviceTrusted(d) == Known(d) /\ device[d].status = "approved"

CheckDeviceTrust(r) ==
    /\ pc[r] = "trust"
    /\ \/ IsDeviceTrusted(dev[r]) /\ Step(r, "trust", "findCertificate")
          /\ UNCHANGED local
       \/ ~IsDeviceTrusted(dev[r]) /\ Finish(r)
    /\ UNCHANGED <<stores, lapsed, given, enrolled>>

(* revokeCertificate: read and check, Vault, save, insert the record.       *)
StartRevoke(r, c) ==
    /\ cert[c] # None
    /\ Start(r, "revoke", "findCertificate", None, cert[c].device, c)
    /\ UNCHANGED <<stores, lapsed, given, enrolled>>

FindCertificate(r) ==
    /\ pc[r] = "findCertificate"
    /\ \/ Valid(ser[r]) /\ Step(r, "findCertificate", "vault") /\ UNCHANGED local
       \/ ~Valid(ser[r]) /\ Finish(r)
    /\ UNCHANGED <<stores, lapsed, given, enrolled>>

\* An error of Vault is logged and the revocation goes on.
RevokeInVault(r) ==
    /\ Step(r, "vault", "saveRevoked")
    /\ \/ crl' = crl \union {ser[r]}
       \/ MayFail /\ UNCHANGED crl
    /\ UNCHANGED <<token, device, cert, recorded, signed, lapsed, given,
                   enrolled, local>>

\* Mutant: the status is toggled.
ToggleRevoked(r) ==
    /\ Step(r, "saveRevoked", "record")
    /\ cert' = [cert EXCEPT ![ser[r]].revoked = ~@]
    /\ UNCHANGED <<token, device, recorded, signed, crl, lapsed, given,
                   enrolled, local>>

SaveRevoked(r) ==
    /\ Step(r, "saveRevoked", "record")
    /\ cert' = [cert EXCEPT ![ser[r]].revoked = TRUE]
    /\ UNCHANGED <<token, device, recorded, signed, crl, lapsed, given,
                   enrolled, local>>

\* Mutant: the record is upserted, so that a second revocation succeeds too.
UpsertRevocation(r) ==
    /\ pc[r] = "record"
    /\ recorded' = recorded \union {ser[r]}
    /\ \/ /\ kind[r] = "renew"
          /\ Step(r, "record", "sign")
          /\ UNCHANGED local
       \/ kind[r] = "revoke" /\ Finish(r)
    /\ UNCHANGED <<token, device, cert, signed, crl, lapsed, given, enrolled>>

\* The unique index on certificateSerial admits one record: of two concurrent
\* revocations the second one throws here.
RecordRevocation(r) ==
    /\ pc[r] = "record"
    /\ \/ /\ ser[r] \notin recorded
          /\ recorded' = recorded \union {ser[r]}
          /\ \/ /\ kind[r] = "renew"
                /\ Step(r, "record", "sign")
                /\ UNCHANGED local
             \/ kind[r] = "revoke" /\ Finish(r)
       \/ ser[r] \in recorded /\ Finish(r) /\ UNCHANGED recorded
    /\ UNCHANGED <<token, device, cert, signed, crl, lapsed, given, enrolled>>

\* POST /setup/generate-certificate for any device.
GenerateCertificate(r, d) ==
    /\ Start(r, "generate", "sign", None, d, None)
    /\ UNCHANGED <<stores, lapsed, given, enrolled>>

-----------------------------------------------------------------------------
(* updateStatus: the device is read, then saved with the status asked for, *)
(* which is a write only if it differs from the copy.                      *)
FindDevice(r, d) ==
    /\ Idle(r)
    /\ Known(d)
    /\ pc' = [pc EXCEPT ![r] = "save"]
    /\ kind' = [kind EXCEPT ![r] = "status"]
    /\ dev' = [dev EXCEPT ![r] = d]
    /\ was' = [was EXCEPT ![r] = device[d].status]
    /\ UNCHANGED <<stores, lapsed, given, enrolled, tok, ser, count>>

SaveStatus(r, status) ==
    /\ pc[r] = "save"
    /\ device' = IF status = was[r] THEN device
                 ELSE [device EXCEPT ![dev[r]].status = status]
    /\ Finish(r)
    /\ UNCHANGED <<token, cert, recorded, signed, crl, lapsed, given, enrolled>>

\* Time passes the expiry of a token or of a certificate.
Lapse(x) ==
    /\ x \notin lapsed
    /\ Cardinality(lapsed) < MaxLapsed
    /\ \/ x \in Tokens /\ token[x] # None
       \/ x \in Serials /\ cert[x] # None
    /\ lapsed' = lapsed \union {x}
    /\ UNCHANGED <<stores, given, enrolled, pc, local>>

-----------------------------------------------------------------------------
EnrollDevice(r) ==
    \/ \E t \in Tokens, d \in Devices : VerifyToken(r, t, d)
    \/ \E d \in Devices : StartRegistration(r, d)
    \/ LookUpFingerprint(r)
    \/ RefuseKnownDevice(r)
    \/ RegisterDevice(r)
    \/ FindPendingDevice(r)
    \/ ApproveDevice(r)
    \/ FindToken(r)
    \/ ConsumeToken(r)

SignAndStore(r) ==
    \/ \E d \in Devices : GenerateCertificate(r, d)
    \/ SignCsr(r)
    \/ StoreCertificate(r)
    \/ BindCertificate(r)

RenewOrRevoke(r) ==
    \/ \E c \in Serials : VerifyCertificate(r, c) \/ StartRevoke(r, c)
    \/ CheckRevocationTable(r)
    \/ CheckDeviceTrust(r)
    \/ FindCertificate(r)
    \/ RevokeInVault(r)
    \/ SaveRevoked(r)
    \/ RecordRevocation(r)

UpdateStatus(r) ==
    \/ \E d \in Devices : FindDevice(r, d)
    \/ \E status \in AdminStatuses : SaveStatus(r, status)

Next ==
    \/ \E r \in Reqs : \/ EnrollDevice(r)
                       \/ SignAndStore(r)
                       \/ RenewOrRevoke(r)
                       \/ UpdateStatus(r)
                       \/ Abort(r)
    \/ \E t \in Tokens, max \in Budgets : CreateEnrollmentToken(t, max)
    \/ \E x \in Tokens \union Serials : Lapse(x)

Spec == Init /\ [][Next]_vars

-----------------------------------------------------------------------------
(* Properties. *)

\* A device has at most one certificate that verification would accept: two
\* renewals of one certificate, or a renewal racing a revocation, may both
\* have verified it, but only one of them gets past the revocation record.
OneValidCertificate ==
    \A c, e \in Serials :
        Valid(c) /\ Valid(e) /\ cert[c].device = cert[e].device => c = e

\* A certificate a client holds and that is not revoked is the one its device
\* is bound to: the bindings of an enrollment and of the renewals after it are
\* written in the order the certificates are issued, whoever else is at work.
HeldIsBound ==
    \A c \in given :
        Valid(c) => /\ Known(cert[c].device)
                    /\ device[cert[c].device].certificate = c

\* A token is never charged for more devices than it has certified, so that
\* no enrollment that failed half-way uses up an employee's token.
NeverOvercharged ==
    \A t \in Tokens : token[t] # None => token[t].used <= enrolled[t]

\* Once verification would refuse a certificate it always will: revocation is
\* one-way, and no save of a stale copy or second issue undoes it.
RevocationIsFinal ==
    [][\A c \in Serials : cert[c] # None /\ ~Valid(c) => ~Valid(c)']_vars

\* "Max devices this token can enroll": what the schema says of maxDevices.
WithinBudget ==
    \A t \in Tokens : token[t] # None => enrolled[t] <= token[t].max
=============================================================================
