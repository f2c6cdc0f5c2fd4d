# SecureVault in TLA+

Specifications of the SecureVault backend (NestJS, MongoDB, Redis, HashiCorp
Vault), the TLC configurations that check them, and TLAPS proofs about them.
Every definition is translated from the code under `src/`; `PROJECT.json` gives
the lines of each.

The server is one Node.js process. Between two awaits a request runs alone, at
an await any other request may run, so **a step of a model is one operation on
MongoDB, Redis, Vault or the disk together with the synchronous code around
it**. What is hard in this program is therefore not data but time: documents
read before an await and saved after it, check-then-act sequences that only a
unique index or nothing at all protects, flows of five writes without a
transaction, and errors that are caught and forgotten.

## The system

| Component | State | Operations that change it | Talks to |
|---|---|---|---|
| shares | `file_access`: status, dates, download count | share, revoke, validate (expires lazily), record a download, expire overdue | files, users |
| auth | `refresh_tokens`, Redis blacklist | login, certificate login, refresh, logout, change and force-change password | users, sessions, certificates, Redis |
| users | `users`: email, role, password, active, mustChange, attempt counter, lock | seed, create, update, change role, (de)activate, reset, record an attempt | auth tokens |
| sessions | `sessions` | create (ends the device's), end all | - |
| setup | `enrollment_tokens` | create a token, enrol, issue by hand, renew | devices, certificates, users |
| devices | `devices`: status, certificate | register, approve, set status, bind | - |
| certificates | `certificates`, `certificate_revocations` | sign and store, verify, revoke | Vault PKI, devices |
| vault-pki | what Vault has signed and revoked | sign, revoke | Vault |
| files | `files`: owner, level, deletion, wrapped DEK | upload, delete; list and download only read | encryption, storage, shares |
| encryption, vault | the master key (KEK) in memory and in Vault | connect, start-up, wrap a DEK, rotate | Vault |
| storage | bytes on disk | upload, exists, delete | - |
| file cleanup | - | delete what is past retention | files, storage |
| admin | - | checks roles and delegates: create, update, (de)activate, reset, change role | users, auth |
| redis | blacklist keys; the client's connection | set with expiry, get | - |
| bootstrap | - | seeds the first account, connects to Vault, then listens | users, vault |
| permissions, audit, health, database, common, config, scripts | see `PROJECT.json` | - | - |

What makes each part correct, and where it is stated:

* **Shares**: one active share per file and recipient; an ended share never
  comes back; a used-up share is not active; what is listed can be used unless it is
  overdue; downloads are counted and limited.
* **Tokens**: a revoked token stays revoked; rotation consumes before it
  produces; only requests in flight can carry a token over a mass revocation; a
  logged-out access token is refused; sessions do not pile up on a device.
* **Enrollment**: one valid certificate per device, the one a client holds is
  the one its device is bound to, revocation is final, a token is charged only
  for what it certified and certifies no more than its budget.
* **Certificate login**: what a login goes on with was acceptable at one moment,
  although it was read in three; a blocked device stays blocked until an
  administrator decides again.
* **Lockout**: locked after the maximum of failures, and never for fewer.
* **Files**: a visible file has its bytes and a key the process can unwrap; the
  retention period is kept; a deleted file is removed in the end, with its bytes
  unless the disk would not say that they are there; the listing shows only what
  can be opened; a start ends if Vault answers.
* **Accounts and roles**: a change of role or a deactivation takes effect within
  the life of an access token; an address has one account; the first account is
  seeded before anything is served, and seeding changes no account.

## Modules

| Module | Models | |
|---|---|---|
| `Shares` | ShareService, FileAccessValidationService | component |
| `ShareLifecycle` | what sharing promises: grants begin once and end once | abstract |
| `SharesRefinement` | `Shares` implements `ShareLifecycle` | refinement |
| `SharesProofs` | theorems about the two | proofs |
| `AuthTokens` | AuthService's tokens, UsersService's mass revocations, SessionsService, JwtStrategy | component |
| `TokenLifecycle` | what AuthService promises of a refresh token: it is issued once and never comes back | abstract |
| `AuthTokensRefinement` | `AuthTokens` implements `TokenLifecycle` | refinement |
| `AuthTokensProofs` | theorems about the two | proofs |
| `Lockout` | the password attempt of login, isAccountLocked, activation, reset | component |
| `LockoutProofs` | theorems about `Lockout` | proofs |
| `Enrollment` | SetupService, DevicesService, CertificatesService, Vault PKI | three components and their composition |
| `CertificateLineage` | what onboarding and renewal promise of a device's certificates: they form a line | abstract |
| `EnrollmentRefinement` | `Enrollment` implements `CertificateLineage` | refinement |
| `EnrollmentProofs` | theorems about the two | proofs |
| `EnrollmentTokenProofs` | the theorem about the budget of tokens | proofs |
| `CertificateLogin` | certificateLogin and verifyCertificate beside `Enrollment` | composition |
| `CertificateLoginProofs` | theorems about `CertificateLogin` | proofs |
| `FileStore` | FilesService, FileProcessor, EncryptionService's KEK, storage, Vault KV | components and composition |
| `FileLifecycle` | what the store promises of a file | abstract |
| `FileRefinement` | `FileStore` implements `FileLifecycle` | refinement |
| `FileStoreProofs` | theorems about the two | proofs |
| `AdminRoles` | AdminService, the accounts of UsersService, seeding by AppModule, role claims, RolesGuard | component |
| `AdminRolesProofs` | theorems about `AdminRoles` | proofs |
| `MC*` | instances for TLC | |

Conventions. A collection is a function from the ids that can exist to a
document or `None`. A request is a control point (`pc`, or `stage` in the
request's record) and what it has read. Names of actions are the names of
methods, split at the awaits: `FindFor...` reads and checks, `Save...` writes.
mongoose's `save()` writes the paths that differ from what was read, to the
document as it is then; the actions model that, and where a field is not written
because the copy already had the value, so does the model (`SaveModified`,
`Updated`, `SaveStatus`, `SaveReset`, `Consumed`). A read that refuses a request
which has written nothing has no action of its own unless it follows another
await. Comments that begin with *Mutant* mark definitions no specification uses:
each is a plausible bug put in the place of one definition, to show that the
property it is paired with in `PROJECT.json` would notice.

**Shares.** `ResolveFile`, `ResolveTarget`, `FindDuplicate`, `CreateShare` are the
awaits of shareFile; `IndexRefuses` is the partial unique index on
(file, recipient) over ACTIVE documents. `FindActive`, `JudgeAccess`,
`SaveExpired` are validateAccess; a grant is followed by `Download` and then
`FindForRecord`, `SaveRecorded` (recordDownload), or by nothing. `served` is a
history variable that counts what was really downloaded. The rest of the system
shows as `SoftDelete`, `Deactivate`, `Tick` and `Restart`.

**AuthTokens.** A JWT is its user and the second it was signed in: two tokens of
one type signed for one user in one second are the same string, as in the code,
whose payload has no other varying claim. `era` numbers an account's changes
that should revoke all its tokens and `survivor` marks tokens that requests in
flight carried over such a revocation; both are history. `temporary` says whether
the password is one an administrator has set. Purging by the TTL index and keys
that Redis drops are actions, and so is the life of the Redis client: while it
retries (`client = "down"`) commands wait in its queue, after its fifth failed
retry it has `ended` and they fail, until the process is started again.
`TokenLifecycle` knows a token only as not issued, live, revoked or gone, and may
forget one only when it has expired. `AuthTokensRefinement` reads that off the
documents; a token is gone when there is no document of it, it was signed in an
earlier second, and no request holds it that could still insert one.

**Enrollment.** enrollDevice is the chain lookup, insert, findPending, approve,
sign, store, bind, findToken, consume; renewCertificate is table, trust,
findCertificate, vault, saveRevoked, record and then sign, store, bind;
revokeCertificate and generateCertificate are parts of the same chain entered
elsewhere, told apart by `kind`. `Abort` ends any request at any point and leaves
what it has written, since no step is compensated. Vault is external: it signs a
fresh serial number or fails, and a failed revocation is logged.
`CertificateLineage` leaves the requests out: a certificate is issued for a device
whose earlier ones are all revoked, the device is bound to it, and then it is
given to the client. `EnrollmentRefinement` reads that off the documents of
certificates and devices.

**CertificateLogin.** A login reads the certificate (`PresentCertificate`), the
revocation table and the device, each in a step of its own, and then the user;
it writes nothing before its tokens, which are `AuthTokens`'s. Every step of
`Enrollment` may come between (`EnrollmentStep`). `once` records that the
certificate was acceptable at some moment of the login, `decided` that an
administrator reinstated its device meanwhile, `barred` the devices that
administrators have put out of use; all three are history. The search for a
serial number written differently, and the chain check, whose failure is only
logged, are left out.

**Lockout.** One account, since accounts do not interact. `wrong` counts wrong
passwords, `row` those since the counter was last cleared, `alone` says that
requests have not overlapped or failed; all three are history.

**FileStore.** A file is its metadata, its bytes, and which KEK wrapped its DEK.
Start-up is `StartProcess`, `Connect` with its `RetryAttempts`, then `LoadKek`,
`CheckHealth`, `WriteKek`, each with the fall-back to the key derived from the
JWT secret; `Crash` may strike anywhere. `Outages` says in which `Phases` of the
process's life calls to Vault may fail. A cleanup awaits three calls for each file it
has listed: `Exists`, `Unlink` if the bytes were seen, `DeleteMetadata`. The
provider's exists() answers no to any error of `fs.access`
(`local-storage.provider.ts:64-72`), so that `Exists` may miss bytes that are there
and go on to the metadata; only delete() and deleteOne can fail and skip to the
next file (`Fail`). Two variables are history: `asked` remembers when the deletion
of a file was first asked for, `missed` the files whose bytes exists() has failed
to see. `FileLifecycle` knows a file only as none, visible, deleted, left or gone,
and `FileRefinement!Phase` reads that off metadata and bytes: that removing bytes
and metadata, which are two operations, looks like one to readers, and that only a
missed file is left (without metadata, with bytes), is what the refinement shows.

**AdminRoles.** A token is its user, the role it claims and the second it was
signed. `FindFor...` copies the role from a document or from the refresh token,
`ReloadUser` copies it again where the code does, `Sign` freezes it. A write of
the administrator is `Admit...` (guards and checks, which look only at claims)
and then one operation on MongoDB; PATCH users/:id has no check on roles, and
none is modelled. `changed` and `late` are history: when an account changed
last, and whether a token's claims had been copied before that. Passwords and
revocations are left to `AuthTokens`: every refresh token is taken to be live
and every forced change to be due, which only lets more requests through.

## Runs

| Run | Shows | Bounds |
|---|---|---|
| `shares` | `OneActiveShare`, `ExhaustedIsInactive`, `CountNeverOverstates`, `ListedCanBeUsed`, and `ImplementsLifecycle` hold under all interleavings of two requests | 1 file, 1 recipient, 2 shares, 2 requests, offers with a limit of 2 and one-time with a device, clock to 2 |
| `shares_limit` | *violated* `DownloadLimitHolds`: two downloads pass the check together | 1 share with limit 1 |
| `auth_tokens` | `StaleOnlyIfInFlight`, `TemporaryMustChange`, `RotationConsumesFirst`, and `ImplementsLifecycle` for login, refresh and the four mass revocations | 1 user, 2 requests, seconds to 2 |
| `auth_sessions` | `LoggedOutStaysOut`, `LogoutRevokes`, `SessionsPerDevice` for certificate logins and logouts, with a Redis client that loses its connection and gives up | 2 sessions, 2 requests |
| `auth_force` | *violated* `ReturnedTokensAreStored`: forceChangePassword stores no refresh token | 1 user |
| `enrollment` | `OneValidCertificate`, `HeldIsBound`, `NeverOvercharged`, `RevocationIsFinal`, `ImplementsLineage`, and `VerifiedAtOnce` and `DecisionStands` of a login beside them, with failures anywhere | 1 device, 3 serials, 1 token for 1 device, 2 requests, 1 login, 1 expiry |
| `enrollment_budget` | *violated* `WithinBudget`: two enrollments verify a token before either consumes it | 2 devices |
| `lockout` | `NoFalseLock` for three overlapping requests; `PolicyHolds` while they do not overlap | 3 requests, maximum 3, 5 wrong passwords, 3 minutes |
| `lockout_lost` | *violated* `LockAfterMax`: parallel failures count once | maximum 2 |
| `file_store` | `VisibleIsOnDisk`, `ListedIsReadable` with rotations, outages, failures, crashes | 2 files, an employee and an administrator, the 2 levels that restrict readers, 2 requests, 2 random keys, retention 1, clock to 1 |
| `file_lifecycle` | `DeksRemainValid`, `OnlyMissedBytesStay`, `RetentionHolds`, `StartEnds`, `DeletedIsRemoved`, `ImplementsLifecycle` under fairness, without rotations; Vault may fail only while the process connects (what a failure does while requests are served, to copies of data keys nothing reads and to rotations, is in `file_store`) | 2 files, 1 user, 2 requests, 2 random keys, 2 attempts, retention 1, clock to 2 |
| `roles` | `ClaimsAreRecent`, `InactiveGetsNoTokens`, `OneAccountPerEmail`, `ServesSeeded`, `SeedLeavesAccountsAlone` with crashes | 3 accounts, 2 addresses, 2 requests, 2 roles to grant, access tokens of 1 second, seconds to 1 |

Why the bounds are enough. The hazards of this code are races of two writers of
one document (a third writer only repeats the second), so two requests in flight
suffice; the counter of `Lockout`, where a stale value can be written over a
reset, gets three. Every bound is reached in the runs: the share limit is met
and passed, two documents for one pair exist one after the other, a certificate
is renewed and its renewal renewed, a token expires while a key of Redis for it
is alive, a file is cleaned up while a deletion of it is in flight. `MaxServed`,
`MaxTime`, `MaxEras`, `MaxWrong`, `MaxLapsed` and `MaxAccess` are the only counters
cut off in guards; `FindForDelete` in `FileStore` also asks for the retention
period to end before `MaxTime`, and `Crash` for a random key to be left for the
next start. `CHECK_DEADLOCK` is off everywhere because the bounded clocks and
supplies of ids run out; the real system just idles. Symmetry is declared over
interchangeable model values only. `enrollment` and `enrollment_budget` are explored up to
views that leave out Vault's revocation list, which nothing reads. `enrollment`
has one device, because the login is a third actor: that devices do not disturb
each other is covered by the theorems about its properties, which hold for any
number of devices, logins and requests, and two devices on one token are in
`enrollment_budget`.

### Fairness

Only `FileStore` claims liveness, in `file_lifecycle`, under `Fairness`:

* `WF(StartProcess)`: a process that is down is started again (`restart:
  unless-stopped` in `docker-compose.yml`).
* `WF(Tick)`: time passes, up to the bound.
* `WF(Continue(r))`: the event loop resumes a request whose call to MongoDB or the
  disk has returned, and these calls return: `database.module.ts` sets timeouts.

What the code does not guarantee is no part of the specification but a hypothesis
of the property that needs it:

* `StartIsAnswered`, and `VaultAnswers` for requests too: a call to Vault is
  answered, be it with an error. The client of `vault.service.ts:75-82` is built
  without a timeout, so that a Vault which accepts a connection and never replies
  hangs the start, and the requests that wait for it. `StartEnds` therefore says
  that a start ends if its calls are answered, though every answer be a failure.
* `CleanupIsScheduled`: a cleanup is started again and again. Nothing under `src/`
  calls cleanupExpiredFiles; `file.processor.ts:32` says that it "should be scheduled
  to run periodically".
* `SomeCallsSucceed`: of the calls of delete() and deleteOne that cleanups make
  again and again some succeed. Nothing of the kind is assumed of exists().
* `<>[][~Crash]_vars`: the process stops crashing at some time; without that no
  cleanup need ever get to its end.

`DeletedIsRemoved` has the last three and `VaultAnswers` as hypotheses, and promises
that the metadata of a deleted file goes, and its bytes unless exists() has missed
them. Elsewhere nothing retries or resumes a flow that has stopped, so what
"eventually" holds is only that the client may ask again, and no liveness is claimed.

## Proofs

`tlapm` proves, for every value of the constants that satisfies the named
assumptions:

| Theorem | Statement |
|---|---|
| `SharesProofs!TypeCorrect` | `Spec => []TypeOK` |
| `SharesProofs!UniqueActive` | with the index, `[]OneActiveShare` |
| `SharesProofs!ExhaustedEnds` | `[]ExhaustedIsInactive` |
| `SharesProofs!FinalStatusIsFinal` | `NoResurrection` |
| `SharesProofs!CountsAreBacked` | `[]CountNeverOverstates` |
| `SharesProofs!ListingIsUsable` | with the index, `[]ListedCanBeUsed` |
| `SharesProofs!Refinement` | with the index, `ImplementsLifecycle` |
| `AuthTokensProofs!TypeCorrect` | `Spec => []TypeOK` |
| `AuthTokensProofs!StaleOnesWereInFlight` | `[]StaleOnlyIfInFlight` |
| `AuthTokensProofs!ConsumesFirst` | `[]RotationConsumesFirst` |
| `AuthTokensProofs!RevokedForGood` | `RevocationIsFinal` |
| `AuthTokensProofs!ResetsMustBeChanged` | `[]TemporaryMustChange` |
| `AuthTokensProofs!BannedStayOut` | `LoggedOutStaysOut` |
| `AuthTokensProofs!LogoutsRevoke` | without forceChangePassword, `LogoutRevokes` |
| `AuthTokensProofs!SessionsAreBounded` | `[]SessionsPerDevice` |
| `AuthTokensProofs!TokensLiveOnce` | `ImplementsLifecycle` |
| `AuthTokensProofs!GivenTokensAreStored` | without forceChangePassword, `[]ReturnedTokensAreStored` |
| `EnrollmentProofs!TypeCorrect` | `Spec => []TypeOK` |
| `EnrollmentProofs!UniqueCertificate` | `[]OneValidCertificate` |
| `EnrollmentProofs!RevokedForGood` | `RevocationIsFinal` |
| `EnrollmentProofs!HeldStaysBound` | `[]HeldIsBound` |
| `EnrollmentProofs!CertificatesFormALine` | `ImplementsLineage` |
| `EnrollmentTokenProofs!NoDeviceOvercharged` | `[]NeverOvercharged` |
| `CertificateLoginProofs!LoginsOnlyRead` | `LoginSpec => Spec` of `Enrollment` |
| `CertificateLoginProofs!LoginTypeCorrect` | `LoginSpec => []LoginTypeOK` |
| `CertificateLoginProofs!VerificationIsAtOnce` | `[]VerifiedAtOnce` |
| `CertificateLoginProofs!DecisionsStand` | `[]DecisionStands` |
| `CertificateLoginProofs!LineBesideLogins` | `LoginSpec => ImplementsLineage` |
| `LockoutProofs!TypeCorrect` | `Spec => []TypeOK` |
| `LockoutProofs!LockIsEarned` | `[]NoFalseLock` |
| `LockoutProofs!PolicyKept` | `[]PolicyHolds` |
| `FileStoreProofs!TypeCorrect` | `Spec => []TypeOK` |
| `FileStoreProofs!BytesAreThere` | `[]VisibleIsOnDisk` |
| `FileStoreProofs!CleanupLeavesMissedOnly` | `[]OnlyMissedBytesStay` |
| `FileStoreProofs!BytesAreKept` | `RetentionHolds` |
| `FileStoreProofs!KeysSurviveRestarts` | without rotations and without outages at a start, `[]DeksRemainValid` |
| `FileStoreProofs!Refinement` | `ImplementsLifecycle` |
| `FileStoreProofs!ShowsOnlyReadable` | `[]ListedIsReadable` |
| `FileStoreProofs!WhatIsListedIsServed` | without rotations and without outages at a start, what is listed can be downloaded |
| `FileStoreProofs!StartsAreShort` | `[]StartIsBounded` and `StartsCountDown`, the safe half of `StartEnds` |
| `FileStoreProofs!CleanupsAreShort` | `CleanupsCountDown`, the safe half of `DeletedIsRemoved` |
| `AdminRolesProofs!TypeCorrect` | `Spec => []TypeOK` |
| `AdminRolesProofs!RoleChangesTakeEffect` | `[]ClaimsAreRecent` |
| `AdminRolesProofs!UniqueEmail` | `[]OneAccountPerEmail` |
| `AdminRolesProofs!SeededBeforeServing` | `[]ServesSeeded` |
| `AdminRolesProofs!InactiveAreRefused` | `InactiveGetsNoTokens` |
| `AdminRolesProofs!SeedingIsHarmless` | `SeedLeavesAccountsAlone` |

*Shares.* Type correctness is inductive once each stage says what the request
has in hand: a request that creates has an input, a request that saves has the
id of a stored document (documents are never removed) and a copy that has the
stored document's offer and is ACTIVE whenever that still is. `OneActiveShare`
then needs only that the insert asks the index; the two checks before it
contribute nothing. `ExhaustedIsInactive` needs that counts and statuses are
written together and that a status once ended is not written back, which is
`NoResurrection`'s argument: every save writes EXPIRED or REVOKED, or leaves the
stored status alone. `CountNeverOverstates` counts ahead: every count, stored or
in a copy in hand, leaves room for the downloads that have been served and not
recorded (`CountsCovered`), so that writing a stale copy plus one is never too
much. `ListedCanBeUsed` puts two of these together: the listing asks for the status
alone, which stands for the limit because used-up shares are never ACTIVE, and
means one document because only one is. The refinement maps a pair to its unique active document; each step begins
one grant, ends one or stutters.

*AuthTokens.* What a request has read may be overtaken before it writes, so the
invariant (`Fits`) says what stays true of it: an era it copied is the account's,
or it has been marked a survivor, or the revocation is still owed; the flag it
will leave out is the account's unless the era has moved on; the token it has
consumed is `Spent`, that is revoked, or purged and too old to be signed again
(a token is signed with the current second, and stored only by the request that
signed it). For a logout it says that the time to live taken at the start still
covers the token when Redis gets the key, that the key's token is refused from
then on, and that the refresh token it was given is stored or spent. The last
needs every refresh token that a client holds to have been stored, which
forceChangePassword breaks (the run `auth_force`); hence the assumption of
`LogoutsRevoke`. `SessionsPerDevice` counts: a login that starts a session moves
from the one set to the other, and the only way into the first empties the second.
The refinement (`TokensLiveOnce`) needs two facts besides `Fits`: a document
stays until its token is worthless (`Lasting`: its expiry is computed when it is
stored, hence not before that of the token), and a token that is gone is spent, so
that no insert can bring it back. Each step that writes a document is one step of
`TokenLifecycle`; every other step is `Pass`, which is where the tokens go that are
signed and never stored: those of forceChangePassword and of a request that fails
or dies. `GivenTokensAreStored` follows a token to the client: only a request that
has stored it answers with it, and from then on `Lasting` keeps it.

*Enrollment.* `OneValidCertificate` is far from inductive. The invariant is the
*right to issue*: for a device it belongs to its one certificate without a
revocation record, whether revoked yet or not, or else to the one enrollment or
renewal that will store the next certificate - never to two of these. The unique
indexes on `fingerprint` and on `certificateSerial` are what hands this right out
once: the first to the enrollment that inserts the device, the second to the one
renewal or revocation that records the certificate. The conjuncts that say what
each stage has in hand support it. `HeldIsBound` adds what becomes of the right
once the certificate is stored (`HeldInv`): it stays with the one request that
still has to bind it, so that no other certificate of the device can be bound
between the insert and the binding.
`CertificatesFormALine` has to close the one gap that is left (`LineInv`): an
enrollment that has bound its certificate and not answered yet, while the
certificate may be revoked, so that its being valid protects nothing. What does is
that only a certificate in a client's hands is renewed: while the enrollment holds
it nobody else issues for the device (`HandBound`), and two requests that issue
are on two devices (`IssuedApart`).
`NeverOvercharged` counts: the uses of a token, together with the requests that
hold a certificate and have not charged it, are at most the devices certified on it (`ChargesCovered`); a count that a
request has in hand may be stale, but only towards too small a charge.

*CertificateLogin.* Logins write nothing of `Enrollment`, so its invariants hold
beside them. At the first read the certificate is valid. If its device is
trusted at that moment too, the login is justified; if not, the invariant
(`Followed`) says that it stays untrusted until an administrator reinstates it,
so that the last read lets through nothing else. The one other writer of
"approved", an enrollment, is excluded because the device of a stored
certificate is not being enrolled any more (`NoSecondEnrollment`): this is what
makes three reads worth one. `DecisionStands` needs that an approval is written
only by a request that has read "pending".

*Lockout.* `NoFalseLock` is not inductive because the lock is written from a
counter read earlier. What stays true is that every count, stored or in hand,
has as many wrong passwords behind it, and that a lock in hand has the maximum.
For `PolicyHolds` the invariant is that the one request in flight has read what
is still stored (`InFlight`).

*FileStore.* What would break the properties is in the hands of a request, so the
invariant (`Fits`) says what each may rely on: an upload is alone with its file,
whose deletion nobody has asked for; a deletion in hand is no older than the
first one asked for; what a cleanup has listed stays invisible and past its
period, also when it lists it a second time; and when it comes to the metadata of
a file, bytes that are still there have been missed by exists(). With that,
`RetentionHolds` looks at `Unlink` alone. In the refinement `DeleteMetadata` removes
a file or abandons its bytes, `Exists` marks it as missed, and `Unlink` moves
something only if a second cleanup has removed the metadata meanwhile: it then
removes what was left (`RemovablePhase`). `DeksRemainValid` follows from one key that all starts
agree on (`AgreedKek`): the one in Vault, or the derived one. A start whose first
key has not reached Vault may die, because no file exists before the key is there.
`ShowsOnlyReadable` compares the query of the listing with the access check; the
lemma `ListingMisses` says exactly by what they differ: a manager can open
department files that the listing does not show. Of the two liveness properties
the part that is a matter of single steps is proved: a rank that every step of a
start takes down and nothing else touches (`StartsAreShort`), and a batch that the
steps of a cleanup use up, three for a file (`CleanupsAreShort`). What fairness adds
to that is left to TLC.

*AdminRoles.* A token is signed from a copy of the account and handed out by a
later step. The invariant follows the claim all the way: a copy has the
account's role (and, unless it is forceChangePassword's, its flag) or is marked
late; a signed claim differs from the account only if it is late or no younger
than the last change. `ServesSeeded` rests on the unique index: the seeding's
insert is refused only if the account is there.

Model-checked only: `StartEnds` and `DeletedIsRemoved`, because TLAPS does not
reach liveness under fairness. Every other property of the passing runs is the
statement of a theorem. Proved and in no run of their own: `LoginTypeOK`, and
`NoResurrection` and `AuthTokens!RevocationIsFinal`, which the two
`ImplementsLifecycle` imply.
`ReturnedTokensAreStored` is proved where nobody is forced to change a password,
and violated by `auth_force` where somebody is.

## Divergences the modelling met

With a run: the download limit, the pair of forceChangePassword, the budget of
enrollment tokens, the lost count of failed logins
(`findings` in `PROJECT.json`). Without one, as they can be read off the actions
named:

* rotateKey re-encrypts no data key, so that files uploaded before it cannot be
  decrypted, where `key-management-provider.interface.ts:30` says "All existing
  DEKs remain valid" (`RotateKek`; `DeksRemainValid` is checked without
  rotations);
* getSharedWithMe lists overdue shares, where `share.service.ts:233` says "with lazy
  expiration applied" (`SharedWithMe`; hence `Overdue` in `ListedCanBeUsed`);
* PATCH users/:id writes a role without the check that PATCH users/:id/role makes,
  where `admin.service.ts:170` says "Only SUPER_ADMIN can change roles"
  (`AdmitUpdate`, `AdmitChangeRole`);
* forceChangePassword does not look at the account's flag (`ReloadUser`; hence
  the last disjunct of `InactiveGetsNoTokens`);
* a reset that read the account before a password change does not set
  mustChangePassword again (`Updated`, `temporary = "raced"`);
* a cleanup whose exists() fails with an error of the disk removes the metadata and
  leaves the bytes for ever, where `file.processor.ts:31` says "Permanently delete
  files" (`Exists`; hence `missed` in `OnlyMissedBytesStay`);
* nothing schedules cleanupExpiredFiles (`CleanupIsScheduled`, a hypothesis of
  `DeletedIsRemoved`);
* a start hangs on a Vault that accepts connections and does not answer, because
  the client has no timeout (`StartIsAnswered`, the hypothesis of `StartEnds`);
* a login or refresh in flight during changePassword leaves a live token behind
  (`StoreRefreshToken`; this is why `StaleOnlyIfInFlight` is not stronger);
* a refresh in the second its token was signed in signs the same string, is
  refused by the unique index and has already revoked the old one
  (`RevokeOld`, `StoreRefreshToken`);
* logout swallows every error of Redis as "token already expired": once the client
  has given up (`redis.module.ts:31`) the access token is not blacklisted, and it
  is accepted again after a restart if it has not expired (`Blacklist`; hence the
  condition on the client in `LogoutRevokes`);
* two certificate logins on one device leave two active sessions
  (`EndDeviceSessions`, `StartSession`; hence the bound of `SessionsPerDevice`);
* updateStatus takes a device out of `blocked`, and approveDevice can overwrite
  a block set after it has read "pending" (`SaveStatus`, `ApproveDevice`; hence
  the condition on approvals in flight in `BarredAfter`);
* an enrollment that fails after the approval leaves a device that is approved,
  has no certificate and cannot be enrolled again (`ApproveDevice`, `Abort`,
  `LookUpFingerprint`);
* a revocation Vault refused is recorded as done (`RevokeInVault`);
* a certificate generated by hand is signed and then always lost, because
  `'system'` is no ObjectId (`SignCsr`);
* an expired lock being cleared can lift a newer one (`ResetLock`);
* an error of Vault at start makes the process wrap new keys with a key derived
  from the JWT secret (`Fallback`);
* in production `autoIndex` is off and nothing else builds the indexes the
  services rely on: `Indexed` in `Shares`, assumed by the other modules.

## Assumptions

* The indexes on addresses, refresh tokens, fingerprints and revocations exist, as the
  schemas declare them. `Shares` takes its index as the constant `Indexed`.
* One process. Several would interleave as the requests do, but start-up in
  `FileStore` and `AdminRoles` is for one.
* Redis loses keys only when their time is up. Vault and MongoDB keep what they
  have acknowledged; a write may take effect and its answer be lost where the
  code acts on the failure (`WriteKek`, `SaveKek`).
* Cryptography works: signatures cannot be made without the key, and unwrapping
  with another KEK fails.
* The clocks of the model tick whenever they like; requests may take arbitrarily
  long. One exception: a token outlives the request that signed it
  (`PurgeExpired`).
* Refresh tokens live for at least a second, and the requests in flight and the
  sessions are finitely many.
* Devices, serial numbers, tokens and shares may be infinitely many in the proofs;
  only the requests in flight are finite (`EnrollmentAssumption`,
  `SharesAssumption`).
* The user behind an enrollment token is constant.

## Not modelled

Audit, health, formatting, provisioning scripts; the reading of configuration
(seeding is modelled as configured); paging, sorting and search; ciphers, CSR and
PEM parsing; Vault's mock mode and transit engine; the permission table, which
nothing consults at run time; names and departments of users, and a body of
PATCH users/:id with both a role and a flag; the listing of what one has shared,
and the re-reading of what a search by name has found; session and key-management
operations without callers (endSession, endDeviceSessions, updateActivity,
getKey, storeKey, deleteKey).

## Plan

Done, in this order: `Shares` with its refinement and proofs, `AuthTokens` with proofs,
`Enrollment` with proofs, `Lockout` with proofs, `FileStore` with its refinement,
its liveness and proofs, `AdminRoles` with proofs, `CertificateLogin` over
`Enrollment` with proofs, `CertificateLineage` and `TokenLifecycle` with their
refinements and proofs.

Next:

1. An abstract directory of accounts that `AdminRoles` implements: who is seeded,
   created, granted a role and deactivated, without requests and tokens.
2. Runs without the indexes of `AuthTokens`, `Enrollment` and `AdminRoles`.
