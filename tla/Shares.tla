------------------------------- MODULE Shares -------------------------------
(***************************************************************************)
(* File shares: ShareService (create, revoke, list) and                    *)
(* FileAccessValidationService (validate, count downloads, expire).        *)
(*                                                                         *)
(* Every request runs alone between two awaits and interleaves with the    *)
(* others at each await, so each action below is one database operation    *)
(* with the synchronous code that follows it.  A request that throws       *)
(* before it has written anything is back at "idle".  Mongoose's save()    *)
(* writes the modified paths of the document in hand, whatever the stored  *)
(* document has become since it was read.                                  *)
(***************************************************************************)
EXTENDS Naturals, FiniteSets

CONSTANTS
    Users, Files,     \* accounts and file records
    Owner,            \* Owner[f] : the user who uploaded f
    ShareIds,         \* _ids available to share documents
    Reqs,             \* requests that can be in flight at once
    Offers,           \* the controls a share request may ask for
    Expiries,         \* the expiry dates a share request may ask for
    Attempts,         \* the actions validateAccess is asked about
    Certificates,     \* device certificate ids
    NoDevice,         \* "no certificate": null / undefined
    Indexed,          \* the partial unique index has been built
    NoShare,          \* "no document"
    MaxTime,          \* bound: the last instant
    MaxServed         \* bound: downloads served per share

SharePermission == {"VIEW", "DOWNLOAD", "EDIT", "FULL_ACCESS"}
ShareAction == {"VIEW", "DOWNLOAD", "EDIT", "DELETE", "SHARE"}
ShareStatus == {"ACTIVE", "EXPIRED", "REVOKED"}

NoLimit == 0          \* maxDownloads = null; a given limit is at least 1

Offer == [permission: SharePermission, max: Nat, oneTime: BOOLEAN,
          device: Certificates \union {NoDevice}]

ShareDoc == [file: Files, target: Users, expiresAt: Nat,
             status: ShareStatus, count: Nat, offer: Offer]

Input == [file: Files, target: Users, offer: Offer, expiresAt: Nat]

Probe == [action: ShareAction, device: Certificates \union {NoDevice}]

Stages == {"idle", "target", "duplicate", "create", "revoke", "check",
           "expire", "granted", "served", "record", "validity"}

ASSUME SharesAssumption ==
    /\ IsFiniteSet(Reqs)
    /\ Owner \in [Files -> Users]
    /\ Offers \subseteq Offer
    /\ Expiries \subseteq Nat
    /\ Attempts \subseteq ShareAction
    /\ Indexed \in BOOLEAN
    /\ MaxTime \in Nat /\ MaxServed \in Nat
    /\ NoShare \notin ShareDoc /\ NoShare \notin ShareIds

VARIABLES
    now,        \* the clock behind new Date()
    active,     \* users with isActive and no deletedAt
    deleted,    \* files with isDeleted
    share,      \* the file_access collection
    served,     \* history: downloads that succeeded under each share
    pc,         \* where each request is suspended
    input,      \* shareFile's dto, for a request that creates
    probe,      \* validateAccess's arguments, for a request that validates
    held,       \* the _id of the document a request has in hand
    snap        \* that document, as it was when it was read

docs == <<share, served>>
locals == <<input, probe, held, snap>>
vars == <<now, active, deleted, docs, pc, locals>>

TypeOK ==
    /\ now \in Nat
    /\ active \subseteq Users
    /\ deleted \subseteq Files
    /\ share \in [ShareIds -> ShareDoc \union {NoShare}]
    /\ served \in [ShareIds -> Nat]
    /\ pc \in [Reqs -> Stages]
    /\ input \in [Reqs -> Input \union {NoShare}]
    /\ probe \in [Reqs -> Probe \union {NoShare}]
    /\ held \in [Reqs -> ShareIds \union {NoShare}]
    /\ snap \in [Reqs -> ShareDoc \union {NoShare}]

-----------------------------------------------------------------------------
(* Reading the collection. *)

Stored == {s \in ShareIds : share[s] # NoShare}

\* findOne({fileId, sharedWithUserId, status: ACTIVE})
ActiveShares(f, u) ==
    {s \in Stored : /\ share[s].file = f
                    /\ share[s].target = u
                    /\ share[s].status = "ACTIVE"}

Overdue(d) == now > d.expiresAt

\* Mutant: the listing's filter leaves out only what its owner has revoked.
ListedUnlessRevoked(u) ==
    {s \in Stored : share[s].target = u /\ share[s].status # "REVOKED"}

\* getSharedWithMe: filtered by status, and by nothing else that a share is
\* judged by.
SharedWithMe(u) ==
    {s \in Stored : share[s].target = u /\ share[s].status = "ACTIVE"}

\* SHARE_PERMISSION_HIERARCHY and ACTION_REQUIRED_PERMISSION
Weight == [p \in SharePermission |->
            CASE p = "VIEW" -> 10 [] p = "DOWNLOAD" -> 20
              [] p = "EDIT" -> 30 [] p = "FULL_ACCESS" -> 100]

RequiredPermission ==
    [a \in ShareAction |-> IF a \in {"DELETE", "SHARE"} THEN "FULL_ACCESS" ELSE a]

HasPermissionForAction(permission, action) ==
    Weight[permission] >= Weight[RequiredPermission[action]]

LimitReached(d) == d.offer.max # NoLimit /\ d.count >= d.offer.max

\* What validateAccess asks of an unexpired document before it returns it.
Permits(d, p) ==
    /\ HasPermissionForAction(d.offer.permission, p.action)
    /\ ~(p.action = "DOWNLOAD" /\ LimitReached(d))
    /\ d.offer.device \in {NoDevice, p.device}

-----------------------------------------------------------------------------
(* Requests: suspend at a stage with something in hand, or finish. *)

Idle(r) == pc[r] = "idle"

Goto(r, stage) == pc' = [pc EXCEPT ![r] = stage]

Finish(r) ==
    /\ Goto(r, "idle")
    /\ input' = [input EXCEPT ![r] = NoShare]
    /\ probe' = [probe EXCEPT ![r] = NoShare]
    /\ held' = [held EXCEPT ![r] = NoShare]
    /\ snap' = [snap EXCEPT ![r] = NoShare]

Hold(r, s) ==
    /\ held' = [held EXCEPT ![r] = s]
    /\ snap' = [snap EXCEPT ![r] = share[s]]

Init ==
    /\ now = 0
    /\ active = Users
    /\ deleted = {}
    /\ share = [s \in ShareIds |-> NoShare]
    /\ served = [s \in ShareIds |-> 0]
    /\ pc = [r \in Reqs |-> "idle"]
    /\ input = [r \in Reqs |-> NoShare]
    /\ probe = [r \in Reqs |-> NoShare]
    /\ held = [r \in Reqs |-> NoShare]
    /\ snap = [r \in Reqs |-> NoShare]

(* shareFile: resolve the file, then the target, then look for a duplicate, *)
(* then insert.                                                            *)
ResolveFile(r, caller, in) ==
    /\ Idle(r)
    /\ in.file \notin deleted
    /\ Owner[in.file] = caller
    /\ in.target # caller
    /\ Goto(r, "target")
    /\ input' = [input EXCEPT ![r] = in]
    /\ UNCHANGED <<now, active, deleted, docs, probe, held, snap>>

ResolveTarget(r) ==
    /\ pc[r] = "target"
    /\ \/ /\ input[r].target \in active
          /\ input[r].expiresAt > now
          /\ Goto(r, "duplicate")
          /\ UNCHANGED locals
       \/ /\ input[r].target \notin active \/ input[r].expiresAt <= now
          /\ Finish(r)
    /\ UNCHANGED <<now, active, deleted, docs>>

FindDuplicate(r) ==
    /\ pc[r] = "duplicate"
    /\ \/ /\ ActiveShares(input[r].file, input[r].target) = {}
          /\ Goto(r, "create")
          /\ UNCHANGED locals
       \/ /\ ActiveShares(input[r].file, input[r].target) # {}
          /\ Finish(r)
    /\ UNCHANGED <<now, active, deleted, docs>>

\* Mutant: the index is created without its unique option.
IndexNotUnique(in) == FALSE

\* The insert fails with E11000 when the index holds the key already.
IndexRefuses(in) == Indexed /\ ActiveShares(in.file, in.target) # {}

NewShare(in) ==
    [file |-> in.file, target |-> in.target, expiresAt |-> in.expiresAt,
     status |-> "ACTIVE", count |-> 0, offer |-> in.offer]

CreateShare(r) ==
    /\ pc[r] = "create"
    /\ \/ /\ ~IndexRefuses(input[r])
          /\ \E s \in ShareIds \ Stored :
                share' = [share EXCEPT ![s] = NewShare(input[r])]
       \/ IndexRefuses(input[r]) /\ UNCHANGED share
    /\ Finish(r)
    /\ UNCHANGED <<now, active, deleted, served>>

(* revokeShare: read and check, then save. *)
FindForRevoke(r, s, caller) ==
    /\ Idle(r)
    /\ s \in Stored
    /\ Owner[share[s].file] = caller
    /\ share[s].status # "REVOKED"
    /\ Goto(r, "revoke")
    /\ Hold(r, s)
    /\ UNCHANGED <<now, active, deleted, docs, input, probe>>

SaveRevoked(r) ==
    /\ pc[r] = "revoke"
    /\ share' = [share EXCEPT ![held[r]].status = "REVOKED"]
    /\ Finish(r)
    /\ UNCHANGED <<now, active, deleted, served>>

(* validateAccess: find the active share, judge the copy in hand. *)
FindActive(r, f, u, p) ==
    /\ Idle(r)
    /\ \E s \in ActiveShares(f, u) : Hold(r, s)
    /\ probe' = [probe EXCEPT ![r] = p]
    /\ Goto(r, "check")
    /\ UNCHANGED <<now, active, deleted, docs, input>>

JudgeAccess(r) ==
    /\ pc[r] = "check"
    /\ \/ Overdue(snap[r]) /\ Goto(r, "expire") /\ UNCHANGED locals
       \/ /\ ~Overdue(snap[r]) /\ Permits(snap[r], probe[r])
          /\ Goto(r, "granted") /\ UNCHANGED locals
       \/ /\ ~Overdue(snap[r]) /\ ~Permits(snap[r], probe[r])
          /\ Finish(r)
    /\ UNCHANGED <<now, active, deleted, docs>>

\* The lazy expiration of validateAccess and of isShareValid.
SaveExpired(r) ==
    /\ pc[r] = "expire"
    /\ share' = [share EXCEPT ![held[r]].status = "EXPIRED"]
    /\ Finish(r)
    /\ UNCHANGED <<now, active, deleted, served>>

(* What the caller does with a grant.  A download that succeeds is followed *)
(* by recordDownload; one that fails, and any other action, is not.         *)
Download(r) ==
    /\ pc[r] = "granted"
    /\ probe[r].action = "DOWNLOAD"
    /\ served[held[r]] < MaxServed
    /\ served' = [served EXCEPT ![held[r]] = @ + 1]
    /\ Goto(r, "served")
    /\ UNCHANGED <<now, active, deleted, share, locals>>

\* Mutant: a download that failed is recorded like one that succeeded.
FailedDownloadCounts(r) ==
    /\ pc[r] = "granted"
    /\ Goto(r, "served")
    /\ UNCHANGED <<now, active, deleted, docs, locals>>

GrantWithoutDownload(r) ==
    /\ pc[r] = "granted"
    /\ Finish(r)
    /\ UNCHANGED <<now, active, deleted, docs>>

(* recordDownload: read the document again, then save count and status. *)
FindForRecord(r) ==
    /\ pc[r] = "served"
    /\ Hold(r, held[r])
    /\ Goto(r, "record")
    /\ UNCHANGED <<now, active, deleted, docs, input, probe>>

(* recordDownload's assignments to the document in hand. *)
Counted(d) == [d EXCEPT !.count = @ + 1]

\* Mutant: the limit is tested before the download is counted.
LimitBeforeCount(d) ==
    IF LimitReached(d) THEN "EXPIRED"
    ELSE IF d.offer.oneTime THEN "REVOKED" ELSE d.status

RecordedStatus(d) ==
    IF LimitReached(Counted(d)) THEN "EXPIRED"
    ELSE IF d.offer.oneTime THEN "REVOKED" ELSE d.status

\* Two different assignments to status modify it wherever it started.
StatusModified(d) ==
    \/ RecordedStatus(d) # d.status
    \/ d.offer.oneTime /\ LimitReached(Counted(d))

\* Mutant: the status is written even when it was not modified.
SaveWhole(stored, d) ==
    [stored EXCEPT !.count = Counted(d).count, !.status = RecordedStatus(d)]

\* save(): the stored document takes the paths that were modified.
SaveModified(stored, d) ==
    [stored EXCEPT
        !.count = Counted(d).count,
        !.status = IF StatusModified(d) THEN RecordedStatus(d) ELSE @]

SaveRecorded(r) ==
    /\ pc[r] = "record"
    /\ share' = [share EXCEPT
                    ![held[r]] = SaveModified(@, snap[r])]
    /\ Finish(r)
    /\ UNCHANGED <<now, active, deleted, served>>

(* isShareValid: read by _id, expire the document in hand if it is overdue. *)
FindForValidity(r, s) ==
    /\ Idle(r)
    /\ s \in Stored
    /\ share[s].status = "ACTIVE"
    /\ Hold(r, s)
    /\ Goto(r, "validity")
    /\ UNCHANGED <<now, active, deleted, docs, input, probe>>

JudgeValidity(r) ==
    /\ pc[r] = "validity"
    /\ \/ Overdue(snap[r]) /\ Goto(r, "expire") /\ UNCHANGED locals
       \/ ~Overdue(snap[r]) /\ Finish(r)
    /\ UNCHANGED <<now, active, deleted, docs>>

\* Mutant: a status the schema does not know, which updateMany would accept.
ExpireToUnknown(s) ==
    /\ s \in Stored
    /\ share[s].status = "ACTIVE"
    /\ share[s].expiresAt < now
    /\ share' = [share EXCEPT ![s].status = "OVERDUE"]
    /\ UNCHANGED <<now, active, deleted, served, pc, locals>>

(* expireOverdueShares: updateMany writes the matching documents one by one. *)
ExpireOverdueShare(s) ==
    /\ s \in Stored
    /\ share[s].status = "ACTIVE"
    /\ share[s].expiresAt < now
    /\ share' = [share EXCEPT ![s].status = "EXPIRED"]
    /\ UNCHANGED <<now, active, deleted, served, pc, locals>>

(* The rest of the system, as far as a share can tell: a file is deleted, a *)
(* recipient's account is deactivated, time passes.                        *)
SoftDelete(f) ==
    /\ f \notin deleted
    /\ deleted' = deleted \union {f}
    /\ UNCHANGED <<now, active, docs, pc, locals>>

Deactivate(u) ==
    /\ u \in active
    /\ active' = active \ {u}
    /\ UNCHANGED <<now, deleted, docs, pc, locals>>

Tick ==
    /\ now < MaxTime
    /\ now' = now + 1
    /\ UNCHANGED <<active, deleted, docs, pc, locals>>

\* The process dies and every request in flight dies with it.
Restart ==
    /\ \E r \in Reqs : ~Idle(r)
    /\ pc' = [r \in Reqs |-> "idle"]
    /\ input' = [r \in Reqs |-> NoShare]
    /\ probe' = [r \in Reqs |-> NoShare]
    /\ held' = [r \in Reqs |-> NoShare]
    /\ snap' = [r \in Reqs |-> NoShare]
    /\ UNCHANGED <<now, active, deleted, docs>>

-----------------------------------------------------------------------------
Recipients == Users \ {Owner[f] : f \in Files}

RequestedShares ==
    [file: Files, target: Users, offer: Offers, expiresAt: Expiries]

Probes == [action: Attempts, device: Certificates \union {NoDevice}]

ShareFile(r) ==
    \/ \E caller \in Users, in \in RequestedShares : ResolveFile(r, caller, in)
    \/ ResolveTarget(r)
    \/ FindDuplicate(r)
    \/ CreateShare(r)

RevokeShare(r) ==
    \/ \E s \in ShareIds, caller \in Users : FindForRevoke(r, s, caller)
    \/ SaveRevoked(r)

ValidateAccess(r) ==
    \/ \E f \in Files, u \in Users, p \in Probes : FindActive(r, f, u, p)
    \/ JudgeAccess(r)
    \/ SaveExpired(r)

RecordDownload(r) ==
    \/ Download(r)
    \/ GrantWithoutDownload(r)
    \/ FindForRecord(r)
    \/ SaveRecorded(r)

IsShareValid(r) ==
    \/ \E s \in ShareIds : FindForValidity(r, s)
    \/ JudgeValidity(r)

Next ==
    \/ \E r \in Reqs : \/ ShareFile(r)
                       \/ RevokeShare(r)
                       \/ ValidateAccess(r)
                       \/ RecordDownload(r)
                       \/ IsShareValid(r)
    \/ \E s \in ShareIds : ExpireOverdueShare(s)
    \/ \E f \in Files : SoftDelete(f)
    \/ \E u \in Recipients : Deactivate(u)
    \/ Tick
    \/ Restart

Spec == Init /\ [][Next]_vars

-----------------------------------------------------------------------------
(* Properties. *)

\* A file is shared with a user through at most one ACTIVE document, however
\* many shareFile requests pass the duplicate check together: the unique
\* index has the last word.
OneActiveShare ==
    \A s, t \in Stored :
        /\ share[s].status = "ACTIVE" /\ share[t].status = "ACTIVE"
        /\ share[s].file = share[t].file /\ share[s].target = share[t].target
        => s = t

Exhausted(d) == LimitReached(d) \/ (d.offer.oneTime /\ d.count > 0)

\* A document whose stored counter has met its limit, or that is one-time and
\* has a recorded download, is not ACTIVE: recordDownload's two writes are one
\* save, and no stale save undoes either half of it alone.
ExhaustedIsInactive ==
    \A s \in Stored : Exhausted(share[s]) => share[s].status # "ACTIVE"

\* The stored counter never runs ahead of the downloads that succeeded, so no
\* recipient loses a download to a failed one, a restart or a lost update.
CountNeverOverstates == \A s \in Stored : share[s].count <= served[s]

\* EXPIRED and REVOKED are final for the recipient: no save made from a copy
\* that was read while the share was ACTIVE brings the share back, and no
\* document disappears.
NoResurrection ==
    [][\A s \in Stored :
          /\ share'[s] # NoShare
          /\ share[s].status # "ACTIVE" => share'[s].status # "ACTIVE"]_vars

\* What a recipient is shown is what validateAccess will find for him, and it
\* refuses no action that the share's permission and device allow, unless the
\* share is overdue: the listing expires nothing.  It does not ask about limits
\* either, which is right only as long as used-up shares are never ACTIVE.
ListedCanBeUsed ==
    \A u \in Users : \A s \in SharedWithMe(u) :
        /\ ActiveShares(share[s].file, u) = {s}
        /\ \/ Overdue(share[s])
           \/ \A p \in Probe :
                  /\ HasPermissionForAction(share[s].offer.permission, p.action)
                  /\ share[s].offer.device \in {NoDevice, p.device}
                  => Permits(share[s], p)

\* "Maximum number of downloads allowed": what the dto promises the owner.
DownloadLimitHolds ==
    \A s \in Stored :
        share[s].offer.max # NoLimit => served[s] <= share[s].offer.max
=============================================================================
