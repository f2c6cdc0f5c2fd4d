---------------------------- MODULE SharesProofs ----------------------------
(***************************************************************************)
(* Theorems about Shares.  The inductive invariant relates what a request  *)
(* holds to what is stored: the copy in hand has the stored document's     *)
(* offer, and it is ACTIVE whenever the stored document still is.  Saves   *)
(* made from stale copies are harmless exactly because of that.            *)
(***************************************************************************)
EXTENDS SharesRefinement, FiniteSetTheorems, TLAPS

Creating == {"target", "duplicate", "create"}
Holding == {"revoke", "check", "expire", "granted", "served", "record",
            "validity"}

InputInHand == \A r \in Reqs : pc[r] \in Creating => input[r] \in Input

\* A copy of a document that a request can hold while d is stored.
CopyOf(c, d) ==
    /\ c \in ShareDoc
    /\ d \in ShareDoc
    /\ c.offer = d.offer
    /\ c.status # "ACTIVE" => d.status # "ACTIVE"

DocInHand ==
    \A r \in Reqs : pc[r] \in Holding =>
        /\ held[r] \in ShareIds
        /\ CopyOf(snap[r], share[held[r]])

IInv == TypeOK /\ InputInHand /\ DocInHand

-----------------------------------------------------------------------------
(* What the saves do to a document. *)

\* Each step's effect on the collection: a document is inserted under an
\* unused id, or one stored document is replaced by a version that keeps its
\* key and offer and is not ACTIVE unless it was.
Inserts(s, in) ==
    /\ s \in ShareIds /\ share[s] = NoShare
    /\ ~IndexRefuses(in)
    /\ share' = [share EXCEPT ![s] = NewShare(in)]

Supersedes(d, old) ==
    /\ d \in ShareDoc /\ old \in ShareDoc
    /\ d.file = old.file /\ d.target = old.target /\ d.offer = old.offer
    /\ old.status # "ACTIVE" => d.status # "ACTIVE"
    /\ Exhausted(d) => d.status # "ACTIVE"

Updates(s, d) ==
    /\ s \in ShareIds
    /\ Supersedes(d, share[s])
    /\ share' = [share EXCEPT ![s] = d]

\* Setting the status to a final one keeps the document's type and identity.
LEMMA FinalStatus ==
    ASSUME NEW d \in ShareDoc, NEW status \in {"EXPIRED", "REVOKED"}
    PROVE  Supersedes([d EXCEPT !.status = status], d)
  BY DEF ShareDoc, ShareStatus, Supersedes

\* recordDownload's save never revives the stored document, even when the
\* copy it started from was read before the document ended.
LEMMA RecordedSupersedes ==
    ASSUME NEW c, NEW d, CopyOf(c, d)
    PROVE  Supersedes(SaveModified(d, c), d)
  <1>1. \/ RecordedStatus(c) = c.status
        \/ RecordedStatus(c) \in {"EXPIRED", "REVOKED"}
    BY DEF RecordedStatus
  <1>2. Counted(c).count \in Nat
    BY DEF Counted, CopyOf, ShareDoc
  <1>3. StatusModified(c) /\ RecordedStatus(c) = c.status
            => RecordedStatus(c) \in {"EXPIRED", "REVOKED"}
    BY DEF StatusModified, RecordedStatus
  <1>4. /\ SaveModified(d, c).count = Counted(c).count
        /\ SaveModified(d, c).offer = Counted(c).offer
        /\ SaveModified(d, c).status =
              IF StatusModified(c) THEN RecordedStatus(c) ELSE d.status
    BY DEF SaveModified, Counted, CopyOf, ShareDoc
  <1>5. LimitReached(SaveModified(d, c)) => LimitReached(Counted(c))
    BY <1>4 DEF LimitReached
  <1>6. Exhausted(SaveModified(d, c)) =>
            RecordedStatus(c) \in {"EXPIRED", "REVOKED"}
    BY <1>4, <1>5 DEF Exhausted, RecordedStatus, Counted, CopyOf, ShareDoc
  <1>7. RecordedStatus(c) \in {"EXPIRED", "REVOKED"} =>
            SaveModified(d, c).status # "ACTIVE"
    BY <1>4 DEF StatusModified, CopyOf
  <1>8. QED
    BY <1>1, <1>2, <1>3, <1>6, <1>7
    DEF SaveModified, Supersedes, CopyOf, ShareDoc, ShareStatus

-----------------------------------------------------------------------------
(* Every action, seen from the collection. *)

\* What a step can do to the collection of documents.
LEMMA StoreStep ==
    ASSUME IInv, [Next]_vars
    PROVE  \/ \E s \in ShareIds, in \in Input : Inserts(s, in)
           \/ \E s \in ShareIds, d \in ShareDoc : Updates(s, d)
           \/ UNCHANGED share
  <1>1. ASSUME NEW r \in Reqs, CreateShare(r)
        PROVE  \/ \E s \in ShareIds, in \in Input : Inserts(s, in)
               \/ UNCHANGED share
    <2>1. input[r] \in Input
      BY <1>1 DEF IInv, InputInHand, CreateShare, Creating
    <2>2. QED
      BY <1>1, <2>1 DEF CreateShare, Inserts, Stored
  <1>2. ASSUME NEW r \in Reqs, NEW status \in {"EXPIRED", "REVOKED"},
               pc[r] \in Holding,
               share' = [share EXCEPT ![held[r]].status = status]
        PROVE  \E s \in ShareIds, d \in ShareDoc : Updates(s, d)
    <2>1. held[r] \in ShareIds /\ share[held[r]] \in ShareDoc
      BY <1>2 DEF IInv, DocInHand, CopyOf
    <2>2. Updates(held[r], [share[held[r]] EXCEPT !.status = status])
      BY <1>2, <2>1, FinalStatus DEF Updates
    <2>3. QED
      BY <2>1, <2>2 DEF Updates, Supersedes
  <1>3. ASSUME NEW r \in Reqs, SaveRecorded(r)
        PROVE  \E s \in ShareIds, d \in ShareDoc : Updates(s, d)
    <2>1. held[r] \in ShareIds /\ CopyOf(snap[r], share[held[r]])
      BY <1>3 DEF IInv, DocInHand, SaveRecorded, Holding
    <2>2. Updates(held[r], SaveModified(share[held[r]], snap[r]))
      BY <1>3, <2>1, RecordedSupersedes DEF Updates, SaveRecorded
    <2>3. QED
      BY <2>1, <2>2 DEF Updates, Supersedes
  <1>4. ASSUME NEW s \in ShareIds, ExpireOverdueShare(s)
        PROVE  \E t \in ShareIds, d \in ShareDoc : Updates(t, d)
    <2>1. share[s] \in ShareDoc
      BY <1>4 DEF IInv, TypeOK, ExpireOverdueShare, Stored
    <2>2. Updates(s, [share[s] EXCEPT !.status = "EXPIRED"])
      BY <1>4, <2>1, FinalStatus DEF Updates, ExpireOverdueShare
    <2>3. QED
      BY <2>2 DEF Updates, Supersedes
  <1>5. ASSUME NEW r \in Reqs, SaveRevoked(r) \/ SaveExpired(r)
        PROVE  \E s \in ShareIds, d \in ShareDoc : Updates(s, d)
    BY <1>2, <1>5 DEF SaveRevoked, SaveExpired, Holding
  <1>6. ASSUME NEW r \in Reqs,
               \/ \E caller \in Users, in \in RequestedShares :
                     ResolveFile(r, caller, in)
               \/ ResolveTarget(r)
               \/ FindDuplicate(r)
               \/ \E s \in ShareIds, caller \in Users :
                     FindForRevoke(r, s, caller)
               \/ \E f \in Files, u \in Users, p \in Probes :
                     FindActive(r, f, u, p)
               \/ JudgeAccess(r)
               \/ Download(r)
               \/ GrantWithoutDownload(r)
               \/ FindForRecord(r)
               \/ IsShareValid(r)
        PROVE  UNCHANGED share
    BY <1>6 DEF ResolveFile, ResolveTarget, FindDuplicate, FindForRevoke,
        FindActive, JudgeAccess, Download, GrantWithoutDownload,
        FindForRecord, IsShareValid, FindForValidity, JudgeValidity, docs
  <1>7. ASSUME \/ \E f \in Files : SoftDelete(f)
               \/ \E u \in Recipients : Deactivate(u)
               \/ Tick
               \/ Restart
               \/ UNCHANGED vars
        PROVE  UNCHANGED share
    BY <1>7 DEF SoftDelete, Deactivate, Tick, Restart, vars, docs
  <1>8. QED
    BY <1>1, <1>3, <1>4, <1>5, <1>6, <1>7
    DEF Next, ShareFile, RevokeShare, ValidateAccess, RecordDownload,
        IsShareValid

\* A copy in hand stays a copy of what is stored, whoever writes.
LEMMA CopySurvives ==
    ASSUME IInv, [Next]_vars, NEW h \in ShareIds, NEW c, CopyOf(c, share[h])
    PROVE  CopyOf(c, share'[h])
  <1>1. share \in [ShareIds -> ShareDoc \union {NoShare}]
    BY DEF IInv, TypeOK
  <1>2. ASSUME NEW s \in ShareIds, NEW in \in Input, Inserts(s, in)
        PROVE  CopyOf(c, share'[h])
    BY <1>1, <1>2, SharesAssumption DEF Inserts, CopyOf
  <1>3. ASSUME NEW s \in ShareIds, NEW d \in ShareDoc, Updates(s, d)
        PROVE  CopyOf(c, share'[h])
    BY <1>1, <1>3 DEF Updates, Supersedes, CopyOf
  <1>4. QED
    BY <1>2, <1>3, StoreStep

\* What a step can do to one request: finish it, let it create, leave it with
\* what it held, or hand it a fresh copy.
RequestStep(r) ==
    \/ pc'[r] \notin Creating \union Holding
    \/ pc'[r] \in Creating /\ input'[r] \in Input
    \/ /\ pc[r] \in Holding /\ pc'[r] \in Holding
       /\ held'[r] = held[r] /\ snap'[r] = snap[r]
    \/ /\ pc'[r] \in Holding
       /\ held'[r] \in ShareIds
       /\ share[held'[r]] \in ShareDoc
       /\ snap'[r] = share[held'[r]]
       /\ UNCHANGED share

LocalTypes ==
    /\ pc \in [Reqs -> Stages]
    /\ input \in [Reqs -> Input \union {NoShare}]
    /\ probe \in [Reqs -> Probe \union {NoShare}]
    /\ held \in [Reqs -> ShareIds \union {NoShare}]
    /\ snap \in [Reqs -> ShareDoc \union {NoShare}]

LEMMA Untouched ==
    ASSUME IInv, NEW r \in Reqs,
           UNCHANGED <<pc[r], input[r], held[r], snap[r]>>
    PROVE  RequestStep(r)
  BY DEF RequestStep, IInv, InputInHand

\* A step that touches the locals of r alone, and leaves r in order.
StepOf(r) ==
    /\ LocalTypes'
    /\ RequestStep(r)
    /\ \A q \in Reqs \ {r} : UNCHANGED <<pc[q], input[q], held[q], snap[q]>>

LEMMA FinishStep ==
    ASSUME IInv, NEW r \in Reqs, Finish(r)
    PROVE  StepOf(r)
  BY DEF IInv, TypeOK, LocalTypes, Stages, Finish, Goto, StepOf, RequestStep,
     Creating, Holding

LEMMA AdvanceStep ==
    ASSUME IInv, NEW r \in Reqs, NEW stage \in Stages,
           Goto(r, stage), UNCHANGED locals,
           \/ pc[r] \in Creating /\ stage \in Creating
           \/ pc[r] \in Holding /\ stage \in Holding
    PROVE  StepOf(r)
  BY DEF IInv, TypeOK, LocalTypes, InputInHand, Goto, locals, StepOf,
     RequestStep

LEMMA HoldStep ==
    ASSUME IInv, NEW r \in Reqs, NEW stage \in Holding,
           Goto(r, stage), NEW s \in ShareIds, share[s] \in ShareDoc,
           Hold(r, s), UNCHANGED <<share, input>>,
           probe' \in [Reqs -> Probe \union {NoShare}]
    PROVE  StepOf(r)
  BY DEF IInv, TypeOK, LocalTypes, Goto, Hold, StepOf, RequestStep, Holding,
     Stages

LEMMA RequestTypes ==
    ASSUME IInv, [Next]_vars
    PROVE  LocalTypes' /\ \A r \in Reqs : RequestStep(r)
  <1>1. ASSUME NEW r \in Reqs, StepOf(r)
        PROVE  LocalTypes' /\ \A q \in Reqs : RequestStep(q)
    BY <1>1, Untouched DEF StepOf
  <1>2. ASSUME NEW r \in Reqs, ShareFile(r)
        PROVE  StepOf(r)
    <2>1. ASSUME NEW caller \in Users, NEW in \in RequestedShares,
                 ResolveFile(r, caller, in)
          PROVE  StepOf(r)
      <3>1. in \in Input
        BY SharesAssumption DEF RequestedShares, Input
      <3>2. QED
        BY <2>1, <3>1
        DEF ResolveFile, IInv, TypeOK, LocalTypes, Goto, StepOf, RequestStep,
            Creating, Stages
    <2>2. CASE ResolveTarget(r)
      BY <2>2, FinishStep, AdvanceStep DEF ResolveTarget, Creating, Stages
    <2>3. CASE FindDuplicate(r)
      BY <2>3, FinishStep, AdvanceStep DEF FindDuplicate, Creating, Stages
    <2>4. CASE CreateShare(r)
      BY <2>4, FinishStep DEF CreateShare
    <2>5. QED
      BY <1>2, <2>1, <2>2, <2>3, <2>4 DEF ShareFile
  <1>3. ASSUME NEW s \in Stored
        PROVE  s \in ShareIds /\ share[s] \in ShareDoc
    BY <1>3 DEF Stored, IInv, TypeOK
  <1>4. ASSUME NEW r \in Reqs, RevokeShare(r)
        PROVE  StepOf(r)
    <2>1. ASSUME NEW s \in ShareIds, NEW caller \in Users,
                 FindForRevoke(r, s, caller)
          PROVE  StepOf(r)
      BY <2>1, <1>3, HoldStep
      DEF FindForRevoke, docs, IInv, TypeOK, Holding
    <2>2. QED
      BY <1>4, <2>1, FinishStep DEF RevokeShare, SaveRevoked
  <1>5. ASSUME NEW r \in Reqs, ValidateAccess(r)
        PROVE  StepOf(r)
    <2>1. ASSUME NEW f \in Files, NEW u \in Users, NEW p \in Probes,
                 FindActive(r, f, u, p)
          PROVE  StepOf(r)
      <3>1. p \in Probe
        BY SharesAssumption DEF Probes, Probe
      <3>2. probe' \in [Reqs -> Probe \union {NoShare}]
        BY <2>1, <3>1 DEF FindActive, IInv, TypeOK
      <3>3. PICK s \in ActiveShares(f, u) : Hold(r, s)
        BY <2>1 DEF FindActive
      <3>4. s \in ShareIds /\ share[s] \in ShareDoc
        BY <1>3, <3>3 DEF ActiveShares
      <3>5. QED
        BY <2>1, <3>2, <3>3, <3>4, HoldStep DEF FindActive, docs, Holding
    <2>2. CASE JudgeAccess(r)
      BY <2>2, FinishStep, AdvanceStep DEF JudgeAccess, Holding, Stages
    <2>3. QED
      BY <1>5, <2>1, <2>2, FinishStep DEF ValidateAccess, SaveExpired
  <1>6. ASSUME NEW r \in Reqs, RecordDownload(r)
        PROVE  StepOf(r)
    <2>1. CASE Download(r)
      BY <2>1, AdvanceStep DEF Download, Holding, Stages
    <2>2. CASE FindForRecord(r)
      <3>1. held[r] \in ShareIds /\ share[held[r]] \in ShareDoc
        BY <2>2 DEF FindForRecord, IInv, DocInHand, CopyOf, Holding
      <3>2. QED
        BY <2>2, <3>1, HoldStep
        DEF FindForRecord, docs, IInv, TypeOK, Holding
    <2>3. QED
      BY <1>6, <2>1, <2>2, FinishStep
      DEF RecordDownload, GrantWithoutDownload, SaveRecorded
  <1>7. ASSUME NEW r \in Reqs, IsShareValid(r)
        PROVE  StepOf(r)
    <2>1. ASSUME NEW s \in ShareIds, FindForValidity(r, s)
          PROVE  StepOf(r)
      BY <2>1, <1>3, HoldStep DEF FindForValidity, docs, IInv, TypeOK, Holding
    <2>2. CASE JudgeValidity(r)
      BY <2>2, FinishStep, AdvanceStep DEF JudgeValidity, Holding, Stages
    <2>3. QED
      BY <1>7, <2>1, <2>2 DEF IsShareValid
  <1>8. CASE Restart
    BY <1>8 DEF Restart, LocalTypes, RequestStep, Creating, Holding, Stages
  <1>9. ASSUME \/ \E s \in ShareIds : ExpireOverdueShare(s)
               \/ \E f \in Files : SoftDelete(f)
               \/ \E u \in Recipients : Deactivate(u)
               \/ Tick
               \/ UNCHANGED vars
        PROVE  LocalTypes' /\ \A r \in Reqs : RequestStep(r)
    <2>1. UNCHANGED <<pc, locals>>
      BY <1>9 DEF ExpireOverdueShare, SoftDelete, Deactivate, Tick, vars
    <2>2. LocalTypes'
      BY <2>1 DEF IInv, TypeOK, LocalTypes, locals
    <2>3. QED
      BY <2>1, <2>2, Untouched DEF locals
  <1>10. QED
    BY <1>1, <1>2, <1>4, <1>5, <1>6, <1>7, <1>8, <1>9 DEF Next

LEMMA SharedTypes ==
    ASSUME IInv, [Next]_vars
    PROVE  /\ now' \in Nat
           /\ active' \subseteq Users
           /\ deleted' \subseteq Files
           /\ share' \in [ShareIds -> ShareDoc \union {NoShare}]
           /\ served' \in [ShareIds -> Nat]
  <1> DEFINE Elsewhere == UNCHANGED <<now, active, deleted, served>>
             Typed == /\ now' \in Nat
                      /\ active' \subseteq Users
                      /\ deleted' \subseteq Files
                      /\ served' \in [ShareIds -> Nat]
  <1>1. share' \in [ShareIds -> ShareDoc \union {NoShare}]
    <2>1. ASSUME NEW in \in Input
          PROVE  NewShare(in) \in ShareDoc
      BY DEF NewShare, Input, ShareDoc, ShareStatus
    <2>2. QED
      BY <2>1, StoreStep DEF IInv, TypeOK, Inserts, Updates
  <1>2. Elsewhere => Typed
    BY DEF IInv, TypeOK
  <1>3. ASSUME NEW r \in Reqs, Download(r)
        PROVE  Typed
    <2>1. held[r] \in ShareIds
      BY <1>3 DEF Download, IInv, DocInHand, Holding
    <2>2. served[held[r]] + 1 \in Nat
      BY <2>1 DEF IInv, TypeOK
    <2>3. QED
      BY <1>3, <2>1, <2>2 DEF Download, IInv, TypeOK
  <1>4. ASSUME NEW r \in Reqs,
               \/ ShareFile(r) \/ RevokeShare(r) \/ ValidateAccess(r)
               \/ (RecordDownload(r) /\ ~Download(r)) \/ IsShareValid(r)
        PROVE  Elsewhere
    BY <1>4
    DEF ShareFile, ResolveFile, ResolveTarget, FindDuplicate, CreateShare,
        RevokeShare, FindForRevoke, SaveRevoked, ValidateAccess, FindActive,
        JudgeAccess, SaveExpired, RecordDownload, GrantWithoutDownload,
        FindForRecord, SaveRecorded, IsShareValid, FindForValidity,
        JudgeValidity, docs
  <1>5. ASSUME \/ \E s \in ShareIds : ExpireOverdueShare(s)
               \/ Restart
               \/ UNCHANGED vars
        PROVE  Elsewhere
    BY <1>5 DEF ExpireOverdueShare, Restart, vars, docs
  <1>6. ASSUME \/ \E f \in Files : SoftDelete(f)
               \/ \E u \in Recipients : Deactivate(u)
               \/ Tick
        PROVE  Typed
    BY <1>6 DEF SoftDelete, Deactivate, Tick, Recipients, IInv, TypeOK, docs
  <1>7. Typed
    BY <1>2, <1>3, <1>4, <1>5, <1>6 DEF Next, RecordDownload
  <1>8. QED
    BY <1>1, <1>7

-----------------------------------------------------------------------------
(* The inductive invariant. *)

LEMMA InitIInv == Init => IInv
  BY SharesAssumption
  DEF Init, IInv, TypeOK, InputInHand, DocInHand, Creating, Holding, Stages

LEMMA NextIInv == IInv /\ [Next]_vars => IInv'
  <1> SUFFICES ASSUME IInv, [Next]_vars
               PROVE  IInv'
    OBVIOUS
  <1>1. TypeOK'
    BY RequestTypes, SharedTypes DEF TypeOK, LocalTypes
  <1>2. InputInHand'
    BY RequestTypes DEF RequestStep, InputInHand, Creating, Holding
  <1>3. ASSUME NEW r \in Reqs, pc'[r] \in Holding
        PROVE  held'[r] \in ShareIds /\ CopyOf(snap'[r], share'[held'[r]])
    <2>1. CASE /\ pc[r] \in Holding
               /\ held'[r] = held[r] /\ snap'[r] = snap[r]
      BY <2>1, CopySurvives DEF IInv, DocInHand
    <2>2. CASE /\ held'[r] \in ShareIds
               /\ share[held'[r]] \in ShareDoc
               /\ snap'[r] = share[held'[r]]
               /\ UNCHANGED share
      BY <2>2 DEF CopyOf
    <2>3. QED
      BY <1>3, <2>1, <2>2, RequestTypes DEF RequestStep, Creating, Holding
  <1>4. QED
    BY <1>1, <1>2, <1>3 DEF IInv, DocInHand

LEMMA Invariance == Spec => []IInv
  BY InitIInv, NextIInv, PTL DEF Spec

\* Every reachable state is well typed, for every number of requests,
\* documents, files, users and offers: no stale copy puts a malformed document
\* back into the collection.
THEOREM TypeCorrect == Spec => []TypeOK
  BY Invariance, PTL DEF IInv

\* With the unique index built, any number of concurrent shareFile requests
\* leaves at most one ACTIVE document per file and recipient.
THEOREM UniqueActive ==
    ASSUME Indexed
    PROVE  Spec => []OneActiveShare
  <1>1. Init => OneActiveShare
    BY DEF Init, OneActiveShare, Stored
  <1>2. IInv /\ [Next]_vars /\ OneActiveShare => OneActiveShare'
    <2> SUFFICES ASSUME IInv, [Next]_vars, OneActiveShare
                 PROVE  OneActiveShare'
      OBVIOUS
    <2> USE DEF OneActiveShare, Stored
    <2>1. share \in [ShareIds -> ShareDoc \union {NoShare}]
      BY DEF IInv, TypeOK
    <2>2. ASSUME NEW s \in ShareIds, NEW in \in Input, Inserts(s, in)
          PROVE  OneActiveShare'
      <3>1. ActiveShares(in.file, in.target) = {}
        BY <2>2, Indexed DEF Inserts, IndexRefuses
      <3>2. \A t \in Stored : /\ share[t].file = in.file
                              /\ share[t].target = in.target
                              => share[t].status # "ACTIVE"
        BY <3>1 DEF ActiveShares
      <3>3. QED
        BY <2>1, <2>2, <3>2 DEF Inserts, NewShare
    <2>3. ASSUME NEW s \in ShareIds, NEW d \in ShareDoc, Updates(s, d)
          PROVE  OneActiveShare'
      BY <2>1, <2>3, SharesAssumption DEF Updates, Supersedes
    <2>4. QED
      BY <2>2, <2>3, StoreStep
  <1>3. QED
    BY <1>1, <1>2, Invariance, PTL DEF Spec

\* However the read-modify-write saves of recordDownload interleave, the
\* stored counter and the stored status agree on when a share is used up.
THEOREM ExhaustedEnds == Spec => []ExhaustedIsInactive
  <1>1. Init => ExhaustedIsInactive
    BY DEF Init, ExhaustedIsInactive, Stored
  <1>2. IInv /\ [Next]_vars /\ ExhaustedIsInactive => ExhaustedIsInactive'
    <2> SUFFICES ASSUME IInv, [Next]_vars, ExhaustedIsInactive
                 PROVE  ExhaustedIsInactive'
      OBVIOUS
    <2> USE DEF ExhaustedIsInactive, Stored
    <2>1. share \in [ShareIds -> ShareDoc \union {NoShare}]
      BY DEF IInv, TypeOK
    <2>2. ASSUME NEW s \in ShareIds, NEW in \in Input, Inserts(s, in)
          PROVE  ExhaustedIsInactive'
      <3>1. ~Exhausted(NewShare(in))
        BY DEF Exhausted, LimitReached, NewShare, Input, Offer, NoLimit
      <3>2. QED
        BY <2>1, <2>2, <3>1 DEF Inserts
    <2>3. ASSUME NEW s \in ShareIds, NEW d \in ShareDoc, Updates(s, d)
          PROVE  ExhaustedIsInactive'
      BY <2>1, <2>3 DEF Updates, Supersedes
    <2>4. CASE UNCHANGED share
      BY <2>4
    <2>5. QED
      BY <2>2, <2>3, <2>4, StoreStep
  <1>3. QED
    BY <1>1, <1>2, Invariance, PTL DEF Spec

\* Listing and access check agree about everything but the date, over any
\* interleaving of shares, revocations, downloads and expirations.
THEOREM ListingIsUsable ==
    ASSUME Indexed
    PROVE  Spec => []ListedCanBeUsed
  <1>1. OneActiveShare /\ ExhaustedIsInactive => ListedCanBeUsed
    <2> SUFFICES ASSUME OneActiveShare, ExhaustedIsInactive,
                        NEW u \in Users, NEW s \in SharedWithMe(u)
                 PROVE  /\ ActiveShares(share[s].file, u) = {s}
                        /\ \A p \in Probe :
                              /\ HasPermissionForAction(share[s].offer.permission,
                                                        p.action)
                              /\ share[s].offer.device \in {NoDevice, p.device}
                              => Permits(share[s], p)
      BY DEF ListedCanBeUsed
    <2>1. s \in Stored /\ share[s].target = u /\ share[s].status = "ACTIVE"
      BY DEF SharedWithMe
    <2>2. ActiveShares(share[s].file, u) = {s}
      BY <2>1 DEF ActiveShares, OneActiveShare
    <2>3. ~LimitReached(share[s])
      BY <2>1 DEF ExhaustedIsInactive, Exhausted
    <2> QED
      BY <2>2, <2>3 DEF Permits
  <1>2. Spec => []OneActiveShare
    BY UniqueActive, Indexed
  <1>3. QED
    BY <1>1, <1>2, ExhaustedEnds, PTL

\* No step of any request, and no batch job, brings back a share that has
\* expired or been revoked, and none removes a document.
THEOREM FinalStatusIsFinal == Spec => NoResurrection
  <1>1. IInv /\ [Next]_vars =>
            [\A s \in Stored :
                /\ share'[s] # NoShare
                /\ share[s].status # "ACTIVE"
                      => share'[s].status # "ACTIVE"]_vars
    <2> SUFFICES ASSUME IInv, [Next]_vars, NEW s \in Stored
                 PROVE  /\ share'[s] # NoShare
                        /\ share[s].status # "ACTIVE"
                              => share'[s].status # "ACTIVE"
      OBVIOUS
    <2>1. /\ share \in [ShareIds -> ShareDoc \union {NoShare}]
          /\ s \in ShareIds /\ share[s] # NoShare
      BY DEF IInv, TypeOK, Stored
    <2>2. ASSUME NEW t \in ShareIds, NEW d \in ShareDoc, Updates(t, d)
          PROVE  /\ share'[s] # NoShare
                 /\ share[s].status # "ACTIVE"
                       => share'[s].status # "ACTIVE"
      BY <2>1, <2>2, SharesAssumption DEF Updates, Supersedes
    <2>3. ASSUME NEW t \in ShareIds, NEW in \in Input, Inserts(t, in)
          PROVE  share'[s] = share[s]
      BY <2>1, <2>3 DEF Inserts
    <2>4. QED
      BY <2>1, <2>2, <2>3, StoreStep
  <1>2. QED
    BY <1>1, Invariance, PTL DEF Spec, NoResurrection

-----------------------------------------------------------------------------
(* Counts.  A count is saved from a copy that others may have saved over,  *)
(* and a download is served before it is counted.  So every count, stored  *)
(* or in hand, leaves room for the downloads that are still to be counted. *)

Counting == {"served", "record"}

\* The requests that have served a download under s and not counted it.
Uncounted(s) == {r \in Reqs : pc[r] \in Counting /\ held[r] = s}

Due(s) == Cardinality(Uncounted(s))

StoredCovered == \A s \in Stored : share[s].count + Due(s) <= served[s]

InHandCovered ==
    \A r \in Reqs :
        pc[r] = "record" => snap[r].count + Due(held[r]) <= served[held[r]]

CountsCovered == StoredCovered /\ InHandCovered

LEMMA DueIsNat ==
    ASSUME NEW s
    PROVE  IsFiniteSet(Uncounted(s)) /\ Due(s) \in Nat
  <1>1. Uncounted(s) \subseteq Reqs
    BY DEF Uncounted
  <1>2. QED
    BY <1>1, SharesAssumption, FS_Subset, FS_CardinalityType DEF Due

\* What the invariant gives of the numbers of a stored share.
LEMMA Numbers ==
    ASSUME IInv, NEW s \in Stored
    PROVE  share[s].count \in Nat /\ served[s] \in Nat /\ Due(s) \in Nat
  BY DueIsNat DEF IInv, TypeOK, Stored, ShareDoc

\* A request that counts has a stored document and a copy of it in hand.
LEMMA CountingHolds ==
    ASSUME IInv, NEW r \in Reqs, pc[r] \in Counting \union {"granted"}
    PROVE  /\ held[r] \in Stored
           /\ snap[r].count \in Nat
  BY SharesAssumption
  DEF IInv, DocInHand, CopyOf, Counting, Holding, Stored, ShareDoc

\* A step that serves nothing, counts nothing and copies nothing to count.
LEMMA CountsKept ==
    ASSUME IInv, CountsCovered, served' = served,
           \A s \in ShareIds : share'[s] # NoShare =>
              share'[s].count = IF s \in Stored THEN share[s].count ELSE 0,
           \A r \in Reqs : pc'[r] \in Counting =>
              pc[r] = pc'[r] /\ held'[r] = held[r] /\ snap'[r] = snap[r]
    PROVE  CountsCovered'
  <1>1. ASSUME NEW s PROVE Due(s)' \in Nat /\ Due(s)' <= Due(s)
    <2>1. Uncounted(s)' \subseteq Uncounted(s)
      BY DEF Uncounted
    <2>2. QED
      BY <2>1, DueIsNat, FS_Subset, FS_CardinalityType DEF Due
  <1>2. ASSUME NEW s \in Stored'
        PROVE  share'[s].count + Due(s)' <= served'[s]
    <2>1. s \in ShareIds /\ share'[s] # NoShare
      BY DEF Stored
    <2>2. CASE s \in Stored
      <3>1. share[s].count + Due(s) <= served[s]
        BY <2>2 DEF CountsCovered, StoredCovered
      <3>2. QED
        BY <1>1, <2>1, <2>2, <3>1, Numbers
    <2>3. CASE s \notin Stored
      <3>1. Uncounted(s) = {}
        BY <2>3, CountingHolds DEF Uncounted
      <3>2. Due(s) = 0
        BY <3>1, FS_EmptySet DEF Due
      <3>3. served[s] \in Nat
        BY <2>1 DEF IInv, TypeOK
      <3>4. QED
        BY <1>1, <2>1, <2>3, <3>2, <3>3
    <2>4. QED
      BY <2>2, <2>3
  <1>3. ASSUME NEW r \in Reqs, pc'[r] = "record"
        PROVE  (snap[r].count + Due(held[r]) <= served[held[r]])'
    <2>1. pc[r] = "record" /\ held'[r] = held[r] /\ snap'[r] = snap[r]
      BY <1>3 DEF Counting
    <2>2. snap[r].count + Due(held[r]) <= served[held[r]]
      BY <2>1 DEF CountsCovered, InHandCovered
    <2>3. PICK h : h = held[r]
      OBVIOUS
    <2>4. Due(held[r])' = Due(h)'
      BY <2>1, <2>3 DEF Due, Uncounted
    <2>5. snap[r].count \in Nat /\ served[h] \in Nat /\ Due(h) \in Nat
      BY <2>1, <2>3, CountingHolds, Numbers DEF Counting
    <2>6. QED
      BY <1>1, <2>1, <2>2, <2>3, <2>4, <2>5
  <1>4. QED
    BY <1>2, <1>3 DEF CountsCovered, StoredCovered, InHandCovered

\* A download raises what has been served and what is due by one.
LEMMA DownloadCovers ==
    ASSUME IInv, CountsCovered, NEW r \in Reqs, Download(r)
    PROVE  CountsCovered'
  <1>1. PICK h : h = held[r]
    OBVIOUS
  <1>2. h \in Stored /\ r \notin Uncounted(h)
    BY <1>1, CountingHolds DEF Download, Uncounted, Counting
  <1>3. /\ Uncounted(h)' = Uncounted(h) \union {r}
        /\ \A s : s # h => Uncounted(s)' = Uncounted(s)
    BY <1>1 DEF Download, Goto, IInv, TypeOK, Uncounted, Counting, locals
  <1>4. Due(h)' = Due(h) + 1
    BY <1>2, <1>3, DueIsNat, FS_AddElement DEF Due
  <1>5. \A s : s # h => Due(s)' = Due(s)
    BY <1>3 DEF Due
  <1>6. served'[h] = served[h] + 1 /\ \A s : s # h => served'[s] = served[s]
    BY <1>1, <1>2 DEF Download, IInv, TypeOK, Stored
  <1>7. UNCHANGED <<share, held, snap>>
    BY DEF Download, locals
  <1>8. \A q \in Reqs : pc'[q] = "record" => pc[q] = "record"
    BY DEF Download, Goto, IInv, TypeOK
  <1>9. ASSUME NEW s \in Stored
        PROVE  share[s].count + Due(s)' <= served'[s]
    <2>1. share[s].count + Due(s) <= served[s]
      BY DEF CountsCovered, StoredCovered
    <2>2. QED
      BY <1>4, <1>5, <1>6, <2>1, Numbers
  <1>10. ASSUME NEW q \in Reqs, pc[q] = "record"
         PROVE  (snap[q].count + Due(held[q]) <= served[held[q]])'
    <2>1. snap[q].count + Due(held[q]) <= served[held[q]]
      BY <1>10 DEF CountsCovered, InHandCovered
    <2>2. PICK k : k = held[q]
      OBVIOUS
    <2>3. Due(held[q])' = Due(k)'
      BY <1>7, <2>2 DEF Due, Uncounted
    <2>4. k \in Stored /\ snap[q].count \in Nat
      BY <1>10, <2>2, CountingHolds DEF Counting
    <2>5. served'[held'[q]] = served'[k] /\ snap'[q] = snap[q]
      BY <1>7, <2>2
    <2>6. QED
      BY <1>4, <1>5, <1>6, <2>1, <2>2, <2>3, <2>4, <2>5, Numbers
  <1>11. QED
    BY <1>7, <1>8, <1>9, <1>10
    DEF CountsCovered, StoredCovered, InHandCovered, Stored

\* Reading the document again takes a copy that is covered like the document.
LEMMA FindForRecordCovers ==
    ASSUME IInv, CountsCovered, NEW r \in Reqs, FindForRecord(r)
    PROVE  CountsCovered'
  <1>1. PICK h : h = held[r]
    OBVIOUS
  <1>2. h \in Stored /\ share[h].count + Due(h) <= served[h]
    BY <1>1, CountingHolds
    DEF FindForRecord, Counting, CountsCovered, StoredCovered
  <1>3. /\ UNCHANGED <<share, served>>
        /\ pc' = [pc EXCEPT ![r] = "record"]
        /\ held' = [held EXCEPT ![r] = h] /\ snap' = [snap EXCEPT ![r] = share[h]]
    BY <1>1 DEF FindForRecord, Hold, Goto, docs
  <1>4. held' = held
    BY <1>1, <1>3 DEF IInv, TypeOK
  <1>5. \A s : Uncounted(s)' = Uncounted(s)
    BY <1>3, <1>4 DEF FindForRecord, Uncounted, Counting, IInv, TypeOK
  <1>6. \A s : Due(s)' = Due(s)
    BY <1>5 DEF Due
  <1>7. StoredCovered'
    BY <1>3, <1>6 DEF CountsCovered, StoredCovered, Stored
  <1>8. ASSUME NEW q \in Reqs, pc'[q] = "record"
        PROVE  (snap[q].count + Due(held[q]) <= served[held[q]])'
    <2>1. PICK k : k = held[q]
      OBVIOUS
    <2>2. Due(held[q])' = Due(k)
      BY <1>4, <1>6, <2>1 DEF Due, Uncounted
    <2>3. CASE q = r
      BY <1>1, <1>2, <1>3, <1>4, <2>1, <2>2, <2>3 DEF IInv, TypeOK
    <2>4. CASE q # r
      <3>1. snap[q].count + Due(k) <= served[k]
        BY <1>3, <1>8, <2>1, <2>4
        DEF CountsCovered, InHandCovered, IInv, TypeOK
      <3>2. QED
        BY <1>3, <1>4, <2>1, <2>2, <2>4, <3>1 DEF IInv, TypeOK
    <2>5. QED
      BY <2>3, <2>4
  <1>9. QED
    BY <1>7, <1>8 DEF CountsCovered, InHandCovered

\* The save counts the download it was made for, whatever the copy has missed.
LEMMA SaveRecordedCovers ==
    ASSUME IInv, CountsCovered, NEW r \in Reqs, SaveRecorded(r)
    PROVE  CountsCovered'
  <1>1. PICK h : h = held[r]
    OBVIOUS
  <1>2. /\ h \in Stored /\ snap[r].count \in Nat
        /\ snap[r].count + Due(h) <= served[h]
        /\ r \in Uncounted(h)
    BY <1>1, CountingHolds
    DEF SaveRecorded, Counting, CountsCovered, InHandCovered, Uncounted
  <1>3. /\ served' = served
        /\ pc' = [pc EXCEPT ![r] = "idle"]
        /\ \A q \in Reqs \ {r} : held'[q] = held[q] /\ snap'[q] = snap[q]
        /\ \A s \in ShareIds \ {h} : share'[s] = share[s]
    BY <1>1 DEF SaveRecorded, Finish, Goto, IInv, TypeOK
  <1>4. share'[h].count = snap[r].count + 1
    <2>1. share'[h] = SaveModified(share[h], snap[r])
      BY <1>1, <1>2 DEF SaveRecorded, IInv, TypeOK, Stored
    <2>2. snap[r] \in ShareDoc /\ share[h] \in ShareDoc
      BY <1>1 DEF SaveRecorded, IInv, DocInHand, CopyOf, Holding
    <2>3. QED
      BY <2>1, <2>2 DEF SaveModified, Counted, ShareDoc
  <1>5. /\ Uncounted(h)' = Uncounted(h) \ {r}
        /\ \A s : s # h => Uncounted(s)' = Uncounted(s)
    BY <1>1, <1>3 DEF Uncounted, Counting, IInv, TypeOK
  <1>6. Due(h)' = Due(h) - 1
    BY <1>2, <1>5, DueIsNat, FS_RemoveElement DEF Due
  <1>7. \A s : s # h => Due(s)' = Due(s)
    BY <1>5 DEF Due
  <1>8. ASSUME NEW s \in Stored'
        PROVE  share'[s].count + Due(s)' <= served'[s]
    <2>1. CASE s = h
      BY <1>2, <1>3, <1>4, <1>6, <2>1, Numbers
    <2>2. CASE s # h
      <3>1. s \in Stored /\ share'[s] = share[s]
        BY <1>3, <2>2 DEF Stored
      <3>2. QED
        BY <1>3, <1>7, <2>2, <3>1 DEF CountsCovered, StoredCovered
    <2>3. QED
      BY <2>1, <2>2
  <1>9. ASSUME NEW q \in Reqs, pc'[q] = "record"
        PROVE  (snap[q].count + Due(held[q]) <= served[held[q]])'
    <2>1. q # r /\ pc[q] = "record"
      BY <1>3, <1>9 DEF IInv, TypeOK
    <2>2. PICK k : k = held[q]
      OBVIOUS
    <2>3. snap[q].count + Due(k) <= served[k]
      BY <2>1, <2>2 DEF CountsCovered, InHandCovered
    <2>4. Due(held[q])' = Due(k)'
      BY <1>3, <2>1, <2>2 DEF Due, Uncounted
    <2>5. k \in Stored /\ snap[q].count \in Nat
      BY <2>1, <2>2, CountingHolds DEF Counting
    <2>6. snap'[q] = snap[q] /\ held'[q] = k
      BY <1>3, <2>1, <2>2
    <2>7. QED
      BY <1>3, <1>6, <1>7, <2>3, <2>4, <2>5, <2>6, Numbers
  <1>10. QED
    BY <1>8, <1>9 DEF CountsCovered, StoredCovered, InHandCovered

\* Every other step leaves counts, downloads and what is due alone, or ends
\* requests.
LEMMA CountsStep ==
    ASSUME IInv, CountsCovered, [Next]_vars
    PROVE  CountsCovered'
  <1>1. ASSUME NEW r \in Reqs, CreateShare(r) PROVE CountsCovered'
    BY <1>1, CountsKept
    DEF CreateShare, NewShare, Stored, Finish, Goto, Counting, IInv, TypeOK
  <1>2. ASSUME NEW r \in Reqs, SaveRevoked(r) \/ SaveExpired(r)
        PROVE  CountsCovered'
    <2>1. held[r] \in ShareIds /\ share[held[r]] \in ShareDoc
      BY <1>2 DEF SaveRevoked, SaveExpired, IInv, DocInHand, CopyOf, Holding
    <2>2. held[r] \in Stored
      BY <2>1, SharesAssumption DEF Stored
    <2>3. \A s \in ShareIds : share'[s] # NoShare =>
             s \in Stored /\ share'[s].count = share[s].count
      BY <1>2, <2>1, <2>2
      DEF SaveRevoked, SaveExpired, IInv, TypeOK, Stored, ShareDoc
    <2>4. QED
      BY <1>2, <2>3, CountsKept
      DEF SaveRevoked, SaveExpired, Finish, Goto, Counting, IInv, TypeOK
  <1>3. ASSUME NEW s \in ShareIds, ExpireOverdueShare(s) PROVE CountsCovered'
    <2>1. \A t \in ShareIds : share'[t] # NoShare =>
             t \in Stored /\ share'[t].count = share[t].count
      BY <1>3 DEF ExpireOverdueShare, IInv, TypeOK, Stored, ShareDoc
    <2>2. QED
      BY <1>3, <2>1, CountsKept DEF ExpireOverdueShare, locals
  <1>4. ASSUME UNCHANGED docs,
               \A r \in Reqs : pc'[r] \in Counting =>
                  pc[r] = pc'[r] /\ held'[r] = held[r] /\ snap'[r] = snap[r]
        PROVE  CountsCovered'
    BY <1>4, CountsKept DEF docs, Stored
  <1>5. ASSUME NEW r \in Reqs,
               \/ \E caller \in Users, in \in RequestedShares :
                     ResolveFile(r, caller, in)
               \/ ResolveTarget(r)
               \/ FindDuplicate(r)
               \/ \E s \in ShareIds, caller \in Users :
                     FindForRevoke(r, s, caller)
               \/ \E f \in Files, u \in Users, p \in Probes :
                     FindActive(r, f, u, p)
               \/ JudgeAccess(r)
               \/ GrantWithoutDownload(r)
               \/ IsShareValid(r)
        PROVE  CountsCovered'
    <2>1. UNCHANGED docs
      BY <1>5
      DEF ResolveFile, ResolveTarget, FindDuplicate, FindForRevoke,
          FindActive, JudgeAccess, GrantWithoutDownload, IsShareValid,
          FindForValidity, JudgeValidity
    <2>2. /\ pc'[r] \notin Counting
          /\ \A q \in Reqs \ {r} :
                pc'[q] = pc[q] /\ held'[q] = held[q] /\ snap'[q] = snap[q]
      BY <1>5
      DEF ResolveFile, ResolveTarget, FindDuplicate, FindForRevoke,
          FindActive, JudgeAccess, GrantWithoutDownload, IsShareValid,
          FindForValidity, JudgeValidity, Goto, Finish, Hold, locals,
          Counting, IInv, TypeOK
    <2>3. QED
      BY <1>4, <2>1, <2>2
  <1>6. CASE \/ \E f \in Files : SoftDelete(f)
             \/ \E u \in Recipients : Deactivate(u)
             \/ Tick
             \/ Restart
             \/ UNCHANGED vars
    BY <1>4, <1>6
    DEF SoftDelete, Deactivate, Tick, Restart, vars, locals, Counting
  <1>7. QED
    BY <1>1, <1>2, <1>3, <1>5, <1>6, DownloadCovers, FindForRecordCovers,
       SaveRecordedCovers
    DEF Next, ShareFile, RevokeShare, ValidateAccess, RecordDownload,
        IsShareValid

\* However saves overtake each other and whatever fails, no share counts more
\* downloads than have succeeded under it.
THEOREM CountsAreBacked == Spec => []CountNeverOverstates
  <1>1. Init => CountsCovered
    BY DEF Init, CountsCovered, StoredCovered, InHandCovered, Stored
  <1>2. IInv /\ CountsCovered /\ [Next]_vars => CountsCovered'
    BY CountsStep
  <1>3. IInv /\ CountsCovered => CountNeverOverstates
    <2> SUFFICES ASSUME IInv, CountsCovered, NEW s \in Stored
                 PROVE  share[s].count <= served[s]
      BY DEF CountNeverOverstates
    <2>1. share[s].count + Due(s) <= served[s]
      BY DEF CountsCovered, StoredCovered
    <2>2. QED
      BY <2>1, Numbers
  <1>4. QED
    BY <1>1, <1>2, <1>3, Invariance, PTL DEF Spec

-----------------------------------------------------------------------------
(* Refinement. *)

Pairs == Files \X Users

\* LiveShare names exactly the ACTIVE document of each pair.
LiveIsActive ==
    /\ LiveShare = [p \in Pairs |-> LiveShare[p]]
    /\ \A p \in Pairs :
          \/ LiveShare[p] = NoShare /\ ActiveShares(p[1], p[2]) = {}
          \/ LiveShare[p] \in ShareIds /\ ActiveShares(p[1], p[2]) = {LiveShare[p]}

LEMMA LiveShareIs == OneActiveShare => LiveIsActive
  <1> SUFFICES ASSUME OneActiveShare PROVE LiveIsActive
    OBVIOUS
  <1>1. ASSUME NEW p \in Pairs, NEW s \in ActiveShares(p[1], p[2])
        PROVE  s \in ShareIds /\ ActiveShares(p[1], p[2]) = {s}
    BY <1>1 DEF OneActiveShare, ActiveShares, Stored
  <1>2. ASSUME NEW p \in Pairs
        PROVE  \/ LiveShare[p] = NoShare /\ ActiveShares(p[1], p[2]) = {}
               \/ /\ LiveShare[p] \in ShareIds
                  /\ ActiveShares(p[1], p[2]) = {LiveShare[p]}
    <2>1. LiveShare[p] = IF ActiveShares(p[1], p[2]) = {} THEN NoShare
                         ELSE CHOOSE s \in ActiveShares(p[1], p[2]) : TRUE
      BY DEF LiveShare, Pairs
    <2>2. QED
      BY <1>1, <2>1
  <1>3. QED
    BY <1>2 DEF LiveIsActive, LiveShare, Pairs

LEMMA SameLive ==
    ASSUME LiveIsActive, LiveIsActive', NEW p \in Pairs,
           ActiveShares(p[1], p[2])' = ActiveShares(p[1], p[2])
    PROVE  LiveShare'[p] = LiveShare[p]
  <1>1. CASE ActiveShares(p[1], p[2]) = {}
    <2>1. LiveShare[p] = NoShare
      BY <1>1 DEF LiveIsActive
    <2>2. LiveShare'[p] = NoShare
      BY <1>1 DEF LiveIsActive
    <2>3. QED
      BY <2>1, <2>2
  <1>2. CASE ActiveShares(p[1], p[2]) # {}
    <2>1. ActiveShares(p[1], p[2]) = {LiveShare[p]}
      BY <1>2 DEF LiveIsActive
    <2>2. ActiveShares(p[1], p[2])' = {LiveShare'[p]}
      BY <1>2 DEF LiveIsActive
    <2>3. QED
      BY <2>1, <2>2
  <1>3. QED
    BY <1>1, <1>2

LEMMA StepRefines ==
    ASSUME Indexed, IInv, [Next]_vars, OneActiveShare, OneActiveShare',
           LiveIsActive, LiveIsActive'
    PROVE  [Lifecycle!Next]_<<LiveShare, EndedShares>>
  <1>1. share \in [ShareIds -> ShareDoc \union {NoShare}]
    BY DEF IInv, TypeOK
  <1>2. ASSUME NEW s \in ShareIds, NEW in \in Input, Inserts(s, in)
        PROVE  Lifecycle!Begin(<<in.file, in.target>>, s)
    <2> DEFINE pair == <<in.file, in.target>>
    <2>1. pair \in Pairs /\ pair[1] = in.file /\ pair[2] = in.target
      BY DEF Pairs, Input
    <2>2. NewShare(in) # NoShare /\ NewShare(in).status = "ACTIVE"
      BY SharesAssumption DEF NewShare, Input, ShareDoc, ShareStatus
    <2>3. s \notin Stored /\ Stored' = Stored \union {s}
      BY <1>1, <1>2, <2>2 DEF Inserts, Stored
    <2>4. s \in ActiveShares(in.file, in.target)'
      BY <1>1, <1>2, <2>2 DEF Inserts, ActiveShares, Stored, NewShare
    <2>5. LiveShare'[pair] = s
      BY <2>1, <2>4 DEF LiveIsActive
    <2>6. ASSUME NEW p \in Pairs, p # pair
          PROVE  LiveShare'[p] = LiveShare[p]
      <3>1. p[1] # in.file \/ p[2] # in.target
        BY <2>6 DEF Pairs
      <3>2. ActiveShares(p[1], p[2])' = ActiveShares(p[1], p[2])
        BY <1>1, <1>2, <2>2, <3>1 DEF Inserts, ActiveShares, Stored, NewShare
      <3>3. QED
        BY <3>2, SameLive
    <2>7. LiveShare' = [LiveShare EXCEPT ![pair] = s]
      BY <2>1, <2>5, <2>6 DEF LiveIsActive
    <2>8. LiveShare[pair] = NoShare
      BY <1>2, <2>1, Indexed DEF Inserts, IndexRefuses, LiveIsActive
    <2>9. UNCHANGED EndedShares
      BY <1>1, <1>2, <2>2, <2>3 DEF Inserts, EndedShares, Stored
    <2>10. \A q \in Pairs : LiveShare[q] # s
      BY <2>3, SharesAssumption DEF LiveIsActive, ActiveShares
    <2>11. s \notin EndedShares
      BY <2>3 DEF EndedShares
    <2>12. QED
      BY <2>7, <2>8, <2>9, <2>10, <2>11 DEF Lifecycle!Begin, Pairs
  <1>3. ASSUME NEW s \in ShareIds, NEW d \in ShareDoc, Updates(s, d),
               share[s].status = "ACTIVE", d.status # "ACTIVE"
        PROVE  Lifecycle!End(<<d.file, d.target>>)
    <2> DEFINE pair == <<d.file, d.target>>
    <2>1. pair \in Pairs /\ pair[1] = d.file /\ pair[2] = d.target
      BY DEF Pairs, ShareDoc
    <2>2. s \in Stored /\ s \in ActiveShares(d.file, d.target)
      BY <1>1, <1>3, SharesAssumption
      DEF Updates, Supersedes, ActiveShares, Stored
    <2>3. LiveShare[pair] = s
      BY <2>1, <2>2 DEF LiveIsActive
    <2>4. d # NoShare
      BY SharesAssumption
    <2>5. ActiveShares(d.file, d.target)' = {}
      <3>1. ActiveShares(d.file, d.target) = {s}
        BY <2>1, <2>2 DEF LiveIsActive
      <3>2. QED
        BY <1>1, <1>3, <2>4, <3>1 DEF Updates, ActiveShares, Stored
    <2>6. LiveShare'[pair] = NoShare
      BY <2>1, <2>5 DEF LiveIsActive
    <2>7. ASSUME NEW p \in Pairs, p # pair
          PROVE  LiveShare'[p] = LiveShare[p]
      <3>1. p[1] # d.file \/ p[2] # d.target
        BY <2>7 DEF Pairs
      <3>2. ActiveShares(p[1], p[2])' = ActiveShares(p[1], p[2])
        BY <1>1, <1>3, <2>2, <2>4, <3>1
        DEF Updates, Supersedes, ActiveShares, Stored
      <3>3. QED
        BY <3>2, SameLive
    <2>8. LiveShare' = [LiveShare EXCEPT ![pair] = NoShare]
      BY <2>1, <2>6, <2>7 DEF LiveIsActive
    <2>9. EndedShares' = EndedShares \union {s}
      BY <1>1, <1>3, <2>2, <2>4 DEF Updates, EndedShares, Stored
    <2>10. s # NoShare
      BY SharesAssumption
    <2>11. QED
      BY <2>3, <2>8, <2>9, <2>10 DEF Lifecycle!End
  <1>4. ASSUME NEW s \in ShareIds, NEW d \in ShareDoc, Updates(s, d),
               share[s].status = "ACTIVE" <=> d.status = "ACTIVE"
        PROVE  UNCHANGED <<LiveShare, EndedShares>>
    <2>1. ASSUME NEW f, NEW u
          PROVE  ActiveShares(f, u)' = ActiveShares(f, u)
      BY <1>1, <1>4, SharesAssumption DEF ActiveShares, Stored, Updates, Supersedes
    <2>2. UNCHANGED LiveShare
      <3>1. ASSUME NEW p \in Pairs
            PROVE  LiveShare'[p] = LiveShare[p]
        BY <2>1, SameLive
      <3>2. QED
        BY <3>1 DEF LiveIsActive
    <2>3. UNCHANGED EndedShares
      BY <1>1, <1>4, SharesAssumption DEF EndedShares, Stored, Updates, Supersedes
    <2>4. QED
      BY <2>2, <2>3
  <1>5. CASE UNCHANGED share
    BY <1>5 DEF LiveShare, EndedShares, ActiveShares, Stored
  <1>6. QED
    BY <1>1, <1>2, <1>3, <1>4, <1>5, StoreStep
    DEF Lifecycle!Next, Updates, Supersedes, Input, Pairs, ShareDoc

\* With the index built, the share services implement the abstract lifecycle
\* of a grant: one live grant per pair, each ended at most once.
THEOREM Refinement ==
    ASSUME Indexed
    PROVE  Spec => ImplementsLifecycle
  <1>1. Init => Lifecycle!Init
    BY DEF Init, Lifecycle!Init, LiveShare, EndedShares, ActiveShares, Stored
  <1>2. Spec => []OneActiveShare
    BY UniqueActive, Indexed
  <1>3. IInv /\ [Next]_vars /\ OneActiveShare /\ OneActiveShare'
            /\ LiveIsActive /\ LiveIsActive'
        => [Lifecycle!Next]_<<LiveShare, EndedShares>>
    BY StepRefines, Indexed
  <1>4. QED
    BY <1>1, <1>2, <1>3, LiveShareIs, Invariance, PTL
    DEF Spec, ImplementsLifecycle, Lifecycle!Spec
=============================================================================
