--------------------------- MODULE FileStoreProofs ---------------------------
(***************************************************************************)
(* Files are kept as long as promised and leave nothing behind but bytes   *)
(* that exists() has failed to see, for any number of files, users and     *)
(* requests and any retention period.                                      *)
(*                                                                         *)
(* None of the properties is inductive: they speak of the collection and   *)
(* the disk, and what would break them is in the hands of a request.  The  *)
(* invariant says what each request may rely on: an upload is alone with   *)
(* its file, which nobody has asked to delete; a deletion in hand is no    *)
(* older than the first one asked for; what a cleanup has listed stays     *)
(* invisible and past its period, and what is left on disk of a file whose *)
(* metadata is about to go has been missed by exists().                    *)
(***************************************************************************)
EXTENDS FileRefinement, TLAPS

UploadStages == {"storeDek", "upload", "create"}

CleanupStages == {"cleanup", "unlink", "deleteOne"}

USE DEF CleanupStages

\* Nobody will see f again, and its period is over.
Removable(f) ==
    /\ ~Visible(f)
    /\ asked[f] # None /\ asked[f] + Retention <= now

\* What a request may rely on.
UploadFits(q) ==
    q.stage \in UploadStages =>
        /\ q.file \in taken /\ ~Stored(q.file) /\ asked[q.file] = None
        /\ q.file \in Files /\ q.doc \in FileDoc /\ ~q.doc.deleted
        /\ q.stage = "create" => q.file \in disk

DeleteFits(q) ==
    q.stage = "saveDeleted" =>
        q.file \in Files /\ asked[q.file] # None /\ asked[q.file] <= q.at

CleanupFits(q) ==
    /\ q.stage \in CleanupStages => \A f \in q.batch : Removable(f)
    /\ q.stage \in {"unlink", "deleteOne"} => q.file \in Files /\ Removable(q.file)
    /\ q.stage = "deleteOne" /\ q.file \in disk => q.file \in missed

RotationFits(q) == q.stage = "saveKek" => q.new \in Keys /\ q.old \in Kek

Fits(q) == UploadFits(q) /\ DeleteFits(q) /\ CleanupFits(q) /\ RotationFits(q)

RequestsFit == \A r \in Reqs : req[r] # None => Fits(req[r])

\* No two uploads work on one file.
Uploads(q, f) == q # None /\ q.stage \in UploadStages /\ q.file = f

UploadsDiffer ==
    \A r, s \in Reqs, f \in Files : Uploads(req[r], f) /\ Uploads(req[s], f) => r = s

KekIsKnown ==
    /\ boot # "ready" => \A r \in Reqs : req[r] = None
    /\ boot = "write" => kek \in Keys
    /\ boot = "ready" => kek \in Kek

UntakenIsFree ==
    \A f \in Files : f \notin taken => ~Stored(f) /\ asked[f] = None

DeletionIsAsked ==
    \A f \in Files : Stored(f) /\ files[f].deleted =>
        asked[f] # None /\ asked[f] <= files[f].deletedAt

AskedIsPast == \A f \in Files : asked[f] # None => asked[f] <= now

IInv ==
    /\ TypeOK
    /\ RequestsFit
    /\ UploadsDiffer
    /\ KekIsKnown
    /\ UntakenIsFree
    /\ DeletionIsAsked
    /\ AskedIsPast
    /\ VisibleIsOnDisk
    /\ OnlyMissedBytesStay

\* The request of a cleanup that has asked for the bytes of f.
Checked(q, f, seen) ==
    [q EXCEPT !.stage = IF seen THEN "unlink" ELSE "deleteOne",
              !.file = f,
              !.batch = @ \ {f}]

LEMMA InitHolds == Init => IInv
BY FileStoreAssumption
DEF Init, IInv, TypeOK, BootStages, RequestsFit, UploadsDiffer, KekIsKnown,
    UntakenIsFree, DeletionIsAsked, AskedIsPast, VisibleIsOnDisk,
    OnlyMissedBytesStay, Uploads, Stored, Visible

-----------------------------------------------------------------------------
(* Types. *)

LEMMA TypeOfBegin ==
    ASSUME NEW stage \in Stages PROVE Begin(stage) \in Request
BY DEF Begin, Request

\* Types are kept by every step.
LEMMA TypeStep ==
    ASSUME IInv, [Next]_vars
    PROVE  TypeOK'
<1>. USE FileStoreAssumption
     DEF IInv, TypeOK, BootStages, keys, store, Idle, Become, Goto, Finish
<1>1. CASE StartProcess
  BY <1>1 DEF StartProcess, Fallback, Kek
<1>2. CASE Connect
  BY <1>2 DEF Connect
<1>3. CASE LoadKek
  BY <1>3 DEF LoadKek, Fallback, Kek
<1>4. CASE CheckHealth
  BY <1>4 DEF CheckHealth, Fallback, Kek
<1>5. CASE WriteKek
  BY <1>5 DEF WriteKek, Fallback, Kek, KekIsKnown
<1>6. CASE Crash
  BY <1>6 DEF Crash
<1>7. CASE Tick
  BY <1>7 DEF Tick
<1>8. ASSUME NEW r \in Reqs, NEW f \in Files, NEW u \in Users, NEW level \in Levels,
             StartUpload(r, f, u, level)
      PROVE  TypeOK'
  <2>1. [owner |-> u, level |-> level, kek |-> kek, deleted |-> FALSE,
         deletedAt |-> 0] \in FileDoc
    BY <1>8 DEF StartUpload, KekIsKnown, FileDoc
  <2>2. [Begin("storeDek") EXCEPT !.file = f,
           !.doc = [owner |-> u, level |-> level, kek |-> kek, deleted |-> FALSE,
                    deletedAt |-> 0]] \in Request
    BY <2>1, TypeOfBegin DEF Stages, Request
  <2>. QED BY <1>8, <2>2 DEF StartUpload
<1>9. ASSUME NEW r \in Reqs, NEW stage \in Stages, req[r] # None
      PROVE  [req EXCEPT ![r].stage = stage]
                \in [Reqs -> Request \union {None}]
  BY <1>9 DEF Request
<1>10. ASSUME NEW r \in Reqs, StoreDek(r) PROVE TypeOK'
  <2>1. req' \in [Reqs -> Request \union {None}]
    BY <1>9, <1>10 DEF StoreDek, At, Stages
  <2>2. req[r].file \in Files
    BY <1>10 DEF StoreDek, At, RequestsFit, Fits, UploadFits, UploadStages
  <2>. QED BY <1>10, <2>1, <2>2 DEF StoreDek
<1>11. ASSUME NEW r \in Reqs, UploadBytes(r) PROVE TypeOK'
  <2>1. req' \in [Reqs -> Request \union {None}]
    BY <1>9, <1>11 DEF UploadBytes, At, Stages
  <2>2. req[r].file \in Files
    BY <1>11 DEF UploadBytes, At, RequestsFit, Fits, UploadFits, UploadStages
  <2>. QED BY <1>11, <2>1, <2>2 DEF UploadBytes
<1>12. ASSUME NEW r \in Reqs, CreateMetadata(r) PROVE TypeOK'
  <2>1. req[r].file \in Files /\ req[r].doc \in FileDoc
    BY <1>12 DEF CreateMetadata, At, RequestsFit, Fits, UploadFits, UploadStages
  <2>. QED BY <1>12, <2>1 DEF CreateMetadata
<1>13. ASSUME NEW r \in Reqs, NEW f \in Files, NEW u \in Users, FindForDelete(r, f, u)
       PROVE  TypeOK'
  <2>1. now \in Nat /\ Begin("saveDeleted") \in Request
    BY TypeOfBegin DEF Stages
  <2>2. [Begin("saveDeleted") EXCEPT !.file = f, !.at = now] \in Request
    BY <2>1 DEF Request
  <2>. QED BY <1>13, <2>2 DEF FindForDelete
<1>14. ASSUME NEW r \in Reqs, SaveDeleted(r) PROVE TypeOK'
  <2>1. req[r] \in Request /\ req[r].at \in Nat /\ req[r].file \in Files
    BY <1>14 DEF SaveDeleted, At, Request, RequestsFit, Fits, DeleteFits
  <2>2. ASSUME Stored(req[r].file)
        PROVE  [files[req[r].file] EXCEPT !.deleted = TRUE, !.deletedAt = req[r].at]
                  \in FileDoc
    <3>1. files[req[r].file] \in FileDoc /\ req[r].at \in Nat
      BY <2>1, <2>2 DEF Stored
    <3>. QED BY <3>1 DEF FileDoc
  <2>3. files' \in [Files -> FileDoc \union {None}]
    BY <1>14, <2>1, <2>2 DEF SaveDeleted, Stored
  <2>. QED BY <1>14, <2>3 DEF SaveDeleted
<1>15. ASSUME NEW r \in Reqs, StartCleanup(r) PROVE TypeOK'
  <2>1. [Begin("cleanup") EXCEPT !.batch = ExpiredFiles] \in Request
    BY TypeOfBegin DEF Stages, Request, ExpiredFiles
  <2>. QED BY <1>15, <2>1 DEF StartCleanup
<1>16. ASSUME NEW r \in Reqs, Exists(r) \/ Unlink(r) PROVE TypeOK'
  <2>1. CASE Exists(r)
    <3>1. PICK f \in req[r].batch, seen \in BOOLEAN :
             /\ missed' = IF ~seen /\ f \in disk THEN missed \union {f} ELSE missed
             /\ req' = [req EXCEPT ![r] = Checked(req[r], f, seen)]
      BY <2>1 DEF Exists, Checked
    <3>2. req[r] \in Request /\ f \in Files
      BY <2>1 DEF Exists, At, Request
    <3>3. Checked(req[r], f, seen) \in Request
      BY <3>2 DEF Checked, Request, Stages
    <3>. QED BY <2>1, <3>1, <3>2, <3>3 DEF Exists
  <2>2. CASE Unlink(r)
    <3>1. req' \in [Reqs -> Request \union {None}]
      BY <1>9, <2>2 DEF Unlink, At, Stages
    <3>. QED BY <2>2, <3>1 DEF Unlink
  <2>. QED BY <1>16, <2>1, <2>2
<1>17. ASSUME NEW r \in Reqs, req[r] # None, NEW batch \in SUBSET Files,
              NextFile(r, batch)
       PROVE  req' \in [Reqs -> Request \union {None}]
  <2>1. req[r] \in Request
    BY <1>17
  <2>2. [req[r] EXCEPT !.stage = "cleanup", !.file = None, !.batch = batch] \in Request
    BY <2>1 DEF Request, Stages
  <2>. QED BY <1>17, <2>2 DEF NextFile
<1>18. ASSUME NEW r \in Reqs, DeleteMetadata(r) PROVE TypeOK'
  <2>1. req[r] # None /\ req[r].batch \in SUBSET Files
    BY <1>18 DEF DeleteMetadata, At, Request
  <2>. QED BY <1>17, <1>18, <2>1 DEF DeleteMetadata
<1>19. ASSUME NEW r \in Reqs, RotateKek(r) PROVE TypeOK'
  <2>1. PICK k \in Keys \ made :
           /\ kek' = k /\ made' = made \union {k}
           /\ req' = [req EXCEPT ![r] = [Begin("saveKek") EXCEPT !.old = kek, !.new = k]]
    BY <1>19 DEF RotateKek
  <2>2. [Begin("saveKek") EXCEPT !.old = kek, !.new = k] \in Request
    BY TypeOfBegin DEF Stages, Request, Kek
  <2>3. req' \in [Reqs -> Request \union {None}]
    BY <2>1, <2>2
  <2>. QED BY <1>19, <2>1, <2>3 DEF RotateKek, Kek
<1>20. ASSUME NEW r \in Reqs, SaveKek(r) PROVE TypeOK'
  BY <1>20 DEF SaveKek, At, RequestsFit, Fits, RotationFits
<1>21. ASSUME NEW r \in Reqs, Fail(r) PROVE TypeOK'
  <2>1. CASE Finish(r)
    BY <1>21, <2>1 DEF Fail
  <2>2. CASE (At(r, "unlink") \/ At(r, "deleteOne")) /\ NextFile(r, req[r].batch)
    <3>1. req[r] # None /\ req[r].batch \in SUBSET Files
      BY <2>2 DEF At, Request
    <3>2. req' \in [Reqs -> Request \union {None}]
      BY <1>17, <2>2, <3>1
    <3>. QED BY <1>21, <3>2 DEF Fail
  <2>. QED BY <1>21, <2>1, <2>2 DEF Fail
<1>22. CASE UNCHANGED vars
  BY <1>22 DEF vars
<1>. QED
  BY <1>1, <1>2, <1>3, <1>4, <1>5, <1>6, <1>7, <1>8, <1>10, <1>11, <1>12, <1>13, <1>14,
     <1>15, <1>16, <1>18, <1>19, <1>20, <1>21, <1>22
  DEF Next, Start, UploadFile, DeleteFile, CleanupExpiredFiles, RotateKey

-----------------------------------------------------------------------------
(* The invariant is kept. *)

\* Request r becomes q, which fits, and the others still do.
LEMMA FitStep ==
    ASSUME IInv, NEW r \in Reqs, NEW q \in Request \union {None},
           req' = [req EXCEPT ![r] = q],
           q # None => Fits(q)',
           \A s \in Reqs \ {r} : \A x \in Request :
               req[s] = x /\ Fits(x) => Fits(x)',
           q # None /\ q.stage \in UploadStages =>
               q.file \notin taken \/ Uploads(req[r], q.file)
    PROVE  RequestsFit' /\ UploadsDiffer'
<1>1. /\ req'[r] = q
      /\ \A s \in Reqs \ {r} : req'[s] = req[s]
      /\ \A s \in Reqs : req[s] # None => req[s] \in Request
  BY DEF IInv, TypeOK
<1>2. RequestsFit'
  <2>. SUFFICES ASSUME NEW s \in Reqs, req'[s] # None PROVE Fits(req[s])'
    BY DEF RequestsFit
  <2>1. PICK x : x = req'[s]
    OBVIOUS
  <2>2. Fits(x)'
    BY <1>1, <2>1 DEF IInv, RequestsFit
  <2>. QED BY <2>1, <2>2 DEF Fits, UploadFits, DeleteFits, CleanupFits, RotationFits
<1>3. UploadsDiffer'
  <2>1. ASSUME NEW s \in Reqs \ {r}, NEW f \in Files, Uploads(q, f), Uploads(req[s], f)
        PROVE  FALSE
    <3>1. f \in taken
      BY <2>1 DEF IInv, RequestsFit, Fits, UploadFits, Uploads
    <3>2. Uploads(req[r], f)
      BY <2>1, <3>1 DEF Uploads
    <3>. QED BY <2>1, <3>2 DEF IInv, UploadsDiffer
  <2>. QED BY <1>1, <2>1 DEF IInv, UploadsDiffer, Uploads
<1>. QED BY <1>2, <1>3

\* What fits stays fitting while nothing a request relies on changes.
LEMMA FitsUnchanged ==
    ASSUME UNCHANGED <<now, store, asked, missed>>, NEW x
    PROVE  Fits(x)' <=> Fits(x)
BY DEF store, Fits, UploadFits, DeleteFits, CleanupFits, RotationFits, Removable,
       Visible, Stored

LEMMA CollectionUnchanged ==
    ASSUME IInv, UNCHANGED <<now, store, asked, missed>>
    PROVE  /\ UntakenIsFree' /\ DeletionIsAsked' /\ AskedIsPast'
           /\ VisibleIsOnDisk' /\ OnlyMissedBytesStay'
BY DEF store, IInv, UntakenIsFree, DeletionIsAsked, AskedIsPast, VisibleIsOnDisk,
       OnlyMissedBytesStay, Visible, Stored

\* A step of a request that leaves the store alone.
LEMMA RequestStep ==
    ASSUME IInv, TypeOK', NEW r \in Reqs, NEW q \in Request \union {None},
           UNCHANGED <<now, store, asked, missed>>,
           req' = [req EXCEPT ![r] = q],
           q # None => Fits(q),
           q # None /\ q.stage \in UploadStages => Uploads(req[r], q.file),
           KekIsKnown'
    PROVE  IInv'
<1>1. RequestsFit' /\ UploadsDiffer'
  BY FitStep, FitsUnchanged
<1>. QED BY <1>1, CollectionUnchanged DEF IInv

\* Serving a request does not touch the process.
LEMMA ServingStep ==
    ASSUME IInv, NEW r \in Reqs, req[r] # None \/ boot = "ready",
           NEW q, req' = [req EXCEPT ![r] = q], UNCHANGED <<boot, kek>>
    PROVE  KekIsKnown'
BY DEF IInv, TypeOK, KekIsKnown

\* A step of the process that has no requests, before or after.
LEMMA BootStep ==
    ASSUME IInv, TypeOK', UNCHANGED <<now, store, asked, missed>>,
           \A r \in Reqs : req'[r] = None,
           boot' = "write" => kek' \in Keys,
           boot' = "ready" => kek' \in Kek
    PROVE  IInv'
BY CollectionUnchanged
DEF IInv, RequestsFit, UploadsDiffer, Uploads, KekIsKnown

\* The request of r is well typed and may rely on what it should.
LEMMA InHand ==
    ASSUME IInv, NEW r \in Reqs, req[r] # None
    PROVE  req[r] \in Request /\ Fits(req[r]) /\ boot = "ready"
BY DEF IInv, TypeOK, RequestsFit, KekIsKnown

LEMMA StartKeepsInvariant ==
    ASSUME IInv, TypeOK', Start \/ Crash
    PROVE  IInv'
<1>. USE DEF keys, store
<1>1. CASE StartProcess
  BY <1>1, BootStep DEF StartProcess, Fallback, Kek, IInv, KekIsKnown
<1>2. CASE Connect
  BY <1>2, BootStep DEF Connect, IInv, KekIsKnown
<1>3. CASE LoadKek
  BY <1>3, BootStep DEF LoadKek, Fallback, Kek, IInv, TypeOK, KekIsKnown
<1>4. CASE CheckHealth
  BY <1>4, BootStep DEF CheckHealth, Fallback, Kek, IInv, KekIsKnown
<1>5. CASE WriteKek
  BY <1>5, BootStep DEF WriteKek, Fallback, Kek, IInv, KekIsKnown
<1>6. CASE Crash
  BY <1>6, BootStep DEF Crash
<1>. QED BY <1>1, <1>2, <1>3, <1>4, <1>5, <1>6 DEF Start

LEMMA UploadKeepsInvariant ==
    ASSUME IInv, TypeOK', NEW r \in Reqs, UploadFile(r)
    PROVE  IInv'
<1>1. ASSUME NEW f \in Files, NEW u \in Users, NEW level \in Levels,
             StartUpload(r, f, u, level)
      PROVE  IInv'
  <2>1. PICK q : q = [Begin("storeDek") EXCEPT !.file = f,
                  !.doc = [owner |-> u, level |-> level, kek |-> kek,
                           deleted |-> FALSE, deletedAt |-> 0]]
    OBVIOUS
  <2>2. req' = [req EXCEPT ![r] = q] /\ f \notin taken /\ boot = "ready"
    BY <1>1, <2>1 DEF StartUpload, Become, Idle
  <2>3. /\ q \in Request /\ q # None
        /\ q.stage = "storeDek" /\ q.file = f
        /\ q.doc \in FileDoc /\ ~q.doc.deleted
    <3>1. kek \in Kek
      BY <2>2 DEF IInv, KekIsKnown
    <3>2. q.doc = [owner |-> u, level |-> level, kek |-> kek,
                   deleted |-> FALSE, deletedAt |-> 0]
      BY <2>1 DEF Begin
    <3>3. q.doc \in FileDoc /\ ~q.doc.deleted
      BY <3>1, <3>2, FileStoreAssumption DEF FileDoc
    <3>4. q \in Request
      BY <2>1, <3>2, <3>3, TypeOfBegin DEF Begin, Request, Stages
    <3>. QED BY <2>1, <3>3, <3>4, FileStoreAssumption DEF Begin
  <2>4. Fits(q)'
    BY <1>1, <2>2, <2>3
    DEF StartUpload, Fits, UploadFits, DeleteFits, CleanupFits, RotationFits, Stored,
        IInv, UntakenIsFree
  <2>5. \A x \in Request : Fits(x) => Fits(x)'
    BY <1>1
    DEF StartUpload, Fits, UploadFits, DeleteFits, CleanupFits, RotationFits, Stored,
        Removable, Visible
  <2>6. RequestsFit' /\ UploadsDiffer'
    BY <2>2, <2>3, <2>4, <2>5, FitStep
  <2>7. KekIsKnown'
    BY <1>1, <2>2, ServingStep DEF StartUpload, keys
  <2>. QED
    BY <1>1, <2>6, <2>7
    DEF StartUpload, IInv, UntakenIsFree, DeletionIsAsked, AskedIsPast, VisibleIsOnDisk,
        OnlyMissedBytesStay, Visible, Stored
<1>2. CASE StoreDek(r)
  <2>1. PICK q : q = [req[r] EXCEPT !.stage = "upload"]
    OBVIOUS
  <2>2. /\ req[r] \in Request /\ Fits(req[r]) /\ boot = "ready"
        /\ req[r].stage = "storeDek" /\ req[r] # None
    BY <1>2, InHand DEF StoreDek, At
  <2>3. /\ req' = [req EXCEPT ![r] = q] /\ q \in Request
        /\ q.stage = "upload" /\ q.file = req[r].file /\ q.doc = req[r].doc
    BY <1>2, <2>1, <2>2 DEF StoreDek, Goto, Request, Stages
  <2>4. Fits(q)'
    BY <1>2, <2>2, <2>3
    DEF StoreDek, Fits, UploadFits, DeleteFits, CleanupFits, RotationFits, UploadStages,
        Stored
  <2>5. \A x \in Request : Fits(x) => Fits(x)'
    BY <1>2
    DEF StoreDek, Fits, UploadFits, DeleteFits, CleanupFits, RotationFits, Stored,
        Removable, Visible
  <2>6. RequestsFit' /\ UploadsDiffer'
    BY <2>2, <2>3, <2>4, <2>5, FitStep DEF Uploads, UploadStages
  <2>7. KekIsKnown'
    BY <1>2, <2>2, <2>3, ServingStep DEF StoreDek, keys
  <2>. QED
    BY <1>2, <2>6, <2>7
    DEF StoreDek, IInv, UntakenIsFree, DeletionIsAsked, AskedIsPast, VisibleIsOnDisk,
        OnlyMissedBytesStay, Visible, Stored
<1>3. CASE UploadBytes(r)
  <2>1. PICK q : q = [req[r] EXCEPT !.stage = "create"]
    OBVIOUS
  <2>2. /\ req[r] \in Request /\ Fits(req[r]) /\ boot = "ready"
        /\ req[r].stage = "upload" /\ req[r] # None
    BY <1>3, InHand DEF UploadBytes, At
  <2>3. /\ req' = [req EXCEPT ![r] = q] /\ q \in Request
        /\ q.stage = "create" /\ q.file = req[r].file /\ q.doc = req[r].doc
    BY <1>3, <2>1, <2>2 DEF UploadBytes, Goto, Request, Stages
  <2>4. asked[req[r].file] = None
    BY <2>2 DEF Fits, UploadFits, UploadStages
  <2>5. Fits(q)'
    BY <1>3, <2>2, <2>3
    DEF UploadBytes, Fits, UploadFits, DeleteFits, CleanupFits, RotationFits,
        UploadStages, Stored
  <2>6. \A x \in Request : Fits(x) => Fits(x)'
    BY <1>3, <2>4
    DEF UploadBytes, Fits, UploadFits, DeleteFits, CleanupFits, RotationFits, Stored,
        Removable, Visible
  <2>7. RequestsFit' /\ UploadsDiffer'
    BY <2>2, <2>3, <2>5, <2>6, FitStep DEF Uploads, UploadStages
  <2>8. KekIsKnown'
    BY <1>3, <2>2, <2>3, ServingStep DEF UploadBytes, keys
  <2>. QED
    BY <1>3, <2>4, <2>7, <2>8
    DEF UploadBytes, IInv, UntakenIsFree, DeletionIsAsked, AskedIsPast, VisibleIsOnDisk,
        OnlyMissedBytesStay, Visible, Stored
<1>4. CASE CreateMetadata(r)
  <2>1. /\ req[r] \in Request /\ Fits(req[r]) /\ boot = "ready"
        /\ req[r].stage = "create" /\ req[r] # None
    BY <1>4, InHand DEF CreateMetadata, At
  <2>2. PICK f \in Files : f = req[r].file
    BY <2>1 DEF Fits, UploadFits, UploadStages
  <2>3. /\ f \in taken /\ asked[f] = None /\ f \in disk
        /\ req[r].doc \in FileDoc /\ ~req[r].doc.deleted /\ Uploads(req[r], f)
    BY <2>1, <2>2 DEF Fits, UploadFits, UploadStages, Uploads
  <2>4. /\ files'[f] = req[r].doc
        /\ \A g \in Files : g # f => files'[g] = files[g]
        /\ UNCHANGED <<now, disk, taken, asked, missed, boot, kek>>
        /\ req' = [req EXCEPT ![r] = None]
    BY <1>4, <2>2 DEF CreateMetadata, Finish, IInv, TypeOK, keys
  <2>5. ASSUME NEW s \in Reqs \ {r}, NEW x \in Request, req[s] = x, Fits(x)
        PROVE  Fits(x)'
    <3>1. UploadFits(x)'
      <4>. SUFFICES ASSUME x.stage \in UploadStages PROVE UploadFits(x)'
        BY DEF UploadFits
      <4>1. x.file \in Files /\ x.file # f
        BY <2>3, <2>5, FileStoreAssumption
        DEF IInv, UploadsDiffer, Uploads, Fits, UploadFits
      <4>. QED BY <2>4, <2>5, <4>1 DEF Fits, UploadFits, Stored
    <3>2. CleanupFits(x)'
      <4>1. \A g \in Files : Removable(g) => Removable(g)'
        BY <2>3, <2>4 DEF Removable, Visible, Stored
      <4>2. x.batch \subseteq Files
        BY DEF Request
      <4>. QED BY <2>4, <2>5, <4>1, <4>2 DEF Fits, CleanupFits
    <3>. QED BY <2>4, <2>5, <3>1, <3>2 DEF Fits, DeleteFits, RotationFits
  <2>6. RequestsFit' /\ UploadsDiffer'
    BY <2>4, <2>5, FitStep
  <2>7. KekIsKnown'
    BY <2>1, <2>4, ServingStep
  <2>8. UntakenIsFree' /\ DeletionIsAsked' /\ AskedIsPast' /\ VisibleIsOnDisk'
    BY <2>3, <2>4
    DEF IInv, UntakenIsFree, DeletionIsAsked, AskedIsPast, VisibleIsOnDisk, Visible, Stored
  <2>9. OnlyMissedBytesStay'
    <3>1. disk \subseteq Files
      BY DEF IInv, TypeOK
    <3>. QED BY <2>3, <2>4, <3>1 DEF IInv, OnlyMissedBytesStay, Stored
  <2>. QED BY <2>6, <2>7, <2>8, <2>9 DEF IInv
<1>. QED BY <1>1, <1>2, <1>3, <1>4 DEF UploadFile

LEMMA DeleteKeepsInvariant ==
    ASSUME IInv, TypeOK', NEW r \in Reqs, DeleteFile(r)
    PROVE  IInv'
<1>. USE DEF IInv
<1>0. now \in Nat /\ Retention \in Nat /\ asked \in [Files -> Nat \union {None}]
  BY FileStoreAssumption DEF TypeOK
<1>1. ASSUME NEW f \in Files, NEW u \in Users, FindForDelete(r, f, u)
      PROVE  IInv'
  <2>1. PICK q : q = [Begin("saveDeleted") EXCEPT !.file = f, !.at = now]
    OBVIOUS
  <2>2. /\ req' = [req EXCEPT ![r] = q] /\ boot = "ready" /\ Visible(f)
        /\ UNCHANGED <<now, files, disk, taken, missed, boot, kek>>
    BY <1>1, <2>1 DEF FindForDelete, Become, Idle, keys, store
  <2>3. q \in Request /\ q.stage = "saveDeleted" /\ q.file = f /\ q.at = now
    <3>1. Begin("saveDeleted") \in Request
      BY TypeOfBegin DEF Stages
    <3>. QED BY <1>0, <2>1, <3>1 DEF Begin, Request
  <2>4. /\ asked'[f] # None /\ asked'[f] <= now
        /\ \A g \in Files : g # f \/ asked[f] # None => asked'[g] = asked[g]
    <3>1. CASE asked[f] = None
      <4>1. asked' = [asked EXCEPT ![f] = now]
        BY <1>1, <3>1 DEF FindForDelete
      <4>. QED BY <1>0, <3>1, <4>1, FileStoreAssumption
    <3>2. CASE asked[f] # None
      <4>1. asked' = asked
        BY <1>1, <3>2 DEF FindForDelete
      <4>2. asked[f] <= now
        BY <3>2 DEF AskedIsPast
      <4>. QED BY <3>2, <4>1, <4>2
    <3>. QED BY <3>1, <3>2
  <2>5. Fits(q)'
    BY <2>3, <2>4
    DEF Fits, UploadFits, DeleteFits, CleanupFits, RotationFits, UploadStages
  <2>6. ASSUME NEW x \in Request, Fits(x) PROVE Fits(x)'
    <3>1. UploadFits(x)'
      BY <2>2, <2>4, <2>6 DEF Fits, UploadFits, Visible, Stored
    <3>2. DeleteFits(x)'
      BY <2>4, <2>6 DEF Fits, DeleteFits
    <3>3. CleanupFits(x)'
      <4>1. \A g \in Files : Removable(g) => Removable(g)'
        BY <2>2, <2>4 DEF Removable, Visible, Stored
      <4>2. x.batch \subseteq Files
        BY DEF Request
      <4>. QED BY <2>2, <2>6, <4>1, <4>2 DEF Fits, CleanupFits
    <3>. QED BY <2>6, <3>1, <3>2, <3>3 DEF Fits, RotationFits
  <2>7. RequestsFit' /\ UploadsDiffer'
    BY <2>2, <2>3, <2>5, <2>6, FitStep DEF UploadStages
  <2>8. KekIsKnown'
    BY <2>2, ServingStep
  <2>9. UntakenIsFree' /\ DeletionIsAsked' /\ AskedIsPast' /\ VisibleIsOnDisk'
        /\ OnlyMissedBytesStay'
    <3>1. f \in taken /\ Stored(f) /\ ~files[f].deleted /\ disk \subseteq Files
      BY <2>2 DEF UntakenIsFree, Visible, TypeOK
    <3>. QED
      BY <2>2, <2>4, <3>1
      DEF UntakenIsFree, DeletionIsAsked, AskedIsPast, VisibleIsOnDisk,
          OnlyMissedBytesStay, Visible, Stored
  <2>. QED BY <2>7, <2>8, <2>9
<1>2. CASE SaveDeleted(r)
  <2>1. /\ req[r] \in Request /\ Fits(req[r]) /\ boot = "ready"
        /\ req[r].stage = "saveDeleted" /\ req[r] # None
    BY <1>2, InHand DEF SaveDeleted, At
  <2>2. PICK f \in Files : f = req[r].file
    BY <2>1 DEF Fits, DeleteFits
  <2>3. asked[f] # None /\ asked[f] <= req[r].at /\ req[r].at \in Nat
    BY <2>1, <2>2 DEF Fits, DeleteFits, Request
  <2>4. /\ \A g \in Files : g # f => files'[g] = files[g]
        /\ Stored(f) => files'[f] # None /\ files'[f].deleted
                        /\ files'[f].deletedAt = req[r].at
        /\ ~Stored(f) => files'[f] = files[f]
        /\ UNCHANGED <<now, disk, taken, asked, missed, boot, kek>>
        /\ req' = [req EXCEPT ![r] = None]
    <3>1. CASE Stored(f)
      <4>1. files' = [files EXCEPT ![f] = [files[f] EXCEPT !.deleted = TRUE,
                                                           !.deletedAt = req[r].at]]
        BY <1>2, <2>2, <3>1 DEF SaveDeleted
      <4>2. files[f] \in FileDoc
        BY <3>1 DEF Stored, TypeOK
      <4>3. files'[f] = [files[f] EXCEPT !.deleted = TRUE, !.deletedAt = req[r].at]
        BY <4>1 DEF TypeOK
      <4>4. files'[f].deleted /\ files'[f].deletedAt = req[r].at /\ files'[f] \in FileDoc
        BY <2>3, <4>2, <4>3 DEF FileDoc
      <4>5. files'[f] # None /\ \A g \in Files : g # f => files'[g] = files[g]
        BY <4>1, <4>4, FileStoreAssumption DEF TypeOK
      <4>. QED BY <1>2, <3>1, <4>4, <4>5 DEF SaveDeleted, Finish, keys
    <3>2. CASE ~Stored(f)
      BY <1>2, <2>2, <3>2 DEF SaveDeleted, Finish, keys
    <3>. QED BY <3>1, <3>2
  <2>5. ASSUME NEW x \in Request, Fits(x) PROVE Fits(x)'
    <3>1. UploadFits(x)'
      BY <2>4, <2>5 DEF Fits, UploadFits, Stored
    <3>2. CleanupFits(x)'
      <4>1. \A g \in Files : Removable(g) => Removable(g)'
        BY <2>4 DEF Removable, Visible, Stored
      <4>2. x.batch \subseteq Files
        BY DEF Request
      <4>. QED BY <2>4, <2>5, <4>1, <4>2 DEF Fits, CleanupFits
    <3>. QED BY <2>4, <2>5, <3>1, <3>2 DEF Fits, DeleteFits, RotationFits
  <2>6. RequestsFit' /\ UploadsDiffer'
    BY <2>4, <2>5, FitStep
  <2>7. KekIsKnown'
    BY <2>1, <2>4, ServingStep
  <2>8. UntakenIsFree' /\ DeletionIsAsked' /\ AskedIsPast' /\ VisibleIsOnDisk'
    BY <2>3, <2>4
    DEF UntakenIsFree, DeletionIsAsked, AskedIsPast, VisibleIsOnDisk, Visible, Stored
  <2>9. OnlyMissedBytesStay'
    <3>1. disk \subseteq Files
      BY DEF TypeOK
    <3>. QED BY <2>4, <3>1 DEF OnlyMissedBytesStay, Stored
  <2>. QED BY <2>6, <2>7, <2>8, <2>9
<1>. QED BY <1>1, <1>2 DEF DeleteFile

\* Removable stays so.
LEMMA RemovableStays ==
    ASSUME UNCHANGED <<now, asked>>, NEW f \in Files,
           files'[f] = files[f] \/ files'[f] = None, Removable(f)
    PROVE  Removable(f)'
BY DEF Removable, Visible, Stored

LEMMA CleanupKeepsInvariant ==
    ASSUME IInv, TypeOK', NEW r \in Reqs, CleanupExpiredFiles(r)
    PROVE  IInv'
<1>. USE DEF IInv
<1>0. /\ now \in Nat /\ Retention \in Nat /\ asked \in [Files -> Nat \union {None}]
      /\ disk \subseteq Files
  BY FileStoreAssumption DEF TypeOK
<1>1. CASE StartCleanup(r)
  <2>1. PICK q : q = [Begin("cleanup") EXCEPT !.batch = ExpiredFiles]
    OBVIOUS
  <2>2. /\ req' = [req EXCEPT ![r] = q] /\ boot = "ready"
        /\ UNCHANGED <<now, store, asked, missed, boot, kek>>
    BY <1>1, <2>1 DEF StartCleanup, Become, Idle, keys
  <2>3. q \in Request /\ q.stage = "cleanup" /\ q.batch = ExpiredFiles
    <3>1. Begin("cleanup") \in Request /\ ExpiredFiles \subseteq Files
      BY TypeOfBegin DEF Stages, ExpiredFiles
    <3>. QED BY <2>1, <3>1 DEF Begin, Request
  <2>4. ASSUME NEW f \in ExpiredFiles PROVE Removable(f)
    <3>1. /\ f \in Files /\ files[f] \in FileDoc /\ files[f].deleted
          /\ files[f].deletedAt + Retention <= now
      BY DEF ExpiredFiles, Stored, TypeOK
    <3>2. asked[f] # None /\ asked[f] <= files[f].deletedAt
      BY <3>1, FileStoreAssumption DEF DeletionIsAsked, Stored
    <3>3. asked[f] \in Nat /\ files[f].deletedAt \in Nat
      BY <1>0, <3>1, <3>2 DEF FileDoc
    <3>. QED BY <1>0, <3>1, <3>2, <3>3 DEF Removable, Visible
  <2>5. Fits(q)
    BY <2>3, <2>4 DEF Fits, UploadFits, DeleteFits, CleanupFits, RotationFits, UploadStages
  <2>6. KekIsKnown'
    BY <2>2, ServingStep
  <2>. QED BY <2>2, <2>3, <2>5, <2>6, RequestStep DEF UploadStages
<1>2. CASE Exists(r)
  <2>1. /\ req[r] \in Request /\ Fits(req[r]) /\ boot = "ready"
        /\ req[r].stage = "cleanup" /\ req[r] # None
    BY <1>2, InHand DEF Exists, At
  <2>2. PICK f \in req[r].batch, seen \in BOOLEAN :
           /\ missed' = IF ~seen /\ f \in disk THEN missed \union {f} ELSE missed
           /\ req' = [req EXCEPT ![r] = Checked(req[r], f, seen)]
    BY <1>2 DEF Exists, Become, Checked
  <2>3. PICK q : q = Checked(req[r], f, seen)
    OBVIOUS
  <2>4. /\ f \in Files /\ Removable(f)
        /\ \A g \in req[r].batch : g \in Files /\ Removable(g)
    BY <2>1 DEF Fits, CleanupFits, Request
  <2>5. /\ q \in Request /\ q.stage = (IF seen THEN "unlink" ELSE "deleteOne")
        /\ q.file = f /\ q.batch \subseteq req[r].batch
    BY <2>1, <2>3, <2>4 DEF Checked, Request, Stages
  <2>6. /\ UNCHANGED <<now, files, disk, taken, asked, boot, kek>>
        /\ missed \subseteq missed'
    BY <1>2, <2>2 DEF Exists, keys, store
  <2>7. \A g \in Files : Removable(g)' <=> Removable(g)
    BY <2>6 DEF Removable, Visible, Stored
  <2>8. Fits(q)'
    BY <2>2, <2>4, <2>5, <2>6, <2>7
    DEF Fits, UploadFits, DeleteFits, CleanupFits, RotationFits, UploadStages
  <2>9. ASSUME NEW x \in Request, Fits(x) PROVE Fits(x)'
    <3>1. CleanupFits(x)'
      BY <2>6, <2>7, <2>9 DEF Fits, CleanupFits, Request
    <3>. QED BY <2>6, <2>9, <3>1 DEF Fits, UploadFits, DeleteFits, RotationFits, Stored
  <2>10. RequestsFit' /\ UploadsDiffer'
    BY <2>2, <2>3, <2>5, <2>8, <2>9, FitStep DEF UploadStages
  <2>11. KekIsKnown'
    BY <2>1, <2>2, <2>6, ServingStep
  <2>. QED
    BY <2>6, <2>10, <2>11
    DEF UntakenIsFree, DeletionIsAsked, AskedIsPast, VisibleIsOnDisk,
        OnlyMissedBytesStay, Visible, Stored
<1>3. CASE Unlink(r)
  <2>1. /\ req[r] \in Request /\ Fits(req[r]) /\ boot = "ready"
        /\ req[r].stage = "unlink" /\ req[r] # None
    BY <1>3, InHand DEF Unlink, At
  <2>2. PICK f \in Files : f = req[r].file
    BY <2>1 DEF Fits, CleanupFits
  <2>3. PICK q : q = [req[r] EXCEPT !.stage = "deleteOne"]
    OBVIOUS
  <2>4. Removable(f) /\ \A g \in req[r].batch : g \in Files /\ Removable(g)
    BY <2>1, <2>2 DEF Fits, CleanupFits, Request
  <2>5. /\ q \in Request /\ q.stage = "deleteOne" /\ q.file = f
        /\ q.batch = req[r].batch
    BY <2>1, <2>2, <2>3 DEF Request, Stages
  <2>6. /\ UNCHANGED <<now, files, taken, asked, missed, boot, kek>>
        /\ disk' = disk \ {f} /\ req' = [req EXCEPT ![r] = q]
    BY <1>3, <2>2, <2>3 DEF Unlink, Goto, keys
  <2>7. \A g \in Files : Removable(g)' <=> Removable(g)
    BY <2>6 DEF Removable, Visible, Stored
  <2>8. Fits(q)'
    BY <2>4, <2>5, <2>6, <2>7
    DEF Fits, UploadFits, DeleteFits, CleanupFits, RotationFits, UploadStages
  <2>9. ASSUME NEW x \in Request, Fits(x) PROVE Fits(x)'
    <3>1. UploadFits(x)'
      BY <2>4, <2>6, <2>9 DEF Fits, UploadFits, Removable, Stored
    <3>2. CleanupFits(x)'
      BY <2>6, <2>7, <2>9 DEF Fits, CleanupFits, Request
    <3>. QED BY <2>6, <2>9, <3>1, <3>2 DEF Fits, DeleteFits, RotationFits
  <2>10. RequestsFit' /\ UploadsDiffer'
    BY <2>5, <2>6, <2>8, <2>9, FitStep DEF UploadStages
  <2>11. KekIsKnown'
    BY <2>1, <2>6, ServingStep
  <2>. QED
    BY <2>4, <2>6, <2>10, <2>11
    DEF UntakenIsFree, DeletionIsAsked, AskedIsPast, VisibleIsOnDisk,
        OnlyMissedBytesStay, Removable, Visible, Stored
<1>4. CASE DeleteMetadata(r)
  <2>1. /\ req[r] \in Request /\ Fits(req[r]) /\ boot = "ready"
        /\ req[r].stage = "deleteOne" /\ req[r] # None
    BY <1>4, InHand DEF DeleteMetadata, At
  <2>2. PICK f \in Files : f = req[r].file
    BY <2>1 DEF Fits, CleanupFits
  <2>3. f \in disk => f \in missed
    BY <2>1, <2>2 DEF Fits, CleanupFits
  <2>4. /\ files'[f] = None
        /\ \A g \in Files : g # f => files'[g] = files[g]
        /\ UNCHANGED <<now, disk, taken, asked, missed, boot, kek>>
    BY <1>4, <2>2 DEF DeleteMetadata, TypeOK, keys
  <2>5. PICK q \in Request \union {None} :
           /\ req' = [req EXCEPT ![r] = q]
           /\ q # None => q.stage = "cleanup" /\ q.batch = req[r].batch
    <3>1. [req[r] EXCEPT !.stage = "cleanup", !.file = None, !.batch = req[r].batch]
             \in Request
      BY <2>1 DEF Request, Stages
    <3>2. [req[r] EXCEPT !.stage = "cleanup", !.file = None,
                         !.batch = req[r].batch].stage = "cleanup"
          /\ [req[r] EXCEPT !.stage = "cleanup", !.file = None,
                            !.batch = req[r].batch].batch = req[r].batch
      BY <2>1 DEF Request
    <3>. QED BY <1>4, <3>1, <3>2 DEF DeleteMetadata, NextFile, Finish, Become
  <2>6. \A g \in Files : Removable(g) => Removable(g)'
    BY <2>4, RemovableStays
  <2>7. q # None => Fits(q)'
    BY <2>1, <2>5, <2>6
    DEF Fits, UploadFits, DeleteFits, CleanupFits, RotationFits, UploadStages, Request
  <2>8. ASSUME NEW x \in Request, Fits(x) PROVE Fits(x)'
    <3>1. UploadFits(x)'
      BY <2>4, <2>8 DEF Fits, UploadFits, Stored
    <3>2. CleanupFits(x)'
      BY <2>4, <2>6, <2>8 DEF Fits, CleanupFits, Request
    <3>. QED BY <2>4, <2>8, <3>1, <3>2 DEF Fits, DeleteFits, RotationFits
  <2>9. RequestsFit' /\ UploadsDiffer'
    BY <2>5, <2>7, <2>8, FitStep DEF UploadStages
  <2>10. KekIsKnown'
    BY <2>1, <2>4, <2>5, ServingStep
  <2>11. OnlyMissedBytesStay'
    BY <1>0, <2>3, <2>4 DEF OnlyMissedBytesStay, Stored
  <2>. QED
    BY <2>4, <2>9, <2>10, <2>11
    DEF UntakenIsFree, DeletionIsAsked, AskedIsPast, VisibleIsOnDisk, Visible, Stored
<1>. QED BY <1>1, <1>2, <1>3, <1>4 DEF CleanupExpiredFiles

LEMMA RotationKeepsInvariant ==
    ASSUME IInv, TypeOK', NEW r \in Reqs, RotateKey(r)
    PROVE  IInv'
<1>. USE DEF IInv
<1>1. CASE RotateKek(r)
  <2>1. PICK k \in Keys \ made :
           /\ kek' = k
           /\ req' = [req EXCEPT ![r] = [Begin("saveKek") EXCEPT !.old = kek, !.new = k]]
    BY <1>1 DEF RotateKek, Become
  <2>2. PICK q : q = [Begin("saveKek") EXCEPT !.old = kek, !.new = k]
    OBVIOUS
  <2>3. /\ boot = "ready" /\ boot' = boot /\ kek \in Kek
        /\ UNCHANGED <<now, store, asked, missed>>
    BY <1>1 DEF RotateKek, Idle, KekIsKnown
  <2>4. q \in Request /\ q.stage = "saveKek" /\ q.old = kek /\ q.new = k
    <3>1. Begin("saveKek") \in Request
      BY TypeOfBegin DEF Stages
    <3>. QED BY <2>2, <2>3, <3>1 DEF Begin, Request, Kek
  <2>5. Fits(q)
    BY <2>3, <2>4
    DEF Fits, UploadFits, DeleteFits, CleanupFits, RotationFits, UploadStages
  <2>6. KekIsKnown'
    BY <2>1, <2>3 DEF KekIsKnown, Kek
  <2>. QED BY <2>1, <2>2, <2>3, <2>4, <2>5, <2>6, RequestStep DEF UploadStages
<1>2. CASE SaveKek(r)
  <2>1. /\ boot = "ready" /\ boot' = boot /\ UNCHANGED <<now, store, asked, missed>>
        /\ req' = [req EXCEPT ![r] = None] /\ req[r].old \in Kek /\ kek \in Kek
    BY <1>2, InHand DEF SaveKek, At, Finish, Fits, RotationFits, KekIsKnown
  <2>2. KekIsKnown'
    BY <1>2, <2>1 DEF SaveKek, KekIsKnown
  <2>. QED BY <2>1, <2>2, RequestStep
<1>. QED BY <1>1, <1>2 DEF RotateKey

LEMMA FailKeepsInvariant ==
    ASSUME IInv, TypeOK', NEW r \in Reqs, Fail(r)
    PROVE  IInv'
<1>1. /\ req[r] \in Request /\ Fits(req[r]) /\ boot = "ready" /\ req[r] # None
      /\ UNCHANGED <<now, store, asked, missed, boot, kek>>
  BY InHand DEF Fail, At, keys
<1>2. CASE Finish(r)
  <2>1. KekIsKnown'
    BY <1>1, <1>2, ServingStep DEF Finish
  <2>. QED BY <1>1, <1>2, <2>1, RequestStep DEF Finish
<1>3. ASSUME NEW batch, batch \subseteq req[r].batch, NextFile(r, batch),
             req[r].stage \in {"unlink", "deleteOne"}
      PROVE  IInv'
  <2>1. CASE Finish(r)
    BY <1>2, <2>1
  <2>2. CASE ~Finish(r)
    <3>1. PICK q : q = [req[r] EXCEPT !.stage = "cleanup", !.file = None,
                                      !.batch = batch]
      OBVIOUS
    <3>2. req' = [req EXCEPT ![r] = q]
      BY <1>3, <2>2, <3>1 DEF NextFile, Become
    <3>3. q \in Request /\ q.stage = "cleanup" /\ q.batch = batch
      BY <1>1, <1>3, <3>1 DEF Request, Stages
    <3>4. Fits(q)
      BY <1>1, <1>3, <3>3
      DEF Fits, UploadFits, DeleteFits, CleanupFits, RotationFits, UploadStages
    <3>5. KekIsKnown'
      BY <1>1, <3>2, ServingStep
    <3>. QED BY <1>1, <3>2, <3>3, <3>4, <3>5, RequestStep DEF UploadStages
  <2>. QED BY <2>1, <2>2
<1>4. CASE (At(r, "unlink") \/ At(r, "deleteOne")) /\ NextFile(r, req[r].batch)
  BY <1>3, <1>4 DEF At
<1>. QED BY <1>2, <1>4 DEF Fail

LEMMA TickKeepsInvariant ==
    ASSUME IInv, TypeOK', Tick
    PROVE  IInv'
<1>. USE DEF IInv
<1>1. /\ now \in Nat /\ now' = now + 1 /\ Retention \in Nat
      /\ asked \in [Files -> Nat \union {None}]
      /\ UNCHANGED <<files, disk, taken, asked, missed, boot, kek, req>>
  BY FileStoreAssumption DEF Tick, TypeOK, store, keys
<1>2. \A f \in Files : Removable(f) => Removable(f)'
  BY <1>1 DEF Removable, Visible, Stored
<1>3. AskedIsPast'
  BY <1>1 DEF AskedIsPast
<1>4. ASSUME NEW r \in Reqs, req[r] # None PROVE Fits(req[r])'
  <2>1. PICK x \in Request : x = req[r] /\ Fits(x)
    BY <1>4, InHand
  <2>2. CleanupFits(x)'
    BY <1>1, <1>2, <2>1 DEF Fits, CleanupFits, Request
  <2>3. UploadFits(x)' /\ DeleteFits(x)' /\ RotationFits(x)'
    BY <1>1, <2>1 DEF Fits, UploadFits, DeleteFits, RotationFits, Stored
  <2>4. req'[r] = x
    BY <1>1, <2>1
  <2>. QED
    BY <2>2, <2>3, <2>4 DEF Fits, UploadFits, DeleteFits, CleanupFits, RotationFits
<1>5. RequestsFit'
  BY <1>1, <1>4 DEF RequestsFit
<1>. QED
  BY <1>1, <1>3, <1>5
  DEF UploadsDiffer, Uploads, KekIsKnown, UntakenIsFree, DeletionIsAsked,
      VisibleIsOnDisk, OnlyMissedBytesStay, Visible, Stored

LEMMA InvariantStep ==
    ASSUME IInv, [Next]_vars
    PROVE  IInv'
<1>1. TypeOK'
  BY TypeStep
<1>2. CASE UNCHANGED vars
  <2>1. UNCHANGED <<now, store, asked, missed, boot, kek, req>>
    BY <1>2 DEF vars, keys
  <2>2. RequestsFit'
    BY <2>1
    DEF IInv, RequestsFit, store, Fits, UploadFits, DeleteFits, CleanupFits,
        RotationFits, Removable, Visible, Stored
  <2>. QED BY <1>1, <2>1, <2>2, CollectionUnchanged
           DEF IInv, UploadsDiffer, Uploads, KekIsKnown
<1>. QED
  BY <1>1, <1>2, StartKeepsInvariant, UploadKeepsInvariant, DeleteKeepsInvariant,
     CleanupKeepsInvariant, RotationKeepsInvariant, FailKeepsInvariant,
     TickKeepsInvariant
  DEF Next

-----------------------------------------------------------------------------
(* Theorems. *)

\* The inductive invariant holds in every behavior.
THEOREM InvariantHolds == Spec => []IInv
<1>1. IInv /\ [Next]_vars => IInv'
  BY InvariantStep
<1>. QED
  BY InitHolds, <1>1, PTL DEF Spec

\* Collection, disk, keys and requests keep their types.
THEOREM TypeCorrect == Spec => []TypeOK
<1>1. IInv => TypeOK
  BY DEF IInv
<1>. QED
  BY InvariantHolds, <1>1, PTL

\* Every file that users can see has its bytes.
THEOREM BytesAreThere == Spec => []VisibleIsOnDisk
<1>1. IInv => VisibleIsOnDisk
  BY DEF IInv
<1>. QED
  BY InvariantHolds, <1>1, PTL

\* Bytes without metadata are those of an upload that never completed, or of a
\* file whose bytes exists() has failed to see.
THEOREM CleanupLeavesMissedOnly == Spec => []OnlyMissedBytesStay
<1>1. IInv => OnlyMissedBytesStay
  BY DEF IInv
<1>. QED
  BY InvariantHolds, <1>1, PTL

\* A step removes from the disk only bytes whose retention period is over.
LEMMA UnlinkedIsPast ==
    ASSUME IInv, [Next]_vars, NEW f \in disk \ disk'
    PROVE  asked[f] # None /\ now >= asked[f] + Retention
<1>1. PICK r \in Reqs : Unlink(r) /\ f = req[r].file
  BY DEF Next, Start, StartProcess, Connect, LoadKek, CheckHealth, WriteKek, Crash,
         UploadFile, StartUpload, StoreDek, UploadBytes, CreateMetadata,
         DeleteFile, FindForDelete, SaveDeleted, CleanupExpiredFiles, StartCleanup,
         Exists, Unlink, DeleteMetadata, RotateKey, RotateKek, SaveKek, Fail, Tick,
         store, vars
<1>2. Fits(req[r]) /\ req[r].stage = "unlink"
  BY <1>1, InHand DEF Unlink, At
<1>3. asked[f] # None /\ asked[f] + Retention <= now
  BY <1>1, <1>2 DEF Fits, CleanupFits, Removable
<1>4. asked[f] \in Nat /\ now \in Nat /\ Retention \in Nat
  BY <1>3, FileStoreAssumption DEF IInv, TypeOK
<1>. QED
  BY <1>3, <1>4

\* The bytes of a file are kept for the retention period.
THEOREM BytesAreKept == Spec => RetentionHolds
<1>1. IInv /\ [Next]_vars
        => [\A f \in disk \ disk' :
              asked[f] # None /\ now >= asked[f] + Retention]_vars
  BY UnlinkedIsPast
<1>. QED
  BY InvariantHolds, <1>1, PTL DEF Spec, RetentionHolds
-----------------------------------------------------------------------------
(* Data keys.  Without rotations, and while Vault answers a process that   *)
(* looks for its key, every process comes up with the same one: the one in *)
(* Vault, or the derived one if Vault is disabled.                         *)

\* The master key that restarts agree on; None until the first is in Vault.
AgreedKek == IF vault THEN vaultKek ELSE Derived

StartAgrees ==
    /\ boot \in {"connect", "load", "health", "write"} => vault
    /\ boot \in {"health", "write"} => vaultKek = None
    /\ boot = "ready" => kek = AgreedKek /\ kek # None

FilesAgree ==
    \A f \in Files : Stored(f) => files[f].kek = AgreedKek /\ AgreedKek # None

\* A request rotates nothing and uploads under the agreed key.
DekFits(q, k) ==
    /\ q.stage # "saveKek"
    /\ q.stage \in UploadStages => q.doc.kek = k

UploadsAgree == \A r \in Reqs : req[r] # None => DekFits(req[r], AgreedKek)

DekInv == StartAgrees /\ FilesAgree /\ UploadsAgree

\* A step that only serves: the keys stay and r becomes q.
LEMMA DekServing ==
    ASSUME IInv, DekInv, UNCHANGED <<vault, keys>>,
           NEW r \in Reqs, NEW q, req' = [req EXCEPT ![r] = q],
           q # None => DekFits(q, AgreedKek),
           \A f \in Files : files'[f] # None =>
              \/ files[f] # None /\ files'[f].kek = files[f].kek
              \/ files'[f].kek = AgreedKek /\ AgreedKek # None
    PROVE  DekInv'
<1>1. AgreedKek' = AgreedKek
  BY DEF AgreedKek, keys
<1>2. StartAgrees'
  BY <1>1 DEF DekInv, StartAgrees, keys
<1>3. FilesAgree'
  BY <1>1 DEF DekInv, FilesAgree, Stored
<1>4. \A s \in Reqs : req'[s] = IF s = r THEN q ELSE req[s]
  BY DEF IInv, TypeOK
<1>5. UploadsAgree'
  BY <1>1, <1>4 DEF DekInv, UploadsAgree, DekFits
<1>. QED
  BY <1>2, <1>3, <1>5 DEF DekInv

\* The request that takes the next step may rely on the agreed key.
LEMMA DekInHand ==
    ASSUME IInv, DekInv, NEW r \in Reqs, req[r] # None
    PROVE  /\ req[r] \in Request /\ DekFits(req[r], AgreedKek)
           /\ kek = AgreedKek /\ AgreedKek # None
BY InHand DEF DekInv, UploadsAgree, StartAgrees

LEMMA DekStart ==
    ASSUME IInv, DekInv, "start" \notin Outages, Start \/ Crash
    PROVE  DekInv'
<1>. USE FileStoreAssumption
     DEF IInv, TypeOK, DekInv, StartAgrees, AgreedKek, FilesAgree, UploadsAgree,
         KekIsKnown, Stored, keys, store
<1>1. CASE StartProcess
  BY <1>1 DEF StartProcess, Fallback, Kek
<1>2. CASE Connect
  BY <1>2 DEF Connect
<1>3. CASE LoadKek
  BY <1>3 DEF LoadKek
<1>4. CASE CheckHealth
  BY <1>4 DEF CheckHealth
<1>5. CASE WriteKek
  BY <1>5 DEF WriteKek, Kek
<1>6. CASE Crash
  BY <1>6 DEF Crash
<1>. QED
  BY <1>1, <1>2, <1>3, <1>4, <1>5, <1>6 DEF Start

LEMMA DekStep ==
    ASSUME IInv, DekInv, ~Rotations, "start" \notin Outages, [Next]_vars
    PROVE  DekInv'
<1>1. CASE Start \/ Crash
  BY <1>1, DekStart
<1>2. ASSUME NEW r \in Reqs, NEW f \in Files, NEW u \in Users, NEW level \in Levels,
             StartUpload(r, f, u, level)
      PROVE  DekInv'
  <2>1. PICK q : q = [Begin("storeDek") EXCEPT !.file = f,
                  !.doc = [owner |-> u, level |-> level, kek |-> kek,
                           deleted |-> FALSE, deletedAt |-> 0]]
    OBVIOUS
  <2>2. q.stage = "storeDek" /\ q.doc.kek = kek
    BY <2>1 DEF Begin
  <2>3. kek = AgreedKek
    BY <1>2 DEF StartUpload, Idle, DekInv, StartAgrees
  <2>4. DekFits(q, AgreedKek)
    BY <2>2, <2>3 DEF DekFits
  <2>. QED
    BY <1>2, <2>1, <2>4, DekServing DEF StartUpload, Become
<1>3. ASSUME NEW r \in Reqs, StoreDek(r) \/ UploadBytes(r) PROVE DekInv'
  <2>1. /\ req[r] # None /\ req[r].stage \in UploadStages
        /\ UNCHANGED <<vault, keys, files>>
    BY <1>3 DEF StoreDek, UploadBytes, At, UploadStages
  <2>2. PICK stage \in {"upload", "create"} :
           req' = [req EXCEPT ![r] = [req[r] EXCEPT !.stage = stage]]
    BY <1>3 DEF StoreDek, UploadBytes, Goto
  <2>3. DekFits([req[r] EXCEPT !.stage = stage], AgreedKek)
    BY <2>1, <2>2, DekInHand DEF DekFits, Request
  <2>. QED
    BY <2>1, <2>2, <2>3, DekServing
<1>4. ASSUME NEW r \in Reqs, CreateMetadata(r) PROVE DekInv'
  <2>1. /\ req[r] # None /\ req[r].doc.kek = AgreedKek /\ AgreedKek # None
    BY <1>4, DekInHand DEF CreateMetadata, At, DekFits, UploadStages
  <2>2. \A f \in Files : \/ files'[f] = files[f]
                         \/ files'[f].kek = AgreedKek
    BY <1>4, <2>1 DEF CreateMetadata, IInv, TypeOK
  <2>. QED
    BY <1>4, <2>1, <2>2, DekServing DEF CreateMetadata, Finish
<1>5. ASSUME NEW r \in Reqs, NEW f \in Files, NEW u \in Users, FindForDelete(r, f, u)
      PROVE  DekInv'
  <2>1. PICK q : q = [Begin("saveDeleted") EXCEPT !.file = f, !.at = now]
    OBVIOUS
  <2>2. DekFits(q, AgreedKek)
    BY <2>1 DEF Begin, DekFits, UploadStages
  <2>. QED
    BY <1>5, <2>1, <2>2, DekServing DEF FindForDelete, Become, store
<1>6. ASSUME NEW r \in Reqs, SaveDeleted(r) PROVE DekInv'
  <2>1. \A f \in Files : files'[f] # None =>
           files[f] # None /\ files'[f].kek = files[f].kek
    BY <1>6, FileStoreAssumption DEF SaveDeleted, IInv, TypeOK, Stored, FileDoc
  <2>. QED
    BY <1>6, <2>1, DekServing DEF SaveDeleted, Finish
<1>7. ASSUME NEW r \in Reqs, StartCleanup(r) PROVE DekInv'
  <2>1. PICK q : q = [Begin("cleanup") EXCEPT !.batch = ExpiredFiles]
    OBVIOUS
  <2>2. DekFits(q, AgreedKek)
    BY <2>1 DEF Begin, DekFits, UploadStages
  <2>. QED
    BY <1>7, <2>1, <2>2, DekServing DEF StartCleanup, Become, store
<1>8. ASSUME NEW r \in Reqs, NEW q, req' = [req EXCEPT ![r] = q],
             q = None \/ q.stage \in CleanupStages,
             UNCHANGED <<vault, keys>>,
             \A f \in Files : files'[f] \in {files[f], None}
      PROVE  DekInv'
  <2>1. q # None => DekFits(q, AgreedKek)
    BY <1>8 DEF DekFits, UploadStages
  <2>. QED
    BY <1>8, <2>1, DekServing
<1>9. ASSUME NEW r \in Reqs, Exists(r) \/ Unlink(r) \/ DeleteMetadata(r) \/ Fail(r)
      PROVE  DekInv'
  <2>1. /\ req[r] # None /\ UNCHANGED <<vault, keys>>
        /\ \A f \in Files : files'[f] \in {files[f], None}
    <3>1. CASE Exists(r) \/ Unlink(r)
      BY <3>1 DEF Exists, Unlink, At, store
    <3>2. CASE DeleteMetadata(r)
      BY <3>2 DEF DeleteMetadata, At, IInv, TypeOK
    <3>3. CASE Fail(r)
      BY <3>3 DEF Fail, At, store
    <3>. QED
      BY <1>9, <3>1, <3>2, <3>3
  <2>2. req[r] \in Request
    BY <2>1, InHand
  <2>3. ASSUME NEW batch, NextFile(r, batch) PROVE DekInv'
    <3>1. CASE Finish(r)
      BY <1>8, <2>1, <3>1 DEF Finish
    <3>2. CASE Become(r, [req[r] EXCEPT !.stage = "cleanup", !.file = None,
                                        !.batch = batch])
      <4>1. PICK q : q = [req[r] EXCEPT !.stage = "cleanup", !.file = None,
                                        !.batch = batch]
        OBVIOUS
      <4>2. q.stage = "cleanup"
        BY <2>2, <4>1 DEF Request
      <4>. QED
        BY <1>8, <2>1, <3>2, <4>1, <4>2 DEF Become
    <3>. QED
      BY <2>3, <3>1, <3>2 DEF NextFile
  <2>4. CASE Exists(r)
    <3>1. PICK f \in req[r].batch, seen \in BOOLEAN : Become(r, Checked(req[r], f, seen))
      BY <2>4 DEF Exists, Checked
    <3>2. PICK q : q = Checked(req[r], f, seen)
      OBVIOUS
    <3>3. q.stage \in CleanupStages
      BY <2>2, <3>2 DEF Checked, Request
    <3>. QED
      BY <1>8, <2>1, <3>1, <3>2, <3>3 DEF Become
  <2>5. CASE Unlink(r)
    <3>1. PICK q : q = [req[r] EXCEPT !.stage = "deleteOne"]
      OBVIOUS
    <3>2. q.stage \in CleanupStages
      BY <2>2, <3>1 DEF Request
    <3>. QED
      BY <1>8, <2>1, <2>5, <3>1, <3>2 DEF Unlink, Goto
  <2>6. CASE DeleteMetadata(r)
    BY <2>3, <2>6 DEF DeleteMetadata
  <2>7. CASE Fail(r)
    <3>1. Finish(r) \/ \E batch : NextFile(r, batch)
      BY <2>7 DEF Fail
    <3>2. CASE Finish(r)
      BY <1>8, <2>1, <3>2 DEF Finish
    <3>. QED
      BY <2>3, <3>1, <3>2
  <2>. QED
    BY <1>9, <2>4, <2>5, <2>6, <2>7
<1>10. ASSUME NEW r \in Reqs, RotateKey(r) PROVE FALSE
  <2>1. CASE RotateKek(r)
    BY ONLY <2>1, ~Rotations DEF RotateKek
  <2>2. CASE SaveKek(r)
    BY <2>2, DekInHand DEF SaveKek, At, DekFits
  <2>. QED
    BY <1>10, <2>1, <2>2 DEF RotateKey
<1>11. CASE Tick \/ UNCHANGED vars
  BY <1>11
  DEF Tick, vars, keys, store, DekInv, StartAgrees, AgreedKek, FilesAgree,
      UploadsAgree, DekFits, Stored
<1>. QED
  BY <1>1, <1>2, <1>3, <1>4, <1>5, <1>6, <1>7, <1>9, <1>10, <1>11
  DEF Next, UploadFile, DeleteFile, CleanupExpiredFiles

\* Without rotations, and unless Vault fails a process that looks for its key,
\* every file that users can see can be downloaded, for any number of crashes
\* and starts, the first of which may die with a key that is not in Vault.
THEOREM KeysSurviveRestarts ==
    ASSUME ~Rotations, "start" \notin Outages
    PROVE  Spec => []DeksRemainValid
<1>1. Init => DekInv
  BY DEF Init, DekInv, StartAgrees, FilesAgree, UploadsAgree, Stored
<1>2. IInv /\ DekInv /\ [Next]_vars => DekInv'
  BY DekStep, ~Rotations, "start" \notin Outages
<1>3. IInv /\ DekInv => DeksRemainValid
  BY DEF IInv, DekInv, StartAgrees, FilesAgree, DeksRemainValid, Downloadable,
         VisibleIsOnDisk, Visible
<1>. QED
  BY <1>1, <1>2, <1>3, InvariantHolds, PTL DEF Spec
-----------------------------------------------------------------------------
(* The listing and the access check, which two methods decide apart.        *)

\* What a user can read and is not shown: with "internal" and "public" files
\* open to everyone, only department files, to a manager who neither owns nor
\* administers them.
LEMMA ListingMisses ==
    ASSUME TypeOK, NEW u \in Users, NEW f \in Files
    PROVE  CanRead(u, f) <=>
              \/ f \in Listed(u)
              \/ /\ Visible(f) /\ files[f].level = "department"
                 /\ RoleOf[u] = "MANAGER" /\ ~CanManage(u, f)
<1>1. CASE Stored(f)
  <2>1. files[f].level \in AccessLevels
    BY <1>1 DEF TypeOK, Stored, FileDoc
  <2>. QED
    BY <2>1 DEF Listed, CanRead, AccessLevels
<1>2. CASE ~Stored(f)
  BY <1>2 DEF Listed, CanRead, Visible
<1>. QED
  BY <1>1, <1>2

\* The listing shows a user no file the access check would refuse him.
THEOREM ShowsOnlyReadable == Spec => []ListedIsReadable
<1>1. IInv => ListedIsReadable
  <2>. SUFFICES ASSUME TypeOK, NEW u \in Users, NEW f \in Listed(u)
                PROVE  CanRead(u, f)
    BY DEF IInv, ListedIsReadable
  <2>1. f \in Files
    BY DEF Listed
  <2>. QED
    BY <2>1, ListingMisses
<1>. QED
  BY InvariantHolds, <1>1, PTL

\* Under the assumptions of KeysSurviveRestarts, what a running process lists
\* for a user he can open: the access check lets him, the bytes are there and
\* the data key unwraps.
ListedIsServed ==
    boot = "ready" =>
        \A u \in Users : \A f \in Listed(u) : CanRead(u, f) /\ Downloadable(f)

\* Listing, access check, disk and keys agree about every file a user sees,
\* over any number of uploads, deletions, cleanups, failures and restarts.
THEOREM WhatIsListedIsServed ==
    ASSUME ~Rotations, "start" \notin Outages
    PROVE  Spec => []ListedIsServed
<1>1. ListedIsReadable /\ DeksRemainValid => ListedIsServed
  BY DEF ListedIsReadable, DeksRemainValid, ListedIsServed, Listed
<1>2. Spec => []DeksRemainValid
  BY KeysSurviveRestarts, ~Rotations, "start" \notin Outages
<1>. QED
  BY <1>1, <1>2, ShowsOnlyReadable, PTL
-----------------------------------------------------------------------------
(* What the ends of starts and cleanups rest on: their steps count down.     *)

\* The steps a start has left at most.
StartRank ==
    CASE boot = "down" -> RetryAttempts + 4
      [] boot = "connect" -> RetryAttempts + 4 - attempt
      [] boot = "load" -> 3
      [] boot = "health" -> 2
      [] boot = "write" -> 1
      [] boot = "ready" -> 0

StartIsBounded == StartRank \in 0..(RetryAttempts + 4)

LEMMA RankIsBounded == TypeOK => StartIsBounded
BY FileStoreAssumption DEF TypeOK, StartIsBounded, StartRank, BootStages

\* Only a start and the death of the process change how far it has come.
LEMMA BootChanges ==
    ASSUME [Next]_vars
    PROVE  Start \/ boot' = "down" \/ UNCHANGED <<boot, attempt>>
<1>1. ASSUME NEW r \in Reqs, UploadFile(r) PROVE UNCHANGED <<boot, attempt>>
  BY <1>1 DEF UploadFile, StartUpload, StoreDek, UploadBytes, CreateMetadata, keys
<1>2. ASSUME NEW r \in Reqs, DeleteFile(r) PROVE UNCHANGED <<boot, attempt>>
  BY <1>2 DEF DeleteFile, FindForDelete, SaveDeleted, keys
<1>3. ASSUME NEW r \in Reqs, CleanupExpiredFiles(r) PROVE UNCHANGED <<boot, attempt>>
  BY <1>3 DEF CleanupExpiredFiles, StartCleanup, Exists, Unlink, DeleteMetadata, keys
<1>4. ASSUME NEW r \in Reqs, RotateKey(r) PROVE UNCHANGED <<boot, attempt>>
  BY <1>4 DEF RotateKey, RotateKek, SaveKek
<1>5. ASSUME NEW r \in Reqs, Fail(r) PROVE UNCHANGED <<boot, attempt>>
  BY <1>5 DEF Fail, keys
<1>6. ASSUME Crash PROVE boot' = "down"
  BY <1>6 DEF Crash
<1>7. ASSUME Tick \/ UNCHANGED vars PROVE UNCHANGED <<boot, attempt>>
  BY <1>7 DEF Tick, vars, keys
<1>. QED
  BY <1>1, <1>2, <1>3, <1>4, <1>5, <1>6, <1>7 DEF Next

StartsCountDown ==
    [][boot' # "down" =>
          UNCHANGED <<boot, attempt>> \/ StartRank' < StartRank]_vars

\* The safe half of StartEnds: until the process dies every step of its start
\* is one of the RetryAttempts + 4 that it has, whatever Vault answers (if it
\* answers: a call to it has no timeout), and nothing takes it back.
THEOREM StartsAreShort == Spec => []StartIsBounded /\ StartsCountDown
<1>1. ASSUME TypeOK, [Next]_vars, boot' # "down"
      PROVE  UNCHANGED <<boot, attempt>> \/ StartRank' < StartRank
  <2>. USE FileStoreAssumption, <1>1 DEF StartRank, TypeOK
  <2>1. CASE StartProcess
    BY <2>1 DEF StartProcess, Fallback
  <2>2. CASE Connect
    BY <2>2 DEF Connect
  <2>3. CASE LoadKek
    BY <2>3 DEF LoadKek, Fallback
  <2>4. CASE CheckHealth
    BY <2>4 DEF CheckHealth, Fallback
  <2>5. CASE WriteKek
    BY <2>5 DEF WriteKek, Fallback
  <2>. QED
    BY <2>1, <2>2, <2>3, <2>4, <2>5, BootChanges DEF Start
<1>2. IInv => TypeOK
  BY DEF IInv
<1>. QED
  BY <1>1, <1>2, RankIsBounded, InvariantHolds, PTL DEF Spec, StartsCountDown

\* The steps a cleanup has left with the file it is at, and the order of the
\* rest: a file leaves the batch when exists() is called for it.
InCleanup(r) == req[r] # None /\ req[r].stage \in CleanupStages

FileRank(q) ==
    CASE q.stage = "unlink" -> 2 [] q.stage = "deleteOne" -> 1 [] OTHER -> 0

CleanupsCountDown ==
    [][\A r \in Reqs : InCleanup(r) =>
          \/ req'[r] \in {None, req[r]}
          \/ req'[r].batch \subseteq req[r].batch /\ req'[r].batch # req[r].batch
          \/ /\ req'[r].batch = req[r].batch
             /\ FileRank(req'[r]) < FileRank(req[r])]_vars

\* The safe half of DeletedIsRemoved: a cleanup takes at most three steps for
\* each file it has listed, lists nothing it has not listed at its start, and
\* goes on to the next file where one cannot be removed.
THEOREM CleanupsAreShort == Spec => CleanupsCountDown
<1>. DEFINE Down(r) ==
        \/ req'[r] \in {None, req[r]}
        \/ req'[r].batch \subseteq req[r].batch /\ req'[r].batch # req[r].batch
        \/ /\ req'[r].batch = req[r].batch
           /\ FileRank(req'[r]) < FileRank(req[r])
<1>1. ASSUME TypeOK, [Next]_vars, NEW r \in Reqs, InCleanup(r) PROVE Down(r)
  <2>0. req \in [Reqs -> Request \union {None}] /\ req[r] \in Request
    BY <1>1 DEF TypeOK, InCleanup
  <2>1. ASSUME NEW s \in Reqs, s # r, NEW q, req' = [req EXCEPT ![s] = q] PROVE Down(r)
    BY <2>0, <2>1
  <2>2. ASSUME NextFile(r, req[r].batch), At(r, "unlink") \/ At(r, "deleteOne")
        PROVE  Down(r)
    <3>. DEFINE batch == req[r].batch
    <3>1. CASE batch = {}
      BY <2>0, <2>2, <3>1 DEF NextFile, Finish
    <3>2. CASE batch # {}
      <4>1. PICK q : q = [req[r] EXCEPT !.stage = "cleanup", !.file = None,
                                        !.batch = batch]
        OBVIOUS
      <4>2. q.batch = batch /\ q.stage = "cleanup"
        BY <2>0, <4>1 DEF Request
      <4>3. req'[r] = q
        BY <2>0, <2>2, <3>2, <4>1 DEF NextFile, Become
      <4>. QED
        BY <2>2, <4>2, <4>3 DEF At, FileRank
    <3>. QED
      BY <3>1, <3>2
  <2>3. ASSUME Exists(r) \/ Unlink(r) PROVE Down(r)
    <3>1. CASE Exists(r)
      <4>1. PICK f \in req[r].batch, seen \in BOOLEAN :
               Become(r, Checked(req[r], f, seen))
        BY <3>1 DEF Exists, Checked
      <4>2. req'[r].batch = req[r].batch \ {f}
        BY <2>0, <4>1 DEF Become, Checked, Request
      <4>. QED
        BY <4>2
    <3>2. CASE Unlink(r)
      <4>1. req'[r].batch = req[r].batch /\ req'[r].stage = "deleteOne"
        BY <2>0, <3>2 DEF Unlink, Goto, Request
      <4>. QED
        BY <3>2, <4>1 DEF Unlink, At, FileRank
    <3>. QED
      BY <2>3, <3>1, <3>2
  <2>4. ASSUME DeleteMetadata(r) PROVE Down(r)
    BY <2>2, <2>4 DEF DeleteMetadata
  <2>5. ASSUME Fail(r) PROVE Down(r)
    <3>1. CASE Finish(r)
      BY <2>0, <3>1 DEF Finish
    <3>. QED
      BY <2>2, <2>5, <3>1 DEF Fail
  <2>6. ASSUME NEW s \in Reqs, s # r,
               \/ UploadFile(s) \/ DeleteFile(s) \/ CleanupExpiredFiles(s)
               \/ RotateKey(s) \/ Fail(s)
        PROVE  Down(r)
    <3>1. CASE UploadFile(s)
      BY <2>1, <2>6, <3>1
      DEF UploadFile, StartUpload, StoreDek, UploadBytes, CreateMetadata, Become,
          Goto, Finish
    <3>2. CASE DeleteFile(s)
      BY <2>1, <2>6, <3>2 DEF DeleteFile, FindForDelete, SaveDeleted, Become, Finish
    <3>3. CASE CleanupExpiredFiles(s)
      BY <2>1, <2>6, <3>3
      DEF CleanupExpiredFiles, StartCleanup, Exists, Unlink, DeleteMetadata, NextFile,
          Become, Goto, Finish
    <3>4. CASE RotateKey(s)
      BY <2>1, <2>6, <3>4 DEF RotateKey, RotateKek, SaveKek, Become, Finish
    <3>5. CASE Fail(s)
      BY <2>1, <2>6, <3>5 DEF Fail, NextFile, Become, Finish
    <3>. QED
      BY <2>6, <3>1, <3>2, <3>3, <3>4, <3>5
  <2>7. ASSUME \/ UploadFile(r) \/ DeleteFile(r) \/ RotateKey(r) \/ StartCleanup(r)
        PROVE  FALSE
    BY <1>1, <2>7
    DEF UploadFile, StartUpload, StoreDek, UploadBytes, CreateMetadata, DeleteFile,
        FindForDelete, SaveDeleted, RotateKey, RotateKek, SaveKek, StartCleanup,
        Idle, InCleanup, At
  <2>8. CASE Start \/ Crash \/ Tick \/ UNCHANGED vars
    BY <2>0, <2>8
    DEF Start, StartProcess, Connect, LoadKek, CheckHealth, WriteKek, Crash, Tick,
        vars
  <2>. QED
    BY <1>1, <2>3, <2>4, <2>5, <2>6, <2>7, <2>8 DEF Next, CleanupExpiredFiles
<1>2. IInv => TypeOK
  BY DEF IInv
<1>3. IInv /\ [Next]_vars => \A r \in Reqs : InCleanup(r) => Down(r)
  BY <1>1, <1>2
<1>. QED
  BY <1>3, InvariantHolds, PTL DEF Spec, CleanupsCountDown
-----------------------------------------------------------------------------
(* FileStore implements FileLifecycle. *)

Life == [f \in Files |-> Phase(f)]

\* Without a change of metadata, bytes and history nothing moves.
LEMMA SamePhases ==
    ASSUME UNCHANGED <<files, disk, asked>>
    PROVE  UNCHANGED Life
BY DEF Life, Phase, Stored

\* Of a change of one file's metadata or bytes only that file's phase can tell.
LEMMA OnePhase ==
    ASSUME NEW f \in Files, UNCHANGED asked,
           \A g \in Files : g # f =>
               files'[g] = files[g] /\ (g \in disk' <=> g \in disk)
    PROVE  Life' = [Life EXCEPT ![f] = Phase(f)']
<1>1. ASSUME NEW g \in Files, g # f PROVE Phase(g)' = Phase(g)
  BY <1>1 DEF Phase, Stored
<1>. QED
  BY <1>1 DEF Life

LEMMA AppearStep ==
    ASSUME IInv, NEW r \in Reqs, CreateMetadata(r)
    PROVE  \E f \in Files : Lifecycle!Appear(f)
<1>1. req[r] \in Request /\ Fits(req[r]) /\ req[r].stage = "create"
  BY InHand DEF CreateMetadata, At
<1>2. PICK f \in Files : f = req[r].file
  BY <1>1 DEF Fits, UploadFits, UploadStages
<1>3. ~Stored(f) /\ asked[f] = None /\ req[r].doc \in FileDoc /\ ~req[r].doc.deleted
  BY <1>1, <1>2 DEF Fits, UploadFits, UploadStages
<1>4. /\ files'[f] = req[r].doc
      /\ \A g \in Files : g # f => files'[g] = files[g]
      /\ UNCHANGED <<now, disk, asked, missed>>
  BY <1>2 DEF CreateMetadata, IInv, TypeOK
<1>5. Life[f] = "none"
  BY <1>3 DEF Phase, Stored, Life
<1>6. Phase(f)' = "visible"
  BY <1>3, <1>4, FileStoreAssumption DEF Phase, Stored
<1>. QED
  BY <1>4, <1>5, <1>6, OnePhase DEF Lifecycle!Appear, Lifecycle!Move, Life

LEMMA AskStep ==
    ASSUME IInv, NEW r \in Reqs, NEW f \in Files, NEW u \in Users,
           FindForDelete(r, f, u)
    PROVE  Lifecycle!Ask(f) \/ UNCHANGED <<now, Life, asked, missed>>
<1>1. Visible(f) /\ UNCHANGED <<now, files, disk, missed>>
  BY DEF FindForDelete, store
<1>2. CASE asked[f] # None
  BY <1>1, <1>2, SamePhases DEF FindForDelete
<1>3. CASE asked[f] = None
  <2>1. asked' = [asked EXCEPT ![f] = now]
    BY <1>3 DEF FindForDelete
  <2>2. Life[f] = "visible"
    BY <1>1 DEF Phase, Life, Visible, Stored
  <2>3. ASSUME NEW g \in Files PROVE Phase(g)' = Phase(g)
    BY <1>1, <2>1 DEF Phase, Visible, Stored, IInv, TypeOK
  <2>4. UNCHANGED Life
    BY <2>3 DEF Life
  <2>. QED
    BY <1>1, <1>3, <2>1, <2>2, <2>4 DEF Lifecycle!Ask, Life
<1>. QED
  BY <1>2, <1>3

LEMMA DeleteStep ==
    ASSUME IInv, NEW r \in Reqs, SaveDeleted(r)
    PROVE  \/ \E f \in Files : Lifecycle!Delete(f)
           \/ UNCHANGED <<now, Life, asked, missed>>
<1>1. req[r] \in Request /\ Fits(req[r]) /\ req[r].stage = "saveDeleted"
  BY InHand DEF SaveDeleted, At
<1>2. PICK f \in Files : f = req[r].file
  BY <1>1 DEF Fits, DeleteFits
<1>3. asked[f] # None /\ UNCHANGED <<now, disk, asked, missed>>
  BY <1>1, <1>2 DEF SaveDeleted, Fits, DeleteFits
<1>4. CASE ~Stored(f)
  BY <1>2, <1>3, <1>4, SamePhases DEF SaveDeleted
<1>5. CASE Stored(f)
  <2>1. files' = [files EXCEPT ![f] = [files[f] EXCEPT !.deleted = TRUE,
                                                       !.deletedAt = req[r].at]]
    BY <1>2, <1>5 DEF SaveDeleted
  <2>2. files[f] \in FileDoc
    BY <1>5 DEF Stored, IInv, TypeOK
  <2>3. files'[f] = [files[f] EXCEPT !.deleted = TRUE, !.deletedAt = req[r].at]
    BY <2>1 DEF IInv, TypeOK
  <2>4. files'[f] \in FileDoc /\ files'[f].deleted
    BY <1>1, <2>2, <2>3 DEF FileDoc, Request
  <2>5. Phase(f)' = "deleted"
    BY <2>4, FileStoreAssumption DEF Phase, Stored
  <2>6. \A g \in Files : g # f => files'[g] = files[g]
    BY <2>1 DEF IInv, TypeOK
  <2>7. Life' = [Life EXCEPT ![f] = "deleted"]
    BY <1>3, <2>5, <2>6, OnePhase
  <2>8. CASE files[f].deleted
    <3>1. Life[f] = "deleted"
      BY <1>5, <2>8 DEF Phase, Stored, Life
    <3>. QED
      BY <1>3, <2>7, <3>1 DEF Life
  <2>9. CASE ~files[f].deleted
    <3>1. Life[f] = "visible"
      BY <1>5, <2>9 DEF Phase, Stored, Life
    <3>. QED
      BY <1>3, <2>7, <3>1 DEF Lifecycle!Delete, Lifecycle!Move, Life
  <2>. QED
    BY <2>8, <2>9
<1>. QED
  BY <1>4, <1>5

\* The bytes of an upload belong to a file that has not appeared.
LEMMA BytesStep ==
    ASSUME IInv, NEW r \in Reqs, UploadBytes(r)
    PROVE  UNCHANGED <<now, Life, asked, missed>>
<1>1. Fits(req[r]) /\ req[r].stage = "upload"
  BY InHand DEF UploadBytes, At
<1>2. PICK f \in Files : f = req[r].file
  BY <1>1 DEF Fits, UploadFits, UploadStages
<1>3. ~Stored(f) /\ asked[f] = None
  BY <1>1, <1>2 DEF Fits, UploadFits, UploadStages
<1>4. disk' = disk \union {f} /\ UNCHANGED <<now, files, asked, missed>>
  BY <1>2 DEF UploadBytes
<1>5. ASSUME NEW g \in Files PROVE Phase(g)' = Phase(g)
  BY <1>3, <1>4 DEF Phase, Stored
<1>. QED
  BY <1>4, <1>5 DEF Life

\* What a cleanup may rely on, in the words of the lifecycle.
LEMMA RemovablePhase ==
    ASSUME IInv, NEW f \in Files, Removable(f)
    PROVE  /\ Life[f] = IF Stored(f) THEN "deleted"
                        ELSE IF f \in disk THEN "left" ELSE "gone"
           /\ now >= asked[f] + Retention
<1>1. asked[f] \in Nat /\ now \in Nat /\ Retention \in Nat
  BY FileStoreAssumption DEF Removable, IInv, TypeOK
<1>. QED
  BY <1>1 DEF Life, Phase, Removable, Visible

LEMMA MissStep ==
    ASSUME IInv, NEW r \in Reqs, Exists(r)
    PROVE  \/ \E f \in Files : Lifecycle!Miss(f)
           \/ UNCHANGED <<now, Life, asked, missed>>
<1>1. req[r] \in Request /\ Fits(req[r]) /\ req[r].stage = "cleanup"
  BY InHand DEF Exists, At
<1>2. PICK f \in req[r].batch, seen \in BOOLEAN :
         missed' = IF ~seen /\ f \in disk THEN missed \union {f} ELSE missed
  BY DEF Exists
<1>3. f \in Files /\ Removable(f)
  BY <1>1, <1>2 DEF Fits, CleanupFits, Request
<1>4. UNCHANGED <<now, files, disk, asked>> /\ UNCHANGED Life
  BY SamePhases DEF Exists, store
<1>5. CASE missed' = missed
  BY <1>4, <1>5
<1>6. CASE missed' = missed \union {f} /\ f \in disk /\ f \notin missed
  <2>1. Stored(f)
    BY <1>3, <1>6 DEF IInv, OnlyMissedBytesStay, Removable
  <2>2. Life[f] = "deleted" /\ now >= asked[f] + Retention
    BY <1>3, <2>1, RemovablePhase
  <2>. QED
    BY <1>3, <1>4, <1>6, <2>2 DEF Lifecycle!Miss, Lifecycle!Over, Life
<1>. QED
  BY <1>2, <1>5, <1>6

LEMMA UnlinkStep ==
    ASSUME IInv, NEW r \in Reqs, Unlink(r)
    PROVE  \/ \E f \in Files : Lifecycle!Remove(f)
           \/ UNCHANGED <<now, Life, asked, missed>>
<1>1. Fits(req[r]) /\ req[r].stage = "unlink"
  BY InHand DEF Unlink, At
<1>2. PICK f \in Files : f = req[r].file
  BY <1>1 DEF Fits, CleanupFits
<1>3. /\ Removable(f) /\ UNCHANGED <<now, files, asked, missed>>
      /\ disk' = disk \ {f}
  BY <1>1, <1>2 DEF Unlink, Fits, CleanupFits
<1>4. Life' = [Life EXCEPT ![f] = Phase(f)']
  BY <1>3, OnePhase
<1>5. Phase(f)' = IF Stored(f) THEN "deleted" ELSE "gone"
  BY <1>3 DEF Phase, Stored, Removable, Visible
<1>6. CASE Stored(f) \/ f \notin disk
  <2>1. Life[f] = Phase(f)'
    BY <1>3, <1>5, <1>6, RemovablePhase
  <2>. QED
    BY <1>3, <1>4, <2>1 DEF Life
<1>7. CASE ~Stored(f) /\ f \in disk
  <2>1. Life[f] = "left" /\ now >= asked[f] + Retention /\ Phase(f)' = "gone"
    BY <1>3, <1>5, <1>7, RemovablePhase
  <2>. QED
    BY <1>3, <1>4, <2>1 DEF Lifecycle!Remove, Lifecycle!Move, Lifecycle!Over, Life
<1>. QED
  BY <1>6, <1>7

LEMMA RemoveStep ==
    ASSUME IInv, NEW r \in Reqs, DeleteMetadata(r)
    PROVE  \/ \E f \in Files : Lifecycle!Abandon(f) \/ Lifecycle!Remove(f)
           \/ UNCHANGED <<now, Life, asked, missed>>
<1>1. Fits(req[r]) /\ req[r].stage = "deleteOne"
  BY InHand DEF DeleteMetadata, At
<1>2. PICK f \in Files : f = req[r].file
  BY <1>1 DEF Fits, CleanupFits
<1>3. /\ Removable(f) /\ UNCHANGED <<now, disk, asked, missed>>
      /\ files'[f] = None /\ \A g \in Files : g # f => files'[g] = files[g]
      /\ f \in disk => f \in missed
  BY <1>1, <1>2 DEF DeleteMetadata, Fits, CleanupFits, IInv, TypeOK
<1>4. Phase(f)' = IF f \in disk THEN "left" ELSE "gone"
  BY <1>3 DEF Phase, Stored, Removable
<1>5. Life' = [Life EXCEPT ![f] = Phase(f)']
  BY <1>3, OnePhase
<1>6. CASE ~Stored(f)
  <2>1. Life[f] = Phase(f)'
    BY <1>3, <1>4, <1>6, RemovablePhase
  <2>. QED
    BY <1>3, <1>5, <2>1 DEF Life
<1>7. CASE Stored(f)
  <2>1. Life[f] = "deleted" /\ now >= asked[f] + Retention
    BY <1>3, <1>7, RemovablePhase
  <2>. QED
    BY <1>3, <1>4, <1>5, <2>1
    DEF Lifecycle!Abandon, Lifecycle!Remove, Lifecycle!Move, Lifecycle!Over, Life
<1>. QED
  BY <1>6, <1>7

\* Every step of the store is a step of the lifecycle, or leaves it alone.
LEMMA StepRefines ==
    ASSUME IInv, [Next]_vars
    PROVE  [Lifecycle!Next]_<<now, Life, asked, missed>>
<1>1. CASE UNCHANGED <<now, files, disk, asked, missed>>
  BY <1>1, SamePhases
<1>2. CASE Tick
  <2>1. now' = now + 1 /\ UNCHANGED <<files, disk, asked, missed>>
    BY <1>2 DEF Tick, store
  <2>. QED
    BY <2>1, SamePhases DEF Lifecycle!Next, Lifecycle!Tick, Life
<1>3. \/ UNCHANGED <<now, files, disk, asked, missed>>
      \/ Tick
      \/ \E r \in Reqs :
            \/ UploadBytes(r) \/ CreateMetadata(r)
            \/ \E f \in Files, u \in Users : FindForDelete(r, f, u)
            \/ SaveDeleted(r)
            \/ Exists(r) \/ Unlink(r) \/ DeleteMetadata(r)
  BY DEF Next, Start, StartProcess, Connect, LoadKek, CheckHealth, WriteKek, Crash,
         UploadFile, StartUpload, StoreDek, DeleteFile, CleanupExpiredFiles,
         StartCleanup, RotateKey, RotateKek, SaveKek, Fail, store, vars
<1>. QED
  BY <1>1, <1>2, <1>3, BytesStep, AppearStep, AskStep, DeleteStep, MissStep, UnlinkStep,
     RemoveStep
  DEF Lifecycle!Next, Life

\* The store implements the abstract lifecycle of a file: it never comes back
\* once deleted, nothing of it is removed before its time, and its bytes outlive
\* its metadata only if exists() has failed to see them.
THEOREM Refinement == Spec => ImplementsLifecycle
<1>1. Init => Lifecycle!Init
  BY FileStoreAssumption DEF Init, Lifecycle!Init, Phase, Stored
<1>2. IInv /\ [Next]_vars => [Lifecycle!Next]_<<now, Life, asked, missed>>
  BY StepRefines
<1>. QED
  BY <1>1, <1>2, InvariantHolds, PTL
  DEF Spec, ImplementsLifecycle, Lifecycle!Spec, Life
=============================================================================
