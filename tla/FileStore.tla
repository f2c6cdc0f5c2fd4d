----------------------------- MODULE FileStore -----------------------------
(***************************************************************************)
(* Encrypted files: FilesService, FileProcessor, the local storage         *)
(* provider and EncryptionService's master key, with VaultService and      *)
(* Vault's key-value store.  A file is spread over four places: its        *)
(* metadata in MongoDB, its encrypted bytes on disk, its data key (DEK)    *)
(* wrapped by the master key (KEK), and the KEK in the memory of the       *)
(* process and in Vault.                                                   *)
(*                                                                         *)
(* A request is suspended at each await; an action is one operation on     *)
(* MongoDB, the disk or Vault with the code around it.  A file is named by *)
(* its uuid, from which its storage path is made.  A download changes      *)
(* nothing and has no action: Downloadable says when it succeeds.          *)
(***************************************************************************)
EXTENDS Naturals, FiniteSets

CONSTANTS
    Users,
    RoleOf,         \* RoleOf[u] : the role in the user's token
    Files,          \* uuids
    Levels,         \* access levels asked for
    Keys,           \* random master keys
    Derived,        \* the master key derived from the JWT secret
    Reqs,           \* requests and cleanup jobs that can be in flight at once
    Retention,      \* RETENTION_PERIOD_MS
    Rotations,      \* rotateKey is called
    RetryAttempts,  \* vault.retryAttempts
    Outages,        \* when a call to Vault may fail: some of Phases
    MayFail,        \* another call may fail
    MaxTime,        \* bound: the last instant
    None

Phases == {"connect", "start", "serve"}

Roles == {"SUPER_ADMIN", "ADMIN", "MANAGER", "EMPLOYEE", "VIEWER"}

AccessLevels == {"private", "internal", "department", "public"}

Kek == Keys \union {Derived}

FileDoc == [owner: Users, level: AccessLevels, kek: Kek, deleted: BOOLEAN,
            deletedAt: Nat]

Stages == {"storeDek", "upload", "create", "saveDeleted", "cleanup", "unlink",
           "deleteOne", "saveKek"}

\* What a request has in hand: a file being uploaded, or being deleted at a
\* time, the documents a cleanup has listed, or the KEK a rotation replaces and
\* the one it writes.
Request == [stage: Stages, file: Files \union {None}, doc: FileDoc \union {None},
            at: Nat, batch: SUBSET Files, old: Kek \union {None},
            new: Kek \union {None}]

ASSUME FileStoreAssumption ==
    /\ RoleOf \in [Users -> Roles]
    /\ Levels \subseteq AccessLevels
    /\ Derived \notin Keys
    /\ Retention \in Nat \ {0} /\ MaxTime \in Nat
    /\ RetryAttempts \in Nat \ {0}
    /\ Rotations \in BOOLEAN /\ Outages \subseteq Phases /\ MayFail \in BOOLEAN
    /\ None \notin Files \union Kek \union FileDoc \union Request
    /\ None \notin Nat

VARIABLES
    now,        \* the clock
    vault,      \* Vault is enabled; set by the environment
    boot,       \* how far the process has started: one of BootStages
    attempt,    \* of the connection to Vault
    kek,        \* masterKey
    vaultKek,   \* Vault: the master key secret
    made,       \* history: random master keys that have been generated
    files,      \* the files collection
    disk,       \* uuids whose bytes are on disk
    deks,       \* Vault: files whose wrapped DEK has a copy there
    taken,      \* uuids that have been given out
    asked,      \* history: when the deletion of a file was first asked for
    missed,     \* history: files whose bytes exists() has failed to see
    req         \* requests in flight

BootStages == {"down", "connect", "load", "health", "write", "ready"}

keys == <<boot, attempt, kek, vaultKek, made>>
store == <<files, disk, deks, taken>>
vars == <<now, vault, keys, store, asked, missed, req>>

TypeOK ==
    /\ now \in 0..MaxTime
    /\ vault \in BOOLEAN
    /\ boot \in BootStages
    /\ attempt \in 0..RetryAttempts
    /\ kek \in Kek \union {None}
    /\ vaultKek \in Keys \union {None}
    /\ made \subseteq Keys
    /\ files \in [Files -> FileDoc \union {None}]
    /\ disk \subseteq Files /\ deks \subseteq Files /\ taken \subseteq Files
    /\ asked \in [Files -> Nat \union {None}]
    /\ missed \subseteq Files
    /\ req \in [Reqs -> Request \union {None}]

Init ==
    /\ now = 0
    /\ vault \in BOOLEAN
    /\ boot = "down" /\ attempt = 0
    /\ kek = None /\ vaultKek = None /\ made = {}
    /\ files = [f \in Files |-> None]
    /\ disk = {} /\ deks = {} /\ taken = {}
    /\ asked = [f \in Files |-> None] /\ missed = {}
    /\ req = [r \in Reqs |-> None]

Stored(f) == files[f] # None

Visible(f) == Stored(f) /\ ~files[f].deleted

-----------------------------------------------------------------------------
(* findFileWithAccessCheck and the filter of listFiles. *)

IsAdmin(u) == RoleOf[u] \in {"SUPER_ADMIN", "ADMIN"}

IsOwner(u, f) == files[f].owner = u

CanManage(u, f) == IsOwner(u, f) \/ IsAdmin(u)

CanRead(u, f) ==
    /\ Visible(f)
    /\ files[f].level = "private" => CanManage(u, f)
    /\ files[f].level = "department" =>
          CanManage(u, f) \/ RoleOf[u] = "MANAGER"

\* Mutant: the filter excludes private files instead of naming the open levels.
ListedUnlessPrivate(u) ==
    {f \in Files : Visible(f) /\ (CanManage(u, f) \/ files[f].level # "private")}

Listed(u) ==
    {f \in Files :
        /\ Visible(f)
        /\ CanManage(u, f) \/ files[f].level \in {"internal", "public"}}

\* What downloadFile needs: the bytes, and a DEK the current KEK unwraps.
Downloadable(f) == f \in disk /\ files[f].kek = kek

-----------------------------------------------------------------------------
(* The process starts: VaultService connects, then EncryptionService finds   *)
(* its master key; requests are listened for after that.                    *)

\* onModuleInit of VaultService: with Vault disabled it does nothing, and
\* initializeMasterKey finds neither a secret nor a healthy Vault.
Fallback == kek' = Derived /\ boot' = "ready"

StartProcess ==
    /\ boot = "down"
    /\ \/ ~vault /\ Fallback /\ UNCHANGED attempt
       \/ vault /\ boot' = "connect" /\ attempt' = 1 /\ UNCHANGED kek
    /\ UNCHANGED <<now, vault, vaultKek, made, store, asked, missed, req>>

\* Mutant: Vault is waited for.
ConnectForever ==
    /\ boot = "connect"
    /\ \/ boot' = "load" /\ attempt' = 0
       \/ /\ "connect" \in Outages
          /\ attempt' = IF attempt < RetryAttempts THEN attempt + 1 ELSE 1
          /\ UNCHANGED boot
    /\ UNCHANGED <<now, vault, kek, vaultKek, made, store, asked, missed, req>>

\* VaultService.initialize: the client is there from the first attempt on,
\* and is used whether or not an attempt has succeeded.
Connect ==
    /\ boot = "connect"
    /\ \/ boot' = "load" /\ attempt' = 0
       \/ /\ "connect" \in Outages
          /\ IF attempt < RetryAttempts
             THEN attempt' = attempt + 1 /\ UNCHANGED boot
             ELSE attempt' = 0 /\ boot' = "load"
    /\ UNCHANGED <<now, vault, kek, vaultKek, made, store, asked, missed, req>>

\* initializeMasterKey: an error of Vault anywhere falls through to the
\* derived key.
LoadKek ==
    /\ boot = "load"
    /\ \/ vaultKek # None /\ kek' = vaultKek /\ boot' = "ready"
       \/ vaultKek = None /\ boot' = "health" /\ UNCHANGED kek
       \/ "start" \in Outages /\ Fallback
    /\ UNCHANGED <<now, vault, attempt, vaultKek, made, store, asked, missed, req>>

CheckHealth ==
    /\ boot = "health"
    /\ \/ \E k \in Keys \ made :
             kek' = k /\ made' = made \union {k} /\ boot' = "write"
       \/ "start" \in Outages /\ Fallback /\ UNCHANGED made
    /\ UNCHANGED <<now, vault, attempt, vaultKek, store, asked, missed, req>>

\* Mutant: the first KEK is not written to Vault.
KeepKekInMemory ==
    /\ boot = "write"
    /\ boot' = "ready"
    /\ UNCHANGED <<now, vault, attempt, kek, vaultKek, made, store, asked, missed,
                   req>>

\* A write may take effect and still fail here, when its answer is lost.
WriteKek ==
    /\ boot = "write"
    /\ \/ vaultKek' = kek /\ boot' = "ready" /\ UNCHANGED kek
       \/ "start" \in Outages /\ vaultKek' \in {vaultKek, kek} /\ Fallback
    /\ UNCHANGED <<now, vault, attempt, made, store, asked, missed, req>>

\* The process dies, at any point, and takes the requests with it.  Bound: as
\* long as the next start has a random key left to make.
Crash ==
    /\ boot # "down"
    /\ vault => vaultKek # None \/ made # Keys
    /\ boot' = "down" /\ attempt' = 0
    /\ kek' = None
    /\ req' = [r \in Reqs |-> None]
    /\ UNCHANGED <<now, vault, vaultKek, made, store, asked, missed>>

-----------------------------------------------------------------------------
(* Requests. *)

Begin(stage) ==
    [stage |-> stage, file |-> None, doc |-> None, at |-> 0, batch |-> {},
     old |-> None, new |-> None]

Idle(r) == boot = "ready" /\ req[r] = None

At(r, stage) == req[r] # None /\ req[r].stage = stage

Become(r, q) == req' = [req EXCEPT ![r] = q]
Goto(r, stage) == req' = [req EXCEPT ![r].stage = stage]
Finish(r) == req' = [req EXCEPT ![r] = None]

(* uploadFile: generateKey wraps the DEK with the KEK of the moment and     *)
(* copies it to Vault, whose errors it ignores; then the bytes, then the    *)
(* metadata.                                                                *)
StartUpload(r, f, u, level) ==
    /\ Idle(r)
    /\ f \notin taken
    /\ taken' = taken \union {f}
    /\ Become(r, [Begin("storeDek") EXCEPT
                    !.file = f,
                    !.doc = [owner |-> u, level |-> level, kek |-> kek,
                             deleted |-> FALSE, deletedAt |-> 0]])
    /\ UNCHANGED <<now, vault, keys, files, disk, deks, asked, missed>>

StoreDek(r) ==
    /\ At(r, "storeDek")
    /\ \/ vault /\ deks' = deks \union {req[r].file}
       \/ (~vault \/ "serve" \in Outages) /\ UNCHANGED deks
    /\ Goto(r, "upload")
    /\ UNCHANGED <<now, vault, keys, files, disk, taken, asked, missed>>

\* Mutant: the metadata is saved first, then the bytes.
UploadAfterMetadata(r) ==
    /\ At(r, "upload")
    /\ files' = [files EXCEPT ![req[r].file] = req[r].doc]
    /\ Goto(r, "create")
    /\ UNCHANGED <<now, vault, keys, disk, deks, taken, asked, missed>>

UploadBytes(r) ==
    /\ At(r, "upload")
    /\ disk' = disk \union {req[r].file}
    /\ Goto(r, "create")
    /\ UNCHANGED <<now, vault, keys, files, deks, taken, asked, missed>>

CreateMetadata(r) ==
    /\ At(r, "create")
    /\ files' = [files EXCEPT ![req[r].file] = req[r].doc]
    /\ Finish(r)
    /\ UNCHANGED <<now, vault, keys, disk, deks, taken, asked, missed>>

(* deleteFile: find, then save the flag and the time of the find. *)
FindForDelete(r, f, u) ==
    /\ Idle(r)
    /\ Visible(f)
    /\ CanManage(u, f)
    /\ now + Retention <= MaxTime  \* bound: the period ends within the model
    /\ Become(r, [Begin("saveDeleted") EXCEPT !.file = f, !.at = now])
    /\ asked' = IF asked[f] = None THEN [asked EXCEPT ![f] = now] ELSE asked
    /\ UNCHANGED <<now, vault, keys, store, missed>>

\* Mutant: deletedAt has no value.
SaveWithoutTime(r) ==
    /\ At(r, "saveDeleted")
    /\ Stored(req[r].file)
    /\ files' = [files EXCEPT ![req[r].file].deleted = TRUE,
                              ![req[r].file].deletedAt = None]
    /\ Finish(r)
    /\ UNCHANGED <<now, vault, keys, disk, deks, taken, asked, missed>>

\* Mutant: the save is an upsert, and writes a removed document back.
UpsertDeleted(r) ==
    /\ At(r, "saveDeleted")
    /\ \E u \in Users, level \in Levels :
          files' = [files EXCEPT ![req[r].file] =
                      [owner |-> u, level |-> level, kek |-> kek,
                       deleted |-> TRUE, deletedAt |-> req[r].at]]
    /\ Finish(r)
    /\ UNCHANGED <<now, vault, keys, disk, deks, taken, asked, missed>>

\* save() of a document that has been removed meanwhile fails.
SaveDeleted(r) ==
    /\ At(r, "saveDeleted")
    /\ files' = IF ~Stored(req[r].file) THEN files
                ELSE [files EXCEPT ![req[r].file].deleted = TRUE,
                                   ![req[r].file].deletedAt = req[r].at]
    /\ Finish(r)
    /\ UNCHANGED <<now, vault, keys, disk, deks, taken, asked, missed>>

(* cleanupExpiredFiles: list, then for one file after the other ask whether *)
(* its bytes are there, remove them and remove the metadata.  An error of   *)
(* delete() or of deleteOne skips to the next file.                         *)

\* Mutant: the retention period is forgotten.
AllDeleted == {f \in Files : Stored(f) /\ files[f].deleted}

ExpiredFiles ==
    {f \in Files : /\ Stored(f)
                   /\ files[f].deleted
                   /\ files[f].deletedAt + Retention <= now}

StartCleanup(r) ==
    /\ Idle(r)
    /\ ExpiredFiles # {}
    /\ Become(r, [Begin("cleanup") EXCEPT !.batch = ExpiredFiles])
    /\ UNCHANGED <<now, vault, keys, store, asked, missed>>

NextFile(r, batch) ==
    IF batch = {} THEN Finish(r)
    ELSE Become(r, [req[r] EXCEPT !.stage = "cleanup", !.file = None,
                                  !.batch = batch])

\* Mutant: a file whose bytes are not seen is skipped.
SkipUnseen(r) ==
    /\ At(r, "cleanup")
    /\ \E f \in req[r].batch :
          \/ /\ f \in disk
             /\ Become(r, [req[r] EXCEPT !.stage = "unlink", !.file = f,
                                         !.batch = @ \ {f}])
          \/ (f \notin disk \/ MayFail) /\ NextFile(r, req[r].batch \ {f})
    /\ UNCHANGED <<now, vault, keys, store, asked, missed>>

\* LocalStorageProvider.exists: every error of access() is a "no", and then
\* the metadata goes and the bytes stay.
Exists(r) ==
    /\ At(r, "cleanup")
    /\ \E f \in req[r].batch, seen \in BOOLEAN :
          /\ seen => f \in disk
          /\ seen \/ MayFail \/ f \notin disk
          /\ missed' = IF ~seen /\ f \in disk THEN missed \union {f} ELSE missed
          /\ Become(r, [req[r] EXCEPT
                          !.stage = IF seen THEN "unlink" ELSE "deleteOne",
                          !.file = f,
                          !.batch = @ \ {f}])
    /\ UNCHANGED <<now, vault, keys, store, asked>>

\* LocalStorageProvider.delete: a file that is no longer there is no error.
Unlink(r) ==
    /\ At(r, "unlink")
    /\ disk' = disk \ {req[r].file}
    /\ Goto(r, "deleteOne")
    /\ UNCHANGED <<now, vault, keys, files, deks, taken, asked, missed>>

DeleteMetadata(r) ==
    /\ At(r, "deleteOne")
    /\ files' = [files EXCEPT ![req[r].file] = None]
    /\ NextFile(r, req[r].batch)
    /\ UNCHANGED <<now, vault, keys, disk, deks, taken, asked, missed>>

(* rotateKey: the KEK in memory is replaced first, and put back when the    *)
(* write fails.  With Vault disabled the write returns and stores nothing.  *)
RotateKek(r) ==
    /\ Rotations
    /\ Idle(r)
    /\ \E k \in Keys \ made :
          /\ kek' = k
          /\ made' = made \union {k}
          /\ Become(r, [Begin("saveKek") EXCEPT !.old = kek, !.new = k])
    /\ UNCHANGED <<now, vault, boot, attempt, vaultKek, store, asked, missed>>

SaveKek(r) ==
    /\ At(r, "saveKek")
    /\ \/ vault /\ vaultKek' = req[r].new /\ UNCHANGED kek
       \/ /\ vault /\ "serve" \in Outages
          /\ vaultKek' \in {vaultKek, req[r].new}
          /\ kek' = req[r].old
       \/ ~vault /\ UNCHANGED <<vaultKek, kek>>
    /\ Finish(r)
    /\ UNCHANGED <<now, vault, boot, attempt, made, store, asked, missed>>

\* Mutant: delete() swallows every error, and the metadata goes all the same.
FailAnyway(r) ==
    /\ MayFail
    /\ At(r, "unlink")
    /\ Goto(r, "deleteOne")
    /\ UNCHANGED <<now, vault, keys, store, asked, missed>>

\* A call to MongoDB or the disk fails: a request ends, a cleanup goes on with
\* its next file.  (Of the disk's calls exists() never fails: see Exists.)
Fail(r) ==
    /\ MayFail
    /\ \/ /\ \E stage \in {"upload", "create", "saveDeleted"} : At(r, stage)
          /\ Finish(r)
       \/ /\ At(r, "unlink") \/ At(r, "deleteOne")
          /\ NextFile(r, req[r].batch)
    /\ UNCHANGED <<now, vault, keys, store, asked, missed>>

Tick ==
    /\ now < MaxTime
    /\ now' = now + 1
    /\ UNCHANGED <<vault, keys, store, asked, missed, req>>
-----------------------------------------------------------------------------
Start ==
    \/ StartProcess
    \/ Connect
    \/ LoadKek
    \/ CheckHealth
    \/ WriteKek

UploadFile(r) ==
    \/ \E f \in Files, u \in Users, level \in Levels : StartUpload(r, f, u, level)
    \/ StoreDek(r)
    \/ UploadBytes(r)
    \/ CreateMetadata(r)

DeleteFile(r) ==
    \/ \E f \in Files, u \in Users : FindForDelete(r, f, u)
    \/ SaveDeleted(r)

CleanupExpiredFiles(r) ==
    \/ StartCleanup(r)
    \/ Exists(r)
    \/ Unlink(r)
    \/ DeleteMetadata(r)

RotateKey(r) ==
    \/ RotateKek(r)
    \/ SaveKek(r)

Next ==
    \/ Start
    \/ \E r \in Reqs : \/ UploadFile(r)
                       \/ DeleteFile(r)
                       \/ CleanupExpiredFiles(r)
                       \/ RotateKey(r)
                       \/ Fail(r)
    \/ Crash
    \/ Tick

Spec == Init /\ [][Next]_vars

(* The event loop resumes every request whose call has been answered:       *)
(* MongoDB's driver gives up by itself, and so does the disk.  A process    *)
(* that is down is started again (restart: unless-stopped), and time        *)
(* passes.  Vault's client sets no timeout and nothing in src/ schedules    *)
(* the cleanup, so that what they do is left to the hypotheses below.       *)

Continue(r) ==
    \/ UploadBytes(r) \/ CreateMetadata(r)
    \/ SaveDeleted(r)
    \/ Exists(r) \/ Unlink(r) \/ DeleteMetadata(r)

Fairness ==
    /\ WF_vars(StartProcess)
    /\ WF_vars(Tick)
    /\ \A r \in Reqs : WF_vars(Continue(r))

FairSpec == Spec /\ Fairness

-----------------------------------------------------------------------------
(* Properties. *)

\* A file users can see has its bytes on disk, whatever uploads, deletions,
\* cleanups and crashes overlap: the bytes are written before the metadata
\* and removed only when the metadata has long been marked.
VisibleIsOnDisk == \A f \in Files : Visible(f) => f \in disk

\* The bytes of a file are kept for the retention period, counted from the
\* moment its deletion was first asked for: racing deletions, the list a
\* cleanup works from and a second cleanup never shorten it.
RetentionHolds ==
    [][\A f \in disk \ disk' :
          asked[f] # None /\ now >= asked[f] + Retention]_vars

\* The two places that decide who may see a file agree in this direction: a
\* user can open every file the listing shows him.
ListedIsReadable == \A u \in Users : \A f \in Listed(u) : CanRead(u, f)

\* A running process can download every file users can see, across restarts and
\* a first start that dies half-way.
DeksRemainValid ==
    boot = "ready" => \A f \in Files : Visible(f) => Downloadable(f)

\* What a cleanup has begun is finished whatever interrupts it: bytes without
\* metadata are those of an upload that never completed, or exists() has failed
\* to see them while they were there.
OnlyMissedBytesStay ==
    \A f \in disk : Stored(f) \/ asked[f] = None \/ f \in missed

(* What the environment may do, as hypotheses: Vault answers, be it with an *)
(* error; cleanupExpiredFiles is called again and again ("should be         *)
(* scheduled to run periodically"); of the calls that cleanups make again   *)
(* and again some succeed; the process does not crash for ever.             *)

StartIsAnswered == WF_vars(Connect \/ LoadKek \/ CheckHealth \/ WriteKek)

VaultAnswers ==
    /\ StartIsAnswered
    /\ \A r \in Reqs : WF_vars(StoreDek(r) \/ SaveKek(r))

CleanupIsScheduled == SF_vars(\E r \in Reqs : StartCleanup(r))

SomeCallsSucceed ==
    /\ SF_vars(\E r \in Reqs : Unlink(r))
    /\ SF_vars(\E r \in Reqs : DeleteMetadata(r))

\* If Vault answers, a start ends with one key or another, though every answer
\* be a failure.
StartEnds == StartIsAnswered => (boot = "connect" ~> boot \in {"ready", "down"})

\* Under these hypotheses a deleted file is removed in the end, also one that a
\* cleanup has given up half-way: its metadata, and its bytes unless exists()
\* has failed to see them.
DeletedIsRemoved ==
    (/\ VaultAnswers
     /\ CleanupIsScheduled
     /\ SomeCallsSucceed
     /\ <>[][~Crash]_vars)
    => \A f \in Files :
          (Stored(f) /\ files[f].deleted)
             ~> (~Stored(f) /\ (f \in disk => f \in missed))
=============================================================================
