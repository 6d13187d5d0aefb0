---------------------------- MODULE FileService ----------------------------
(***************************************************************************)
(* The file component of file-service: the handlers of                     *)
(* internal/file/service.go running concurrently over one metadata table   *)
(* (files), its transactional outbox (file_outbox_events) and one bucket   *)
(* of an S3 store.  A handler is a sequence of external calls; every call  *)
(* (a read, a transaction, a storage request) is one step, so the steps of *)
(* different requests, replicas and of the cleanup job interleave.         *)
(*                                                                         *)
(* A call that fails without effect, a call that takes effect but reports  *)
(* an error, a cancelled context and a process crash all leave a request   *)
(* in the same way: it ends where it stands (Interrupt).  The handlers     *)
(* that do more than return after an error have actions of their own.      *)
(***************************************************************************)
EXTENDS Naturals, Sequences, FiniteSets

CONSTANTS
  FileIds,       \* the uuids that may be drawn; the object key contains the uuid
  Keys,          \* idempotency keys, each with its tenant and application
  NoKey,         \* the key of a file id that has no row
  NoFile,        \* the file of an idle request
  Requests,      \* handler goroutines of all replicas
  Cleaners,      \* runs of the cleanup job of all replicas
  Modes,         \* the upload modes the clients of this instance use
  BatchSize,     \* object_storage.cleanup_batch_size
  ScanRequired,  \* object_storage.scan_required
  AnyExpected,   \* may a client send a version it has never been given?
  Faults,        \* may calls fail and processes crash?
  MaxVersion     \* bound: no update is started that would exceed this version

ASSUME ConstantsAssumption ==
  /\ IsFiniteSet(FileIds)
  /\ NoKey \notin Keys
  /\ NoFile \notin FileIds
  /\ Modes \subseteq {"single", "multipart"}
  /\ BatchSize \in Nat \ {0}
  /\ MaxVersion \in Nat /\ MaxVersion >= 3
  /\ ScanRequired \in BOOLEAN
  /\ AnyExpected \in BOOLEAN
  /\ Faults \in BOOLEAN

VARIABLES
  rows,       \* the table files: id -> row, NoRow where there is none
  outbox,     \* committed status events of each file, in commit order
  expiry,     \* 0, or the place of upload_expires_at among those that passed
  objects,    \* the bucket: what is stored under the object key of the file
  multipart,  \* the S3 multipart upload of the file
  putURLs,    \* files whose presigned PUT URL was handed out
  partURLs,   \* files whose presigned part URLs were handed out
  downloads,  \* download URLs handed out, with the version they were read at
  reqs,       \* the requests in flight
  jobs        \* the cleanup runs in flight

table   == <<rows, outbox>>
bucket  == <<objects, multipart>>
granted == <<putURLs, partURLs, downloads>>
vars    == <<table, expiry, bucket, granted, reqs, jobs>>

-----------------------------------------------------------------------------
Statuses == {"absent", "pending_upload", "ready", "deleting", "deleted", "expired"}
ScanStatuses == {"none", "pending", "skipped", "clean", "infected"}

\* The columns of a row that the handlers decide on.
Metadata == [key : Keys \cup {NoKey}, mode : {"none", "single", "multipart"},
             status : Statuses, scan : ScanStatuses, version : 0..MaxVersion]

NoRow == [key |-> NoKey, mode |-> "none", status |-> "absent",
          scan |-> "none", version |-> 0]

\* The payload of a FileStatusChanged event.
StatusEvents == [status : Statuses, scan : ScanStatuses, version : Nat]

\* Fault: the row is built with a status no handler knows.
NewUpload_Unknown(k, m) == [key |-> k, mode |-> m, status |-> "uploading",
                            scan |-> "pending", version |-> 1]

\* The uncommitted upload row both initiate handlers build.
NewUpload(k, m) == [key |-> k, mode |-> m, status |-> "pending_upload",
                    scan |-> "pending", version |-> 1]

\* Where a request stands: the external call it makes next.
InsertCalls == {"insert", "mp_insert"}
UpdateCalls == {"commit_ready", "commit_abort", "mark_deleting", "mark_deleted",
                "commit_clean", "commit_infected"}
OtherCalls  == {"mp_create", "mp_abort", "assemble", "complete_read", "stat",
                "abort_storage", "remove_object"}
Calls == InsertCalls \cup UpdateCalls \cup OtherCalls

Idle == [pc |-> "idle", file |-> NoFile, v |-> NoRow, expected |-> 0]
RequestStates == [pc : Calls \cup {"idle"}, file : FileIds \cup {NoFile},
                  v : Metadata, expected : 0..MaxVersion]

\* A cleanup run: the rows it listed and has not finished, and whether the
\* storage side effect of the first of them is still to come.
NoJob == [pc |-> "idle", listed |-> [f \in FileIds |-> NoRow]]
JobStates == [pc : {"idle", "release", "commit"}, listed : [FileIds -> Metadata]]

\* The types of the table, the bucket and everything a handler or cleanup run holds.
TypeOK ==
  /\ rows \in [FileIds -> Metadata]
  /\ outbox \in [FileIds -> Seq(StatusEvents)]
  /\ expiry \in [FileIds -> Nat]
  /\ objects \in [FileIds -> {"none", "match", "mismatch"}]
  /\ multipart \in [FileIds -> {"none", "open", "good", "bad", "closed"}]
  /\ putURLs \subseteq FileIds
  /\ partURLs \subseteq FileIds
  /\ downloads \subseteq FileIds \X (0..MaxVersion)
  /\ reqs \in [Requests -> RequestStates]
  /\ \A r \in Requests : reqs[r].pc # "idle" => reqs[r].file \in FileIds
  /\ jobs \in [Cleaners -> JobStates]

Init ==
  /\ rows = [f \in FileIds |-> NoRow]
  /\ outbox = [f \in FileIds |-> <<>>]
  /\ expiry = [f \in FileIds |-> 0]
  /\ objects = [f \in FileIds |-> "none"]
  /\ multipart = [f \in FileIds |-> "none"]
  /\ putURLs = {}
  /\ partURLs = {}
  /\ downloads = {}
  /\ reqs = [r \in Requests |-> Idle]
  /\ jobs = [c \in Cleaners |-> NoJob]

-----------------------------------------------------------------------------
(* The metadata table and its transactions. *)

Exists(f) == rows[f].version > 0

\* addStatusEvent: the event of row v, in the transaction that writes v.
Event(v) == [status |-> v.status, scan |-> v.scan, version |-> v.version]
AddStatusEvent(f, v) == outbox' = [outbox EXCEPT ![f] = Append(@, Event(v))]

\* Insert and its event; the table has a unique (tenant, application, key).
KeyTaken(k) == \E f \in FileIds : Exists(f) /\ rows[f].key = k
Insert(f, v) ==
  /\ ~KeyTaken(v.key)
  /\ rows' = [rows EXCEPT ![f] = v]
  /\ AddStatusEvent(f, v)

\* Fault: the event is built before v.Version is raised.
Update_OldVersionInEvent(f, v, expected) ==
  /\ rows[f].version = expected
  /\ rows[f].version < MaxVersion
  /\ rows' = [rows EXCEPT ![f] = [v EXCEPT !.version = rows[f].version + 1]]
  /\ AddStatusEvent(f, [v EXCEPT !.version = expected])

\* Fault: the statement does not raise the version.
Update_NoNewVersion(f, v, expected) ==
  /\ rows[f].version = expected
  /\ Len(outbox[f]) < MaxVersion
  /\ rows' = [rows EXCEPT ![f] = [v EXCEPT !.version = rows[f].version]]
  /\ AddStatusEvent(f, [v EXCEPT !.version = expected + 1])

\* Update and its event: UPDATE ... SET ..., version = version + 1
\* WHERE ... AND version = expected.
Update(f, v, expected) ==
  /\ rows[f].version = expected
  /\ rows[f].version < MaxVersion
  /\ rows' = [rows EXCEPT ![f] = [v EXCEPT !.version = rows[f].version + 1]]
  /\ AddStatusEvent(f, [v EXCEPT !.version = expected + 1])

\* The versions a client may send: those the service has returned so far.  The
\* bound leaves room for the two updates of a Delete.
Expected(f) == {e \in 1..MaxVersion : /\ AnyExpected \/ e <= rows[f].version
                                      /\ e + 2 <= MaxVersion}

-----------------------------------------------------------------------------
(* The life of a request. *)

Begin(r, call, f, v, expected) ==
  /\ reqs[r].pc = "idle"
  /\ reqs' = [reqs EXCEPT ![r] = [pc |-> call, file |-> f, v |-> v,
                                  expected |-> expected]]

At(r, call) == reqs[r].pc = call
Goto(r, call) == reqs' = [reqs EXCEPT ![r].pc = call]
Return(r) == reqs' = [reqs EXCEPT ![r] = Idle]

\* uuid.NewString: an id nothing refers to.
Fresh(f) == /\ ~Exists(f)
            /\ multipart[f] = "none"
            /\ \A r \in Requests : reqs[r].file # f

\* A failed call, a cancelled context or a crash ends a request where it is.
Interrupt(r) ==
  /\ Faults
  /\ reqs[r].pc # "idle"
  /\ Return(r)
  /\ UNCHANGED <<table, expiry, bucket, granted, jobs>>

\* Update matches no row: ErrStaleVersion, whichever handler called it.
StaleVersion(r) ==
  /\ reqs[r].pc \in UpdateCalls
  /\ rows[reqs[r].file].version # reqs[r].expected
  /\ Return(r)
  /\ UNCHANGED <<table, expiry, bucket, granted, jobs>>

\* Get and List, and every request that validation, the tenant or application
\* check or an early return ends: the state stays as it is.
ReadOnly(r) == At(r, "idle") /\ UNCHANGED vars

-----------------------------------------------------------------------------
(* InitiateUpload *)

\* GetByKey finds the key: the row is returned with a fresh PUT URL, whatever
\* its status, mode and declared metadata.
ReplayUpload(r, k) ==
  /\ "single" \in Modes
  /\ At(r, "idle")
  /\ \E f \in FileIds : /\ Exists(f) /\ rows[f].key = k
                        /\ putURLs' = putURLs \cup {f}
  /\ UNCHANGED <<table, expiry, bucket, partURLs, downloads, reqs, jobs>>

InitiateUpload(r, k, f) ==
  /\ "single" \in Modes
  /\ ~KeyTaken(k)
  /\ Fresh(f)
  /\ Begin(r, "insert", f, NewUpload(k, "single"), 0)
  /\ UNCHANGED <<table, expiry, bucket, granted, jobs>>

\* The insert commits and the URL of the new object is presigned.
InsertUpload(r) ==
  LET f == reqs[r].file IN
  /\ At(r, "insert")
  /\ Insert(f, reqs[r].v)
  /\ putURLs' = putURLs \cup {f}
  /\ Return(r)
  /\ UNCHANGED <<expiry, bucket, partURLs, downloads, jobs>>

\* A concurrent initiation won the key: the unique constraint refuses the row.
InsertUploadConflict(r) ==
  /\ At(r, "insert")
  /\ KeyTaken(reqs[r].v.key)
  /\ Return(r)
  /\ UNCHANGED <<table, expiry, bucket, granted, jobs>>

-----------------------------------------------------------------------------
(* InitiateMultipartUpload.  A key that exists is answered from its row or   *)
(* refused; neither changes anything.                                        *)

InitiateMultipartUpload(r, k, f) ==
  /\ "multipart" \in Modes
  /\ ~KeyTaken(k)
  /\ Fresh(f)
  /\ Begin(r, "mp_create", f, NewUpload(k, "multipart"), 0)
  /\ UNCHANGED <<table, expiry, bucket, granted, jobs>>

CreateMultipart(r) ==
  /\ At(r, "mp_create")
  /\ multipart' = [multipart EXCEPT ![reqs[r].file] = "open"]
  /\ Goto(r, "mp_insert")
  /\ UNCHANGED <<table, expiry, objects, granted, jobs>>

InsertMultipart(r) ==
  /\ At(r, "mp_insert")
  /\ Insert(reqs[r].file, reqs[r].v)
  /\ \/ Return(r)
     \/ Faults /\ Goto(r, "mp_abort")  \* committed, but Commit reports an error
  /\ UNCHANGED <<expiry, bucket, granted, jobs>>

\* Fault: the error path does not release the upload.
InsertMultipartFails_Leaks(r) ==
  /\ At(r, "mp_insert")
  /\ Faults \/ KeyTaken(reqs[r].v.key)
  /\ Return(r)
  /\ UNCHANGED <<table, expiry, bucket, granted, jobs>>

\* The transaction is refused or rolled back: the handler releases the upload.
InsertMultipartFails(r) ==
  /\ At(r, "mp_insert")
  /\ Faults \/ KeyTaken(reqs[r].v.key)
  /\ Goto(r, "mp_abort")
  /\ UNCHANGED <<table, expiry, bucket, granted, jobs>>

ReleaseMultipart(r) ==
  /\ At(r, "mp_abort")
  /\ multipart' = [multipart EXCEPT ![reqs[r].file] = "closed"]
  /\ Return(r)
  /\ UNCHANGED <<table, expiry, objects, granted, jobs>>

-----------------------------------------------------------------------------
(* AuthorizeUploadPart and what clients do with the URLs they hold. *)

AuthorizeUploadPart(r, f) ==
  /\ At(r, "idle")
  /\ rows[f].status = "pending_upload" /\ rows[f].mode = "multipart"
  /\ expiry[f] = 0
  /\ partURLs' = partURLs \cup {f}
  /\ UNCHANGED <<table, expiry, bucket, putURLs, downloads, reqs, jobs>>

\* The URL signs the declared length and the checksum header: what it stores
\* has the declared size and checksum metadata.
PutObject(f) ==
  /\ f \in putURLs
  /\ objects' = [objects EXCEPT ![f] = "match"]
  /\ UNCHANGED <<table, expiry, multipart, granted, reqs, jobs>>

\* All parts are stored (again); their sizes need not add up to the declared one.
UploadParts(f) ==
  /\ f \in partURLs
  /\ multipart[f] \in {"open", "good", "bad"}
  /\ \E parts \in {"good", "bad"} : multipart' = [multipart EXCEPT ![f] = parts]
  /\ UNCHANGED <<table, expiry, objects, granted, reqs, jobs>>

\* upload_expires_at passes.  Only pending uploads are ever asked about it.
ExpireSession(f) ==
  /\ rows[f].status = "pending_upload"
  /\ expiry[f] = 0
  /\ expiry' = [expiry EXCEPT ![f] =
                  1 + Cardinality({g \in FileIds : expiry[g] > 0})]
  /\ UNCHANGED <<table, bucket, granted, reqs, jobs>>

-----------------------------------------------------------------------------
(* CompleteMultipartUpload and CompleteUpload *)

CompleteMultipartUpload(r, f) ==
  /\ rows[f].mode = "multipart" /\ rows[f].status = "pending_upload"
  /\ Begin(r, "assemble", f, rows[f], rows[f].version)
  /\ UNCHANGED <<table, expiry, bucket, granted, jobs>>

Assemble(r) ==
  LET f == reqs[r].file IN
  /\ At(r, "assemble")
  /\ multipart[f] \in {"good", "bad"}
  /\ objects' = [objects EXCEPT ![f] =
                   IF multipart[f] = "good" THEN "match" ELSE "mismatch"]
  /\ multipart' = [multipart EXCEPT ![f] = "closed"]
  /\ Goto(r, "complete_read")
  /\ UNCHANGED <<table, expiry, granted, jobs>>

\* The store refuses: a wrong or missing part, or the upload is gone.
AssembleFails(r) ==
  /\ At(r, "assemble")
  /\ Return(r)
  /\ UNCHANGED <<table, expiry, bucket, granted, jobs>>

\* After assembling, CompleteUpload reads the row again.
CompleteRead(r) ==
  LET f == reqs[r].file IN
  /\ At(r, "complete_read")
  /\ IF rows[f].status = "ready"
     THEN Return(r)
     ELSE reqs' = [reqs EXCEPT ![r].pc = "stat", ![r].v = rows[f]]
  /\ UNCHANGED <<table, expiry, bucket, granted, jobs>>

\* Fault: a ready file is verified again.
CompleteUpload_Ready(r, f, expected) ==
  /\ Exists(f)
  /\ Begin(r, "stat", f, rows[f], expected)
  /\ UNCHANGED <<table, expiry, bucket, granted, jobs>>

\* CompleteUpload reads the row; a ready one is returned as it is.  Neither the
\* mode, nor the expiry, nor any status but ready is looked at.
CompleteUpload(r, f, expected) ==
  /\ Exists(f) /\ rows[f].status # "ready"
  /\ Begin(r, "stat", f, rows[f], expected)
  /\ UNCHANGED <<table, expiry, bucket, granted, jobs>>

Stat(r) ==
  /\ At(r, "stat")
  /\ objects[reqs[r].file] = "match"
  /\ Goto(r, "commit_ready")
  /\ UNCHANGED <<table, expiry, bucket, granted, jobs>>

\* No object, a wrong size, or the request's checksum is not the declared one.
StatFails(r) ==
  /\ At(r, "stat")
  /\ Return(r)
  /\ UNCHANGED <<table, expiry, bucket, granted, jobs>>

ReadyRow(v) == [v EXCEPT !.status = "ready",
                         !.scan = IF ScanRequired THEN "pending" ELSE "skipped"]

CommitReady(r) ==
  /\ At(r, "commit_ready")
  /\ Update(reqs[r].file, ReadyRow(reqs[r].v), reqs[r].expected)
  /\ Return(r)
  /\ UNCHANGED <<expiry, bucket, granted, jobs>>

-----------------------------------------------------------------------------
(* AbortMultipartUpload *)

AbortMultipartUpload(r, f) ==
  /\ rows[f].mode = "multipart" /\ rows[f].status = "pending_upload"
  /\ Begin(r, "abort_storage", f, rows[f], rows[f].version)
  /\ UNCHANGED <<table, expiry, bucket, granted, jobs>>

\* An upload that was completed or aborted before is unknown to the store.
AbortStorage(r) ==
  LET f == reqs[r].file IN
  /\ At(r, "abort_storage")
  /\ IF multipart[f] = "closed"
     THEN Return(r) /\ UNCHANGED multipart
     ELSE /\ multipart' = [multipart EXCEPT ![f] = "closed"]
          /\ Goto(r, "commit_abort")
  /\ UNCHANGED <<table, expiry, objects, granted, jobs>>

CommitAbort(r) ==
  /\ At(r, "commit_abort")
  /\ Update(reqs[r].file, [reqs[r].v EXCEPT !.status = "deleted"], reqs[r].expected)
  /\ Return(r)
  /\ UNCHANGED <<expiry, bucket, granted, jobs>>

-----------------------------------------------------------------------------
(* AuthorizeDownload and ReportScanResult *)

AuthorizeDownload(r, f) ==
  /\ At(r, "idle")
  /\ rows[f].status = "ready" /\ rows[f].scan \in {"clean", "skipped"}
  /\ downloads' = downloads \cup {<<f, rows[f].version>>}
  /\ UNCHANGED <<table, expiry, bucket, putURLs, partURLs, reqs, jobs>>

\* Fault: a scan result is accepted again after the first one.
ReportScanResult_Again(r, f, expected) ==
  /\ rows[f].status = "ready"
  /\ \E call \in {"commit_clean", "commit_infected"} :
       Begin(r, call, f, rows[f], expected)
  /\ UNCHANGED <<table, expiry, bucket, granted, jobs>>

ReportScanResult(r, f, expected) ==
  /\ rows[f].status = "ready" /\ rows[f].scan = "pending"
  /\ \E call \in {"commit_clean", "commit_infected"} :
       Begin(r, call, f, rows[f], expected)
  /\ UNCHANGED <<table, expiry, bucket, granted, jobs>>

CommitScan(r) ==
  /\ \E s \in {"clean", "infected"} :
       /\ At(r, IF s = "clean" THEN "commit_clean" ELSE "commit_infected")
       /\ Update(reqs[r].file, [reqs[r].v EXCEPT !.scan = s], reqs[r].expected)
  /\ Return(r)
  /\ UNCHANGED <<expiry, bucket, granted, jobs>>

-----------------------------------------------------------------------------
(* Delete *)

\* Fault: the object is removed before "deleting" is committed.
Delete_RemovesFirst(r, f, expected) ==
  /\ Exists(f) /\ rows[f].status # "deleted"
  /\ Begin(r, "remove_object", f, rows[f], expected)
  /\ UNCHANGED <<table, expiry, bucket, granted, jobs>>

\* A file found deleting is taken over at the version read, whatever version
\* the client sent; a deleted one is returned as it is.
Delete(r, f, expected) ==
  /\ Exists(f) /\ rows[f].status # "deleted"
  /\ IF rows[f].status = "deleting"
     THEN /\ rows[f].version < MaxVersion
          /\ Begin(r, "remove_object", f, rows[f], rows[f].version)
     ELSE Begin(r, "mark_deleting", f, rows[f], expected)
  /\ UNCHANGED <<table, expiry, bucket, granted, jobs>>

MarkDeleting(r) ==
  LET e == reqs[r].expected
      v == [reqs[r].v EXCEPT !.status = "deleting"] IN
  /\ At(r, "mark_deleting")
  /\ Update(reqs[r].file, v, e)
  /\ reqs' = [reqs EXCEPT ![r] = [pc |-> "remove_object", file |-> reqs[r].file,
                                  v |-> [v EXCEPT !.version = e + 1],
                                  expected |-> e + 1]]
  /\ UNCHANGED <<expiry, bucket, granted, jobs>>

\* Removing an object that is not there succeeds.
RemoveObject(r) ==
  /\ At(r, "remove_object")
  /\ objects' = [objects EXCEPT ![reqs[r].file] = "none"]
  /\ Goto(r, "mark_deleted")
  /\ UNCHANGED <<table, expiry, multipart, granted, jobs>>

MarkDeleted(r) ==
  /\ At(r, "mark_deleted")
  /\ Update(reqs[r].file, [reqs[r].v EXCEPT !.status = "deleted"], reqs[r].expected)
  /\ Return(r)
  /\ UNCHANGED <<expiry, bucket, granted, jobs>>

-----------------------------------------------------------------------------
(* CleanupExpiredUploads *)

\* Pending uploads past their expiry, and the first BatchSize by expiry.
Overdue == {f \in FileIds : rows[f].status = "pending_upload" /\ expiry[f] > 0}

\* Fault: the batch is one row short.
Batch_OffByOne == {f \in Overdue :
                     1 + Cardinality({g \in Overdue : expiry[g] < expiry[f]}) < BatchSize}
Batch == {f \in Overdue :
            Cardinality({g \in Overdue : expiry[g] < expiry[f]}) < BatchSize}

Listed(c) == {f \in FileIds : jobs[c].listed[f].version > 0}
IsNext(c, f) == /\ f \in Listed(c)
                /\ \A g \in Listed(c) : expiry[f] <= expiry[g]

\* The job goes on to its next row, or ends after its last one.
NextRow(c, f) ==
  jobs' = [jobs EXCEPT ![c] =
             [pc |-> IF Listed(c) = {f} THEN "idle" ELSE "release",
              listed |-> [jobs[c].listed EXCEPT ![f] = NoRow]]]

ListExpiredUploads(c) ==
  /\ jobs[c].pc = "idle"
  /\ Batch # {}
  /\ jobs' = [jobs EXCEPT ![c] =
                [pc |-> "release",
                 listed |-> [f \in FileIds |-> IF f \in Batch THEN rows[f] ELSE NoRow]]]
  /\ UNCHANGED <<table, expiry, bucket, granted, reqs>>

\* Fault: the upload mode is not looked at.
CleanupRelease_ObjectOnly(c, f) ==
  /\ jobs[c].pc = "release" /\ IsNext(c, f)
  /\ objects' = [objects EXCEPT ![f] = "none"]
  /\ jobs' = [jobs EXCEPT ![c].pc = "commit"]
  /\ UNCHANGED <<table, expiry, multipart, granted, reqs>>

\* AbortMultipart or Delete, before the row is written.
CleanupRelease(c, f) ==
  /\ jobs[c].pc = "release" /\ IsNext(c, f)
  /\ IF jobs[c].listed[f].mode = "multipart"
     THEN /\ multipart[f] # "closed"
          /\ multipart' = [multipart EXCEPT ![f] = "closed"]
          /\ UNCHANGED objects
     ELSE /\ objects' = [objects EXCEPT ![f] = "none"]
          /\ UNCHANGED multipart
  /\ jobs' = [jobs EXCEPT ![c].pc = "commit"]
  /\ UNCHANGED <<table, expiry, granted, reqs>>

CleanupCommit(c, f) ==
  LET v == jobs[c].listed[f] IN
  /\ jobs[c].pc = "commit" /\ IsNext(c, f)
  /\ Update(f, [v EXCEPT !.status = "expired"], v.version)
  /\ NextRow(c, f)
  /\ UNCHANGED <<expiry, bucket, granted, reqs>>

\* A storage error or a refused update: the error is kept, the loop continues.
CleanupContinue(c, f) ==
  LET v == jobs[c].listed[f] IN
  /\ IsNext(c, f)
  /\ \/ Faults
     \/ jobs[c].pc = "release" /\ v.mode = "multipart" /\ multipart[f] = "closed"
     \/ jobs[c].pc = "commit" /\ rows[f].version # v.version
  /\ NextRow(c, f)
  /\ UNCHANGED <<table, expiry, bucket, granted, reqs>>

CleanupCrash(c) ==
  /\ Faults
  /\ jobs[c].pc # "idle"
  /\ jobs' = [jobs EXCEPT ![c] = NoJob]
  /\ UNCHANGED <<table, expiry, bucket, granted, reqs>>

-----------------------------------------------------------------------------
HandlerStep(r) ==
  \/ Interrupt(r) \/ StaleVersion(r)
  \/ InsertUpload(r) \/ InsertUploadConflict(r)
  \/ CreateMultipart(r) \/ InsertMultipart(r) \/ InsertMultipartFails(r)
  \/ ReleaseMultipart(r)
  \/ Assemble(r) \/ AssembleFails(r) \/ CompleteRead(r)
  \/ Stat(r) \/ StatFails(r) \/ CommitReady(r)
  \/ AbortStorage(r) \/ CommitAbort(r)
  \/ CommitScan(r)
  \/ MarkDeleting(r) \/ RemoveObject(r) \/ MarkDeleted(r)

RequestArrives(r) ==
  \/ ReadOnly(r)
  \/ \E k \in Keys : \/ ReplayUpload(r, k)
                     \/ \E f \in FileIds : \/ InitiateUpload(r, k, f)
                                           \/ InitiateMultipartUpload(r, k, f)
  \/ \E f \in FileIds :
       \/ AuthorizeUploadPart(r, f)
       \/ CompleteMultipartUpload(r, f)
       \/ AbortMultipartUpload(r, f)
       \/ AuthorizeDownload(r, f)
       \/ \E e \in Expected(f) : \/ CompleteUpload(r, f, e)
                                 \/ ReportScanResult(r, f, e)
                                 \/ Delete(r, f, e)

ClientStep(f) == PutObject(f) \/ UploadParts(f) \/ ExpireSession(f)

CleanupStep(c) ==
  \/ ListExpiredUploads(c)
  \/ CleanupCrash(c)
  \/ \E f \in FileIds : \/ CleanupRelease(c, f)
                        \/ CleanupCommit(c, f)
                        \/ CleanupContinue(c, f)

Next ==
  \/ \E r \in Requests : RequestArrives(r) \/ HandlerStep(r)
  \/ \E f \in FileIds : ClientStep(f)
  \/ \E c \in Cleaners : CleanupStep(c)

Spec == Init /\ [][Next]_vars

-----------------------------------------------------------------------------
(* Properties *)

\* Every committed write of a row published exactly one status event, in version
\* order, and the last event tells the row's current state: addStatusEvent runs
\* in the transaction of each Insert and Update, with the version that the
\* UPDATE computes on its own.
OutboxMirrorsTable ==
  \A f \in FileIds :
    /\ Len(outbox[f]) = rows[f].version
    /\ \A i \in 1..Len(outbox[f]) : outbox[f][i].version = i
    /\ Exists(f) => outbox[f][rows[f].version] = Event(rows[f])

\* When clients send versions they were given, an update that its version check
\* lets through was computed from the very row it replaces.  The handlers check
\* the client's version and not the one they read, and call the object store in
\* between; so does the cleanup job with the rows it listed.
NoLostUpdate ==
  /\ \A r \in Requests :
       /\ reqs[r].pc \in UpdateCalls
       /\ rows[reqs[r].file].version = reqs[r].expected
       => reqs[r].v = rows[reqs[r].file]
  /\ \A c \in Cleaners : \A f \in Listed(c) :
       rows[f].version = jobs[c].listed[f].version => jobs[c].listed[f] = rows[f]

\* Where scanning is required, every download URL handed out was for a version
\* at which the scanner had reported the file clean, directly after the version
\* at which the file became ready to be scanned.
DownloadsWereScanned ==
  ScanRequired =>
    \A f \in FileIds, n \in 1..MaxVersion :
      <<f, n>> \in downloads =>
        /\ n > 1
        /\ outbox[f][n].status = "ready" /\ outbox[f][n].scan = "clean"
        /\ outbox[f][n - 1].status = "ready" /\ outbox[f][n - 1].scan = "pending"

\* An upload is recorded as expired, or deleted by an abort, only once its
\* multipart upload was released in the store: the storage call precedes the
\* commit, and a failed one leaves the row for the next attempt.
UnfinishedUploadsReleased ==
  \A f \in FileIds : rows[f].mode = "multipart" =>
    \A i \in 2..Len(outbox[f]) :
      \/ outbox[f][i].status = "expired"
      \/ outbox[f][i].status = "deleted" /\ outbox[f][i - 1].status = "pending_upload"
      => multipart[f] = "closed"

\* As long as no call fails, an open multipart upload has a row, or a request
\* that is about to insert it or to release it: of concurrent initiations of one
\* key, the losers of the unique constraint release what they created.
NoOrphanedUpload ==
  \A f \in FileIds : multipart[f] \in {"open", "good", "bad"} =>
    \/ Exists(f)
    \/ \E r \in Requests : /\ reqs[r].file = f
                           /\ reqs[r].pc \in {"mp_insert", "mp_abort"}

\* An object disappears only after its file was announced as deleting, or when
\* the upload session had expired: Delete commits "deleting" before it calls the
\* store, whatever crashes and retries follow.
RemovalsAnnounced ==
  [][\A f \in FileIds : objects[f] # "none" /\ objects'[f] = "none" =>
       \/ expiry[f] > 0
       \/ \E i \in 1..Len(outbox[f]) : outbox[f][i].status = "deleting"]_vars

\* The table and its outbox implement FileLifecycle: no crash, race or retry of
\* the handlers publishes a transition that is not one of its steps.
Lifecycle == INSTANCE FileLifecycle
               WITH state <- [f \in FileIds |-> Event(rows[f])], events <- outbox
ImplementsLifecycle == Lifecycle!LifecycleSpec

\* A ready file has an object of the declared size and checksum in the store:
\* CompleteUpload verifies the object before it commits "ready", and only the
\* deletion of the file removes it.
ReadyFilesAreStored ==
  \A f \in FileIds : rows[f].status = "ready" => objects[f] = "match"

-----------------------------------------------------------------------------
(* Fairness: a request is answered or times out, cron fires the cleanup      *)
(* again and again, a cleanup run goes on, and the store and the database    *)
(* do not fail forever.                                                      *)

HandlerFairness == \A r \in Requests : WF_vars(HandlerStep(r))

CleanupFairness ==
  \A c \in Cleaners :
    /\ WF_vars(ListExpiredUploads(c))
    /\ WF_vars(\E f \in FileIds : CleanupContinue(c, f))
    /\ SF_vars(\E f \in FileIds : CleanupRelease(c, f))
    /\ SF_vars(\E f \in FileIds : CleanupCommit(c, f))

FairSpec == Spec /\ HandlerFairness /\ CleanupFairness

\* An upload session that expires while it is pending leaves that state, by the
\* cleanup job or by a request that finishes or deletes it.
ExpiredUploadsAreCleaned ==
  \A f \in FileIds : f \in Overdue ~> rows[f].status # "pending_upload"

=============================================================================
