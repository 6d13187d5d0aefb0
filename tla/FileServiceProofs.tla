------------------------- MODULE FileServiceProofs -------------------------
(* Proofs about FileService, for every number of files, keys, requests and  *)
(* cleanup runs.                                                             *)
EXTENDS FileService, FiniteSetTheorems, TLAPS

-----------------------------------------------------------------------------
(* What the building blocks of the handlers do to the types. *)

\* Insert and Update keep the types of the table and of its outbox.
LEMMA TableTypes ==
  ASSUME TypeOK, NEW f \in FileIds, NEW v \in Metadata,
         \/ Insert(f, v)
         \/ \E e \in 0..MaxVersion : Update(f, v, e)
  PROVE  /\ rows' \in [FileIds -> Metadata]
         /\ outbox' \in [FileIds -> Seq(StatusEvents)]
<1>1. CASE Insert(f, v)
  <2>1. Event(v) \in StatusEvents
    BY DEF Event, StatusEvents, Metadata
  <2>2. Append(outbox[f], Event(v)) \in Seq(StatusEvents)
    BY <2>1 DEF TypeOK
  <2> QED
    BY <1>1, <2>2 DEF Insert, AddStatusEvent, TypeOK
<1>2. ASSUME NEW e \in 0..MaxVersion, Update(f, v, e)
      PROVE  /\ rows' \in [FileIds -> Metadata]
             /\ outbox' \in [FileIds -> Seq(StatusEvents)]
  <2> DEFINE w == [v EXCEPT !.version = e + 1]
  <2>0. /\ rows[f].version = e /\ e + 1 \in 0..MaxVersion
        /\ rows' = [rows EXCEPT ![f] = w]
        /\ outbox' = [outbox EXCEPT ![f] = Append(outbox[f], Event(w))]
    BY <1>2, ConstantsAssumption DEF Update, AddStatusEvent, TypeOK
  <2>1. w \in Metadata
    BY <2>0 DEF Metadata
  <2>2. Event(w) \in StatusEvents
    BY <2>1 DEF Event, StatusEvents, Metadata
  <2>3. Append(outbox[f], Event(w)) \in Seq(StatusEvents)
    BY <2>2 DEF TypeOK
  <2> HIDE DEF w
  <2> QED
    BY <2>0, <2>1, <2>3 DEF TypeOK
<1> QED
  BY <1>1, <1>2

\* The request part of the type invariant.
RequestsTyped ==
  /\ reqs \in [Requests -> RequestStates]
  /\ \A r \in Requests : reqs[r].pc # "idle" => reqs[r].file \in FileIds

\* Begin, Goto and Return keep the types of the requests in flight.
LEMMA RequestTypes ==
  ASSUME TypeOK, NEW r \in Requests,
         \/ Return(r)
         \/ reqs[r].pc # "idle" /\ \E call \in Calls : Goto(r, call)
         \/ \E call \in Calls, f \in FileIds, v \in Metadata, e \in 0..MaxVersion :
              Begin(r, call, f, v, e)
  PROVE  RequestsTyped'
<1>0. Idle \in RequestStates /\ Idle.pc = "idle"
  BY ConstantsAssumption
  DEF Idle, RequestStates, NoRow, Metadata, Statuses, ScanStatuses
<1>1. CASE Return(r)
  BY <1>0, <1>1 DEF Return, TypeOK, RequestsTyped
<1>2. ASSUME reqs[r].pc # "idle", NEW call \in Calls, Goto(r, call)
      PROVE  RequestsTyped'
  <2> DEFINE w == [reqs[r] EXCEPT !.pc = call]
  <2>1. reqs[r] \in RequestStates /\ reqs[r].file \in FileIds
    BY <1>2 DEF TypeOK
  <2>2. w \in RequestStates /\ w.file = reqs[r].file
    BY <2>1 DEF RequestStates
  <2>3. reqs' = [reqs EXCEPT ![r] = w]
    BY <1>2 DEF Goto
  <2> HIDE DEF w
  <2> QED
    BY <2>1, <2>2, <2>3 DEF TypeOK, RequestsTyped
<1>3. ASSUME NEW call \in Calls, NEW f \in FileIds, NEW v \in Metadata,
             NEW e \in 0..MaxVersion, Begin(r, call, f, v, e)
      PROVE  RequestsTyped'
  BY <1>3 DEF Begin, TypeOK, RequestsTyped, RequestStates
<1> QED
  BY <1>1, <1>2, <1>3

\* The rest of the type invariant: what is neither table nor requests.
StorageTyped ==
  /\ expiry \in [FileIds -> Nat]
  /\ objects \in [FileIds -> {"none", "match", "mismatch"}]
  /\ multipart \in [FileIds -> {"none", "open", "good", "bad", "closed"}]
GrantsTyped ==
  /\ putURLs \subseteq FileIds
  /\ partURLs \subseteq FileIds
  /\ downloads \subseteq FileIds \X (0..MaxVersion)
TableTyped ==
  /\ rows \in [FileIds -> Metadata]
  /\ outbox \in [FileIds -> Seq(StatusEvents)]
JobsTyped == jobs \in [Cleaners -> JobStates]

\* TypeOK is the conjunction of its five parts, now and after a step.
LEMMA TypeParts ==
  /\ TypeOK <=> TableTyped /\ StorageTyped /\ GrantsTyped /\ RequestsTyped /\ JobsTyped
  /\ TypeOK' <=> TableTyped' /\ StorageTyped' /\ GrantsTyped' /\ RequestsTyped' /\ JobsTyped'
BY DEF TypeOK, TableTyped, StorageTyped, GrantsTyped, RequestsTyped, JobsTyped

\* A part of the state that a step leaves alone keeps its types.
LEMMA UnchangedTypes ==
  ASSUME TypeOK
  PROVE  /\ UNCHANGED table => TableTyped'
         /\ UNCHANGED <<expiry, bucket>> => StorageTyped'
         /\ UNCHANGED granted => GrantsTyped'
         /\ UNCHANGED reqs => RequestsTyped'
         /\ UNCHANGED jobs => JobsTyped'
BY DEF TypeOK, TableTyped, StorageTyped, GrantsTyped, RequestsTyped, JobsTyped,
       table, bucket, granted

\* The rows that InitiateUpload and InitiateMultipartUpload build are rows.
LEMMA NewRowTypes ==
  /\ NoRow \in Metadata
  /\ \A k \in Keys, m \in {"single", "multipart"} : NewUpload(k, m) \in Metadata
BY ConstantsAssumption DEF NoRow, NewUpload, Metadata, Statuses, ScanStatuses

\* A row that is read, its version and the versions a client may send are typed.
LEMMA RowTypes ==
  ASSUME TypeOK, NEW f \in FileIds
  PROVE  /\ rows[f] \in Metadata
         /\ rows[f].version \in 0..MaxVersion
         /\ \A e \in Expected(f) : e \in 0..MaxVersion
BY ConstantsAssumption DEF TypeOK, Metadata, Expected

\* The edits the handlers make to a row they read give rows.
LEMMA EditTypes ==
  ASSUME NEW v \in Metadata
  PROVE  /\ ReadyRow(v) \in Metadata
         /\ \A s \in Statuses : [v EXCEPT !.status = s] \in Metadata
         /\ \A s \in ScanStatuses : [v EXCEPT !.scan = s] \in Metadata
         /\ \A n \in 0..MaxVersion : [v EXCEPT !.version = n] \in Metadata
BY DEF ReadyRow, Metadata, Statuses, ScanStatuses

\* What a request carries between its calls is typed.
LEMMA SnapshotTypes ==
  ASSUME TypeOK, NEW r \in Requests
  PROVE  /\ reqs[r].v \in Metadata
         /\ reqs[r].expected \in 0..MaxVersion
         /\ reqs[r].pc # "idle" => reqs[r].file \in FileIds
BY DEF TypeOK, RequestStates

\* What a cleanup run carries, and what its steps leave of it, is typed.
LEMMA JobTypes ==
  ASSUME TypeOK, NEW c \in Cleaners, NEW f \in FileIds
  PROVE  /\ jobs[c].listed[f] \in Metadata
         /\ NextRow(c, f) => JobsTyped'
<1>1. jobs[c].listed \in [FileIds -> Metadata]
  BY DEF TypeOK, JobStates
<1>2. [jobs[c].listed EXCEPT ![f] = NoRow] \in [FileIds -> Metadata]
  BY <1>1, NewRowTypes
<1>3. (IF Listed(c) = {f} THEN "idle" ELSE "release") \in {"idle", "release", "commit"}
  OBVIOUS
<1>4. jobs[c].listed[f] \in Metadata
  BY <1>1
<1>5. ASSUME NextRow(c, f) PROVE JobsTyped'
  BY <1>2, <1>3, <1>5 DEF TypeOK, JobsTyped, JobStates, NextRow
<1> QED
  BY <1>4, <1>5

-----------------------------------------------------------------------------
(* Type correctness.  One step per action; each names only the parts of the  *)
(* state that the action writes.                                             *)

\* The empty table, bucket and process state are well typed.
LEMMA TypeInit == Init => TypeOK
<1> SUFFICES ASSUME Init PROVE TypeOK
  OBVIOUS
<1>1. NoRow \in Metadata
  BY NewRowTypes
<1>2. Idle \in RequestStates /\ Idle.pc = "idle"
  BY <1>1, ConstantsAssumption DEF Idle, RequestStates
<1>3. NoJob \in JobStates
  BY <1>1 DEF NoJob, JobStates
<1> QED
  BY <1>1, <1>2, <1>3 DEF Init, TypeOK

\* The arrival of a request, whichever handler it calls, keeps the types.
LEMMA RequestStepTypes ==
  ASSUME TypeOK, NEW r \in Requests, RequestArrives(r) PROVE TypeOK'
<1> USE TypeParts, UnchangedTypes
<1>r. \A f \in FileIds : /\ rows[f] \in Metadata
                         /\ rows[f].version \in 0..MaxVersion
                         /\ \A e \in Expected(f) : e \in 0..MaxVersion
  BY RowTypes
<1>0. CASE ReadOnly(r)
  BY <1>0 DEF ReadOnly, vars
<1>1. ASSUME NEW k \in Keys, ReplayUpload(r, k) PROVE TypeOK'
  BY <1>1 DEF ReplayUpload, GrantsTyped, bucket
<1>2. ASSUME NEW k \in Keys, NEW f \in FileIds, InitiateUpload(r, k, f) PROVE TypeOK'
  BY <1>2, RequestTypes, NewRowTypes, ConstantsAssumption
  DEF InitiateUpload, Calls, InsertCalls
<1>3. ASSUME NEW k \in Keys, NEW f \in FileIds, InitiateMultipartUpload(r, k, f)
      PROVE  TypeOK'
  BY <1>3, RequestTypes, NewRowTypes, ConstantsAssumption
  DEF InitiateMultipartUpload, Calls, OtherCalls
<1>4. ASSUME NEW f \in FileIds, AuthorizeUploadPart(r, f) PROVE TypeOK'
  BY <1>4 DEF AuthorizeUploadPart, GrantsTyped
<1>5. ASSUME NEW f \in FileIds, CompleteMultipartUpload(r, f) PROVE TypeOK'
  BY <1>5, <1>r, RequestTypes DEF CompleteMultipartUpload, Calls, OtherCalls
<1>6. ASSUME NEW f \in FileIds, AbortMultipartUpload(r, f) PROVE TypeOK'
  BY <1>6, <1>r, RequestTypes DEF AbortMultipartUpload, Calls, OtherCalls
<1>7. ASSUME NEW f \in FileIds, AuthorizeDownload(r, f) PROVE TypeOK'
  BY <1>7, <1>r DEF AuthorizeDownload, GrantsTyped
<1>8. ASSUME NEW f \in FileIds, NEW e \in Expected(f), CompleteUpload(r, f, e)
      PROVE  TypeOK'
  BY <1>8, <1>r, RequestTypes DEF CompleteUpload, Calls, OtherCalls
<1>9. ASSUME NEW f \in FileIds, NEW e \in Expected(f), ReportScanResult(r, f, e)
      PROVE  TypeOK'
  BY <1>9, <1>r, RequestTypes DEF ReportScanResult, Calls, UpdateCalls
<1>10. ASSUME NEW f \in FileIds, NEW e \in Expected(f), Delete(r, f, e)
       PROVE  TypeOK'
  BY <1>10, <1>r, RequestTypes DEF Delete, Calls, UpdateCalls, OtherCalls
<1> QED
  BY <1>0, <1>1, <1>2, <1>3, <1>4, <1>5, <1>6, <1>7, <1>8, <1>9, <1>10
  DEF RequestArrives

\* Every further call of a handler keeps the types.
LEMMA HandlerStepTypes ==
  ASSUME TypeOK, NEW r \in Requests, HandlerStep(r) PROVE TypeOK'
<1> USE TypeParts, UnchangedTypes
<1> DEFINE f == reqs[r].file
<1>v. /\ reqs[r].v \in Metadata
      /\ reqs[r].expected \in 0..MaxVersion
      /\ reqs[r].pc # "idle" => f \in FileIds
  BY SnapshotTypes
<1>w. ASSUME NEW v \in Metadata, reqs[r].pc # "idle",
             Insert(f, v) \/ Update(f, v, reqs[r].expected)
      PROVE  TableTyped'
  BY <1>v, <1>w, TableTypes DEF TableTyped
<1>1. CASE Interrupt(r)
  BY <1>1, RequestTypes DEF Interrupt
<1>2. CASE StaleVersion(r)
  BY <1>2, RequestTypes DEF StaleVersion
<1>3. CASE InsertUpload(r)
  BY <1>3, <1>v, <1>w, RequestTypes DEF InsertUpload, At, GrantsTyped
<1>4. CASE InsertUploadConflict(r)
  BY <1>4, RequestTypes DEF InsertUploadConflict
<1>5. CASE CreateMultipart(r)
  <2>1. reqs[r].pc # "idle" /\ RequestsTyped'
    BY <1>5, RequestTypes DEF CreateMultipart, At, Calls, InsertCalls
  <2> QED
    BY <1>5, <2>1 DEF CreateMultipart, StorageTyped, bucket
<1>6. CASE InsertMultipart(r)
  <2>1. TableTyped' /\ RequestsTyped'
    BY <1>6, <1>v, <1>w, RequestTypes DEF InsertMultipart, At, Calls, OtherCalls
  <2> QED
    BY <1>6, <2>1 DEF InsertMultipart
<1>7. CASE InsertMultipartFails(r)
  BY <1>7, RequestTypes DEF InsertMultipartFails, At, Calls, OtherCalls
<1>8. CASE ReleaseMultipart(r)
  <2>1. RequestsTyped'
    BY <1>8, RequestTypes DEF ReleaseMultipart
  <2> QED
    BY <1>8, <2>1 DEF ReleaseMultipart, StorageTyped, bucket
<1>9. CASE Assemble(r)
  <2>1. RequestsTyped'
    BY <1>9, RequestTypes DEF Assemble, At, Calls, OtherCalls
  <2> QED
    BY <1>9, <2>1 DEF Assemble, StorageTyped
<1>10. CASE AssembleFails(r)
  BY <1>10, RequestTypes DEF AssembleFails
<1>11. CASE CompleteRead(r)
  <2>1. f \in FileIds /\ rows[f] \in Metadata
    BY <1>11, <1>v, RowTypes DEF CompleteRead, At
  <2>2. ASSUME reqs' = [reqs EXCEPT ![r].pc = "stat", ![r].v = rows[f]]
        PROVE  RequestsTyped'
    <3> DEFINE w == [reqs[r] EXCEPT !.pc = "stat", !.v = rows[f]]
    <3>1. reqs[r] \in RequestStates /\ "stat" \in Calls
      BY DEF TypeOK, Calls, OtherCalls
    <3>2. w \in RequestStates /\ w.file = f
      BY <2>1, <3>1 DEF RequestStates
    <3>3. reqs' = [reqs EXCEPT ![r] = w]
      BY <2>2
    <3> HIDE DEF w
    <3> QED
      BY <2>1, <3>2, <3>3 DEF TypeOK, RequestsTyped
  <2> QED
    BY <1>11, <2>2, RequestTypes DEF CompleteRead
<1>12. CASE Stat(r)
  BY <1>12, RequestTypes DEF Stat, At, Calls, UpdateCalls
<1>13. CASE StatFails(r)
  BY <1>13, RequestTypes DEF StatFails
<1>14. CASE CommitReady(r)
  <2>1. TableTyped' /\ RequestsTyped'
    BY <1>14, <1>v, <1>w, EditTypes, RequestTypes DEF CommitReady, At
  <2> QED
    BY <1>14, <2>1 DEF CommitReady
<1>15. CASE AbortStorage(r)
  <2>1. RequestsTyped'
    BY <1>15, RequestTypes DEF AbortStorage, At, Calls, UpdateCalls
  <2> QED
    BY <1>15, <2>1 DEF AbortStorage, StorageTyped, bucket
<1>16. CASE CommitAbort(r)
  <2>1. [reqs[r].v EXCEPT !.status = "deleted"] \in Metadata
    BY <1>v, EditTypes DEF Statuses
  <2>2. TableTyped' /\ RequestsTyped'
    BY <1>16, <1>w, <2>1, RequestTypes DEF CommitAbort, At
  <2> QED
    BY <1>16, <2>2 DEF CommitAbort
<1>17. CASE CommitScan(r)
  <2>1. \A s \in {"clean", "infected"} : [reqs[r].v EXCEPT !.scan = s] \in Metadata
    BY <1>v, EditTypes DEF ScanStatuses
  <2>2. TableTyped' /\ RequestsTyped'
    BY <1>17, <1>w, <2>1, RequestTypes DEF CommitScan, At
  <2> QED
    BY <1>17, <2>2 DEF CommitScan
<1>18. CASE MarkDeleting(r)
  <2> DEFINE v == [reqs[r].v EXCEPT !.status = "deleting"]
             e == reqs[r].expected
  <2>1. v \in Metadata /\ f \in FileIds
    BY <1>18, <1>v, EditTypes DEF Statuses, MarkDeleting, At
  <2>u. Update(f, v, e) /\ reqs[r].pc # "idle"
    BY <1>18 DEF MarkDeleting, At
  <2>t. TableTyped'
    BY <1>w, <2>1, <2>u
  <2>b. e + 1 \in 0..MaxVersion
    BY <1>v, <2>1, <2>u, RowTypes, ConstantsAssumption DEF Update
  <2>2. TableTyped' /\ e + 1 \in 0..MaxVersion
    BY <2>t, <2>b
  <2>3. [v EXCEPT !.version = e + 1] \in Metadata
    BY <2>1, <2>2, EditTypes
  <2> HIDE DEF v
  <2>4. RequestsTyped'
    BY <1>18, <2>1, <2>2, <2>3
    DEF MarkDeleting, TypeOK, RequestsTyped, RequestStates, Calls, OtherCalls, v
  <2> QED
    BY <1>18, <2>2, <2>4 DEF MarkDeleting
<1>19. CASE RemoveObject(r)
  <2>1. RequestsTyped'
    BY <1>19, RequestTypes DEF RemoveObject, At, Calls, UpdateCalls
  <2> QED
    BY <1>19, <2>1 DEF RemoveObject, StorageTyped, bucket
<1>20. CASE MarkDeleted(r)
  <2>1. [reqs[r].v EXCEPT !.status = "deleted"] \in Metadata
    BY <1>v, EditTypes DEF Statuses
  <2>2. TableTyped' /\ RequestsTyped'
    BY <1>20, <1>w, <2>1, RequestTypes DEF MarkDeleted, At
  <2> QED
    BY <1>20, <2>2 DEF MarkDeleted
<1> QED
  BY <1>1, <1>2, <1>3, <1>4, <1>5, <1>6, <1>7, <1>8, <1>9, <1>10, <1>11, <1>12,
     <1>13, <1>14, <1>15, <1>16, <1>17, <1>18, <1>19, <1>20
  DEF HandlerStep

\* Uploads through presigned URLs and the expiry of a session keep the types.
LEMMA ClientStepTypes ==
  ASSUME TypeOK, NEW f \in FileIds, ClientStep(f) PROVE TypeOK'
<1> USE TypeParts, UnchangedTypes
<1>1. CASE PutObject(f)
  BY <1>1 DEF PutObject, StorageTyped
<1>2. CASE UploadParts(f)
  BY <1>2 DEF UploadParts, StorageTyped
<1>3. CASE ExpireSession(f)
  <2>1. Cardinality({g \in FileIds : expiry[g] > 0}) \in Nat
    BY ConstantsAssumption, FS_Subset, FS_CardinalityType
  <2> QED
    BY <1>3, <2>1 DEF ExpireSession, StorageTyped, bucket
<1> QED
  BY <1>1, <1>2, <1>3 DEF ClientStep

\* Every step of CleanupExpiredUploads keeps the types.
LEMMA CleanupStepTypes ==
  ASSUME TypeOK, NEW c \in Cleaners, CleanupStep(c) PROVE TypeOK'
<1> USE TypeParts, UnchangedTypes
<1>1. CASE ListExpiredUploads(c)
  <2>1. [f \in FileIds |-> IF f \in Batch THEN rows[f] ELSE NoRow] \in [FileIds -> Metadata]
    BY NewRowTypes, RowTypes
  <2> QED
    BY <1>1, <2>1 DEF ListExpiredUploads, JobsTyped, JobStates
<1>2. CASE CleanupCrash(c)
  <2>1. NoJob \in JobStates
    BY NewRowTypes DEF NoJob, JobStates
  <2> QED
    BY <1>2, <2>1 DEF CleanupCrash, JobsTyped
<1>3. ASSUME NEW f \in FileIds, CleanupRelease(c, f) PROVE TypeOK'
  <2>1. JobsTyped'
    BY <1>3 DEF CleanupRelease, JobsTyped, JobStates
  <2>2. StorageTyped'
    BY <1>3 DEF CleanupRelease, StorageTyped
  <2> QED
    BY <1>3, <2>1, <2>2 DEF CleanupRelease
<1>4. ASSUME NEW f \in FileIds, CleanupCommit(c, f) PROVE TypeOK'
  <2> DEFINE v == jobs[c].listed[f]
             w == [v EXCEPT !.status = "expired"]
  <2>1. w \in Metadata /\ v.version \in 0..MaxVersion
    BY JobTypes, EditTypes DEF Statuses, Metadata
  <2>2. Update(f, w, v.version)
    BY <1>4 DEF CleanupCommit
  <2> HIDE DEF w, v
  <2>3. TableTyped'
    BY <2>1, <2>2, TableTypes DEF TableTyped
  <2> QED
    BY <1>4, <2>3, JobTypes DEF CleanupCommit
<1>5. ASSUME NEW f \in FileIds, CleanupContinue(c, f) PROVE TypeOK'
  BY <1>5, JobTypes DEF CleanupContinue
<1> QED
  BY <1>1, <1>2, <1>3, <1>4, <1>5 DEF CleanupStep

\* Type correctness of the whole service.
THEOREM TypeCorrect == Spec => []TypeOK
<1>1. TypeOK /\ [Next]_vars => TypeOK'
  <2> SUFFICES ASSUME TypeOK, [Next]_vars PROVE TypeOK'
    OBVIOUS
  <2>1. CASE Next
    BY <2>1, RequestStepTypes, HandlerStepTypes, ClientStepTypes, CleanupStepTypes,
       ConstantsAssumption
    DEF Next
  <2>2. CASE UNCHANGED vars
    BY <2>2, TypeParts, UnchangedTypes DEF vars
  <2> QED
    BY <2>1, <2>2
<1> QED
  BY <1>1, TypeInit, PTL DEF Spec

-----------------------------------------------------------------------------
(* The inductive invariant.  The outbox is append-only, so what a request     *)
(* read can be described by the event of the version it read, whatever was    *)
(* committed since.                                                           *)

\* v is the row of f as it was when it had version v.version.
SnapshotOf(v, f) ==
  /\ v.version \in 1..rows[f].version
  /\ outbox[f][v.version] = Event(v)
  /\ v.key = rows[f].key /\ v.mode = rows[f].mode

Starting == {"insert", "mp_create", "mp_insert"}
Working  == Calls \ (Starting \cup {"mp_abort"})

RowsInv ==
  \A f \in FileIds : /\ ~Exists(f) => rows[f] = NoRow
                     /\ Exists(f) => rows[f].status # "absent"

\* An id is drawn once, and has no row before its request commits it.
StartingOne(r) ==
  /\ ~Exists(reqs[r].file)
  /\ reqs[r].v.version = 1
  /\ reqs[r].v.status = "pending_upload" /\ reqs[r].v.scan = "pending"
  /\ \A q \in Requests \ {r} : reqs[q].file # reqs[r].file

\* What the guards of a handler established about the row it read.
GuardsHold(q) ==
  /\ q.pc \in {"stat", "commit_ready"} => q.v.status # "ready"
  /\ q.pc \in {"assemble", "complete_read", "abort_storage", "commit_abort"}
       => q.v.status = "pending_upload"
  /\ q.pc = "mark_deleting" => q.v.status \notin {"deleting", "deleted"}
  /\ q.pc \in {"remove_object", "mark_deleted"}
       => q.v.status = "deleting" /\ q.expected = q.v.version
  /\ q.pc \in {"commit_clean", "commit_infected"}
       => q.v.status = "ready" /\ q.v.scan = "pending"

WorkingOne(r) ==
  /\ SnapshotOf(reqs[r].v, reqs[r].file)
  /\ reqs[r].v.status # "absent"
  /\ ~AnyExpected => reqs[r].expected <= reqs[r].v.version
  /\ GuardsHold(reqs[r])

RequestsInv ==
  \A r \in Requests : /\ reqs[r].pc \in Starting => StartingOne(r)
                      /\ reqs[r].pc \in Working => WorkingOne(r)

JobsInv ==
  \A c \in Cleaners : \A f \in Listed(c) :
    /\ SnapshotOf(jobs[c].listed[f], f)
    /\ jobs[c].listed[f].status = "pending_upload"
    /\ expiry[f] > 0

IInv == TypeOK /\ OutboxMirrorsTable /\ RowsInv /\ RequestsInv /\ JobsInv

-----------------------------------------------------------------------------
(* What a commit does. *)

\* f gets the row w, its next version, and the event of w.
Extends(f, w) ==
  /\ w \in Metadata
  /\ w.version = rows[f].version + 1
  /\ w.status # "absent"
  /\ Exists(f) => w.key = rows[f].key /\ w.mode = rows[f].mode
  /\ rows' = [rows EXCEPT ![f] = w]
  /\ outbox' = [outbox EXCEPT ![f] = Append(outbox[f], Event(w))]

\* What was read stays readable in the outbox.
Stable == \A g \in FileIds, v \in Metadata : SnapshotOf(v, g) => SnapshotOf(v, g)'

\* Appending the event of the next version keeps every snapshot a snapshot.
LEMMA ExtendsIsStable ==
  ASSUME TypeOK, OutboxMirrorsTable, RowsInv,
         NEW f \in FileIds, NEW w, Extends(f, w)
  PROVE  /\ OutboxMirrorsTable' /\ RowsInv' /\ Stable
         /\ SnapshotOf(w, f)' /\ Exists(f)'
         /\ \A g \in FileIds \ {f} : rows'[g] = rows[g]
<1> DEFINE s == outbox[f]
           t == Append(outbox[f], Event(w))
<1>1. /\ rows'[f] = w
      /\ \A g \in FileIds \ {f} : rows'[g] = rows[g] /\ outbox'[g] = outbox[g]
      /\ outbox'[f] = t
  BY DEF Extends, TypeOK
<1>2. /\ Event(w) \in StatusEvents
      /\ Event(w).version = w.version
  BY DEF Extends, Event, StatusEvents, Metadata
<1>3. s \in Seq(StatusEvents) /\ rows[f].version \in Nat /\ w.version \in Nat
  BY DEF TypeOK, Metadata, Extends
<1>4. /\ Len(t) = Len(s) + 1
      /\ t[Len(s) + 1] = Event(w)
      /\ \A i \in 1..Len(s) : t[i] = s[i]
  BY <1>2, <1>3
<1>5. Len(s) = rows[f].version /\ w.version = Len(s) + 1
  BY DEF OutboxMirrorsTable, Extends
<1> HIDE DEF s, t
<1>6. OutboxMirrorsTable'
  <2> SUFFICES ASSUME NEW g \in FileIds
               PROVE  /\ Len(outbox'[g]) = rows'[g].version
                      /\ \A i \in 1..Len(outbox'[g]) : outbox'[g][i].version = i
                      /\ Exists(g)' => outbox'[g][rows'[g].version] = Event(rows'[g])
    BY DEF OutboxMirrorsTable, Event
  <2>1. CASE g = f
    <3>1. \A i \in 1..Len(s) : s[i].version = i
      BY DEF OutboxMirrorsTable, s
    <3>2. \A i \in 1..Len(t) : t[i].version = i
      <4>1. t[Len(s) + 1].version = Len(s) + 1
        BY <1>2, <1>4, <1>5
      <4>2. Len(s) \in Nat /\ \A i \in 1..Len(s) : t[i].version = i
        BY <1>3, <1>4, <3>1
      <4> QED
        BY <1>4, <4>1, <4>2
    <3>3. t[w.version] = Event(w) /\ Len(t) = w.version
      BY <1>4, <1>5
    <3> QED
      BY <1>1, <2>1, <3>2, <3>3
  <2>2. CASE g # f
    BY <1>1, <2>2 DEF OutboxMirrorsTable, Exists
  <2> QED
    BY <2>1, <2>2
<1>7. RowsInv'
  BY <1>1, <1>3, <1>5 DEF RowsInv, Exists, Extends
<1>8. ASSUME NEW g \in FileIds, NEW v \in Metadata, SnapshotOf(v, g)
      PROVE  SnapshotOf(v, g)'
  <2>1. CASE g = f
    <3>1. /\ v.version \in 1..Len(s) /\ s[v.version] = Event(v)
          /\ v.key = rows[f].key /\ v.mode = rows[f].mode
      BY <1>5, <1>8, <2>1 DEF SnapshotOf, s
    <3>2. Exists(f)
      BY <1>3, <1>5, <3>1 DEF Exists
    <3>3. w.key = rows[f].key /\ w.mode = rows[f].mode
      BY <3>2 DEF Extends
    <3> QED
      BY <1>1, <1>3, <1>4, <1>5, <2>1, <3>1, <3>3 DEF SnapshotOf, Event
  <2>2. CASE g # f
    BY <1>1, <1>8, <2>2 DEF SnapshotOf, Event
  <2> QED
    BY <2>1, <2>2
<1>9. SnapshotOf(w, f)'
  BY <1>1, <1>3, <1>4, <1>5 DEF SnapshotOf, Event
<1>10. Exists(f)'
  BY <1>1, <1>3, <1>5 DEF Exists
<1> QED
  BY <1>1, <1>6, <1>7, <1>8, <1>9, <1>10 DEF Stable

\* A step that leaves table and outbox alone keeps every snapshot.
LEMMA UnchangedIsStable ==
  ASSUME UNCHANGED table, OutboxMirrorsTable, RowsInv
  PROVE  /\ Stable /\ OutboxMirrorsTable' /\ RowsInv'
         /\ \A f \in FileIds : rows'[f] = rows[f]
BY DEF table, Stable, SnapshotOf, OutboxMirrorsTable, RowsInv, Exists, Event

\* A row read now is a snapshot, and an update that its version check lets
\* through extends the outbox.
LEMMA ReadsAreSnapshots ==
  ASSUME TypeOK, OutboxMirrorsTable, NEW f \in FileIds, Exists(f)
  PROVE  SnapshotOf(rows[f], f) /\ rows[f].version \in Nat
BY DEF TypeOK, Metadata, OutboxMirrorsTable, SnapshotOf, Exists

\* An UPDATE that matches its version, with its event, extends the outbox.
LEMMA UpdatesExtend ==
  ASSUME TypeOK, NEW f \in FileIds, NEW v \in Metadata, NEW e \in 0..MaxVersion,
         Update(f, v, e), v.status # "absent",
         v.key = rows[f].key, v.mode = rows[f].mode
  PROVE  /\ Extends(f, [v EXCEPT !.version = e + 1])
         /\ [v EXCEPT !.version = e + 1].status = v.status
<1> DEFINE w == [v EXCEPT !.version = e + 1]
<1>1. /\ rows[f].version = e /\ e + 1 \in 0..MaxVersion
      /\ rows' = [rows EXCEPT ![f] = w]
      /\ outbox' = [outbox EXCEPT ![f] = Append(outbox[f], Event(w))]
  BY ConstantsAssumption DEF Update, AddStatusEvent, TypeOK
<1>2. /\ w \in Metadata /\ w.version = e + 1 /\ w.status = v.status
      /\ w.key = v.key /\ w.mode = v.mode
  BY <1>1 DEF Metadata
<1> HIDE DEF w
<1>3. Extends(f, w) /\ w.status = v.status
  BY <1>1, <1>2 DEF Extends
<1> QED
  BY <1>3 DEF w

\* An INSERT of a first version, with its event, extends the outbox.
LEMMA InsertsExtend ==
  ASSUME TypeOK, RowsInv, NEW f \in FileIds, NEW v \in Metadata, Insert(f, v),
         ~Exists(f), v.version = 1, v.status # "absent"
  PROVE  Extends(f, v)
<1>1. rows[f].version = 0
  BY DEF RowsInv, NoRow
<1> QED
  BY <1>1 DEF Insert, AddStatusEvent, Extends

-----------------------------------------------------------------------------
(* The invariant, part by part. *)

\* A step of request r keeps the request part if it leaves the other requests
\* alone, does not touch the ids that others are about to insert, and leaves r
\* in order.
LEMMA RequestsKept ==
  ASSUME TypeOK, TypeOK', RequestsInv, Stable, NEW r \in Requests,
         \A q \in Requests \ {r} :
           /\ reqs'[q] = reqs[q]
           /\ reqs[q].pc \in Starting =>
                /\ reqs'[r].file # reqs[q].file
                /\ rows'[reqs[q].file] = rows[reqs[q].file],
         reqs'[r].pc \in Starting => StartingOne(r)',
         reqs'[r].pc \in Working => WorkingOne(r)'
  PROVE  RequestsInv'
<1> SUFFICES ASSUME NEW q \in Requests \ {r}
             PROVE  /\ reqs'[q].pc \in Starting => StartingOne(q)'
                    /\ reqs'[q].pc \in Working => WorkingOne(q)'
  BY DEF RequestsInv
<1>1. ASSUME reqs'[q].pc \in Starting PROVE StartingOne(q)'
  <2>1. reqs'[q] = reqs[q] /\ StartingOne(q)
    BY <1>1 DEF RequestsInv
  <2>2. \A p \in Requests \ {q} : reqs'[p].file # reqs'[q].file
    BY <1>1, <2>1 DEF StartingOne
  <2> QED
    BY <1>1, <2>1, <2>2 DEF StartingOne, Exists
<1>2. ASSUME reqs'[q].pc \in Working PROVE WorkingOne(q)'
  <2>1. reqs'[q] = reqs[q] /\ WorkingOne(q)
    BY <1>2 DEF RequestsInv
  <2>2. reqs[q].v \in Metadata /\ reqs[q].file \in FileIds
    BY <1>2, <2>1, SnapshotTypes DEF Working, Calls, InsertCalls, UpdateCalls, OtherCalls
  <2>3. SnapshotOf(reqs[q].v, reqs[q].file)'
    BY <2>1, <2>2 DEF WorkingOne, Stable, SnapshotOf, Event
  <2> QED
    BY <2>1, <2>3 DEF WorkingOne, GuardsHold
<1> QED
  BY <1>1, <1>2

\* The rows a cleanup run listed stay snapshots while the run is left alone.
LEMMA JobsKept ==
  ASSUME TypeOK, JobsInv, Stable, UNCHANGED jobs,
         \A f \in FileIds : expiry[f] > 0 => expiry'[f] > 0
  PROVE  JobsInv'
<1> SUFFICES ASSUME NEW c \in Cleaners, NEW f \in Listed(c)
             PROVE  /\ SnapshotOf(jobs[c].listed[f], f)'
                    /\ jobs[c].listed[f].status = "pending_upload"
                    /\ expiry'[f] > 0
  BY DEF JobsInv, Listed, SnapshotOf, Event
<1>1. f \in FileIds /\ jobs[c].listed[f] \in Metadata
  BY JobTypes DEF Listed
<1>2. SnapshotOf(jobs[c].listed[f], f)
  BY DEF JobsInv
<1>3. SnapshotOf(jobs[c].listed[f], f)'
  <2>1. \A v \in Metadata : SnapshotOf(v, f) => SnapshotOf(v, f)'
    BY <1>1 DEF Stable
  <2> QED
    BY <1>1, <1>2, <2>1 DEF SnapshotOf, Event
<1> QED
  BY <1>1, <1>3 DEF JobsInv

\* Calls before and after the row exists are told apart by where a request is.
LEMMA CallKinds ==
  /\ Starting \cap Working = {} /\ UpdateCalls \subseteq Working
  /\ {"assemble", "complete_read", "stat", "abort_storage", "remove_object"} \subseteq Working
  /\ "idle" \notin Starting \cup Working /\ "mp_abort" \notin Starting \cup Working
  /\ Working \subseteq Calls /\ Starting \subseteq Calls
BY DEF Starting, Working, Calls, InsertCalls, UpdateCalls, OtherCalls

\* The invariant holds initially.
LEMMA IInvInit == Init => IInv
<1> SUFFICES ASSUME Init PROVE IInv
  OBVIOUS
<1>1. TypeOK
  BY TypeInit
<1>2. OutboxMirrorsTable /\ RowsInv
  BY DEF Init, OutboxMirrorsTable, RowsInv, Exists, NoRow
<1>3. RequestsInv
  BY CallKinds DEF Init, RequestsInv, Idle
<1>4. JobsInv
  BY DEF Init, JobsInv, Listed, NoJob, NoRow
<1> QED
  BY <1>1, <1>2, <1>3, <1>4 DEF IInv

\* A request ends, or goes on to a call whose guard it has passed.
LEMMA ReturnKeeps ==
  ASSUME IInv, TypeOK', NEW r \in Requests, Return(r), UNCHANGED <<table, expiry, jobs>>
  PROVE  IInv'
<1>1. Stable /\ OutboxMirrorsTable' /\ RowsInv' /\ \A f \in FileIds : rows'[f] = rows[f]
  BY UnchangedIsStable DEF IInv
<1>2. reqs'[r] = Idle /\ \A q \in Requests \ {r} : reqs'[q] = reqs[q]
  BY DEF Return, IInv, TypeOK
<1>3. \A q \in Requests : reqs[q].pc \in Starting => reqs[q].file \in FileIds
  BY SnapshotTypes, CallKinds DEF IInv
<1>4. RequestsInv'
  BY <1>1, <1>2, <1>3, RequestsKept, CallKinds, ConstantsAssumption DEF IInv, Idle
<1>5. JobsInv'
  BY <1>1, JobsKept DEF IInv
<1> QED
  BY <1>1, <1>4, <1>5 DEF IInv

\* A request that goes on to its next call keeps the invariant.
LEMMA GotoKeeps ==
  ASSUME IInv, TypeOK', NEW r \in Requests, NEW call \in Calls, Goto(r, call),
         UNCHANGED <<table, expiry, jobs>>,
         \/ call = "mp_abort"
         \/ reqs[r].pc \in Starting /\ call \in Starting
         \/ /\ reqs[r].pc \in Working /\ call \in Working
            /\ GuardsHold([reqs[r] EXCEPT !.pc = call])
  PROVE  IInv'
<1>1. Stable /\ OutboxMirrorsTable' /\ RowsInv' /\ \A f \in FileIds : rows'[f] = rows[f]
  BY UnchangedIsStable DEF IInv
<1> DEFINE x == [reqs[r] EXCEPT !.pc = call]
<1>2. /\ reqs'[r] = x /\ \A q \in Requests \ {r} : reqs'[q] = reqs[q]
      /\ x.file = reqs[r].file /\ x.v = reqs[r].v
      /\ x.expected = reqs[r].expected /\ x.pc = call
  BY DEF Goto, IInv, TypeOK, RequestStates
<1>3. \A q \in Requests : reqs[q].pc \in Starting => reqs[q].file \in FileIds
  BY SnapshotTypes, CallKinds DEF IInv
<1>4. \A q \in Requests \ {r} :
        reqs[q].pc \in Starting => reqs'[r].file # reqs[q].file
  BY <1>2 DEF IInv, RequestsInv, StartingOne
<1> HIDE DEF x
<1>5. ASSUME call \in Starting PROVE StartingOne(r)'
  <2>1. StartingOne(r) /\ reqs[r].file \in FileIds
    BY <1>3, <1>5, CallKinds DEF IInv, RequestsInv
  <2>2. \A q \in Requests \ {r} : reqs'[q].file # reqs'[r].file
    BY <1>2, <2>1 DEF StartingOne
  <2> QED
    BY <1>1, <1>2, <2>1, <2>2 DEF StartingOne, Exists
<1>6. ASSUME call \in Working PROVE WorkingOne(r)'
  <2>1. WorkingOne(r) /\ GuardsHold(x)
    BY <1>6, CallKinds DEF IInv, RequestsInv, x
  <2>2. reqs[r].v \in Metadata /\ reqs[r].file \in FileIds
    BY <1>6, CallKinds, SnapshotTypes DEF IInv
  <2>3. SnapshotOf(reqs[r].v, reqs[r].file)'
    BY <1>2, <2>1 DEF WorkingOne, SnapshotOf, table, Event
  <2> QED
    BY <1>2, <2>1, <2>3 DEF WorkingOne
<1>7. RequestsInv'
  BY <1>1, <1>2, <1>3, <1>4, <1>5, <1>6, RequestsKept DEF IInv
<1>8. JobsInv'
  BY <1>1, JobsKept DEF IInv
<1> QED
  BY <1>1, <1>7, <1>8 DEF IInv

\* A request arrives for a row that exists, or draws a new id.
LEMMA BeginKeeps ==
  ASSUME IInv, TypeOK', NEW r \in Requests, NEW call, NEW f \in FileIds, NEW v, NEW e,
         Begin(r, call, f, v, e), UNCHANGED <<table, expiry, jobs>>,
         \/ /\ call \in Working /\ Exists(f) /\ v = rows[f]
            /\ ~AnyExpected => e <= rows[f].version
            /\ GuardsHold([pc |-> call, file |-> f, v |-> v, expected |-> e])
         \/ /\ call \in Starting /\ Fresh(f)
            /\ \E k \in Keys, m \in {"single", "multipart"} : v = NewUpload(k, m)
  PROVE  IInv'
<1>1. Stable /\ OutboxMirrorsTable' /\ RowsInv' /\ \A g \in FileIds : rows'[g] = rows[g]
  BY UnchangedIsStable DEF IInv
<1> DEFINE x == [pc |-> call, file |-> f, v |-> v, expected |-> e]
<1>2. /\ reqs'[r] = x /\ \A q \in Requests \ {r} : reqs'[q] = reqs[q]
      /\ x.file = f /\ x.v = v /\ x.expected = e /\ x.pc = call
  BY DEF Begin, IInv, TypeOK
<1> HIDE DEF x
<1>3. \A q \in Requests : reqs[q].pc \in Starting => reqs[q].file \in FileIds
  BY SnapshotTypes, CallKinds DEF IInv
<1>4. \A q \in Requests \ {r} :
        reqs[q].pc \in Starting => reqs'[r].file # reqs[q].file
  BY <1>2 DEF IInv, RequestsInv, StartingOne, Fresh
<1>5. ASSUME call \in Starting PROVE StartingOne(r)'
  <2>1. /\ Fresh(f)
        /\ v.version = 1 /\ v.status = "pending_upload" /\ v.scan = "pending"
    BY <1>5, CallKinds DEF NewUpload
  <2>2. \A q \in Requests \ {r} : reqs'[q].file # reqs'[r].file
    BY <1>2, <2>1 DEF Fresh
  <2> QED
    BY <1>1, <1>2, <2>1, <2>2 DEF StartingOne, Exists, Fresh
<1>6. ASSUME call \in Working PROVE WorkingOne(r)'
  <2>1. /\ Exists(f) /\ v = rows[f] /\ (~AnyExpected => e <= v.version)
        /\ GuardsHold(x)
    BY <1>6, CallKinds DEF x
  <2>2. v.status # "absent" /\ SnapshotOf(v, f)
    BY <2>1, ReadsAreSnapshots DEF IInv, RowsInv
  <2>3. SnapshotOf(reqs[r].v, reqs[r].file)'
    BY <1>2, <2>2 DEF SnapshotOf, table, Event
  <2> QED
    BY <1>2, <2>1, <2>2, <2>3 DEF WorkingOne
<1>7. RequestsInv'
  BY <1>1, <1>2, <1>3, <1>4, <1>5, <1>6, RequestsKept DEF IInv
<1>8. JobsInv'
  BY <1>1, JobsKept DEF IInv
<1> QED
  BY <1>1, <1>7, <1>8 DEF IInv

\* A request commits a row and returns, or goes on with the row it wrote.
LEMMA CommitKeeps ==
  ASSUME IInv, TypeOK', NEW r \in Requests, NEW w, UNCHANGED <<expiry, jobs>>,
         reqs[r].pc \in Starting \cup Working, Extends(reqs[r].file, w),
         \/ Return(r)
         \/ Goto(r, "mp_abort")
         \/ /\ reqs' = [reqs EXCEPT ![r] = [pc |-> "remove_object", file |-> reqs[r].file,
                                           v |-> w, expected |-> w.version]]
            /\ w.status = "deleting"
  PROVE  IInv'
<1>0. PICK f \in FileIds : f = reqs[r].file
  BY CallKinds, SnapshotTypes DEF IInv
<1>1. /\ OutboxMirrorsTable' /\ RowsInv' /\ Stable
      /\ SnapshotOf(w, f)' /\ Exists(f)'
      /\ \A g \in FileIds \ {f} : rows'[g] = rows[g]
  BY <1>0, ExtendsIsStable DEF IInv
<1>2. /\ \A q \in Requests \ {r} : reqs'[q] = reqs[q]
      /\ reqs'[r].file \in {f, NoFile}
      /\ reqs'[r].pc \notin Starting
  BY <1>0, CallKinds, ConstantsAssumption DEF Return, Goto, Idle, IInv, TypeOK, RequestStates
<1>3. \A q \in Requests \ {r} : reqs[q].pc \in Starting =>
        reqs[q].file \in FileIds /\ reqs[q].file # f
  <2> SUFFICES ASSUME NEW q \in Requests \ {r}, reqs[q].pc \in Starting
               PROVE  reqs[q].file \in FileIds /\ reqs[q].file # f
    OBVIOUS
  <2>1. reqs[q].file \in FileIds /\ StartingOne(q)
    BY SnapshotTypes, CallKinds DEF IInv, RequestsInv
  <2> QED
    BY <1>0, <2>1 DEF StartingOne
<1>4. ASSUME reqs'[r].pc \in Working PROVE WorkingOne(r)'
  <2>1. /\ reqs'[r] = [pc |-> "remove_object", file |-> f, v |-> w, expected |-> w.version]
        /\ w.status = "deleting" /\ w.version \in Nat
    BY <1>0, <1>4, CallKinds DEF Return, Goto, Idle, IInv, TypeOK, RequestStates, Extends, Metadata
  <2>2. SnapshotOf(reqs[r].v, reqs[r].file)'
    BY <1>1, <2>1 DEF SnapshotOf, Event
  <2> QED
    BY <2>1, <2>2 DEF WorkingOne, GuardsHold
<1>5. RequestsInv'
  BY <1>1, <1>2, <1>3, <1>4, RequestsKept, ConstantsAssumption DEF IInv
<1>6. JobsInv'
  BY <1>1, JobsKept DEF IInv
<1> QED
  BY <1>1, <1>5, <1>6 DEF IInv

-----------------------------------------------------------------------------
(* The invariant is kept by every action. *)

\* The arrival of a request keeps the invariant.
LEMMA ArrivalsKeepIInv ==
  ASSUME IInv, TypeOK', NEW r \in Requests, RequestArrives(r) PROVE IInv'
<1>t. TypeOK /\ OutboxMirrorsTable /\ RowsInv /\ RequestsInv /\ JobsInv
  BY DEF IInv
<1>u. ASSUME UNCHANGED <<table, expiry, reqs, jobs>> PROVE IInv'
  <2>1. Stable /\ OutboxMirrorsTable' /\ RowsInv'
    BY <1>t, <1>u, UnchangedIsStable
  <2>2. RequestsInv'
    BY <1>t, <1>u
    DEF RequestsInv, StartingOne, WorkingOne, SnapshotOf, Event, GuardsHold, Exists, table
  <2>3. JobsInv'
    BY <1>t, <1>u, <2>1, JobsKept
  <2> QED
    BY <2>1, <2>2, <2>3 DEF IInv
<1>e. \A f \in FileIds : rows[f].status # "absent" => Exists(f)
  BY <1>t DEF RowsInv, NoRow
<1>n. \A f \in FileIds : rows[f].version \in Nat
  BY <1>t, RowTypes
<1>0. CASE ReadOnly(r)
  BY <1>0, <1>u DEF ReadOnly, vars
<1>1. ASSUME NEW k \in Keys, ReplayUpload(r, k) PROVE IInv'
  BY <1>1, <1>u DEF ReplayUpload
<1>2. ASSUME NEW k \in Keys, NEW f \in FileIds, InitiateUpload(r, k, f) PROVE IInv'
  BY <1>2, BeginKeeps DEF InitiateUpload, Starting
<1>3. ASSUME NEW k \in Keys, NEW f \in FileIds, InitiateMultipartUpload(r, k, f)
      PROVE  IInv'
  BY <1>3, BeginKeeps DEF InitiateMultipartUpload, Starting
<1>4. ASSUME NEW f \in FileIds, AuthorizeUploadPart(r, f) PROVE IInv'
  BY <1>4, <1>u DEF AuthorizeUploadPart
<1>5. ASSUME NEW f \in FileIds, CompleteMultipartUpload(r, f) PROVE IInv'
  BY <1>5, <1>e, <1>n, BeginKeeps, CallKinds DEF CompleteMultipartUpload, GuardsHold
<1>6. ASSUME NEW f \in FileIds, AbortMultipartUpload(r, f) PROVE IInv'
  BY <1>6, <1>e, <1>n, BeginKeeps, CallKinds DEF AbortMultipartUpload, GuardsHold
<1>7. ASSUME NEW f \in FileIds, AuthorizeDownload(r, f) PROVE IInv'
  BY <1>7, <1>u DEF AuthorizeDownload
<1>8. ASSUME NEW f \in FileIds, NEW e \in Expected(f), CompleteUpload(r, f, e)
      PROVE  IInv'
  BY <1>8, BeginKeeps, CallKinds DEF CompleteUpload, GuardsHold, Expected
<1>9. ASSUME NEW f \in FileIds, NEW e \in Expected(f), ReportScanResult(r, f, e)
      PROVE  IInv'
  BY <1>9, <1>e, BeginKeeps, CallKinds
  DEF ReportScanResult, GuardsHold, Expected, UpdateCalls
<1>10. ASSUME NEW f \in FileIds, NEW e \in Expected(f), Delete(r, f, e)
       PROVE  IInv'
  <2>1. CASE rows[f].status = "deleting"
    BY <1>10, <2>1, <1>n, BeginKeeps, CallKinds DEF Delete, GuardsHold
  <2>2. CASE rows[f].status # "deleting"
    BY <1>10, <2>2, BeginKeeps, CallKinds DEF Delete, GuardsHold, Expected, UpdateCalls
  <2> QED
    BY <2>1, <2>2
<1> QED
  BY <1>0, <1>1, <1>2, <1>3, <1>4, <1>5, <1>6, <1>7, <1>8, <1>9, <1>10
  DEF RequestArrives

\* Every update a handler commits extends the history of its file.
LEMMA HandlerUpdates ==
  ASSUME IInv, NEW r \in Requests, reqs[r].pc \in UpdateCalls, NEW v \in Metadata,
         v.key = reqs[r].v.key, v.mode = reqs[r].v.mode, v.status # "absent",
         Update(reqs[r].file, v, reqs[r].expected)
  PROVE  Extends(reqs[r].file, [v EXCEPT !.version = reqs[r].expected + 1])
<1>1. WorkingOne(r) /\ TypeOK
  BY CallKinds DEF IInv, RequestsInv
<1>2. reqs[r].file \in FileIds /\ reqs[r].expected \in 0..MaxVersion
  BY <1>1, SnapshotTypes, CallKinds
<1>3. v.key = rows[reqs[r].file].key /\ v.mode = rows[reqs[r].file].mode
  BY <1>1 DEF WorkingOne, SnapshotOf
<1> QED
  BY <1>1, <1>2, <1>3, UpdatesExtend

\* The rows the handlers write keep key and mode of the row that was read.
LEMMA EditFields ==
  ASSUME NEW v \in Metadata
  PROVE  /\ ReadyRow(v).key = v.key /\ ReadyRow(v).mode = v.mode
         /\ ReadyRow(v).status = "ready"
         /\ \A s \in Statuses : /\ [v EXCEPT !.status = s].key = v.key
                                 /\ [v EXCEPT !.status = s].mode = v.mode
                                 /\ [v EXCEPT !.status = s].scan = v.scan
                                 /\ [v EXCEPT !.status = s].status = s
         /\ \A s \in ScanStatuses : /\ [v EXCEPT !.scan = s].key = v.key
                                     /\ [v EXCEPT !.scan = s].mode = v.mode
                                     /\ [v EXCEPT !.scan = s].status = v.status
                                     /\ [v EXCEPT !.scan = s].scan = s
BY DEF ReadyRow, Metadata

\* CompleteUpload reads the row a second time after the parts were assembled.
LEMMA ReadAgainKeeps ==
  ASSUME IInv, TypeOK', NEW r \in Requests, At(r, "complete_read"),
         rows[reqs[r].file].status # "ready",
         reqs' = [reqs EXCEPT ![r].pc = "stat", ![r].v = rows[reqs[r].file]],
         UNCHANGED <<table, expiry, jobs>>
  PROVE  IInv'
<1>1. Stable /\ OutboxMirrorsTable' /\ RowsInv' /\ \A g \in FileIds : rows'[g] = rows[g]
  BY UnchangedIsStable DEF IInv
<1>2. PICK f \in FileIds : f = reqs[r].file
  BY SnapshotTypes DEF IInv, At
<1>3. WorkingOne(r) /\ TypeOK
  BY CallKinds DEF IInv, RequestsInv, At
<1>4. /\ reqs'[r].pc = "stat" /\ reqs'[r].file = f /\ reqs'[r].v = rows[f]
      /\ reqs'[r].expected = reqs[r].expected
      /\ \A q \in Requests \ {r} : reqs'[q] = reqs[q]
  BY <1>2, <1>3 DEF TypeOK, RequestStates
<1>5. /\ reqs[r].v.version \in 1..rows[f].version /\ rows[f].version \in Nat
      /\ reqs[r].expected \in Nat
  BY <1>2, <1>3, RowTypes, SnapshotTypes DEF WorkingOne, SnapshotOf
<1>6. Exists(f) /\ SnapshotOf(rows[f], f) /\ rows[f].status # "absent"
  BY <1>5, ReadsAreSnapshots DEF Exists, IInv, RowsInv
<1>7. SnapshotOf(reqs[r].v, reqs[r].file)'
  BY <1>4, <1>6 DEF SnapshotOf, table, Event
<1>8. ~AnyExpected => reqs'[r].expected <= reqs'[r].v.version
  BY <1>3, <1>4, <1>5 DEF WorkingOne
<1>9. WorkingOne(r)'
  BY <1>2, <1>4, <1>6, <1>7, <1>8 DEF WorkingOne, GuardsHold
<1>10. \A q \in Requests \ {r} : reqs[q].pc \in Starting =>
         reqs[q].file \in FileIds /\ reqs'[r].file # reqs[q].file
  BY <1>2, <1>4, SnapshotTypes, CallKinds DEF IInv, RequestsInv, StartingOne
<1>11. RequestsInv'
  <2>1. reqs'[r].pc \notin Starting
    BY <1>4 DEF Starting
  <2>2. \A q \in Requests \ {r} :
          /\ reqs'[q] = reqs[q]
          /\ reqs[q].pc \in Starting =>
               /\ reqs'[r].file # reqs[q].file
               /\ rows'[reqs[q].file] = rows[reqs[q].file]
    BY <1>1, <1>4, <1>10
  <2> QED
    BY <1>1, <1>3, <1>9, <2>1, <2>2, RequestsKept DEF IInv
<1>12. JobsInv'
  BY <1>1, JobsKept DEF IInv
<1> QED
  BY <1>1, <1>11, <1>12 DEF IInv

\* Every further call of a handler keeps the invariant.
LEMMA HandlersKeepIInv ==
  ASSUME IInv, TypeOK', NEW r \in Requests, HandlerStep(r) PROVE IInv'
<1>t. TypeOK /\ RowsInv
  BY DEF IInv
<1>v. /\ reqs[r].v \in Metadata
      /\ reqs[r].expected \in 0..MaxVersion
      /\ reqs[r].pc # "idle" => reqs[r].file \in FileIds
  BY <1>t, SnapshotTypes
<1>w. reqs[r].pc \in Working => WorkingOne(r) /\ GuardsHold(reqs[r])
  BY DEF IInv, RequestsInv, WorkingOne
<1>s. reqs[r].pc \in Starting => StartingOne(r)
  BY DEF IInv, RequestsInv
<1>1. CASE Interrupt(r)
  BY <1>1, ReturnKeeps DEF Interrupt
<1>2. CASE StaleVersion(r)
  BY <1>2, ReturnKeeps DEF StaleVersion
<1>i. ASSUME reqs[r].pc \in {"insert", "mp_insert"}, Insert(reqs[r].file, reqs[r].v)
      PROVE  Extends(reqs[r].file, reqs[r].v) /\ reqs[r].pc \in Starting
  <2>1. reqs[r].pc \in Starting
    BY <1>i DEF Starting
  <2> QED
    BY <1>i, <1>t, <1>v, <1>s, <2>1, InsertsExtend, CallKinds DEF StartingOne
<1>3. CASE InsertUpload(r)
  BY <1>3, <1>i, CommitKeeps DEF InsertUpload, At
<1>4. CASE InsertUploadConflict(r)
  BY <1>4, ReturnKeeps DEF InsertUploadConflict
<1>5. CASE CreateMultipart(r)
  BY <1>5, GotoKeeps, CallKinds DEF CreateMultipart, At, Starting
<1>6. CASE InsertMultipart(r)
  BY <1>6, <1>i, CommitKeeps DEF InsertMultipart, At
<1>7. CASE InsertMultipartFails(r)
  BY <1>7, GotoKeeps DEF InsertMultipartFails, Calls, OtherCalls
<1>8. CASE ReleaseMultipart(r)
  BY <1>8, ReturnKeeps DEF ReleaseMultipart
<1>g. ASSUME NEW call \in Working
      PROVE  /\ [reqs[r] EXCEPT !.pc = call].pc = call
             /\ [reqs[r] EXCEPT !.pc = call].v = reqs[r].v
             /\ [reqs[r] EXCEPT !.pc = call].expected = reqs[r].expected
  BY <1>t DEF TypeOK, RequestStates
<1>9. CASE Assemble(r)
  <2>1. GuardsHold([reqs[r] EXCEPT !.pc = "complete_read"])
    BY <1>9, <1>g, <1>w, CallKinds DEF Assemble, At, GuardsHold
  <2> QED
    BY <1>9, <2>1, GotoKeeps, CallKinds DEF Assemble, At
<1>10. CASE AssembleFails(r)
  BY <1>10, ReturnKeeps DEF AssembleFails
<1>12. CASE Stat(r)
  <2>1. GuardsHold([reqs[r] EXCEPT !.pc = "commit_ready"])
    BY <1>12, <1>g, <1>w, CallKinds DEF Stat, At, GuardsHold, UpdateCalls
  <2> QED
    BY <1>12, <2>1, GotoKeeps, CallKinds DEF Stat, At, UpdateCalls
<1>13. CASE StatFails(r)
  BY <1>13, ReturnKeeps DEF StatFails
<1>14. CASE CommitReady(r)
  <2>1. \E x : Extends(reqs[r].file, x)
    BY <1>14, <1>v, HandlerUpdates, EditTypes, EditFields DEF CommitReady, At, UpdateCalls
  <2> QED
    BY <1>14, <2>1, CommitKeeps, CallKinds DEF CommitReady, At, UpdateCalls
<1>15. CASE AbortStorage(r)
  <2>1. GuardsHold([reqs[r] EXCEPT !.pc = "commit_abort"])
    BY <1>15, <1>g, <1>w, CallKinds DEF AbortStorage, At, GuardsHold, UpdateCalls
  <2> QED
    BY <1>15, <2>1, GotoKeeps, ReturnKeeps, CallKinds DEF AbortStorage, At, UpdateCalls
<1>16. CASE CommitAbort(r)
  <2>0. PICK v \in Metadata : v = [reqs[r].v EXCEPT !.status = "deleted"]
    BY <1>v, EditTypes DEF Statuses
  <2>a. v.key = reqs[r].v.key /\ v.mode = reqs[r].v.mode /\ v.status = "deleted"
    BY <1>v, <2>0, EditFields DEF Statuses
  <2>1. \E x : Extends(reqs[r].file, x)
    BY <1>16, <2>0, <2>a, HandlerUpdates DEF CommitAbort, At, UpdateCalls
  <2> QED
    BY <1>16, <2>1, CommitKeeps, CallKinds DEF CommitAbort, At, UpdateCalls
<1>17. CASE CommitScan(r)
  <2>0. reqs[r].pc \in UpdateCalls /\ reqs[r].v.status # "absent"
    BY <1>17, <1>w, CallKinds DEF CommitScan, At, UpdateCalls, WorkingOne
  <2>a. PICK s \in {"clean", "infected"} :
          Update(reqs[r].file, [reqs[r].v EXCEPT !.scan = s], reqs[r].expected)
    BY <1>17 DEF CommitScan
  <2>b. PICK v \in Metadata : v = [reqs[r].v EXCEPT !.scan = s]
    BY <1>v, EditTypes DEF ScanStatuses
  <2>c. v.key = reqs[r].v.key /\ v.mode = reqs[r].v.mode /\ v.status = reqs[r].v.status
    BY <1>v, <2>b, EditFields DEF ScanStatuses
  <2>1. \E x : Extends(reqs[r].file, x)
    BY <2>0, <2>a, <2>b, <2>c, HandlerUpdates
  <2> QED
    BY <1>17, <2>0, <2>1, CommitKeeps, CallKinds DEF CommitScan
<1>19. CASE RemoveObject(r)
  <2>1. GuardsHold([reqs[r] EXCEPT !.pc = "mark_deleted"])
    BY <1>19, <1>g, <1>w, CallKinds DEF RemoveObject, At, GuardsHold, UpdateCalls
  <2> QED
    BY <1>19, <2>1, GotoKeeps, CallKinds DEF RemoveObject, At, UpdateCalls
<1>20. CASE MarkDeleted(r)
  <2>0. PICK v \in Metadata : v = [reqs[r].v EXCEPT !.status = "deleted"]
    BY <1>v, EditTypes DEF Statuses
  <2>a. v.key = reqs[r].v.key /\ v.mode = reqs[r].v.mode /\ v.status = "deleted"
    BY <1>v, <2>0, EditFields DEF Statuses
  <2>1. \E x : Extends(reqs[r].file, x)
    BY <1>20, <2>0, <2>a, HandlerUpdates DEF MarkDeleted, At, UpdateCalls
  <2> QED
    BY <1>20, <2>1, CommitKeeps, CallKinds DEF MarkDeleted, At, UpdateCalls
<1>18. CASE MarkDeleting(r)
  <2>0. PICK v \in Metadata : v = [reqs[r].v EXCEPT !.status = "deleting"]
    BY <1>v, EditTypes DEF Statuses
  <2>1. PICK e \in 0..MaxVersion : e = reqs[r].expected
    BY <1>v
  <2>2. /\ v.key = reqs[r].v.key /\ v.mode = reqs[r].v.mode /\ v.status = "deleting"
        /\ reqs[r].pc = "mark_deleting"
        /\ Update(reqs[r].file, v, e)
    BY <1>18, <1>v, <2>0, <2>1, EditFields DEF MarkDeleting, At, Statuses
  <2>3. PICK x : x = [v EXCEPT !.version = e + 1]
    OBVIOUS
  <2>4. Extends(reqs[r].file, x)
    BY <2>1, <2>2, <2>3, HandlerUpdates DEF UpdateCalls
  <2>5. x.version = e + 1 /\ x.status = "deleting"
    BY <2>2, <2>3 DEF Metadata
  <2>6. reqs' = [reqs EXCEPT ![r] = [pc |-> "remove_object", file |-> reqs[r].file,
                                     v |-> x, expected |-> x.version]]
    BY <1>18, <2>0, <2>1, <2>3, <2>5 DEF MarkDeleting
  <2> QED
    BY <1>18, <2>2, <2>4, <2>5, <2>6, CommitKeeps, CallKinds DEF MarkDeleting, UpdateCalls
<1>11. CASE CompleteRead(r)
  <2>1. CASE rows[reqs[r].file].status = "ready"
    BY <1>11, <2>1, ReturnKeeps DEF CompleteRead
  <2>2. CASE rows[reqs[r].file].status # "ready"
    BY <1>11, <2>2, ReadAgainKeeps DEF CompleteRead
  <2> QED
    BY <2>1, <2>2
<1> QED
  BY <1>1, <1>2, <1>3, <1>4, <1>5, <1>6, <1>7, <1>8, <1>9, <1>10, <1>11, <1>12,
     <1>13, <1>14, <1>15, <1>16, <1>17, <1>18, <1>19, <1>20
  DEF HandlerStep

\* What clients do with their URLs, and expiry, keep the invariant.
LEMMA ClientsKeepIInv ==
  ASSUME IInv, TypeOK', NEW f \in FileIds, ClientStep(f) PROVE IInv'
<1>t. TypeOK /\ OutboxMirrorsTable /\ RowsInv /\ RequestsInv /\ JobsInv
  BY DEF IInv
<1>1. UNCHANGED <<table, reqs, jobs>>
  BY DEF ClientStep, PutObject, UploadParts, ExpireSession
<1>2. \A g \in FileIds : expiry[g] > 0 => expiry'[g] > 0
  <2>1. CASE ExpireSession(f)
    <3>1. expiry[f] = 0 /\ \A g \in FileIds \ {f} : expiry'[g] = expiry[g]
      BY <1>t, <2>1 DEF ExpireSession, TypeOK
    <3> QED
      BY <3>1
  <2>2. CASE PutObject(f) \/ UploadParts(f)
    BY <2>2 DEF PutObject, UploadParts
  <2> QED
    BY <2>1, <2>2 DEF ClientStep
<1>3. Stable /\ OutboxMirrorsTable' /\ RowsInv'
  BY <1>t, <1>1, UnchangedIsStable
<1>4. RequestsInv'
  BY <1>t, <1>1
  DEF RequestsInv, StartingOne, WorkingOne, SnapshotOf, Event, GuardsHold, Exists, table
<1>5. JobsInv'
  BY <1>t, <1>1, <1>2, <1>3, JobsKept
<1> QED
  BY <1>3, <1>4, <1>5 DEF IInv

\* The rows left after a step of a cleanup run are among those listed before.
LEMMA FewerListed ==
  ASSUME TypeOK, JobsInv, Stable, UNCHANGED expiry, NEW c \in Cleaners,
         \A d \in Cleaners \ {c} : jobs'[d] = jobs[d],
         \A f \in FileIds : \/ jobs'[c].listed[f] = jobs[c].listed[f]
                            \/ jobs'[c].listed[f] = NoRow
  PROVE  JobsInv'
<1> SUFFICES ASSUME NEW d \in Cleaners, NEW f \in FileIds, jobs'[d].listed[f].version > 0
             PROVE  /\ SnapshotOf(jobs[d].listed[f], f)'
                    /\ jobs'[d].listed[f].status = "pending_upload"
                    /\ expiry'[f] > 0
  BY DEF JobsInv, Listed
<1>1. jobs'[d].listed[f] = jobs[d].listed[f] /\ f \in Listed(d)
  BY DEF Listed, NoRow
<1>2. PICK v \in Metadata : v = jobs[d].listed[f]
  BY JobTypes
<1>3. SnapshotOf(v, f) /\ v.status = "pending_upload" /\ expiry[f] > 0
  BY <1>1, <1>2 DEF JobsInv
<1>4. SnapshotOf(v, f)'
  BY <1>3 DEF Stable
<1> QED
  BY <1>1, <1>2, <1>3, <1>4 DEF SnapshotOf, Event

\* Every step of CleanupExpiredUploads keeps the invariant.
LEMMA CleanupKeepsIInv ==
  ASSUME IInv, TypeOK', NEW c \in Cleaners, CleanupStep(c) PROVE IInv'
<1>t. TypeOK /\ OutboxMirrorsTable /\ RowsInv /\ RequestsInv /\ JobsInv
  BY DEF IInv
<1>u. ASSUME UNCHANGED <<table, reqs>>
      PROVE  Stable /\ OutboxMirrorsTable' /\ RowsInv' /\ RequestsInv'
  <2>1. Stable /\ OutboxMirrorsTable' /\ RowsInv'
    BY <1>t, <1>u, UnchangedIsStable
  <2> QED
    BY <1>t, <1>u, <2>1
    DEF RequestsInv, StartingOne, WorkingOne, SnapshotOf, Event, GuardsHold, Exists, table
<1>n. ASSUME NEW f \in FileIds, NextRow(c, f)
      PROVE  /\ \A d \in Cleaners \ {c} : jobs'[d] = jobs[d]
             /\ \A g \in FileIds : \/ jobs'[c].listed[g] = jobs[c].listed[g]
                                    \/ jobs'[c].listed[g] = NoRow
  <2>1. /\ jobs'[c].listed = [jobs[c].listed EXCEPT ![f] = NoRow]
        /\ \A d \in Cleaners \ {c} : jobs'[d] = jobs[d]
    BY <1>n, <1>t DEF NextRow, TypeOK
  <2> QED
    BY <1>t, <2>1 DEF TypeOK, JobStates
<1>1. CASE ListExpiredUploads(c)
  <2>1. UNCHANGED <<table, reqs, expiry>>
    BY <1>1 DEF ListExpiredUploads
  <2>2. /\ \A d \in Cleaners \ {c} : jobs'[d] = jobs[d]
        /\ \A f \in FileIds : jobs'[c].listed[f] = IF f \in Batch THEN rows[f] ELSE NoRow
    BY <1>1, <1>t DEF ListExpiredUploads, TypeOK
  <2>3. JobsInv'
    <3> SUFFICES ASSUME NEW d \in Cleaners, NEW f \in FileIds, jobs'[d].listed[f].version > 0
                 PROVE  /\ SnapshotOf(jobs[d].listed[f], f)'
                        /\ jobs'[d].listed[f].status = "pending_upload"
                        /\ expiry'[f] > 0
      BY DEF JobsInv, Listed
    <3>1. CASE d = c
      <4>1. f \in Batch /\ jobs'[d].listed[f] = rows[f]
        BY <2>2, <3>1 DEF NoRow
      <4>2. Exists(f) /\ rows[f].status = "pending_upload" /\ expiry[f] > 0
        BY <4>1, <1>t DEF Batch, Overdue, RowsInv, NoRow
      <4>3. SnapshotOf(rows[f], f)
        BY <1>t, <4>2, ReadsAreSnapshots
      <4> QED
        BY <2>1, <4>1, <4>2, <4>3 DEF SnapshotOf, Event, table
    <3>2. CASE d # c
      BY <1>t, <2>1, <2>2, <3>2 DEF JobsInv, Listed, SnapshotOf, Event, table
    <3> QED
      BY <3>1, <3>2
  <2> QED
    BY <1>u, <2>1, <2>3 DEF IInv
<1>2. CASE CleanupCrash(c)
  <2>1. /\ \A d \in Cleaners \ {c} : jobs'[d] = jobs[d]
        /\ \A f \in FileIds : jobs'[c].listed[f] = NoRow
    BY <1>2, <1>t DEF CleanupCrash, NoJob, TypeOK
  <2> QED
    BY <1>2, <1>t, <1>u, <2>1, FewerListed DEF CleanupCrash, IInv
<1>3. ASSUME NEW f \in FileIds, CleanupRelease(c, f) PROVE IInv'
  <2>1. /\ \A d \in Cleaners \ {c} : jobs'[d] = jobs[d]
        /\ \A g \in FileIds : jobs'[c].listed[g] = jobs[c].listed[g]
    BY <1>3, <1>t DEF CleanupRelease, TypeOK, JobStates
  <2> QED
    BY <1>3, <1>t, <1>u, <2>1, FewerListed DEF CleanupRelease, IInv
<1>4. ASSUME NEW f \in FileIds, CleanupCommit(c, f) PROVE IInv'
  <2>1. PICK v \in Metadata : v = jobs[c].listed[f]
    BY <1>t, JobTypes
  <2>2. PICK w \in Metadata : w = [v EXCEPT !.status = "expired"]
    BY EditTypes DEF Statuses
  <2>3. w.key = v.key /\ w.mode = v.mode /\ w.status = "expired"
    BY <2>2, EditFields DEF Statuses
  <2>4. SnapshotOf(v, f) /\ v.version \in 0..MaxVersion /\ Update(f, w, v.version)
    BY <1>4, <1>t, <2>1, <2>2 DEF CleanupCommit, IsNext, JobsInv, Metadata
  <2>5. PICK x : Extends(f, x)
    BY <1>t, <2>3, <2>4, UpdatesExtend DEF SnapshotOf
  <2>6. /\ OutboxMirrorsTable' /\ RowsInv' /\ Stable
        /\ \A g \in FileIds \ {f} : rows'[g] = rows[g]
    BY <1>t, <2>5, ExtendsIsStable
  <2>7. Exists(f)
    BY <1>t, <2>4, RowTypes DEF SnapshotOf, Exists
  <2>8. RequestsInv'
    <3> SUFFICES ASSUME NEW q \in Requests
                 PROVE  /\ reqs[q].pc \in Starting => StartingOne(q)'
                        /\ reqs[q].pc \in Working => WorkingOne(q)'
      BY <1>4 DEF RequestsInv, CleanupCommit
    <3>0. UNCHANGED reqs
      BY <1>4 DEF CleanupCommit
    <3>1. ASSUME reqs[q].pc \in Starting PROVE StartingOne(q)'
      <4>1. StartingOne(q) /\ reqs[q].file \in FileIds
        BY <3>1, <1>t, SnapshotTypes, CallKinds DEF RequestsInv
      <4>2. rows'[reqs[q].file] = rows[reqs[q].file]
        BY <2>6, <2>7, <4>1 DEF StartingOne
      <4> QED
        BY <3>0, <4>1, <4>2 DEF StartingOne, Exists
    <3>2. ASSUME reqs[q].pc \in Working PROVE WorkingOne(q)'
      <4>1. WorkingOne(q)
        BY <3>2, <1>t DEF RequestsInv
      <4>2. PICK u \in Metadata, g \in FileIds : u = reqs[q].v /\ g = reqs[q].file
        BY <3>2, <1>t, SnapshotTypes, CallKinds
      <4>3. SnapshotOf(u, g)'
        BY <2>6, <4>1, <4>2 DEF WorkingOne, Stable
      <4>4. SnapshotOf(reqs[q].v, reqs[q].file)'
        BY <3>0, <4>2, <4>3 DEF SnapshotOf, Event
      <4> QED
        BY <3>0, <4>1, <4>4 DEF WorkingOne, GuardsHold
    <3> QED
      BY <3>1, <3>2
  <2>9. JobsInv'
    BY <1>4, <1>n, <1>t, <2>6, FewerListed DEF CleanupCommit
  <2> QED
    BY <2>6, <2>8, <2>9 DEF IInv
<1>5. ASSUME NEW f \in FileIds, CleanupContinue(c, f) PROVE IInv'
  BY <1>5, <1>n, <1>t, <1>u, FewerListed DEF CleanupContinue, IInv
<1> QED
  BY <1>1, <1>2, <1>3, <1>4, <1>5 DEF CleanupStep

\* A step that changes nothing keeps the invariant.
LEMMA StutteringKeepsIInv ==
  ASSUME IInv, TypeOK', UNCHANGED vars PROVE IInv'
<1>1. UNCHANGED <<table, expiry, reqs, jobs>>
  BY DEF vars
<1>2. Stable /\ OutboxMirrorsTable' /\ RowsInv'
  BY <1>1, UnchangedIsStable DEF IInv
<1>3. RequestsInv'
  BY <1>1 DEF IInv, RequestsInv, StartingOne, WorkingOne, SnapshotOf, Event, GuardsHold,
              Exists, table
<1>4. JobsInv'
  BY <1>1, <1>2, JobsKept DEF IInv
<1> QED
  BY <1>2, <1>3, <1>4 DEF IInv

\* The inductive invariant holds in every reachable state.
THEOREM InductiveInvariant == Spec => []IInv
<1>1. IInv /\ [Next]_vars => IInv'
  <2> SUFFICES ASSUME IInv, [Next]_vars PROVE IInv'
    OBVIOUS
  <2>0. TypeOK
    BY DEF IInv
  <2>1. CASE Next
    <3>1. TypeOK'
      BY <2>0, <2>1, RequestStepTypes, HandlerStepTypes, ClientStepTypes, CleanupStepTypes
      DEF Next
    <3> QED
      BY <2>1, <3>1, ArrivalsKeepIInv, HandlersKeepIInv, ClientsKeepIInv, CleanupKeepsIInv
      DEF Next
  <2>2. CASE UNCHANGED vars
    <3>1. TypeOK'
      BY <2>0, <2>2, TypeParts, UnchangedTypes DEF vars
    <3> QED
      BY <2>2, <3>1, StutteringKeepsIInv
  <2> QED
    BY <2>1, <2>2
<1> QED
  BY <1>1, IInvInit, PTL DEF Spec

-----------------------------------------------------------------------------
(* The properties. *)

\* Every committed write of a row is told by exactly one event, in version order,
\* whatever clients send, however handlers interleave, fail and crash.
THEOREM OutboxIsExact == Spec => []OutboxMirrorsTable
BY InductiveInvariant, PTL DEF IInv

\* A snapshot that still has the version of the row is the row.
LEMMA FreshSnapshot ==
  ASSUME TypeOK, OutboxMirrorsTable, NEW f \in FileIds, NEW v \in Metadata,
         SnapshotOf(v, f), v.version = rows[f].version
  PROVE  v = rows[f]
<1>1. Exists(f) /\ rows[f] \in Metadata
  BY RowTypes DEF SnapshotOf, Exists, Metadata
<1>2. Event(v) = Event(rows[f])
  BY <1>1 DEF SnapshotOf, OutboxMirrorsTable
<1>3. v.status = rows[f].status /\ v.scan = rows[f].scan
  BY <1>2 DEF Event
<1> QED
  BY <1>1, <1>3 DEF SnapshotOf, Metadata

\* If clients only send versions the service gave them, no update that passes
\* its version check was computed from a row that has changed since: checking
\* the client's version instead of the version read is then enough.
THEOREM UpdatesAreFresh == ASSUME ~AnyExpected PROVE Spec => []NoLostUpdate
<1>1. IInv => NoLostUpdate
  <2> SUFFICES ASSUME IInv PROVE NoLostUpdate
    OBVIOUS
  <2>t. TypeOK /\ OutboxMirrorsTable
    BY DEF IInv
  <2>1. ASSUME NEW r \in Requests, reqs[r].pc \in UpdateCalls,
               rows[reqs[r].file].version = reqs[r].expected
        PROVE  reqs[r].v = rows[reqs[r].file]
    <3>1. /\ SnapshotOf(reqs[r].v, reqs[r].file)
          /\ reqs[r].expected <= reqs[r].v.version
      BY <2>1, CallKinds DEF IInv, RequestsInv, WorkingOne
    <3>2. reqs[r].v \in Metadata /\ reqs[r].file \in FileIds
      BY <2>1, <2>t, SnapshotTypes, CallKinds
    <3>3. reqs[r].v.version = rows[reqs[r].file].version
      BY <2>1, <2>t, <3>1, <3>2, RowTypes DEF SnapshotOf, Metadata
    <3> QED
      BY <2>t, <3>1, <3>2, <3>3, FreshSnapshot
  <2>2. ASSUME NEW c \in Cleaners, NEW f \in Listed(c),
               rows[f].version = jobs[c].listed[f].version
        PROVE  jobs[c].listed[f] = rows[f]
    <3>1. f \in FileIds /\ jobs[c].listed[f] \in Metadata
      BY <2>t, JobTypes DEF Listed
    <3> QED
      BY <2>2, <2>t, <3>1, FreshSnapshot DEF IInv, JobsInv
  <2> QED
    BY <2>1, <2>2 DEF NoLostUpdate
<1> QED
  BY <1>1, InductiveInvariant, PTL

\* Delete announces "deleting" in a committed transaction before it removes the
\* object, and cleanup removes objects of expired sessions only: this holds of
\* every step, whatever was interrupted and retried before it.
THEOREM RemovalsAreAnnounced == Spec => RemovalsAnnounced
<1> DEFINE Announced == \A f \in FileIds : objects[f] # "none" /\ objects'[f] = "none" =>
             \/ expiry[f] > 0
             \/ \E i \in 1..Len(outbox[f]) : outbox[f][i].status = "deleting"
<1>1. IInv /\ [Next]_vars => [Announced]_vars
  <2> SUFFICES ASSUME IInv, Next PROVE Announced
    OBVIOUS
  <2>t. TypeOK /\ OutboxMirrorsTable
    BY DEF IInv
  <2>u. ASSUME UNCHANGED objects PROVE Announced
    BY <2>u
  <2>1. ASSUME NEW r \in Requests, RequestArrives(r) PROVE Announced
    BY <2>1, <2>u
    DEF RequestArrives, ReadOnly, ReplayUpload, InitiateUpload, InitiateMultipartUpload,
        AuthorizeUploadPart, CompleteMultipartUpload, AbortMultipartUpload,
        AuthorizeDownload, CompleteUpload, ReportScanResult, Delete, vars, bucket
  <2>2. ASSUME NEW r \in Requests, HandlerStep(r) PROVE Announced
    <3>1. CASE Assemble(r)
      BY <3>1, <2>t DEF Assemble, TypeOK
    <3>2. CASE RemoveObject(r)
      <4>1. PICK f \in FileIds : f = reqs[r].file
        BY <3>2, <2>t, SnapshotTypes DEF RemoveObject, At
      <4>2. SnapshotOf(reqs[r].v, f) /\ reqs[r].v.status = "deleting"
        BY <3>2, <4>1, CallKinds
        DEF RemoveObject, At, IInv, RequestsInv, WorkingOne, GuardsHold
      <4>a. outbox[f][reqs[r].v.version].status = "deleting"
        BY <4>2 DEF SnapshotOf, Event
      <4>b. reqs[r].v.version \in 1..Len(outbox[f])
        BY <4>2, <2>t DEF SnapshotOf, OutboxMirrorsTable
      <4>3. \E n \in 1..Len(outbox[f]) : outbox[f][n].status = "deleting"
        BY <4>a, <4>b
      <4>4. \A g \in FileIds \ {f} : objects'[g] = objects[g]
        BY <3>2, <4>1, <2>t DEF RemoveObject, TypeOK
      <4> QED
        BY <4>3, <4>4
    <3>3. CASE ~Assemble(r) /\ ~RemoveObject(r)
      BY <2>2, <2>u, <3>3
      DEF HandlerStep, Interrupt, StaleVersion, InsertUpload, InsertUploadConflict,
          CreateMultipart, InsertMultipart, InsertMultipartFails, ReleaseMultipart,
          AssembleFails, CompleteRead, Stat, StatFails, CommitReady, AbortStorage,
          CommitAbort, CommitScan, MarkDeleting, MarkDeleted, bucket
    <3> QED
      BY <3>1, <3>2, <3>3
  <2>3. ASSUME NEW f \in FileIds, ClientStep(f) PROVE Announced
    BY <2>3, <2>t, <2>u DEF ClientStep, PutObject, UploadParts, ExpireSession, bucket, TypeOK
  <2>4. ASSUME NEW c \in Cleaners, CleanupStep(c) PROVE Announced
    <3>1. ASSUME NEW f \in FileIds, CleanupRelease(c, f) PROVE Announced
      <4>1. expiry[f] > 0
        BY <3>1 DEF CleanupRelease, IsNext, IInv, JobsInv
      <4>a. objects' = objects \/ objects' = [objects EXCEPT ![f] = "none"]
        BY <3>1 DEF CleanupRelease
      <4>2. \A g \in FileIds \ {f} : objects'[g] = objects[g]
        BY <4>a, <2>t DEF TypeOK
      <4> QED
        BY <2>t, <4>1, <4>2
    <3>2. CASE ~\E f \in FileIds : CleanupRelease(c, f)
      BY <2>4, <2>u, <3>2
      DEF CleanupStep, ListExpiredUploads, CleanupCrash, CleanupCommit, CleanupContinue, bucket
    <3> QED
      BY <3>1, <3>2
  <2> QED
    BY <2>1, <2>2, <2>3, <2>4 DEF Next
<1> QED
  BY <1>1, InductiveInvariant, PTL DEF Spec, RemovalsAnnounced

-----------------------------------------------------------------------------
(* Refinement of FileLifecycle. *)

\* Extending the outbox of a file is a Publish of FileLifecycle.
LEMMA ExtendsPublishes ==
  ASSUME TypeOK, NEW f \in FileIds, NEW w, Extends(f, w)
  PROVE  Lifecycle!Publish(f, w.status, w.scan)
BY DEF Extends, Lifecycle!Publish, Event, TypeOK

\* The transition of a handler's commit, when its version check is honest.
LEMMA HandlersRefine ==
  ASSUME IInv, ~AnyExpected, NEW r \in Requests, HandlerStep(r)
  PROVE  Lifecycle!LifecycleNext \/ UNCHANGED table
<1>t. TypeOK /\ RowsInv /\ OutboxMirrorsTable
  BY DEF IInv
<1>v. /\ reqs[r].v \in Metadata
      /\ reqs[r].expected \in 0..MaxVersion
      /\ reqs[r].pc # "idle" => reqs[r].file \in FileIds
  BY <1>t, SnapshotTypes
<1>f. ASSUME reqs[r].pc \in UpdateCalls, NEW v \in Metadata,
             v.key = reqs[r].v.key, v.mode = reqs[r].v.mode, v.status # "absent",
             Update(reqs[r].file, v, reqs[r].expected)
      PROVE  /\ reqs[r].file \in FileIds
             /\ Event(rows[reqs[r].file]) = Event(reqs[r].v)
             /\ reqs[r].v.status # "absent" /\ GuardsHold(reqs[r])
             /\ Lifecycle!Publish(reqs[r].file, v.status, v.scan)
  <2>1. reqs[r].file \in FileIds /\ WorkingOne(r)
    BY <1>f, <1>v, CallKinds DEF IInv, RequestsInv
  <2>2. rows[reqs[r].file].version = reqs[r].expected
    BY <1>f DEF Update
  <2>3. reqs[r].v = rows[reqs[r].file]
    <3>1. reqs[r].v.version = rows[reqs[r].file].version
      BY <1>t, <1>v, <2>1, <2>2, RowTypes DEF WorkingOne, SnapshotOf, Metadata
    <3> QED
      BY <1>t, <1>v, <2>1, <3>1, FreshSnapshot DEF WorkingOne
  <2>4. PICK w : w = [v EXCEPT !.version = reqs[r].expected + 1]
    OBVIOUS
  <2>5. w.status = v.status /\ w.scan = v.scan
    BY <2>4 DEF Metadata
  <2>6. Extends(reqs[r].file, w)
    BY <1>f, <2>4, HandlerUpdates
  <2> QED
    BY <1>t, <2>1, <2>3, <2>5, <2>6, ExtendsPublishes DEF WorkingOne
<1>e. ASSUME NEW f \in FileIds
      PROVE  /\ [g \in FileIds |-> Event(rows[g])][f].status = rows[f].status
             /\ [g \in FileIds |-> Event(rows[g])][f].scan = rows[f].scan
             /\ [g \in FileIds |-> Event(rows[g])][f] = Event(rows[f])
  BY DEF Event
<1>i. ASSUME reqs[r].pc \in {"insert", "mp_insert"}, Insert(reqs[r].file, reqs[r].v)
      PROVE  Lifecycle!LifecycleNext
  <2>1. reqs[r].pc \in Starting
    BY <1>i DEF Starting
  <2>2. reqs[r].file \in FileIds /\ StartingOne(r)
    BY <1>v, <2>1, CallKinds DEF IInv, RequestsInv
  <2>3. Extends(reqs[r].file, reqs[r].v)
    BY <1>i, <1>t, <1>v, <2>2, InsertsExtend DEF StartingOne
  <2>4. Lifecycle!Publish(reqs[r].file, "pending_upload", "pending")
    BY <1>t, <2>2, <2>3, ExtendsPublishes DEF StartingOne
  <2>5. Event(rows[reqs[r].file]) = [status |-> "absent", scan |-> "none", version |-> 0]
    BY <1>t, <2>2 DEF StartingOne, RowsInv, NoRow, Event
  <2>6. Lifecycle!Create(reqs[r].file)
    BY <1>e, <2>2, <2>4, <2>5 DEF Lifecycle!Create, Lifecycle!Absent
  <2> QED
    BY <2>2, <2>6 DEF Lifecycle!LifecycleNext, Lifecycle!LifecycleStep
<1>3. CASE InsertUpload(r) \/ InsertMultipart(r)
  BY <1>3, <1>i DEF InsertUpload, InsertMultipart, At
<1>4. CASE CommitReady(r)
  <2>1. /\ ReadyRow(reqs[r].v) \in Metadata /\ ReadyRow(reqs[r].v).status = "ready"
        /\ ReadyRow(reqs[r].v).key = reqs[r].v.key /\ ReadyRow(reqs[r].v).mode = reqs[r].v.mode
        /\ ReadyRow(reqs[r].v).scan = IF ScanRequired THEN "pending" ELSE "skipped"
    BY <1>v, EditTypes, EditFields DEF ReadyRow, Metadata
  <2>2. /\ reqs[r].file \in FileIds
        /\ Event(rows[reqs[r].file]) = Event(reqs[r].v)
        /\ reqs[r].v.status # "absent" /\ GuardsHold(reqs[r])
        /\ Lifecycle!Publish(reqs[r].file, "ready", IF ScanRequired THEN "pending" ELSE "skipped")
    BY <1>4, <1>f, <2>1 DEF CommitReady, At, UpdateCalls
  <2>3. rows[reqs[r].file].status \notin {"absent", "ready"}
    BY <1>4, <2>2 DEF CommitReady, At, GuardsHold, Event
  <2>4. Lifecycle!Verify(reqs[r].file)
    BY <1>e, <2>2, <2>3 DEF Lifecycle!Verify
  <2> QED
    BY <2>2, <2>4 DEF Lifecycle!LifecycleNext, Lifecycle!LifecycleStep
<1>d. ASSUME NEW s \in Statuses \ {"absent"}, reqs[r].pc \in UpdateCalls,
             Update(reqs[r].file, [reqs[r].v EXCEPT !.status = s], reqs[r].expected)
      PROVE  /\ reqs[r].file \in FileIds /\ GuardsHold(reqs[r])
             /\ reqs[r].v.status # "absent"
             /\ rows[reqs[r].file].status = reqs[r].v.status
             /\ Lifecycle!Publish(reqs[r].file, s, rows[reqs[r].file].scan)
  <2>1. PICK v \in Metadata : v = [reqs[r].v EXCEPT !.status = s]
    BY <1>v, EditTypes
  <2>2. /\ v.key = reqs[r].v.key /\ v.mode = reqs[r].v.mode
        /\ v.status = s /\ v.scan = reqs[r].v.scan
    BY <1>v, <2>1, EditFields
  <2>3. /\ reqs[r].file \in FileIds
        /\ Event(rows[reqs[r].file]) = Event(reqs[r].v)
        /\ reqs[r].v.status # "absent" /\ GuardsHold(reqs[r])
        /\ Lifecycle!Publish(reqs[r].file, s, reqs[r].v.scan)
    BY <1>d, <1>f, <2>1, <2>2
  <2>4. /\ rows[reqs[r].file].status = reqs[r].v.status
        /\ rows[reqs[r].file].scan = reqs[r].v.scan
    BY <2>3 DEF Event
  <2> QED
    BY <2>3, <2>4
<1>5. CASE CommitAbort(r)
  <2>1. /\ reqs[r].file \in FileIds /\ rows[reqs[r].file].status = "pending_upload"
        /\ Lifecycle!Publish(reqs[r].file, "deleted", rows[reqs[r].file].scan)
    BY <1>5, <1>d DEF CommitAbort, At, UpdateCalls, Statuses, GuardsHold
  <2>2. Lifecycle!Abandon(reqs[r].file)
    BY <1>e, <2>1 DEF Lifecycle!Abandon
  <2> QED
    BY <2>1, <2>2 DEF Lifecycle!LifecycleNext, Lifecycle!LifecycleStep
<1>6. CASE MarkDeleting(r)
  <2>1. /\ reqs[r].file \in FileIds
        /\ rows[reqs[r].file].status \notin {"absent", "deleting", "deleted"}
        /\ Lifecycle!Publish(reqs[r].file, "deleting", rows[reqs[r].file].scan)
    BY <1>6, <1>d DEF MarkDeleting, At, UpdateCalls, Statuses, GuardsHold
  <2>2. rows[reqs[r].file].status \in {"pending_upload", "ready", "expired"}
    BY <1>t, <2>1, RowTypes DEF Metadata, Statuses
  <2>3. Lifecycle!StartDelete(reqs[r].file)
    BY <1>e, <2>1, <2>2 DEF Lifecycle!StartDelete
  <2> QED
    BY <2>1, <2>3 DEF Lifecycle!LifecycleNext, Lifecycle!LifecycleStep
<1>7. CASE MarkDeleted(r)
  <2>1. /\ reqs[r].file \in FileIds /\ rows[reqs[r].file].status = "deleting"
        /\ Lifecycle!Publish(reqs[r].file, "deleted", rows[reqs[r].file].scan)
    BY <1>7, <1>d DEF MarkDeleted, At, UpdateCalls, Statuses, GuardsHold
  <2>2. Lifecycle!FinishDelete(reqs[r].file)
    BY <1>e, <2>1 DEF Lifecycle!FinishDelete
  <2> QED
    BY <2>1, <2>2 DEF Lifecycle!LifecycleNext, Lifecycle!LifecycleStep
<1>8. CASE CommitScan(r)
  <2>1. PICK s \in {"clean", "infected"} :
          Update(reqs[r].file, [reqs[r].v EXCEPT !.scan = s], reqs[r].expected)
    BY <1>8 DEF CommitScan
  <2>2. PICK v \in Metadata : v = [reqs[r].v EXCEPT !.scan = s]
    BY <1>v, EditTypes DEF ScanStatuses
  <2>3. /\ reqs[r].pc \in {"commit_clean", "commit_infected"}
        /\ reqs[r].v.status = "ready" /\ reqs[r].v.scan = "pending"
    BY <1>8, CallKinds
    DEF CommitScan, At, UpdateCalls, IInv, RequestsInv, WorkingOne, GuardsHold
  <2>4. /\ v.key = reqs[r].v.key /\ v.mode = reqs[r].v.mode
        /\ v.status = "ready" /\ v.scan = s
    BY <1>v, <2>2, <2>3, EditFields DEF ScanStatuses
  <2>5. /\ reqs[r].file \in FileIds
        /\ Event(rows[reqs[r].file]) = Event(reqs[r].v)
        /\ Lifecycle!Publish(reqs[r].file, "ready", s)
    BY <1>f, <2>1, <2>2, <2>3, <2>4 DEF UpdateCalls
  <2>6. rows[reqs[r].file].status = "ready" /\ rows[reqs[r].file].scan = "pending"
    BY <2>3, <2>5 DEF Event
  <2>7. Lifecycle!Scan(reqs[r].file)
    BY <1>e, <2>5, <2>6 DEF Lifecycle!Scan
  <2> QED
    BY <2>5, <2>7 DEF Lifecycle!LifecycleNext, Lifecycle!LifecycleStep
<1> QED
  BY <1>3, <1>4, <1>5, <1>6, <1>7, <1>8
  DEF HandlerStep, Interrupt, StaleVersion, InsertUploadConflict, CreateMultipart,
      InsertMultipartFails, ReleaseMultipart, Assemble, AssembleFails, CompleteRead,
      Stat, StatFails, AbortStorage, RemoveObject, table

\* A step of CleanupExpiredUploads is an Abandon or leaves the lifecycle alone.
LEMMA CleanupRefines ==
  ASSUME IInv, NEW c \in Cleaners, CleanupStep(c)
  PROVE  Lifecycle!LifecycleNext \/ UNCHANGED table
<1>t. TypeOK /\ OutboxMirrorsTable
  BY DEF IInv
<1>1. ASSUME NEW f \in FileIds, CleanupCommit(c, f) PROVE Lifecycle!LifecycleNext
  <2>1. PICK v \in Metadata : v = jobs[c].listed[f]
    BY <1>t, JobTypes
  <2>2. PICK u \in Metadata : u = [v EXCEPT !.status = "expired"]
    BY EditTypes DEF Statuses
  <2>3. u.key = v.key /\ u.mode = v.mode /\ u.status = "expired" /\ u.scan = v.scan
    BY <2>2, EditFields DEF Statuses
  <2>4. /\ SnapshotOf(v, f) /\ v.version \in 0..MaxVersion /\ v.status = "pending_upload"
        /\ Update(f, u, v.version) /\ rows[f].version = v.version
    BY <1>1, <2>1, <2>2 DEF CleanupCommit, IsNext, IInv, JobsInv, Metadata, Update
  <2>5. v = rows[f]
    BY <1>t, <2>4, FreshSnapshot
  <2>6. PICK w : w = [u EXCEPT !.version = v.version + 1]
    OBVIOUS
  <2>7. w.status = "expired" /\ w.scan = v.scan
    BY <2>3, <2>6 DEF Metadata
  <2>8. Extends(f, w)
    BY <1>t, <2>3, <2>4, <2>6, UpdatesExtend DEF SnapshotOf
  <2>9. Lifecycle!Publish(f, "expired", rows[f].scan)
    BY <1>t, <2>5, <2>7, <2>8, ExtendsPublishes
  <2>a. /\ [g \in FileIds |-> Event(rows[g])][f].status = rows[f].status
        /\ [g \in FileIds |-> Event(rows[g])][f].scan = rows[f].scan
    BY DEF Event
  <2>10. Lifecycle!Abandon(f)
    BY <2>4, <2>5, <2>9, <2>a DEF Lifecycle!Abandon
  <2> QED
    BY <2>10 DEF Lifecycle!LifecycleNext, Lifecycle!LifecycleStep
<1> QED
  BY <1>1
  DEF CleanupStep, ListExpiredUploads, CleanupCrash, CleanupRelease, CleanupContinue, table

\* Table and outbox implement the lifecycle that consumers of the events rely on,
\* for clients that only send versions they were given.
THEOREM RefinesLifecycle == ASSUME ~AnyExpected PROVE Spec => ImplementsLifecycle
<1>1. Init => Lifecycle!LifecycleInit
  BY DEF Init, Lifecycle!LifecycleInit, Lifecycle!Absent, Event, NoRow
<1>2. ASSUME UNCHANGED table PROVE UNCHANGED Lifecycle!lifecycle
  BY <1>2 DEF table, Lifecycle!lifecycle, Event
<1>3. IInv /\ [Next]_vars => [Lifecycle!LifecycleNext]_(Lifecycle!lifecycle)
  <2> SUFFICES ASSUME IInv, [Next]_vars
               PROVE  Lifecycle!LifecycleNext \/ UNCHANGED Lifecycle!lifecycle
    OBVIOUS
  <2>1. ASSUME NEW r \in Requests, RequestArrives(r) PROVE UNCHANGED table
    BY <2>1
    DEF RequestArrives, ReadOnly, ReplayUpload, InitiateUpload, InitiateMultipartUpload,
        AuthorizeUploadPart, CompleteMultipartUpload, AbortMultipartUpload,
        AuthorizeDownload, CompleteUpload, ReportScanResult, Delete, vars, table
  <2>2. ASSUME NEW f \in FileIds, ClientStep(f) PROVE UNCHANGED table
    BY <2>2 DEF ClientStep, PutObject, UploadParts, ExpireSession, table
  <2>3. CASE UNCHANGED vars
    BY <1>2, <2>3 DEF vars
  <2>4. CASE Next
    <3>1. Lifecycle!LifecycleNext \/ UNCHANGED table
      BY <2>1, <2>2, <2>4, HandlersRefine, CleanupRefines DEF Next
    <3> QED
      BY <1>2, <3>1
  <2> QED
    BY <2>3, <2>4
<1> QED
  BY <1>1, <1>3, InductiveInvariant, PTL
  DEF Spec, ImplementsLifecycle, Lifecycle!LifecycleSpec

=============================================================================
