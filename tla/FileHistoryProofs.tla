------------------------- MODULE FileHistoryProofs -------------------------
(* Proofs about what the history of a file says of the store and of the      *)
(* scanner: they rest on the inductive invariant of FileServiceProofs and    *)
(* follow a commit to the calls that its handler made before it.             *)
EXTENDS FileServiceProofs

-----------------------------------------------------------------------------
(* What a step commits. *)

\* The handler of r commits w as the next version of its file.  Only an abort
\* and the second half of a deletion announce "deleted", and no handler "expired".
Commits(r, w) ==
  /\ reqs[r].file \in FileIds /\ reqs[r].pc \in Starting \cup Working
  /\ Extends(reqs[r].file, w)
  /\ w.status # "expired"
  /\ w.status = "deleted" =>
       \/ reqs[r].pc = "commit_abort"
       \/ rows[reqs[r].file].status = "deleting"

\* A step of a handler that changes the table commits one row.
LEMMA HandlerCommits ==
  ASSUME IInv, NEW r \in Requests, HandlerStep(r)
  PROVE  UNCHANGED table \/ \E w : Commits(r, w)
<1>t. TypeOK /\ RowsInv /\ OutboxMirrorsTable
  BY DEF IInv
<1>v. /\ reqs[r].v \in Metadata
      /\ reqs[r].expected \in 0..MaxVersion
      /\ reqs[r].pc # "idle" => reqs[r].file \in FileIds
  BY <1>t, SnapshotTypes
<1>w. reqs[r].pc \in Working => WorkingOne(r) /\ GuardsHold(reqs[r])
  BY DEF IInv, RequestsInv, WorkingOne
<1>i. ASSUME reqs[r].pc \in {"insert", "mp_insert"}, Insert(reqs[r].file, reqs[r].v)
      PROVE  \E w : Commits(r, w)
  <2>1. reqs[r].pc \in Starting
    BY <1>i DEF Starting
  <2>2. reqs[r].file \in FileIds /\ StartingOne(r)
    BY <1>v, <2>1, CallKinds DEF IInv, RequestsInv
  <2>3. Extends(reqs[r].file, reqs[r].v)
    BY <1>i, <1>t, <1>v, <2>2, InsertsExtend DEF StartingOne
  <2>4. Commits(r, reqs[r].v)
    BY <2>1, <2>2, <2>3 DEF Commits, StartingOne
  <2> QED
    BY <2>4
<1>u. ASSUME reqs[r].pc \in UpdateCalls, NEW v \in Metadata,
             v.key = reqs[r].v.key, v.mode = reqs[r].v.mode,
             v.status \notin {"absent", "expired"},
             Update(reqs[r].file, v, reqs[r].expected),
             v.status = "deleted" =>
               \/ reqs[r].pc = "commit_abort"
               \/ rows[reqs[r].file].status = "deleting"
      PROVE  \E w : Commits(r, w)
  <2>1. PICK w : w = [v EXCEPT !.version = reqs[r].expected + 1]
    OBVIOUS
  <2>2. w.status = v.status
    BY <2>1 DEF Metadata
  <2>3. Extends(reqs[r].file, w)
    BY <1>u, <2>1, HandlerUpdates
  <2>4. reqs[r].file \in FileIds /\ reqs[r].pc \in Working
    BY <1>u, <1>v, CallKinds
  <2>5. Commits(r, w)
    BY <1>u, <2>2, <2>3, <2>4 DEF Commits
  <2> QED
    BY <2>5
<1>1. CASE InsertUpload(r) \/ InsertMultipart(r)
  BY <1>1, <1>i DEF InsertUpload, InsertMultipart, At
<1>2. CASE CommitReady(r)
  BY <1>2, <1>u, <1>v, EditTypes, EditFields DEF CommitReady, At, UpdateCalls
<1>d. ASSUME NEW s \in {"deleted", "deleting"}
      PROVE  /\ [reqs[r].v EXCEPT !.status = s] \in Metadata
             /\ [reqs[r].v EXCEPT !.status = s].key = reqs[r].v.key
             /\ [reqs[r].v EXCEPT !.status = s].mode = reqs[r].v.mode
             /\ [reqs[r].v EXCEPT !.status = s].status = s
  <2>1. s \in Statuses
    BY DEF Statuses
  <2> QED
    BY <1>v, <2>1, EditTypes, EditFields
<1>3. CASE CommitAbort(r)
  BY <1>3, <1>d, <1>u DEF CommitAbort, At, UpdateCalls
<1>4. CASE MarkDeleting(r)
  BY <1>4, <1>d, <1>u DEF MarkDeleting, At, UpdateCalls
<1>5. CASE MarkDeleted(r)
  <2>1. reqs[r].pc = "mark_deleted" /\ rows[reqs[r].file].version = reqs[r].expected
    BY <1>5 DEF MarkDeleted, At, Update
  <2>2. /\ WorkingOne(r) /\ reqs[r].file \in FileIds
        /\ reqs[r].v.status = "deleting" /\ reqs[r].expected = reqs[r].v.version
    BY <1>v, <1>w, <2>1, CallKinds DEF GuardsHold, UpdateCalls
  <2>3. reqs[r].v = rows[reqs[r].file]
    BY <1>t, <1>v, <2>1, <2>2, FreshSnapshot DEF WorkingOne
  <2> QED
    BY <1>5, <1>d, <1>u, <2>1, <2>2, <2>3 DEF MarkDeleted, UpdateCalls
<1>6. CASE CommitScan(r)
  <2>1. PICK s \in {"clean", "infected"} :
          Update(reqs[r].file, [reqs[r].v EXCEPT !.scan = s], reqs[r].expected)
    BY <1>6 DEF CommitScan
  <2>2. PICK v \in Metadata : v = [reqs[r].v EXCEPT !.scan = s]
    BY <1>v, EditTypes DEF ScanStatuses
  <2>3. reqs[r].pc \in {"commit_clean", "commit_infected"} /\ reqs[r].v.status = "ready"
    BY <1>6, <1>w, CallKinds DEF CommitScan, At, UpdateCalls, GuardsHold
  <2>4. v.key = reqs[r].v.key /\ v.mode = reqs[r].v.mode /\ v.status = "ready"
    BY <1>v, <2>2, <2>3, EditFields DEF ScanStatuses
  <2> QED
    BY <1>u, <2>1, <2>2, <2>3, <2>4 DEF UpdateCalls
<1> QED
  BY <1>1, <1>2, <1>3, <1>4, <1>5, <1>6
  DEF HandlerStep, Interrupt, StaleVersion, InsertUploadConflict, CreateMultipart,
      InsertMultipartFails, ReleaseMultipart, Assemble, AssembleFails, CompleteRead,
      Stat, StatFails, AbortStorage, RemoveObject, table

\* A commit of the cleanup job is the next version of a row it listed.
LEMMA CleanupCommits ==
  ASSUME IInv, NEW c \in Cleaners, NEW f \in FileIds, CleanupCommit(c, f)
  PROVE  /\ \E w : Extends(f, w)
         /\ Exists(f) /\ rows[f].mode = jobs[c].listed[f].mode
<1>t. TypeOK
  BY DEF IInv
<1>1. PICK v \in Metadata : v = jobs[c].listed[f]
  BY <1>t, JobTypes
<1>2. PICK u \in Metadata : u = [v EXCEPT !.status = "expired"]
  BY EditTypes DEF Statuses
<1>3. u.key = v.key /\ u.mode = v.mode /\ u.status = "expired"
  BY <1>2, EditFields DEF Statuses
<1>4. SnapshotOf(v, f) /\ v.version \in 0..MaxVersion /\ Update(f, u, v.version)
  BY <1>1, <1>2 DEF CleanupCommit, IsNext, IInv, JobsInv, Metadata
<1>5. \E w : Extends(f, w)
  BY <1>t, <1>3, <1>4, UpdatesExtend DEF SnapshotOf
<1>6. Exists(f)
  BY <1>t, <1>4, RowTypes DEF SnapshotOf, Exists
<1> QED
  BY <1>1, <1>4, <1>5, <1>6 DEF SnapshotOf

\* Apart from the handler that draws an id, a step of the file component changes
\* an existing row by a commit only, and no step takes a row away.
LEMMA RowsStay ==
  ASSUME IInv, [Next]_vars, NEW f \in FileIds, Exists(f)
  PROVE  Exists(f)' /\ rows'[f].mode = rows[f].mode
<1>t. TypeOK /\ OutboxMirrorsTable /\ RowsInv
  BY DEF IInv
<1>u. ASSUME UNCHANGED table PROVE Exists(f)' /\ rows'[f].mode = rows[f].mode
  BY <1>u DEF table, Exists
<1>e. ASSUME NEW g \in FileIds, NEW w, Extends(g, w)
      PROVE  Exists(f)' /\ rows'[f].mode = rows[f].mode
  <2>1. /\ Exists(g)' /\ \A h \in FileIds \ {g} : rows'[h] = rows[h]
        /\ rows'[g] = w
    BY <1>t, <1>e, ExtendsIsStable DEF Extends, TypeOK
  <2> QED
    BY <1>e, <2>1 DEF Exists, Extends
<1>1. ASSUME NEW r \in Requests, RequestArrives(r) PROVE UNCHANGED table
  BY <1>1
  DEF RequestArrives, ReadOnly, ReplayUpload, InitiateUpload, InitiateMultipartUpload,
      AuthorizeUploadPart, CompleteMultipartUpload, AbortMultipartUpload,
      AuthorizeDownload, CompleteUpload, ReportScanResult, Delete, vars, table
<1>2. ASSUME NEW r \in Requests, HandlerStep(r)
      PROVE  Exists(f)' /\ rows'[f].mode = rows[f].mode
  BY <1>2, <1>e, <1>u, HandlerCommits DEF Commits
<1>3. ASSUME NEW g \in FileIds, ClientStep(g) PROVE UNCHANGED table
  BY <1>3 DEF ClientStep, PutObject, UploadParts, ExpireSession, table
<1>4. ASSUME NEW c \in Cleaners, CleanupStep(c)
      PROVE  Exists(f)' /\ rows'[f].mode = rows[f].mode
  <2>1. ASSUME NEW g \in FileIds, CleanupCommit(c, g)
        PROVE  Exists(f)' /\ rows'[f].mode = rows[f].mode
    BY <1>e, <2>1, CleanupCommits
  <2>2. CASE ~\E g \in FileIds : CleanupCommit(c, g)
    BY <1>4, <1>u, <2>2
    DEF CleanupStep, ListExpiredUploads, CleanupCrash, CleanupRelease, CleanupContinue, table
  <2> QED
    BY <2>1, <2>2
<1> QED
  BY <1>1, <1>2, <1>3, <1>4, <1>u DEF Next, vars

-----------------------------------------------------------------------------
(* Uploads created for a row that another request inserted first. *)

Live == {"open", "good", "bad"}
Owner(r, f) == reqs[r].file = f /\ reqs[r].pc \in {"mp_insert", "mp_abort"}

\* A step of r keeps every open upload owned if r passes on or ends its ownership.
LEMMA OwnersKept ==
  ASSUME NoOrphanedUpload, NEW r \in Requests,
         \A f \in FileIds : Exists(f) => Exists(f)',
         \A q \in Requests \ {r} : reqs'[q] = reqs[q],
         \A f \in FileIds : \/ multipart'[f] = multipart[f]
                            \/ multipart'[f] \notin Live
                            \/ multipart[f] \in Live
                            \/ Owner(r, f)',
         \A f \in FileIds : Owner(r, f) => \/ multipart'[f] \notin Live
                                           \/ Exists(f)'
                                           \/ Owner(r, f)'
  PROVE  NoOrphanedUpload'
<1> SUFFICES ASSUME NEW f \in FileIds, multipart'[f] \in Live, ~Exists(f)'
             PROVE  \E q \in Requests : Owner(q, f)'
  BY DEF NoOrphanedUpload, Live, Owner
<1>1. CASE multipart[f] \in Live
  <2>1. PICK q \in Requests : Owner(q, f)
    BY <1>1 DEF NoOrphanedUpload, Live, Owner
  <2>2. CASE q = r
    BY <2>1, <2>2
  <2>3. CASE q # r
    BY <2>1, <2>3 DEF Owner
  <2> QED
    BY <2>2, <2>3
<1>2. CASE multipart[f] \notin Live
  BY <1>2
<1> QED
  BY <1>1, <1>2

\* While no call fails, the request that created an upload inserts its row or
\* releases it.
LEMMA NoOrphanStep ==
  ASSUME ~Faults, IInv, NoOrphanedUpload, [Next]_vars PROVE NoOrphanedUpload'
<1>t. TypeOK
  BY DEF IInv
<1>s. \A f \in FileIds : Exists(f) => Exists(f)'
  BY RowsStay
<1>u. ASSUME UNCHANGED <<multipart, reqs>> PROVE NoOrphanedUpload'
  BY <1>s, <1>u DEF NoOrphanedUpload
<1>g. ASSUME NEW r \in Requests, NEW call, Goto(r, call)
      PROVE  /\ reqs'[r].file = reqs[r].file /\ reqs'[r].pc = call
             /\ \A q \in Requests \ {r} : reqs'[q] = reqs[q]
  BY <1>g, <1>t DEF Goto, TypeOK, RequestStates
<1>r. ASSUME NEW r \in Requests, Return(r)
      PROVE  \A q \in Requests \ {r} : reqs'[q] = reqs[q]
  BY <1>r, <1>t DEF Return, TypeOK
<1>b. ASSUME NEW r \in Requests, NEW call, NEW f, NEW v, NEW e, Begin(r, call, f, v, e)
      PROVE  reqs[r].pc = "idle" /\ \A q \in Requests \ {r} : reqs'[q] = reqs[q]
  BY <1>b, <1>t DEF Begin, TypeOK
<1>m. ASSUME NEW r \in Requests, UNCHANGED multipart,
             reqs[r].pc \notin {"mp_insert", "mp_abort"},
             \A q \in Requests \ {r} : reqs'[q] = reqs[q]
      PROVE  NoOrphanedUpload'
  BY <1>m, <1>s, OwnersKept DEF Owner
<1>1. ASSUME NEW r \in Requests, RequestArrives(r) PROVE NoOrphanedUpload'
  <2>1. UNCHANGED multipart
    BY <1>1
    DEF RequestArrives, ReadOnly, ReplayUpload, InitiateUpload, InitiateMultipartUpload,
        AuthorizeUploadPart, CompleteMultipartUpload, AbortMultipartUpload,
        AuthorizeDownload, CompleteUpload, ReportScanResult, Delete, vars, bucket
  <2>2. \/ UNCHANGED reqs
        \/ reqs[r].pc = "idle" /\ \A q \in Requests \ {r} : reqs'[q] = reqs[q]
    BY <1>1, <1>b
    DEF RequestArrives, ReadOnly, ReplayUpload, InitiateUpload, InitiateMultipartUpload,
        AuthorizeUploadPart, CompleteMultipartUpload, AbortMultipartUpload,
        AuthorizeDownload, CompleteUpload, ReportScanResult, Delete, vars
  <2> QED
    BY <1>m, <1>u, <2>1, <2>2
<1>2. ASSUME NEW r \in Requests, HandlerStep(r) PROVE NoOrphanedUpload'
  <2>f. reqs[r].pc # "idle" => reqs[r].file \in FileIds
    BY <1>t, SnapshotTypes
  <2>1. CASE CreateMultipart(r)
    <3>0. PICK f \in FileIds : f = reqs[r].file
      BY <2>1, <2>f DEF CreateMultipart, At
    <3>1. /\ \A g \in FileIds \ {f} : multipart'[g] = multipart[g]
          /\ Owner(r, f)'
          /\ reqs[r].pc \notin {"mp_insert", "mp_abort"}
      BY <2>1, <1>g, <1>t, <3>0 DEF CreateMultipart, At, TypeOK, Owner
    <3>2. \A q \in Requests \ {r} : reqs'[q] = reqs[q]
      BY <2>1, <1>g DEF CreateMultipart
    <3> QED
      BY <1>s, <3>1, <3>2, OwnersKept DEF Owner
  <2>2. CASE InsertMultipart(r)
    <3>0. PICK f \in FileIds : f = reqs[r].file
      BY <2>2, <2>f DEF InsertMultipart, At
    <3>1. StartingOne(r)
      BY <2>2 DEF InsertMultipart, At, IInv, RequestsInv, Starting
    <3>2. Exists(f)'
      BY <2>2, <1>t, <3>0, <3>1 DEF InsertMultipart, Insert, Exists, TypeOK, StartingOne
    <3>3. UNCHANGED multipart /\ \A q \in Requests \ {r} : reqs'[q] = reqs[q]
      BY <2>2, <1>g, <1>r DEF InsertMultipart, bucket
    <3> QED
      BY <1>s, <3>0, <3>2, <3>3, OwnersKept DEF Owner
  <2>3. CASE InsertMultipartFails(r)
    <3>1. /\ UNCHANGED multipart /\ \A q \in Requests \ {r} : reqs'[q] = reqs[q]
          /\ reqs'[r].file = reqs[r].file /\ reqs'[r].pc = "mp_abort"
      BY <2>3, <1>g DEF InsertMultipartFails, bucket
    <3> QED
      BY <1>s, <3>1, OwnersKept DEF Owner
  <2>4. CASE ReleaseMultipart(r)
    <3>1. /\ \A g \in FileIds \ {reqs[r].file} : multipart'[g] = multipart[g]
          /\ reqs[r].file \in FileIds /\ multipart'[reqs[r].file] = "closed"
          /\ \A q \in Requests \ {r} : reqs'[q] = reqs[q]
      BY <2>4, <2>f, <1>r, <1>t DEF ReleaseMultipart, At, TypeOK
    <3> QED
      BY <1>s, <3>1, OwnersKept DEF Owner, Live
  <2>5. CASE Assemble(r) \/ AbortStorage(r)
    <3>1. /\ reqs[r].pc \notin {"mp_insert", "mp_abort"}
          /\ \A g \in FileIds : multipart'[g] \in {multipart[g], "closed"}
      BY <2>5, <1>t DEF Assemble, AbortStorage, At, TypeOK
    <3>2. \A q \in Requests \ {r} : reqs'[q] = reqs[q]
      BY <2>5, <1>g, <1>r DEF Assemble, AbortStorage
    <3> QED
      BY <1>s, <3>1, <3>2, OwnersKept DEF Owner, Live
  <2>6. CASE MarkDeleting(r) \/ CompleteRead(r)
    <3>1. UNCHANGED multipart /\ reqs[r].pc \notin {"mp_insert", "mp_abort"}
      BY <2>6 DEF MarkDeleting, CompleteRead, At, bucket
    <3>2. \A q \in Requests \ {r} : reqs'[q] = reqs[q]
      BY <2>6, <1>r, <1>t DEF MarkDeleting, CompleteRead, TypeOK
    <3> QED
      BY <1>m, <3>1, <3>2
  <2>7. CASE \/ StaleVersion(r) \/ InsertUpload(r) \/ InsertUploadConflict(r)
             \/ AssembleFails(r) \/ Stat(r) \/ StatFails(r) \/ CommitReady(r)
             \/ CommitAbort(r) \/ CommitScan(r) \/ RemoveObject(r) \/ MarkDeleted(r)
    <3>1. UNCHANGED multipart /\ reqs[r].pc \notin {"mp_insert", "mp_abort"}
      BY <2>7
      DEF StaleVersion, InsertUpload, InsertUploadConflict, AssembleFails, Stat, StatFails,
          CommitReady, CommitAbort, CommitScan, RemoveObject, MarkDeleted, At, bucket,
          UpdateCalls
    <3>2. \A q \in Requests \ {r} : reqs'[q] = reqs[q]
      BY <2>7, <1>g, <1>r
      DEF StaleVersion, InsertUpload, InsertUploadConflict, AssembleFails, Stat, StatFails,
          CommitReady, CommitAbort, CommitScan, RemoveObject, MarkDeleted
    <3> QED
      BY <1>m, <3>1, <3>2
  <2> QED
    BY <1>2, <2>1, <2>2, <2>3, <2>4, <2>5, <2>6, <2>7 DEF HandlerStep, Interrupt
<1>3. ASSUME NEW f \in FileIds, ClientStep(f) PROVE NoOrphanedUpload'
  <2>1. UNCHANGED reqs /\ \A g \in FileIds : multipart'[g] = multipart[g] \/ multipart[g] \in Live
    BY <1>3, <1>t DEF ClientStep, PutObject, UploadParts, ExpireSession, bucket, TypeOK, Live
  <2> QED
    BY <1>s, <2>1 DEF NoOrphanedUpload, Live
<1>4. ASSUME NEW c \in Cleaners, CleanupStep(c) PROVE NoOrphanedUpload'
  <2>1. UNCHANGED reqs /\ \A g \in FileIds : multipart'[g] \in {multipart[g], "closed"}
    BY <1>4, <1>t
    DEF CleanupStep, ListExpiredUploads, CleanupCrash, CleanupRelease, CleanupCommit,
        CleanupContinue, bucket, TypeOK
  <2> QED
    BY <1>s, <2>1 DEF NoOrphanedUpload
<1> QED
  BY <1>1, <1>2, <1>3, <1>4, <1>u DEF Next, vars, bucket

\* As long as no call fails, every open multipart upload has a row, or a request
\* that is about to insert or to release it, for any number of initiations of a key.
THEOREM UploadsAreOwned == ASSUME ~Faults PROVE Spec => []NoOrphanedUpload
<1>1. Init => NoOrphanedUpload
  BY DEF Init, NoOrphanedUpload
<1>2. IInv /\ NoOrphanedUpload /\ [Next]_vars => NoOrphanedUpload'
  BY NoOrphanStep
<1> QED
  BY <1>1, <1>2, InductiveInvariant, PTL DEF Spec

-----------------------------------------------------------------------------
(* Uploads that are recorded as over. *)

Expired == {f \in FileIds : expiry[f] > 0}

\* Sessions expire one after the other: no two at the same moment.
ExpiryOrder ==
  /\ \A f \in Expired : expiry[f] <= Cardinality(Expired)
  /\ \A f, g \in Expired : expiry[f] = expiry[g] => f = g

\* An abort that is about to commit, and a cleanup run that is about to commit,
\* have closed the upload.
AbortsClosed ==
  \A r \in Requests : reqs[r].pc = "commit_abort" => multipart[reqs[r].file] = "closed"
JobsClosed ==
  \A c \in Cleaners, f \in FileIds :
    jobs[c].pc = "commit" /\ IsNext(c, f) /\ jobs[c].listed[f].mode = "multipart"
      => multipart[f] = "closed"

ReleaseInv == ExpiryOrder /\ AbortsClosed /\ JobsClosed /\ UnfinishedUploadsReleased

\* The next session to expire comes after all that have.
LEMMA ExpiryStep ==
  ASSUME TypeOK, ExpiryOrder, NEW f \in FileIds, ExpireSession(f) PROVE ExpiryOrder'
<1> DEFINE n == Cardinality(Expired)
<1>1. IsFiniteSet(Expired) /\ n \in Nat /\ f \notin Expired
  <2>1. Expired \subseteq FileIds /\ f \notin Expired
    BY DEF Expired, ExpireSession
  <2>2. IsFiniteSet(Expired)
    BY <2>1, FS_Subset, ConstantsAssumption
  <2> QED
    BY <2>1, <2>2, FS_CardinalityType
<1>2. expiry'[f] = 1 + n /\ \A g \in FileIds \ {f} : expiry'[g] = expiry[g]
  BY DEF ExpireSession, TypeOK, Expired
<1>3. Expired' = Expired \cup {f}
  BY <1>1, <1>2 DEF Expired
<1>4. Cardinality(Expired') = n + 1
  BY <1>1, <1>3, FS_AddElement
<1>5. \A g \in Expired : g \in FileIds \ {f} /\ expiry[g] \in Nat /\ expiry[g] <= n
  BY <1>1 DEF ExpiryOrder, Expired, TypeOK
<1> HIDE DEF n
<1>6. \A g \in Expired' : expiry'[g] <= Cardinality(Expired')
  BY <1>1, <1>2, <1>3, <1>4, <1>5
<1>7. ASSUME NEW g \in Expired', NEW h \in Expired', expiry'[g] = expiry'[h]
      PROVE  g = h
  <2>1. CASE g \in Expired /\ h \in Expired
    BY <1>2, <1>5, <1>7, <2>1 DEF ExpiryOrder
  <2>2. CASE g = f \/ h = f
    BY <1>1, <1>2, <1>3, <1>5, <1>7, <2>2
  <2> QED
    BY <1>3, <2>1, <2>2
<1> QED
  BY <1>6, <1>7 DEF ExpiryOrder

\* Of a cleanup run's rows, one is next.
LEMMA OneIsNext ==
  ASSUME IInv, ExpiryOrder, NEW c \in Cleaners, NEW f \in FileIds, NEW g \in FileIds,
         IsNext(c, f), IsNext(c, g)
  PROVE  f = g
<1>1. f \in Expired /\ g \in Expired /\ expiry[f] \in Nat /\ expiry[g] \in Nat
  BY DEF IInv, JobsInv, IsNext, Expired, TypeOK
<1>2. expiry[f] = expiry[g]
  BY <1>1 DEF IsNext
<1> QED
  BY <1>1, <1>2 DEF ExpiryOrder

\* The upload of a file that has a row is never opened again.
LEMMA ClosedStays ==
  ASSUME IInv, [Next]_vars, NEW f \in FileIds, Exists(f), multipart[f] = "closed"
  PROVE  multipart'[f] = "closed"
<1>t. TypeOK
  BY DEF IInv
<1>1. ASSUME NEW r \in Requests, RequestArrives(r) PROVE UNCHANGED multipart
  BY <1>1
  DEF RequestArrives, ReadOnly, ReplayUpload, InitiateUpload, InitiateMultipartUpload,
      AuthorizeUploadPart, CompleteMultipartUpload, AbortMultipartUpload,
      AuthorizeDownload, CompleteUpload, ReportScanResult, Delete, vars, bucket
<1>2. ASSUME NEW r \in Requests, HandlerStep(r) PROVE multipart'[f] = "closed"
  <2>1. CASE CreateMultipart(r)
    <3>1. StartingOne(r)
      BY <2>1 DEF CreateMultipart, At, IInv, RequestsInv, Starting
    <3>2. reqs[r].file # f
      BY <3>1 DEF StartingOne
    <3> QED
      BY <2>1, <3>2, <1>t DEF CreateMultipart, TypeOK
  <2>2. CASE ReleaseMultipart(r) \/ Assemble(r) \/ AbortStorage(r)
    BY <2>2, <1>t DEF ReleaseMultipart, Assemble, AbortStorage, TypeOK
  <2>3. CASE /\ ~CreateMultipart(r) /\ ~ReleaseMultipart(r)
             /\ ~Assemble(r) /\ ~AbortStorage(r)
    BY <1>2, <2>3
    DEF HandlerStep, Interrupt, StaleVersion, InsertUpload, InsertUploadConflict,
        InsertMultipart, InsertMultipartFails, AssembleFails, CompleteRead, Stat,
        StatFails, CommitReady, CommitAbort, CommitScan, MarkDeleting, RemoveObject,
        MarkDeleted, bucket
  <2> QED
    BY <2>1, <2>2, <2>3
<1>3. ASSUME NEW g \in FileIds, ClientStep(g) PROVE multipart'[f] = "closed"
  BY <1>3, <1>t DEF ClientStep, PutObject, UploadParts, ExpireSession, bucket, TypeOK
<1>4. ASSUME NEW c \in Cleaners, CleanupStep(c) PROVE multipart'[f] = "closed"
  BY <1>4, <1>t
  DEF CleanupStep, ListExpiredUploads, CleanupCrash, CleanupRelease, CleanupCommit,
      CleanupContinue, bucket, TypeOK
<1> QED
  BY <1>1, <1>2, <1>3, <1>4 DEF Next, vars, bucket

\* What the outbox of f says of the end of an upload.
Over(f, i) ==
  \/ outbox[f][i].status = "expired"
  \/ outbox[f][i].status = "deleted" /\ outbox[f][i - 1].status = "pending_upload"

\* A commit keeps the uploads of ended files closed if it closes its own.
LEMMA OverStays ==
  ASSUME IInv, [Next]_vars, UnfinishedUploadsReleased, NEW f \in FileIds, NEW w,
         Extends(f, w),
         Exists(f) /\ rows[f].mode = "multipart" =>
           \/ multipart[f] = "closed"
           \/ w.status # "expired" /\ (w.status = "deleted" => rows[f].status = "deleting")
  PROVE  UnfinishedUploadsReleased'
<1>t. TypeOK /\ OutboxMirrorsTable /\ RowsInv
  BY DEF IInv
<1> SUFFICES ASSUME NEW g \in FileIds, rows'[g].mode = "multipart",
                    NEW i \in 2..Len(outbox'[g]), Over(g, i)'
             PROVE  multipart'[g] = "closed"
  BY DEF UnfinishedUploadsReleased, Over
<1>1. CASE g # f
  <2>1. rows'[g] = rows[g] /\ outbox'[g] = outbox[g]
    BY <1>1, <1>t DEF Extends, TypeOK
  <2>2. multipart[g] = "closed"
    BY <2>1 DEF UnfinishedUploadsReleased, Over
  <2>3. Exists(g)
    BY <1>t, <2>1 DEF OutboxMirrorsTable, Exists, TypeOK
  <2> QED
    BY <2>2, <2>3, ClosedStays
<1>2. CASE g = f
  <2>1. /\ outbox'[f] = Append(outbox[f], Event(w)) /\ rows'[f] = w
        /\ outbox[f] \in Seq(StatusEvents) /\ Len(outbox[f]) \in Nat
        /\ Len(outbox[f]) = rows[f].version
    BY <1>t DEF Extends, TypeOK, OutboxMirrorsTable
  <2>2. /\ Len(outbox'[f]) = Len(outbox[f]) + 1
        /\ outbox'[f][Len(outbox[f]) + 1] = Event(w)
        /\ \A j \in 1..Len(outbox[f]) : outbox'[f][j] = outbox[f][j]
    BY <2>1
  <2>3. i \in 2..Len(outbox[f]) + 1 /\ Len(outbox[f]) >= 1
    BY <1>2, <2>1, <2>2
  <2>4. Exists(f) /\ rows[f].mode = "multipart" /\ outbox[f][rows[f].version] = Event(rows[f])
    BY <1>t, <1>2, <2>1, <2>3 DEF Exists, Extends, OutboxMirrorsTable
  <2>5. CASE i <= Len(outbox[f])
    <3>1. outbox'[f][i] = outbox[f][i] /\ outbox'[f][i - 1] = outbox[f][i - 1]
      BY <2>1, <2>2, <2>3, <2>5
    <3>2. Over(f, i) /\ i \in 2..Len(outbox[f])
      BY <1>2, <2>1, <2>3, <2>5, <3>1 DEF Over
    <3>3. multipart[f] = "closed"
      BY <2>4, <3>2 DEF UnfinishedUploadsReleased, Over
    <3> QED
      BY <1>2, <2>4, <3>3, ClosedStays
  <2>6. CASE i = Len(outbox[f]) + 1
    <3>a. i - 1 = Len(outbox[f]) /\ Len(outbox[f]) \in 1..Len(outbox[f])
      BY <2>1, <2>3, <2>6
    <3>b. outbox'[f][i] = Event(w)
      BY <2>2, <2>6
    <3>c. outbox'[f][i - 1] = outbox[f][rows[f].version]
      BY <2>1, <2>2, <3>a
    <3>d. Over(f, i)'
      BY <1>2
    <3>e. \/ Event(w).status = "expired"
          \/ Event(w).status = "deleted" /\ Event(rows[f]).status = "pending_upload"
      BY <2>4, <3>b, <3>c, <3>d DEF Over
    <3>2. w.status = "expired" \/ (w.status = "deleted" /\ rows[f].status = "pending_upload")
      BY <3>e DEF Event
    <3>3. multipart[f] = "closed"
      BY <2>4, <3>2
    <3> QED
      BY <1>2, <2>4, <3>3, ClosedStays
  <2> QED
    BY <2>1, <2>3, <2>5, <2>6
<1> QED
  BY <1>1, <1>2

\* A step that leaves table and outbox alone keeps the uploads of ended files closed.
LEMMA OverUnchanged ==
  ASSUME IInv, [Next]_vars, UnfinishedUploadsReleased, UNCHANGED table
  PROVE  UnfinishedUploadsReleased'
<1> SUFFICES ASSUME NEW g \in FileIds, rows[g].mode = "multipart",
                    NEW i \in 2..Len(outbox[g]), Over(g, i)
             PROVE  multipart'[g] = "closed"
  BY DEF UnfinishedUploadsReleased, Over, table
<1>1. multipart[g] = "closed"
  BY DEF UnfinishedUploadsReleased, Over
<1>2. Exists(g)
  BY DEF IInv, OutboxMirrorsTable, Exists, TypeOK
<1> QED
  BY <1>1, <1>2, ClosedStays

\* A request or a run that holds the row of a file has a file that exists.
LEMMA HeldRowsExist ==
  ASSUME IInv
  PROVE  /\ \A r \in Requests : reqs[r].pc \in Working =>
              reqs[r].file \in FileIds /\ Exists(reqs[r].file)
         /\ \A c \in Cleaners, f \in FileIds : IsNext(c, f) => Exists(f) /\ expiry[f] > 0
<1>t. TypeOK
  BY DEF IInv
<1>1. ASSUME NEW v, NEW f \in FileIds, SnapshotOf(v, f) PROVE Exists(f)
  BY <1>1, <1>t, RowTypes DEF SnapshotOf, Exists
<1>2. ASSUME NEW r \in Requests, reqs[r].pc \in Working
      PROVE  reqs[r].file \in FileIds /\ Exists(reqs[r].file)
  BY <1>1, <1>2, <1>t, SnapshotTypes, CallKinds DEF IInv, RequestsInv, WorkingOne
<1>3. ASSUME NEW c \in Cleaners, NEW f \in FileIds, IsNext(c, f)
      PROVE  Exists(f) /\ expiry[f] > 0
  BY <1>1, <1>3 DEF IInv, JobsInv, IsNext
<1> QED
  BY <1>2, <1>3

\* Requests that were about to commit an abort before the step still have a closed
\* upload, and so has one that gets there by closing it.
LEMMA AbortsStep ==
  ASSUME IInv, [Next]_vars, AbortsClosed,
         \A q \in Requests : \/ reqs'[q] = reqs[q]
                             \/ reqs'[q].pc # "commit_abort"
                             \/ multipart'[reqs'[q].file] = "closed"
  PROVE  AbortsClosed'
<1> SUFFICES ASSUME NEW q \in Requests, reqs'[q] = reqs[q], reqs[q].pc = "commit_abort"
             PROVE  multipart'[reqs[q].file] = "closed"
  BY DEF AbortsClosed
<1>1. PICK f \in FileIds : f = reqs[q].file
  BY HeldRowsExist, CallKinds DEF UpdateCalls
<1>2. Exists(f) /\ multipart[f] = "closed"
  BY <1>1, HeldRowsExist, CallKinds DEF UpdateCalls, AbortsClosed
<1> QED
  BY <1>1, <1>2, ClosedStays

\* A step that leaves the runs alone, and at most lets a session expire that no
\* run has listed, keeps the uploads of their next rows closed.
LEMMA JobsClosedKept ==
  ASSUME IInv, [Next]_vars, JobsClosed,
         \A d \in Cleaners : jobs'[d] = jobs[d] \/ jobs'[d].pc # "commit",
         \A f \in FileIds : expiry[f] > 0 => expiry'[f] = expiry[f]
  PROVE  JobsClosed'
<1> SUFFICES ASSUME NEW d \in Cleaners, NEW f \in FileIds, jobs'[d].pc = "commit",
                    IsNext(d, f)', jobs'[d].listed[f].mode = "multipart"
             PROVE  multipart'[f] = "closed"
  BY DEF JobsClosed
<1>1. jobs'[d] = jobs[d]
  OBVIOUS
<1>2. IsNext(d, f)
  <2>1. Listed(d)' = Listed(d)
    BY <1>1 DEF Listed
  <2>2. \A g \in Listed(d) : expiry'[g] = expiry[g]
    BY DEF IInv, JobsInv, Listed
  <2> QED
    BY <2>1, <2>2 DEF IsNext
<1>3. Exists(f) /\ multipart[f] = "closed"
  BY <1>1, <1>2, HeldRowsExist DEF JobsClosed
<1> QED
  BY <1>3, ClosedStays

\* The storage call precedes the commit in every handler and in the cleanup job.
LEMMA ReleaseStep ==
  ASSUME IInv, ReleaseInv, [Next]_vars PROVE ReleaseInv'
<1>t. TypeOK /\ ExpiryOrder /\ AbortsClosed /\ JobsClosed /\ UnfinishedUploadsReleased
  BY DEF IInv, ReleaseInv
<1>x. ASSUME UNCHANGED expiry PROVE ExpiryOrder'
  BY <1>t, <1>x DEF ExpiryOrder, Expired
<1>j. ASSUME UNCHANGED <<expiry, jobs>> PROVE ExpiryOrder' /\ JobsClosed'
  BY <1>t, <1>j, <1>x, JobsClosedKept
<1>a. ASSUME UNCHANGED reqs PROVE AbortsClosed'
  BY <1>t, <1>a, AbortsStep
<1>o. ASSUME UNCHANGED table PROVE UnfinishedUploadsReleased'
  BY <1>t, <1>o, OverUnchanged
<1>g. ASSUME NEW r \in Requests, NEW call, Goto(r, call)
      PROVE  /\ reqs'[r].file = reqs[r].file /\ reqs'[r].pc = call
             /\ \A q \in Requests \ {r} : reqs'[q] = reqs[q]
  BY <1>g, <1>t DEF Goto, TypeOK, RequestStates
<1>r. ASSUME NEW r \in Requests, Return(r)
      PROVE  reqs'[r].pc = "idle" /\ \A q \in Requests \ {r} : reqs'[q] = reqs[q]
  BY <1>r, <1>t DEF Return, TypeOK, Idle
<1>b. ASSUME NEW r \in Requests, NEW call, NEW f, NEW v, NEW e, Begin(r, call, f, v, e)
      PROVE  reqs'[r].pc = call /\ \A q \in Requests \ {r} : reqs'[q] = reqs[q]
  BY <1>b, <1>t DEF Begin, TypeOK
<1>n. ASSUME NEW r \in Requests, reqs'[r].pc # "commit_abort",
             \A q \in Requests \ {r} : reqs'[q] = reqs[q]
      PROVE  AbortsClosed'
  BY <1>t, <1>n, AbortsStep
<1>1. ASSUME NEW r \in Requests, RequestArrives(r) PROVE ReleaseInv'
  <2>1. UNCHANGED <<table, expiry, jobs>>
    BY <1>1
    DEF RequestArrives, ReadOnly, ReplayUpload, InitiateUpload, InitiateMultipartUpload,
        AuthorizeUploadPart, CompleteMultipartUpload, AbortMultipartUpload,
        AuthorizeDownload, CompleteUpload, ReportScanResult, Delete, vars, table
  <2>2. \/ UNCHANGED reqs
        \/ /\ reqs'[r].pc # "commit_abort"
           /\ \A q \in Requests \ {r} : reqs'[q] = reqs[q]
    BY <1>1, <1>b
    DEF RequestArrives, ReadOnly, ReplayUpload, InitiateUpload, InitiateMultipartUpload,
        AuthorizeUploadPart, CompleteMultipartUpload, AbortMultipartUpload,
        AuthorizeDownload, CompleteUpload, ReportScanResult, Delete, vars
  <2> QED
    BY <1>a, <1>j, <1>n, <1>o, <2>1, <2>2 DEF ReleaseInv
<1>2. ASSUME NEW r \in Requests, HandlerStep(r) PROVE ReleaseInv'
  <2>f. reqs[r].pc # "idle" => reqs[r].file \in FileIds
    BY <1>t, SnapshotTypes
  <2>1. ExpiryOrder' /\ JobsClosed'
    <3>1. UNCHANGED <<expiry, jobs>>
      BY <1>2
      DEF HandlerStep, Interrupt, StaleVersion, InsertUpload, InsertUploadConflict,
          CreateMultipart, InsertMultipart, InsertMultipartFails, ReleaseMultipart,
          Assemble, AssembleFails, CompleteRead, Stat, StatFails, CommitReady,
          AbortStorage, CommitAbort, CommitScan, MarkDeleting, RemoveObject, MarkDeleted
    <3> QED
      BY <1>j, <3>1
  <2>2. UnfinishedUploadsReleased'
    <3>1. CASE UNCHANGED table
      BY <1>o, <3>1
    <3>2. ASSUME NEW w, Commits(r, w) PROVE UnfinishedUploadsReleased'
      <4>1. reqs[r].pc = "commit_abort" => multipart[reqs[r].file] = "closed"
        BY <1>t DEF AbortsClosed
      <4> QED
        BY <1>t, <3>2, <4>1, OverStays DEF Commits
    <3> QED
      BY <1>2, <3>1, <3>2, HandlerCommits
  <2>3. AbortsClosed'
    <3>1. CASE AbortStorage(r)
      <4>0. PICK f \in FileIds : f = reqs[r].file
        BY <3>1, <2>f DEF AbortStorage, At
      <4>1. CASE multipart[f] = "closed"
        BY <3>1, <4>0, <4>1, <1>n, <1>r DEF AbortStorage
      <4>2. CASE multipart[f] # "closed"
        <5>1. multipart'[f] = "closed" /\ Goto(r, "commit_abort")
          BY <3>1, <4>0, <4>2, <1>t DEF AbortStorage, TypeOK
        <5>2. reqs'[r].file = f /\ \A q \in Requests \ {r} : reqs'[q] = reqs[q]
          BY <4>0, <5>1, <1>g
        <5> QED
          BY <1>t, <5>1, <5>2, AbortsStep
      <4> QED
        BY <4>1, <4>2
    <3>2. CASE MarkDeleting(r) \/ CompleteRead(r)
      <4>1. /\ reqs'[r].pc # "commit_abort"
            /\ \A q \in Requests \ {r} : reqs'[q] = reqs[q]
        BY <3>2, <1>r, <1>t DEF MarkDeleting, CompleteRead, TypeOK, RequestStates
      <4> QED
        BY <1>n, <4>1
    <3>3. CASE \/ Interrupt(r) \/ StaleVersion(r)
               \/ InsertUpload(r) \/ InsertUploadConflict(r)
               \/ CreateMultipart(r) \/ InsertMultipart(r) \/ InsertMultipartFails(r)
               \/ ReleaseMultipart(r)
               \/ Assemble(r) \/ AssembleFails(r)
               \/ Stat(r) \/ StatFails(r) \/ CommitReady(r)
               \/ CommitAbort(r) \/ CommitScan(r) \/ RemoveObject(r) \/ MarkDeleted(r)
      <4>1. Return(r) \/ \E call \in Calls \ {"commit_abort"} : Goto(r, call)
        BY <3>3
        DEF Interrupt, StaleVersion, InsertUpload, InsertUploadConflict, CreateMultipart,
            InsertMultipart, InsertMultipartFails, ReleaseMultipart, Assemble,
            AssembleFails, Stat, StatFails, CommitReady, CommitAbort, CommitScan,
            RemoveObject, MarkDeleted, Calls, InsertCalls, UpdateCalls, OtherCalls
      <4> QED
        BY <4>1, <1>g, <1>n, <1>r
    <3> QED
      BY <1>2, <3>1, <3>2, <3>3 DEF HandlerStep
  <2> QED
    BY <2>1, <2>2, <2>3 DEF ReleaseInv
<1>3. ASSUME NEW f \in FileIds, ClientStep(f) PROVE ReleaseInv'
  <2>1. UNCHANGED <<table, reqs, jobs>>
    BY <1>3 DEF ClientStep, PutObject, UploadParts, ExpireSession
  <2>2. CASE ExpireSession(f)
    <3>1. \A g \in FileIds : expiry[g] > 0 => expiry'[g] = expiry[g]
      BY <1>t, <2>2 DEF ExpireSession, TypeOK
    <3> QED
      BY <1>a, <1>o, <1>t, <2>1, <2>2, <3>1, ExpiryStep, JobsClosedKept DEF ReleaseInv
  <2>3. CASE PutObject(f) \/ UploadParts(f)
    BY <1>a, <1>j, <1>o, <2>1, <2>3 DEF PutObject, UploadParts, ReleaseInv
  <2> QED
    BY <1>3, <2>2, <2>3 DEF ClientStep
<1>4. ASSUME NEW c \in Cleaners, CleanupStep(c) PROVE ReleaseInv'
  <2>1. UNCHANGED <<expiry, reqs>>
    BY <1>4
    DEF CleanupStep, ListExpiredUploads, CleanupCrash, CleanupRelease, CleanupCommit,
        CleanupContinue
  <2>n. ASSUME NEW f \in FileIds, NextRow(c, f)
        PROVE  jobs'[c].pc # "commit" /\ \A d \in Cleaners \ {c} : jobs'[d] = jobs[d]
    BY <1>t, <2>n DEF NextRow, TypeOK
  <2>2. JobsClosed'
    <3>1. ASSUME NEW f \in FileIds, CleanupRelease(c, f) PROVE JobsClosed'
      <4>1. /\ jobs'[c].listed = jobs[c].listed
            /\ \A d \in Cleaners \ {c} : jobs'[d] = jobs[d]
        BY <1>t, <3>1 DEF CleanupRelease, TypeOK, JobStates
      <4>2. jobs[c].listed[f].mode = "multipart" => multipart'[f] = "closed"
        BY <1>t, <3>1 DEF CleanupRelease, TypeOK
      <4> SUFFICES ASSUME NEW d \in Cleaners, NEW g \in FileIds, jobs'[d].pc = "commit",
                          IsNext(d, g)', jobs'[d].listed[g].mode = "multipart"
                   PROVE  multipart'[g] = "closed"
        BY DEF JobsClosed
      <4>3. IsNext(d, g) /\ jobs'[d].listed = jobs[d].listed
        <5>1. jobs'[d].listed = jobs[d].listed
          BY <4>1
        <5>2. Listed(d)' = Listed(d)
          BY <5>1 DEF Listed
        <5> QED
          BY <2>1, <5>1, <5>2 DEF IsNext
      <4>4. CASE d = c
        BY <1>t, <3>1, <4>1, <4>2, <4>3, <4>4, OneIsNext DEF CleanupRelease
      <4>5. CASE d # c
        BY <1>t, <4>1, <4>3, <4>5, HeldRowsExist, ClosedStays DEF JobsClosed
      <4> QED
        BY <4>4, <4>5
    <3>2. CASE ~\E f \in FileIds : CleanupRelease(c, f)
      <4>1. /\ jobs'[c].pc # "commit"
            /\ \A d \in Cleaners \ {c} : jobs'[d] = jobs[d]
        <5>1. CASE ListExpiredUploads(c) \/ CleanupCrash(c)
          BY <1>t, <5>1 DEF ListExpiredUploads, CleanupCrash, NoJob, TypeOK
        <5>2. ASSUME NEW f \in FileIds, CleanupCommit(c, f) \/ CleanupContinue(c, f)
              PROVE  NextRow(c, f)
          BY <5>2 DEF CleanupCommit, CleanupContinue
        <5> QED
          BY <1>4, <2>n, <3>2, <5>1, <5>2 DEF CleanupStep
      <4> QED
        BY <1>t, <2>1, <4>1, JobsClosedKept
    <3> QED
      BY <3>1, <3>2
  <2>3. UnfinishedUploadsReleased'
    <3>1. ASSUME NEW f \in FileIds, CleanupCommit(c, f) PROVE UnfinishedUploadsReleased'
      <4>1. rows[f].mode = "multipart" => multipart[f] = "closed"
        BY <1>t, <3>1, CleanupCommits DEF CleanupCommit, JobsClosed
      <4>2. PICK w : Extends(f, w)
        BY <3>1, CleanupCommits
      <4> QED
        BY <1>t, <4>1, <4>2, OverStays
    <3>2. CASE ~\E f \in FileIds : CleanupCommit(c, f)
      BY <1>4, <1>o, <3>2
      DEF CleanupStep, ListExpiredUploads, CleanupCrash, CleanupRelease, CleanupContinue
    <3> QED
      BY <3>1, <3>2
  <2> QED
    BY <1>a, <1>x, <2>1, <2>2, <2>3 DEF ReleaseInv
<1>5. CASE UNCHANGED vars
  BY <1>5, <1>a, <1>j, <1>o DEF vars, ReleaseInv
<1> QED
  BY <1>1, <1>2, <1>3, <1>4, <1>5 DEF Next

\* An upload is recorded as expired, or as deleted by an abort, only once the store
\* has closed it: whatever versions clients send, whatever calls fail or crash.
THEOREM EndedUploadsAreReleased == Spec => []UnfinishedUploadsReleased
<1>1. Init => ReleaseInv
  <2> SUFFICES ASSUME Init PROVE ReleaseInv
    OBVIOUS
  <2>1. Expired = {}
    BY DEF Init, Expired
  <2>2. UnfinishedUploadsReleased
    BY DEF Init, UnfinishedUploadsReleased, NoRow
  <2> QED
    BY <2>1, <2>2
    DEF Init, ReleaseInv, ExpiryOrder, AbortsClosed, JobsClosed, Idle, NoJob
<1>2. IInv /\ ReleaseInv /\ [Next]_vars => ReleaseInv'
  BY ReleaseStep
<1>3. ReleaseInv => UnfinishedUploadsReleased
  BY DEF ReleaseInv
<1> QED
  BY <1>1, <1>2, <1>3, InductiveInvariant, PTL DEF Spec

-----------------------------------------------------------------------------
(* Downloads of scanned files. *)

\* The event tells of a version that AuthorizeDownload gives out.
Offered(e) == e.status = "ready" /\ e.scan \in {"clean", "skipped"}

\* Event n of f is the scanner's report on the ready file that event n - 1 told of.
ScannedAt(f, n) ==
  /\ n > 1
  /\ outbox[f][n].status = "ready" /\ outbox[f][n].scan = "clean"
  /\ outbox[f][n - 1].status = "ready" /\ outbox[f][n - 1].scan = "pending"

ScanInv ==
  /\ \A f \in FileIds : \A n \in 1..Len(outbox[f]) : Offered(outbox[f][n]) => ScannedAt(f, n)
  /\ \A f \in FileIds, n \in 0..MaxVersion :
       <<f, n>> \in downloads => n \in 1..Len(outbox[f]) /\ Offered(outbox[f][n])

\* A transition of the lifecycle appends one event, and it offers the file for
\* download only when it is a clean report on a ready file that was pending.
LEMMA LifecycleAppends ==
  ASSUME IInv, ScanRequired, Lifecycle!LifecycleNext
  PROVE  \E f \in FileIds, e \in StatusEvents :
           /\ outbox' = [outbox EXCEPT ![f] = Append(outbox[f], e)]
           /\ Offered(e) => /\ e.scan = "clean"
                            /\ rows[f].status = "ready" /\ rows[f].scan = "pending"
<1>t. TypeOK
  BY DEF IInv
<1>1. PICK f \in FileIds : Lifecycle!LifecycleStep(f)
  BY DEF Lifecycle!LifecycleNext
<1>2. /\ rows[f].status \in Statuses /\ rows[f].scan \in ScanStatuses
      /\ rows[f].version \in Nat
  BY <1>t, RowTypes DEF Metadata
<1> DEFINE state == [g \in FileIds |-> Event(rows[g])]
<1>3. /\ state[f].status = rows[f].status /\ state[f].scan = rows[f].scan
      /\ state[f].version = rows[f].version
  BY DEF Event
<1>p. ASSUME NEW status \in Statuses, NEW scan \in ScanStatuses,
             Lifecycle!Publish(f, status, scan),
             status = "ready" /\ scan \in {"clean", "skipped"} =>
               /\ scan = "clean" /\ rows[f].status = "ready" /\ rows[f].scan = "pending"
      PROVE  \E e \in StatusEvents :
               /\ outbox' = [outbox EXCEPT ![f] = Append(outbox[f], e)]
               /\ Offered(e) => /\ e.scan = "clean"
                                /\ rows[f].status = "ready" /\ rows[f].scan = "pending"
  <2> DEFINE e == [status |-> status, scan |-> scan, version |-> rows[f].version + 1]
  <2>1. e \in StatusEvents /\ e.status = status /\ e.scan = scan
    BY <1>2 DEF StatusEvents
  <2>2. outbox' = [outbox EXCEPT ![f] = Append(outbox[f], e)]
    BY <1>p, <1>3 DEF Lifecycle!Publish
  <2> HIDE DEF e
  <2> QED
    BY <1>p, <2>1, <2>2 DEF Offered
<1> HIDE DEF state
<1>4. CASE Lifecycle!Create(f)
  <2>1. Lifecycle!Publish(f, "pending_upload", "pending")
    BY <1>4 DEF Lifecycle!Create
  <2> QED
    BY <1>p, <2>1 DEF Statuses, ScanStatuses
<1>5. CASE Lifecycle!Verify(f)
  <2>1. Lifecycle!Publish(f, "ready", "pending")
    BY <1>5 DEF Lifecycle!Verify
  <2> QED
    BY <1>p, <2>1 DEF Statuses, ScanStatuses
<1>6. CASE Lifecycle!Scan(f)
  <2>1. rows[f].status = "ready" /\ rows[f].scan = "pending"
    BY <1>3, <1>6 DEF Lifecycle!Scan, state
  <2>2. PICK s \in {"clean", "infected"} : Lifecycle!Publish(f, "ready", s)
    BY <1>6 DEF Lifecycle!Scan
  <2> QED
    BY <1>p, <2>1, <2>2 DEF Statuses, ScanStatuses
<1>7. CASE Lifecycle!StartDelete(f) \/ Lifecycle!FinishDelete(f) \/ Lifecycle!Abandon(f)
  <2>1. \E s \in {"deleting", "deleted", "expired"} : Lifecycle!Publish(f, s, rows[f].scan)
    BY <1>3, <1>7
    DEF Lifecycle!StartDelete, Lifecycle!FinishDelete, Lifecycle!Abandon, state
  <2> QED
    BY <1>2, <1>p, <2>1 DEF Statuses
<1> QED
  BY <1>1, <1>4, <1>5, <1>6, <1>7 DEF Lifecycle!LifecycleStep

\* The outbox only grows, so what made a version downloadable stays on record.
LEMMA ScanStep ==
  ASSUME ~AnyExpected, ScanRequired, IInv, ScanInv, [Next]_vars PROVE ScanInv'
<1>t. TypeOK /\ OutboxMirrorsTable /\ RowsInv
  BY DEF IInv
<1>1. ASSUME UNCHANGED <<outbox, downloads>> PROVE ScanInv'
  BY <1>1 DEF ScanInv, ScannedAt
<1>2. ASSUME Lifecycle!LifecycleNext, UNCHANGED downloads PROVE ScanInv'
  <2>1. PICK f \in FileIds, e \in StatusEvents :
          /\ outbox' = [outbox EXCEPT ![f] = Append(outbox[f], e)]
          /\ Offered(e) => /\ e.scan = "clean"
                           /\ rows[f].status = "ready" /\ rows[f].scan = "pending"
    BY <1>2, LifecycleAppends
  <2> DEFINE k == Len(outbox[f])
  <2>2. /\ k \in Nat /\ Len(outbox'[f]) = k + 1 /\ outbox'[f][k + 1] = e
        /\ \A i \in 1..k : outbox'[f][i] = outbox[f][i]
        /\ \A g \in FileIds \ {f} : outbox'[g] = outbox[g]
    BY <1>t, <2>1 DEF TypeOK
  <2>3. rows[f].status = "ready" => k >= 1 /\ outbox[f][k] = Event(rows[f])
    BY <1>t, <2>2 DEF OutboxMirrorsTable, RowsInv, NoRow, Exists
  <2> HIDE DEF k
  <2>4. ASSUME NEW g \in FileIds, NEW n \in 1..Len(outbox'[g]), Offered(outbox'[g][n])
        PROVE  ScannedAt(g, n)'
    <3>1. CASE g # f
      BY <2>2, <2>4, <3>1 DEF ScanInv, ScannedAt
    <3>2. CASE g = f /\ n \in 1..k
      <4>1. Offered(outbox[f][n])
        BY <2>2, <2>4, <3>2
      <4>2. ScannedAt(f, n)
        BY <4>1, <3>2 DEF ScanInv, k
      <4>3. n - 1 \in 1..k
        BY <2>2, <3>2, <4>2 DEF ScannedAt
      <4> QED
        BY <2>2, <3>2, <4>2, <4>3 DEF ScannedAt
    <3>3. CASE g = f /\ n = k + 1
      <4>1. Offered(e)
        BY <2>2, <2>4, <3>3
      <4>2. /\ e.status = "ready" /\ e.scan = "clean"
            /\ rows[f].status = "ready" /\ rows[f].scan = "pending"
        BY <2>1, <4>1 DEF Offered
      <4>3. k >= 1 /\ n - 1 = k /\ outbox'[f][k] = Event(rows[f]) /\ outbox'[f][n] = e
        BY <2>2, <2>3, <3>3, <4>2
      <4>4. Event(rows[f]).status = "ready" /\ Event(rows[f]).scan = "pending"
        BY <4>2 DEF Event
      <4> QED
        BY <2>2, <3>3, <4>2, <4>3, <4>4 DEF ScannedAt
    <3> QED
      BY <2>2, <2>4, <3>1, <3>2, <3>3
  <2>5. ASSUME NEW g \in FileIds, NEW n \in 0..MaxVersion, <<g, n>> \in downloads
        PROVE  n \in 1..Len(outbox'[g]) /\ Offered(outbox'[g][n])
    <3>1. n \in 1..Len(outbox[g]) /\ Offered(outbox[g][n])
      BY <2>5 DEF ScanInv
    <3>2. CASE g # f
      BY <2>2, <3>1, <3>2
    <3>3. CASE g = f
      BY <2>2, <3>1, <3>3 DEF k
    <3> QED
      BY <3>2, <3>3
  <2> QED
    BY <1>2, <2>4, <2>5 DEF ScanInv
<1>3. ASSUME NEW r \in Requests, RequestArrives(r) PROVE ScanInv'
  <2>1. ASSUME NEW f \in FileIds, AuthorizeDownload(r, f) PROVE ScanInv'
    <3>1. /\ Exists(f) /\ rows[f].version \in 0..MaxVersion
          /\ rows[f].version = Len(outbox[f]) /\ outbox[f][rows[f].version] = Event(rows[f])
          /\ Offered(rows[f])
      BY <1>t, <2>1, RowTypes DEF AuthorizeDownload, OutboxMirrorsTable, RowsInv, NoRow, Offered
    <3>2. rows[f].version \in 1..Len(outbox[f]) /\ Offered(outbox[f][rows[f].version])
      BY <3>1 DEF Exists, Offered, Event
    <3>3. outbox' = outbox /\ downloads' = downloads \cup {<<f, rows[f].version>>}
      BY <2>1 DEF AuthorizeDownload, table
    <3> QED
      BY <3>2, <3>3 DEF ScanInv, ScannedAt
  <2>2. CASE ~\E f \in FileIds : AuthorizeDownload(r, f)
    <3>1. UNCHANGED <<outbox, downloads>>
      BY <1>3, <2>2
      DEF RequestArrives, ReadOnly, ReplayUpload, InitiateUpload, InitiateMultipartUpload,
          AuthorizeUploadPart, CompleteMultipartUpload, AbortMultipartUpload,
          CompleteUpload, ReportScanResult, Delete, vars, table, granted
    <3> QED
      BY <1>1, <3>1
  <2> QED
    BY <2>1, <2>2
<1>4. ASSUME NEW r \in Requests, HandlerStep(r) PROVE ScanInv'
  <2>1. UNCHANGED downloads
    BY <1>4
    DEF HandlerStep, Interrupt, StaleVersion, InsertUpload, InsertUploadConflict,
        CreateMultipart, InsertMultipart, InsertMultipartFails, ReleaseMultipart,
        Assemble, AssembleFails, CompleteRead, Stat, StatFails, CommitReady,
        AbortStorage, CommitAbort, CommitScan, MarkDeleting, RemoveObject, MarkDeleted,
        granted
  <2> QED
    BY <1>1, <1>2, <1>4, <2>1, HandlersRefine DEF table
<1>5. ASSUME NEW f \in FileIds, ClientStep(f) PROVE ScanInv'
  BY <1>1, <1>5 DEF ClientStep, PutObject, UploadParts, ExpireSession, table, granted
<1>6. ASSUME NEW c \in Cleaners, CleanupStep(c) PROVE ScanInv'
  <2>1. UNCHANGED downloads
    BY <1>6
    DEF CleanupStep, ListExpiredUploads, CleanupCrash, CleanupRelease, CleanupCommit,
        CleanupContinue, granted
  <2> QED
    BY <1>1, <1>2, <1>6, <2>1, CleanupRefines DEF table
<1> QED
  BY <1>1, <1>3, <1>4, <1>5, <1>6 DEF Next, vars, table, granted

\* Where scanning is required and clients send versions they were given, every
\* download URL was for a version at which the scanner had found the file clean.
THEOREM DownloadsAreScanned ==
  ASSUME ~AnyExpected PROVE Spec => []DownloadsWereScanned
<1>1. Init => ScanInv
  BY DEF Init, ScanInv
<1>2. IInv /\ (ScanRequired => ScanInv) /\ [Next]_vars => (ScanRequired => ScanInv)'
  BY ScanStep
<1>3. (ScanRequired => ScanInv) => DownloadsWereScanned
  <2> SUFFICES ASSUME ScanRequired, ScanInv, NEW f \in FileIds, NEW n \in 1..MaxVersion,
                      <<f, n>> \in downloads
               PROVE  ScannedAt(f, n)
    BY DEF DownloadsWereScanned, ScannedAt
  <2>1. n \in 0..MaxVersion
    BY ConstantsAssumption
  <2>2. n \in 1..Len(outbox[f]) /\ Offered(outbox[f][n])
    BY <2>1 DEF ScanInv
  <2> QED
    BY <2>2 DEF ScanInv
<1> QED
  BY <1>1, <1>2, <1>3, InductiveInvariant, PTL DEF Spec

=============================================================================
